# libattachsql: a TLA+ model of the asynchronous MySQL client

libattachsql is a C/C++ client library for MySQL built on libuv.  Nothing in it
blocks: the application calls `attachsql_connect_poll` until a connection has
something to say, and everything else happens in libuv callbacks on the same
thread.  This directory models that library component by component, checks the
models with TLC on small instances and proves theorems about the core with
TLAPS.

## 1. Inventory

| component | source | state | operations | module |
|---|---|---|---|---|
| connection and polling | connect.cc | `status`, `command_status`, `local_errcode`, `server_errno`, the socket | connect, poll, resolver, connect and check callbacks, the pending query | Connection, Session |
| packet reader | net.cc | expectation stack `next_packet_queue`, `packet_number`, what has been read | write and read callbacks, `attachsql_con_process_packets`, one handler per packet type | Connection |
| commands | command.cc | `packet_number`, `result`, `server_status` reset per command | send, next row, next result | Connection, Exchange |
| query calls | query.cc | `in_query`, `query_buffer*`, `buffer_rows`, `row_buffer*`, `all_rows_buffered` | query, close, row next, next result, buffering | Connection, ReadBuffer |
| statement calls | statement.cc, statement_getset.cc | `con->stmt`, its parameters and `exec_buffer`, `stmt_row` | prepare, set, execute, reset, long data, row get, close | Connection, Exchange, Statement |
| read buffer | buffer.cc | read, write and packet-end pointers, size, used | grow, truncate | ReadBuffer |
| pool and events | pool.cc, connect.cc | `last_callback`, list of connections, error pointer | add, run, events, calls from inside a callback | Pool |
| teardown | connect.cc, pool.cc | handles and requests in the libuv loop | destroy a connection, destroy a pool | Lifecycle |
| compression | net.cc, command.cc | `read_buffer_compress`, `compressed_packet_number` | send, decompress, poll | Compression |
| TLS | net.cc, connect.cc | `ssl.write_buffer`, `handshake_done`, OpenSSL's BIOs | handshake, encrypt, decrypt, pump | Tls |
| escaping and parameters | query.cc | `query_buffer`, `server_status` | build a query, escape | Escaping |
| packing and typed getters | pack.cc, pack_macros.h, statement_getset.cc | none | pure functions | Packing |
| SHA-1, errors, plain getters | sha1.cc, error.cc, utility.cc | | | none (section 7) |

How the parts interact.  The application's calls and the callbacks share one
`attachsql_connect_t`.  A command pushes the packet type it expects on a stack,
writes to the stream and sets `status` to BUSY.  `on_write` settles a command
that expects nothing.  The read callback, the check callback at the end of
every loop iteration, `attachsql_get_next_row` and the row buffering all call
`attachsql_con_process_packets`, which pops the expectation, compares the packet
number and dispatches on the expectation alone; each handler pushes what must
come next.  `attachsql_connect_poll` turns `status`, `server_errno` and
`command_status` into its return value, without running the loop at all when the
status is IDLE.

What is hard about it: two state variables (`status` and `command_status`) that
are written by the callbacks and by the application's calls in any order; an
answer whose packets mean nothing without the reader's position in it; results
dropped half-way; rows asked for before they have arrived; results of more
packets than a packet number counts; a query given before the connection exists;
a stream that fails between any two of these.  `PROJECT.json` lists each hazard
at its line.

Around this core: a pool runs one loop for several connections and turns what
poll sees into events, from which the application calls back into the library;
rows are pointers into a buffer that libuv's reads make grow; compression and TLS
each put another stream of packets under the one the reader knows; and a
connection is destroyed at any moment of all this.

## 2. Modules

### The connection

* `Connection` - the model.  Its header explains `pc`, which says whether the
  application, the loop, the packet reader or the report of
  `attachsql_connect_poll` is running.  One action per API call, per callback and
  per turn of the packet loop.
* `ConnectionInvariant` - the inductive invariant `Inv`: for each expected packet
  type, where in the server's reply the reader is (`HandshakeInv`, `ResponseInv`,
  `ColumnInv`, `RowInv`, ...), how the packet number follows the server's
  (`NumberInv`) and what remains true once a command was sent over unread packets
  (`StaleInv`).
* `MCConnection` - small sets of server replies for TLC.
* `ConnectionProofs` - type correctness; `Inv` is inductive, and the safety properties
  follow; so does that a connection is a session.

State variables carry the names of the fields of `attachsql_connect_t`.  Five
things stand for more, or less, than a field:

* `in_row` says that `buffer_read_ptr` stands at the body of the current row and not at
  a packet header: `attachsql_packet_read_row` leaves it there, and only
  `attachsql_get_next_row` moves it on.
* `reply`, `pos`, `arrived`, `base` are the inbound stream: the server's answer
  as a record (its kind and how many parameters, columns and rows it has), how
  many of its packets were read, how many are complete in the read buffer, and
  the wire number before its first packet.  `PacketAt` and `PacketCount` say what
  packets such a reply consists of, following the MySQL protocol as net.cc parses
  it.
* `more_results` is the one bit of `server_status` that steers control.
* `server_errno` is 0 or 1; error texts and codes play no role.
* `rows_taken`, `stale` and `logged_in` are history variables.  `stale` becomes
  true when a command is sent while packets of an earlier answer are unread; from
  then on the new answer is behind them in the stream.

A query that is closed with a row in hand leaves the reader in that row.  The next
command makes `attachsql_con_process_packets` take bytes of the row for a length and a
packet number, and those may be anything: the reader waits (`PacketsDone`), refuses
(`OutOfSequence`) or accepts what it finds (`Misread`).  In the last case it hands
arbitrary bytes to a handler, and the model stops there (`pc = "misread"`).

The application.  It may poll at any time and make any call with these
restrictions, which are those of the documentation and the examples: it sends a
command only after poll reported the end of the previous answer, an error or a
row (`Told`; the last only with `EarlyClose`); it calls
`attachsql_query_next_result` only when the current result was read to its end;
it does not send commands on a connection that never logged in.

libuv and the network are external.  A write completes or fails; data arrives in
any number of whole packets at a time (a partial packet makes
`attachsql_con_process_packets` return, as no packet would); a read error or end
of file can come at any moment.  The server answers a command it received
completely and libuv runs `on_write` before it polls for input again, so the
answer is not read before `on_write`.  `uv_write` refuses only a closed stream.

`Session` is the abstract specification of a connection, in nine phases and a
number of rows left: commands are answered one at a time, rows are given one by
one and each once, the end comes after the last of them, and an answer that was
walked away from gives nothing any more; unless it was left with a row in the reader's
hands (`held`), which the reader may then take for an answer (`Garble`).  `ConnectionSession` maps the fields of
`Connection` to it (`SessionPhase`, `SessionRows`) and states
`IsSession == S!Spec`; `ConnectionProofs` proves it.

### The other components

Each of these leaves to `Connection` what `Connection` already models, and adds
one aspect.  Records named `con` hold the fields of `attachsql_connect_t` that
matter there.  The theorems about a module `M` are in `MProofs`, where there are any
(section 5).

* `Exchange` - all six commands, an answer being one packet.  Packet numbers start
  again with every command, so only the count of answers ties an answer to its
  command.  `con.taken[k]` is the command whose answer command k was given.
* `Pool` - `attachsql_pool_run`: the loop (`phase = "loop"`), then one poll per
  connection.  `stack` holds the callbacks that have not returned; the application
  may add connections, connect, query, prepare, execute and close inside any of
  them, and what poll does after its callback (`After`) is done when the frame is
  popped.  `app` is history: what the application was told and what was passed over.
* `ReadBuffer` - buffer.cc as offsets, with `size_t` subtraction modulo `Modulus`,
  between `on_alloc` and the read callback on one side and the packet loop and the
  row calls on the other.  Pointers to rows note whether their bytes were moved,
  written over or given up.
* `Statement` - parameters and who owns the objects behind them, the layout of the
  packet `attachsql_stmt_execute` writes (a list of what was written where, which a
  server then reads back), `attachsql_stmt_check_buffer_size`, and the offsets
  `attachsql_statement_row_get` finds in a row.
* `Escaping` - a query with parameters is built by the SQL mode the library believes
  the server to be in, sent, and read by a server in the mode it is really in.  A
  CHAR_LIKE stands between quotes of the statement's own, single or double ones.
  Numbers are classes: a FLOAT or DOUBLE is one that the printed decimals hold, one
  that they do not, or an infinity.
* `Compression` - the server cuts an answer into compressed packets wherever it
  likes; the library opens at most one per read callback, check callback and row
  call.  Bytes are counted in halves of packets.
* `Tls` - the change from the plain greeting to TLS, `attachsql_ssl_run`,
  `attachsql_ssl_data_check`, `attachsql_ssl_buffer_write` and the error path;
  OpenSSL is a set of queues, and SSL_read returns one record.  Its functions return 0
  for an ALERT (a close_notify; a fatal alert with OpenSSL 1.0) and less for an ERROR (a
  damaged record; a fatal alert with OpenSSL 1.1.1).  The code looks at the second only:
  an ALERT changes nothing (`closed`), and what ends the command is the end of the socket
  (`PollEnd`).
* `Lifecycle` - the handles and requests a connection has in the loop from
  `attachsql_do_connect` to `attachsql_connect_destroy` or `attachsql_pool_destroy`.
  libuv stops the process when a handle is closed twice (`Abort`), which `on_write` does
  when its request was given up because the socket is closing.  What `uv_loop_close`
  does without a loop, or with one that `uv_loop_init` left unmade, is not followed: the
  outcomes "no loop" and "broken loop" only name that it is called.
* `Packing` - lengths, dates, times and integers packed and unpacked, and the integer
  getters.  A byte has `Base` values (256 in a build; the run has 14, so that eight bytes
  stay within TLC's integers), a number of several bytes is a sum over powers of `Base`
  (`Power`), and the parts of a date are stored with the width the struct has: a `char`
  that becomes a `uint8_t` keeps its bits, one that becomes the 32 bits of the day or a
  64-bit length is extended by its sign.  The getters convert as the code does: a number
  becomes the nearest double (`Rounded`: integers of `Mantissa` and more lie between the
  doubles there), and one that is passed to `snprintf` as a `char` or a `uint16_t` is
  printed as a number of its width where `PRIu8`, `PRId8` and `PRId16` name that width
  (`narrow_formats`), and as the `int` it was promoted to where they do not.

## 3. Runs

There is one run per component (two for the connection), and each lets everything
happen that its module models.  Where the code does not keep what one would wish,
the property says exactly when: `unless a COM_STMT_RESET came before`, `where char is
signed`.  Section 4 lists these exceptions.  A property is as strong as the code
allows, and its mutant shows that it is not weaker.

| run | module | checks |
|---|---|---|
| `connection` | Connection, 3 commands, every kind of reply, early close, buffering, no assertions | `Inv`, `LockStep`, `QueueFits`, `BusyAwaits`, `EofIsComplete`, `RefusalExplained`, `NoStaleAnswer`; `IsSession`: Connection implements Session |
| `connection_live` | Connection, `LiveSpec`, assertions, results read to the end, also broken ones | `EofMeansNoMoreRows`, `RowReadyIsRow`, `CommandAnswered`, `PendingQuerySent` |
| `refused` | Connection, answers of more than 128 packets | `RefusedMeansOutOfSequence`, violated: finding 1 |
| `exchange` | Exchange, `LiveSpec` | `CountKept` (`BehindByResets`, `AnswersInOrder`), `AnswerIsOwn`, `CommandEnds` |
| `pool` | Pool, `LiveSpec` | `CommandsKept` (`CommandKept`, `OneAtATime`), `EventsInPlace` (`ConnectedFirst`, `ErrorOfThisRun`), `EndAfterRowsAnnounced`, `AnswerRead` |
| `read_buffer` | ReadBuffer | `StreamInBuffer` (`StreamKept`, `InBuffer`), `RoomOffered` (`NeverShifts`, `RoomEnough`), `RowsNotOverwritten` |
| `statement` | Statement | `ParametersOwned` (`DeletesOwn`, `NothingLeft`), `DecodedNullsLast`, `RowRead` (`RowDecoded`, `RowFits`), `ExecFits` |
| `escaping` | Escaping | `TextUnderstood` (`Understood`, `UnderstoodByDefault`), `BuiltInside` (`BufferFits`), `NumberKept` |
| `compression` | Compression, `LiveSpec` | `PacketsOpened` (`StreamUnpacked`, `RefusalExplained`), `EndIsWhole`, `AnswerRead` |
| `packing` | Packing | `PackedKept` (`LengthKeptBelowSign`, `DatetimeKept`, `TimeKeptBelowHour`), `ColumnsExact` (`GettersExact`, `PrintedExact`, `DoubleExact`) |
| `tls` | Tls, `LiveSpec` | `SentEncrypted` (`CredentialsEncrypted`), `SentIntact`, `AnswersKept` (`NothingLost`, `ErrorReported`), `CommandEnds` |
| `lifecycle` | Lifecycle, `LiveSpec` | `LoopCloses` (`ConnectedCloses`, `PoolCloses`, `ClosedOnce`), `DestroyReturns` |

A property followed by names in parentheses is the conjunction of those, each of which
is stated with its own comment in the module and has a mutant of its own.  Each module's
`TypeOK` is checked too, as a conjunct of one of the properties (`Inv` in `connection`).

### Bounds

* Connection: `MaxCommands` bounds the commands and further results asked for.  Three
  are enough for a command over unread packets, one that fails because of it, and one
  after that; a prepare, an execute and a close; or a result with two successors.
  Results have 1 or 2 columns and 0 to 2 rows: the first and the last element of a
  list are told apart, and empty lists occur.  Statements have 0 or 2 parameters and
  columns.  `QueueSize` is two, less than in a build (`ATTACHSQL_DEFAULT_PACKET_QUEUE_SIZE`)
  and just enough for `QueueFits`.  `connection_live` has two commands, and results that
  break off before and after their first row.  `refused` has an answer of 131 packets
  to pass number 127.
* Exchange: five commands, so that resets and long data can cancel out and more can
  follow.
* Pool: two connections, two commands in all (a query or prepare that waits for the
  connection and one sent from a callback, on the same or on the other connection),
  results of up to two rows, which is one more than the first.
* ReadBuffer: a buffer of 8 bytes of which libuv asks for 5, packets of 2 and 3 bytes
  with a header of 1, 14 bytes per answer and any number of answers: the buffer is
  emptied, doubled and read past its middle.
* Statement: up to two parameters and three columns, NULL bits in groups of two
  instead of eight so that one and two groups occur, strings that fit the default
  buffer and that need it doubled, two live datetime objects.
* Escaping: texts of up to two characters of each class (ordinary, single quote, double
  quote, backslash, control), two parameters, numbers of every class.
* Compression: answers of two packets in up to four compressed ones; numbers modulo 8
  instead of 256, so that the sign bit is reached.
* Packing: `Values` are the numbers on both sides of every boundary of the encoding and
  of every signed and unsigned width, packed as lengths and, with either sign, held by
  columns of every width they fit; parts of dates that are zero, small or have the high
  bit set, years of one and two bytes, microseconds that are zero or not.  `Mantissa`
  is to `Base^8` nearly what 2^53 is to 2^64: numbers on both sides of it, odd and even.
* Tls: messages of one or two chunks, answers of one to three records, reads of up to
  two records, three commands.
* Lifecycle: two connections, two outstanding writes each, with and without a pool.

### Fairness

The application keeps polling (or running the pool), and the library's own code does
not stop in the middle of a call: weak fairness, since both are always possible.
libuv and the network deliver: lookups and connection attempts end, queued writes are
flushed or fail, sent packets arrive.  These are strong in `Connection`, `Pool`,
`Exchange` and `Tls`, because poll enters and leaves the loop (`UV_RUN_NOWAIT`) and a
callback is possible only inside it; in `Compression`, where a poll is one step, weak
fairness of the server, the network and the poll is enough.  In `Tls` the socket drains,
and a server that was sent a damaged stream closes it; one that has closed TLS closes the
socket, too, and the poll gets to see that.  In `Lifecycle` only the
callbacks libuv runs while the pool is being destroyed are fair; a server that never
answers is possible.  No fairness is put on the application's commands or on failures.
`connection_live` is restricted to results that are read to the end and to greetings of
a known protocol version with a scramble: a greeting with another version, or one without
a scramble where there is a password, leaves the connection CONNECTING for ever (listed as
a hazard).

### Deadlock

It is checked in all runs but `packing`, where a value is packed and unpacked and
nothing more happens.  `Aborted` stutters for a process that an assertion has ended or
that has taken a row for a packet, `Done` for one that libuv has stopped,
and `PollWaits` for one that waits for the socket.

## 4. Findings

1. `refused`: `packet_number` is a `uint8_t` and is compared with a `char` (net.cc:568).
   Where char is signed, the packet with number 128 is refused as out of sequence.  The
   compressed layer has the same comparison (net.cc:463).

The properties of the other runs hold with these exceptions, each of which TLC reaches:

| where | what happens | named in |
|---|---|---|
| command.cc:143, connect.cc:316 | a row that has not arrived when it is asked for is reported as EOF, in a build without assertions | `EofMeansNoMoreRows` |
| net.cc:572, connect.cc:316 | the same for a row that is refused for its packet number on an idle connection | `EofMeansNoMoreRows` |
| net.cc:619 | an error packet in place of a row, the first one included, is reported as a row | `RowReadyIsRow` |
| query.cc:258, net.cc:551 | after a query is closed with a row in hand, bytes of the row are read as a packet header, and may be accepted as an answer to the next command | `NoStaleAnswer`, `IsSession` (`Garble`) |
| command.cc:125 | COM_STMT_RESET expects no answer but gets one; every later command reads the answer of the one before | `BehindByResets`, `AnswerIsOwn` |
| command.cc:131 | COM_STMT_SEND_LONG_DATA expects an answer that never comes | `Exchange!CommandEnds` |
| connect.cc:199 | the second of two answers without rows is not announced; nor is any row of a statement after the first, since `attachsql_statement_row_next` does not reset `last_callback` | `EndAfterRowsAnnounced`, `Pool!AnswerRead` |
| connect.cc:304 | a query with parameters sent from the CONNECTED event is sent twice | `OneAtATime`, `CommandKept` |
| pool.cc:101 | an event may come with the error of a connection polled before | `ErrorOfThisRun` |
| buffer.cc:62 | the room of the buffer wraps around, so libuv may be offered memory behind the buffer, and stale data is never shifted away | `NeverShifts` (`ReadData` does not continue past the end) |
| buffer.cc:97, query.cc:545 | the current row and kept rows are moved away by realloc; kept rows are written over once the buffer was emptied | `RowsNotOverwritten` |
| statement.cc:143 | a NULL before another parameter displaces the types | `DecodedNullsLast` |
| statement.cc:245 | a packet longer than the default buffer may be written behind its end | `ExecFits` |
| statement.cc:318, statement_getset.cc:138 | a parameter set again is deleted as a datetime; the object of a TIME is never deleted | `DeletesOwn`, `NothingLeft` |
| statement_getset.cc:236 | a statement prepared over another writes behind the row of that one | `RowFits` |
| query.cc:117, command.cc:52 | before the login and after an error a text is escaped for the default mode | `Understood` |
| query.cc:192 | between double quotes, for a server that does not read backslashes, single quotes are doubled and double ones are not | `Misquoted` in `ReadAsGiven` |
| query.cc:150, :158 | the formats of signed and unsigned BIGINT are exchanged; a FLOAT has seven decimals and a DOUBLE fifteen, whatever their size, and an infinity is printed by name | `NumberKept` |
| command.cc:34, net.cc:485, net.cc:1024 | over compression a close waits for an answer, a large packet is refused for want of room, a failed send is waited for, and semi-blocking waits for data that was received | `Compression!AnswerRead`, `Compression!RefusalExplained` |
| pack.cc:45 | a one-byte length with the high bit set is sign-extended where char is signed | `LengthKeptBelowSign` |
| pack.cc:208 | a time of whole hours is packed as zero | `TimeKeptBelowHour` |
| statement_getset.cc:368, :661 | a negative MEDIUMINT, and a negative integer read as double, come out positive | `GettersExact`, `DoubleExact` |
| statement_getset.cc:672 | an integer between two doubles is rounded | `DoubleExact` |
| statement_getset.cc:750, :766 | where the formats do not name their width, an unsigned TINY is printed with the sign of the platform's char (and a signed one without, where char is unsigned), and a negative SHORT without its sign; a TINY read as double has the sign of char, too | `PrintedExact`, `DoubleExact` |
| net.cc:51 | of several TLS records in one read all but the first may be thrown away | `NothingLost`, `Tls!CommandEnds` |
| net.cc:96, net.cc:355 | on a full socket a message of several chunks may be damaged and a TLS error overwritten | `SentIntact`, `ErrorReported` |
| net.cc:52, net.cc:409 | that a function of OpenSSL returned 0 is ignored; the command waits for the end of the socket | `Tls!CommandEnds` (by `PollEnd`) |
| connect.cc:124 | destroying a connection that is connecting, was refused or was lost leaves handles or requests in the loop | `ConnectedCloses` |
| connect.cc:136 | `uv_loop_close` is called for a connection that never made a loop, or whose loop could not be initialised | `ConnectedCloses` |
| net.cc:369 | a write that is given up because its socket is being closed closes it again, which stops the process; so does destroying a pool before the loop has closed a lost socket | `ClosedOnce`, `DestroyReturns` |
| pool.cc:57 | a lookup under way when a pool is destroyed opens a socket nobody closes | `PoolCloses`, `DestroyReturns` |

## 5. Proofs

Every theorem holds for all values of the constants its module declares, under the
assumption that is named there and that TLC evaluates on each run.  The first column is
the module; each safety theorem is `Spec => []P` for the property P in the second.

| module | proved | from |
|---|---|---|
| `ConnectionProofs` | `TypeOK`, `Inv`, `LockStep`, `QueueFits`, `BusyAwaits`, `EofIsComplete`, `RefusalExplained`, the action property `NoStaleAnswer` | `TypeOK`, `Inv` |
| `ConnectionProofs` | the refinement `IsSession`; `RowReadyIsRow`, `EofMeansNoMoreRows` | `Inv`, `LoginInv`, `ToldInv` |
| `ReadBufferProofs` | `StreamInBuffer`, `RoomOffered`, `RowsNotOverwritten` | `BufferInv` |
| `LifecycleProofs` | `LoopCloses` | `LifecycleInv` |
| `ExchangeProofs` | `CountKept`, `AnswerIsOwn` | `ExchangeInv` |
| `PoolProofs` | `CommandsKept`, `EventsInPlace`, the action property `EndAfterRowsAnnounced` | `PoolInv` |
| `StatementProofs` | of Statement: `ParametersOwned`, `DecodedNullsLast`, `RowRead`, `ExecFits` | `StatementInv` |
| `StatementProofs` | of Escaping: `TextUnderstood`, `BuiltInside`, `NumberKept` | `EscapingInv` |
| `StatementProofs` | of Packing: `PackedKept`, `ColumnsExact` | `PackingInv` |
| `CompressionProofs` | `PacketsOpened`, `EndIsWhole` | `CompressionInv` |
| `TlsProofs` | `SentEncrypted`, `AnswersKept`; `SentIntact` | `TlsInv`; with it `IntactInv` (`Held`) |

Each of the invariants in the third column was checked by TLC as an invariant of the
component's run before it was proved.

### The connection

Assumptions.  `RepliesAssumption` (the server sends replies of the MySQL protocol: a
result set has columns, a greeting is a greeting or an error) and
`ApplicationAssumption` (the types of the other constants).  All but the types also
assume `NoRowErrors`: no result set is broken off by an error packet.  Without it the
reader takes that packet for a row and waits for a packet that never comes
(`RowReadyIsRow`).

The argument.  None of the properties is inductive.  The packet reader dispatches
on the expected packet type alone, so `LockStep` needs to know, for each expected
type, at which packet of which kind of reply the reader then is, and what its own
counters are worth: that is `ReaderInv`, one conjunct per expected type
(`HandshakeInv` ... `RowInv`, and `NothingInv` for the cases in which nothing is
expected).  `ReaderInv` speaks of `Together`, a stream that is open and over which
no command was sent too early.  That a packet of an abandoned answer is never
accepted is a matter of numbers: while `Together`, the reader's number is the
server's and at most 127 (`NumberInv`), because the comparison with a signed char
refuses 128 and above; so the packet left at the head when the next command
resets `packet_number` has a number from 2 to 128, while the fresh command expects
1 (`SentOverInv`, lemma `AcceptedIsFresh`).  It is refused, the expectations are
dropped, and every later command meets the same packet with the same number.  All of
that holds only of a reader that stands at a packet header.  One that was left in a row
stays there for good (`RowInHandInv`): the reader may wait, refuse or misread, but no
later command gets it out of the row, and no packet behind it is read.

Layout.  `ConnectionProofs`: facts about replies and the stack, `TypeStep` with one case
per action, `TypeCorrect`; then which packet is at which position (`ResultPackets`,
`PreparePackets`), what accepting a packet keeps for every handler (`AcceptedIsFresh`,
`AcceptKeeps`, `StreamKeeps`), one lemma per handler, command, callback and call
(`ReadEofStep`, `SendFresh`, `SendStale`, `OnWriteStep`, ...), `InvStep` with one case
per action, and the theorems.

The refinement.  A step of `Connection` is a step of `Session` or leaves phase and rows
alone.  The mapping reads the phase off `status`, `command_status` and `logged_in`, and
the rows that are left off the reply, so the proof needs, beyond `Inv`, what is true
before the login and after it (`LoginInv`).  There is one lemma per action, and
`StepSimulated` puts them together.  `EofMeansNoMoreRows` needs `ToldInv` besides.  Its
proof turned up a case that the property had not named: on an idle connection a row with
a packet number above 127 is refused, `command_status` becomes READ_FAILED, and poll
reports EOF in a build without assertions.  The property names it now.

### The other components

* `ReadBuffer`.  `BufferAssumption`: libuv asks for no more than the default size of the
  buffer, a packet is not shorter than its header, and `size_t` is large enough for
  twice the largest buffer.  `BufferInv` adds to the properties that `buffer_used` and
  the write offset are the same number (`SizeInv`), where the reader is inside the
  packet of a current row (`ReaderInv`), and where the rows end (`RowInv`, `KeptInv`).
  Why the data is never shifted is lemma `ShortRoom`: if the room is short although both
  the read offset and `buffer_used` were subtracted, the difference has not wrapped
  around, so the reader, which is behind the writer, is in the first half.
* `Lifecycle`.  The invariant says how the handles and requests of one connection go
  together (`Shape`): the check handle comes with the stream, requests need their
  socket, a connection that was never made has nothing in the loop.  While a pool is
  drained and no lookup is under way, every connection is `Quiet`.  It also says
  whose socket was closed over a write (`Kept`), which `ClosedOnce` needs, and which
  connections have no loop or a broken one (`Looped`).
* `Exchange`.  `ExchangeInv` counts: what was sent, what the server has seen, what is in
  the socket and the buffer, and what was taken add up at every moment, not only when
  the connection is idle.  The counts are cardinalities of sets of commands, so each
  step adds or removes one element.  Answers under way are in the order of their
  commands and newer than those taken; that gives `AnswersInOrder`, and with the count
  `AnswerIsOwn`: without a reset before it there is no older answer to take.
* `Pool`.  The properties speak of a state in the middle of nested callbacks, so
  `PoolInv` says for every frame of `stack` what the assignments still to be done after
  the callback (`After`) rely on (`FrameInv`), that only the first frame is one of the
  poll (`StackInv`), and for every connection what the library and the application
  believe of each other (`ConInv`): who owes whom, who waits, what was heard.
* `Statement`.  `StatementInv` is made of the packet (`PacketInv`: it is the one the
  parameters describe; a buffer that was allocated is at least as large as its first
  allocation, so `ExecFits` is kept), the row (`RowInv`, `RowDecoded`) and the heap
  (`HeapInv`: live datetimes are those lost and those the parameters own).
  `StatementAssumption` has the minimum allocation positive (it is 2060 in
  statement.cc); a buffer that doubles from nothing never grows.
* `Escaping`.  `EscapingAssumption` only says that the bounds are numbers and that a
  query may have a parameter.  A query is remembered with its
  parameters, so `EscapingInv` says that the buffer is what `Build` makes of them, and by
  which flag it was built: the server's own if its flags have come since the last
  command, backslashes otherwise.  The rest is about one text: what is escaped is a
  sequence of pieces of one or two characters, one for each character of the text, and
  the server, which reads with a recursive function (`Read`), takes one whole piece in
  one or two steps and gives back its character (`PiecesRead`), for single quotes always
  and for double ones unless it is a text with quotes built without backslashes.  That it
  stays in step with the pieces is proved by `Everywhere`.  The length of a query is a sum
  over its parameters, and `BuiltInside` compares two sums part by part.
* `Packing`.  `PackingAssumption`: `Base` is even and larger than twelve, so that the
  marks of a length, the lengths of a date (at most 12) and the sign bit are where the
  code has them; the parts of dates are those that fit the struct's fields.  `PackingInv`
  is short: the buffer is what was packed, and what was unpacked is what the buffer says.
  What says it all is arithmetic.  The bytes of `n` are `(n \div Base^i) % Base`, and by
  `NextByte` their sum up to place `i` is `n % Base^i`; so `width` bytes give back
  `n % Base^width` (`IntUnpacked`), and `n` itself if they have room for it (`IntKept`).
  Of the doubles only their spacing matters: `Spacing` exists because `Power[8] <= 2048 *
  Mantissa`, a multiple of it is its own nearest double, and below `Mantissa` the spacing
  is one; that `Power[4] <= Mantissa` makes the narrower types exact.
  `LengthUnpackedAs` applies that to the four forms of a length; for a date and for a
  time there is one layout for each number of bytes (`DateLayout`, `ClockLayout`,
  `MicroLayout`, `TimeLayout`, `MicroTimeLayout`), which packing establishes and
  unpacking reads.  A cast to a signed type of the width that was written gives the value back
  (`SignedKept`); a LONGLONG read as an int keeps its lower four bytes, which is its value
  if that fits (`LongTruncated`, from the uniqueness of the remainder).
* `Compression`.  `CompressionInv` holds what was opened against the server's stream
  (`ReadInv`), the number the next packet must have (`NumberInv`), and where in the
  answer the reader is (`PlaceInv`); one lemma says that opening a packet and one that
  processing packets keep them, and each callback is made of the two.
* `Tls`.  `ConInv` types what is on its way by what it may hold: ssl.write_buffer holds
  only secrets, write_bio none, and what libuv was given none until OpenSSL's handshake
  is finished.  It also says that the offset of ssl.write_buffer and what is used of it
  are one number, without which data would be left behind.  `RestInv` is what is true
  between two polls unless the exceptions of `AnswersKept` occurred: nothing is left in
  read_bio, nothing is queued.  A poll is proved in its parts (`SslRunKeeps`,
  `ReadDataKeeps`, `FlushKeeps`, `OnWritesKeeps`, `ProcessKeeps`); `Follows` says what
  each of them may change, and `Stopped` what an error of OpenSSL leaves.  `PollEnd` is the same poll up to the read
  (`TurnedKeeps`), after which nothing but the status changes.
  After a net error nothing is read or sent any more, so `IntactInv` then asks for no
  more than `SentIntact`; before, it is `Held`.  `SentIntact` needs what the sender knows of the receiver: libuv points to
  ssl_write_buffer, so a message stays whole if the next is not sent before it has left,
  and the next is sent when an answer was read in full.  `Held` has one conjunct for
  each of the three phases (`Greeting`, `Shaking`, and after the handshake `Answering`,
  `Taken` and `Sending`).  `Answering` counts the records that are on their way or read:
  they are one answer at most, with the alert as the last, and while a message is queued
  or not yet seen there is none of its answer (`Starved`).  `Sending` says that what
  was written, followed by what is queued, is what was given, if the socket was never
  full or every message is one chunk, and in the second case that one is queued at most.
  The steps of a poll keep it in the form `Going`, in which the records on their way are
  a parameter, so that a read from the socket moves records without changing it.

Recursive functions.  Sizes of packets are sums over sequences, so is the number that
bytes stand for, a buffer doubles until a value fits, a server reads a text character by
character; all are recursive functions here.  The induction theorems of the
library cannot be instantiated by the provers, so the facts needed about such functions
are proved by a least counterexample: `LeastOf` (a set of numbers that is not empty has
a least one; the order of `Nat` is well-founded), `Everywhere` (what holds at the first
place of an interval and is handed on to the next holds at every place) and `Recursion`
(a function that gives each value from the one before exists).  They stand in
`StatementProofs`, with the proofs of Statement, Escaping and Packing that need them
most, and again, as far as they are needed, in `CompressionProofs` and
`TlsProofs` (where `DataUpTo` picks the data out of what was written), so that each can
be read and checked alone.

### Only model-checked

* Every liveness property (`CommandAnswered`, `PendingQuerySent`, `CommandEnds`,
  `AnswerRead`, `DestroyReturns`): fairness and ENABLED are out of the prover's reach.

Every safety invariant and every action property that a passing run lists is proved; the
run that expects a violation refutes its property.

## 6. Plan

1. The byte offsets of `read_buffer_compress` and of the copy into `read_buffer`, as a
   composition of `Compression` and `ReadBuffer`.
2. TLS and compression together.

## 7. Not modelled

The password scramble (arithmetic of SHA-1), error objects and library information,
getters that return stored values (column names, sizes, `attachsql_query_row_get_offset`),
`attachsql_connect_set_ssl` (it hands files to OpenSSL), the contents of rows.  In
`ReadErr` a greeting that is an error packet always fails the protocol version test that
follows; the byte tested there depends on where the read buffer was truncated, which
`Connection` does not track.  Allocation failures are modelled where they change the
connection's state (`attachsql_do_connect`, `attachsql_stmt_execute` in `Connection`).
`attachsql_pool_create` does not look at what `uv_loop_init` returns; `Lifecycle` starts with
a pool that has its loop.  What a handler makes of the bytes of a row (`misread`), and what
libuv makes of a loop that was never initialised, have no defined outcome, either.
A write past the end of a buffer has no defined outcome: `ReadBuffer` and `Statement`
reach it and do not follow what it destroys.  The second answer of a query that was sent
twice is not followed by `Pool`.

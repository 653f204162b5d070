----------------------------- MODULE Connection -----------------------------
(***************************************************************************)
(* One attachsql_connect_t used by one thread, outside a pool, without TLS *)
(* and without compression: the status machine of connect.cc, the packet   *)
(* reader of net.cc, the commands of command.cc and the query and          *)
(* statement calls of query.cc and statement.cc that drive it.             *)
(*                                                                         *)
(* The library is a set of libuv callbacks plus the calls the application  *)
(* makes, all on one thread; pc says which of them is running:             *)
(*   "app"        the application, free to call the library                *)
(*   "connecting" uv_run inside attachsql_do_connect                       *)
(*   "loop"       uv_run inside attachsql_do_poll                          *)
(*   "read", "check", "next", "buffer"                                     *)
(*                attachsql_con_process_packets, called from the read      *)
(*                callback, the check callback, attachsql_get_next_row and *)
(*                attachsql_query_row_buffer                               *)
(*   "report"     attachsql_connect_poll after attachsql_do_poll           *)
(*   "aborted"    an assertion has stopped the process                     *)
(*   "misread"    process_packets has taken the bytes of a row for a packet *)
(*                header and accepted it; what follows is not modelled     *)
(*                                                                         *)
(* The server is external.  It answers a command with one reply, a run of  *)
(* packets numbered from the command on; the wire keeps their order and    *)
(* delivers any prefix of them at a time.                                  *)
(***************************************************************************)
EXTENDS Integers, Sequences

CONSTANTS
    HandshakeReplies, \* what the server greets a new connection with
    QueryReplies,     \* the replies to COM_QUERY and COM_STMT_EXECUTE
    PrepareReplies,   \* the replies to COM_STMT_PREPARE
    Calls,            \* the commands this application uses
    MaxCommands,      \* bound: commands and further results it asks for
    EarlyClose,       \* whether it drops results it has not read to the end
    QueueSize,        \* ATTACHSQL_DEFAULT_PACKET_QUEUE_SIZE
    BufferingUsed,    \* whether it turns row buffering on and off
    Assertions        \* whether the library is built with assert()

VARIABLES
    status,            \* con->status
    command_status,    \* con->command_status
    queue,             \* con->next_packet_queue[0..next_packet_queue_used-1]
    packet_number,     \* con->packet_number, a uint8_t
    local_errcode,     \* con->local_errcode
    server_errno,      \* con->server_errno, 0 or not
    more_results,      \* ATTACHSQL_SERVER_STATUS_MORE_RESULTS of server_status
    column_count,      \* con->result.column_count
    current_column,    \* con->result.current_column
    in_row,            \* whether buffer_read_ptr stands at the body of a row
    stmt,              \* con->stmt
    in_query,          \* con->in_query
    query_pending,     \* con->query_buffer_length > 0
    pending_statement, \* con->query_buffer_statement
    buffer_rows,       \* con->buffer_rows
    all_rows_buffered, \* con->all_rows_buffered
    row_buffer_count,  \* con->row_buffer_count
    stream,            \* the socket: none, resolving, connecting, open, closed
    writes,            \* uv_write requests whose on_write has not run
    reply,             \* the reply at the head of the inbound stream
    pos,               \* packets of it that have been read
    arrived,           \* packets of it that are complete in the read buffer
    base,              \* the wire number before the reply's first packet
    pc,                \* which code is running
    ret,               \* what the last library call returned
    rows_taken,        \* history: rows of this result the application was given
    stale,             \* history: a command was sent over unread packets
    logged_in,         \* history: the server has accepted the login
    commands           \* how many of those it has asked for

conVars == <<status, command_status, queue, packet_number, local_errcode,
             server_errno, more_results>>
resultVars == <<column_count, current_column, in_row>>
queryVars == <<in_query, query_pending, pending_statement, buffer_rows>>
rowVars == <<all_rows_buffered, row_buffer_count>>
apiVars == <<queryVars, rowVars, commands>>
history == <<rows_taken, stale, logged_in>>
netVars == <<stream, writes>>
wireVars == <<reply, pos, arrived, base>>
vars == <<conVars, resultVars, stmt, queryVars, rowVars, netVars, wireVars,
          pc, ret, rows_taken, stale, logged_in, commands>>

-----------------------------------------------------------------------------
(* The server's replies.                                                    *)

(* A greeting may come from a server before 4.1, without a scramble for the *)
(* password or of another protocol version, or be an error.                 *)
GreetingKinds == {"HANDSHAKE", "OLD_AUTH", "NO_SCRAMBLE", "BAD_HANDSHAKE",
                  "ERR"}
ReplyKinds == GreetingKinds \union {"NONE", "OK", "RESULT", "PREPARE"}

(* more: the server has another result after this one; end: what closes the *)
(* rows of a result set.                                                    *)
Reply == [kind : ReplyKinds, params : Nat, cols : Nat, rows : Nat,
          more : BOOLEAN, end : {"EOF", "ERR"}]

Simple(kind) == [kind |-> kind, params |-> 0, cols |-> 0, rows |-> 0,
                 more |-> FALSE, end |-> "EOF"]

NoReply == Simple("NONE")
LoginReplies == {Simple("OK"), Simple("ERR")}

Commands == {"QUERY", "STMT_PREPARE", "STMT_EXECUTE", "STMT_CLOSE"}

ASSUME RepliesAssumption ==
    /\ HandshakeReplies \subseteq {Simple(k) : k \in GreetingKinds}
    /\ QueryReplies \subseteq
         {r \in Reply : /\ r.kind \in {"OK", "ERR", "RESULT"}
                        /\ r.kind = "RESULT" => r.cols > 0}
    /\ PrepareReplies \subseteq {r \in Reply : r.kind \in {"PREPARE", "ERR"}}

ASSUME ApplicationAssumption ==
    /\ Calls \subseteq Commands
    /\ MaxCommands \in Nat
    /\ EarlyClose \in BOOLEAN
    /\ QueueSize \in Nat /\ QueueSize >= 2
    /\ BufferingUsed \in BOOLEAN
    /\ Assertions \in BOOLEAN

(* A list of definitions is followed by an EOF packet unless it is empty.   *)
Definitions(n) == IF n > 0 THEN n + 1 ELSE 0

PacketCount(r) ==
    CASE r.kind = "NONE"    -> 0
      [] r.kind = "RESULT"  -> r.cols + r.rows + 3
      [] r.kind = "PREPARE" -> 1 + Definitions(r.params) + Definitions(r.cols)
      [] OTHER              -> 1

PacketAt(r, i) ==
    CASE r.kind = "RESULT" ->
           (CASE i = 1                -> "RESULT"
              [] i \in 2..(r.cols + 1) -> "COLUMN"
              [] i = r.cols + 2       -> "EOF"
              [] i \in (r.cols + 3)..(r.cols + r.rows + 2) -> "ROW"
              [] OTHER                -> r.end)
      [] r.kind = "PREPARE" ->
           (CASE i = 1                   -> "PREPARE_OK"
              [] i \in 2..(r.params + 1) -> "PARAM"
              [] i > 1 /\ i \in {1 + Definitions(r.params), PacketCount(r)}
                                         -> "EOF"
              [] OTHER                   -> "COLUMN")
      [] OTHER -> r.kind

(* The packet at the head of the stream, and the number it carries.         *)
Packet == PacketAt(reply, pos + 1)
WireNumber == (base + pos + 1) % 256

Unread == pos < PacketCount(reply)

(* The server starts answering with r; its first packet is number b + 1.    *)
Answer(r, b) ==
    /\ reply' = r
    /\ pos' = 0
    /\ arrived' = 0
    /\ base' = b
    /\ rows_taken' = 0

-----------------------------------------------------------------------------
(* The stack of packet types the reader expects.  It is allocated with      *)
(* QueueSize entries and, when they are used up, reallocated to a number of *)
(* bytes: QueueFits says that this never happens.                           *)

PacketTypes == {"HANDSHAKE", "RESPONSE", "PREPARE_RESPONSE",
                "PREPARE_PARAMETER", "PREPARE_COLUMN", "COLUMN", "ROW"}

Push(type) == Append(queue, type)
Pop == SubSeq(queue, 1, Len(queue) - 1)
Peek == IF queue = << >> THEN "NONE" ELSE queue[Len(queue)]

(* Mutant: the entry is peeked at and never popped.                         *)
ReplaceWithoutPop(type) == Append(queue, type)

(* What the reader pushes in place of the entry it has just popped.         *)
Replace(type) == Append(Pop, type)

-----------------------------------------------------------------------------
Init ==
    /\ status = "NOT_CONNECTED"
    /\ command_status = "EOF"
    /\ queue = << >>
    /\ packet_number = 0
    /\ local_errcode = "OK"
    /\ server_errno = 0
    /\ more_results = FALSE
    /\ column_count = 0
    /\ current_column = 0
    /\ in_row = FALSE
    /\ stmt = [open |-> FALSE, params |-> 0, cols |-> 0,
               current_param |-> 0, current_column |-> 0]
    /\ in_query = FALSE
    /\ query_pending = FALSE
    /\ pending_statement = FALSE
    /\ buffer_rows = FALSE
    /\ all_rows_buffered = FALSE
    /\ row_buffer_count = 0
    /\ stream = "none"
    /\ writes = 0
    /\ reply = NoReply
    /\ pos = 0
    /\ arrived = 0
    /\ base = 0
    /\ pc = "app"
    /\ ret = "NONE"
    /\ rows_taken = 0
    /\ stale = FALSE
    /\ logged_in = FALSE
    /\ commands = 0

-----------------------------------------------------------------------------
(* attachsql_command_send                                                    *)

(* Mutant: every command is taken to have an answer.                         *)
ExpectAlways(command) ==
    IF command = "STMT_PREPARE" THEN Push("PREPARE_RESPONSE")
                                ELSE Push("RESPONSE")

(* The packet type a command makes the reader expect.                        *)
Expect(command) ==
    CASE command = "STMT_PREPARE" -> Push("PREPARE_RESPONSE")
      [] command = "STMT_CLOSE"   -> queue
      [] OTHER                    -> Push("RESPONSE")

Answers(command) ==
    CASE command = "STMT_PREPARE" -> PrepareReplies
      [] command = "STMT_CLOSE"   -> {NoReply}
      [] OTHER                    -> QueryReplies

ResetResult ==
    /\ current_column' = 0
    /\ more_results' = FALSE
    /\ server_errno' = 0
    /\ UNCHANGED <<column_count, in_row>>

(* The write is queued.  When packets of an earlier reply are still unread,  *)
(* or the bytes of its current row, they stay at the head of the stream and  *)
(* the new reply is behind them.                                             *)
SendOk(command) ==
    /\ stream = "open"
    /\ ResetResult
    /\ local_errcode' = "OK"
    /\ packet_number' = 0
    /\ queue' = Expect(command)
    /\ command_status' = "SEND"
    /\ status' = "BUSY"
    /\ writes' = writes + 1
    /\ \/ /\ Unread \/ in_row
          /\ stale' = TRUE
          /\ UNCHANGED <<wireVars, rows_taken>>
       \/ /\ ~Unread /\ ~in_row
          /\ \E r \in Answers(command) : Answer(r, 0)
          /\ UNCHANGED stale
    /\ UNCHANGED stream

(* uv_write refuses a closed stream.                                         *)
SendFail ==
    /\ stream = "closed"
    /\ ResetResult
    /\ local_errcode' = "NET_WRITE_ERROR"
    /\ packet_number' = 0
    /\ queue' = << >>
    /\ command_status' = "SEND_FAILED"
    /\ UNCHANGED <<status, netVars, wireVars, rows_taken, stale>>

(* A call from the application that sends a command, counted and bounded.    *)
Call(command) ==
    /\ pc = "app"
    /\ command \in Calls
    /\ commands < MaxCommands
    /\ commands' = commands + 1

(* The application waits for the end of the previous answer, as far as       *)
(* attachsql_connect_poll told it, unless it closes results early.           *)
Told == ret \in {"EOF", "ERROR", "FALSE"} \/ (EarlyClose /\ ret = "ROW_READY")

Command(command, failed) ==
    /\ Call(command)
    /\ logged_in
    /\ status \in {"IDLE", "CONNECT_FAILED", "NET_ERROR"}
    /\ Told
    /\ \/ SendOk(command) /\ ret' = "TRUE"
       \/ SendFail /\ ret' = failed
    /\ UNCHANGED <<pc, logged_in>>

-----------------------------------------------------------------------------
(* Connecting                                                                *)

(* attachsql_do_connect starts the name lookup (TCP) or the pipe (UDS) and   *)
(* runs the loop once, unless the loop or the lookup cannot be started.      *)
StartConnect ==
    /\ status = "NOT_CONNECTED"
    /\ \/ /\ status' = "CONNECTING"
          /\ stream' \in {"resolving", "connecting"}
          /\ UNCHANGED local_errcode
       \/ /\ status' = "CONNECT_FAILED"
          /\ local_errcode' \in {"OUT_OF_MEMORY_ERROR", "DNS_ERROR"}
          /\ UNCHANGED stream
    /\ pc' = "connecting"
    /\ UNCHANGED <<command_status, queue, packet_number, server_errno,
                   more_results, resultVars, stmt, buffer_rows, rowVars,
                   writes, wireVars, ret, history>>

Connect ==
    /\ pc = "app"
    /\ StartConnect
    /\ UNCHANGED <<in_query, query_pending, pending_statement, commands>>

OnResolved ==
    /\ pc \in {"connecting", "loop"}
    /\ stream = "resolving"
    /\ \/ /\ stream' = "connecting"
          /\ UNCHANGED <<status, local_errcode>>
       \/ /\ stream' = "none"
          /\ status' = "CONNECT_FAILED"
          /\ local_errcode' = "DNS_ERROR"
    /\ UNCHANGED <<command_status, queue, packet_number, server_errno,
                   more_results, resultVars, stmt, apiVars, writes, wireVars,
                   pc, ret, history>>

OnConnect ==
    /\ pc \in {"connecting", "loop"}
    /\ stream = "connecting"
    /\ \/ /\ stream' = "open"
          /\ queue' = Push("HANDSHAKE")
          /\ \E r \in HandshakeReplies : Answer(r, 255)
          /\ UNCHANGED <<status, local_errcode>>
       \/ /\ stream' = "none"
          /\ status' = "CONNECT_FAILED"
          /\ local_errcode' = "CONNECT_ERROR"
          /\ UNCHANGED <<queue, wireVars, rows_taken>>
    /\ UNCHANGED <<command_status, packet_number, server_errno, more_results,
                   resultVars, stmt, apiVars, writes, pc, ret, stale,
                   logged_in>>

(* attachsql_connect after attachsql_do_connect.                             *)
ConnectReturn ==
    /\ pc = "connecting"
    /\ pc' = "app"
    /\ ret' = IF status = "CONNECT_FAILED" THEN "ERROR" ELSE "CONNECTING"
    /\ UNCHANGED <<conVars, resultVars, stmt, apiVars, netVars, wireVars,
                   history>>

-----------------------------------------------------------------------------
(* The loop inside attachsql_do_poll                                         *)

(* Mutant: a connection that is being made counts as settled.                *)
SettledConnecting == {"NOT_CONNECTED", "CONNECTING", "CONNECT_FAILED", "IDLE"}

Settled == {"NOT_CONNECTED", "CONNECT_FAILED", "IDLE"}

(* attachsql_do_poll does not run the loop for a settled connection.         *)
Poll ==
    /\ pc = "app"
    /\ pc' = IF status \in Settled THEN "report" ELSE "loop"
    /\ UNCHANGED <<conVars, resultVars, stmt, apiVars, netVars, wireVars, ret,
                   history>>

(* Mutants: on_write settles every command, or none.                         *)
WriteCompletesAll == TRUE
WriteCompletesNone == FALSE

(* A command is complete once written if no packet is expected.              *)
WriteCompletes == Peek = "NONE"

(* on_write with a good status.                                              *)
OnWrite ==
    /\ pc = "loop"
    /\ stream = "open"
    /\ writes > 0
    /\ writes' = writes - 1
    /\ IF WriteCompletes
         THEN status' = "IDLE" /\ command_status' = "EOF"
         ELSE UNCHANGED <<status, command_status>>
    /\ UNCHANGED <<queue, packet_number, local_errcode, server_errno,
                   more_results, resultVars, stmt, apiVars, stream, wireVars,
                   pc, ret, history>>

NetError(errcode, failed) ==
    /\ local_errcode' = errcode
    /\ command_status' = failed
    /\ queue' = << >>
    /\ status' = "NET_ERROR"
    /\ stream' = "closed"
    /\ UNCHANGED <<packet_number, server_errno, more_results, resultVars, stmt,
                   apiVars, wireVars, ret, history>>

(* on_write with an error closes the stream.  Closing it a second time, when *)
(* the read callback has already closed it and libuv cancels the write, is   *)
(* an assertion failure in uv_close.                                         *)
OnWriteFail ==
    /\ pc = "loop"
    /\ writes > 0
    /\ writes' = writes - 1
    /\ pc' = IF stream = "closed" THEN "aborted" ELSE pc
    /\ NetError("NET_WRITE_ERROR", "SEND_FAILED")

(* The read callback with an error or end of file.                           *)
ReadFail ==
    /\ pc = "loop"
    /\ stream = "open"
    /\ NetError("NET_READ_ERROR", "READ_FAILED")
    /\ UNCHANGED <<writes, pc>>

(* More packets of the reply become complete in the read buffer.  The server *)
(* answers a command it has received whole, and libuv runs on_write before   *)
(* it reads again, so no packet of the answer precedes on_write.             *)
ReadData ==
    /\ pc = "loop"
    /\ stream = "open"
    /\ writes = 0 \/ stale
    /\ arrived' \in (arrived + 1)..PacketCount(reply)
    /\ pc' = "read"
    /\ UNCHANGED <<conVars, resultVars, stmt, apiVars, netVars, reply, pos,
                   base, ret, history>>

(* The last callback of the iteration is the check handle, which runs while  *)
(* the stream is open.  A write that libuv must cancel is cancelled first.   *)
LoopEnd ==
    /\ pc = "loop"
    /\ stream = "closed" => writes = 0
    /\ pc' = IF stream = "open" THEN "check" ELSE "report"
    /\ UNCHANGED <<conVars, resultVars, stmt, apiVars, netVars, wireVars, ret,
                   history>>

-----------------------------------------------------------------------------
(* attachsql_con_process_packets: one action per turn of its loop.           *)

Processing == {"read", "check", "next", "buffer"}

(* Where each caller goes on when the function returns.                      *)
Return ==
    /\ pc' = CASE pc = "read"  -> "loop"
               [] pc = "check" -> "report"
               [] OTHER        -> "app"
    /\ ret' = IF pc = "buffer" THEN "PROCESSING" ELSE ret

(* A packet number is an unsigned byte in con->packet_number and a signed    *)
(* one, a char of the read buffer, on the other side of the comparison.      *)
SignedByte(b) == IF b < 128 THEN b ELSE b - 256

(* Mutant: the greeting is counted like any other packet.                    *)
NextNumberAlways == (packet_number + 1) % 256

(* The number a packet must carry; the server's greeting is number 0.        *)
NextNumber == IF Peek = "HANDSHAKE" THEN packet_number
                                    ELSE (packet_number + 1) % 256

HavePacket ==
    pc \in Processing /\ Peek # "NONE" /\ pos < arrived /\ ~in_row

(* What stands where the header of a packet is read is the body of a row.    *)
HaveRowBytes == pc \in Processing /\ Peek # "NONE" /\ in_row

(* Mutant: the number is not compared.                                       *)
InSequenceUnchecked == TRUE

InSequence == NextNumber = SignedByte(WireNumber)

(* The packet at the head is what the reader expects and contains.           *)
Accept(types, contents) ==
    /\ HavePacket
    /\ InSequence
    /\ Peek \in types
    /\ Packet \in contents
    /\ packet_number' = NextNumber
    /\ pos' = pos + 1
    /\ UNCHANGED <<apiVars, netVars, reply, arrived, base, rows_taken, stale>>

(* Nothing is expected, or the next packet is not complete.  The bytes of a  *)
(* row may give any length.                                                  *)
PacketsDone ==
    /\ pc \in Processing
    /\ Peek = "NONE" \/ pos = arrived \/ in_row
    /\ Return
    /\ UNCHANGED <<conVars, resultVars, stmt, apiVars, netVars, wireVars,
                   history>>

(* The number is wrong: the packet stays in the buffer.  The bytes of a row  *)
(* may give any number.                                                      *)
OutOfSequence ==
    /\ (HavePacket /\ ~InSequence) \/ HaveRowBytes
    /\ packet_number' = NextNumber
    /\ local_errcode' = "PACKET_OUT_OF_SEQUENCE"
    /\ command_status' = "READ_FAILED"
    /\ queue' = << >>
    /\ Return
    /\ UNCHANGED <<status, server_errno, more_results, resultVars, stmt,
                   apiVars, netVars, wireVars, history>>

(* Length and number in the bytes of a row are accepted: the handler of the  *)
(* expected type is given what follows them.  The model ends here.           *)
Misread ==
    /\ HaveRowBytes
    /\ packet_number' = NextNumber
    /\ queue' = Pop
    /\ pc' = "misread"
    /\ UNCHANGED <<status, command_status, local_errcode, server_errno,
                   more_results, resultVars, stmt, apiVars, netVars, wireVars,
                   ret, history>>

(* attachsql_packet_read_handshake for a greeting it understands: it sends   *)
(* the login with attachsql_send_data, then expects a response.  It does so  *)
(* for a server that only has the old authentication, too.                   *)
ReadHandshake ==
    /\ HavePacket
    /\ InSequence
    /\ Peek = "HANDSHAKE"
    /\ Packet \in {"HANDSHAKE", "OLD_AUTH"}
    /\ local_errcode' = IF Packet = "OLD_AUTH" THEN "NO_OLD_AUTH"
                                               ELSE local_errcode
    /\ packet_number' = (NextNumber + 1) % 256
    /\ command_status' = "READ_RESPONSE"
    /\ queue' = Replace("RESPONSE")
    /\ more_results' = FALSE
    /\ writes' = writes + 1
    /\ \E r \in LoginReplies : Answer(r, 1)
    /\ UNCHANGED <<status, server_errno, resultVars, stmt, apiVars, stream, pc,
                   ret, stale, logged_in>>

(* A protocol version other than 10, or a password and nothing to scramble   *)
(* it with: no login is sent.                                                *)
ReadBadHandshake ==
    /\ Accept({"HANDSHAKE"}, {"BAD_HANDSHAKE", "NO_SCRAMBLE"})
    /\ local_errcode' = IF Packet = "NO_SCRAMBLE" THEN "BAD_SCRAMBLE"
                                                  ELSE "BAD_PROTOCOL"
    /\ queue' = Pop
    /\ UNCHANGED <<status, command_status, server_errno, more_results,
                   resultVars, stmt, pc, ret, logged_in>>

Responses == {"RESPONSE", "PREPARE_RESPONSE"}

(* attachsql_packet_read_response, the OK packet.                            *)
ReadOk ==
    /\ Accept({"RESPONSE"}, {"OK"})
    /\ queue' = Pop
    /\ more_results' = reply.more
    /\ command_status' = IF status = "CONNECTING" THEN "CONNECTED" ELSE "EOF"
    /\ status' = "IDLE"
    /\ logged_in' = TRUE
    /\ UNCHANGED <<local_errcode, server_errno, resultVars, stmt, pc, ret>>

(* attachsql_packet_read_response, the error packet; as a greeting it then   *)
(* falls through the protocol version test of the handshake.                 *)
ReadErr ==
    /\ Accept(Responses \union {"HANDSHAKE"}, {"ERR"})
    /\ queue' = << >>
    /\ server_errno' = 1
    /\ local_errcode' = IF Peek = "HANDSHAKE" THEN "BAD_PROTOCOL"
                                              ELSE local_errcode
    /\ status' = IF command_status = "READ_RESPONSE" THEN "CONNECT_FAILED"
                                                     ELSE "IDLE"
    /\ command_status' = "EOF"
    /\ UNCHANGED <<more_results, resultVars, stmt, pc, ret, logged_in>>

(* attachsql_packet_read_response, the first packet of a result set.         *)
ReadResult ==
    /\ Accept({"RESPONSE"}, {"RESULT"})
    /\ queue' = Replace("COLUMN")
    /\ column_count' = reply.cols
    /\ command_status' = "READ_COLUMN"
    /\ UNCHANGED <<status, local_errcode, server_errno, more_results,
                   current_column, in_row, stmt, pc, ret, logged_in>>

(* Mutant: the comparison is made before the increment.                      *)
LastColumnLate == current_column = column_count

LastColumn == current_column + 1 = column_count

ReadColumn ==
    /\ Accept({"COLUMN"}, {"COLUMN"})
    /\ current_column' = current_column + 1
    /\ queue' = Replace(IF LastColumn THEN "RESPONSE" ELSE "COLUMN")
    /\ UNCHANGED <<status, command_status, local_errcode, server_errno,
                   more_results, column_count, in_row, stmt, pc, ret,
                   logged_in>>

(* What an EOF packet announces: rows, the columns of a statement, or the    *)
(* end of the answer.                                                        *)
AfterEof ==
    CASE command_status = "READ_COLUMN" -> "ROW"
      [] command_status = "READ_STMT_PARAM" /\ stmt.cols > 0 ->
           "PREPARE_COLUMN"
      [] OTHER -> "NONE"

(* attachsql_packet_read_response, the EOF packet.                           *)
EofResponse ==
    /\ more_results' = reply.more
    /\ IF AfterEof = "NONE"
         THEN /\ queue' = Pop
              /\ command_status' = "EOF"
              /\ status' = "IDLE"
         ELSE /\ queue' = Replace(AfterEof)
              /\ command_status' = IF AfterEof = "ROW" THEN "READ_ROW"
                                                       ELSE "READ_STMT_COLUMN"
              /\ UNCHANGED status

ReadEof ==
    /\ Accept({"RESPONSE"}, {"EOF"})
    /\ EofResponse
    /\ UNCHANGED <<local_errcode, server_errno, resultVars, stmt, pc, ret,
                   logged_in>>

(* Mutant: not even an EOF packet is told from a row.                        *)
ReadRowAlways ==
    /\ Accept({"ROW"}, {"ROW", "EOF", "ERR"})
    /\ queue' = Pop
    /\ command_status' = "ROW_IN_BUFFER"
    /\ status' = "IDLE"
    /\ in_row' = TRUE
    /\ Return
    /\ UNCHANGED <<local_errcode, server_errno, more_results, column_count,
                   current_column, stmt, logged_in>>

(* attachsql_packet_read_row: only an EOF packet is told from a row.  The    *)
(* function returns to its caller after one row, whose body it leaves where  *)
(* it is.                                                                    *)
ReadRow ==
    /\ Accept({"ROW"}, {"ROW", "EOF", "ERR"})
    /\ IF Packet = "EOF"
         THEN EofResponse
         ELSE /\ queue' = Pop
              /\ command_status' = "ROW_IN_BUFFER"
              /\ status' = "IDLE"
              /\ UNCHANGED more_results
    /\ in_row' = (Packet # "EOF")
    /\ Return
    /\ UNCHANGED <<local_errcode, server_errno, column_count, current_column,
                   stmt, logged_in>>

ReadPrepareOk ==
    /\ Accept({"PREPARE_RESPONSE"}, {"PREPARE_OK"})
    /\ stmt' = [stmt EXCEPT !.params = reply.params, !.cols = reply.cols]
    /\ IF reply.params + reply.cols = 0
         THEN /\ queue' = Pop
              /\ command_status' = "EOF"
              /\ status' = "IDLE"
         ELSE /\ queue' = Replace(IF reply.params > 0 THEN "PREPARE_PARAMETER"
                                                      ELSE "PREPARE_COLUMN")
              /\ command_status' = IF reply.params > 0
                                     THEN "READ_STMT_PARAM"
                                     ELSE "READ_STMT_COLUMN"
              /\ UNCHANGED status
    /\ UNCHANGED <<local_errcode, server_errno, more_results, resultVars, pc,
                   ret, logged_in>>

ReadPrepareParameter ==
    /\ Accept({"PREPARE_PARAMETER"}, {"PARAM"})
    /\ stmt' = [stmt EXCEPT !.current_param = @ + 1]
    /\ queue' = Replace(IF stmt'.current_param = stmt.params
                          THEN "RESPONSE" ELSE "PREPARE_PARAMETER")
    /\ UNCHANGED <<status, command_status, local_errcode, server_errno,
                   more_results, resultVars, pc, ret, logged_in>>

ReadPrepareColumn ==
    /\ Accept({"PREPARE_COLUMN"}, {"COLUMN"})
    /\ stmt' = [stmt EXCEPT !.current_column = @ + 1]
    /\ queue' = Replace(IF stmt'.current_column = stmt.cols
                          THEN "RESPONSE" ELSE "PREPARE_COLUMN")
    /\ UNCHANGED <<status, command_status, local_errcode, server_errno,
                   more_results, resultVars, pc, ret, logged_in>>

ProcessPackets ==
    \/ PacketsDone \/ OutOfSequence \/ Misread
    \/ ReadHandshake \/ ReadBadHandshake
    \/ ReadOk \/ ReadErr \/ ReadResult \/ ReadColumn \/ ReadEof \/ ReadRow
    \/ ReadPrepareOk \/ ReadPrepareParameter \/ ReadPrepareColumn

-----------------------------------------------------------------------------
(* attachsql_connect_poll: what it makes of the status                       *)

(* Every status but IDLE has a return value of its own.                      *)
Report ==
    /\ pc = "report"
    /\ status # "IDLE" \/ server_errno # 0
    /\ ret' = CASE status = "NOT_CONNECTED" -> "NOT_CONNECTED"
                [] status = "CONNECTING"    -> "CONNECTING"
                [] status = "BUSY"          -> "PROCESSING"
                [] OTHER                    -> "ERROR"
    /\ pc' = "app"
    /\ UNCHANGED <<conVars, resultVars, stmt, apiVars, netVars, wireVars,
                   history>>

(* An idle connection without a server error is judged by command_status.    *)
ReportIdle(expected) ==
    /\ pc = "report"
    /\ status = "IDLE"
    /\ server_errno = 0
    /\ command_status = expected

ReportEof ==
    /\ ReportIdle("EOF")
    /\ all_rows_buffered' = TRUE
    /\ ret' = "EOF"
    /\ pc' = "app"
    /\ UNCHANGED <<conVars, resultVars, stmt, queryVars, row_buffer_count,
                   netVars, wireVars, history, commands>>

ReportRow ==
    /\ ReportIdle("ROW_IN_BUFFER")
    /\ ~buffer_rows
    /\ ret' = "ROW_READY"
    /\ pc' = "app"
    /\ UNCHANGED <<conVars, resultVars, stmt, apiVars, netVars, wireVars,
                   history>>

(* attachsql_get_next_row moves on to the end of the row; status stays as it *)
(* is.                                                                       *)
GetNextRow ==
    /\ in_row' = FALSE
    /\ queue' = Push("ROW")
    /\ command_status' = "READ_ROW"
    /\ rows_taken' = rows_taken + 1
    /\ UNCHANGED <<status, packet_number, local_errcode, server_errno,
                   more_results, column_count, current_column>>

(* attachsql_query_row_buffer keeps the row and asks for the next one.  Its  *)
(* loop never repeats: the status is IDLE when the condition is evaluated,   *)
(* and the call of process_packets in it finds nothing left to do.           *)
ReportBufferRow ==
    /\ ReportIdle("ROW_IN_BUFFER")
    /\ buffer_rows
    /\ row_buffer_count' = row_buffer_count + 1
    /\ GetNextRow
    /\ pc' = "buffer"
    /\ UNCHANGED <<stmt, queryVars, all_rows_buffered, netVars,
                   wireVars, ret, stale, logged_in, commands>>

FreshStmt == [open |-> TRUE, params |-> 0, cols |-> 0,
              current_param |-> 0, current_column |-> 0]

(* The connection is up and nothing was waiting for it.                      *)
ReportConnected ==
    /\ ReportIdle("CONNECTED")
    /\ ~query_pending
    /\ ret' = "EOF"
    /\ pc' = "app"
    /\ UNCHANGED <<conVars, resultVars, stmt, apiVars, netVars, wireVars,
                   history>>

(* attachsql_connect_query: send what was given before the connection was up. *)
ReportConnectedQuery ==
    /\ ReportIdle("CONNECTED")
    /\ query_pending
    /\ stmt' = IF pending_statement THEN FreshStmt ELSE stmt
    /\ SendOk(IF pending_statement THEN "STMT_PREPARE" ELSE "QUERY")
    /\ ret' = "PROCESSING"
    /\ pc' = "app"
    /\ UNCHANGED <<apiVars, logged_in>>

(* "If we hit here something went wrong": assert(0), then an EOF.            *)
ReportLost ==
    /\ pc = "report"
    /\ status = "IDLE"
    /\ server_errno = 0
    /\ command_status \notin {"EOF", "ROW_IN_BUFFER", "CONNECTED"}
    /\ ret' = IF Assertions THEN ret ELSE "EOF"
    /\ pc' = IF Assertions THEN "aborted" ELSE "app"
    /\ UNCHANGED <<conVars, resultVars, stmt, apiVars, netVars, wireVars,
                   history>>

-----------------------------------------------------------------------------
(* The query calls                                                           *)

(* attachsql_query before the connection exists keeps the query and connects. *)
QueryConnect ==
    /\ Call("QUERY")
    /\ ~in_query
    /\ in_query' = TRUE
    /\ query_pending' = TRUE
    /\ pending_statement' = FALSE
    /\ StartConnect

(* attachsql_query; a query with parameters is built in query_buffer.        *)
Query ==
    /\ ~in_query
    /\ Command("QUERY", "FALSE")
    /\ in_query' = TRUE
    /\ \/ /\ query_pending' = TRUE
          /\ pending_statement' = FALSE
       \/ UNCHANGED <<query_pending, pending_statement>>
    /\ UNCHANGED <<buffer_rows, stmt, rowVars>>

(* "Connection already used for query"                                       *)
QueryRefused ==
    /\ Call("QUERY")
    /\ in_query
    /\ ret' = "OUT_OF_SYNC"
    /\ UNCHANGED <<conVars, resultVars, stmt, queryVars, rowVars, netVars,
                   wireVars, pc, history>>

QueryClose ==
    /\ pc = "app"
    /\ Told
    /\ query_pending' = FALSE
    /\ in_query' = (in_query /\ more_results)
    /\ all_rows_buffered' = FALSE
    /\ row_buffer_count' = 0
    /\ UNCHANGED <<conVars, resultVars, stmt, pending_statement, buffer_rows,
                   netVars, wireVars, pc, ret, history, commands>>

(* attachsql_query_row_next and attachsql_statement_row_next.                *)
RowNext ==
    /\ pc = "app"
    /\ ret = "ROW_READY"
    /\ ~buffer_rows
    /\ GetNextRow
    /\ ret' = "NONE"
    /\ pc' = "next"
    /\ UNCHANGED <<stmt, apiVars, netVars, wireVars, stale,
                   logged_in>>

(* attachsql_query_next_result, called once the result has been read to its  *)
(* end.  The reply it opens continues the numbering of the one before.       *)
NextResult ==
    /\ pc = "app"
    /\ commands < MaxCommands
    /\ commands' = commands + 1
    /\ Told
    /\ ~Unread /\ ~in_row
    /\ stream = "open"
    /\ status = "IDLE"
    /\ more_results
    /\ ResetResult
    /\ queue' = Push("RESPONSE")
    /\ command_status' = "READ_RESPONSE"
    /\ status' = "BUSY"
    /\ ret' = "PROCESSING"
    /\ \E r \in QueryReplies : Answer(r, (base + PacketCount(reply)) % 256)
    /\ UNCHANGED <<packet_number, local_errcode, stmt, queryVars, rowVars,
                   netVars, pc, stale, logged_in>>

BufferRows ==
    /\ pc = "app"
    /\ BufferingUsed
    /\ ~in_query
    /\ buffer_rows' = ~buffer_rows
    /\ UNCHANGED <<conVars, resultVars, stmt, in_query, query_pending,
                   pending_statement, rowVars, netVars, wireVars, pc, ret,
                   history, commands>>

-----------------------------------------------------------------------------
(* The statement calls                                                       *)

StatementPrepareConnect ==
    /\ Call("STMT_PREPARE")
    /\ query_pending' = TRUE
    /\ pending_statement' = TRUE
    /\ StartConnect
    /\ UNCHANGED in_query

StatementPrepare ==
    /\ Command("STMT_PREPARE", "TRUE")
    /\ stmt' = FreshStmt
    /\ UNCHANGED <<queryVars, rowVars>>

StatementExecute ==
    /\ stmt.open
    /\ Command("STMT_EXECUTE", "FALSE")
    /\ UNCHANGED <<queryVars, stmt, rowVars>>

(* attachsql_stmt_execute finds a parameter it cannot send, or no memory.    *)
StatementExecuteBad ==
    /\ stmt.open
    /\ Call("STMT_EXECUTE")
    /\ status = "IDLE"
    /\ Told
    /\ \/ stmt.params > 0 /\ local_errcode' = "BAD_STMT_PARAMETER"
       \/ local_errcode' = "OUT_OF_MEMORY_ERROR"
    /\ command_status' = "SEND_FAILED"
    /\ queue' = << >>
    /\ ret' = "FALSE"
    /\ UNCHANGED <<status, packet_number, server_errno, more_results,
                   resultVars, stmt, queryVars, rowVars, netVars, wireVars, pc,
                   history>>

StatementClose ==
    /\ stmt.open
    /\ Command("STMT_CLOSE", "TRUE")
    /\ stmt' = [stmt EXCEPT !.open = FALSE]
    /\ UNCHANGED <<queryVars, rowVars>>

-----------------------------------------------------------------------------
(* A process that an assertion has stopped, or that this module follows no   *)
(* further.                                                                  *)
Aborted == pc \in {"aborted", "misread"} /\ UNCHANGED vars

Loop == \/ OnResolved \/ OnConnect \/ ConnectReturn \/ OnWrite \/ OnWriteFail
        \/ ReadFail \/ ReadData \/ LoopEnd

Reports == \/ Report \/ ReportEof \/ ReportRow \/ ReportBufferRow
           \/ ReportConnected \/ ReportConnectedQuery \/ ReportLost

Application ==
    \/ Connect \/ Poll \/ QueryConnect \/ Query \/ QueryRefused \/ QueryClose
    \/ RowNext \/ NextResult \/ BufferRows \/ StatementPrepareConnect
    \/ StatementPrepare \/ StatementExecute \/ StatementExecuteBad
    \/ StatementClose

Next == Application \/ Loop \/ ProcessPackets \/ Reports \/ Aborted

Spec == Init /\ [][Next]_vars

(* The application keeps polling, the library's own code runs on, and the    *)
(* network and the server keep answering: the lookup and the connection end, *)
(* writes are flushed and every packet sent arrives, or the stream fails.    *)
Fairness ==
    /\ WF_vars(Poll)
    /\ WF_vars(ConnectReturn \/ LoopEnd)
    /\ WF_vars(ProcessPackets)
    /\ WF_vars(Reports)
    /\ SF_vars(OnResolved)
    /\ SF_vars(OnConnect)
    /\ SF_vars(OnWrite \/ OnWriteFail)
    /\ SF_vars(ReadData)

LiveSpec == Spec /\ Fairness

-----------------------------------------------------------------------------
(* Properties                                                                *)

Statuses == {"NOT_CONNECTED", "CONNECTING", "CONNECT_FAILED", "BUSY", "IDLE",
             "NET_ERROR"}
CommandStatuses == {"EOF", "CONNECTED", "SEND", "SEND_FAILED", "READ_RESPONSE",
                    "READ_COLUMN", "READ_ROW", "READ_FAILED", "ROW_IN_BUFFER",
                    "READ_STMT_PARAM", "READ_STMT_COLUMN"}
ErrorCodes == {"OK", "OUT_OF_MEMORY_ERROR", "DNS_ERROR", "CONNECT_ERROR",
               "BAD_PROTOCOL", "NO_OLD_AUTH", "BAD_SCRAMBLE", "NET_READ_ERROR", "NET_WRITE_ERROR",
               "PACKET_OUT_OF_SEQUENCE", "BAD_STMT_PARAMETER"}
Returns == {"NONE", "NOT_CONNECTED", "CONNECTING", "PROCESSING", "ROW_READY",
            "ERROR", "EOF", "TRUE", "FALSE", "OUT_OF_SYNC"}

ConTypeOK ==
    /\ status \in Statuses
    /\ command_status \in CommandStatuses
    /\ queue \in Seq(PacketTypes)
    /\ packet_number \in 0..255
    /\ local_errcode \in ErrorCodes
    /\ server_errno \in {0, 1}
    /\ more_results \in BOOLEAN

ResultTypeOK ==
    /\ column_count \in Nat
    /\ current_column \in Nat
    /\ in_row \in BOOLEAN
    /\ stmt \in [open : BOOLEAN, params : Nat, cols : Nat,
                 current_param : Nat, current_column : Nat]

ApiTypeOK ==
    /\ in_query \in BOOLEAN
    /\ query_pending \in BOOLEAN
    /\ pending_statement \in BOOLEAN
    /\ buffer_rows \in BOOLEAN
    /\ all_rows_buffered \in BOOLEAN
    /\ row_buffer_count \in Nat
    /\ commands \in 0..MaxCommands
    /\ pc \in Processing \union
              {"app", "connecting", "loop", "report", "aborted", "misread"}
    /\ ret \in Returns

WireTypeOK ==
    /\ stream \in {"none", "resolving", "connecting", "open", "closed"}
    /\ writes \in Nat
    /\ reply \in Reply
    /\ pos \in Nat
    /\ arrived \in Nat
    /\ base \in 0..255
    /\ rows_taken \in Nat
    /\ stale \in BOOLEAN
    /\ logged_in \in BOOLEAN

(* Every field of the connection holds a value of its declared type: the     *)
(* enumerations of constants.h, the uint8_t packet number, the counters.     *)
TypeOK == ConTypeOK /\ ResultTypeOK /\ ApiTypeOK /\ WireTypeOK

(* What the server may send for the packet type the reader expects, given    *)
(* how far command_status says the answer has been read.                     *)
Contents ==
    CASE Peek = "HANDSHAKE"         -> GreetingKinds
      [] Peek = "PREPARE_RESPONSE"  -> {"PREPARE_OK", "ERR"}
      [] Peek = "PREPARE_PARAMETER" -> {"PARAM"}
      [] Peek = "PREPARE_COLUMN"    -> {"COLUMN"}
      [] Peek = "COLUMN"            -> {"COLUMN"}
      [] Peek = "ROW"               -> {"ROW", "EOF", "ERR"}
      [] /\ Peek = "RESPONSE"
         /\ command_status \in {"READ_COLUMN", "READ_STMT_PARAM",
                                "READ_STMT_COLUMN"} -> {"EOF"}
      [] OTHER                      -> {"OK", "ERR", "RESULT"}

(* The reader and the server agree on where the answer is: the packet that   *)
(* comes next is one that the expected type and command_status were made     *)
(* for.  process_packets dispatches on the expectation alone, so a column or *)
(* parameter counted one too many or too few would be read as something      *)
(* else (net.cc, the dispatch of attachsql_con_process_packets).             *)
LockStep == (~stale /\ Peek # "NONE" /\ Unread) => Packet \in Contents

(* The stack of expectations never outgrows its first allocation, so that    *)
(* attachsql_packet_queue_push never reallocates it, which it would do to a  *)
(* number of bytes and not of entries: no sequence of commands, further      *)
(* results and rows piles expectations up (net.cc:1051).                     *)
QueueFits == Len(queue) <= QueueSize

(* Without an outstanding write, a busy connection expects a packet that the *)
(* server does send, unless the reader gave the answer up: polling cannot    *)
(* wait for something that never comes (command.cc, what each command        *)
(* pushes; net.cc, what each packet pushes).                                 *)
BusyAwaits ==
    (status = "BUSY" /\ writes = 0 /\ ~stale /\ command_status # "READ_FAILED")
        => Peek # "NONE" /\ Unread

(* When the connection is idle at the end of an answer, every packet of the  *)
(* answer has been read and, for a result set, every row was handed to the   *)
(* application or to the row buffer (connect.cc, the EOF case of             *)
(* attachsql_connect_poll).                                                  *)
EofIsComplete ==
    (status = "IDLE" /\ command_status = "EOF" /\ ~stale)
        => /\ ~Unread
           /\ reply.kind = "RESULT" => rows_taken = reply.rows

(* A packet is refused as out of sequence only if it belongs to an answer    *)
(* the application walked away from, or its number does not fit a signed     *)
(* char (net.cc, the comparison in attachsql_con_process_packets).           *)
RefusalExplained ==
    local_errcode = "PACKET_OUT_OF_SEQUENCE" => stale \/ WireNumber >= 128

(* A packet of an answer the application walked away from is never taken     *)
(* for a packet of a later answer, as long as the reader stands at its       *)
(* header: the sequence number stops the reader before it consumes the       *)
(* packet (command.cc resets packet_number, net.cc compares it).  With a row *)
(* in hand, which attachsql_query_close does not skip, the reader stands in  *)
(* the row instead, and its bytes may be taken for a header.                 *)
NoStaleAnswer == [][stale /\ ~in_row => pos' = pos /\ pc' # "misread"]_vars

(* A command the application sends is answered: under fair scheduling the    *)
(* connection does not stay busy for ever.                                   *)
CommandAnswered == status = "BUSY" ~> status # "BUSY"

(* A query or statement given before the connection exists is sent once the  *)
(* login succeeds, unless connecting fails (connect.cc,                      *)
(* attachsql_connect_query).                                                 *)
PendingQuerySent ==
    (status = "CONNECTING" /\ query_pending)
        ~> (\/ status \in {"BUSY", "CONNECT_FAILED", "NET_ERROR"}
            \/ server_errno # 0)

-----------------------------------------------------------------------------
(* What the documents say                                                    *)

(* "ATTACHSQL_RETURN_EOF: There are no more rows to retrieve": poll says EOF *)
(* only when every row of the result has been retrieved.  A build without    *)
(* assertions also says it while a row that was asked for has not arrived,   *)
(* once its packet number was refused, and after a command that could not be *)
(* sent (connect.cc:316).                                                    *)
EofMeansNoMoreRows ==
    (pc = "app" /\ ret = "EOF" /\ ~stale /\ reply.kind = "RESULT")
        => \/ rows_taken = reply.rows
           \/ /\ ~Assertions
              /\ command_status \in {"READ_ROW", "READ_FAILED", "SEND_FAILED"}

(* "ATTACHSQL_RETURN_ROW_READY: A row is ready for retrieval": the packet    *)
(* that was read last is a row, or the error that broke the rows off, which  *)
(* attachsql_packet_read_row does not tell from one (net.cc:619).            *)
RowReadyIsRow ==
    (pc = "app" /\ ret = "ROW_READY" /\ ~stale)
        => \/ PacketAt(reply, pos) = "ROW"
           \/ PacketAt(reply, pos) = "ERR" /\ reply.kind = "RESULT"

(* "Packet out of sequence!": the reader refuses a packet only when its      *)
(* number is not the next one.                                               *)
RefusedMeansOutOfSequence ==
    (local_errcode = "PACKET_OUT_OF_SEQUENCE" /\ ~stale)
        => WireNumber # packet_number
=============================================================================

-------------------------------- MODULE Tls --------------------------------
(***************************************************************************)
(* A connection that attachsql_connect_set_ssl has prepared: the MySQL     *)
(* handshake that changes to TLS (connect.cc) and the pumping of bytes     *)
(* between the library, OpenSSL and libuv (net.cc).                        *)
(*                                                                         *)
(* OpenSSL is external.  It keeps whether its handshake is finished, the   *)
(* records in read_bio, and the chunks in write_bio; SSL_read returns the  *)
(* contents of one record.  An answer is one packet of several records, a  *)
(* message to the server is as many chunks as ssl_write_buffer is filled   *)
(* to carry it.  A record is read from the socket whole: a part of one     *)
(* changes nothing but read_bio.  Its functions return 0 for an ALERT, a   *)
(* close_notify or, with OpenSSL 1.0, a fatal one, and less for an ERROR,  *)
(* a record that is damaged or that they refuse.                           *)
(***************************************************************************)
EXTENDS Naturals, Sequences, FiniteSets, SequencesExt

CONSTANTS
    Sizes,         \* sizes of commands, in chunks
    Records,       \* sizes of answers, in records
    Burst,         \* the most records that one read from the socket holds
    DefaultSize,   \* ATTACHSQL_DEFAULT_BUFFER_SIZE
    Modulus,       \* size_t counts modulo this
    MaxCommands    \* bound: commands sent

ASSUME TlsAssumption ==
    /\ Sizes \subseteq Nat \ {0} /\ Records \subseteq Nat \ {0}
    /\ Burst \in Nat \ {0}
    /\ DefaultSize \in Nat \ {0} /\ Modulus \in Nat /\ MaxCommands \in Nat
    /\ \A n \in Sizes : n <= DefaultSize
    /\ 2 * DefaultSize < Modulus

VARIABLES
    con,       \* the connection with its SSL object and its socket
    server,    \* what the server has sent, see Init
    given,     \* the chunks of the messages handed to TLS, in order
    lost,      \* how many records of answers were thrown away
    met        \* history: "full", the socket has taken nothing at a time;
               \* "burst", one read has held several records

vars == <<con, server, given, lost, met>>

(* A chunk on its way to the server: the message it belongs to, which of     *)
(* them, and which part of it.                                               *)
Messages == {"SSL_REQUEST", "HELLO", "KEY", "LOGIN", "COMMAND"}
Chunks == [message : Messages, number : 0..MaxCommands, part : Nat,
           clear : BOOLEAN]
Chunk(message) ==
    [message |-> message, number |-> 0, part |-> 1,
     clear |-> message = "SSL_REQUEST"]

(* start, end, used and size are the offsets of ssl.write_buffer, waiting    *)
(* what is between the first two; expected says that the expectation stack   *)
(* is not empty, queued and done count the write requests libuv still has to *)
(* write and those whose on_write it still has to run; room: the socket      *)
(* takes what is written; read_buffer counts the records of an answer;       *)
(* closed is SSL_RECEIVED_SHUTDOWN: an ALERT was read.                       *)
Init ==
    /\ con = [status |-> "CONNECTING", expected |-> TRUE,
              handshake_done |-> FALSE, finished |-> FALSE, failed |-> FALSE,
              closed |-> FALSE, start |-> 0, end |-> 0, used |-> 0,
              size |-> DefaultSize, waiting |-> << >>, read_bio |-> << >>,
              write_bio |-> << >>, ssl_write_buffer |-> << >>,
              queued |-> 0, done |-> 0, read_buffer |-> 0, out |-> << >>,
              room |-> TRUE, thrown |-> 0]
    /\ server \in [ssl : BOOLEAN, seen : {0}, answer : {0}, gone : {FALSE},
                   in : {<< "GREETING" >>}]
    /\ given = << >>
    /\ lost = 0
    /\ met = {}

-----------------------------------------------------------------------------
(* Writing                                                                   *)

(* uv_write of chunks that are put into ssl_write_buffer one after the       *)
(* other: libuv writes at once unless requests are queued or the socket      *)
(* takes nothing; what it queues is a pointer to the buffer.                 *)
Write(c, chunks) ==
    IF chunks = << >> THEN c
    ELSE IF c.queued = 0 /\ c.room
    THEN [c EXCEPT !.out = @ \o chunks, !.done = @ + Len(chunks),
                   !.ssl_write_buffer = << Last(chunks) >>]
    ELSE [c EXCEPT !.queued = @ + Len(chunks),
                   !.ssl_write_buffer = << Last(chunks) >>]

(* SSL_write takes everything once the handshake is finished, and until then *)
(* wants to read.                                                            *)
Encrypts(c) == c.finished /\ c.end > c.start

(* Mutant: the read pointer moves whether or not SSL_write took the data.    *)
DataCheckSkipping(c) ==
    LET all == c.write_bio \o (IF Encrypts(c) THEN c.waiting ELSE << >>)
    IN  Write([c EXCEPT !.write_bio = << >>, !.waiting = << >>,
                        !.start = c.end], all)

(* Mutant: the read pointer is not moved.                                    *)
DataCheckKeeping(c) ==
    LET all == c.write_bio \o (IF Encrypts(c) THEN c.waiting ELSE << >>)
    IN  Write([c EXCEPT !.write_bio = << >>], all)

(* attachsql_ssl_data_check                                                  *)
DataCheck(c) ==
    LET all == c.write_bio \o (IF Encrypts(c) THEN c.waiting ELSE << >>)
    IN  Write([c EXCEPT !.write_bio = << >>,
                        !.waiting = IF Encrypts(c) THEN << >> ELSE @,
                        !.start = IF Encrypts(c) THEN c.end ELSE @], all)

(* Mutant: the error is only noted.                                          *)
HandleErrorQuietly(c) == [c EXCEPT !.expected = FALSE, !.failed = TRUE]

(* attachsql_ssl_handle_error, for another error than SSL_ERROR_WANT_READ.   *)
HandleError(c) ==
    [c EXCEPT !.status = "SSL_ERROR", !.expected = FALSE, !.failed = TRUE]

(* OpenSSL goes on with its handshake (external): the server's certificate   *)
(* is answered, its end of the handshake is the end.  Of an ALERT nobody     *)
(* hears.                                                                    *)
Handshake(c) ==
    LET rest == [c EXCEPT !.read_bio = Tail(@)]
    IN CASE Head(c.read_bio) = "CERTIFICATE" ->
              [rest EXCEPT !.write_bio = Append(@, Chunk("KEY"))]
         [] Head(c.read_bio) = "FINISHED" -> [rest EXCEPT !.finished = TRUE]
         [] Head(c.read_bio) = "ALERT" -> [rest EXCEPT !.closed = TRUE]
         [] OTHER -> HandleError(rest)

(* attachsql_ssl_run: what SSL_read returns here is not kept, and that it    *)
(* returns 0 is not looked at.                                               *)
SslRun(c) ==
    IF c.read_bio = << >> THEN DataCheck(c)
    ELSE IF ~c.finished THEN DataCheck(Handshake(c))
    ELSE LET rest == [c EXCEPT !.read_bio = Tail(@)]
         IN CASE Head(c.read_bio) = "DATA" ->
                   DataCheck([rest EXCEPT !.thrown = @ + 1])
              [] Head(c.read_bio) = "ALERT" ->
                   DataCheck([rest EXCEPT !.closed = TRUE])
              [] OTHER -> DataCheck(HandleError(rest))

(* attachsql_buffer_get_available and attachsql_buffer_increase for          *)
(* ssl.write_buffer.                                                         *)
Available(c) == (Modulus + c.size - (c.start + c.used)) % Modulus
Increased(c) ==
    IF (Available(c) + c.used) % Modulus < c.size \div 2
    THEN [c EXCEPT !.end = c.used]
    ELSE [c EXCEPT !.size = 2 * @]

(* Mutant: attachsql_buffer_move_write_ptr moves the pointer only.           *)
SslBufferWriteUncounted(c, chunks) ==
    LET n == Len(chunks)
        b == IF Available(c) < n THEN Increased(c) ELSE c
    IN  SslRun([b EXCEPT !.end = @ + n, !.waiting = @ \o chunks])

(* attachsql_ssl_buffer_write                                                *)
SslBufferWrite(c, chunks) ==
    LET n == Len(chunks)
        b == IF Available(c) < n THEN Increased(c) ELSE c
    IN  SslRun([b EXCEPT !.end = @ + n, !.used = @ + n,
                         !.waiting = @ \o chunks])

-----------------------------------------------------------------------------
(* The handshake                                                             *)

Login == << [Chunk("LOGIN") EXCEPT !.clear = FALSE] >>

(* Mutant: a server without TLS is logged in to all the same.                *)
HandshakeResponsePlain(c) ==
    IF ~server.ssl
    THEN [Write(c, << [Chunk("LOGIN") EXCEPT !.clear = TRUE] >>)
            EXCEPT !.expected = TRUE]
    ELSE LET asked == Write(c, << Chunk("SSL_REQUEST") >>)
             hello == SslRun([asked EXCEPT !.write_bio =
                                << Chunk("HELLO") >>])
         IN  [SslBufferWrite([hello EXCEPT !.handshake_done = TRUE], Login)
                EXCEPT !.expected = TRUE]

(* attachsql_packet_read_handshake and attachsql_handshake_response, which   *)
(* calls itself: a short packet that asks for TLS, then the login, for which *)
(* attachsql_send_data starts the handshake of OpenSSL first.                *)
HandshakeResponse(c) ==
    IF ~server.ssl
    THEN [c EXCEPT !.status = "CONNECT_FAILED", !.expected = FALSE]
    ELSE LET asked == Write(c, << Chunk("SSL_REQUEST") >>)
             hello == SslRun([asked EXCEPT !.write_bio =
                                << Chunk("HELLO") >>])
         IN  [SslBufferWrite([hello EXCEPT !.handshake_done = TRUE], Login)
                EXCEPT !.expected = TRUE]

-----------------------------------------------------------------------------
(* Callbacks                                                                 *)

(* Mutant: the read callback leaves SSL_read to the next poll.               *)
DecryptLater(c) == DataCheck(c)

(* attachsql_read_data_cb of a TLS connection: one SSL_read.  It goes on     *)
(* with the handshake and then wants to read more; nothing at all is done    *)
(* when it returns 0.                                                        *)
Decrypt(c) ==
    IF ~c.finished
    THEN IF Head(c.read_bio) \in {"CERTIFICATE", "FINISHED"}
         THEN DataCheck(Handshake(c)) ELSE Handshake(c)
    ELSE LET rest == [c EXCEPT !.read_bio = Tail(@)]
         IN CASE Head(c.read_bio) = "DATA" ->
                   [rest EXCEPT !.read_buffer = @ + 1]
              [] Head(c.read_bio) = "ALERT" -> [rest EXCEPT !.closed = TRUE]
              [] OTHER -> HandleError(rest)

(* A read from the socket of n records, or none.                             *)
ReadData(c, n) ==
    IF n = 0 THEN c
    ELSE IF c.handshake_done
    THEN Decrypt([c EXCEPT !.read_bio = @ \o SubSeq(server.in, 1, n)])
    ELSE HandshakeResponse(c)

(* libuv writes what is queued, when the socket takes it.                    *)
Flush(c) ==
    IF ~c.room THEN c
    ELSE [c EXCEPT !.out = @ \o [i \in 1..c.queued |-> c.ssl_write_buffer[1]],
                   !.queued = 0, !.done = @ + c.queued]

(* on_write, once or more often.                                             *)
OnWrites(c) ==
    [c EXCEPT !.done = 0,
              !.status = IF c.done > 0 /\ ~c.expected THEN "IDLE" ELSE @]

(* attachsql_con_process_packets, from the check callback: the answer is     *)
(* read when it is there in full.                                            *)
Process(c) ==
    IF c.expected /\ c.handshake_done /\ c.read_buffer > 0
         /\ c.read_buffer = server.answer
    THEN [c EXCEPT !.expected = FALSE, !.status = "IDLE", !.read_buffer = 0]
    ELSE c

-----------------------------------------------------------------------------
(* Actions                                                                   *)

(* A turn of the loop up to the read of n records.                           *)
Turned(c, n) ==
    ReadData(OnWrites(IF c.handshake_done THEN SslRun(c) ELSE c), n)

(* attachsql_connect_poll and attachsql_do_poll, with n records in the       *)
(* socket when the loop reads it.  (read is quantified, not defined, for TLC *)
(* to evaluate it once.)                                                     *)
Poll(n) ==
    /\ n <= Len(server.in)
    /\ con.status \in {"CONNECTING", "BUSY"}
    /\ \E read \in {Turned(con, n)} :
       LET all == Process(OnWrites(Flush(read)))
       IN  /\ con' = [all EXCEPT !.thrown = 0]
           /\ lost' = lost + all.thrown
           /\ given' = IF all.handshake_done /\ ~con.handshake_done
                       THEN Login ELSE given
    /\ server' = [server EXCEPT !.in = SubSeq(@, n + 1, Len(@))]
    /\ met' = IF n > 1 THEN met \union {"burst"} ELSE met

(* attachsql_read_data_cb when the server has hung up.                       *)
ReadFails(c) == [c EXCEPT !.status = "NET_ERROR", !.expected = FALSE]

(* The same poll, when the socket holds the last records and its end: what   *)
(* was read is not looked at any more.                                       *)
PollEnd ==
    /\ server.gone /\ Len(server.in) <= Burst
    /\ con.status \in {"CONNECTING", "BUSY"}
    /\ LET all == ReadFails(Turned(con, Len(server.in)))
       IN  /\ con' = [all EXCEPT !.thrown = 0]
           /\ lost' = lost + all.thrown
    /\ server' = [server EXCEPT !.in = << >>]
    /\ met' = IF Len(server.in) > 1 THEN met \union {"burst"} ELSE met
    /\ UNCHANGED given

(* attachsql_do_poll returns at once, or finds a socket that is closed.      *)
PollEarly ==
    /\ con.status \in {"IDLE", "CONNECT_FAILED", "SSL_ERROR", "NET_ERROR"}
    /\ UNCHANGED vars

Sent == Cardinality({g \in ToSet(given) : g.message = "COMMAND" /\ g.part = 1})

(* attachsql_command_send of a command of n chunks; COM_STMT_CLOSE has no    *)
(* answer.  attachsql_ssl_buffer_write returns 0 whatever happened.          *)
Send(n, answered) ==
    /\ con.status = "IDLE"
    /\ Sent < MaxCommands
    /\ LET chunks == [i \in 1..n |-> [message |-> "COMMAND",
                        number |-> Sent + 1, part |-> i, clear |-> FALSE]]
           sent == SslBufferWrite(con, chunks)
       IN  /\ con' = [sent EXCEPT !.expected = answered, !.status = "BUSY",
                                  !.thrown = 0]
           /\ lost' = lost + sent.thrown
           /\ given' = given \o chunks
    /\ UNCHANGED <<server, met>>

(* The socket's buffer is full, or has room again (external).  The first few *)
(* packets of a connection always fit.                                       *)
SocketFull ==
    /\ con.finished /\ con.room
    /\ con' = [con EXCEPT !.room = FALSE]
    /\ met' = met \union {"full"}
    /\ UNCHANGED <<server, given, lost>>

SocketDrains ==
    /\ ~con.room
    /\ con' = [con EXCEPT !.room = TRUE]
    /\ UNCHANGED <<server, given, lost, met>>

-----------------------------------------------------------------------------
(* The server (external)                                                     *)

(* The logins and commands among the first i chunks of s, for each i, and    *)
(* those the server was sent.                                                *)
IsData(chunk) == chunk.message \in {"LOGIN", "COMMAND"}
DataUpTo(s) ==
    LET upto[i \in 0..Len(s)] ==
            IF i = 0 THEN << >>
            ELSE IF IsData(s[i]) THEN Append(upto[i - 1], s[i])
            ELSE upto[i - 1]
    IN  upto
Received == DataUpTo(con.out)[Len(con.out)]

(* The last chunk of a message has arrived, and all before it.               *)
Complete ==
    /\ con.queued = 0 /\ con.done = 0
    /\ con.waiting = << >> \/ ~con.finished
    /\ ~con.finished \/ Received = given

(* It answers each message once; on_write has run before the answer can be   *)
(* read.  COM_STMT_CLOSE, which the client does not wait for, is silent.     *)
ServerAnswers ==
    /\ ~server.gone
    /\ server.seen < Len(con.out)
    /\ Complete
    /\ LET last == Last(con.out).message
       IN  \/ /\ last = "HELLO"
              /\ server' = [server EXCEPT !.seen = Len(con.out),
                                          !.in = << "CERTIFICATE" >>]
           \/ /\ last = "KEY"
              /\ server' = [server EXCEPT !.seen = Len(con.out),
                                          !.in = << "FINISHED" >>]
           \/ /\ last \in {"LOGIN", "COMMAND"}
              /\ con.expected
              /\ \E n \in (IF last = "LOGIN" THEN {1} ELSE Records) :
                   server' = [server EXCEPT !.seen = Len(con.out),
                                !.in = @ \o [i \in 1..n |-> "DATA"],
                                !.answer = n]
    /\ UNCHANGED <<con, given, lost, met>>

(* It gives up: it refuses the handshake, finds the stream damaged, or fails *)
(* for reasons of its own; or what it sends arrives damaged.                 *)
ServerFails ==
    /\ ~server.gone
    /\ con.finished \/ (Complete /\ server.seen < Len(con.out))
    /\ \E last \in {"ALERT", "ERROR"} :
         server' = [server EXCEPT !.gone = TRUE, !.in = Append(@, last)]
    /\ UNCHANGED <<con, given, lost, met>>

Next ==
    \/ \E n \in 0..Burst : Poll(n)
    \/ PollEnd
    \/ \E n \in Sizes, answered \in BOOLEAN : Send(n, answered)
    \/ SocketFull \/ SocketDrains
    \/ ServerAnswers \/ ServerFails
    \/ PollEarly

Spec == Init /\ [][Next]_vars

(* The application polls, what the server sent arrives, the socket drains    *)
(* and is written to when it has, and the server answers, or fails when it   *)
(* has been sent something else than it was meant to be, and hangs up after  *)
(* an ALERT.                                                                 *)
LiveSpec ==
    /\ Spec
    /\ WF_vars(\E n \in 0..Burst : Poll(n))
    /\ SF_vars(\E n \in 1..Burst : Poll(n))
    /\ SF_vars(\E n \in 0..Burst : Poll(n) /\ con'.queued < con.queued)
    /\ WF_vars(SocketDrains)
    /\ WF_vars(con.closed /\ PollEnd)
    /\ WF_vars(ServerAnswers)
    /\ WF_vars(ServerFails /\ ~IsPrefix(Received, given))

-----------------------------------------------------------------------------
(* Properties                                                                *)

(* The fields have their types, and the data between the offsets of          *)
(* ssl.write_buffer is what OpenSSL has not taken.                           *)
TypeOK ==
    /\ con.status \in {"CONNECTING", "CONNECT_FAILED", "IDLE", "BUSY",
                       "SSL_ERROR", "NET_ERROR"}
    /\ \A f \in {"expected", "handshake_done", "finished", "failed", "closed",
                 "room"} : con[f] \in BOOLEAN
    /\ con.out \in Seq(Chunks) /\ con.waiting \in Seq(Chunks)
    /\ con.end = con.start + Len(con.waiting)
    /\ con.used = con.end
    /\ ToSet(con.read_bio) \union ToSet(server.in) \subseteq
         {"GREETING", "CERTIFICATE", "FINISHED", "DATA", "ALERT", "ERROR"}
    /\ lost \in Nat /\ met \subseteq {"full", "burst"}

(* The login and the commands are written to the socket only encrypted, and  *)
(* only after the handshake of OpenSSL; a server without TLS is sent         *)
(* nothing: "this response and all other send / receives should be encrypted *)
(* from now on" (connect.cc:785).                                            *)
CredentialsEncrypted ==
    \A i \in DOMAIN con.out :
        /\ IsData(con.out[i]) => ~con.out[i].clear /\ con.finished
        /\ server.ssl

(* Every message reaches the server once, whole and in order, although it    *)
(* waits in ssl.write_buffer for as long as OpenSSL wants to read first, and *)
(* several places call attachsql_ssl_data_check.  Only where the socket has  *)
(* been full can it be that a message of more than one chunk was not, since  *)
(* ssl_write_buffer is filled again while libuv still points to it           *)
(* (net.cc:66, net.cc:96).                                                   *)
SentIntact ==
    \/ IsPrefix(Received, given)
    \/ "full" \in met /\ \E i \in DOMAIN given : given[i].part > 1

(* No record of an answer is thrown away, unless one read from the socket    *)
(* has brought several: the read callback calls SSL_read once, and the next  *)
(* poll reads what it left and drops it (net.cc:51).                         *)
NothingLost == lost > 0 => "burst" \in met

(* When a function of OpenSSL has returned an error, poll reports one: "An   *)
(* error has occurred", not the end of a command.  Two things can come after *)
(* the error and overwrite the status: on_write for data that had to wait    *)
(* for the socket, which takes the emptied stack for the end of a command,   *)
(* and a command that is sent while a record after the last answer is still  *)
(* unread (net.cc:121, net.cc:355, command.cc:135).                          *)
ErrorReported ==
    con.failed /\ con.status \notin {"SSL_ERROR", "NET_ERROR"} => met # {}

(* The handshake and every command come to an end, also when the login waits *)
(* for OpenSSL and the socket is full at times, and when the server closes   *)
(* TLS first, of which the library only hears by the end of the socket       *)
(* (net.cc:409); but not if OpenSSL has failed and the error was             *)
(* overwritten, or if one read has held several records, of which one may be *)
(* thrown away (net.cc:51, net.cc:121).                                      *)
CommandEnds ==
    con.status \in {"CONNECTING", "BUSY"} ~>
        \/ con.status \notin {"CONNECTING", "BUSY"}
        \/ con.failed \/ "burst" \in met

(* Nothing but the greeting passes in the clear, however ssl.write_buffer    *)
(* and the handshake meet (connect.cc:785, net.cc:131).                      *)
SentEncrypted == TypeOK /\ CredentialsEncrypted

(* Neither a record nor an error gets lost on the way to the application,    *)
(* but for the cases named above (net.cc:51, net.cc:121).                    *)
AnswersKept == NothingLost /\ ErrorReported
=============================================================================

------------------------- MODULE ConnectionInvariant -------------------------
(***************************************************************************)
(* The inductive invariant behind the safety properties of Connection: for *)
(* every packet type the reader may expect, where in the server's reply it *)
(* then is.  It is stated for servers that do not break off a result set   *)
(* with an error packet, which attachsql_packet_read_row takes for a row.  *)
(***************************************************************************)
EXTENDS Connection

NoRowErrors == \A r \in QueryReplies : r.end = "EOF"

(* The number of the packet read last, as the server counts.                *)
Number == (base + pos) % 256

(* The reader and the stream are together: no command was sent over unread  *)
(* packets and the stream has not failed.                                   *)
Together == stream = "open" /\ ~stale

(* The stream's life, seen from status.                                     *)
StreamInv ==
    /\ status = "NOT_CONNECTED" => stream = "none" /\ pc \in {"app", "report"}
    /\ stream \in {"resolving", "connecting"} => status = "CONNECTING"
    /\ status \in {"BUSY", "IDLE"} => stream = "open"
    /\ stream = "closed" <=> status = "NET_ERROR"
    /\ stream \notin {"open", "closed"} => /\ queue = << >>
                                           /\ writes = 0
                                           /\ command_status = "EOF"
                                           /\ local_errcode \in
                                                {"OK", "OUT_OF_MEMORY_ERROR",
                                                 "DNS_ERROR", "CONNECT_ERROR"}
                                           /\ ~in_row
                                           /\ packet_number = 0
                                           /\ current_column = 0
                                           /\ ~stale /\ ~logged_in
    /\ stream = "closed" => queue = << >>
    /\ pc \in Processing => stream = "open"
    /\ pc \in {"connecting", "loop", "read", "check", "next"} =>
         ret # "ROW_READY"
    /\ pc \in {"app", "report"} /\ ret = "ROW_READY" =>
         status = "IDLE" /\ command_status = "ROW_IN_BUFFER"
    /\ pc \in {"next", "buffer"} => status = "IDLE"

(* Packets are read in order from what has arrived, and nothing of an       *)
(* answer arrives before the command is written.                            *)
WireInv ==
    /\ pos <= arrived
    /\ arrived <= PacketCount(reply)
    /\ reply.kind = "RESULT" => reply.cols > 0 /\ reply.end = "EOF"
    /\ Together => /\ arrived > 0 => writes = 0
                   /\ writes <= 1
                   /\ status \in {"IDLE", "CONNECT_FAILED"} => writes = 0

(* Where in the reply each expectation stands.                              *)
HandshakeInv ==
    /\ reply.kind \in GreetingKinds
    /\ pos = 0 /\ base = 255 /\ packet_number = 0
    /\ status = "CONNECTING" /\ command_status = "EOF" /\ writes = 0
    /\ current_column = 0 /\ ~logged_in

ResponseInv ==
    \/ /\ command_status \in {"SEND", "READ_RESPONSE"}
       /\ pos = 0 /\ current_column = 0
       /\ reply.kind \in {"OK", "ERR", "RESULT"}
    \/ /\ command_status = "READ_COLUMN"
       /\ reply.kind = "RESULT" /\ pos = reply.cols + 1
    \/ /\ command_status = "READ_STMT_PARAM"
       /\ reply.kind = "PREPARE" /\ reply.params > 0 /\ pos = reply.params + 1
       /\ stmt.cols = reply.cols /\ stmt.current_column = 0
    \/ /\ command_status = "READ_STMT_COLUMN"
       /\ reply.kind = "PREPARE" /\ reply.cols > 0
       /\ pos + 1 = PacketCount(reply)

PrepareResponseInv ==
    /\ command_status = "SEND"
    /\ pos = 0
    /\ reply.kind \in {"PREPARE", "ERR"}
    /\ stmt.current_param = 0 /\ stmt.current_column = 0

ParameterInv ==
    /\ command_status = "READ_STMT_PARAM"
    /\ reply.kind = "PREPARE"
    /\ stmt.params = reply.params /\ stmt.cols = reply.cols
    /\ pos = stmt.current_param + 1 /\ pos <= reply.params
    /\ stmt.current_column = 0

PrepareColumnInv ==
    /\ command_status = "READ_STMT_COLUMN"
    /\ reply.kind = "PREPARE"
    /\ stmt.cols = reply.cols
    /\ pos = 1 + Definitions(reply.params) + stmt.current_column
    /\ stmt.current_column < reply.cols

ColumnInv ==
    /\ command_status = "READ_COLUMN"
    /\ reply.kind = "RESULT"
    /\ column_count = reply.cols
    /\ pos = current_column + 1 /\ pos <= reply.cols

RowInv ==
    /\ command_status = "READ_ROW"
    /\ reply.kind = "RESULT"
    /\ pos = reply.cols + 2 + rows_taken
    /\ rows_taken <= reply.rows

(* Nothing is expected: the answer is over, a row waits for the             *)
(* application, the command has no answer, or the reader gave up.           *)
NothingInv ==
    \/ /\ command_status \in {"EOF", "CONNECTED"}
       /\ ~Unread
       /\ reply.kind = "RESULT" => rows_taken = reply.rows
       /\ status # "BUSY"
    \/ /\ command_status = "ROW_IN_BUFFER"
       /\ reply.kind = "RESULT"
       /\ pos = reply.cols + 3 + rows_taken
       /\ rows_taken < reply.rows
       /\ status = "IDLE"
    \/ /\ command_status = "SEND"
       /\ reply.kind = "NONE"
       /\ status = "BUSY" /\ writes = 1
    \/ command_status = "READ_FAILED" /\ arrived > 0
    \/ command_status = "SEND_FAILED" /\ status = "IDLE"

ReaderInv ==
    Together =>
        /\ Len(queue) <= 1
        /\ Peek = "NONE"              => NothingInv
        /\ Peek = "HANDSHAKE"         => HandshakeInv
        /\ Peek = "RESPONSE"          => ResponseInv
        /\ Peek = "PREPARE_RESPONSE"  => PrepareResponseInv
        /\ Peek = "PREPARE_PARAMETER" => ParameterInv
        /\ Peek = "PREPARE_COLUMN"    => PrepareColumnInv
        /\ Peek = "COLUMN"            => ColumnInv
        /\ Peek = "ROW"               => RowInv
        /\ Peek \notin {"NONE", "ROW"} => /\ status \in {"BUSY", "CONNECTING"}
                                          /\ rows_taken = 0
        /\ Peek = "ROW" => status \in {"BUSY", "IDLE"}
        /\ Peek \notin {"NONE", "HANDSHAKE"} /\ status = "CONNECTING" =>
             command_status = "READ_RESPONSE" /\ reply \in LoginReplies
        /\ status \in {"IDLE", "CONNECT_FAILED"} /\ Unread => pos > 0

(* How the reader's packet number follows the server's.                     *)
NumberInv ==
    /\ Together /\ Peek # "HANDSHAKE" =>
         /\ Number <= 127
         /\ pos > 0 /\ logged_in => Number > 0
         /\ Peek # "NONE" \/ ~Unread \/ command_status = "ROW_IN_BUFFER" =>
              packet_number = Number
    /\ local_errcode = "PACKET_OUT_OF_SEQUENCE" /\ ~stale =>
         /\ stream = "open"
         /\ command_status = "READ_FAILED"
         /\ queue = << >>
         /\ Unread
         /\ WireNumber >= 128

(* A row in hand is the packet read last, and nothing else is expected      *)
(* until it is given up, unless a command was sent over it.                 *)
RowInHandInv ==
    in_row => /\ Unread
              /\ queue # << >> => stale

(* After a command was sent over unread packets, the packet at the head has *)
(* a number no reader of a fresh command accepts, if the reader stands      *)
(* before it and not in the row before it.                                  *)
SentOverInv ==
    stale =>
        /\ Unread
        /\ ~in_row => /\ WireNumber \in 2..128
                      /\ queue # << >> => packet_number = 0
        /\ command_status \notin {"ROW_IN_BUFFER", "CONNECTED"}
        /\ queue # << >> => status = "BUSY" /\ Len(queue) <= 2

StaleInv == RowInHandInv /\ SentOverInv

Inv == TypeOK /\ StreamInv /\ WireInv /\ ReaderInv /\ NumberInv /\ StaleInv
=============================================================================

---------------------------- MODULE Compression ----------------------------
(***************************************************************************)
(* The compressed protocol: net.cc's attachsql_send_compressed_packet and  *)
(* attachsql_con_decompress_read_buffer, command.cc's                      *)
(* attachsql_command_send_compressed, and the loop turns and row calls     *)
(* that decide how often a compressed packet is opened.                    *)
(*                                                                         *)
(* The packets of an answer are a stream of bytes that the server cuts     *)
(* into compressed packets wherever it likes.  The library opens at most   *)
(* one of them each time it looks for packets: once in the read callback,  *)
(* once in the check callback of a loop turn, once when the application    *)
(* asks for the next row.                                                  *)
(*                                                                         *)
(* The connection is logged in.  Bytes are counted in halves: two for a    *)
(* packet, two for a compressed packet on the wire.                        *)
(***************************************************************************)
EXTENDS Integers, Sequences

CONSTANTS
    Commands,        \* the commands the application uses
    MaxPackets,      \* bound: packets of an answer
    MaxChunks,       \* bound: compressed packets of an answer
    MaxCommands,     \* bound: commands
    Base             \* values of an 8-bit number, scaled down

ASSUME CompressionAssumption ==
    /\ Commands \subseteq {"QUERY", "STMT_CLOSE"}
    /\ MaxPackets \in Nat \ {0} /\ MaxChunks \in Nat \ {0} /\ MaxCommands \in Nat
    /\ Base \in Nat /\ Base > 2 /\ Base % 2 = 0

VARIABLES
    semi_block, \* con->options.semi_block, set before connecting
    con,        \* the fields of the connection, see Connections
    answer,     \* the answer to the command that was sent last
    chunks,     \* how the server has cut it, << >> before it answers
    request,    \* the command the server has to answer, or "NONE"
    available,  \* halves of compressed packets in the socket
    writes,     \* whether on_write has not run yet
    ret,        \* what the last call returned
    commands    \* commands sent

vars == <<semi_block, con, answer, chunks, request, available, writes, ret, commands>>

(* received, opened: halves in read_buffer_compress so far, and compressed   *)
(* packets taken from it; unpacked, parsed: halves put into read_buffer and  *)
(* packets taken from it, all of the current answer; broken: the read        *)
(* pointer is between a header and its data.                                 *)
Connections ==
    [status : {"IDLE", "BUSY"},
     command_status : {"EOF", "SEND", "ROW_IN_BUFFER", "READ_ROW", "READ_FAILED"},
     expected : {"NONE", "RESPONSE", "ROW"},
     compressed_packet_number : 0..(Base - 1),
     received : Nat, opened : Nat, unpacked : Nat, parsed : Nat,
     broken : BOOLEAN]

-----------------------------------------------------------------------------
(* attachsql_con_decompress_read_buffer                                      *)

(* The fourth byte of the n-th compressed packet, read as a char.            *)
NumberByte(n) ==
    LET byte == n % Base IN IF byte < Base \div 2 THEN byte ELSE byte - Base

Whole(c) == c.opened < Len(chunks) /\ c.received >= 2 * (c.opened + 1)

Failed(c) == [c EXCEPT !.command_status = "READ_FAILED", !.expected = "NONE"]

(* Mutant: a packet is counted before all of it has arrived.                 *)
DecompressCounting(c) ==
    LET d == [c EXCEPT !.compressed_packet_number = (@ + 1) % Base]
    IN  IF ~Whole(c) THEN IF c.received > 2 * c.opened THEN d ELSE c
        ELSE IF d.compressed_packet_number # NumberByte(c.opened + 1) THEN Failed(d)
        ELSE IF chunks[c.opened + 1].large THEN Failed([d EXCEPT !.broken = TRUE])
        ELSE [d EXCEPT !.opened = @ + 1,
                       !.unpacked = @ + chunks[c.opened + 1].size]

(* Mutant: the number of the next packet has no width.                       *)
DecompressWide(c) ==
    LET d == [c EXCEPT !.compressed_packet_number = @ + 1]
    IN  IF ~Whole(c) \/ c.broken THEN c
        ELSE IF d.compressed_packet_number # NumberByte(c.opened + 1) THEN Failed(d)
        ELSE IF chunks[c.opened + 1].large THEN Failed([d EXCEPT !.broken = TRUE])
        ELSE [d EXCEPT !.opened = @ + 1,
                       !.unpacked = @ + chunks[c.opened + 1].size]

(* Mutant: the read pointer stays at a packet that was not compressed.       *)
DecompressTwice(c) ==
    LET d == [c EXCEPT !.compressed_packet_number = (@ + 1) % Base]
    IN  IF ~Whole(c) \/ c.broken THEN c
        ELSE IF d.compressed_packet_number # NumberByte(c.opened + 1) THEN Failed(d)
        ELSE [d EXCEPT !.unpacked = @ + chunks[c.opened + 1].size]

(* A large packet needs more than one doubling of the read buffer, which is  *)
(* all it gets: uncompress fails after the header has been skipped.  What    *)
(* later calls then take for a header is not modelled: no packet is expected *)
(* any more.                                                                 *)
Decompress(c) ==
    LET d == [c EXCEPT !.compressed_packet_number = (@ + 1) % Base]
    IN  IF ~Whole(c) \/ c.broken THEN c
        ELSE IF d.compressed_packet_number # NumberByte(c.opened + 1) THEN Failed(d)
        ELSE IF chunks[c.opened + 1].large THEN Failed([d EXCEPT !.broken = TRUE])
        ELSE [d EXCEPT !.opened = @ + 1,
                       !.unpacked = @ + chunks[c.opened + 1].size]

-----------------------------------------------------------------------------
(* attachsql_con_process_packets                                             *)

(* Packets up to the end of the definitions and the first row, or up to the  *)
(* only packet, follow one another; each row after that is asked for.        *)
Stop(c) == IF c.parsed < answer.head THEN answer.head ELSE c.parsed + 1

(* Mutant: the last but one packet is taken for the end.                     *)
ReadPacketsShort(c) ==
    IF c.expected = "NONE" THEN c
    ELSE IF c.unpacked < 2 * Stop(c)
      THEN [c EXCEPT !.parsed = IF @ < c.unpacked \div 2 THEN c.unpacked \div 2 ELSE @]
    ELSE [c EXCEPT !.parsed = Stop(c), !.expected = "NONE", !.status = "IDLE",
                   !.command_status = IF Stop(c) >= answer.packets - 1 THEN "EOF"
                                      ELSE "ROW_IN_BUFFER"]

ReadPackets(c) ==
    IF c.expected = "NONE" THEN c
    ELSE IF c.unpacked < 2 * Stop(c)
      THEN [c EXCEPT !.parsed = IF @ < c.unpacked \div 2 THEN c.unpacked \div 2 ELSE @]
    ELSE [c EXCEPT !.parsed = Stop(c), !.expected = "NONE", !.status = "IDLE",
                   !.command_status = IF Stop(c) = answer.packets THEN "EOF"
                                      ELSE "ROW_IN_BUFFER"]

Process(c) == ReadPackets(Decompress(c))

-----------------------------------------------------------------------------
(* Sending                                                                   *)

Init ==
    /\ semi_block \in BOOLEAN
    /\ con = [status |-> "IDLE", command_status |-> "EOF", expected |-> "NONE",
              compressed_packet_number |-> 0, received |-> 0, opened |-> 0,
              unpacked |-> 0, parsed |-> 0, broken |-> FALSE]
    /\ answer = [packets |-> 1, head |-> 1]
    /\ chunks = << >>
    /\ request = "NONE"
    /\ available = 0
    /\ writes = FALSE
    /\ ret = "EOF"
    /\ commands = 0

(* attachsql_command_send_compressed of an idle connection, whatever became  *)
(* of the packet.  The counts start again with the answer.                   *)
Sent(c) ==
    [c EXCEPT !.compressed_packet_number = 0,
              !.received = 0, !.opened = 0, !.unpacked = 0, !.parsed = 0,
              !.expected = "RESPONSE", !.command_status = "SEND",
              !.status = "BUSY"]

(* The application has read the whole answer to the command before.          *)
Send(command) ==
    /\ con.status = "IDLE" /\ con.command_status = "EOF"
    /\ ret = "EOF"
    /\ commands < MaxCommands
    /\ commands' = commands + 1
    /\ con' = Sent(con)
    /\ request' = command
    /\ writes' = TRUE
    /\ chunks' = << >>
    /\ ret' = "true"
    /\ UNCHANGED <<semi_block, answer, available>>

(* attachsql_send_compressed_packet reports SEND_FAILED, the caller          *)
(* overwrites it.                                                            *)
SendFails(command) ==
    /\ con.status = "IDLE" /\ con.command_status = "EOF"
    /\ ret = "EOF"
    /\ commands < MaxCommands
    /\ commands' = commands + 1
    /\ con' = Sent(con)
    /\ request' = "LOST"
    /\ chunks' = << >>
    /\ ret' = "true"
    /\ UNCHANGED <<semi_block, answer, available, writes>>

-----------------------------------------------------------------------------
(* The server and the network (external)                                     *)

(* head: the packets up to the first row, or all of them.                    *)
Answers ==
    {a \in [packets : 1..MaxPackets, head : 1..MaxPackets] : a.head <= a.packets}

(* Halves in the first compressed packets of an answer, by their number.     *)
SizeUpTo(s) ==
    LET upto[i \in 0..Len(s)] == IF i = 0 THEN 0 ELSE upto[i - 1] + s[i].size
    IN  upto

(* The ways to cut so many halves.                                           *)
Cuts(halves) ==
    {s \in UNION {[1..n -> [size : 1..halves, large : BOOLEAN]] :
                    n \in 1..MaxChunks} : SizeUpTo(s)[Len(s)] = halves}

(* A closed statement is not acknowledged.                                   *)
ServerAnswers ==
    /\ request # "NONE" /\ request # "LOST"
    /\ request' = "NONE"
    /\ \/ /\ request = "STMT_CLOSE"
          /\ UNCHANGED <<answer, chunks>>
       \/ /\ request = "QUERY"
          /\ answer' \in Answers
          /\ chunks' \in Cuts(2 * answer'.packets)
    /\ UNCHANGED <<semi_block, con, available, writes, ret, commands>>

Underway == 2 * Len(chunks) - con.received - available

Arrive ==
    /\ \E n \in 1..Underway : available' = available + n
    /\ UNCHANGED <<semi_block, con, answer, chunks, request, writes, ret, commands>>

-----------------------------------------------------------------------------
(* Polling and rows                                                          *)

Returned(c) ==
    CASE c.status = "BUSY" -> "PROCESSING"
      [] c.command_status = "ROW_IN_BUFFER" -> "ROW_READY"
      [] OTHER -> "EOF"

(* Mutant: there is no check callback.                                       *)
TurnWithoutCheck(c) ==
    IF available > 0 THEN Process([c EXCEPT !.received = @ + available]) ELSE c

(* uv_run: the read callback if there is something to read, then the check   *)
(* callback.                                                                 *)
Turn(c) ==
    Process(IF available > 0 THEN Process([c EXCEPT !.received = @ + available])
                             ELSE c)

(* attachsql_connect_poll, attachsql_do_poll and attachsql_run_uv_loop: an   *)
(* idle connection does not run the loop; UV_RUN_ONCE does not return before *)
(* there is a callback.                                                      *)
Poll ==
    \/ /\ con.status = "IDLE"
       /\ ret' = Returned(con)
       /\ UNCHANGED <<semi_block, con, answer, chunks, request, available, writes, commands>>
    \/ /\ con.status = "BUSY"
       /\ semi_block => writes \/ available > 0
       /\ con' = Turn(con)
       /\ available' = 0
       /\ writes' = FALSE
       /\ ret' = Returned(con')
       /\ UNCHANGED <<semi_block, answer, chunks, request, commands>>

(* UV_RUN_ONCE waits for the socket.                                         *)
PollWaits ==
    /\ con.status = "BUSY"
    /\ semi_block /\ ~writes /\ available = 0
    /\ UNCHANGED vars

(* attachsql_query_row_next, attachsql_get_next_row                          *)
RowNext ==
    /\ ret = "ROW_READY"
    /\ con.command_status = "ROW_IN_BUFFER"
    /\ con' = Process([con EXCEPT !.expected = "ROW",
                                  !.command_status = "READ_ROW"])
    /\ ret' = "NONE"
    /\ UNCHANGED <<semi_block, answer, chunks, request, available, writes, commands>>

Next ==
    \/ \E command \in Commands : Send(command) \/ SendFails(command)
    \/ ServerAnswers \/ Arrive
    \/ Poll \/ PollWaits \/ RowNext

Spec == Init /\ [][Next]_vars

(* The application polls, the server answers, the network delivers.          *)
LiveSpec ==
    /\ Spec
    /\ WF_vars(Poll)
    /\ WF_vars(ServerAnswers)
    /\ WF_vars(Arrive)

-----------------------------------------------------------------------------
(* Properties                                                                *)

(* The fields have their types (structs.h), and no more is read than there   *)
(* is to read.                                                               *)
TypeOK ==
    /\ con \in Connections
    /\ con.opened <= Len(chunks) /\ con.parsed <= answer.packets
    /\ con.received + available <= 2 * Len(chunks)
    /\ request \in Commands \union {"NONE", "LOST"}
    /\ writes \in BOOLEAN
    /\ ret \in {"true", "NONE", "PROCESSING", "ROW_READY", "EOF"}

(* read_buffer holds the beginning of the server's stream, each compressed   *)
(* packet once and in its place, however the packets were cut and whichever  *)
(* callback opened them (net.cc:434).                                        *)
StreamUnpacked ==
    con.unpacked = SizeUpTo(chunks)[con.opened]

(* A packet is refused only if it is too large for the read buffer or if its *)
(* number has the sign bit set: counting goes wrong neither over packets in  *)
(* pieces nor from one command to the next (net.cc:457, net.cc:234).         *)
RefusalExplained ==
    con.command_status = "READ_FAILED" =>
        \/ con.opened + 1 >= Base \div 2
        \/ chunks[con.opened + 1].large

(* When the library says that an answer is over, nothing of it is left on    *)
(* its way, in read_buffer_compress or in read_buffer: the next command      *)
(* starts its count with its own answer (connect.cc:283, net.cc:236).        *)
EndIsWhole ==
    /\ con.status = "IDLE" /\ con.command_status = "EOF" /\ chunks # << >>
    => /\ con.opened = Len(chunks)
       /\ con.received = 2 * Len(chunks) /\ available = 0
       /\ con.unpacked = 2 * con.parsed

(* The server has been sent nothing that it answers.                         *)
Unanswered == request = "LOST" \/ (request = "NONE" /\ chunks = << >>)

(* The answer to a command is read up to its first row or its end, also if   *)
(* no more data arrives while compressed packets are still unopened          *)
(* (connect.cc:334).  There are three exceptions: a packet was refused; the  *)
(* library waits for the answer to a command that has none, or that could    *)
(* not be sent (command.cc:34); and uv_run waits for the socket although the *)
(* whole answer was received, because each turn opens one packet             *)
(* (net.cc:1024).                                                            *)
AnswerRead ==
    con.status = "BUSY" ~>
        \/ con.status = "IDLE"
        \/ con.command_status = "READ_FAILED"
        \/ Unanswered
        \/ /\ semi_block /\ con.received = 2 * Len(chunks)
           /\ con.opened < Len(chunks)

(* Compressed packets are opened once each and in order, and one is refused  *)
(* only for the reasons named above (net.cc:434, net.cc:457).                *)
PacketsOpened == TypeOK /\ StreamUnpacked /\ RefusalExplained
=============================================================================

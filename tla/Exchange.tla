------------------------------ MODULE Exchange ------------------------------
(***************************************************************************)
(* Which commands have an answer: attachsql_command_send (command.cc)      *)
(* pushes the packet it expects, and the calls of statement.cc and         *)
(* statement_getset.cc that use it.                                        *)
(*                                                                         *)
(* The module Connection follows one answer through its packets.  Here an  *)
(* answer is one packet, OK or an error, and the question is whose answer  *)
(* the library reads: packet numbers start again with every command, so    *)
(* nothing but the count of answers ties an answer to its command.  The    *)
(* connection is logged in, is not compressed, and does not fail.          *)
(***************************************************************************)
EXTENDS Naturals, Sequences, FiniteSets

CONSTANTS
    Commands,       \* the commands the application uses
    MaxCommands     \* bound: commands sent

ASSUME ExchangeAssumption ==
    /\ Commands \subseteq
         {"QUERY", "PREPARE", "EXECUTE", "RESET", "LONG_DATA", "CLOSE"}
    /\ MaxCommands \in Nat

VARIABLES
    con,       \* the fields of the connection and its socket, see Connections
    sent,      \* the commands, in the order they were sent
    seen,      \* how many of them the server has seen
    ret        \* what the last poll returned

vars == <<con, sent, seen, ret>>

Answers == [of : 1..MaxCommands, error : BOOLEAN]

(* expected: the expectation stack is not empty; read_buffer: the answers in *)
(* it; socket: the answers not read yet; writes: write requests whose        *)
(* on_write has not run.  taken is a history: for each command the one whose *)
(* answer was taken, or 0.                                                   *)
Connections ==
    [status : {"IDLE", "BUSY"}, expected : BOOLEAN, server_errno : BOOLEAN,
     stmt : BOOLEAN, read_buffer : Seq(Answers), socket : Seq(Answers),
     writes : 0..MaxCommands, taken : Seq(0..MaxCommands)]

Init ==
    /\ con = [status |-> "IDLE", expected |-> FALSE, server_errno |-> FALSE,
              stmt |-> FALSE, read_buffer |-> << >>, socket |-> << >>,
              writes |-> 0, taken |-> << >>]
    /\ sent = << >>
    /\ seen = 0
    /\ ret = "EOF"

-----------------------------------------------------------------------------
(* Commands                                                                  *)

(* Mutant: every command waits for an answer, as in the compressed protocol. *)
ExpectsAlways(command) == TRUE

(* Mutant: only the commands of a query have an answer.                      *)
ExpectsButPrepare(command) == command \notin {"RESET", "CLOSE", "PREPARE"}

(* The packet type attachsql_command_send pushes, if any.                    *)
Expects(command) == command \notin {"RESET", "CLOSE"}

(* The calls on a statement need one.  The application has been told that    *)
(* the last command is over, or that was COM_STMT_CLOSE, which is not polled *)
(* for; it closes a statement before it prepares another.                    *)
MaySend(command) ==
    /\ Len(sent) < MaxCommands
    /\ command \in {"EXECUTE", "RESET", "LONG_DATA", "CLOSE"} => con.stmt
    /\ command = "PREPARE" => ~con.stmt
    /\ \/ con.status = "IDLE" /\ ret \in {"EOF", "ERROR"}
       \/ sent # << >> /\ sent[Len(sent)] = "CLOSE"

Send(command) ==
    /\ MaySend(command)
    /\ con' = [con EXCEPT !.server_errno = FALSE,
                          !.expected = @ \/ Expects(command),
                          !.status = "BUSY",
                          !.writes = @ + 1,
                          !.stmt = IF command = "CLOSE" THEN FALSE
                                   ELSE @ \/ command = "PREPARE",
                          !.taken = Append(@, 0)]
    /\ sent' = Append(sent, command)
    /\ ret' = "NONE"
    /\ UNCHANGED seen

-----------------------------------------------------------------------------
(* The server (external)                                                     *)

(* A parameter's data and the end of a statement are not acknowledged.       *)
Silent(command) == command \in {"LONG_DATA", "CLOSE"}

(* The server reads its commands in order.                                   *)
ServerReads ==
    /\ seen < Len(sent)
    /\ seen' = seen + 1
    /\ \/ /\ Silent(sent[seen'])
          /\ UNCHANGED con
       \/ /\ ~Silent(sent[seen'])
          /\ \E error \in BOOLEAN :
               con' = [con EXCEPT !.socket =
                         Append(@, [of |-> seen', error |-> error])]
    /\ UNCHANGED <<sent, ret>>

-----------------------------------------------------------------------------
(* Polling                                                                   *)

(* Mutant: a complete write ends every command.                              *)
OnWriteAlways(c) == [c EXCEPT !.writes = @ - 1, !.status = "IDLE"]

(* on_write: a command that expects nothing is over.                         *)
OnWrite(c) ==
    [c EXCEPT !.writes = @ - 1,
              !.status = IF c.expected THEN @ ELSE "IDLE"]

(* Mutant: the read pointer is left at the beginning of the packet.          *)
ProcessKeeping(c) ==
    IF ~c.expected \/ c.read_buffer = << >> THEN c
    ELSE [c EXCEPT !.expected = FALSE,
                   !.server_errno = Head(c.read_buffer).error,
                   !.status = "IDLE",
                   !.taken[Len(sent)] = Head(c.read_buffer).of]

(* Mutant: the end of a packet is taken for the end of what was read.        *)
ProcessDropping(c) ==
    IF ~c.expected \/ c.read_buffer = << >> THEN c
    ELSE [c EXCEPT !.expected = FALSE,
                   !.server_errno = Head(c.read_buffer).error,
                   !.status = "IDLE",
                   !.taken[Len(sent)] = Head(c.read_buffer).of,
                   !.read_buffer = << >>]

(* attachsql_con_process_packets: the packet on top of the stack is taken    *)
(* from the buffer by attachsql_packet_read_response, or by                  *)
(* attachsql_packet_read_prepare_response, whose fields are left out here.   *)
Process(c) ==
    IF ~c.expected \/ c.read_buffer = << >> THEN c
    ELSE [c EXCEPT !.expected = FALSE,
                   !.server_errno = Head(c.read_buffer).error,
                   !.status = "IDLE",
                   !.taken[Len(sent)] = Head(c.read_buffer).of,
                   !.read_buffer = Tail(@)]

(* attachsql_read_data_cb                                                    *)
OnRead(c) ==
    IF c.socket = << >> THEN c
    ELSE Process([c EXCEPT !.read_buffer = @ \o c.socket, !.socket = << >>])

(* What a turn of the loop makes of the connection: the read callback if     *)
(* there is something to read, on_write before or after it if the write is   *)
(* complete, then the check callback.                                        *)
Turns(c) ==
    {Process(OnRead(c))} \union
        (IF c.writes = 0 THEN {}
         ELSE {Process(OnRead(OnWrite(c))), Process(OnWrite(OnRead(c)))})

Returned(c) ==
    CASE c.status = "BUSY" -> "PROCESSING"
      [] c.status = "IDLE" /\ c.server_errno -> "ERROR"
      [] OTHER -> "EOF"

(* attachsql_connect_poll: an idle connection does not run the loop.         *)
Poll ==
    /\ con' \in IF con.status = "IDLE" THEN {con} ELSE Turns(con)
    /\ ret' = Returned(con')
    /\ UNCHANGED <<sent, seen>>

Next == (\E command \in Commands : Send(command)) \/ ServerReads \/ Poll

Spec == Init /\ [][Next]_vars

(* The application polls, a write that libuv has accepted completes, and the *)
(* server reads what it is sent.                                             *)
LiveSpec ==
    /\ Spec
    /\ WF_vars(Poll)
    /\ SF_vars(Poll /\ con'.writes < con.writes)
    /\ WF_vars(ServerReads)

-----------------------------------------------------------------------------
(* Properties                                                                *)

(* The fields have their types (structs.h), and a connection that expects a  *)
(* packet is busy.                                                           *)
TypeOK ==
    /\ con \in Connections
    /\ con.expected => con.status = "BUSY"
    /\ Len(con.taken) = Len(sent) /\ seen \in 0..Len(sent)
    /\ con.writes <= Len(sent)
    /\ ret \in {"NONE", "PROCESSING", "ERROR", "EOF"}

Sent(command) == Cardinality({k \in DOMAIN sent : sent[k] = command})

Unread ==
    Len(con.read_buffer) + Len(con.socket)
        + Cardinality({k \in (seen + 1)..Len(sent) : ~Silent(sent[k])})

(* An idle connection is as many answers behind the server as it has sent    *)
(* COM_STMT_RESET, less the COM_STMT_SEND_LONG_DATA that have made up for    *)
(* one: nothing else, in whatever order reads and writes complete, lets the  *)
(* two sides lose count (command.cc:121, net.cc:355).                        *)
BehindByResets ==
    con.status = "IDLE" => Unread + Sent("LONG_DATA") = Sent("RESET")

(* The answers are taken in the order of the commands, none twice, however   *)
(* far behind the library is (net.cc:541).                                   *)
AnswersInOrder ==
    \A j, k \in DOMAIN con.taken :
        j < k /\ con.taken[j] # 0 /\ con.taken[k] # 0 =>
            con.taken[j] < con.taken[k]

(* What a command reports - affected rows, insert id, an error - is the      *)
(* answer to that command, "the number of affected rows from an UPDATE       *)
(* query": nothing but a COM_STMT_RESET before it, whose acknowledgement     *)
(* nobody waits for, gives it the answer of another (command.cc:125).        *)
AnswerIsOwn ==
    \A k \in DOMAIN con.taken :
        con.taken[k] \notin {0, k} => \E j \in 1..(k - 1) : sent[j] = "RESET"

(* A connection does not stay busy: every command is over at some time,      *)
(* except COM_STMT_SEND_LONG_DATA, for which the library waits although the  *)
(* server says nothing (command.cc:131, net.cc:355, net.cc:731).             *)
CommandEnds ==
    con.status = "BUSY" ~>
        con.status = "IDLE" \/ sent[Len(sent)] = "LONG_DATA"

(* The library counts answers as the server does, and takes them in their    *)
(* order, while one packet is expected at most (command.cc:121, net.cc:355,  *)
(* net.cc:541).                                                              *)
CountKept == TypeOK /\ BehindByResets /\ AnswersInOrder
=============================================================================

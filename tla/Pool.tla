-------------------------------- MODULE Pool --------------------------------
(***************************************************************************)
(* A connection pool (pool.cc): several connections on one libuv loop,     *)
(* whose progress reaches the application as events through the pool's     *)
(* callback (attachsql_send_callback in connect.cc).                       *)
(*                                                                         *)
(* attachsql_pool_run lets the loop handle what has arrived for any of the *)
(* connections (phase "loop"), then polls them in the order they were      *)
(* added (phase "poll", turn).  A poll may call the callback, in which the *)
(* application may call the library again, for any connection; stack holds *)
(* the callbacks that have not returned.  What the poll does after its     *)
(* callback is done when the frame is popped.                              *)
(*                                                                         *)
(* The packets of an answer are module Connection's matter.  Here the      *)
(* server ends an answer, fails it, or has one more row.                   *)
(***************************************************************************)
EXTENDS Integers, Sequences

CONSTANTS
    N,                 \* bound: connections added to the pool
    MaxRows,           \* rows a result may have
    MaxCommands,       \* bound: commands the application gives, in all
    Statements         \* whether it uses prepared statements

ASSUME PoolAssumption ==
    /\ N \in Nat \ {0}
    /\ MaxRows \in Nat
    /\ MaxCommands \in Nat
    /\ Statements \in BOOLEAN

VARIABLES
    count,    \* pool->connection_count
    con,      \* the attachsql_connect_t of each connection
    app,      \* history: what the application knows of each connection
    phase,    \* "app", "loop" or "poll"
    turn,     \* the connection attachsql_pool_run polls
    stack,    \* callbacks in progress, the running one last
    err,      \* the connection whose error the error pointer of
              \* attachsql_pool_run was last set for; 0: NULL
    commands  \* commands given so far

vars == <<count, con, app, phase, turn, stack, err, commands>>

Cons == 1..N
Events == {"CONNECTED", "ERROR", "EOF", "ROW_READY"}
CommandKinds == {"QUERY", "PREPARE", "EXECUTE"}

(* pending: what query_buffer holds; prepared: a statement is ready; owed:   *)
(* answers the server still has to give on this connection; left: rows of    *)
(* the current one that have not been read.                                  *)
Fields == [status : {"NOT_CONNECTED", "CONNECTING", "CONNECT_FAILED", "BUSY",
                     "IDLE", "NET_ERROR"},
           command_status : {"EOF", "CONNECTED", "SEND", "SEND_FAILED",
                             "READ_FAILED", "ROW_IN_BUFFER", "READ_ROW"},
           server_errno : BOOLEAN,
           last_callback : Events \union {"NONE"},
           in_query : BOOLEAN,
           pending : {"NONE", "QUERY", "PREPARE"},
           command : CommandKinds \union {"NONE"},
           prepared : BOOLEAN,
           owed : Nat,
           left : Nat]

(* waiting: what the application waits to be told; told: it has been told    *)
(* what poll sees now; asked: it has taken a row of this answer with         *)
(* attachsql_query_row_next; seen, missed: events it was given, and events   *)
(* it should have been given and was not; resent: it has sent a query with   *)
(* parameters from the callback of the CONNECTED event.                      *)
Knowledge == [waiting : {"nothing", "connection", "answer"}, told : BOOLEAN,
              asked : BOOLEAN, seen : SUBSET Events, missed : SUBSET Events,
              resent : BOOLEAN]

Frame == [con : Cons, event : Events, from : {"poll", "connect"},
          error : 0..N, handled : BOOLEAN]

Init ==
    /\ count = 0
    /\ con = [c \in Cons |->
                [status |-> "NOT_CONNECTED", command_status |-> "EOF",
                 server_errno |-> FALSE, last_callback |-> "NONE",
                 in_query |-> FALSE, pending |-> "NONE", command |-> "NONE",
                 prepared |-> FALSE, owed |-> 0, left |-> 0]]
    /\ app = [c \in Cons |->
                [waiting |-> "nothing", told |-> TRUE, asked |-> FALSE,
                 seen |-> {}, missed |-> {}, resent |-> FALSE]]
    /\ phase = "app"
    /\ turn = 0
    /\ stack = << >>
    /\ err = 0
    /\ commands = 0

Top == stack[Len(stack)]

(* The application's own code runs: outside the library, or in a callback.   *)
AppRuns == stack # << >> \/ phase = "app"

(* attachsql_pool_add_connection; also from a callback, while the pool is    *)
(* being run.                                                                *)
AddConnection ==
    /\ AppRuns
    /\ count < N
    /\ count' = count + 1
    /\ UNCHANGED <<con, app, phase, turn, stack, err, commands>>

-----------------------------------------------------------------------------
(* attachsql_send_callback                                                   *)

(* Mutant: a query that waits for the connection makes its event redundant.  *)
DuplicateIfPending(c, event) ==
    \/ event = con[c].last_callback
    \/ event = "CONNECTED" /\ con[c].pending # "NONE"

(* "We already sent this event"                                              *)
Duplicate(c, event) == event = con[c].last_callback

(* What the application concludes from an event.                             *)
Learn(k, event) ==
    [k EXCEPT !.told = TRUE,
              !.seen = @ \union {event},
              !.waiting = IF \/ event \in {"EOF", "ERROR"}
                             \/ event = "CONNECTED" /\ @ = "connection"
                            THEN "nothing" ELSE @]

Deliver(c, event, from, error) ==
    /\ ~Duplicate(c, event)
    /\ con' = [con EXCEPT ![c].last_callback = event]
    /\ app' = [app EXCEPT ![c] = Learn(@, event)]
    /\ stack' = Append(stack, [con |-> c, event |-> event, from |-> from,
                               error |-> error, handled |-> FALSE])

-----------------------------------------------------------------------------
(* Commands                                                                  *)

(* attachsql_command_send, accepted by uv_write.                             *)
Sent(r, kind) ==
    [r EXCEPT !.status = "BUSY", !.command_status = "SEND",
              !.server_errno = FALSE, !.command = kind, !.owed = @ + 1]

(* attachsql_command_send on a stream that has been closed.                  *)
SendFailed(r) == [r EXCEPT !.command_status = "SEND_FAILED",
                           !.server_errno = FALSE]

(* The application gives connection c a command only when it has learnt that *)
(* the connection is free.                                                   *)
Give(c) ==
    /\ AppRuns
    /\ c <= count
    /\ app[c].waiting = "nothing"
    /\ commands < MaxCommands
    /\ commands' = commands + 1

Awaits(k, what) == [k EXCEPT !.waiting = what, !.asked = FALSE]

(* The callback for the CONNECTED event of c has not returned.               *)
InConnected(c) ==
    \E i \in DOMAIN stack : stack[i].con = c /\ stack[i].event = "CONNECTED"

(* Command kind on a connection that is up, or was up until now.             *)
Command(c, kind, in_query, pending) ==
    /\ \/ /\ con[c].status = "IDLE"
          /\ con' = [con EXCEPT ![c] =
                        [Sent(@, kind) EXCEPT !.in_query = in_query,
                                              !.pending = pending]]
          /\ app' = [app EXCEPT ![c] =
                        [Awaits(@, "answer") EXCEPT
                           !.resent = \/ app[c].resent
                                      \/ InConnected(c) /\ pending = "QUERY"]]
       \/ /\ con[c].status = "NET_ERROR"
          /\ con' = [con EXCEPT ![c] =
                        [SendFailed(@) EXCEPT !.in_query = in_query,
                                              !.pending = pending]]
          /\ UNCHANGED app
    /\ UNCHANGED <<count, phase, turn, stack, err>>

(* attachsql_query; a query with parameters is built in query_buffer.        *)
Query(c) ==
    /\ Give(c)
    /\ ~con[c].in_query
    /\ \/ Command(c, "QUERY", TRUE, con[c].pending)
       \/ Command(c, "QUERY", TRUE, "QUERY")

(* attachsql_statement_prepare, attachsql_statement_execute                  *)
Statement(c) ==
    /\ Statements
    /\ Give(c)
    /\ \/ Command(c, "PREPARE", con[c].in_query, con[c].pending)
       \/ /\ con[c].prepared
          /\ Command(c, "EXECUTE", con[c].in_query, con[c].pending)

(* attachsql_connect, by itself or for the first query or statement.  A      *)
(* failure that shows at once is an ERROR event before the call returns.     *)
Connect(c) ==
    /\ Give(c)
    /\ con[c].status = "NOT_CONNECTED"
    /\ \E pending \in {"NONE", "QUERY"} \union
                      (IF Statements THEN {"PREPARE"} ELSE {}) :
         LET r == [con[c] EXCEPT !.pending = pending,
                                 !.in_query = @ \/ pending = "QUERY"]
             k == Awaits(app[c], IF pending = "NONE" THEN "connection"
                                                     ELSE "answer")
         IN  \/ /\ con' = [con EXCEPT ![c] = [r EXCEPT !.status = "CONNECTING"]]
                /\ app' = [app EXCEPT ![c] = k]
                /\ UNCHANGED stack
             \/ /\ con' = [con EXCEPT ![c] =
                             [r EXCEPT !.status = "CONNECT_FAILED",
                                       !.last_callback = "ERROR"]]
                /\ app' = [app EXCEPT ![c] = Learn(k, "ERROR")]
                /\ stack' = Append(stack,
                              [con |-> c, event |-> "ERROR", from |-> "connect",
                               error |-> c, handled |-> FALSE])
    /\ UNCHANGED <<count, phase, turn, err>>

QueryClose(c) ==
    /\ AppRuns
    /\ app[c].waiting = "nothing"
    /\ con[c].in_query
    /\ con' = [con EXCEPT ![c].in_query = FALSE, ![c].pending = "NONE"]
    /\ UNCHANGED <<count, app, phase, turn, stack, err, commands>>

-----------------------------------------------------------------------------
(* What the server sends                                                     *)

Ended(r) == [r EXCEPT !.status = "IDLE", !.command_status = "EOF",
                      !.owed = @ - 1,
                      !.prepared = @ \/ r.command = "PREPARE"]

Refused(r) == [r EXCEPT !.status = "IDLE", !.command_status = "EOF",
                        !.server_errno = TRUE, !.owed = @ - 1]

(* Mutant: the end of the rows is taken for a row.                           *)
NextRowAlways(r) ==
    [r EXCEPT !.status = "IDLE", !.command_status = "ROW_IN_BUFFER",
              !.left = @ - 1]

(* attachsql_packet_read_row: a row, or the end of the rows.                 *)
NextRow(r) ==
    IF r.left = 0 THEN Ended(r)
    ELSE [r EXCEPT !.status = "IDLE", !.command_status = "ROW_IN_BUFFER",
                   !.left = @ - 1]

(* The packets of an answer up to its first row or its end.                  *)
FirstOf(r) ==
    {Refused(r)} \union
    {NextRow([r EXCEPT !.left = n]) :
        n \in IF r.command = "PREPARE" THEN {0} ELSE 0..MaxRows}

(* Mutant: neither call forgets the event.                                   *)
ForgetNever(r) == r.last_callback

(* attachsql_query_row_next, or attachsql_statement_row_next, which leaves   *)
(* last_callback alone.  The next packet may be in the buffer already.       *)
Forget(r) == IF r.command = "QUERY" THEN "NONE" ELSE r.last_callback

RowNext ==
    /\ stack # << >>
    /\ Top.event = "ROW_READY"
    /\ ~Top.handled
    /\ LET c == Top.con
           r == [con[c] EXCEPT !.last_callback = Forget(con[c]),
                               !.command_status = "READ_ROW"]
       IN  /\ \E s \in {r, NextRow(r)} :
                con' = [con EXCEPT ![c] = s]
           /\ app' = [app EXCEPT ![c].told = FALSE,
                                 ![c].asked = con[c].command = "QUERY"]
    /\ stack' = [stack EXCEPT ![Len(stack)].handled = TRUE]
    /\ UNCHANGED <<count, phase, turn, err, commands>>

-----------------------------------------------------------------------------
(* attachsql_pool_run                                                        *)

(* Mutant: the error pointer outlives the call.                              *)
RunKeepingError ==
    /\ phase = "app"
    /\ stack = << >>
    /\ phase' = "loop"
    /\ UNCHANGED <<count, con, app, turn, stack, err, commands>>

Run ==
    /\ phase = "app"
    /\ stack = << >>
    /\ phase' = "loop"
    /\ err' = 0
    /\ UNCHANGED <<count, con, app, turn, stack, commands>>

(* Something arrives for connection c.                                       *)
Arrives(c, records) ==
    /\ phase = "loop"
    /\ \E r \in records : con' = [con EXCEPT ![c] = r]
    /\ app' = [app EXCEPT ![c].told = FALSE]
    /\ UNCHANGED <<count, phase, turn, stack, err, commands>>

LoopConnect(c) ==
    /\ con[c].status = "CONNECTING"
    /\ Arrives(c, {[con[c] EXCEPT !.status = "IDLE",
                                  !.command_status = "CONNECTED"],
                   [con[c] EXCEPT !.status = "CONNECT_FAILED"]})

LoopAnswer(c) ==
    /\ con[c].status = "BUSY"
    /\ Arrives(c, FirstOf(con[c]))

LoopRow(c) ==
    /\ con[c].status = "IDLE"
    /\ con[c].command_status = "READ_ROW"
    /\ Arrives(c, {NextRow(con[c])})

LoopNetError(c) ==
    /\ con[c].status \in {"CONNECTING", "BUSY", "IDLE"}
    /\ Arrives(c, {[con[c] EXCEPT !.status = "NET_ERROR",
                                  !.command_status = "READ_FAILED"]})

LoopEnd ==
    /\ phase = "loop"
    /\ phase' = "poll"
    /\ turn' = 1
    /\ UNCHANGED <<count, con, app, stack, err, commands>>

Polls(c) == phase = "poll" /\ stack = << >> /\ turn = c /\ c <= count

(* Mutant: the status poll looked at is stored again with command_status.    *)
AfterRestores(r, event) ==
    IF event = "EOF" THEN [r EXCEPT !.command_status = "EOF",
                                    !.status = "IDLE"]
    ELSE IF event = "CONNECTED" /\ r.pending # "NONE" THEN Sent(r, r.pending)
    ELSE r

(* Mutant: whatever query_buffer holds is sent after an EOF as well.         *)
AfterResends(r, event) ==
    IF event \in {"EOF", "CONNECTED"} /\ r.pending # "NONE"
      THEN Sent(r, r.pending) ELSE r

(* What attachsql_connect_poll does once the callback has returned: the      *)
(* assignment after an EOF, the pending query after CONNECTED.               *)
After(r, event) ==
    CASE event = "EOF" -> [r EXCEPT !.command_status = "EOF"]
      [] event = "CONNECTED" /\ r.pending # "NONE" -> Sent(r, r.pending)
      [] OTHER -> r

(* Poll tells the application of event, unless it is the same as the last.   *)
Announce(c, event, error) ==
    /\ \/ Deliver(c, event, "poll", error) /\ UNCHANGED turn
       \/ /\ Duplicate(c, event)
          /\ con' = [con EXCEPT ![c] = After(@, event)]
          /\ app' = [app EXCEPT ![c].missed = IF app[c].told THEN @
                                                ELSE @ \union {event}]
          /\ turn' = turn + 1
          /\ UNCHANGED stack
    /\ UNCHANGED <<count, phase, commands>>

PollQuiet(c) ==
    /\ Polls(c)
    /\ con[c].status \in {"NOT_CONNECTED", "CONNECTING", "BUSY"}
    /\ turn' = turn + 1
    /\ UNCHANGED <<count, con, app, phase, stack, err, commands>>

(* An error object is created whether or not the event is a duplicate.       *)
PollError(c) ==
    /\ Polls(c)
    /\ \/ con[c].status \in {"CONNECT_FAILED", "NET_ERROR"}
       \/ con[c].status = "IDLE" /\ con[c].server_errno
    /\ Announce(c, "ERROR", c)
    /\ err' = c

IdleWith(c, command_status) ==
    /\ Polls(c)
    /\ con[c].status = "IDLE"
    /\ ~con[c].server_errno
    /\ con[c].command_status = command_status

PollEof(c) == IdleWith(c, "EOF") /\ Announce(c, "EOF", err) /\ UNCHANGED err

PollRow(c) ==
    IdleWith(c, "ROW_IN_BUFFER") /\ Announce(c, "ROW_READY", err)
                                 /\ UNCHANGED err

PollConnected(c) ==
    IdleWith(c, "CONNECTED") /\ Announce(c, "CONNECTED", err) /\ UNCHANGED err

(* "If we hit here something went wrong": a build without assertions goes on *)
(* to the next connection.                                                   *)
PollLost(c) ==
    /\ Polls(c)
    /\ con[c].status = "IDLE"
    /\ ~con[c].server_errno
    /\ con[c].command_status \notin {"EOF", "ROW_IN_BUFFER", "CONNECTED"}
    /\ turn' = turn + 1
    /\ UNCHANGED <<count, con, app, phase, stack, err, commands>>

(* The callback returns; a row it was told of has been taken by then.        *)
CallbackReturn ==
    /\ stack # << >>
    /\ Top.event = "ROW_READY" => Top.handled
    /\ stack' = SubSeq(stack, 1, Len(stack) - 1)
    /\ \/ /\ Top.from = "poll"
          /\ con' = [con EXCEPT ![Top.con] = After(@, Top.event)]
          /\ turn' = turn + 1
       \/ /\ Top.from = "connect"
          /\ UNCHANGED <<con, turn>>
    /\ UNCHANGED <<count, app, phase, err, commands>>

RunEnd ==
    /\ phase = "poll"
    /\ stack = << >>
    /\ turn = count + 1
    /\ phase' = "app"
    /\ turn' = 0
    /\ UNCHANGED <<count, con, app, stack, err, commands>>

-----------------------------------------------------------------------------
Application ==
    \/ AddConnection \/ Run \/ RowNext \/ CallbackReturn
    \/ \E c \in Cons : Query(c) \/ Statement(c) \/ Connect(c) \/ QueryClose(c)

Loop == \E c \in Cons : \/ LoopConnect(c) \/ LoopAnswer(c) \/ LoopRow(c)
                        \/ LoopNetError(c)

Poll(c) == \/ PollQuiet(c) \/ PollError(c) \/ PollEof(c) \/ PollRow(c)
           \/ PollConnected(c) \/ PollLost(c)

Next == \/ Application \/ Loop \/ LoopEnd \/ RunEnd
        \/ \E c \in Cons : Poll(c)

Spec == Init /\ [][Next]_vars

(* The application keeps running the pool and handles its events, the        *)
(* library's code runs on, and the network and the server make progress      *)
(* whenever the loop looks.                                                  *)
Fairness ==
    /\ WF_vars(Run)
    /\ WF_vars(RowNext)
    /\ WF_vars(CallbackReturn)
    /\ WF_vars(LoopEnd)
    /\ WF_vars(RunEnd)
    /\ WF_vars(\E c \in Cons : Poll(c))
    /\ \A c \in Cons : SF_vars(LoopConnect(c)) /\ SF_vars(LoopAnswer(c))
                                               /\ SF_vars(LoopRow(c))

LiveSpec == Spec /\ Fairness

-----------------------------------------------------------------------------
(* Properties                                                                *)

(* Every field keeps its type (structs.h, attachsql_connect_t), the callback *)
(* stack holds well-formed frames and the pool polls its own connections.    *)
TypeOK ==
    /\ count \in 0..N
    /\ con \in [Cons -> Fields]
    /\ app \in [Cons -> Knowledge]
    /\ phase \in {"app", "loop", "poll"}
    /\ turn \in 0..(N + 1)
    /\ stack \in Seq(Frame)
    /\ err \in 0..N
    /\ commands \in 0..MaxCommands

(* A command is never lost: while the server owes an answer on a connection  *)
(* that has not failed, the connection is waiting for it or has a row of it. *)
(* attachsql_connect_poll assigns command_status after the callback in which *)
(* the application may have sent the command (connect.cc:285).               *)
CommandKept ==
    \A c \in Cons :
        (con[c].owed > 0 /\ con[c].status # "NET_ERROR" /\ ~app[c].resent)
            => \/ con[c].status = "BUSY"
               \/ /\ con[c].status = "IDLE"
                  /\ con[c].command_status \in {"ROW_IN_BUFFER", "READ_ROW"}

(* "Connection already used for query": a connection carries one command at  *)
(* a time, also when the pending query of attachsql_connect_query and calls  *)
(* made from callbacks meet.  The exception is a query with parameters sent  *)
(* from the CONNECTED event: it is built in query_buffer, which poll sends   *)
(* once more when the callback returns (query.cc:38, connect.cc:302).        *)
OneAtATime == \A c \in Cons : con[c].owed > 1 => app[c].resent

(* The application hears of a connection before it hears of its answers,     *)
(* also when a query was waiting for the connection (connect.cc:302).        *)
ConnectedFirst ==
    \A c \in Cons : app[c].seen \intersect {"EOF", "ROW_READY"} # {}
                        => "CONNECTED" \in app[c].seen

(* An event is passed over as a duplicate only for an answer of which the    *)
(* application took no row with attachsql_query_row_next, which makes the    *)
(* next event new; so no row of a query is passed over, while the second of  *)
(* two answers without rows, and every row of a statement but the first, may *)
(* be (query.cc:409, connect.cc:199).                                        *)
EndAfterRowsAnnounced ==
    [][\A c \in Cons : app[c].missed' # app[c].missed => ~app[c].asked]_vars

(* The error object that comes with an event is one of the same run of the   *)
(* pool: the event's own, or, since attachsql_pool_run has one error pointer *)
(* for all its connections, that of a connection polled before (pool.cc:101).*)
ErrorOfThisRun ==
    \A i \in DOMAIN stack :
        stack[i].error = stack[i].con \/
            (stack[i].event # "ERROR" /\ stack[i].error < stack[i].con)

(* Under fair scheduling an answer is read to its end, row by row through    *)
(* the events, or the connection fails; unless a row of a statement was      *)
(* passed over, which nobody will ask for, or a query was sent twice.        *)
AnswerRead ==
    \A c \in Cons :
        con[c].owed > 0 ~>
            \/ con[c].owed = 0 \/ con[c].status = "NET_ERROR" \/ app[c].resent
            \/ con[c].command = "EXECUTE" /\ "ROW_READY" \in app[c].missed

(* A command given anywhere, also from inside a callback, is kept until it   *)
(* is answered and is alone on its connection (connect.cc:285,               *)
(* connect.cc:302).                                                          *)
CommandsKept == TypeOK /\ CommandKept /\ OneAtATime

(* Events come in an order and with an error object that make sense: the     *)
(* connection before its answers, errors of this run only (connect.cc:302,   *)
(* pool.cc:101).                                                             *)
EventsInPlace == ConnectedFirst /\ ErrorOfThisRun
=============================================================================

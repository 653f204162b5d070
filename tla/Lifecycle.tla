----------------------------- MODULE Lifecycle -----------------------------
(***************************************************************************)
(* What connections leave in libuv's loop, and how the loop is taken down: *)
(* attachsql_do_connect, the callbacks of connecting, and                  *)
(* attachsql_connect_destroy (connect.cc); attachsql_pool_destroy          *)
(* (pool.cc).                                                              *)
(*                                                                         *)
(* A connection has two handles, its socket and the check handle, and up   *)
(* to three kinds of request in the loop.  Packets are left out: a         *)
(* connection that is connected logs in, sends commands and loses its      *)
(* server.  libuv is external: a loop can be closed when no handle and no  *)
(* request is left in it, and a handle may be closed once: an assertion of *)
(* uv_close stops the process that closes it again.                        *)
(***************************************************************************)
EXTENDS Naturals, FiniteSets

CONSTANTS
    Cons,        \* the connections of a pool
    Pooling,     \* whether there is a pool, or one connection of its own
    Protocols,   \* subset of {"TCP", "UDS"}
    MaxWrites    \* bound: outstanding write requests

ASSUME LifecycleAssumption ==
    /\ IsFiniteSet(Cons) /\ Cons # {}
    /\ Pooling \subseteq BOOLEAN /\ Pooling # {}
    /\ Protocols \subseteq {"TCP", "UDS"} /\ Protocols # {}
    /\ MaxWrites \in Nat

VARIABLES
    pooled,    \* the connections are in a pool
    con,       \* for each connection its fields and what it has in the loop
    loop,      \* "none", "open", or "broken": uv_loop_init failed
    phase,     \* "running", "draining" inside attachsql_pool_destroy, "done",
               \* "aborted" by libuv
    outcome,   \* how the loop was closed; only "closed" is not the end of the
               \* process
    lookups,   \* history: the connections whose host was being looked up when
               \* attachsql_pool_destroy began
    unsent     \* history: the connections whose socket was closed while a
               \* write was outstanding

vars == <<pooled, con, loop, phase, outcome, lookups, unsent>>

Handles == {"none", "open", "closing", "closed"}

(* resolving, connecting and writes are requests, stream says that           *)
(* uv_objects.stream is set, checking that the check handle is started.      *)
Connections ==
    [status : {"NOT_CONNECTED", "CONNECTING", "CONNECT_FAILED", "IDLE",
               "BUSY", "NET_ERROR"},
     resolving : BOOLEAN, connecting : BOOLEAN, writes : 0..MaxWrites,
     stream : BOOLEAN, socket : Handles, check : Handles, checking : BOOLEAN]

(* attachsql_connect_create, attachsql_pool_create                           *)
Init ==
    /\ pooled \in Pooling
    /\ con = [c \in IF pooled THEN Cons ELSE {CHOOSE c \in Cons : TRUE} |->
                [status |-> "NOT_CONNECTED", resolving |-> FALSE,
                 connecting |-> FALSE, writes |-> 0, stream |-> FALSE,
                 socket |-> "none", check |-> "none", checking |-> FALSE]]
    /\ loop = IF pooled THEN "open" ELSE "none"
    /\ phase = "running"
    /\ outcome = "none"
    /\ lookups = {}
    /\ unsent = {}

-----------------------------------------------------------------------------
(* Connecting                                                                *)

(* attachsql_do_connect fails: no loop, or no lookup.                        *)
ConnectFails(c) ==
    /\ phase = "running" /\ con[c].status = "NOT_CONNECTED"
    /\ con' = [con EXCEPT ![c].status = "CONNECT_FAILED"]
    /\ \/ ~pooled /\ loop' = "broken"
       \/ "TCP" \in Protocols /\ loop' = "open"
    /\ UNCHANGED <<pooled, phase, outcome, lookups, unsent>>

(* attachsql_do_connect looks the host up, or connects to the socket.        *)
Connect(c) ==
    /\ phase = "running" /\ con[c].status = "NOT_CONNECTED"
    /\ \/ /\ "TCP" \in Protocols
          /\ con' = [con EXCEPT ![c].status = "CONNECTING",
                                ![c].resolving = TRUE]
       \/ /\ "UDS" \in Protocols
          /\ con' = [con EXCEPT ![c].status = "CONNECTING",
                                ![c].socket = "open", ![c].connecting = TRUE]
    /\ loop' = "open"
    /\ UNCHANGED <<pooled, phase, outcome, lookups, unsent>>

-----------------------------------------------------------------------------
(* Callbacks                                                                 *)

(* The loop runs: in attachsql_pool_run, in attachsql_pool_destroy, or in    *)
(* attachsql_do_poll, which leaves an idle connection alone.                 *)
Running(c) ==
    \/ phase = "draining"
    \/ /\ phase = "running"
       /\ pooled \/ con[c].status \in {"CONNECTING", "BUSY", "NET_ERROR"}

OnResolved(c, ok) ==
    /\ Running(c) /\ con[c].resolving
    /\ con' = [con EXCEPT ![c] =
                 IF ok THEN [@ EXCEPT !.resolving = FALSE, !.socket = "open",
                                      !.connecting = TRUE]
                 ELSE [@ EXCEPT !.resolving = FALSE,
                                !.status = "CONNECT_FAILED"]]
    /\ UNCHANGED <<pooled, loop, phase, outcome, lookups, unsent>>

(* Mutant: uv_objects.stream is not set.                                     *)
OnConnectUnset(c, ok) ==
    /\ Running(c) /\ con[c].connecting
    /\ ok => con[c].socket = "open"
    /\ con' = [con EXCEPT ![c] =
                 IF ok THEN [@ EXCEPT !.connecting = FALSE,
                                      !.check = "open", !.checking = TRUE]
                 ELSE [@ EXCEPT !.connecting = FALSE,
                                !.status = "CONNECT_FAILED"]]
    /\ UNCHANGED <<pooled, loop, phase, outcome, lookups, unsent>>

(* on_connect; it fails at the latest when the socket is being closed.       *)
OnConnect(c, ok) ==
    /\ Running(c) /\ con[c].connecting
    /\ ok => con[c].socket = "open"
    /\ con' = [con EXCEPT ![c] =
                 IF ok THEN [@ EXCEPT !.connecting = FALSE, !.stream = TRUE,
                                      !.check = "open", !.checking = TRUE]
                 ELSE [@ EXCEPT !.connecting = FALSE,
                                !.status = "CONNECT_FAILED"]]
    /\ UNCHANGED <<pooled, loop, phase, outcome, lookups, unsent>>

(* uv_close, of a handle that is not closed already.                         *)
UvClose(handle) == IF handle = "open" THEN "closing" ELSE handle

(* The server has ended the connection, or it has failed: what on_write and  *)
(* the read callback do then.                                                *)
NetError(r) ==
    [r EXCEPT !.status = "NET_ERROR", !.checking = FALSE,
              !.socket = UvClose(@)]

(* c, whose record is r by now, is lost.                                     *)
Lose(c, r) ==
    /\ con' = [con EXCEPT ![c] = NetError(r)]
    /\ unsent' = IF r.writes > 0 THEN unsent \union {c} ELSE unsent
    /\ UNCHANGED <<pooled, loop, phase, outcome, lookups>>

Abort ==
    /\ phase' = "aborted"
    /\ UNCHANGED <<pooled, con, loop, outcome, lookups>>

Connected(c) == con[c].stream /\ con[c].socket = "open"

ReadFails(c) ==
    /\ Running(c) /\ Connected(c)
    /\ Lose(c, con[c])

(* The login and its reply, or a command and its answer (attachsql_command_  *)
(* send, attachsql_packet_read_response).                                    *)
Write(c) ==
    /\ phase = "running" /\ Connected(c)
    /\ con[c].status \in {"CONNECTING", "IDLE"} /\ con[c].writes < MaxWrites
    /\ con' = [con EXCEPT ![c].writes = @ + 1,
                 ![c].status = IF @ = "IDLE" THEN "BUSY" ELSE @]
    /\ UNCHANGED <<pooled, loop, phase, outcome, lookups, unsent>>

Answered(c) ==
    /\ Running(c) /\ Connected(c) /\ con[c].writes = 0
    /\ con[c].status \in {"CONNECTING", "BUSY"}
    /\ \E status \in {"IDLE", "CONNECT_FAILED"} :
         /\ status = "CONNECT_FAILED" => con[c].status = "CONNECTING"
         /\ con' = [con EXCEPT ![c].status = status]
    /\ UNCHANGED <<pooled, loop, phase, outcome, lookups, unsent>>

(* on_write; libuv gives up the requests of a socket that is closed, and     *)
(* on_write closes it again.                                                 *)
OnWrite(c, ok) ==
    /\ Running(c) /\ con[c].writes > 0
    /\ LET r == [con[c] EXCEPT !.writes = @ - 1]
       IN  \/ /\ ok /\ con[c].socket = "open"
              /\ con' = [con EXCEPT ![c] = r]
              /\ UNCHANGED <<pooled, loop, phase, outcome, lookups, unsent>>
           \/ ~ok /\ con[c].socket = "open" /\ Lose(c, r)
           \/ ~ok /\ con[c].socket # "open" /\ Abort /\ UNCHANGED unsent

(* At the end of a turn of the loop handles that are closing are closed.     *)
LoopTurn(c) ==
    /\ Running(c)
    /\ "closing" \in {con[c].socket, con[c].check}
    /\ ~con[c].connecting /\ con[c].writes = 0
    /\ con' = [con EXCEPT
                 ![c].socket = IF @ = "closing" THEN "closed" ELSE @,
                 ![c].check = IF @ = "closing" THEN "closed" ELSE @]
    /\ UNCHANGED <<pooled, loop, phase, outcome, lookups, unsent>>

-----------------------------------------------------------------------------
(* Destroying                                                                *)

(* Mutant: the check handle is only stopped.                                 *)
WalkSockets(r) == [r EXCEPT !.socket = UvClose(@), !.checking = FALSE]

(* uv_walk with loop_walk_cb, which closes what it is shown.                 *)
Walk(r) ==
    [r EXCEPT !.socket = UvClose(@), !.check = UvClose(@),
              !.checking = FALSE]

(* uv_run to its end, for handles that are closing and have no writes:       *)
(* on_connect is told.                                                       *)
Drained(r) ==
    [r EXCEPT !.connecting = FALSE,
              !.socket = IF @ = "closing" THEN "closed" ELSE @,
              !.check = IF @ = "closing" THEN "closed" ELSE @]

(* uv_loop_close                                                             *)
Empty(r) ==
    /\ ~r.resolving /\ ~r.connecting /\ r.writes = 0
    /\ r.socket \in {"none", "closed"} /\ r.check \in {"none", "closed"}

(* Nothing checks that there is a loop: uv_loop_close reads through a null   *)
(* pointer, or finds what uv_loop_init has left when it failed.  "busy" is   *)
(* what the assertion behind it does not accept.                             *)
Closes(cons) ==
    CASE loop = "none" -> "no loop"
      [] loop = "broken" -> "broken loop"
      [] loop = "open" -> IF \A c \in DOMAIN cons : Empty(cons[c])
                          THEN "closed" ELSE "busy"

Undone == {c \in DOMAIN con : con[c].socket = "open" /\ con[c].writes > 0}

(* Mutant: also after a net error.                                           *)
DestroyEvenLost(c) ==
    /\ phase = "running" /\ ~pooled
    /\ LET r == con[c]
       IN  \/ /\ ~r.stream
              /\ outcome' = Closes(con) /\ phase' = "done"
              /\ UNCHANGED <<pooled, con, loop, lookups, unsent>>
           \/ /\ r.stream /\ r.writes = 0 /\ r.socket # "closing"
              /\ con' = [con EXCEPT ![c] = Drained(Walk(@))]
              /\ outcome' = Closes(con') /\ phase' = "done"
              /\ UNCHANGED <<pooled, loop, lookups, unsent>>
           \/ /\ r.stream /\ (r.writes > 0 \/ r.socket = "closing")
              /\ Abort /\ unsent' = unsent \union Undone

(* attachsql_connect_destroy on a connection of its own; also what           *)
(* attachsql_connect_create does about a parameter it refuses.  Writes that  *)
(* are given up in uv_run close the socket again.                            *)
Destroy(c) ==
    /\ phase = "running" /\ ~pooled
    /\ LET walks == con[c].stream /\ con[c].status # "NET_ERROR"
       IN  \/ /\ ~walks
              /\ outcome' = Closes(con) /\ phase' = "done"
              /\ UNCHANGED <<pooled, con, loop, lookups, unsent>>
           \/ /\ walks /\ con[c].writes = 0
              /\ con' = [con EXCEPT ![c] = Drained(Walk(@))]
              /\ outcome' = Closes(con') /\ phase' = "done"
              /\ UNCHANGED <<pooled, loop, lookups, unsent>>
           \/ /\ walks /\ con[c].writes > 0
              /\ Abort /\ unsent' = unsent \union Undone

(* Mutant: the handles are not walked.                                       *)
PoolDestroyUnwalked ==
    /\ phase = "running" /\ pooled
    /\ phase' = "draining"
    /\ lookups' = {c \in DOMAIN con : con[c].resolving}
    /\ UNCHANGED <<pooled, con, loop, outcome, unsent>>

(* Mutant: a socket that is connected is left to the server.                 *)
PoolDestroyButStreams ==
    /\ phase = "running" /\ pooled
    /\ con' = [c \in DOMAIN con |->
                 IF Connected(c) THEN con[c] ELSE Walk(con[c])]
    /\ phase' = "draining"
    /\ lookups' = {c \in DOMAIN con : con[c].resolving}
    /\ UNCHANGED <<pooled, loop, outcome, unsent>>

(* attachsql_pool_destroy up to uv_run.  uv_walk also shows it the sockets   *)
(* that are still closing.                                                   *)
PoolDestroy ==
    /\ phase = "running" /\ pooled
    /\ \/ /\ \A c \in DOMAIN con : con[c].socket # "closing"
          /\ con' = [c \in DOMAIN con |-> Walk(con[c])]
          /\ phase' = "draining"
          /\ lookups' = {c \in DOMAIN con : con[c].resolving}
          /\ unsent' = unsent \union Undone
          /\ UNCHANGED <<pooled, loop, outcome>>
       \/ /\ \E c \in DOMAIN con : con[c].socket = "closing"
          /\ Abort /\ UNCHANGED unsent

(* A loop has something to wait for.                                         *)
Alive(r) ==
    \/ r.resolving \/ r.connecting \/ r.writes > 0 \/ r.checking
    \/ r.stream /\ r.socket = "open"
    \/ "closing" \in {r.socket, r.check}

(* uv_run has returned: the rest of attachsql_pool_destroy.                  *)
PoolDestroyed ==
    /\ phase = "draining"
    /\ \A c \in DOMAIN con : ~Alive(con[c])
    /\ outcome' = Closes(con)
    /\ phase' = "done"
    /\ UNCHANGED <<pooled, con, loop, lookups, unsent>>

(* uv_run waits.                                                             *)
PoolWaits ==
    /\ phase = "draining"
    /\ \E c \in DOMAIN con : Alive(con[c])
    /\ UNCHANGED vars

Done == phase \in {"done", "aborted"} /\ UNCHANGED vars

Callback(c) ==
    \/ \E ok \in BOOLEAN :
         OnResolved(c, ok) \/ OnConnect(c, ok) \/ OnWrite(c, ok)
    \/ Answered(c) \/ LoopTurn(c)

Next ==
    \/ \E c \in DOMAIN con : \/ ConnectFails(c) \/ Connect(c) \/ Write(c)
                       \/ Callback(c) \/ ReadFails(c) \/ Destroy(c)
    \/ PoolDestroy \/ PoolWaits \/ PoolDestroyed \/ Done

Spec == Init /\ [][Next]_vars

(* Inside attachsql_pool_destroy libuv runs the callbacks that are due and   *)
(* returns when it has nothing to wait for.  No server hangs up because the  *)
(* client would like it to.                                                  *)
LiveSpec ==
    /\ Spec
    /\ \A c \in Cons :
         WF_vars(phase = "draining" /\ c \in DOMAIN con /\ Callback(c))
    /\ WF_vars(PoolDestroyed)

-----------------------------------------------------------------------------
(* Properties                                                                *)

(* The fields have their types, and only a connection that has its stream    *)
(* has a check handle.                                                       *)
TypeOK ==
    /\ \A c \in DOMAIN con : con[c] \in Connections
    /\ loop \in {"none", "open", "broken"}
    /\ phase \in {"running", "draining", "done", "aborted"}
    /\ outcome \in {"none", "closed", "busy", "no loop", "broken loop"}
    /\ \A c \in DOMAIN con : con[c].check # "none" => con[c].stream

(* A connection of its own that has reached its server and not lost it is    *)
(* destroyed with nothing left in the loop, whatever it was doing; so is one *)
(* whose host was not found.  Where that fails it is named: a connection     *)
(* that was never made has no loop, or a broken one, and one that was lost   *)
(* or never got its stream leaves handles in it (connect.cc:124,             *)
(* connect.cc:136).                                                          *)
ConnectedCloses ==
    phase = "done" /\ ~pooled =>
        \A c \in DOMAIN con :
            \/ outcome = "closed"
            \/ outcome = "no loop" /\ con[c].status = "NOT_CONNECTED"
            \/ /\ outcome = "broken loop" /\ con[c].status = "CONNECT_FAILED"
               /\ ~con[c].stream
            \/ outcome = "busy" /\ con[c].status = "NET_ERROR"
            \/ /\ outcome = "busy" /\ ~con[c].stream
               /\ con[c].status \in {"CONNECTING", "CONNECT_FAILED"}

(* A pool is taken down without a rest, in whatever state its connections    *)
(* are, unless a host was being looked up: its callback opens a socket that  *)
(* nobody closes (pool.cc:56, connect.cc:149).                               *)
PoolCloses == pooled /\ phase = "done" /\ lookups = {} => outcome = "closed"

(* Nothing is closed twice, so that libuv stops the process, unless a socket *)
(* was closed with a write outstanding, by destroying or by a net error, or  *)
(* a pool is destroyed before the loop has turned after a net error          *)
(* (net.cc:369, net.cc:389, connect.cc:130, pool.cc:56).                     *)
ClosedOnce ==
    phase = "aborted" =>
        \/ \E c \in unsent : con[c].writes > 0
        \/ pooled /\ \E c \in DOMAIN con : con[c].status = "NET_ERROR"
                                          /\ con[c].socket = "closing"

(* attachsql_pool_destroy returns, "This will cleanup all underlying         *)
(* connections", unless a host was being looked up: the connection is then   *)
(* made, and uv_run waits for its server; or a write was outstanding, which  *)
(* closes its socket again (pool.cc:57).                                     *)
DestroyReturns ==
    phase = "draining" /\ lookups = {} /\ unsent = {} ~> phase = "done"

(* Destroying a connection or a pool leaves a loop that can be closed, and   *)
(* closes nothing twice, but for the cases named above (connect.cc:124,      *)
(* pool.cc:56).                                                              *)
LoopCloses == TypeOK /\ ConnectedCloses /\ PoolCloses /\ ClosedOnce
=============================================================================

-------------------------- MODULE LifecycleProofs --------------------------
(***************************************************************************)
(* Destroying a connection or a pool leaves a loop that can be closed and  *)
(* closes nothing twice, but for the cases that are named, for any number  *)
(* of connections and of outstanding writes.                               *)
(***************************************************************************)
EXTENDS Lifecycle, TLAPS

(* How the handles and requests of one connection go together: the check     *)
(* handle comes with the stream, requests need their socket, and a           *)
(* connection that was never made has nothing in the loop.                   *)
Shape(r) ==
    /\ r \in Connections
    /\ r.stream <=> r.check # "none"
    /\ r.socket = "none" => ~r.connecting /\ ~r.stream
    /\ r.resolving => r.status = "CONNECTING" /\ r.socket = "none"
    /\ r.connecting => ~r.stream
    /\ r.writes > 0 => r.stream
    /\ r.checking => r.stream
    /\ ~r.stream => r.status \in {"NOT_CONNECTED", "CONNECTING",
                                  "CONNECT_FAILED"}
    /\ r.status = "NOT_CONNECTED" => r.socket = "none" /\ ~r.resolving

(* Nothing of the connection has to be closed any more.                      *)
Quiet(r) == ~r.resolving /\ r.socket # "open" /\ r.check # "open"

(* A connection that was never made has no loop of its own, and one whose    *)
(* loop could not be initialised got no further.                             *)
Looped(l, r) ==
    /\ l = "none" => r.status = "NOT_CONNECTED"
    /\ l = "broken" => /\ r.status = "CONNECT_FAILED" /\ ~r.stream
                       /\ r.socket = "none" /\ ~r.resolving

(* Writes that are outstanding on a socket that is closed are remembered.    *)
Kept(c, r, u) == r.writes > 0 /\ r.socket # "open" => c \in u

(* While the loop runs only a net error closes a socket.                     *)
Lost(r) == r.socket = "closing" => r.status = "NET_ERROR"

(* Every connection has its type and goes together.                          *)
Filled ==
    /\ con \in [DOMAIN con -> Connections]
    /\ \A c \in DOMAIN con : /\ Shape(con[c]) /\ Looped(loop, con[c])
                             /\ Kept(c, con[c], unsent)
                             /\ phase = "running" => Lost(con[c])

Alone == ~pooled => \A c, d \in DOMAIN con : c = d

(* What a pool's uv_run is left with after loop_walk_cb.                     *)
Walked == phase = "draining" /\ lookups = {} =>
            \A c \in DOMAIN con : Quiet(con[c])

(* The inductive invariant.  LoopCloses is not inductive: it says nothing of *)
(* the handles before the end.                                               *)
LifecycleInv ==
    /\ Filled
    /\ Alone
    /\ Walked
    /\ pooled \in BOOLEAN
    /\ loop \in {"none", "open", "broken"}
    /\ phase \in {"running", "draining", "done", "aborted"}
    /\ outcome \in {"none", "closed", "busy", "no loop", "broken loop"}
    /\ pooled => loop = "open"
    /\ phase = "draining" => pooled
    /\ phase # "done" => outcome = "none"
    /\ ConnectedCloses
    /\ PoolCloses
    /\ ClosedOnce

LEMMA LifecycleInit == Init => LifecycleInv
<1> SUFFICES ASSUME Init PROVE LifecycleInv
  OBVIOUS
<1> DEFINE fresh == [status |-> "NOT_CONNECTED", resolving |-> FALSE,
                     connecting |-> FALSE, writes |-> 0, stream |-> FALSE,
                     socket |-> "none", check |-> "none", checking |-> FALSE]
<1>1. pooled \in BOOLEAN
  BY LifecycleAssumption DEF Init
<1>2. \A c \in DOMAIN con : con[c] = fresh
  BY DEF Init
<1>3. \A c \in DOMAIN con : Shape(con[c])
  <2>1. 0 \in 0..MaxWrites
    BY LifecycleAssumption
  <2>2. fresh \in Connections
    BY <2>1 DEF Connections, Handles
  <2>3. Shape(fresh)
    BY <2>2 DEF Shape
  <2> QED BY <1>2, <2>3
<1>4. con \in [DOMAIN con -> Connections]
  <2>1. con = [c \in DOMAIN con |-> con[c]]
    BY DEF Init
  <2> QED BY <1>3, <2>1 DEF Shape
<1>5. ~pooled => \A c, d \in DOMAIN con : c = d
  BY DEF Init
<1>6. \A c \in DOMAIN con : /\ Looped(loop, con[c]) /\ Kept(c, con[c], unsent)
                            /\ Lost(con[c])
  BY <1>2 DEF Init, Looped, Kept, Lost
<1> QED BY <1>1, <1>3, <1>4, <1>5, <1>6
        DEF Init, LifecycleInv, Filled, Alone, Walked, ConnectedCloses,
            PoolCloses, ClosedOnce

-----------------------------------------------------------------------------
(* Steps of one connection                                                   *)

LEMMA OneConnection ==
    ASSUME LifecycleInv, phase \in {"running", "draining"},
           NEW c \in DOMAIN con, NEW r, con' = [con EXCEPT ![c] = r],
           Shape(r), Quiet(con[c]) /\ phase = "draining" => Quiet(r),
           loop' \in {"open", "broken", loop}, pooled => loop' = "open",
           Looped(loop', r), Kept(c, r, unsent'), unsent \subseteq unsent',
           phase = "running" => Lost(r),
           UNCHANGED <<pooled, phase, outcome, lookups>>
    PROVE  LifecycleInv'
<1>1. /\ DOMAIN con' = DOMAIN con
      /\ \A d \in DOMAIN con : con'[d] = IF d = c THEN r ELSE con[d]
      /\ con' = [d \in DOMAIN con |-> con'[d]]
  BY DEF LifecycleInv, Filled, Alone, Walked
<1>2. \A d \in DOMAIN con : Shape(con'[d])
  BY <1>1 DEF LifecycleInv, Filled, Alone, Walked
<1>3. con' \in [DOMAIN con' -> Connections]
  BY <1>1, <1>2 DEF Shape
<1>4. phase = "draining" /\ lookups = {} =>
        \A d \in DOMAIN con : Quiet(con'[d])
  BY <1>1 DEF LifecycleInv, Filled, Alone, Walked
<1>5. ConnectedCloses' /\ PoolCloses' /\ ClosedOnce'
  BY DEF ConnectedCloses, PoolCloses, ClosedOnce
<1>6. loop' \in {"none", "open", "broken"}
  BY DEF LifecycleInv, Filled, Alone, Walked
<1>7. \A d \in DOMAIN con : Looped(loop', con'[d])
  <2>1. CASE pooled
    BY <2>1, <1>1 DEF Looped
  <2>2. CASE ~pooled
    BY <2>2, <1>1 DEF LifecycleInv, Filled, Alone, Walked
  <2> QED BY <2>1, <2>2
<1>8. \A d \in DOMAIN con :
        /\ Kept(d, con'[d], unsent')
        /\ phase = "running" => Lost(con'[d])
  BY <1>1 DEF LifecycleInv, Filled, Alone, Walked, Kept
<1>9. \A d \in DOMAIN con' :
        /\ Shape(con'[d]) /\ Looped(loop', con'[d])
        /\ Kept(d, con'[d], unsent')
        /\ phase' = "running" => Lost(con'[d])
  BY <1>1, <1>2, <1>7, <1>8
<1>10. ~pooled' => \A d, e \in DOMAIN con' : d = e
  BY <1>1 DEF LifecycleInv, Filled, Alone, Walked
<1>11. phase' = "draining" /\ lookups' = {} =>
         \A d \in DOMAIN con' : Quiet(con'[d])
  BY <1>1, <1>4
<1>12. /\ pooled' \in BOOLEAN
       /\ phase' \in {"running", "draining", "done", "aborted"}
       /\ outcome' \in {"none", "closed", "busy", "no loop", "broken loop"}
       /\ pooled' => loop' = "open"
       /\ phase' = "draining" => pooled'
       /\ phase' # "done" => outcome' = "none"
  BY DEF LifecycleInv, Filled, Alone, Walked
<1>13. Filled'
  BY <1>3, <1>9 DEF Filled
<1>14. Alone' /\ Walked'
  BY <1>10, <1>11 DEF Alone, Walked
<1> QED BY <1>5, <1>6, <1>12, <1>13, <1>14 DEF LifecycleInv

(* What Shape says of the connection that moves.                             *)
LEMMA OneShape ==
    ASSUME LifecycleInv, NEW c \in DOMAIN con
    PROVE  /\ Shape(con[c]) /\ con[c] \in Connections
           /\ con = [d \in DOMAIN con |-> con[d]]
           /\ Running(c) => phase \in {"running", "draining"}
           /\ Kept(c, con[c], unsent) /\ (phase = "running" => Lost(con[c]))
           /\ con[c].resolving \/ con[c].connecting \/ con[c].stream
              \/ con[c].socket # "none" => loop = "open"
<1>1. con[c].resolving \/ con[c].connecting \/ con[c].stream
      \/ con[c].socket # "none" => loop = "open"
  BY DEF LifecycleInv, Filled, Alone, Walked, Looped, Shape
<1> QED BY <1>1 DEF LifecycleInv, Filled, Alone, Walked, Running, Shape

LEMMA ConnectStep ==
    ASSUME LifecycleInv, NEW c \in DOMAIN con, ConnectFails(c) \/ Connect(c)
    PROVE  LifecycleInv'
<1> DEFINE failed == [con[c] EXCEPT !.status = "CONNECT_FAILED"]
           looked == [con[c] EXCEPT !.status = "CONNECTING",
                                    !.resolving = TRUE]
           opened == [con[c] EXCEPT !.status = "CONNECTING",
                                    !.socket = "open", !.connecting = TRUE]
<1>1. /\ phase = "running" /\ con[c].status = "NOT_CONNECTED"
      /\ UNCHANGED <<pooled, phase, outcome, lookups, unsent>>
      /\ loop' \in {"open", "broken", loop} /\ (pooled => loop' = "open")
  BY DEF ConnectFails, Connect
<1>2. \/ con' = [con EXCEPT ![c] = failed]
      \/ con' = [con EXCEPT ![c] = looked]
      \/ con' = [con EXCEPT ![c] = opened]
  BY OneShape DEF ConnectFails, Connect
<1>3. Shape(failed) /\ Shape(looked) /\ Shape(opened)
  BY <1>1, OneShape DEF Shape, Connections, Handles
<1>4. Kept(c, failed, unsent) /\ Kept(c, looked, unsent) /\ Kept(c, opened, unsent)
  BY <1>1, OneShape DEF Shape, Connections, Kept
<1>11. Lost(failed) /\ Lost(looked) /\ Lost(opened)
  BY <1>1, OneShape DEF Shape, Connections, Lost
<1>5. Looped(loop', failed)
  BY <1>1, OneShape DEF Looped, Shape, Connections, ConnectFails, Connect
<1>6. con' # [con EXCEPT ![c] = failed] => loop' = "open"
  BY DEF ConnectFails, Connect
<1> HIDE DEF failed, looked, opened
<1>7. \A r : loop' = "open" => Looped(loop', r)
  BY DEF Looped
<1>8. CASE con' = [con EXCEPT ![c] = failed]
  BY <1>1, <1>3, <1>4, <1>5, <1>8, <1>11, OneConnection
<1>9. CASE con' = [con EXCEPT ![c] = looked] /\ loop' = "open"
  BY <1>1, <1>3, <1>4, <1>7, <1>9, <1>11, OneConnection
<1>10. CASE con' = [con EXCEPT ![c] = opened] /\ loop' = "open"
  BY <1>1, <1>3, <1>4, <1>7, <1>10, <1>11, OneConnection
<1> QED BY <1>2, <1>6, <1>8, <1>9, <1>10

LEMMA OnResolvedStep ==
    ASSUME LifecycleInv, NEW c \in DOMAIN con, NEW ok \in BOOLEAN,
           OnResolved(c, ok)
    PROVE  LifecycleInv'
<1> DEFINE r == IF ok THEN [con[c] EXCEPT !.resolving = FALSE,
                                          !.socket = "open",
                                          !.connecting = TRUE]
                ELSE [con[c] EXCEPT !.resolving = FALSE,
                                    !.status = "CONNECT_FAILED"]
<1>1. /\ con[c].resolving /\ con' = [con EXCEPT ![c] = r]
      /\ phase \in {"running", "draining"}
      /\ UNCHANGED <<pooled, loop, phase, outcome, lookups, unsent>>
  BY OneShape DEF OnResolved
<1>2. Shape(r)
  BY <1>1, OneShape DEF Shape, Connections, Handles
<1>3. ~Quiet(con[c])
  BY <1>1 DEF Quiet
<1>4. Looped(loop', r)
  BY <1>1, OneShape DEF Looped
<1>5. Kept(c, r, unsent') /\ (phase = "running" => Lost(r))
  BY <1>1, OneShape DEF Kept, Lost, Connections, Shape
<1> HIDE DEF r
<1> QED BY <1>1, <1>2, <1>3, <1>4, <1>5, OneConnection
      DEF LifecycleInv, Filled, Alone, Walked

LEMMA OnConnectStep ==
    ASSUME LifecycleInv, NEW c \in DOMAIN con, NEW ok \in BOOLEAN,
           OnConnect(c, ok)
    PROVE  LifecycleInv'
<1> DEFINE r == IF ok THEN [con[c] EXCEPT !.connecting = FALSE,
                                          !.stream = TRUE,
                                          !.check = "open", !.checking = TRUE]
                ELSE [con[c] EXCEPT !.connecting = FALSE,
                                    !.status = "CONNECT_FAILED"]
<1>1. /\ con[c].connecting /\ con' = [con EXCEPT ![c] = r]
      /\ ok => con[c].socket = "open"
      /\ phase \in {"running", "draining"}
      /\ UNCHANGED <<pooled, loop, phase, outcome, lookups, unsent>>
  BY OneShape DEF OnConnect
<1>2. Shape(r)
  BY <1>1, OneShape DEF Shape, Connections, Handles
<1>3. Quiet(con[c]) => Quiet(r)
  BY <1>1, OneShape DEF Quiet, Connections
<1>4. Looped(loop', r)
  BY <1>1, OneShape DEF Looped
<1>5. Kept(c, r, unsent') /\ (phase = "running" => Lost(r))
  BY <1>1, OneShape DEF Kept, Lost, Connections, Shape
<1> HIDE DEF r
<1> QED BY <1>1, <1>2, <1>3, <1>4, <1>5, OneConnection
      DEF LifecycleInv, Filled, Alone, Walked

LEMMA NetErrorShape ==
    ASSUME NEW r, Shape(r), r.stream
    PROVE  /\ Shape(NetError(r)) /\ (Quiet(r) => Quiet(NetError(r)))
           /\ NetError(r).writes = r.writes
  BY DEF Shape, Quiet, NetError, UvClose, Connections, Handles

LEMMA LoseStep ==
    ASSUME LifecycleInv, NEW c \in DOMAIN con, phase \in {"running", "draining"},
           loop = "open", NEW r, Shape(r), r.stream,
           Quiet(con[c]) => Quiet(r), Lose(c, r)
    PROVE  LifecycleInv'
<1>1. /\ con' = [con EXCEPT ![c] = NetError(r)]
      /\ unsent' = IF r.writes > 0 THEN unsent \union {c} ELSE unsent
      /\ UNCHANGED <<pooled, loop, phase, outcome, lookups>>
  BY DEF Lose
<1>2. /\ Shape(NetError(r)) /\ NetError(r).writes = r.writes
      /\ Quiet(con[c]) => Quiet(NetError(r))
  BY NetErrorShape
<1>3. Looped(loop', NetError(r))
  BY <1>1 DEF Looped
<1>4. Kept(c, NetError(r), unsent') /\ unsent \subseteq unsent'
  BY <1>1, <1>2 DEF Kept
<1>5. Lost(NetError(r))
  BY DEF Lost, NetError, Shape, Connections
<1> QED BY <1>1, <1>2, <1>3, <1>4, <1>5, OneConnection

LEMMA ReadFailsStep ==
    ASSUME LifecycleInv, NEW c \in DOMAIN con, ReadFails(c)
    PROVE  LifecycleInv'
<1>1. con[c].stream /\ Running(c) /\ Lose(c, con[c])
  BY DEF ReadFails, Connected
<1> QED BY <1>1, OneShape, LoseStep

LEMMA WriteStep ==
    ASSUME LifecycleInv, NEW c \in DOMAIN con, Write(c)
    PROVE  LifecycleInv'
<1> DEFINE r == [con[c] EXCEPT !.writes = @ + 1,
                               !.status = IF @ = "IDLE" THEN "BUSY" ELSE @]
<1>1. /\ con[c].stream /\ con[c].socket = "open"
      /\ con[c].status \in {"CONNECTING", "IDLE"} /\ con[c].writes < MaxWrites
      /\ con' = [con EXCEPT ![c] = r]
      /\ phase = "running"
      /\ UNCHANGED <<pooled, loop, phase, outcome, lookups, unsent>>
  BY OneShape DEF Write, Connected
<1>2. Shape(r)
  <2>1. con[c].writes + 1 \in 0..MaxWrites
    BY <1>1, OneShape, LifecycleAssumption DEF Connections
  <2>2. r \in Connections
    BY <1>1, <2>1, OneShape DEF Connections
  <2>3. /\ r.stream = con[c].stream /\ r.socket = con[c].socket
        /\ r.check = con[c].check /\ r.checking = con[c].checking
        /\ r.resolving = con[c].resolving /\ r.connecting = con[c].connecting
        /\ r.status \in {"CONNECTING", "BUSY"}
        /\ r.status = "BUSY" \/ r.status = con[c].status
    BY <1>1, OneShape DEF Connections
  <2> QED BY <1>1, <2>2, <2>3, OneShape DEF Shape
<1>3. Looped(loop', r)
  BY <1>1, OneShape DEF Looped
<1>4. Kept(c, r, unsent') /\ Lost(r)
  BY <1>1, OneShape DEF Kept, Lost, Connections
<1> HIDE DEF r
<1> QED BY <1>1, <1>2, <1>3, <1>4, OneConnection
      DEF LifecycleInv, Filled, Alone, Walked

LEMMA AnsweredStep ==
    ASSUME LifecycleInv, NEW c \in DOMAIN con, Answered(c)
    PROVE  LifecycleInv'
<1>1. PICK status \in {"IDLE", "CONNECT_FAILED"} :
        con' = [con EXCEPT ![c].status = status]
  BY DEF Answered
<1> DEFINE r == [con[c] EXCEPT !.status = status]
<1>2. /\ con[c].stream /\ con[c].socket = "open"
      /\ con' = [con EXCEPT ![c] = r]
      /\ phase \in {"running", "draining"}
      /\ UNCHANGED <<pooled, loop, phase, outcome, lookups, unsent>>
  BY <1>1, OneShape DEF Answered, Connected
<1>3. Shape(r) /\ (Quiet(con[c]) => Quiet(r))
  BY <1>2, OneShape DEF Shape, Quiet, Connections
<1>4. Looped(loop', r)
  BY <1>2, OneShape DEF Looped
<1>5. Kept(c, r, unsent') /\ Lost(r)
  BY <1>2, OneShape DEF Kept, Lost, Connections
<1> HIDE DEF r
<1> QED BY <1>2, <1>3, <1>4, <1>5, OneConnection
      DEF LifecycleInv, Filled, Alone, Walked

(* libuv stops the process: the connection had writes when it was closed.    *)
LEMMA AbortStep ==
    ASSUME LifecycleInv, Abort, unsent \subseteq unsent', phase # "done",
           \/ \E c \in unsent' : con[c].writes > 0
           \/ pooled /\ \E c \in DOMAIN con : con[c].status = "NET_ERROR"
                                             /\ con[c].socket = "closing"
    PROVE  LifecycleInv'
<1>1. phase' = "aborted" /\ UNCHANGED <<pooled, con, loop, outcome, lookups>>
  BY DEF Abort
<1>2. ConnectedCloses' /\ PoolCloses' /\ ClosedOnce'
  BY <1>1 DEF ConnectedCloses, PoolCloses, ClosedOnce
<1>3. \A c \in DOMAIN con : Kept(c, con[c], unsent')
  BY DEF LifecycleInv, Filled, Alone, Walked, Kept
<1> QED BY <1>1, <1>2, <1>3 DEF LifecycleInv, Filled, Alone, Walked

LEMMA OnWriteStep ==
    ASSUME LifecycleInv, NEW c \in DOMAIN con, NEW ok \in BOOLEAN,
           OnWrite(c, ok)
    PROVE  LifecycleInv'
<1> DEFINE r == [con[c] EXCEPT !.writes = @ - 1]
<1>1. con[c].writes > 0 /\ phase \in {"running", "draining"}
  BY OneShape DEF OnWrite
<1>2. Shape(r) /\ r.stream /\ (Quiet(con[c]) => Quiet(r)) /\ loop = "open"
      /\ r.socket = con[c].socket
  BY <1>1, OneShape, LifecycleAssumption DEF Shape, Quiet, Connections
<1>3. \/ /\ con[c].socket = "open" /\ con' = [con EXCEPT ![c] = r]
         /\ UNCHANGED <<pooled, loop, phase, outcome, lookups, unsent>>
      \/ Lose(c, r)
      \/ con[c].socket # "open" /\ Abort /\ UNCHANGED unsent
  BY DEF OnWrite
<1> HIDE DEF r
<1>4. CASE /\ con[c].socket = "open" /\ con' = [con EXCEPT ![c] = r]
           /\ UNCHANGED <<pooled, loop, phase, outcome, lookups, unsent>>
  <2>1. Looped(loop', r) /\ Kept(c, r, unsent') /\ Lost(r)
    BY <1>2, <1>4 DEF Looped, Kept, Lost
  <2> QED BY <1>1, <1>2, <1>4, <2>1, OneConnection
<1>5. CASE Lose(c, r)
  BY <1>1, <1>2, <1>5, LoseStep
<1>6. CASE con[c].socket # "open" /\ Abort /\ UNCHANGED unsent
  <2>1. c \in unsent
    BY <1>1, <1>6, OneShape DEF Kept
  <2> QED BY <1>1, <1>6, <2>1, AbortStep
<1> QED BY <1>3, <1>4, <1>5, <1>6

LEMMA LoopTurnStep ==
    ASSUME LifecycleInv, NEW c \in DOMAIN con, LoopTurn(c)
    PROVE  LifecycleInv'
<1> DEFINE r == [con[c] EXCEPT
                   !.socket = IF @ = "closing" THEN "closed" ELSE @,
                   !.check = IF @ = "closing" THEN "closed" ELSE @]
<1>1. /\ con' = [con EXCEPT ![c] = r]
      /\ phase \in {"running", "draining"}
      /\ UNCHANGED <<pooled, loop, phase, outcome, lookups, unsent>>
  BY OneShape DEF LoopTurn
<1>2. Shape(r) /\ (Quiet(con[c]) => Quiet(r))
  BY OneShape DEF Shape, Quiet, Connections, Handles
<1>3. con[c].socket = "closing" \/ con[c].check = "closing"
  BY DEF LoopTurn
<1>4. loop = "open"
  BY <1>3, OneShape DEF Shape
<1>5. Looped(loop', r)
  BY <1>1, <1>4 DEF Looped
<1>6. Kept(c, r, unsent') /\ Lost(r)
  <2>1. con[c].writes = 0
    BY DEF LoopTurn
  <2> QED BY <2>1, OneShape DEF Kept, Lost, Connections
<1> HIDE DEF r
<1> QED BY <1>1, <1>2, <1>5, <1>6, OneConnection
      DEF LifecycleInv, Filled, Alone, Walked

-----------------------------------------------------------------------------
(* Destroying                                                                *)

(* loop_walk_cb closes both handles, and what is left to the end of uv_run   *)
(* gives up the requests that depend on them.                                *)
LEMMA WalkShape ==
    ASSUME NEW r, Shape(r)
    PROVE  /\ Shape(Walk(r))
           /\ ~r.resolving => Quiet(Walk(r))
           /\ r.stream /\ r.writes = 0 => Empty(Drained(Walk(r)))
           /\ Walk(r).writes = r.writes
           /\ Walk(r).socket # "open"
  BY DEF Shape, Quiet, Walk, UvClose, Drained, Empty, Connections, Handles

LEMMA DrainedShape ==
    ASSUME NEW r, Shape(r), r.stream, r.writes = 0
    PROVE  /\ Shape(Drained(Walk(r)))
           /\ Drained(Walk(r)).writes = 0
<1> DEFINE d == Drained(Walk(r))
<1>2. d \in Connections
  BY DEF Shape, Walk, UvClose, Drained, Connections, Handles
<1>3. /\ d.stream /\ d.check # "none" /\ d.socket # "none"
      /\ ~d.resolving /\ ~d.connecting /\ d.status # "NOT_CONNECTED"
      /\ d.writes = 0
  BY DEF Shape, Walk, UvClose, Drained, Connections, Handles
<1> HIDE DEF d
<1>4. Shape(d)
  BY <1>2, <1>3 DEF Shape
<1> QED BY <1>3, <1>4 DEF d

LEMMA NeverConnectedIsEmpty ==
    ASSUME NEW r, Shape(r), r.status = "NOT_CONNECTED", ~r.stream
    PROVE  Empty(r)
  BY DEF Shape, Empty, Connections

(* The only connection is destroyed, and r is what is left of it.            *)
LEMMA DestroyedStep ==
    ASSUME LifecycleInv, NEW c \in DOMAIN con, ~pooled, phase = "running", NEW r,
           con' = [con EXCEPT ![c] = r], Shape(r), Looped(loop, r),
           Kept(c, r, unsent), outcome' = Closes(con'), phase' = "done",
           UNCHANGED <<pooled, loop, lookups, unsent>>,
           \/ Empty(r)
           \/ r.status = "NET_ERROR"
           \/ ~r.stream /\ r.status \in {"CONNECTING", "CONNECT_FAILED"}
    PROVE  LifecycleInv'
<1>1. /\ DOMAIN con' = DOMAIN con
      /\ \A d \in DOMAIN con : con'[d] = r /\ d = c
      /\ con' = [d \in DOMAIN con |-> con'[d]]
  BY DEF LifecycleInv, Filled, Alone, Walked
<1>2. con' \in [DOMAIN con' -> Connections]
  BY <1>1 DEF Shape
<1>3. loop \in {"none", "open", "broken"}
  BY DEF LifecycleInv, Filled, Alone, Walked
<1>4. /\ loop = "none" => outcome' = "no loop"
      /\ loop = "broken" => outcome' = "broken loop"
      /\ loop = "open" => outcome' = IF \A d \in DOMAIN con' : Empty(con'[d])
                                     THEN "closed" ELSE "busy"
  BY DEF Closes
<1>5. outcome' \in {"closed", "busy", "no loop", "broken loop"}
  BY <1>3, <1>4
<1>6. ASSUME NEW d \in DOMAIN con'
      PROVE  \/ outcome' = "closed"
             \/ outcome' = "no loop" /\ con'[d].status = "NOT_CONNECTED"
             \/ /\ outcome' = "broken loop" /\ con'[d].status = "CONNECT_FAILED"
                /\ ~con'[d].stream
             \/ outcome' = "busy" /\ con'[d].status = "NET_ERROR"
             \/ /\ outcome' = "busy" /\ ~con'[d].stream
                /\ con'[d].status \in {"CONNECTING", "CONNECT_FAILED"}
  <2>1. con'[d] = r
    BY <1>1, <1>6
  <2>2. CASE loop = "none"
    BY <2>1, <2>2, <1>4 DEF Looped
  <2>3. CASE loop = "broken"
    BY <2>1, <2>3, <1>4 DEF Looped
  <2>4. CASE loop = "open"
    <3>1. CASE Empty(r)
      BY <3>1, <2>4, <1>1, <1>4
    <3>2. CASE ~Empty(r)
      <4>1. outcome' = "busy"
        BY <3>2, <2>4, <1>1, <1>4
      <4> QED BY <4>1, <3>2, <2>1
    <3> QED BY <3>1, <3>2
  <2> QED BY <1>3, <2>2, <2>3, <2>4
<1>7. ConnectedCloses'
  BY <1>6 DEF ConnectedCloses
<1>8. PoolCloses' /\ ClosedOnce'
  BY DEF PoolCloses, ClosedOnce
<1> QED BY <1>1, <1>2, <1>5, <1>7, <1>8 DEF LifecycleInv, Filled, Alone, Walked

LEMMA DestroyStep ==
    ASSUME LifecycleInv, NEW c \in DOMAIN con, Destroy(c)
    PROVE  LifecycleInv'
<1> DEFINE walks == con[c].stream /\ con[c].status # "NET_ERROR"
           r == Drained(Walk(con[c]))
<1>1. ~pooled /\ phase = "running"
  BY DEF Destroy
<1>2. /\ Shape(con[c]) /\ con[c] \in Connections
      /\ Looped(loop, con[c]) /\ Kept(c, con[c], unsent)
  BY OneShape DEF LifecycleInv, Filled, Alone, Walked
<1>3. \/ /\ ~walks /\ con' = con
         /\ outcome' = Closes(con') /\ phase' = "done"
         /\ UNCHANGED <<pooled, loop, lookups, unsent>>
      \/ /\ walks /\ con[c].writes = 0 /\ con' = [con EXCEPT ![c] = r]
         /\ outcome' = Closes(con') /\ phase' = "done"
         /\ UNCHANGED <<pooled, loop, lookups, unsent>>
      \/ /\ con[c].writes > 0 /\ Abort
         /\ unsent' = unsent \union Undone
  BY DEF Destroy, Closes
<1>4. CASE /\ ~walks /\ con' = con
           /\ outcome' = Closes(con') /\ phase' = "done"
           /\ UNCHANGED <<pooled, loop, lookups, unsent>>
  <2>1. con' = [con EXCEPT ![c] = con[c]]
    BY <1>4, OneShape
  <2>2. \/ Empty(con[c])
        \/ con[c].status = "NET_ERROR"
        \/ ~con[c].stream /\ con[c].status \in {"CONNECTING", "CONNECT_FAILED"}
    BY <1>2, <1>4, NeverConnectedIsEmpty DEF Shape
  <2> HIDE DEF walks
  <2> QED BY <1>1, <1>2, <1>4, <2>1, <2>2, DestroyedStep
<1>5. CASE /\ walks /\ con[c].writes = 0 /\ con' = [con EXCEPT ![c] = r]
           /\ outcome' = Closes(con') /\ phase' = "done"
           /\ UNCHANGED <<pooled, loop, lookups, unsent>>
  <2>1. Shape(r) /\ r.writes = 0 /\ Empty(r)
    BY <1>2, <1>5, DrainedShape, WalkShape
  <2>2. Looped(loop, r)
    BY <1>5, OneShape DEF Looped
  <2>3. Kept(c, r, unsent)
    BY <2>1 DEF Kept
  <2> HIDE DEF r, walks
  <2> QED BY <1>1, <1>5, <2>1, <2>2, <2>3, DestroyedStep
<1>6. CASE /\ con[c].writes > 0 /\ Abort
           /\ unsent' = unsent \union Undone
  <2>1. c \in unsent'
    BY <1>2, <1>6 DEF Kept, Undone
  <2> QED BY <1>1, <1>6, <2>1, AbortStep
<1> HIDE DEF walks, r
<1> QED BY <1>3, <1>4, <1>5, <1>6

LEMMA PoolDestroyStep ==
    ASSUME LifecycleInv, PoolDestroy
    PROVE  LifecycleInv'
<1>1. pooled /\ phase = "running"
  BY DEF PoolDestroy
<1>2. CASE /\ con' = [c \in DOMAIN con |-> Walk(con[c])]
           /\ phase' = "draining"
           /\ lookups' = {c \in DOMAIN con : con[c].resolving}
           /\ unsent' = unsent \union Undone
           /\ UNCHANGED <<pooled, loop, outcome>>
  <2>1. /\ DOMAIN con' = DOMAIN con
        /\ \A c \in DOMAIN con : con'[c] = Walk(con[c])
        /\ con' = [c \in DOMAIN con |-> con'[c]]
    BY <1>2
  <2>2. \A c \in DOMAIN con : Shape(con'[c])
    BY <2>1, WalkShape DEF LifecycleInv, Filled, Alone, Walked
  <2>3. con' \in [DOMAIN con' -> Connections]
    BY <2>1, <2>2 DEF Shape
  <2>4. lookups' = {} => \A c \in DOMAIN con : Quiet(con'[c])
    BY <1>2, <2>1, WalkShape DEF LifecycleInv, Filled, Alone, Walked
  <2>5. ConnectedCloses' /\ PoolCloses' /\ ClosedOnce'
    BY <1>1, <1>2 DEF ConnectedCloses, PoolCloses, ClosedOnce
  <2>6. ASSUME NEW c \in DOMAIN con
        PROVE  Looped(loop', con'[c]) /\ Kept(c, con'[c], unsent')
    <3>1. Looped(loop', con'[c])
      BY <1>1, <1>2 DEF LifecycleInv, Filled, Alone, Walked, Looped
    <3>2. con'[c].writes = con[c].writes /\ Kept(c, con[c], unsent)
      BY <2>1, WalkShape DEF LifecycleInv, Filled, Alone, Walked
    <3> QED BY <1>2, <3>1, <3>2 DEF Kept, Undone
  <2> QED BY <1>1, <1>2, <2>1, <2>2, <2>3, <2>4, <2>5, <2>6
        DEF LifecycleInv, Filled, Alone, Walked
<1>3. CASE (\E c \in DOMAIN con : con[c].socket = "closing") /\ Abort
           /\ UNCHANGED unsent
  <2>1. PICK c \in DOMAIN con : con[c].socket = "closing"
    BY <1>3
  <2>2. con[c].status = "NET_ERROR"
    BY <1>1, <2>1 DEF LifecycleInv, Filled, Alone, Walked, Lost
  <2> QED BY <1>1, <1>3, <2>1, <2>2, AbortStep
<1> QED BY <1>2, <1>3 DEF PoolDestroy

LEMMA PoolDestroyedStep ==
    ASSUME LifecycleInv, PoolDestroyed
    PROVE  LifecycleInv'
<1>1. /\ pooled /\ phase = "draining" /\ phase' = "done"
      /\ loop = "open" /\ outcome' = Closes(con)
      /\ UNCHANGED <<pooled, con, loop, lookups, unsent>>
  BY DEF PoolDestroyed, LifecycleInv, Filled, Alone, Walked
<1>2. outcome' = IF \A c \in DOMAIN con : Empty(con[c]) THEN "closed" ELSE "busy"
  BY <1>1 DEF Closes
<1>3. lookups = {} => outcome' = "closed"
  <2> SUFFICES ASSUME lookups = {}, NEW c \in DOMAIN con
               PROVE  Empty(con[c])
    BY <1>2
  <2>1. Quiet(con[c]) /\ ~Alive(con[c]) /\ con[c] \in Connections
    BY <1>1 DEF LifecycleInv, Filled, Alone, Walked, PoolDestroyed, Shape
  <2> QED BY <2>1 DEF Quiet, Alive, Empty, Connections, Handles
<1>4. ConnectedCloses' /\ PoolCloses' /\ ClosedOnce'
  BY <1>1, <1>3 DEF ConnectedCloses, PoolCloses, ClosedOnce
<1> QED BY <1>1, <1>2, <1>4 DEF LifecycleInv, Filled, Alone, Walked

LEMMA LifecycleStep == LifecycleInv /\ [Next]_vars => LifecycleInv'
<1> SUFFICES ASSUME LifecycleInv, [Next]_vars PROVE LifecycleInv'
  OBVIOUS
<1>1. ASSUME NEW c \in DOMAIN con,
             \/ ConnectFails(c) \/ Connect(c) \/ Write(c) \/ Callback(c)
             \/ ReadFails(c) \/ Destroy(c)
      PROVE  LifecycleInv'
  <2>1. CASE ConnectFails(c) \/ Connect(c) \/ Write(c)
    BY <2>1, ConnectStep, WriteStep
  <2>2. ASSUME NEW ok \in BOOLEAN,
               OnResolved(c, ok) \/ OnConnect(c, ok) \/ OnWrite(c, ok)
        PROVE  LifecycleInv'
    BY <2>2, OnResolvedStep, OnConnectStep, OnWriteStep
  <2>3. CASE Answered(c) \/ LoopTurn(c) \/ ReadFails(c) \/ Destroy(c)
    BY <2>3, AnsweredStep, LoopTurnStep, ReadFailsStep, DestroyStep
  <2> QED BY <1>1, <2>1, <2>2, <2>3 DEF Callback
<1>2. CASE PoolDestroy
  BY <1>2, PoolDestroyStep
<1>3. CASE PoolDestroyed
  BY <1>3, PoolDestroyedStep
<1>4. CASE PoolWaits \/ Done \/ UNCHANGED vars
  <2>1. UNCHANGED <<pooled, con, loop, phase, outcome, lookups, unsent>>
    BY <1>4 DEF PoolWaits, Done, vars
  <2>2. ConnectedCloses' /\ PoolCloses' /\ ClosedOnce'
    BY <2>1
          DEF LifecycleInv, Filled, Alone, Walked, ConnectedCloses, PoolCloses, ClosedOnce
  <2> QED BY <2>1, <2>2 DEF LifecycleInv, Filled, Alone, Walked
<1> QED BY <1>1, <1>2, <1>3, <1>4 DEF Next

(* A connection that has reached its server and not lost it, or whose host   *)
(* was not found, is destroyed with nothing left in the loop; a pool is,     *)
(* unless a host was being looked up; and nothing is closed twice unless a   *)
(* socket was closed with a write outstanding or a pool is destroyed before  *)
(* the loop has turned after a net error: attachsql_connect_destroy,         *)
(* attachsql_pool_destroy and on_write, in every state of every connection.  *)
THEOREM LoopClosesCorrect == Spec => []LoopCloses
<1>1. LifecycleInv => LoopCloses
  BY DEF LifecycleInv, Filled, Alone, Walked, LoopCloses, TypeOK, Shape
<1> QED BY <1>1, LifecycleInit, LifecycleStep, PTL DEF Spec
=============================================================================

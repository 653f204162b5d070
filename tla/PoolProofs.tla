----------------------------- MODULE PoolProofs -----------------------------
(***************************************************************************)
(* Commands and events of a pool of any number of connections: a command   *)
(* given from a callback, however deep, is kept and is alone on its        *)
(* connection, events come in their order, and none is passed over while   *)
(* the rows of a query are read.                                           *)
(***************************************************************************)
EXTENDS Pool, SequenceTheorems, TLAPS

(* A row of the answer is there or was asked for; the connection has an      *)
(* answer to wait for; it has logged in and not been used yet.               *)
AtRow(r) ==
    r.status = "IDLE" /\ r.command_status \in {"ROW_IN_BUFFER", "READ_ROW"}
Working(r) == r.status = "BUSY" \/ AtRow(r)
Greeted(r) == r.status = "IDLE" /\ r.command_status = "CONNECTED"

(* The answers the server owes are those the connection waits for.           *)
OwedInv(r, k) ==
    /\ Working(r) => r.owed > 0
    /\ ~k.resent => r.owed <= 1
    /\ ~k.resent /\ r.status # "NET_ERROR" /\ ~Working(r) => r.owed = 0

(* An error of the server ends an answer and is gone with the next command.  *)
ErrnoInv(r) ==
    /\ r.command_status = "CONNECTED" => r.status = "IDLE"
    /\ r.server_errno =>
         /\ r.status \in {"IDLE", "NET_ERROR"}
         /\ r.command_status \notin {"CONNECTED", "ROW_IN_BUFFER", "READ_ROW"}

(* The application waits for what the connection does.                       *)
WaitInv(r, k) ==
    /\ Working(r) => k.waiting = "answer"
    /\ r.status = "CONNECTING" => k.waiting # "nothing"
    /\ (r.status = "CONNECTING" \/ Greeted(r)) /\ r.pending # "NONE" =>
         k.waiting = "answer"

(* It has heard of a connection that is used.                                *)
HeardInv(r, k) ==
    /\ r.last_callback \in k.seen \union {"NONE"}
    /\ r.status = "BUSY" \/ (r.status = "IDLE" /\ r.command_status # "CONNECTED")
         => "CONNECTED" \in k.seen
    /\ Greeted(r) /\ k.waiting = "nothing" => "CONNECTED" \in k.seen
    /\ k.seen \intersect {"EOF", "ROW_READY"} # {} => "CONNECTED" \in k.seen

(* While the rows of a query are read, what there is to tell is new.         *)
AskedInv(r, k) ==
    k.asked =>
        /\ r.status \in {"IDLE", "NET_ERROR"} /\ r.command_status # "CONNECTED"
        /\ r.status = "IDLE" => r.last_callback # "ERROR" /\ ~r.server_errno
        /\ r.status = "IDLE" /\ (~k.told \/ r.command_status = "READ_ROW") =>
             r.last_callback = "NONE"
        /\ r.status = "NET_ERROR" /\ ~k.told => r.last_callback # "ERROR"

ConInv(r, k) ==
    /\ r \in Fields /\ k \in Knowledge
    /\ OwedInv(r, k) /\ ErrnoInv(r) /\ WaitInv(r, k) /\ HeardInv(r, k)
    /\ AskedInv(r, k)

(* What a callback that has not returned relies on when it does.             *)
FrameInv(f, r, k) ==
    /\ f.event \in k.seen
    /\ f.event = "EOF" => \/ r.status = "BUSY"
                          \/ r.status = "IDLE" /\ r.command_status = "EOF"
    /\ f.event = "CONNECTED" => \/ Greeted(r)
                                \/ /\ r.status = "BUSY"
                                   /\ r.pending # "NONE" => k.resent
    /\ f.event = "ROW_READY" /\ ~f.handled =>
         r.status = "IDLE" /\ r.command_status = "ROW_IN_BUFFER"
    /\ f.from = "connect" => f.event = "ERROR"
    /\ f.error = f.con \/ (f.event # "ERROR" /\ f.error < f.con)

(* Only the first callback is one of the poll.                               *)
StackInv ==
    \A i \in 1..Len(stack) :
        stack[i].from = "poll" =>
            /\ i = 1 /\ phase = "poll"
            /\ turn = stack[i].con /\ turn <= count

(* The error pointer is behind the connection that is polled.                *)
TurnInv ==
    /\ phase = "loop" => stack = << >> /\ err = 0
    /\ phase = "poll" => err <= turn
    /\ phase = "poll" /\ stack = << >> => err < turn
    /\ phase = "poll" /\ stack # << >> => stack[1].from = "poll"

(* The inductive invariant.                                                  *)
PoolInv ==
    /\ TypeOK
    /\ \A c \in Cons : ConInv(con[c], app[c])
    /\ \A i \in 1..Len(stack) :
         FrameInv(stack[i], con[stack[i].con], app[stack[i].con])
    /\ StackInv
    /\ TurnInv


-----------------------------------------------------------------------------
(* What the application's calls make of a connection                         *)

(* A command is sent: the connection was free.                               *)
LEMMA GivenInv ==
    ASSUME NEW r, NEW k, ConInv(r, k), NEW s \in Fields, NEW m \in Knowledge,
           r.status = "IDLE", k.waiting = "nothing",
           s.status = "BUSY", s.command_status = "SEND", ~s.server_errno,
           s.owed = r.owed + 1, s.last_callback = r.last_callback,
           m.waiting = "answer", ~m.asked, m.seen = k.seen,
           k.resent => m.resent
    PROVE  ConInv(s, m)
<1>1. r.owed \in Nat
  BY DEF ConInv, Fields
<1>2. OwedInv(s, m)
  <2>1. s.owed > 0 /\ Working(s)
    BY <1>1 DEF Working
  <2>2. ~k.resent => r.owed = 0
    BY DEF ConInv, OwedInv, WaitInv, Working, AtRow
  <2>3. ~m.resent => s.owed <= 1
    BY <1>1, <2>2
  <2> QED BY <2>1, <2>3 DEF OwedInv
<1>3. ErrnoInv(s) /\ WaitInv(s, m)
  BY DEF ErrnoInv, WaitInv, Working, AtRow, Greeted
<1>4. HeardInv(s, m)
  BY DEF ConInv, HeardInv, Greeted
<1> QED BY <1>2, <1>3, <1>4 DEF ConInv, AskedInv

(* A command is sent on a connection that has failed.                        *)
LEMMA RefusedInv ==
    ASSUME NEW r, NEW k, ConInv(r, k), NEW s \in Fields,
           r.status = "NET_ERROR", s.status = "NET_ERROR",
           s.command_status = "SEND_FAILED", ~s.server_errno,
           s.owed = r.owed, s.last_callback = r.last_callback
    PROVE  ConInv(s, k)
<1>1. OwedInv(s, k)
  BY DEF ConInv, OwedInv, Working, AtRow
<1>2. ErrnoInv(s) /\ WaitInv(s, k)
  BY DEF ErrnoInv, WaitInv, Working, AtRow, Greeted
<1>3. HeardInv(s, k)
  BY DEF ConInv, HeardInv, Greeted
<1>4. AskedInv(s, k)
  BY DEF ConInv, AskedInv
<1> QED BY <1>1, <1>2, <1>3, <1>4 DEF ConInv

(* The connection is set up, for a query that waits or by itself.            *)
LEMMA ConnectingInv ==
    ASSUME NEW r, NEW k, ConInv(r, k), NEW s \in Fields, NEW m \in Knowledge,
           r.status = "NOT_CONNECTED", s.status = "CONNECTING",
           s.command_status = r.command_status,
           s.server_errno = r.server_errno,
           s.owed = r.owed, s.last_callback = r.last_callback,
           m.waiting = IF s.pending = "NONE" THEN "connection" ELSE "answer",
           ~m.asked, m.seen = k.seen, m.resent = k.resent
    PROVE  ConInv(s, m)
<1>1. OwedInv(s, m)
  BY DEF ConInv, OwedInv, Working, AtRow
<1>2. ErrnoInv(s) /\ WaitInv(s, m)
  BY DEF ConInv, ErrnoInv, WaitInv, Working, AtRow, Greeted
<1>3. HeardInv(s, m)
  BY DEF ConInv, HeardInv, Greeted
<1> QED BY <1>1, <1>2, <1>3 DEF ConInv, AskedInv

LEMMA ConnectFailsInv ==
    ASSUME NEW r, NEW k, ConInv(r, k), NEW s \in Fields, NEW m \in Knowledge,
           r.status = "NOT_CONNECTED", s.status = "CONNECT_FAILED",
           s.command_status = r.command_status,
           s.server_errno = r.server_errno,
           s.owed = r.owed, s.last_callback = "ERROR",
           ~m.asked, m.seen = k.seen \union {"ERROR"}, m.resent = k.resent
    PROVE  ConInv(s, m)
<1>1. OwedInv(s, m)
  BY DEF ConInv, OwedInv, Working, AtRow
<1>2. ErrnoInv(s) /\ WaitInv(s, m)
  BY DEF ConInv, ErrnoInv, WaitInv, Working, AtRow, Greeted
<1>3. HeardInv(s, m)
  BY DEF ConInv, HeardInv, Greeted
<1> QED BY <1>1, <1>2, <1>3 DEF ConInv, AskedInv

(* A query is closed.                                                        *)
LEMMA ClosedInv ==
    ASSUME NEW r, NEW k, ConInv(r, k), NEW s \in Fields,
           s.status = r.status, s.command_status = r.command_status,
           s.server_errno = r.server_errno, s.owed = r.owed,
           s.last_callback = r.last_callback, s.pending = "NONE"
    PROVE  ConInv(s, k)
<1>1. OwedInv(s, k)
  BY DEF ConInv, OwedInv, Working, AtRow
<1>2. ErrnoInv(s) /\ WaitInv(s, k)
  BY DEF ConInv, ErrnoInv, WaitInv, Working, AtRow, Greeted
<1>3. HeardInv(s, k)
  BY DEF ConInv, HeardInv, Greeted
<1>4. AskedInv(s, k)
  BY DEF ConInv, AskedInv
<1> QED BY <1>1, <1>2, <1>3, <1>4 DEF ConInv

(* The application asks for the next row: of a query, the last event is      *)
(* forgotten.                                                                *)
LEMMA RowAskedInv ==
    ASSUME NEW r, NEW k, ConInv(r, k), NEW s \in Fields, NEW m \in Knowledge,
           r.status = "IDLE", r.command_status = "ROW_IN_BUFFER",
           s.status = "IDLE", s.command_status = "READ_ROW",
           s.server_errno = r.server_errno, s.owed = r.owed,
           s.last_callback \in {r.last_callback, "NONE"},
           m.asked => s.last_callback = "NONE",
           m.waiting = k.waiting, m.seen = k.seen, m.resent = k.resent
    PROVE  ConInv(s, m)
<1>1. OwedInv(s, m)
  BY DEF ConInv, OwedInv, Working, AtRow
<1>2. ErrnoInv(s) /\ WaitInv(s, m) /\ ~s.server_errno
  BY DEF ConInv, ErrnoInv, WaitInv, Working, AtRow, Greeted
<1>3. HeardInv(s, m)
  BY DEF ConInv, HeardInv, Greeted
<1>4. AskedInv(s, m)
  BY <1>2 DEF AskedInv
<1> QED BY <1>1, <1>2, <1>3, <1>4 DEF ConInv


-----------------------------------------------------------------------------
(* What the loop makes of a connection                                       *)

LEMMA ConnectedInv ==
    ASSUME NEW r, NEW k, ConInv(r, k), NEW s \in Fields, NEW m \in Knowledge,
           r.status = "CONNECTING",
           \/ s.status = "IDLE" /\ s.command_status = "CONNECTED"
           \/ /\ s.status = "CONNECT_FAILED"
              /\ s.command_status = r.command_status,
           s.server_errno = r.server_errno, s.owed = r.owed,
           s.pending = r.pending, s.last_callback = r.last_callback,
           m.waiting = k.waiting, m.asked = k.asked, m.seen = k.seen,
           m.resent = k.resent
    PROVE  ConInv(s, m)
<1>1. OwedInv(s, m)
  BY DEF ConInv, OwedInv, Working, AtRow
<1>2. ErrnoInv(s)
  BY DEF ConInv, ErrnoInv
<1>3. WaitInv(s, m)
  BY DEF ConInv, WaitInv, Working, AtRow, Greeted
<1>4. HeardInv(s, m)
  BY DEF ConInv, HeardInv, WaitInv, Greeted
<1>5. AskedInv(s, m)
  BY DEF ConInv, AskedInv
<1> QED BY <1>1, <1>2, <1>3, <1>4, <1>5 DEF ConInv

LEMMA NetErrorInv ==
    ASSUME NEW r, NEW k, ConInv(r, k), NEW s \in Fields, NEW m \in Knowledge,
           r.status \in {"CONNECTING", "BUSY", "IDLE"},
           s.status = "NET_ERROR", s.command_status = "READ_FAILED",
           s.owed = r.owed, s.last_callback = r.last_callback,
           m.waiting = k.waiting, m.asked = k.asked, m.seen = k.seen,
           m.resent = k.resent
    PROVE  ConInv(s, m)
<1>1. OwedInv(s, m)
  BY DEF ConInv, OwedInv, Working, AtRow
<1>2. ErrnoInv(s) /\ WaitInv(s, m)
  BY DEF ErrnoInv, WaitInv, Working, AtRow, Greeted
<1>3. HeardInv(s, m)
  BY DEF ConInv, HeardInv, Greeted
<1>4. AskedInv(s, m)
  BY DEF ConInv, AskedInv
<1> QED BY <1>1, <1>2, <1>3, <1>4 DEF ConInv

(* An answer ends; if it is an error, before its first row.                  *)
LEMMA EndedInv ==
    ASSUME NEW r, NEW k, ConInv(r, k), NEW s \in Fields, NEW m \in Knowledge,
           \/ r.status = "BUSY"
           \/ r.status = "IDLE" /\ r.command_status = "READ_ROW",
           s.status = "IDLE", s.command_status = "EOF",
           s.server_errno => r.status = "BUSY",
           s.owed = r.owed - 1, s.last_callback = r.last_callback,
           m.waiting = k.waiting, m.asked = k.asked, m.seen = k.seen,
           m.resent = k.resent
    PROVE  ConInv(s, m)
<1>1. OwedInv(s, m)
  <2>1. r.owed \in Nat
    BY DEF ConInv, Fields
  <2>2. ~m.resent => r.owed <= 1
    BY DEF ConInv, OwedInv
  <2>3. r.owed > 0
    BY DEF ConInv, OwedInv, Working, AtRow
  <2>4. ~m.resent => s.owed = 0
    BY <2>1, <2>2, <2>3
  <2>5. ~Working(s)
    BY DEF Working, AtRow
  <2> QED BY <2>4, <2>5 DEF OwedInv
<1>2. ErrnoInv(s) /\ WaitInv(s, m)
  BY DEF ErrnoInv, WaitInv, Working, AtRow, Greeted
<1>3. HeardInv(s, m)
  BY DEF ConInv, HeardInv, Greeted
<1>4. AskedInv(s, m)
  BY DEF ConInv, AskedInv
<1> QED BY <1>1, <1>2, <1>3, <1>4 DEF ConInv

(* A row arrives.                                                            *)
LEMMA RowInv ==
    ASSUME NEW r, NEW k, ConInv(r, k), NEW s \in Fields, NEW m \in Knowledge,
           \/ r.status = "BUSY"
           \/ r.status = "IDLE" /\ r.command_status = "READ_ROW",
           s.status = "IDLE", s.command_status = "ROW_IN_BUFFER",
           s.server_errno = r.server_errno,
           s.owed = r.owed, s.last_callback = r.last_callback,
           m.waiting = k.waiting, m.asked = k.asked, m.seen = k.seen,
           m.resent = k.resent
    PROVE  ConInv(s, m)
<1>1. OwedInv(s, m)
  BY DEF ConInv, OwedInv, Working, AtRow
<1>2. ErrnoInv(s) /\ ~s.server_errno
  BY DEF ConInv, ErrnoInv
<1>3. WaitInv(s, m)
  BY DEF ConInv, WaitInv, Working, AtRow, Greeted
<1>4. HeardInv(s, m)
  BY DEF ConInv, HeardInv, Greeted
<1>5. AskedInv(s, m)
  BY <1>2 DEF ConInv, AskedInv
<1> QED BY <1>1, <1>2, <1>3, <1>4, <1>5 DEF ConInv

-----------------------------------------------------------------------------
(* What poll makes of a connection                                           *)

(* The events poll has for a connection.                                     *)
Tells(r, event) ==
    \/ /\ event = "ERROR"
       /\ \/ r.status \in {"CONNECT_FAILED", "NET_ERROR"}
          \/ r.status = "IDLE" /\ r.server_errno
    \/ event = "EOF" /\ r.status = "IDLE" /\ r.command_status = "EOF"
    \/ /\ event = "ROW_READY" /\ r.status = "IDLE"
       /\ r.command_status = "ROW_IN_BUFFER"
    \/ event = "CONNECTED" /\ Greeted(r)

LEMMA ToldInv ==
    ASSUME NEW r, NEW k, ConInv(r, k), NEW s \in Fields, NEW m \in Knowledge,
           NEW event, Tells(r, event),
           s.status = r.status, s.command_status = r.command_status,
           s.server_errno = r.server_errno, s.owed = r.owed,
           s.pending = r.pending, s.last_callback = event,
           m.told, m.seen = k.seen \union {event},
           m.waiting = IF \/ event \in {"EOF", "ERROR"}
                          \/ event = "CONNECTED" /\ k.waiting = "connection"
                         THEN "nothing" ELSE k.waiting,
           m.asked = k.asked, m.resent = k.resent
    PROVE  ConInv(s, m)
<1>1. OwedInv(s, m)
  BY DEF ConInv, OwedInv, Working, AtRow
<1>2. ErrnoInv(s)
  BY DEF ConInv, ErrnoInv
<1>3. WaitInv(s, m)
  <2>1. CASE event \in {"EOF", "ERROR"}
    <3>1. ~Working(r) /\ ~Greeted(r) /\ r.status # "CONNECTING"
      BY <2>1 DEF Tells, ConInv, ErrnoInv, Working, AtRow, Greeted
    <3> QED BY <3>1 DEF WaitInv, Working, AtRow, Greeted
  <2>2. CASE event \in {"ROW_READY", "CONNECTED"}
    BY <2>2 DEF Tells, ConInv, WaitInv, Working, AtRow, Greeted
  <2> QED BY <2>1, <2>2 DEF Tells
<1>4. HeardInv(s, m)
  <2>1. "CONNECTED" \in k.seen => "CONNECTED" \in m.seen
    OBVIOUS
  <2>2. Greeted(r) => event = "CONNECTED"
    BY DEF Tells, ConInv, ErrnoInv, Greeted
  <2>3. event \in {"EOF", "ROW_READY"} => "CONNECTED" \in k.seen
    BY DEF Tells, ConInv, HeardInv
  <2>4. m.seen \intersect {"EOF", "ROW_READY"} # {} => "CONNECTED" \in m.seen
    <3>1. CASE k.seen \intersect {"EOF", "ROW_READY"} # {}
      BY <2>1, <3>1 DEF ConInv, HeardInv
    <3>2. CASE event \in {"EOF", "ROW_READY"}
      BY <2>1, <2>3, <3>2
    <3> QED BY <3>1, <3>2
  <2>5. r.status = "BUSY" \/ (r.status = "IDLE" /\ r.command_status # "CONNECTED")
          => "CONNECTED" \in m.seen
    BY <2>1 DEF ConInv, HeardInv
  <2> QED BY <2>2, <2>4, <2>5 DEF HeardInv, Greeted
<1>5. AskedInv(s, m)
  BY DEF Tells, ConInv, AskedInv, Greeted
<1> QED BY <1>1, <1>2, <1>3, <1>4, <1>5 DEF ConInv

(* Poll goes on after an event that leaves the connection as it is, after    *)
(* EOF, and with the query that waited for the connection.                   *)
LEMMA SameInv ==
    ASSUME NEW r, NEW k, ConInv(r, k), NEW m \in Knowledge,
           m.waiting = k.waiting, m.told = k.told, m.asked = k.asked,
           m.seen = k.seen, m.resent = k.resent
    PROVE  ConInv(r, m)
<1>1. OwedInv(r, m) /\ ErrnoInv(r) /\ WaitInv(r, m)
  BY DEF ConInv, OwedInv, WaitInv
<1>2. HeardInv(r, m)
  BY DEF ConInv, HeardInv
<1>3. AskedInv(r, m)
  BY DEF ConInv, AskedInv
<1> QED BY <1>1, <1>2, <1>3 DEF ConInv

LEMMA AfterEofInv ==
    ASSUME NEW r, NEW k, ConInv(r, k), NEW s \in Fields,
           \/ r.status = "BUSY"
           \/ r.status = "IDLE" /\ r.command_status = "EOF",
           s.status = r.status, s.command_status = "EOF",
           s.server_errno = r.server_errno, s.owed = r.owed,
           s.last_callback = r.last_callback
    PROVE  ConInv(s, k)
<1>1. OwedInv(s, k)
  BY DEF ConInv, OwedInv, Working, AtRow
<1>2. ErrnoInv(s) /\ WaitInv(s, k)
  BY DEF ConInv, ErrnoInv, WaitInv, Working, AtRow, Greeted
<1>3. HeardInv(s, k)
  BY DEF ConInv, HeardInv, Greeted
<1>4. AskedInv(s, k)
  BY DEF ConInv, AskedInv
<1> QED BY <1>1, <1>2, <1>3, <1>4 DEF ConInv

LEMMA AfterConnectedInv ==
    ASSUME NEW r, NEW k, ConInv(r, k), NEW s \in Fields,
           Greeted(r) \/ (r.status = "BUSY" /\ k.resent),
           r.pending # "NONE", "CONNECTED" \in k.seen,
           s.status = "BUSY", s.command_status = "SEND", ~s.server_errno,
           s.owed = r.owed + 1, s.last_callback = r.last_callback
    PROVE  ConInv(s, k)
<1>1. r.owed \in Nat
  BY DEF ConInv, Fields
<1>2. OwedInv(s, k)
  <2>1. s.owed > 0 /\ Working(s)
    BY <1>1 DEF Working
  <2>2. ~k.resent => r.owed = 0
    BY DEF ConInv, OwedInv, Working, AtRow, Greeted
  <2>3. ~k.resent => s.owed <= 1
    BY <1>1, <2>2
  <2> QED BY <2>1, <2>3 DEF OwedInv
<1>3. ErrnoInv(s)
  BY DEF ErrnoInv
<1>4. WaitInv(s, k)
  BY DEF ConInv, WaitInv, Working, AtRow, Greeted
<1>5. HeardInv(s, k)
  BY DEF ConInv, HeardInv, Greeted
<1>6. AskedInv(s, k)
  BY DEF ConInv, AskedInv, Greeted
<1> QED BY <1>2, <1>3, <1>4, <1>5, <1>6 DEF ConInv


-----------------------------------------------------------------------------
(* The calls                                                                 *)

(* One connection has changed.                                               *)
LEMMA OneChanged ==
    ASSUME PoolInv, NEW c \in Cons, NEW s, NEW m, ConInv(s, m),
           con' = [con EXCEPT ![c] = s], app' = [app EXCEPT ![c] = m]
    PROVE  /\ con' \in [Cons -> Fields] /\ app' \in [Cons -> Knowledge]
           /\ \A d \in Cons : ConInv(con'[d], app'[d])
           /\ con'[c] = s /\ app'[c] = m
           /\ \A d \in Cons \ {c} : con'[d] = con[d] /\ app'[d] = app[d]
<1>1. /\ con \in [Cons -> Fields] /\ app \in [Cons -> Knowledge]
      /\ \A d \in Cons : ConInv(con[d], app[d])
      /\ s \in Fields /\ m \in Knowledge
  BY DEF PoolInv, TypeOK, ConInv
<1>2. /\ con'[c] = s /\ app'[c] = m
      /\ \A d \in Cons \ {c} : con'[d] = con[d] /\ app'[d] = app[d]
  BY <1>1
<1>3. \A d \in Cons : ConInv(con'[d], app'[d])
  BY <1>1, <1>2
<1> QED BY <1>1, <1>2, <1>3

(* The callbacks find what they rely on, if those of that connection do.     *)
LEMMA FramesChanged ==
    ASSUME PoolInv, NEW c \in Cons,
           \A d \in Cons \ {c} : con'[d] = con[d] /\ app'[d] = app[d],
           \A i \in 1..Len(stack) :
             stack[i].con = c => FrameInv(stack[i], con'[c], app'[c])
    PROVE  \A i \in 1..Len(stack) :
             FrameInv(stack[i], con'[stack[i].con], app'[stack[i].con])
<1> SUFFICES ASSUME NEW i \in 1..Len(stack)
             PROVE  FrameInv(stack[i], con'[stack[i].con], app'[stack[i].con])
  OBVIOUS
<1>1. stack[i] \in Frame
  BY DEF PoolInv, TypeOK
<1>2. stack[i].con \in Cons
  BY <1>1 DEF Frame
<1>3. FrameInv(stack[i], con[stack[i].con], app[stack[i].con])
  BY DEF PoolInv
<1> QED BY <1>2, <1>3

(* A call that changes one connection and no callback.                       *)
LEMMA CallStep ==
    ASSUME PoolInv, NEW c \in Cons, NEW s, NEW m, ConInv(s, m),
           con' = [con EXCEPT ![c] = s], app' = [app EXCEPT ![c] = m],
           \A i \in 1..Len(stack) :
             stack[i].con = c => FrameInv(stack[i], s, m),
           commands' \in 0..MaxCommands,
           UNCHANGED <<count, phase, turn, stack, err>>
    PROVE  PoolInv'
<1>1. /\ con' \in [Cons -> Fields] /\ app' \in [Cons -> Knowledge]
      /\ \A d \in Cons : ConInv(con'[d], app'[d])
      /\ con'[c] = s /\ app'[c] = m
      /\ \A d \in Cons \ {c} : con'[d] = con[d] /\ app'[d] = app[d]
  BY OneChanged
<1>2. \A i \in 1..Len(stack) :
        FrameInv(stack[i], con'[stack[i].con], app'[stack[i].con])
  BY <1>1, FramesChanged
<1>3. TypeOK'
  BY <1>1 DEF PoolInv, TypeOK
<1>4. StackInv' /\ TurnInv'
  BY DEF PoolInv, StackInv, TurnInv
<1>5. \A i \in 1..Len(stack') :
        FrameInv(stack'[i], con'[stack'[i].con], app'[stack'[i].con])
  BY <1>2
<1> QED BY <1>1, <1>3, <1>4, <1>5 DEF PoolInv

LEMMA SentFields ==
    ASSUME NEW r \in Fields, NEW kind \in CommandKinds
    PROVE  /\ Sent(r, kind) \in Fields
           /\ Sent(r, kind).status = "BUSY"
           /\ Sent(r, kind).command_status = "SEND"
           /\ ~Sent(r, kind).server_errno
           /\ Sent(r, kind).owed = r.owed + 1
           /\ Sent(r, kind).pending = r.pending
           /\ Sent(r, kind).last_callback = r.last_callback
<1>1. r.owed + 1 \in Nat
  BY DEF Fields
<1>2. Sent(r, kind) \in Fields
  BY <1>1 DEF Sent, Fields
<1> QED BY <1>2 DEF Sent, Fields

(* What a callback on the same connection relies on is kept by a command.    *)
LEMMA GivenFrame ==
    ASSUME NEW r, NEW k, ConInv(r, k), NEW s, NEW m, NEW f, FrameInv(f, r, k),
           r.status = "IDLE", k.waiting = "nothing",
           s.status = "BUSY", m.seen = k.seen,
           f.event = "CONNECTED" /\ s.pending # "NONE" =>
             s.pending = r.pending \/ m.resent
    PROVE  FrameInv(f, s, m)
<1>1. ~(f.event = "ROW_READY" /\ ~f.handled)
  BY DEF FrameInv, ConInv, WaitInv, Working, AtRow
<1>2. f.event = "CONNECTED" => r.pending = "NONE"
  BY DEF FrameInv, ConInv, WaitInv
<1> QED BY <1>1, <1>2 DEF FrameInv

LEMMA RefusedFrame ==
    ASSUME NEW r, NEW k, NEW s, NEW m, NEW f, FrameInv(f, r, k),
           r.status \in {"NOT_CONNECTED", "NET_ERROR"}, k.seen \subseteq m.seen
    PROVE  FrameInv(f, s, m)
  BY DEF FrameInv, Greeted

LEMMA CommandStep ==
    ASSUME PoolInv, NEW c \in Cons, NEW kind \in CommandKinds,
           NEW in_query \in BOOLEAN, NEW pending \in {"NONE", "QUERY", "PREPARE"},
           pending \in {"QUERY", con[c].pending},
           Give(c), Command(c, kind, in_query, pending)
    PROVE  PoolInv'
<1> DEFINE r == con[c]
           k == app[c]
<1>1. ConInv(r, k) /\ r \in Fields /\ k \in Knowledge
  BY DEF PoolInv, ConInv
<1>2. /\ commands' \in 0..MaxCommands /\ k.waiting = "nothing"
      /\ UNCHANGED <<count, phase, turn, stack, err>>
  BY PoolAssumption DEF Give, Command, PoolInv, TypeOK
<1>3. \A i \in 1..Len(stack) : stack[i].con = c => FrameInv(stack[i], r, k)
  BY DEF PoolInv
<1>4. CASE /\ r.status = "IDLE"
           /\ con' = [con EXCEPT ![c] =
                        [Sent(@, kind) EXCEPT !.in_query = in_query,
                                              !.pending = pending]]
           /\ app' = [app EXCEPT ![c] =
                        [Awaits(@, "answer") EXCEPT
                           !.resent = \/ app[c].resent
                                      \/ InConnected(c) /\ pending = "QUERY"]]
  <2> DEFINE s == [Sent(r, kind) EXCEPT !.in_query = in_query,
                                        !.pending = pending]
             m == [Awaits(k, "answer") EXCEPT
                     !.resent = \/ k.resent
                                \/ InConnected(c) /\ pending = "QUERY"]
  <2>1. con' = [con EXCEPT ![c] = s] /\ app' = [app EXCEPT ![c] = m]
    <3>1. con' = [con EXCEPT ![c] = s]
      BY <1>4
    <3>2. app' = [app EXCEPT ![c] = m]
      BY <1>4
    <3> QED BY <3>1, <3>2
  <2>2. /\ s \in Fields /\ s.status = "BUSY" /\ s.command_status = "SEND"
        /\ ~s.server_errno /\ s.owed = r.owed + 1 /\ s.pending = pending
        /\ s.last_callback = r.last_callback
    <3> DEFINE q == Sent(r, kind)
    <3>1. /\ q \in Fields /\ q.status = "BUSY" /\ q.command_status = "SEND"
          /\ ~q.server_errno /\ q.owed = r.owed + 1
          /\ q.last_callback = r.last_callback
      BY <1>1, SentFields
    <3> HIDE DEF q
    <3>2. s = [q EXCEPT !.in_query = in_query, !.pending = pending]
      BY DEF q
    <3> HIDE DEF s
    <3> QED BY <3>1, <3>2 DEF Fields
  <2>3. /\ m \in Knowledge /\ m.waiting = "answer" /\ ~m.asked
        /\ m.seen = k.seen
        /\ m.resent = (k.resent \/ (InConnected(c) /\ pending = "QUERY"))
    BY <1>1 DEF Awaits, Knowledge, InConnected
  <2> HIDE DEF s, m
  <2>4. ConInv(s, m)
    BY <1>1, <1>2, <1>4, <2>2, <2>3, GivenInv
  <2>5. ASSUME NEW i \in 1..Len(stack), stack[i].con = c
        PROVE  FrameInv(stack[i], s, m)
    <3>1. stack[i].event = "CONNECTED" => InConnected(c)
      BY <2>5 DEF InConnected, PoolInv, TypeOK
    <3>2. stack[i].event = "CONNECTED" /\ s.pending # "NONE" =>
            s.pending = r.pending \/ m.resent
      BY <2>2, <2>3, <3>1
    <3>3. FrameInv(stack[i], r, k)
      BY <1>3, <2>5
    <3> QED BY <1>1, <1>2, <1>4, <2>2, <2>3, <3>2, <3>3, GivenFrame
  <2> QED BY <1>2, <2>1, <2>4, <2>5, CallStep
<1>5. CASE /\ r.status = "NET_ERROR"
           /\ con' = [con EXCEPT ![c] =
                        [SendFailed(@) EXCEPT !.in_query = in_query,
                                              !.pending = pending]]
           /\ UNCHANGED app
  <2> DEFINE s == [SendFailed(r) EXCEPT !.in_query = in_query,
                                        !.pending = pending]
  <2>1. con' = [con EXCEPT ![c] = s] /\ app' = [app EXCEPT ![c] = k]
    BY <1>5 DEF PoolInv, TypeOK
  <2>2. /\ s \in Fields /\ s.status = r.status
        /\ s.command_status = "SEND_FAILED"
        /\ ~s.server_errno /\ s.owed = r.owed
        /\ s.last_callback = r.last_callback
    BY <1>1 DEF SendFailed, Fields
  <2> HIDE DEF s
  <2>3. ConInv(s, k)
    BY <1>1, <1>5, <2>2, RefusedInv
  <2>4. \A i \in 1..Len(stack) : stack[i].con = c => FrameInv(stack[i], s, k)
    BY <1>3, <1>5, RefusedFrame
  <2> QED BY <1>2, <2>1, <2>3, <2>4, CallStep
<1> QED BY <1>4, <1>5 DEF Command


LEMMA QueryStep == ASSUME PoolInv, NEW c \in Cons, Query(c) PROVE PoolInv'
<1>1. con[c].pending \in {"NONE", "QUERY", "PREPARE"} /\ Give(c)
  BY DEF PoolInv, TypeOK, Fields, Query
<1>2. "QUERY" \in CommandKinds
  BY DEF CommandKinds
<1>3. CASE Command(c, "QUERY", TRUE, con[c].pending)
  BY <1>1, <1>2, <1>3, CommandStep
<1>4. CASE Command(c, "QUERY", TRUE, "QUERY")
  BY <1>1, <1>2, <1>4, CommandStep
<1> QED BY <1>3, <1>4 DEF Query

LEMMA StatementStep == ASSUME PoolInv, NEW c \in Cons, Statement(c) PROVE PoolInv'
<1>1. /\ con[c].pending \in {"NONE", "QUERY", "PREPARE"}
      /\ con[c].in_query \in BOOLEAN /\ Give(c)
  BY DEF PoolInv, TypeOK, Fields, Statement
<1>2. "PREPARE" \in CommandKinds /\ "EXECUTE" \in CommandKinds
  BY DEF CommandKinds
<1>3. CASE Command(c, "PREPARE", con[c].in_query, con[c].pending)
  BY <1>1, <1>2, <1>3, CommandStep
<1>4. CASE Command(c, "EXECUTE", con[c].in_query, con[c].pending)
  BY <1>1, <1>2, <1>4, CommandStep
<1> QED BY <1>3, <1>4 DEF Statement

LEMMA QueryCloseStep ==
    ASSUME PoolInv, NEW c \in Cons, QueryClose(c)
    PROVE  PoolInv'
<1> DEFINE r == con[c]
           k == app[c]
           s == [r EXCEPT !.in_query = FALSE, !.pending = "NONE"]
<1>1. ConInv(r, k) /\ r \in Fields
  BY DEF PoolInv, ConInv
<1>2. /\ commands' \in 0..MaxCommands
      /\ UNCHANGED <<count, phase, turn, stack, err>>
  BY DEF QueryClose, PoolInv, TypeOK
<1>3. con' = [con EXCEPT ![c] = s] /\ app' = [app EXCEPT ![c] = k]
  BY DEF QueryClose, PoolInv, TypeOK
<1>4. /\ s \in Fields /\ s.status = r.status
      /\ s.command_status = r.command_status
      /\ s.server_errno = r.server_errno /\ s.owed = r.owed
      /\ s.last_callback = r.last_callback /\ s.pending = "NONE"
  BY <1>1 DEF Fields
<1> HIDE DEF s
<1>5. ConInv(s, k)
  BY <1>1, <1>4, ClosedInv
<1>6. \A i \in 1..Len(stack) : stack[i].con = c => FrameInv(stack[i], s, k)
  BY <1>4 DEF PoolInv, FrameInv, Greeted
<1> QED BY <1>2, <1>3, <1>5, <1>6, CallStep

LEMMA AddConnectionStep == ASSUME PoolInv, AddConnection PROVE PoolInv'
<1>1. /\ count \in 0..N /\ count' = count + 1 /\ count < N /\ N \in Nat
      /\ UNCHANGED <<con, app, phase, turn, stack, err, commands>>
  BY PoolAssumption DEF PoolInv, TypeOK, AddConnection
<1>2. TypeOK'
  BY <1>1 DEF PoolInv, TypeOK
<1>3. StackInv'
  <2>1. ASSUME NEW i \in 1..Len(stack), stack[i].from = "poll"
        PROVE  /\ i = 1 /\ phase = "poll" /\ turn = stack[i].con
               /\ turn <= count + 1
    <3>1. turn \in 0..(N + 1) /\ turn <= count
      BY <2>1 DEF PoolInv, TypeOK, StackInv
    <3>2. turn <= count + 1
      BY <1>1, <3>1
    <3> QED BY <2>1, <3>2 DEF PoolInv, StackInv
  <2> QED BY <1>1, <2>1 DEF StackInv
<1>4. TurnInv'
  BY <1>1 DEF PoolInv, TurnInv
<1> QED BY <1>1, <1>2, <1>3, <1>4 DEF PoolInv

LEMMA PushFacts ==
    ASSUME NEW S, NEW t \in Seq(S), NEW f \in S
    PROVE  /\ Append(t, f) \in Seq(S) /\ Append(t, f) # << >>
           /\ Len(t) \in Nat
           /\ 1..Len(Append(t, f)) = 1..Len(t) \union {Len(t) + 1}
           /\ \A i \in 1..Len(t) : Append(t, f)[i] = t[i]
           /\ Append(t, f)[Len(t) + 1] = f
  OBVIOUS

LEMMA ConnectStep == ASSUME PoolInv, NEW c \in Cons, Connect(c) PROVE PoolInv'
<1> DEFINE r == con[c]
           k == app[c]
<1>1. ConInv(r, k) /\ r \in Fields /\ k \in Knowledge
      /\ r.status = "NOT_CONNECTED" /\ AppRuns
  BY DEF PoolInv, ConInv, Connect, Give
<1>2. /\ commands' \in 0..MaxCommands /\ c \in 1..N
      /\ UNCHANGED <<count, phase, turn, err>>
  BY PoolAssumption DEF Connect, Give, PoolInv, TypeOK, Cons
<1> DEFINE g(p) == [r EXCEPT !.pending = p, !.in_query = @ \/ p = "QUERY"]
           h(p) == Awaits(k, IF p = "NONE" THEN "connection" ELSE "answer")
           frame == [con |-> c, event |-> "ERROR", from |-> "connect",
                     error |-> c, handled |-> FALSE]
<1>3. PICK p \in {"NONE", "QUERY", "PREPARE"} :
        \/ /\ con' = [con EXCEPT ![c] = [g(p) EXCEPT !.status = "CONNECTING"]]
           /\ app' = [app EXCEPT ![c] = h(p)]
           /\ UNCHANGED stack
        \/ /\ con' = [con EXCEPT ![c] = [g(p) EXCEPT
                        !.status = "CONNECT_FAILED", !.last_callback = "ERROR"]]
           /\ app' = [app EXCEPT ![c] = Learn(h(p), "ERROR")]
           /\ stack' = Append(stack, frame)
  BY DEF Connect
<1>4. /\ g(p) \in Fields /\ g(p).pending = p
      /\ g(p).command_status = r.command_status
      /\ g(p).server_errno = r.server_errno /\ g(p).owed = r.owed
      /\ g(p).last_callback = r.last_callback
  BY <1>1 DEF Fields
<1>5. /\ h(p) \in Knowledge /\ ~h(p).asked /\ h(p).seen = k.seen
      /\ h(p).resent = k.resent
      /\ h(p).waiting = IF p = "NONE" THEN "connection" ELSE "answer"
  BY <1>1 DEF Knowledge, Awaits
<1> HIDE DEF g, h
<1>6. \A i \in 1..Len(stack) : stack[i].con = c => FrameInv(stack[i], r, k)
  BY DEF PoolInv
<1>7. CASE /\ con' = [con EXCEPT ![c] = [g(p) EXCEPT !.status = "CONNECTING"]]
           /\ app' = [app EXCEPT ![c] = h(p)]
           /\ UNCHANGED stack
  <2> DEFINE s == [g(p) EXCEPT !.status = "CONNECTING"]
  <2>1. /\ s \in Fields /\ s.status = "CONNECTING" /\ s.pending = p
        /\ s.command_status = r.command_status
        /\ s.server_errno = r.server_errno /\ s.owed = r.owed
        /\ s.last_callback = r.last_callback
    BY <1>4 DEF Fields
  <2>2. con' = [con EXCEPT ![c] = s]
    BY <1>7
  <2> HIDE DEF s
  <2>3. ConInv(s, h(p))
    BY <1>1, <1>5, <2>1, ConnectingInv
  <2>4. \A i \in 1..Len(stack) : stack[i].con = c => FrameInv(stack[i], s, h(p))
    BY <1>1, <1>5, <1>6, RefusedFrame
  <2> QED BY <1>2, <1>7, <2>2, <2>3, <2>4, CallStep
<1>8. CASE /\ con' = [con EXCEPT ![c] = [g(p) EXCEPT
                        !.status = "CONNECT_FAILED", !.last_callback = "ERROR"]]
           /\ app' = [app EXCEPT ![c] = Learn(h(p), "ERROR")]
           /\ stack' = Append(stack, frame)
  <2> DEFINE s == [g(p) EXCEPT !.status = "CONNECT_FAILED",
                               !.last_callback = "ERROR"]
             m == Learn(h(p), "ERROR")
  <2>1. /\ s \in Fields /\ s.status = "CONNECT_FAILED"
        /\ s.command_status = r.command_status
        /\ s.server_errno = r.server_errno /\ s.owed = r.owed
        /\ s.last_callback = "ERROR"
    BY <1>4 DEF Fields, Events
  <2>2. /\ m \in Knowledge /\ ~m.asked /\ m.seen = k.seen \union {"ERROR"}
        /\ m.resent = k.resent
    BY <1>5 DEF Learn, Knowledge, Events
  <2>3. con' = [con EXCEPT ![c] = s] /\ app' = [app EXCEPT ![c] = m]
    BY <1>8
  <2> HIDE DEF s, m
  <2>4. ConInv(s, m)
    BY <1>1, <2>1, <2>2, ConnectFailsInv
  <2>5. /\ con' \in [Cons -> Fields] /\ app' \in [Cons -> Knowledge]
        /\ \A d \in Cons : ConInv(con'[d], app'[d])
        /\ con'[c] = s /\ app'[c] = m
        /\ \A d \in Cons \ {c} : con'[d] = con[d] /\ app'[d] = app[d]
    BY <2>3, <2>4, OneChanged
  <2>6. \A i \in 1..Len(stack) :
          FrameInv(stack[i], con'[stack[i].con], app'[stack[i].con])
    <3>1. \A i \in 1..Len(stack) : stack[i].con = c => FrameInv(stack[i], s, m)
      BY <1>1, <1>6, <2>2, RefusedFrame
    <3> QED BY <2>5, <3>1, FramesChanged
  <2>7. frame \in Frame /\ frame.con = c /\ frame.event = "ERROR"
        /\ frame.from = "connect" /\ frame.error = c
    BY <1>2 DEF Frame, Events, Cons
  <2>8. FrameInv(frame, con'[frame.con], app'[frame.con])
    BY <2>2, <2>5, <2>7 DEF FrameInv
  <2> HIDE DEF frame
  <2>9. /\ stack' \in Seq(Frame) /\ stack' # << >> /\ Len(stack) \in Nat
        /\ 1..Len(stack') = 1..Len(stack) \union {Len(stack) + 1}
        /\ \A i \in 1..Len(stack) : stack'[i] = stack[i]
        /\ stack'[Len(stack) + 1] = frame
    BY <1>8, <2>7, PushFacts DEF PoolInv, TypeOK
  <2>10. TypeOK'
    BY <1>2, <2>5, <2>9 DEF PoolInv, TypeOK
  <2>11. \A i \in 1..Len(stack') :
           FrameInv(stack'[i], con'[stack'[i].con], app'[stack'[i].con])
    BY <2>6, <2>8, <2>9
  <2>12. StackInv'
    BY <1>2, <2>7, <2>9 DEF PoolInv, StackInv
  <2>13. TurnInv'
    <3>1. phase # "loop" /\ (phase = "poll" => stack # << >>)
      BY <1>1 DEF AppRuns, PoolInv, TurnInv
    <3>2. phase = "poll" => stack'[1].from = "poll"
      <4> SUFFICES ASSUME phase = "poll" PROVE stack'[1].from = "poll"
        OBVIOUS
      <4>1. stack \in Seq(Frame) /\ stack # << >> /\ stack[1].from = "poll"
        BY <3>1 DEF PoolInv, TypeOK, TurnInv
      <4>2. 1 \in 1..Len(stack)
        BY <4>1, EmptySeq, LenProperties
      <4> QED BY <2>9, <4>1, <4>2
    <3> QED BY <1>2, <2>9, <3>1, <3>2 DEF PoolInv, TurnInv
  <2> QED BY <2>5, <2>10, <2>11, <2>12, <2>13 DEF PoolInv
<1> QED BY <1>3, <1>7, <1>8


-----------------------------------------------------------------------------
(* Rows and the loop                                                         *)

LEMMA LeftInv ==
    ASSUME NEW r, NEW k, ConInv(r, k), NEW n \in Nat
    PROVE  /\ ConInv([r EXCEPT !.left = n], k)
           /\ [r EXCEPT !.left = n].status = r.status
<1> DEFINE s == [r EXCEPT !.left = n]
<1>1. r \in Fields
  BY DEF ConInv
<1>2. /\ s \in Fields /\ s.status = r.status
      /\ s.command_status = r.command_status
      /\ s.server_errno = r.server_errno /\ s.owed = r.owed
      /\ s.last_callback = r.last_callback /\ s.pending = r.pending
  BY <1>1 DEF Fields
<1> HIDE DEF s
<1>3. OwedInv(s, k)
  BY <1>2 DEF ConInv, OwedInv, Working, AtRow
<1>4. ErrnoInv(s) /\ WaitInv(s, k)
  BY <1>2 DEF ConInv, ErrnoInv, WaitInv, Working, AtRow, Greeted
<1>5. HeardInv(s, k)
  BY <1>2 DEF ConInv, HeardInv, Greeted
<1>6. AskedInv(s, k)
  BY <1>2 DEF ConInv, AskedInv
<1>7. ConInv(s, k)
  BY <1>2, <1>3, <1>4, <1>5, <1>6 DEF ConInv
<1> QED BY <1>2, <1>7 DEF s

(* An answer that is waited for goes on with a row, an end or an error.      *)
LEMMA NextRowInv ==
    ASSUME NEW r, NEW k, ConInv(r, k), NEW m \in Knowledge,
           \/ r.status = "BUSY"
           \/ r.status = "IDLE" /\ r.command_status = "READ_ROW",
           m.waiting = k.waiting, m.asked = k.asked, m.seen = k.seen,
           m.resent = k.resent
    PROVE  /\ ConInv(NextRow(r), m)
           /\ r.status = "BUSY" => ConInv(Refused(r), m)
<1>1. r \in Fields /\ r.owed \in Nat /\ r.left \in Nat
  BY DEF ConInv, Fields
<1>2. r.owed > 0
  BY DEF ConInv, OwedInv, Working, AtRow
<1>3. r.owed - 1 \in Nat
  BY <1>1, <1>2
<1>4. ~r.server_errno \/ r.status = "BUSY"
  BY DEF ConInv, ErrnoInv
<1>5. ConInv(Ended(r), m)
  <2> DEFINE s == Ended(r)
  <2>1. /\ s \in Fields /\ s.status = "IDLE" /\ s.command_status = "EOF"
        /\ s.server_errno = r.server_errno /\ s.owed = r.owed - 1
        /\ s.last_callback = r.last_callback
    BY <1>1, <1>3 DEF Ended, Fields
  <2> HIDE DEF s
  <2>2. ConInv(s, m)
    BY <1>4, <2>1, EndedInv
  <2> QED BY <2>2 DEF s
<1>6. ASSUME r.status = "BUSY" PROVE ConInv(Refused(r), m)
  <2> DEFINE s == Refused(r)
  <2>1. /\ s \in Fields /\ s.status = "IDLE" /\ s.command_status = "EOF"
        /\ s.owed = r.owed - 1 /\ s.last_callback = r.last_callback
    BY <1>1, <1>3 DEF Refused, Fields
  <2> HIDE DEF s
  <2>2. ConInv(s, m)
    BY <1>6, <2>1, EndedInv
  <2> QED BY <2>2 DEF s
<1>7. CASE r.left # 0
  <2> DEFINE s == [r EXCEPT !.status = "IDLE",
                            !.command_status = "ROW_IN_BUFFER",
                            !.left = r.left - 1]
  <2>1. r.left - 1 \in Nat
    BY <1>1, <1>7
  <2>2. /\ s \in Fields /\ s.status = "IDLE"
        /\ s.command_status = "ROW_IN_BUFFER"
        /\ s.server_errno = r.server_errno /\ s.owed = r.owed
        /\ s.last_callback = r.last_callback
    BY <1>1, <2>1 DEF Fields
  <2>3. NextRow(r) = s
    BY <1>7 DEF NextRow
  <2> HIDE DEF s
  <2>4. ConInv(s, m)
    BY <2>2, RowInv
  <2> QED BY <1>6, <2>3, <2>4
<1>8. CASE r.left = 0
  BY <1>5, <1>6, <1>8 DEF NextRow
<1> QED BY <1>7, <1>8

(* The callback that runs is one of the poll, and the only one, unless it    *)
(* was called by attachsql_connect.                                          *)
LEMMA TopFacts ==
    ASSUME PoolInv, stack # << >>
    PROVE  /\ Len(stack) \in Nat \ {0} /\ Top \in Frame /\ Top.con \in Cons
           /\ Top.event \in Events
           /\ FrameInv(Top, con[Top.con], app[Top.con])
           /\ Top.from = "poll" => /\ Len(stack) = 1 /\ phase = "poll"
                                   /\ turn = Top.con /\ turn <= count
           /\ Top.event # "ERROR" => Top.from = "poll"
<1>1. stack \in Seq(Frame)
  BY DEF PoolInv, TypeOK
<1>2. Len(stack) \in Nat \ {0}
  BY <1>1, EmptySeq, LenProperties
<1>3. Len(stack) \in 1..Len(stack)
  BY <1>2
<1>4. Top \in Frame
  BY <1>1, <1>3, ElementOfSeq DEF Top
<1>5. Top.con \in Cons /\ Top.event \in Events /\ Top.from \in {"poll", "connect"}
  BY <1>4 DEF Frame
<1>6. FrameInv(Top, con[Top.con], app[Top.con])
  BY <1>3 DEF PoolInv, Top
<1>7. Top.from = "poll" => /\ Len(stack) = 1 /\ phase = "poll"
                           /\ turn = Top.con /\ turn <= count
  BY <1>3 DEF PoolInv, StackInv, Top
<1> QED BY <1>2, <1>4, <1>5, <1>6, <1>7 DEF FrameInv

LEMMA RowNextStep == ASSUME PoolInv, RowNext PROVE PoolInv'
<1> DEFINE c == Top.con
           r == con[c]
           k == app[c]
           q == [r EXCEPT !.last_callback = Forget(r),
                          !.command_status = "READ_ROW"]
           m == [k EXCEPT !.told = FALSE, !.asked = r.command = "QUERY"]
<1>1. /\ stack # << >> /\ Top.event = "ROW_READY" /\ ~Top.handled
      /\ UNCHANGED <<count, phase, turn, err, commands>>
  BY DEF RowNext
<1>2. /\ c \in Cons /\ Len(stack) = 1 /\ phase = "poll"
      /\ turn = c /\ turn <= count /\ FrameInv(Top, r, k) /\ Top \in Frame
      /\ Top.from = "poll"
  BY <1>1, TopFacts
<1>3. r.status = "IDLE" /\ r.command_status = "ROW_IN_BUFFER"
  BY <1>1, <1>2 DEF FrameInv
<1>4. ConInv(r, k) /\ r \in Fields /\ k \in Knowledge
  BY <1>2 DEF PoolInv, ConInv
<1>5. /\ \E s \in {q, NextRow(q)} : con' = [con EXCEPT ![c] = s]
      /\ app' = [app EXCEPT ![c] = m]
  <2>1. \E s \in {q, NextRow(q)} : con' = [con EXCEPT ![c] = s]
    BY DEF RowNext
  <2>2. app' = [app EXCEPT ![c] = m]
    BY <1>2 DEF RowNext, PoolInv, TypeOK, Knowledge
  <2> QED BY <2>1, <2>2
<1>6. /\ q \in Fields /\ q.status = "IDLE" /\ q.command_status = "READ_ROW"
      /\ q.server_errno = r.server_errno /\ q.owed = r.owed
      /\ q.last_callback = Forget(r)
  BY <1>3, <1>4 DEF Fields, Forget
<1>7. /\ m \in Knowledge /\ m.asked = (r.command = "QUERY")
      /\ m.waiting = k.waiting /\ m.seen = k.seen /\ m.resent = k.resent
  BY <1>4 DEF Knowledge
<1> HIDE DEF c, q, m, r, k
<1>8. ConInv(q, m)
  BY <1>3, <1>4, <1>6, <1>7, RowAskedInv DEF Forget
<1>9. ConInv(NextRow(q), m)
  BY <1>6, <1>7, <1>8, NextRowInv
<1>10. PICK s \in {q, NextRow(q)} : con' = [con EXCEPT ![c] = s]
  BY <1>5
<1>11. ConInv(s, m)
  BY <1>8, <1>9
<1>12. /\ con' \in [Cons -> Fields] /\ app' \in [Cons -> Knowledge]
       /\ \A d \in Cons : ConInv(con'[d], app'[d])
       /\ con'[c] = s /\ app'[c] = m
  BY <1>2, <1>5, <1>10, <1>11, OneChanged
<1> DEFINE f == [Top EXCEPT !.handled = TRUE]
<1>13. /\ f \in Frame /\ f.con = Top.con /\ f.event = "ROW_READY" /\ f.handled
       /\ f.from = "poll" /\ f.error = Top.error
  BY <1>1, <1>2 DEF Frame
<1>14. /\ stack' \in Seq(Frame) /\ Len(stack') = 1 /\ stack'[1] = f
  <2>1. stack \in Seq(Frame) /\ stack[1] = Top
    BY <1>2 DEF PoolInv, TypeOK, Top
  <2>2. stack' = [stack EXCEPT ![1] = f]
    BY <1>2, <2>1 DEF RowNext
  <2> HIDE DEF f
  <2>3. 1 \in 1..Len(stack) /\ f \in Frame
    BY <1>2, <1>13
  <2>4. /\ [stack EXCEPT ![1] = f] \in Seq(Frame)
        /\ Len([stack EXCEPT ![1] = f]) = Len(stack)
        /\ [stack EXCEPT ![1] = f][1] = f
    BY <2>1, <2>3, ExceptSeq
  <2> QED BY <1>2, <2>2, <2>4
<1> HIDE DEF f
<1>15. FrameInv(f, con'[f.con], app'[f.con])
  <2>1. FrameInv(f, s, m)
    BY <1>1, <1>2, <1>7, <1>13 DEF FrameInv, c, r, k
  <2> QED BY <1>12, <1>13, <2>1 DEF c
<1>16. TypeOK'
  BY <1>1, <1>12, <1>14 DEF PoolInv, TypeOK
<1>17. StackInv'
  BY <1>1, <1>2, <1>13, <1>14 DEF StackInv, c
<1>18. TurnInv'
  <2>1. stack' # << >>
    BY <1>14
  <2> QED BY <1>1, <1>2, <1>13, <1>14, <2>1 DEF PoolInv, TurnInv
<1>19. \A i \in 1..Len(stack') :
         FrameInv(stack'[i], con'[stack'[i].con], app'[stack'[i].con])
  BY <1>14, <1>15
<1> QED BY <1>12, <1>16, <1>17, <1>18, <1>19 DEF PoolInv

LEMMA ArrivesStep ==
    ASSUME PoolInv, NEW c \in Cons, NEW records, Arrives(c, records),
           \A s \in records, m \in Knowledge :
             /\ m.waiting = app[c].waiting /\ m.asked = app[c].asked
             /\ m.seen = app[c].seen /\ m.resent = app[c].resent
             => ConInv(s, m)
    PROVE  PoolInv'
<1>1. /\ phase = "loop" /\ stack = << >>
      /\ UNCHANGED <<count, phase, turn, stack, err>>
      /\ commands' \in 0..MaxCommands
  BY DEF Arrives, PoolInv, TypeOK, TurnInv
<1> DEFINE m == [app[c] EXCEPT !.told = FALSE]
<1>2. app[c] \in Knowledge
  BY DEF PoolInv, TypeOK
<1>3. /\ m \in Knowledge /\ m.waiting = app[c].waiting
      /\ m.asked = app[c].asked /\ m.seen = app[c].seen
      /\ m.resent = app[c].resent
  BY <1>2 DEF Knowledge
<1>4. app' = [app EXCEPT ![c] = m]
  BY DEF Arrives, PoolInv, TypeOK, Knowledge
<1> HIDE DEF m
<1>5. PICK s \in records : con' = [con EXCEPT ![c] = s]
  BY DEF Arrives
<1>6. ConInv(s, m)
  BY <1>3
<1>7. \A i \in 1..Len(stack) : stack[i].con = c => FrameInv(stack[i], s, m)
  BY <1>1
<1> QED BY <1>1, <1>4, <1>5, <1>6, <1>7, CallStep


LEMMA LoopStep == ASSUME PoolInv, Loop PROVE PoolInv'
<1>1. PICK c \in Cons : \/ LoopConnect(c) \/ LoopAnswer(c) \/ LoopRow(c)
                        \/ LoopNetError(c)
  BY DEF Loop
<1> DEFINE r == con[c]
           k == app[c]
<1>2. ConInv(r, k) /\ r \in Fields
  BY DEF PoolInv, ConInv
<1> DEFINE Same(m) == /\ m.waiting = k.waiting /\ m.asked = k.asked
                      /\ m.seen = k.seen /\ m.resent = k.resent
<1>3. CASE LoopConnect(c)
  <2> DEFINE s == [r EXCEPT !.status = "IDLE", !.command_status = "CONNECTED"]
             t == [r EXCEPT !.status = "CONNECT_FAILED"]
  <2>1. r.status = "CONNECTING" /\ Arrives(c, {s, t})
    BY <1>3 DEF LoopConnect
  <2>2. /\ s \in Fields /\ s.status = "IDLE" /\ s.command_status = "CONNECTED"
        /\ s.server_errno = r.server_errno /\ s.owed = r.owed
        /\ s.pending = r.pending /\ s.last_callback = r.last_callback
    BY <1>2 DEF Fields
  <2>3. /\ t \in Fields /\ t.status = "CONNECT_FAILED"
        /\ t.command_status = r.command_status
        /\ t.server_errno = r.server_errno /\ t.owed = r.owed
        /\ t.pending = r.pending /\ t.last_callback = r.last_callback
    BY <1>2 DEF Fields
  <2> HIDE DEF s, t, r, k
  <2>4. \A m \in Knowledge : Same(m) => ConInv(s, m) /\ ConInv(t, m)
    BY <1>2, <2>1, <2>2, <2>3, ConnectedInv
  <2> QED BY <2>1, <2>4, ArrivesStep DEF r, k
<1>4. CASE LoopAnswer(c)
  <2>1. r.status = "BUSY" /\ Arrives(c, FirstOf(r))
    BY <1>4 DEF LoopAnswer
  <2>2. ASSUME NEW s \in FirstOf(r), NEW m \in Knowledge, Same(m)
        PROVE  ConInv(s, m)
    <3>1. CASE s = Refused(r)
      BY <1>2, <2>1, <2>2, <3>1, NextRowInv
    <3>2. ASSUME NEW n \in Nat, s = NextRow([r EXCEPT !.left = n])
          PROVE  ConInv(s, m)
      <4> DEFINE q == [r EXCEPT !.left = n]
      <4>1. ConInv(q, k) /\ q.status = "BUSY"
        BY <1>2, <2>1, LeftInv
      <4> HIDE DEF q
      <4>2. ConInv(NextRow(q), m)
        BY <2>2, <4>1, NextRowInv
      <4> QED BY <3>2, <4>2 DEF q
    <3>3. s = Refused(r) \/ \E n \in Nat : s = NextRow([r EXCEPT !.left = n])
      BY <2>2, PoolAssumption DEF FirstOf
    <3> QED BY <3>1, <3>2, <3>3
  <2> HIDE DEF r, k
  <2> QED BY <2>1, <2>2, ArrivesStep DEF r, k
<1>5. CASE LoopRow(c)
  <2>1. /\ r.status = "IDLE" /\ r.command_status = "READ_ROW"
        /\ Arrives(c, {NextRow(r)})
    BY <1>5 DEF LoopRow
  <2> HIDE DEF r, k
  <2>2. \A m \in Knowledge : Same(m) => ConInv(NextRow(r), m)
    BY <1>2, <2>1, NextRowInv
  <2> QED BY <2>1, <2>2, ArrivesStep DEF r, k
<1>6. CASE LoopNetError(c)
  <2> DEFINE s == [r EXCEPT !.status = "NET_ERROR",
                            !.command_status = "READ_FAILED"]
  <2>1. r.status \in {"CONNECTING", "BUSY", "IDLE"} /\ Arrives(c, {s})
    BY <1>6 DEF LoopNetError
  <2>2. /\ s \in Fields /\ s.status = "NET_ERROR"
        /\ s.command_status = "READ_FAILED"
        /\ s.owed = r.owed /\ s.last_callback = r.last_callback
    BY <1>2 DEF Fields
  <2> HIDE DEF s, r, k
  <2>3. \A m \in Knowledge : Same(m) => ConInv(s, m)
    BY <1>2, <2>1, <2>2, NetErrorInv
  <2> QED BY <2>1, <2>3, ArrivesStep DEF r, k
<1> QED BY <1>1, <1>3, <1>4, <1>5, <1>6

(* The pool is run, the loop has returned, the last connection was polled.   *)
LEMMA RunStep ==
    ASSUME PoolInv, Run \/ LoopEnd \/ RunEnd
    PROVE  PoolInv'
<1>1. N \in Nat /\ 1 \in 0..(N + 1) /\ 0 \in 0..(N + 1) /\ 0 \in 0..N
  BY PoolAssumption
<1>2. UNCHANGED <<count, con, app, stack, commands>> /\ stack = << >>
  BY DEF Run, LoopEnd, RunEnd, PoolInv, TurnInv
<1>3. TypeOK'
  BY <1>1 DEF PoolInv, TypeOK, Run, LoopEnd, RunEnd
<1>4. StackInv'
  BY <1>2 DEF StackInv
<1>5. TurnInv'
  <2>1. CASE Run
    BY <1>2, <2>1 DEF Run, TurnInv
  <2>2. CASE LoopEnd
    BY <1>2, <2>2 DEF LoopEnd, TurnInv, PoolInv
  <2>3. CASE RunEnd
    BY <1>2, <2>3 DEF RunEnd, TurnInv
  <2> QED BY <2>1, <2>2, <2>3
<1> QED BY <1>2, <1>3, <1>4, <1>5 DEF PoolInv


-----------------------------------------------------------------------------
(* Polling                                                                   *)

(* What poll does after an event, also if its callback was passed over.      *)
LEMMA AfterInv ==
    ASSUME NEW r, NEW k, ConInv(r, k), NEW event, event \in k.seen,
           event = "EOF" => \/ r.status = "BUSY"
                            \/ r.status = "IDLE" /\ r.command_status = "EOF",
           event = "CONNECTED" => \/ Greeted(r)
                                  \/ /\ r.status = "BUSY"
                                     /\ r.pending # "NONE" => k.resent
    PROVE  ConInv(After(r, event), k)
<1>1. r \in Fields
  BY DEF ConInv
<1>2. CASE event = "EOF"
  <2> DEFINE s == [r EXCEPT !.command_status = "EOF"]
  <2>1. /\ s \in Fields /\ s.status = r.status /\ s.command_status = "EOF"
        /\ s.server_errno = r.server_errno /\ s.owed = r.owed
        /\ s.last_callback = r.last_callback
    BY <1>1 DEF Fields
  <2>2. After(r, event) = s
    BY <1>2 DEF After
  <2> HIDE DEF s
  <2> QED BY <1>2, <2>1, <2>2, AfterEofInv
<1>3. CASE event = "CONNECTED" /\ r.pending # "NONE"
  <2> DEFINE s == Sent(r, r.pending)
  <2>1. r.pending \in CommandKinds
    BY <1>1, <1>3 DEF Fields, CommandKinds
  <2>2. /\ s \in Fields /\ s.status = "BUSY" /\ s.command_status = "SEND"
        /\ ~s.server_errno /\ s.owed = r.owed + 1
        /\ s.last_callback = r.last_callback
    BY <1>1, <2>1, SentFields
  <2>3. After(r, event) = s
    BY <1>3 DEF After
  <2> HIDE DEF s
  <2> QED BY <1>3, <2>2, <2>3, AfterConnectedInv
<1>4. CASE event # "EOF" /\ ~(event = "CONNECTED" /\ r.pending # "NONE")
  BY <1>4 DEF After
<1> QED BY <1>2, <1>3, <1>4

LEMMA DeliverStep ==
    ASSUME PoolInv, NEW c \in Cons, NEW event \in Events, NEW error \in 0..N,
           Polls(c), Tells(con[c], event), Deliver(c, event, "poll", error),
           error = c \/ (event # "ERROR" /\ error < c),
           UNCHANGED <<count, phase, commands, turn>>, err' \in {err, c}
    PROVE  PoolInv'
<1> DEFINE r == con[c]
           k == app[c]
           s == [r EXCEPT !.last_callback = event]
           m == Learn(k, event)
           f == [con |-> c, event |-> event, from |-> "poll", error |-> error,
                 handled |-> FALSE]
<1>1. /\ phase = "poll" /\ stack = << >> /\ turn = c /\ c <= count
      /\ N \in Nat /\ c \in 1..N /\ err \in 0..N /\ err < turn
  BY PoolAssumption DEF Polls, Cons, PoolInv, TypeOK, TurnInv
<1>2. ConInv(r, k) /\ r \in Fields /\ k \in Knowledge
  BY DEF PoolInv, ConInv
<1>3. con' = [con EXCEPT ![c] = s] /\ app' = [app EXCEPT ![c] = m]
      /\ stack' = << f >>
  BY <1>1 DEF Deliver, PoolInv, TypeOK, Fields
<1>4. /\ s \in Fields /\ s.status = r.status
      /\ s.command_status = r.command_status
      /\ s.server_errno = r.server_errno /\ s.owed = r.owed
      /\ s.pending = r.pending /\ s.last_callback = event
  BY <1>2 DEF Fields
<1>5. /\ m \in Knowledge /\ m.told /\ m.seen = k.seen \union {event}
      /\ m.waiting = IF \/ event \in {"EOF", "ERROR"}
                        \/ event = "CONNECTED" /\ k.waiting = "connection"
                       THEN "nothing" ELSE k.waiting
      /\ m.asked = k.asked /\ m.resent = k.resent
  BY <1>2 DEF Learn, Knowledge, Events
<1>6. /\ f \in Frame /\ f.con = c /\ f.event = event /\ f.from = "poll"
      /\ f.error = error
  BY DEF Frame
<1> HIDE DEF s, m, f
<1>7. ConInv(s, m)
  BY <1>2, <1>4, <1>5, ToldInv
<1>8. /\ con' \in [Cons -> Fields] /\ app' \in [Cons -> Knowledge]
      /\ \A d \in Cons : ConInv(con'[d], app'[d])
      /\ con'[c] = s /\ app'[c] = m
  BY <1>3, <1>7, OneChanged
<1>9. /\ stack' \in Seq(Frame) /\ Len(stack') = 1 /\ stack'[1] = f
      /\ stack' # << >>
  BY <1>3, <1>6
<1>10. FrameInv(f, con'[f.con], app'[f.con])
  <2>1. FrameInv(f, s, m)
    BY <1>4, <1>5, <1>6 DEF Tells, FrameInv, Greeted
  <2> QED BY <1>6, <1>8, <2>1
<1>11. err' \in 0..N /\ err' <= turn
  BY <1>1
<1>12. TypeOK'
  BY <1>8, <1>9, <1>11 DEF PoolInv, TypeOK
<1>13. StackInv'
  BY <1>1, <1>6, <1>9 DEF StackInv
<1>14. TurnInv'
  BY <1>1, <1>6, <1>9, <1>11 DEF TurnInv
<1>15. \A i \in 1..Len(stack') :
         FrameInv(stack'[i], con'[stack'[i].con], app'[stack'[i].con])
  BY <1>9, <1>10
<1> QED BY <1>8, <1>12, <1>13, <1>14, <1>15 DEF PoolInv

(* The turn passes to the next connection and no callback is running.        *)
LEMMA TurnPasses ==
    ASSUME PoolInv, con' \in [Cons -> Fields], app' \in [Cons -> Knowledge],
           \A d \in Cons : ConInv(con'[d], app'[d]),
           phase = "poll", turn <= count, turn' = turn + 1, stack' = << >>,
           UNCHANGED <<count, phase, commands>>, err' \in 0..N, err' <= turn
    PROVE  PoolInv'
<1>1. N \in Nat /\ turn \in 0..(N + 1) /\ count \in 0..N
  BY PoolAssumption DEF PoolInv, TypeOK
<1>2. turn' \in 0..(N + 1) /\ err' <= turn' /\ err' < turn'
  BY <1>1
<1>3. << >> \in Seq(Frame)
  BY EmptySeq
<1>4. TypeOK'
  BY <1>2, <1>3 DEF PoolInv, TypeOK
<1>5. StackInv' /\ TurnInv'
  BY <1>2 DEF StackInv, TurnInv
<1> QED BY <1>4, <1>5 DEF PoolInv

LEMMA AnnounceStep ==
    ASSUME PoolInv, NEW c \in Cons, NEW event \in Events, NEW error \in 0..N,
           Polls(c), Tells(con[c], event), Announce(c, event, error),
           error = c \/ (event # "ERROR" /\ error < c), err' \in {err, c}
    PROVE  PoolInv'
<1> DEFINE r == con[c]
           k == app[c]
<1>1. /\ phase = "poll" /\ stack = << >> /\ turn = c /\ c <= count
      /\ N \in Nat /\ c \in 1..N /\ err \in 0..N /\ err < turn
      /\ UNCHANGED <<count, phase, commands>>
  BY PoolAssumption DEF Polls, Cons, PoolInv, TypeOK, TurnInv, Announce
<1>2. ConInv(r, k) /\ r \in Fields /\ k \in Knowledge
  BY DEF PoolInv, ConInv
<1>3. CASE Deliver(c, event, "poll", error) /\ UNCHANGED turn
  BY <1>1, <1>3, DeliverStep
<1>4. CASE /\ Duplicate(c, event)
           /\ con' = [con EXCEPT ![c] = After(@, event)]
           /\ app' = [app EXCEPT ![c].missed = IF app[c].told THEN @
                                                 ELSE @ \union {event}]
           /\ turn' = turn + 1
           /\ UNCHANGED stack
  <2> DEFINE s == After(r, event)
             m == [k EXCEPT !.missed = IF k.told THEN @ ELSE @ \union {event}]
  <2>1. con' = [con EXCEPT ![c] = s] /\ app' = [app EXCEPT ![c] = m]
    BY <1>4 DEF PoolInv, TypeOK
  <2>2. event \in k.seen
    BY <1>2, <1>4 DEF Duplicate, ConInv, HeardInv, Events
  <2>3. ConInv(s, k)
    BY <1>2, <2>2, AfterInv DEF Tells
  <2>4. /\ m \in Knowledge /\ m.waiting = k.waiting /\ m.told = k.told
        /\ m.asked = k.asked /\ m.seen = k.seen /\ m.resent = k.resent
    BY <1>2 DEF Knowledge
  <2> HIDE DEF s, m
  <2>5. ConInv(s, m)
    BY <2>3, <2>4, SameInv
  <2>6. /\ con' \in [Cons -> Fields] /\ app' \in [Cons -> Knowledge]
        /\ \A d \in Cons : ConInv(con'[d], app'[d])
    BY <2>1, <2>5, OneChanged
  <2>7. err' \in 0..N /\ err' <= turn
    BY <1>1
  <2> QED BY <1>1, <1>4, <2>6, <2>7, TurnPasses
<1> QED BY <1>3, <1>4 DEF Announce

LEMMA PollStep == ASSUME PoolInv, NEW c \in Cons, Poll(c) PROVE PoolInv'
<1>1. /\ N \in Nat /\ c \in 1..N /\ c \in 0..N /\ err \in 0..N
      /\ con \in [Cons -> Fields] /\ app \in [Cons -> Knowledge]
      /\ \A d \in Cons : ConInv(con[d], app[d])
  BY PoolAssumption DEF Cons, PoolInv, TypeOK
<1>2. Polls(c) => /\ phase = "poll" /\ stack = << >> /\ turn = c /\ c <= count
                  /\ err < c
  BY DEF Polls, PoolInv, TurnInv
<1>3. CASE PollQuiet(c) \/ PollLost(c)
  <2>1. /\ Polls(c) /\ turn' = turn + 1
        /\ UNCHANGED <<count, con, app, phase, stack, err, commands>>
    BY <1>3 DEF PollQuiet, PollLost
  <2>2. err' \in 0..N /\ err' <= turn
    BY <1>1, <1>2, <2>1
  <2> QED BY <1>1, <1>2, <2>1, <2>2, TurnPasses
<1>4. CASE PollError(c)
  <2>1. Polls(c) /\ Tells(con[c], "ERROR") /\ Announce(c, "ERROR", c) /\ err' = c
    BY <1>4 DEF PollError, Tells
  <2>2. "ERROR" \in Events
    BY DEF Events
  <2> QED BY <1>1, <2>1, <2>2, AnnounceStep
<1>5. ASSUME NEW event \in {"EOF", "ROW_READY", "CONNECTED"}, Polls(c),
             Tells(con[c], event), Announce(c, event, err), UNCHANGED err
      PROVE  PoolInv'
  <2>1. event \in Events /\ event # "ERROR"
    BY <1>5 DEF Events
  <2> QED BY <1>1, <1>2, <1>5, <2>1, AnnounceStep
<1>6. CASE PollEof(c)
  BY <1>5, <1>6 DEF PollEof, IdleWith, Tells
<1>7. CASE PollRow(c)
  BY <1>5, <1>7 DEF PollRow, IdleWith, Tells
<1>8. CASE PollConnected(c)
  BY <1>5, <1>8 DEF PollConnected, IdleWith, Tells, Greeted
<1> QED BY <1>3, <1>4, <1>6, <1>7, <1>8 DEF Poll

LEMMA PopFacts ==
    ASSUME NEW S, NEW t \in Seq(S), t # << >>
    PROVE  LET u == SubSeq(t, 1, Len(t) - 1)
           IN  /\ u \in Seq(S) /\ Len(u) = Len(t) - 1
               /\ \A i \in 1..Len(u) : i \in 1..Len(t) /\ u[i] = t[i]
<1>1. Len(t) \in Nat \ {0}
  BY EmptySeq, LenProperties
<1> DEFINE n == Len(t) - 1
           u == SubSeq(t, 1, n)
<1>2. /\ u \in Seq(S) /\ Len(u) = IF 1 <= n THEN n - 1 + 1 ELSE 0
      /\ \A i \in 1..(n - 1 + 1) : u[i] = t[1 + i - 1]
  <2>1. n \in Int /\ 1 \in Int
    BY <1>1
  <2>2. \A i \in 1..n : t[i] \in S
    BY <1>1, ElementOfSeq
  <2> HIDE DEF n
  <2> QED BY <2>1, <2>2, SubSeqProperties
<1>3. Len(u) = n
  <2>1. n \in Nat
    BY <1>1
  <2> HIDE DEF u, n
  <2>2. CASE 1 <= n
    BY <1>2, <2>1, <2>2
  <2>3. CASE n = 0
    BY <1>2, <2>3
  <2> QED BY <2>1, <2>2, <2>3
<1>4. ASSUME NEW i \in 1..n PROVE i \in 1..Len(t) /\ u[i] = t[i]
  <2>1. i \in 1..Len(t) /\ 1 + i - 1 = i /\ i \in 1..(n - 1 + 1)
    BY <1>1
  <2> QED BY <1>2, <2>1
<1> QED BY <1>2, <1>3, <1>4

LEMMA CallbackReturnStep == ASSUME PoolInv, CallbackReturn PROVE PoolInv'
<1> DEFINE c == Top.con
<1>1. /\ stack # << >> /\ stack \in Seq(Frame)
      /\ stack' = SubSeq(stack, 1, Len(stack) - 1)
      /\ UNCHANGED <<count, app, phase, err, commands>>
  BY DEF CallbackReturn, PoolInv, TypeOK
<1>2. /\ Len(stack) \in Nat \ {0} /\ c \in Cons
      /\ FrameInv(Top, con[c], app[c])
      /\ Top.from = "poll" => /\ Len(stack) = 1 /\ phase = "poll"
                              /\ turn = c /\ turn <= count
  BY <1>1, TopFacts
<1>3. /\ stack' \in Seq(Frame) /\ Len(stack') = Len(stack) - 1
      /\ \A i \in 1..Len(stack') : i \in 1..Len(stack) /\ stack'[i] = stack[i]
  BY <1>1, PopFacts
<1>4. CASE /\ Top.from = "poll"
           /\ con' = [con EXCEPT ![c] = After(@, Top.event)]
           /\ turn' = turn + 1
  <2>1. ConInv(con[c], app[c])
    BY <1>2 DEF PoolInv
  <2>2. ConInv(After(con[c], Top.event), app[c])
    BY <1>2, <2>1, AfterInv DEF FrameInv
  <2>3. /\ con' = [con EXCEPT ![c] = After(con[c], Top.event)]
        /\ app' = [app EXCEPT ![c] = app[c]]
    BY <1>1, <1>4 DEF PoolInv, TypeOK
  <2>4. /\ con' \in [Cons -> Fields] /\ app' \in [Cons -> Knowledge]
        /\ \A d \in Cons : ConInv(con'[d], app'[d])
    BY <1>2, <2>2, <2>3, OneChanged
  <2>5. stack' = << >>
    <3>1. Len(stack') = 0
      BY <1>2, <1>3, <1>4
    <3> QED BY <1>3, <3>1, EmptySeq
  <2>6. err' \in 0..N /\ err' <= turn
    BY <1>1, <1>2, <1>4 DEF PoolInv, TypeOK, TurnInv
  <2> QED BY <1>1, <1>2, <1>4, <2>4, <2>5, <2>6, TurnPasses
<1>5. CASE Top.from = "connect" /\ UNCHANGED <<con, turn>>
  <2>1. TypeOK'
    BY <1>1, <1>3, <1>5 DEF PoolInv, TypeOK
  <2>2. \A i \in 1..Len(stack') :
          FrameInv(stack'[i], con'[stack'[i].con], app'[stack'[i].con])
    BY <1>1, <1>3, <1>5 DEF PoolInv
  <2>3. StackInv'
    BY <1>1, <1>3, <1>5 DEF PoolInv, StackInv
  <2>4. TurnInv'
    <3>1. phase # "loop"
      BY <1>1 DEF PoolInv, TurnInv
    <3>2. phase = "poll" => stack' # << >> /\ stack'[1].from = "poll"
      <4> SUFFICES ASSUME phase = "poll"
                   PROVE  stack' # << >> /\ stack'[1].from = "poll"
        OBVIOUS
      <4>1. stack[1].from = "poll"
        BY <1>1 DEF PoolInv, TurnInv
      <4>2. Len(stack) # 1
        BY <1>5, <4>1 DEF Top
      <4>3. Len(stack') \in Nat \ {0} /\ 1 \in 1..Len(stack')
        BY <1>2, <1>3, <4>2
      <4>4. stack' # << >>
        BY <4>3
      <4> QED BY <1>3, <4>1, <4>3, <4>4
    <3> QED BY <1>1, <1>5, <3>1, <3>2 DEF PoolInv, TurnInv
  <2> QED BY <1>1, <1>5, <2>1, <2>2, <2>3, <2>4 DEF PoolInv
<1> QED BY <1>4, <1>5 DEF CallbackReturn


-----------------------------------------------------------------------------
(* The theorems                                                              *)

LEMMA PoolInit == Init => PoolInv
<1> SUFFICES ASSUME Init PROVE PoolInv
  OBVIOUS
<1>1. N \in Nat \ {0} /\ MaxCommands \in Nat
  BY PoolAssumption
<1> DEFINE r == [status |-> "NOT_CONNECTED", command_status |-> "EOF",
                 server_errno |-> FALSE, last_callback |-> "NONE",
                 in_query |-> FALSE, pending |-> "NONE", command |-> "NONE",
                 prepared |-> FALSE, owed |-> 0, left |-> 0]
           k == [waiting |-> "nothing", told |-> TRUE, asked |-> FALSE,
                 seen |-> {}, missed |-> {}, resent |-> FALSE]
<1>2. /\ count = 0 /\ con = [c \in Cons |-> r] /\ app = [c \in Cons |-> k]
      /\ phase = "app" /\ turn = 0 /\ stack = << >> /\ err = 0 /\ commands = 0
  BY DEF Init
<1>3. r \in Fields
  BY DEF Fields, Events, CommandKinds
<1>4. k \in Knowledge
  BY DEF Knowledge, Events
<1>5. ConInv(r, k)
  <2>1. OwedInv(r, k)
    BY DEF OwedInv, Working, AtRow
  <2>2. ErrnoInv(r) /\ WaitInv(r, k) /\ HeardInv(r, k) /\ AskedInv(r, k)
    BY DEF ErrnoInv, WaitInv, HeardInv, AskedInv, Working, AtRow, Greeted
  <2> QED BY <1>3, <1>4, <2>1, <2>2 DEF ConInv
<1> HIDE DEF r, k
<1>6. \A c \in Cons : ConInv(con[c], app[c])
  BY <1>2, <1>5
<1>7. stack \in Seq(Frame) /\ Len(stack) = 0
  BY <1>2, EmptySeq
<1>8. TypeOK
  BY <1>1, <1>2, <1>3, <1>4, <1>7 DEF TypeOK
<1>9. StackInv /\ TurnInv
  BY <1>2, <1>7 DEF StackInv, TurnInv
<1> QED BY <1>6, <1>7, <1>8, <1>9 DEF PoolInv

LEMMA PoolStep == PoolInv /\ [Next]_vars => PoolInv'
<1> SUFFICES ASSUME PoolInv, [Next]_vars PROVE PoolInv'
  OBVIOUS
<1>1. CASE Application
  BY <1>1, AddConnectionStep, RunStep, RowNextStep, CallbackReturnStep,
     QueryStep, StatementStep, ConnectStep, QueryCloseStep DEF Application
<1>2. CASE Loop
  BY <1>2, LoopStep
<1>3. CASE LoopEnd \/ RunEnd
  BY <1>3, RunStep
<1>4. ASSUME NEW c \in Cons, Poll(c) PROVE PoolInv'
  BY <1>4, PollStep
<1>5. CASE UNCHANGED vars
  BY <1>5 DEF PoolInv, TypeOK, StackInv, TurnInv, vars
<1> QED BY <1>1, <1>2, <1>3, <1>4, <1>5 DEF Next

LEMMA PoolAlways == Spec => []PoolInv
  BY PoolInit, PoolStep, PTL DEF Spec

LEMMA PoolKept == PoolInv => CommandsKept /\ EventsInPlace
<1> SUFFICES ASSUME PoolInv PROVE CommandsKept /\ EventsInPlace
  OBVIOUS
<1>1. /\ TypeOK /\ \A c \in Cons : ConInv(con[c], app[c])
      /\ \A i \in 1..Len(stack) :
           FrameInv(stack[i], con[stack[i].con], app[stack[i].con])
  BY DEF PoolInv
<1>2. CommandKept
  <2> SUFFICES ASSUME NEW c \in Cons, con[c].owed > 0,
                      con[c].status # "NET_ERROR", ~app[c].resent
               PROVE  Working(con[c])
    BY DEF CommandKept, Working, AtRow
  <2>1. OwedInv(con[c], app[c]) /\ con[c].owed # 0
    BY <1>1 DEF ConInv, Fields
  <2> QED BY <2>1 DEF OwedInv
<1>3. OneAtATime
  <2> SUFFICES ASSUME NEW c \in Cons, con[c].owed > 1, ~app[c].resent
               PROVE  FALSE
    BY DEF OneAtATime
  <2>1. con[c].owed <= 1 /\ con[c].owed \in Nat
    BY <1>1 DEF ConInv, OwedInv, Fields
  <2> QED BY <2>1
<1>4. ConnectedFirst
  BY <1>1 DEF ConnectedFirst, ConInv, HeardInv
<1>5. ErrorOfThisRun
  <2>1. DOMAIN stack = 1..Len(stack)
    BY <1>1 DEF TypeOK
  <2> QED BY <1>1, <2>1 DEF ErrorOfThisRun, FrameInv
<1> QED BY <1>1, <1>2, <1>3, <1>4, <1>5 DEF CommandsKept, EventsInPlace

(* A command given anywhere, also from callbacks nested to any depth, is     *)
(* kept until it is answered and is alone on its connection, for any number  *)
(* of connections; the exception is a query with parameters sent from the    *)
(* callback of CONNECTED (connect.cc:285, connect.cc:302).                   *)
THEOREM CommandsKeptCorrect == Spec => []CommandsKept
  BY PoolAlways, PoolKept, PTL

(* The application hears of a connection before its answers, and the error   *)
(* object of an event is of the same run of the pool (connect.cc:302,        *)
(* pool.cc:101).                                                             *)
THEOREM EventsInPlaceCorrect == Spec => []EventsInPlace
  BY PoolAlways, PoolKept, PTL


(* Nobody else than poll passes an event over.                               *)
LEMMA MissedSame ==
    ASSUME PoolInv, NEW c \in Cons, NEW m, m.missed = app[c].missed,
           app' = [app EXCEPT ![c] = m]
    PROVE  \A d \in Cons : app'[d].missed = app[d].missed
  BY DEF PoolInv, TypeOK

LEMMA MissedByPoll ==
    ASSUME PoolInv, Next, NEW c \in Cons, app'[c].missed # app[c].missed
    PROVE  ~app[c].asked
<1>1. app \in [Cons -> Knowledge]
  BY DEF PoolInv, TypeOK
<1>2. CASE UNCHANGED app
  BY <1>2
<1>3. ASSUME NEW d \in Cons, Query(d) \/ Statement(d) PROVE ~app[c].asked
  <2>1. CASE UNCHANGED app
    BY <2>1
  <2>2. ASSUME NEW pending,
               app' = [app EXCEPT ![d] =
                         [Awaits(@, "answer") EXCEPT
                            !.resent = \/ app[d].resent
                                       \/ InConnected(d) /\ pending = "QUERY"]]
        PROVE  ~app[c].asked
    <3> DEFINE m == [Awaits(app[d], "answer") EXCEPT
                       !.resent = \/ app[d].resent
                                  \/ InConnected(d) /\ pending = "QUERY"]
    <3>1. app' = [app EXCEPT ![d] = m]
      BY <2>2
    <3>2. m.missed = app[d].missed
      BY <1>1 DEF Awaits, Knowledge
    <3> HIDE DEF m
    <3> QED BY <3>1, <3>2, MissedSame
  <2> QED BY <1>3, <2>1, <2>2 DEF Query, Statement, Command
<1>4. ASSUME NEW d \in Cons, Connect(d) PROVE ~app[c].asked
  <2>1. PICK p : \/ app' = [app EXCEPT ![d] = Awaits(app[d],
                              IF p = "NONE" THEN "connection" ELSE "answer")]
                 \/ app' = [app EXCEPT ![d] = Learn(Awaits(app[d],
                              IF p = "NONE" THEN "connection" ELSE "answer"),
                                                    "ERROR")]
    BY <1>4 DEF Connect
  <2> DEFINE m == Awaits(app[d], IF p = "NONE" THEN "connection" ELSE "answer")
  <2>2. m \in Knowledge /\ m.missed = app[d].missed
    BY <1>1 DEF Awaits, Knowledge
  <2> HIDE DEF m
  <2>3. Learn(m, "ERROR").missed = app[d].missed
    BY <2>2 DEF Learn, Knowledge
  <2>4. app' = [app EXCEPT ![d] = m] \/ app' = [app EXCEPT ![d] = Learn(m, "ERROR")]
    BY <2>1 DEF m
  <2> QED BY <2>2, <2>3, <2>4, MissedSame
<1>5. CASE RowNext
  <2> DEFINE d == Top.con
             m == [app[d] EXCEPT !.told = FALSE,
                                 !.asked = con[d].command = "QUERY"]
  <2>1. d \in Cons
    BY <1>5, TopFacts DEF RowNext
  <2>2. app' = [app EXCEPT ![d] = m]
    BY <1>1, <1>5, <2>1 DEF RowNext, Knowledge
  <2>3. m.missed = app[d].missed
    BY <1>1, <2>1 DEF Knowledge
  <2> HIDE DEF d, m
  <2> QED BY <2>1, <2>2, <2>3, MissedSame
<1>6. CASE Loop
  <2>1. PICK d \in Cons : app' = [app EXCEPT ![d].told = FALSE]
    BY <1>6 DEF Loop, LoopConnect, LoopAnswer, LoopRow, LoopNetError, Arrives
  <2> DEFINE m == [app[d] EXCEPT !.told = FALSE]
  <2>2. app' = [app EXCEPT ![d] = m] /\ m.missed = app[d].missed
    BY <1>1, <2>1 DEF Knowledge
  <2> HIDE DEF m
  <2> QED BY <2>2, MissedSame
<1>7. ASSUME NEW d \in Cons, NEW event, NEW error, Announce(d, event, error),
             Tells(con[d], event)
      PROVE  ~app[c].asked
  <2>1. CASE Deliver(d, event, "poll", error)
    <3> DEFINE m == Learn(app[d], event)
    <3>1. app' = [app EXCEPT ![d] = m]
      BY <2>1 DEF Deliver
    <3>2. m.missed = app[d].missed
      BY <1>1 DEF Learn, Knowledge
    <3> HIDE DEF m
    <3> QED BY <3>1, <3>2, MissedSame
  <2>2. CASE /\ Duplicate(d, event)
             /\ app' = [app EXCEPT ![d].missed = IF app[d].told THEN @
                                                   ELSE @ \union {event}]
    <3>1. c = d /\ ~app[d].told
      BY <1>1, <2>2 DEF Knowledge
    <3>2. con[d].last_callback = event
      BY <2>2 DEF Duplicate
    <3>3. AskedInv(con[d], app[d])
      BY DEF PoolInv, ConInv
    <3>4. event \in {"ERROR", "EOF", "ROW_READY", "CONNECTED"}
      BY <1>7 DEF Tells
    <3> QED BY <1>7, <3>1, <3>2, <3>3, <3>4 DEF AskedInv, Tells, Greeted
  <2> QED BY <1>7, <2>1, <2>2 DEF Announce
<1>8. ASSUME NEW d \in Cons, Poll(d) PROVE ~app[c].asked
  <2>1. CASE PollQuiet(d) \/ PollLost(d)
    BY <1>2, <2>1 DEF PollQuiet, PollLost
  <2>2. CASE PollError(d)
    BY <1>7, <2>2 DEF PollError, Tells
  <2>3. CASE PollEof(d) \/ PollRow(d) \/ PollConnected(d)
    BY <1>7, <2>3 DEF PollEof, PollRow, PollConnected, IdleWith, Tells, Greeted
  <2> QED BY <1>8, <2>1, <2>2, <2>3 DEF Poll
<1>9. CASE \/ AddConnection \/ Run \/ CallbackReturn \/ LoopEnd \/ RunEnd
           \/ \E d \in Cons : QueryClose(d)
  BY <1>2, <1>9 DEF AddConnection, Run, CallbackReturn, LoopEnd, RunEnd,
                    QueryClose
<1> QED BY <1>3, <1>4, <1>5, <1>6, <1>8, <1>9 DEF Next, Application

(* No event of an answer is passed over once a row of it was taken with      *)
(* attachsql_query_row_next, which forgets the last event: the end of the    *)
(* rows of a query is always told (query.cc:409, connect.cc:199).            *)
THEOREM EndAfterRowsAnnouncedCorrect == Spec => EndAfterRowsAnnounced
<1>1. PoolInv /\ [Next]_vars =>
        [\A c \in Cons : app[c].missed' # app[c].missed => ~app[c].asked]_vars
  BY MissedByPoll
<1> QED BY <1>1, PoolAlways, PTL DEF Spec, EndAfterRowsAnnounced
=============================================================================

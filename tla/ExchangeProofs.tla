--------------------------- MODULE ExchangeProofs ---------------------------
(***************************************************************************)
(* The library counts answers as the server does, and takes for a command  *)
(* the answer of another only after a COM_STMT_RESET, for any number of    *)
(* commands in any order that the calls allow.                             *)
(***************************************************************************)
EXTENDS Exchange, FiniteSetTheorems, SequenceTheorems, TLAPS

(* The answers on their way, the one that is read next first.                *)
Pending(c) == c.read_buffer \o c.socket

(* How often a command was sent, and how many answers the server still owes. *)
Count(s, command) == Cardinality({k \in DOMAIN s : s[k] = command})
Owed(s, n) == Cardinality({k \in (n + 1)..Len(s) : ~Silent(s[k])})

(* Whether the reader waits for an answer, as a number.                      *)
Waiting(c) == IF c.expected THEN 1 ELSE 0

(* Only the last command is waited for, and it is one that is told to wait.  *)
WaitInv(c, s) ==
    c.expected => /\ c.status = "BUSY"
                  /\ s # << >> /\ Expects(s[Len(s)])

(* BehindByResets while a command is under way as well.                      *)
CountInv(c, s, n) ==
    Len(Pending(c)) + Owed(s, n) + Count(s, "LONG_DATA")
        = Count(s, "RESET") + Waiting(c)

(* The answers on their way are those of commands the server has seen, in    *)
(* their order, and later than any that was taken.                           *)
PendingInv(c, n) ==
    \A i \in 1..Len(Pending(c)) :
        /\ Pending(c)[i].of \in 1..n
        /\ \A j \in 1..Len(Pending(c)) :
             i < j => Pending(c)[i].of < Pending(c)[j].of
        /\ \A j \in 1..Len(c.taken) : c.taken[j] < Pending(c)[i].of

TakenInv(c, n) ==
    /\ \A j \in 1..Len(c.taken) : c.taken[j] <= n
    /\ \A j, k \in 1..Len(c.taken) :
         j < k /\ c.taken[j] # 0 /\ c.taken[k] # 0 => c.taken[j] < c.taken[k]

(* The answer to the command that is waited for is not lost.                 *)
LastInv(c, s, n) ==
    c.expected /\ n = Len(s) /\ ~Silent(s[Len(s)]) =>
        \E i \in 1..Len(Pending(c)) : Pending(c)[i].of = n

OwnInv(c, s) ==
    \A k \in 1..Len(c.taken) :
        c.taken[k] \notin {0, k} => \E j \in 1..(k - 1) : s[j] = "RESET"

(* What a connection c keeps when s was sent and the server has seen n.      *)
Kept(c, s, n) ==
    /\ c \in Connections
    /\ s \in Seq(Commands) /\ Len(s) <= MaxCommands /\ n \in 0..Len(s)
    /\ Len(c.taken) = Len(s) /\ c.writes <= Len(s)
    /\ WaitInv(c, s)
    /\ CountInv(c, s, n)
    /\ PendingInv(c, n)
    /\ TakenInv(c, n)
    /\ LastInv(c, s, n)
    /\ OwnInv(c, s)

(* The inductive invariant.                                                  *)
ExchangeInv ==
    /\ Kept(con, sent, seen)
    /\ ret \in {"NONE", "PROCESSING", "ERROR", "EOF"}

-----------------------------------------------------------------------------
(* Counting                                                                  *)

LEMMA CountNat ==
    ASSUME NEW s \in Seq(Commands), NEW command
    PROVE  /\ Count(s, command) \in Nat
           /\ IsFiniteSet({k \in DOMAIN s : s[k] = command})
<1>1. Len(s) \in Nat /\ DOMAIN s = 1..Len(s)
  BY LenProperties
<1>2. IsFiniteSet(1..Len(s))
  BY <1>1, FS_Interval
<1>3. {k \in DOMAIN s : s[k] = command} \in SUBSET (1..Len(s))
  BY <1>1
<1>4. IsFiniteSet({k \in DOMAIN s : s[k] = command})
  BY <1>2, <1>3, FS_Subset
<1> QED BY <1>4, FS_CardinalityType DEF Count

LEMMA OwedNat ==
    ASSUME NEW s \in Seq(Commands), NEW n \in Nat
    PROVE  /\ Owed(s, n) \in Nat
           /\ IsFiniteSet({k \in (n + 1)..Len(s) : ~Silent(s[k])})
<1>1. Len(s) \in Nat
  BY LenProperties
<1>2. IsFiniteSet((n + 1)..Len(s))
  BY <1>1, FS_Interval
<1>3. {k \in (n + 1)..Len(s) : ~Silent(s[k])} \in SUBSET ((n + 1)..Len(s))
  OBVIOUS
<1>4. IsFiniteSet({k \in (n + 1)..Len(s) : ~Silent(s[k])})
  BY <1>2, <1>3, FS_Subset
<1> QED BY <1>4, FS_CardinalityType DEF Owed

LEMMA AppendFacts ==
    ASSUME NEW s \in Seq(Commands), NEW x \in Commands
    PROVE  /\ Append(s, x) \in Seq(Commands)
           /\ Len(s) \in Nat /\ Len(Append(s, x)) = Len(s) + 1
           /\ DOMAIN s = 1..Len(s)
           /\ DOMAIN Append(s, x) = 1..(Len(s) + 1)
           /\ \A k \in 1..Len(s) : Append(s, x)[k] = s[k]
           /\ Append(s, x)[Len(s) + 1] = x
           /\ Append(s, x) # << >>
  OBVIOUS

LEMMA CountAppend ==
    ASSUME NEW s \in Seq(Commands), NEW x \in Commands, NEW command
    PROVE  Count(Append(s, x), command)
             = Count(s, command) + IF x = command THEN 1 ELSE 0
<1> DEFINE old == {k \in DOMAIN s : s[k] = command}
           new == {k \in DOMAIN Append(s, x) : Append(s, x)[k] = command}
<1>1. IsFiniteSet(old)
  BY CountNat
<1>a. Len(s) + 1 \notin old
  BY AppendFacts
<1>2. CASE x = command
  <2>1. new = old \union {Len(s) + 1}
    BY <1>2, AppendFacts
  <2>2. Cardinality(new) = Cardinality(old) + 1
    BY <1>1, <1>a, <2>1, FS_AddElement
  <2> QED BY <1>2, <2>2 DEF Count
<1>3. CASE x # command
  <2>1. new = old
    BY <1>3, AppendFacts
  <2>2. Count(Append(s, x), command) = Count(s, command)
    BY <2>1 DEF Count
  <2>3. Count(s, command) \in Nat
    BY CountNat
  <2> QED BY <1>3, <2>2, <2>3
<1> QED BY <1>2, <1>3

LEMMA OwedAppend ==
    ASSUME NEW s \in Seq(Commands), NEW x \in Commands, NEW n \in 0..Len(s)
    PROVE  Owed(Append(s, x), n)
             = Owed(s, n) + IF Silent(x) THEN 0 ELSE 1
<1> DEFINE old == {k \in (n + 1)..Len(s) : ~Silent(s[k])}
           new == {k \in (n + 1)..Len(Append(s, x)) :
                     ~Silent(Append(s, x)[k])}
<1>1. n \in Nat /\ Len(s) \in Nat
  BY AppendFacts
<1>2. IsFiniteSet(old)
  BY <1>1, OwedNat
<1>a. Len(s) + 1 \notin old
  BY <1>1
<1>3. \A k \in (n + 1)..Len(s) : k \in 1..Len(s)
  BY <1>1
<1>4. CASE ~Silent(x)
  <2>1. new = old \union {Len(s) + 1}
    BY <1>1, <1>3, <1>4, AppendFacts
  <2>2. Cardinality(new) = Cardinality(old) + 1
    BY <1>2, <1>a, <2>1, FS_AddElement
  <2> QED BY <1>4, <2>2 DEF Owed
<1>5. CASE Silent(x)
  <2>1. new = old
    BY <1>1, <1>3, <1>5, AppendFacts
  <2>2. Owed(Append(s, x), n) = Owed(s, n)
    BY <2>1 DEF Owed
  <2>3. Owed(s, n) \in Nat
    BY <1>1, OwedNat
  <2> QED BY <1>5, <2>2, <2>3
<1> QED BY <1>4, <1>5

LEMMA OwedNext ==
    ASSUME NEW s \in Seq(Commands), NEW n \in 0..Len(s), n < Len(s)
    PROVE  Owed(s, n) = Owed(s, n + 1) + IF Silent(s[n + 1]) THEN 0 ELSE 1
<1> DEFINE old == {k \in (n + 1)..Len(s) : ~Silent(s[k])}
           new == {k \in (n + 1 + 1)..Len(s) : ~Silent(s[k])}
<1>1. n \in Nat /\ n + 1 \in Nat /\ Len(s) \in Nat
  BY LenProperties
<1>2. IsFiniteSet(new)
  BY <1>1, OwedNat
<1>a. n + 1 \notin new
  BY <1>1
<1>3. CASE ~Silent(s[n + 1])
  <2>1. old = new \union {n + 1}
    BY <1>1, <1>3
  <2>2. Cardinality(old) = Cardinality(new) + 1
    BY <1>2, <1>a, <2>1, FS_AddElement
  <2> QED BY <1>3, <2>2 DEF Owed
<1>4. CASE Silent(s[n + 1])
  <2>1. old = new
    BY <1>1, <1>4
  <2>2. Owed(s, n) = Owed(s, n + 1)
    BY <2>1 DEF Owed
  <2>3. Owed(s, n + 1) \in Nat
    BY <1>1, OwedNat
  <2> QED BY <1>4, <2>2, <2>3
<1> QED BY <1>3, <1>4

(* A count that is zero names no command.                                    *)
LEMMA CountZero ==
    ASSUME NEW s \in Seq(Commands), NEW command
    PROVE  Count(s, command) = 0 <=> \A k \in 1..Len(s) : s[k] # command
<1>1. DOMAIN s = 1..Len(s)
  BY LenProperties
<1> DEFINE A == {k \in DOMAIN s : s[k] = command}
<1>2. IsFiniteSet(A)
  BY CountNat
<1>3. Cardinality(A) = 0 <=> A = {}
  BY <1>2, FS_EmptySet
<1> QED BY <1>1, <1>3 DEF Count

LEMMA OwedZero ==
    ASSUME NEW s \in Seq(Commands), NEW n \in Nat, Owed(s, n) = 0
    PROVE  \A k \in (n + 1)..Len(s) : Silent(s[k])
<1> DEFINE B == {k \in (n + 1)..Len(s) : ~Silent(s[k])}
<1>1. IsFiniteSet(B)
  BY OwedNat
<1>2. Cardinality(B) = 0 <=> B = {}
  BY <1>1, FS_EmptySet
<1> QED BY <1>2 DEF Owed

-----------------------------------------------------------------------------
(* What the callbacks do to a connection                                     *)

LEMMA PendingFacts ==
    ASSUME NEW c \in Connections
    PROVE  /\ c.read_buffer \in Seq(Answers) /\ c.socket \in Seq(Answers)
           /\ Pending(c) \in Seq(Answers) /\ Len(Pending(c)) \in Nat
           /\ Len(Pending(c)) = Len(c.read_buffer) + Len(c.socket)
           /\ c.taken \in Seq(0..MaxCommands) /\ Len(c.taken) \in Nat
           /\ \A i \in 1..Len(Pending(c)) :
                Pending(c)[i].of \in 1..MaxCommands
<1>1. /\ c.read_buffer \in Seq(Answers) /\ c.socket \in Seq(Answers)
      /\ c.taken \in Seq(0..MaxCommands)
  BY DEF Connections
<1>2. Pending(c) \in Seq(Answers)
      /\ Len(Pending(c)) = Len(c.read_buffer) + Len(c.socket)
  BY <1>1, ConcatProperties DEF Pending
<1>3. \A i \in 1..Len(Pending(c)) : Pending(c)[i] \in Answers
  BY <1>2, ElementOfSeq
<1> QED BY <1>1, <1>2, <1>3, LenProperties DEF Answers

(* The read callback moves answers and changes nothing else.                 *)
LEMMA MovedPending ==
    ASSUME NEW c \in Connections
    PROVE  LET m == [c EXCEPT !.read_buffer = @ \o c.socket, !.socket = << >>]
           IN  /\ m \in Connections /\ Pending(m) = Pending(c)
               /\ m.expected = c.expected /\ m.status = c.status
               /\ m.taken = c.taken /\ m.writes = c.writes
<1> DEFINE m == [c EXCEPT !.read_buffer = @ \o c.socket, !.socket = << >>]
<1>1. /\ m.read_buffer = Pending(c) /\ m.socket = << >>
      /\ m.expected = c.expected /\ m.status = c.status
      /\ m.taken = c.taken /\ m.writes = c.writes
  BY DEF Connections, Pending
<1>2. << >> \in Seq(Answers)
  BY EmptySeq
<1>3. m \in Connections
  BY <1>1, <1>2, PendingFacts DEF Connections, Pending
<1>4. Pending(m) = Pending(c)
  BY <1>1, PendingFacts, ConcatEmptySeq DEF Pending
<1> QED BY <1>1, <1>3, <1>4

(* Kept does not depend on anything else of a connection.                    *)
LEMMA KeptSame ==
    ASSUME NEW c, NEW d \in Connections, NEW s, NEW n, Kept(c, s, n),
           Pending(d) = Pending(c), d.expected = c.expected,
           d.expected => d.status = "BUSY", d.taken = c.taken,
           d.writes <= Len(s)
    PROVE  Kept(d, s, n)
  BY DEF Kept, WaitInv, CountInv, Waiting, PendingInv, TakenInv, LastInv,
         OwnInv

LEMMA OnWriteKept ==
    ASSUME NEW c, NEW s, NEW n, Kept(c, s, n), c.writes # 0
    PROVE  Kept(OnWrite(c), s, n)
<1> DEFINE d == OnWrite(c)
<1>1. /\ c \in Connections /\ c.writes \in 0..MaxCommands
      /\ MaxCommands \in Nat /\ Len(s) \in Nat /\ c.writes <= Len(s)
  BY ExchangeAssumption, LenProperties DEF Kept, Connections
<1>2. c.writes - 1 \in 0..MaxCommands /\ c.writes - 1 <= Len(s)
  BY <1>1
<1>3. /\ d.read_buffer = c.read_buffer /\ d.socket = c.socket
      /\ d.expected = c.expected /\ d.taken = c.taken
      /\ d.writes = c.writes - 1
      /\ d.status = IF c.expected THEN c.status ELSE "IDLE"
  BY <1>1 DEF OnWrite, Connections
<1>4. d \in Connections
  BY <1>1, <1>2 DEF OnWrite, Connections
<1>5. Pending(d) = Pending(c)
  BY <1>3 DEF Pending
<1>6. d.expected => d.status = "BUSY"
  BY <1>3 DEF Kept, WaitInv
<1> HIDE DEF d
<1>7. Kept(d, s, n)
  BY <1>2, <1>3, <1>4, <1>5, <1>6, KeptSame
<1> QED BY <1>7 DEF d

LEMMA TailConcat ==
    ASSUME NEW S, NEW q \in Seq(S), NEW r \in Seq(S), q # << >>
    PROVE  /\ Len(q \o r) > 0
           /\ Len(Tail(q) \o r) = Len(q \o r) - 1
           /\ (q \o r)[1] = Head(q)
           /\ \A i \in 1..(Len(q \o r) - 1) :
                (Tail(q) \o r)[i] = (q \o r)[i + 1]
<1>1. /\ Len(q) \in Nat /\ Len(q) # 0 /\ Len(r) \in Nat
      /\ Tail(q) \in Seq(S) /\ Len(Tail(q)) = Len(q) - 1
  BY EmptySeq, LenProperties, HeadTailProperties
<1>2. \A i \in 1..(Len(q) - 1) : Tail(q)[i] = q[i + 1]
  BY <1>1, HeadTailProperties
<1>3. /\ Len(q \o r) = Len(q) + Len(r)
      /\ \A i \in 1..(Len(q) + Len(r)) :
           (q \o r)[i] = IF i <= Len(q) THEN q[i] ELSE r[i - Len(q)]
  BY ConcatProperties
<1>4. /\ Len(Tail(q) \o r) = Len(Tail(q)) + Len(r)
      /\ \A i \in 1..(Len(Tail(q)) + Len(r)) :
           (Tail(q) \o r)[i] = IF i <= Len(Tail(q)) THEN Tail(q)[i]
                               ELSE r[i - Len(Tail(q))]
  BY <1>1, ConcatProperties
<1>5. Len(q \o r) > 0 /\ Len(Tail(q) \o r) = Len(q \o r) - 1
  BY <1>1, <1>3, <1>4
<1>6. (q \o r)[1] = Head(q)
  <2>1. 1 \in 1..(Len(q) + Len(r)) /\ 1 <= Len(q)
    BY <1>1
  <2>2. (q \o r)[1] = q[1]
    BY <1>3, <2>1
  <2> QED BY <2>2
<1>7. ASSUME NEW i \in 1..(Len(q \o r) - 1)
      PROVE  (Tail(q) \o r)[i] = (q \o r)[i + 1]
  <2>1. /\ i \in 1..(Len(Tail(q)) + Len(r)) /\ i + 1 \in 1..(Len(q) + Len(r))
        /\ i <= Len(Tail(q)) <=> i + 1 <= Len(q)
        /\ i <= Len(Tail(q)) => i \in 1..(Len(q) - 1)
        /\ i - Len(Tail(q)) = i + 1 - Len(q)
    BY <1>1, <1>3
  <2> QED BY <1>2, <1>3, <1>4, <2>1
<1> QED BY <1>5, <1>6, <1>7

(* The answer that is taken.                                                 *)
LEMMA ProcessFacts ==
    ASSUME NEW c \in Connections, c.expected, c.read_buffer # << >>,
           Len(sent) \in 1..Len(c.taken)
    PROVE  LET d == Process(c)
               P == Pending(c)
           IN  /\ d \in Connections
               /\ ~d.expected /\ d.writes = c.writes
               /\ Len(P) > 0 /\ Len(Pending(d)) = Len(P) - 1
               /\ \A i \in 1..(Len(P) - 1) : Pending(d)[i] = P[i + 1]
               /\ Len(d.taken) = Len(c.taken)
               /\ \A j \in 1..Len(c.taken) :
                    d.taken[j] = IF j = Len(sent) THEN P[1].of ELSE c.taken[j]
<1> DEFINE d == Process(c)
           P == Pending(c)
           a == Head(c.read_buffer)
<1>1. /\ c.read_buffer \in Seq(Answers) /\ c.socket \in Seq(Answers)
      /\ c.taken \in Seq(0..MaxCommands) /\ MaxCommands \in Nat
  BY ExchangeAssumption DEF Connections
<1>2. /\ a \in Answers /\ Tail(c.read_buffer) \in Seq(Answers)
      /\ Len(c.read_buffer) \in Nat \ {0} /\ Len(c.socket) \in Nat
      /\ Len(Tail(c.read_buffer)) = Len(c.read_buffer) - 1
      /\ \A i \in 1..(Len(c.read_buffer) - 1) :
           Tail(c.read_buffer)[i] = c.read_buffer[i + 1]
      /\ a = c.read_buffer[1]
  BY <1>1, HeadTailProperties, EmptySeq, LenProperties
<1>3. a.of \in 0..MaxCommands /\ a.error \in BOOLEAN
  BY <1>1, <1>2 DEF Answers
<1> DEFINE t == [c.taken EXCEPT ![Len(sent)] = a.of]
<1>4. /\ t \in Seq(0..MaxCommands) /\ Len(t) = Len(c.taken)
      /\ \A j \in 1..Len(c.taken) :
           t[j] = IF j = Len(sent) THEN a.of ELSE c.taken[j]
  BY <1>1, <1>3, ExceptSeq
<1> HIDE DEF t
<1>5. d = [c EXCEPT !.expected = FALSE, !.server_errno = a.error,
                    !.status = "IDLE", !.taken = t,
                    !.read_buffer = Tail(c.read_buffer)]
  BY DEF Process, Connections, t
<1> HIDE DEF d, a
<1>6. d \in Connections
  BY <1>2, <1>3, <1>4, <1>5 DEF Connections
<1>7. /\ ~d.expected /\ d.writes = c.writes /\ d.taken = t
      /\ d.read_buffer = Tail(c.read_buffer) /\ d.socket = c.socket
  BY <1>5 DEF Connections
<1>8. P = c.read_buffer \o c.socket
  BY DEF Pending
<1>9. Pending(d) = Tail(c.read_buffer) \o c.socket
  BY <1>7 DEF Pending
<1> DEFINE q == c.read_buffer
           r == c.socket
<1>a. /\ Len(q \o r) > 0
      /\ Len(Tail(q) \o r) = Len(q \o r) - 1
      /\ (q \o r)[1] = a
      /\ \A i \in 1..(Len(q \o r) - 1) :
           (Tail(q) \o r)[i] = (q \o r)[i + 1]
  <2>1. q \in Seq(Answers) /\ r \in Seq(Answers) /\ q # << >>
    BY <1>1
  <2> HIDE DEF q, r
  <2>2. a = Head(q)
    BY DEF a, q
  <2> QED BY <2>1, <2>2, TailConcat
<1>10. /\ Len(P) > 0 /\ Len(Pending(d)) = Len(P) - 1 /\ P[1] = a
       /\ \A i \in 1..(Len(P) - 1) : Pending(d)[i] = P[i + 1]
  BY <1>8, <1>9, <1>a, Zenon
<1> HIDE DEF P
<1> QED BY <1>4, <1>6, <1>7, <1>10 DEF d, P

(* Without a COM_STMT_RESET before it the last command is given its own      *)
(* answer: it is the only one on its way.                                    *)
LEMMA TakesOwn ==
    ASSUME NEW c, NEW s, NEW n, Kept(c, s, n), c.expected,
           Len(Pending(c)) > 0,
           \A j \in 1..(Len(s) - 1) : s[j] # "RESET"
    PROVE  Pending(c)[1].of = Len(s)
<1>1. /\ c \in Connections /\ s \in Seq(Commands) /\ n \in 0..Len(s)
      /\ s # << >> /\ Expects(s[Len(s)])
      /\ CountInv(c, s, n) /\ LastInv(c, s, n)
  BY DEF Kept, WaitInv
<1>2. Len(s) \in Nat \ {0} /\ n \in Nat /\ Len(Pending(c)) \in Nat
  BY <1>1, EmptySeq, PendingFacts
<1>3. Count(s, "RESET") = 0
  <2>1. \A j \in 1..Len(s) : s[j] # "RESET"
    BY <1>1, <1>2 DEF Expects
  <2> QED BY <1>1, <1>2, <2>1, CountZero
<1>4. Owed(s, n) \in Nat /\ Count(s, "LONG_DATA") \in Nat
  BY <1>1, <1>2, OwedNat, CountNat
<1>5. Len(Pending(c)) + Owed(s, n) + Count(s, "LONG_DATA") = 0 + 1
  BY <1>1, <1>3 DEF CountInv, Waiting
<1>6. /\ Len(Pending(c)) = 1 /\ Owed(s, n) = 0
      /\ Count(s, "LONG_DATA") = 0
  <2>1. \A a, b, d \in Nat :
          a > 0 /\ a + b + d = 0 + 1 => a = 1 /\ b = 0 /\ d = 0
    OBVIOUS
  <2> QED BY <1>2, <1>4, <1>5, <2>1, Zenon
<1>7. ~Silent(s[Len(s)])
  <2>1. \A j \in 1..Len(s) : s[j] # "LONG_DATA"
    BY <1>1, <1>2, <1>6, CountZero
  <2> QED BY <1>1, <1>2, <2>1 DEF Expects, Silent
<1>8. n = Len(s)
  <2>1. \A k \in (n + 1)..Len(s) : Silent(s[k])
    BY <1>1, <1>2, <1>6, OwedZero
  <2> QED BY <1>1, <1>2, <1>7, <2>1
<1>9. PICK i \in 1..Len(Pending(c)) : Pending(c)[i].of = n
  BY <1>1, <1>7, <1>8 DEF LastInv
<1>10. i = 1
  BY <1>6, <1>9
<1> QED BY <1>8, <1>9, <1>10

LEMMA ProcessKept ==
    ASSUME NEW c, Kept(c, sent, seen)
    PROVE  Kept(Process(c), sent, seen) /\ Process(c).writes = c.writes
<1>1. CASE ~c.expected \/ c.read_buffer = << >>
  BY <1>1 DEF Process
<1>2. CASE c.expected /\ c.read_buffer # << >>
  <2> DEFINE d == Process(c)
             P == Pending(c)
  <2>1. /\ c \in Connections /\ sent \in Seq(Commands)
        /\ Len(sent) <= MaxCommands /\ seen \in 0..Len(sent)
        /\ Len(c.taken) = Len(sent) /\ c.writes <= Len(sent)
        /\ sent # << >>
        /\ CountInv(c, sent, seen) /\ PendingInv(c, seen)
        /\ TakenInv(c, seen) /\ OwnInv(c, sent)
    BY <1>2 DEF Kept, WaitInv
  <2>2. Len(sent) \in Nat \ {0} /\ Len(P) \in Nat /\ seen \in Nat
    BY <2>1, EmptySeq, PendingFacts
  <2>3. Len(sent) \in 1..Len(c.taken)
    BY <2>1, <2>2
  <2>4. /\ d \in Connections /\ ~d.expected /\ d.writes = c.writes
        /\ Len(P) > 0 /\ Len(Pending(d)) = Len(P) - 1
        /\ \A i \in 1..(Len(P) - 1) : Pending(d)[i] = P[i + 1]
        /\ Len(d.taken) = Len(c.taken)
        /\ \A j \in 1..Len(c.taken) :
             d.taken[j] = IF j = Len(sent) THEN P[1].of ELSE c.taken[j]
    BY <1>2, <2>1, <2>3, ProcessFacts
  <2> HIDE DEF d
  <2>5. /\ \A i \in 1..Len(P) : P[i].of \in 1..seen
        /\ \A i, j \in 1..Len(P) : i < j => P[i].of < P[j].of
        /\ \A i \in 1..Len(P), j \in 1..Len(c.taken) : c.taken[j] < P[i].of
    BY <2>1 DEF PendingInv
  <2>6. 1 \in 1..Len(P) /\ P[1].of \in 1..seen /\ P[1].of # 0
    BY <2>2, <2>4, <2>5
  <2> HIDE DEF P
  <2>7. WaitInv(d, sent) /\ LastInv(d, sent, seen)
    BY <2>4 DEF WaitInv, LastInv
  <2>8. CountInv(d, sent, seen)
    <3>1. /\ Owed(sent, seen) \in Nat /\ Count(sent, "LONG_DATA") \in Nat
          /\ Count(sent, "RESET") \in Nat
      BY <2>1, <2>2, OwedNat, CountNat
    <3>2. Len(P) + Owed(sent, seen) + Count(sent, "LONG_DATA")
            = Count(sent, "RESET") + 1
      BY <1>2, <2>1 DEF CountInv, Waiting, P
    <3>3. Len(P) - 1 + Owed(sent, seen) + Count(sent, "LONG_DATA")
            = Count(sent, "RESET") + 0
      BY <2>2, <3>1, <3>2
    <3>4. Waiting(d) = 0 /\ Len(Pending(d)) = Len(P) - 1
      BY <2>4 DEF Waiting
    <3> QED BY <3>3, <3>4 DEF CountInv
  <2>9. PendingInv(d, seen)
    <3> SUFFICES ASSUME NEW i \in 1..(Len(P) - 1)
                 PROVE  /\ P[i + 1].of \in 1..seen
                        /\ \A j \in 1..(Len(P) - 1) :
                             i < j => P[i + 1].of < P[j + 1].of
                        /\ \A j \in 1..Len(c.taken) : d.taken[j] < P[i + 1].of
      BY <2>4 DEF PendingInv
    <3>1. i + 1 \in 1..Len(P) /\ 1 < i + 1
      BY <2>2
    <3>2. \A j \in 1..(Len(P) - 1) : i < j => P[i + 1].of < P[j + 1].of
      <4> SUFFICES ASSUME NEW j \in 1..(Len(P) - 1), i < j
                   PROVE  P[i + 1].of < P[j + 1].of
        OBVIOUS
      <4>1. j + 1 \in 1..Len(P) /\ i + 1 < j + 1
        BY <2>2
      <4> QED BY <2>5, <3>1, <4>1
    <3>3. P[1].of < P[i + 1].of
      BY <2>5, <2>6, <3>1
    <3> QED BY <2>4, <2>5, <3>1, <3>2, <3>3
  <2>10. TakenInv(d, seen)
    <3>1. \A j \in 1..Len(c.taken) : d.taken[j] <= seen
      BY <2>1, <2>2, <2>4, <2>6 DEF TakenInv
    <3>2. ASSUME NEW j \in 1..Len(c.taken), NEW k \in 1..Len(c.taken), j < k,
                 d.taken[j] # 0, d.taken[k] # 0
          PROVE  d.taken[j] < d.taken[k]
      <4>1. d.taken[j] = c.taken[j]
        BY <2>1, <2>2, <2>4, <3>2
      <4>2. CASE k = Len(sent)
        BY <2>4, <2>5, <2>6, <4>1, <4>2
      <4>3. CASE k # Len(sent)
        BY <2>1, <2>4, <3>2, <4>1, <4>3 DEF TakenInv
      <4> QED BY <4>2, <4>3
    <3> QED BY <2>4, <3>1, <3>2 DEF TakenInv
  <2>11. OwnInv(d, sent)
    <3> SUFFICES ASSUME NEW k \in 1..Len(c.taken), d.taken[k] \notin {0, k}
                 PROVE  \E j \in 1..(k - 1) : sent[j] = "RESET"
      BY <2>4 DEF OwnInv
    <3>1. CASE k = Len(sent)
      <4>1. P[1].of # Len(sent)
        BY <2>4, <3>1
      <4> QED BY <1>2, <2>4, <3>1, <4>1, TakesOwn DEF P
    <3>2. CASE k # Len(sent)
      BY <2>1, <2>4, <3>2 DEF OwnInv
    <3> QED BY <3>1, <3>2
  <2>12. Kept(d, sent, seen)
    BY <2>1, <2>4, <2>7, <2>8, <2>9, <2>10, <2>11 DEF Kept
  <2> QED BY <2>4, <2>12 DEF d
<1> QED BY <1>1, <1>2

LEMMA OnReadKept ==
    ASSUME NEW c, Kept(c, sent, seen)
    PROVE  Kept(OnRead(c), sent, seen) /\ OnRead(c).writes = c.writes
<1>1. CASE c.socket = << >>
  BY <1>1 DEF OnRead
<1>2. CASE c.socket # << >>
  <2> DEFINE m == [c EXCEPT !.read_buffer = @ \o c.socket, !.socket = << >>]
  <2>1. c \in Connections /\ c.writes <= Len(sent) /\ WaitInv(c, sent)
    BY DEF Kept
  <2>2. /\ m \in Connections /\ Pending(m) = Pending(c)
        /\ m.expected = c.expected /\ m.status = c.status
        /\ m.taken = c.taken /\ m.writes = c.writes
    BY <2>1, MovedPending
  <2>3. OnRead(c) = Process(m)
    BY <1>2 DEF OnRead
  <2> HIDE DEF m
  <2>4. Kept(m, sent, seen)
    BY <2>1, <2>2, KeptSame DEF WaitInv
  <2> QED BY <2>2, <2>3, <2>4, ProcessKept
<1> QED BY <1>1, <1>2

LEMMA TurnsKept ==
    ASSUME NEW c, Kept(c, sent, seen), NEW d \in Turns(c)
    PROVE  Kept(d, sent, seen)
<1>1. Kept(Process(OnRead(c)), sent, seen)
  BY OnReadKept, ProcessKept
<1>2. ASSUME c.writes # 0
      PROVE  /\ Kept(Process(OnRead(OnWrite(c))), sent, seen)
             /\ Kept(Process(OnWrite(OnRead(c))), sent, seen)
  <2>1. Kept(OnWrite(c), sent, seen)
    BY <1>2, OnWriteKept
  <2>2. Kept(Process(OnRead(OnWrite(c))), sent, seen)
    BY <2>1, OnReadKept, ProcessKept
  <2>3. Kept(OnRead(c), sent, seen) /\ OnRead(c).writes # 0
    BY <1>2, OnReadKept
  <2>4. Kept(OnWrite(OnRead(c)), sent, seen)
    BY <2>3, OnWriteKept
  <2>5. Kept(Process(OnWrite(OnRead(c))), sent, seen)
    BY <2>4, ProcessKept
  <2> QED BY <2>2, <2>5
<1> QED BY <1>1, <1>2 DEF Turns


-----------------------------------------------------------------------------
(* Commands and the server                                                   *)

LEMMA TakenAppend ==
    ASSUME NEW t \in Seq(0..MaxCommands)
    PROVE  /\ Append(t, 0) \in Seq(0..MaxCommands)
           /\ Len(t) \in Nat /\ Len(Append(t, 0)) = Len(t) + 1
           /\ \A k \in 1..Len(t) : Append(t, 0)[k] = t[k]
           /\ Append(t, 0)[Len(t) + 1] = 0
<1>1. MaxCommands \in Nat
  BY ExchangeAssumption
<1>2. 0 \in 0..MaxCommands
  BY <1>1
<1> QED BY <1>2, AppendProperties

(* A command is sent when no other is waited for, so what it adds to the     *)
(* answers the server owes is what it adds to those that are waited for,     *)
(* except COM_STMT_RESET and COM_STMT_SEND_LONG_DATA.                        *)
LEMMA SendCount ==
    ASSUME NEW s \in Seq(Commands), NEW n \in 0..Len(s), NEW c, NEW d,
           NEW command \in Commands, CountInv(c, s, n), Len(Pending(c)) \in Nat,
           ~c.expected, d.expected = Expects(command), Pending(d) = Pending(c)
    PROVE  CountInv(d, Append(s, command), n)
<1> DEFINE t == Append(s, command)
<1>1. n \in Nat
  BY LenProperties
<1>2. /\ Owed(s, n) \in Nat /\ Count(s, "LONG_DATA") \in Nat
      /\ Count(s, "RESET") \in Nat
  BY <1>1, OwedNat, CountNat
<1>3. Len(Pending(c)) + Owed(s, n) + Count(s, "LONG_DATA")
        = Count(s, "RESET") + 0
  BY DEF CountInv, Waiting
<1>4. Owed(t, n) = Owed(s, n) + IF Silent(command) THEN 0 ELSE 1
  BY OwedAppend
<1>5. Count(t, "LONG_DATA")
        = Count(s, "LONG_DATA") + IF command = "LONG_DATA" THEN 1 ELSE 0
  BY CountAppend
<1>6. Count(t, "RESET") = Count(s, "RESET") + IF command = "RESET" THEN 1 ELSE 0
  BY CountAppend
<1>7. Waiting(d) = IF Expects(command) THEN 1 ELSE 0
  BY DEF Waiting
<1> HIDE DEF t
<1> SUFFICES Len(Pending(c)) + Owed(t, n) + Count(t, "LONG_DATA")
               = Count(t, "RESET") + Waiting(d)
  BY DEF CountInv, t
<1>8. CASE command = "LONG_DATA"
  <2>1. /\ Owed(t, n) = Owed(s, n) + 0 /\ Waiting(d) = 1
        /\ Count(t, "LONG_DATA") = Count(s, "LONG_DATA") + 1
        /\ Count(t, "RESET") = Count(s, "RESET") + 0
    BY <1>4, <1>5, <1>6, <1>7, <1>8 DEF Silent, Expects
  <2> QED BY <1>2, <1>3, <2>1
<1>9. CASE command = "RESET"
  <2>1. /\ Owed(t, n) = Owed(s, n) + 1 /\ Waiting(d) = 0
        /\ Count(t, "LONG_DATA") = Count(s, "LONG_DATA") + 0
        /\ Count(t, "RESET") = Count(s, "RESET") + 1
    BY <1>4, <1>5, <1>6, <1>7, <1>9 DEF Silent, Expects
  <2> QED BY <1>2, <1>3, <2>1
<1>10. CASE command = "CLOSE"
  <2>1. /\ Owed(t, n) = Owed(s, n) + 0 /\ Waiting(d) = 0
        /\ Count(t, "LONG_DATA") = Count(s, "LONG_DATA") + 0
        /\ Count(t, "RESET") = Count(s, "RESET") + 0
    BY <1>4, <1>5, <1>6, <1>7, <1>10 DEF Silent, Expects
  <2> QED BY <1>2, <1>3, <2>1
<1>11. CASE command \notin {"LONG_DATA", "RESET", "CLOSE"}
  <2>1. /\ Owed(t, n) = Owed(s, n) + 1 /\ Waiting(d) = 1
        /\ Count(t, "LONG_DATA") = Count(s, "LONG_DATA") + 0
        /\ Count(t, "RESET") = Count(s, "RESET") + 0
    BY <1>4, <1>5, <1>6, <1>7, <1>11 DEF Silent, Expects
  <2> QED BY <1>2, <1>3, <2>1
<1> QED BY <1>8, <1>9, <1>10, <1>11

LEMMA SendKept ==
    ASSUME Kept(con, sent, seen), NEW command \in Commands, Send(command)
    PROVE  Kept(con', sent', seen')
<1>1. /\ con \in Connections /\ sent \in Seq(Commands)
      /\ Len(sent) \in Nat /\ seen \in 0..Len(sent)
      /\ Len(con.taken) = Len(sent) /\ con.writes <= Len(sent)
      /\ WaitInv(con, sent) /\ CountInv(con, sent, seen)
      /\ PendingInv(con, seen) /\ TakenInv(con, seen) /\ OwnInv(con, sent)
      /\ MaxCommands \in Nat
  BY ExchangeAssumption, LenProperties DEF Kept
<1>2. /\ Len(sent) < MaxCommands /\ ~con.expected
  BY <1>1 DEF Send, MaySend, WaitInv, Expects
<1>3. /\ sent' = Append(sent, command) /\ seen' = seen
      /\ con' = [con EXCEPT !.server_errno = FALSE,
                          !.expected = @ \/ Expects(command),
                          !.status = "BUSY",
                          !.writes = @ + 1,
                          !.stmt = IF command = "CLOSE" THEN FALSE
                                   ELSE @ \/ command = "PREPARE",
                          !.taken = Append(@, 0)]
  BY DEF Send
<1>4. con.taken \in Seq(0..MaxCommands) /\ con.writes \in Nat
  BY <1>1 DEF Connections
<1>5. /\ con'.taken = Append(con.taken, 0) /\ con'.status = "BUSY"
      /\ con'.read_buffer = con.read_buffer /\ con'.socket = con.socket
      /\ con'.writes = con.writes + 1
  BY <1>1, <1>3 DEF Connections
<1>6. con'.expected = Expects(command)
  BY <1>1, <1>2, <1>3 DEF Connections, Expects
<1>7. /\ Append(con.taken, 0) \in Seq(0..MaxCommands)
      /\ con.writes + 1 \in 0..MaxCommands
  BY <1>1, <1>2, <1>4, TakenAppend
<1>8. con' \in Connections
  BY <1>1, <1>3, <1>7 DEF Connections, Expects
<1>9. /\ sent' \in Seq(Commands) /\ Len(sent') = Len(sent) + 1
      /\ sent' # << >> /\ sent'[Len(sent')] = command
      /\ \A k \in 1..Len(sent) : sent'[k] = sent[k]
  BY <1>1, <1>3, AppendFacts
<1>10. /\ Len(con'.taken) = Len(sent')
       /\ \A k \in 1..Len(sent) : con'.taken[k] = con.taken[k]
       /\ con'.taken[Len(sent) + 1] = 0
  BY <1>1, <1>4, <1>5, <1>9, TakenAppend
<1>11. /\ Len(sent') <= MaxCommands /\ seen' \in 0..Len(sent')
       /\ con'.writes <= Len(sent') /\ seen' # Len(sent')
       /\ 1..Len(sent') = 1..Len(sent) \union {Len(sent) + 1}
  BY <1>1, <1>2, <1>3, <1>4, <1>5, <1>9
<1>12. WaitInv(con', sent')
  BY <1>5, <1>6, <1>9 DEF WaitInv
<1>13. Pending(con') = Pending(con) /\ Len(Pending(con)) \in Nat
  BY <1>1, <1>5, PendingFacts DEF Pending
<1>14. CountInv(con', sent', seen')
  <2>1. CountInv(con', Append(sent, command), seen)
    BY <1>1, <1>2, <1>6, <1>13, SendCount
  <2> QED BY <1>3, <2>1
<1>15. PendingInv(con', seen')
  <2>1. ASSUME NEW i \in 1..Len(Pending(con)), NEW j \in 1..Len(sent')
        PROVE  con'.taken[j] < Pending(con)[i].of
    <3>1. /\ Pending(con)[i].of \in 1..seen
          /\ j \in 1..Len(sent) => con.taken[j] < Pending(con)[i].of
      BY <1>1 DEF PendingInv
    <3>2. CASE j \in 1..Len(sent)
      BY <1>10, <3>1, <3>2
    <3>3. CASE j = Len(sent) + 1
      <4>1. con'.taken[j] = 0
        BY <1>10, <3>3
      <4> QED BY <1>1, <3>1, <4>1
    <3> QED BY <1>11, <3>2, <3>3
  <2> QED BY <1>1, <1>3, <1>10, <1>13, <2>1 DEF PendingInv
<1>16. TakenInv(con', seen')
  <2>1. \A j \in 1..Len(sent') : con'.taken[j] <= seen
    BY <1>1, <1>10, <1>11 DEF TakenInv
  <2>2. ASSUME NEW j \in 1..Len(sent'), NEW k \in 1..Len(sent'), j < k,
               con'.taken[j] # 0, con'.taken[k] # 0
        PROVE  con'.taken[j] < con'.taken[k]
    <3>1. j \in 1..Len(sent) /\ k \in 1..Len(sent)
      BY <1>10, <1>11, <2>2
    <3> QED BY <1>1, <1>10, <2>2, <3>1 DEF TakenInv
  <2> QED BY <1>3, <1>10, <2>1, <2>2 DEF TakenInv
<1>17. LastInv(con', sent', seen')
  BY <1>11 DEF LastInv
<1>18. OwnInv(con', sent')
  <2> SUFFICES ASSUME NEW k \in 1..Len(sent'), con'.taken[k] \notin {0, k}
               PROVE  \E j \in 1..(k - 1) : sent'[j] = "RESET"
    BY <1>10 DEF OwnInv
  <2>1. k \in 1..Len(sent) /\ con.taken[k] \notin {0, k}
    BY <1>10, <1>11
  <2>2. PICK j \in 1..(k - 1) : sent[j] = "RESET"
    BY <1>1, <2>1 DEF OwnInv
  <2>3. j \in 1..Len(sent)
    BY <1>1, <2>1
  <2> QED BY <1>9, <2>2, <2>3
<1> QED BY <1>8, <1>9, <1>10, <1>11, <1>12, <1>14, <1>15, <1>16, <1>17, <1>18
        DEF Kept


LEMMA ConcatAppend ==
    ASSUME NEW S, NEW q \in Seq(S), NEW r \in Seq(S), NEW a \in S
    PROVE  /\ Len(q \o Append(r, a)) = Len(q \o r) + 1
           /\ \A i \in 1..Len(q \o r) : (q \o Append(r, a))[i] = (q \o r)[i]
           /\ (q \o Append(r, a))[Len(q \o r) + 1] = a
<1>1. /\ Len(q) \in Nat /\ Len(r) \in Nat
      /\ Append(r, a) \in Seq(S) /\ Len(Append(r, a)) = Len(r) + 1
      /\ \A i \in 1..Len(r) : Append(r, a)[i] = r[i]
      /\ Append(r, a)[Len(r) + 1] = a
  BY LenProperties, AppendProperties
<1> DEFINE b == Append(r, a)
<1> HIDE DEF b
<1>2. /\ Len(q \o r) = Len(q) + Len(r)
      /\ \A i \in 1..(Len(q) + Len(r)) :
           (q \o r)[i] = IF i <= Len(q) THEN q[i] ELSE r[i - Len(q)]
  BY ConcatProperties
<1>3. /\ Len(q \o b) = Len(q) + Len(b)
      /\ \A i \in 1..(Len(q) + Len(b)) :
           (q \o b)[i] = IF i <= Len(q) THEN q[i] ELSE b[i - Len(q)]
  BY <1>1, ConcatProperties DEF b
<1>4. /\ Len(b) = Len(r) + 1 /\ b[Len(r) + 1] = a
      /\ \A i \in 1..Len(r) : b[i] = r[i]
  BY <1>1 DEF b
<1>5. ASSUME NEW i \in 1..Len(q \o r) PROVE (q \o b)[i] = (q \o r)[i]
  <2>1. /\ i \in 1..(Len(q) + Len(r)) /\ i \in 1..(Len(q) + Len(b))
        /\ ~(i <= Len(q)) => i - Len(q) \in 1..Len(r)
    BY <1>1, <1>2, <1>4
  <2> QED BY <1>2, <1>3, <1>4, <2>1
<1>6. (q \o b)[Len(q \o r) + 1] = a
  <2>1. /\ Len(q) + Len(r) + 1 \in 1..(Len(q) + Len(b))
        /\ ~(Len(q) + Len(r) + 1 <= Len(q))
        /\ Len(q) + Len(r) + 1 - Len(q) = Len(r) + 1
    BY <1>1, <1>4
  <2> QED BY <1>2, <1>3, <1>4, <2>1
<1> QED BY <1>1, <1>2, <1>3, <1>4, <1>5, <1>6 DEF b

LEMMA ServerReadsKept ==
    ASSUME Kept(con, sent, seen), ServerReads
    PROVE  Kept(con', sent', seen')
<1>1. /\ con \in Connections /\ sent \in Seq(Commands)
      /\ Len(sent) \in Nat /\ Len(sent) <= MaxCommands /\ seen \in 0..Len(sent)
      /\ Len(con.taken) = Len(sent) /\ con.writes <= Len(sent)
      /\ WaitInv(con, sent) /\ CountInv(con, sent, seen)
      /\ PendingInv(con, seen) /\ TakenInv(con, seen) /\ OwnInv(con, sent)
      /\ MaxCommands \in Nat
  BY ExchangeAssumption, LenProperties DEF Kept
<1>2. seen < Len(sent) /\ seen' = seen + 1 /\ sent' = sent
  BY DEF ServerReads
<1>3. /\ seen \in Nat /\ seen' \in 0..Len(sent) /\ seen' \in 1..MaxCommands
      /\ 1..seen' = 1..seen \union {seen'} /\ seen < seen'
  BY <1>1, <1>2
<1>4. Owed(sent, seen) = Owed(sent, seen')
                           + IF Silent(sent[seen']) THEN 0 ELSE 1
  BY <1>1, <1>2, OwedNext
<1>5. /\ Owed(sent, seen') \in Nat /\ Count(sent, "LONG_DATA") \in Nat
      /\ Count(sent, "RESET") \in Nat
  <2>1. seen' \in Nat
    BY <1>1, <1>3
  <2>2. Owed(sent, seen') \in Nat
    BY <1>1, <2>1, OwedNat
  <2> QED BY <1>1, <2>2, CountNat
<1> DEFINE P == Pending(con)
<1>6. Len(P) \in Nat /\ Len(con.taken) \in Nat
      /\ con.taken \in Seq(0..MaxCommands)
  BY <1>1, PendingFacts
<1>7. \A j \in 1..Len(con.taken) : con.taken[j] \in Nat /\ con.taken[j] <= seen
  <2>1. \A j \in 1..Len(con.taken) : con.taken[j] \in 0..MaxCommands
    BY <1>6, ElementOfSeq
  <2> QED BY <1>1, <2>1 DEF TakenInv
<1>8. \A j \in 1..Len(con.taken) : con.taken[j] <= seen'
  BY <1>2, <1>3, <1>7
<1>9. TakenInv(con, seen')
  BY <1>1, <1>8 DEF TakenInv
<1>10. CASE Silent(sent[seen']) /\ con' = con
  <2>1. CountInv(con, sent, seen')
    <3>1. Owed(sent, seen) = Owed(sent, seen')
      BY <1>4, <1>5, <1>10
    <3> QED BY <1>1, <3>1 DEF CountInv
  <2>2. PendingInv(con, seen')
    BY <1>1, <1>3 DEF PendingInv
  <2>3. LastInv(con, sent, seen')
    BY <1>10 DEF LastInv
  <2>4. Kept(con, sent, seen')
    BY <1>1, <1>3, <1>9, <2>1, <2>2, <2>3 DEF Kept
  <2> QED BY <1>2, <1>10, <2>4
<1>11. CASE /\ ~Silent(sent[seen'])
            /\ \E error \in BOOLEAN :
                 con' = [con EXCEPT !.socket =
                           Append(@, [of |-> seen', error |-> error])]
  <2>1. PICK error \in BOOLEAN :
          con' = [con EXCEPT !.socket =
                    Append(@, [of |-> seen', error |-> error])]
    BY <1>11
  <2> DEFINE a == [of |-> seen', error |-> error]
             d == con'
             Q == Pending(d)
  <2>2. a \in Answers /\ a.of = seen'
    BY <1>3 DEF Answers
  <2> HIDE DEF a
  <2>3. con' = [con EXCEPT !.socket = Append(con.socket, a)]
    BY <2>1 DEF a
  <2>4. /\ d.socket = Append(con.socket, a) /\ d.read_buffer = con.read_buffer
        /\ d.taken = con.taken /\ d.writes = con.writes
        /\ d.status = con.status /\ d.expected = con.expected
    BY <1>1, <2>3 DEF Connections
  <2>5. con.socket \in Seq(Answers) /\ con.read_buffer \in Seq(Answers)
    BY <1>1 DEF Connections
  <2>6. Append(con.socket, a) \in Seq(Answers)
    BY <2>2, <2>5, AppendProperties
  <2>7. d \in Connections
    BY <1>1, <2>3, <2>6 DEF Connections
  <2>8. /\ Len(Q) = Len(P) + 1 /\ Q[Len(P) + 1] = a
        /\ \A i \in 1..Len(P) : Q[i] = P[i]
    <3>1. /\ Q = con.read_buffer \o Append(con.socket, a)
          /\ P = con.read_buffer \o con.socket
      BY <2>4 DEF Pending
    <3> HIDE DEF Q, P, d
    <3> DEFINE q == con.read_buffer
               r == con.socket
    <3>2. q \in Seq(Answers) /\ r \in Seq(Answers)
      BY <2>5
    <3> HIDE DEF q, r
    <3>3. /\ Len(q \o Append(r, a)) = Len(q \o r) + 1
          /\ \A i \in 1..Len(q \o r) : (q \o Append(r, a))[i] = (q \o r)[i]
          /\ (q \o Append(r, a))[Len(q \o r) + 1] = a
      BY <2>2, <3>2, ConcatAppend
    <3> QED BY <3>1, <3>3, Zenon DEF q, r
  <2> HIDE DEF Q, P, d
  <2>9. 1..Len(Q) = 1..Len(P) \union {Len(P) + 1}
    BY <1>6, <2>8
  <2>10. CountInv(d, sent, seen')
    <3>1. Owed(sent, seen) = Owed(sent, seen') + 1
      BY <1>4, <1>11
    <3>2. Waiting(d) = Waiting(con) /\ Waiting(con) \in Nat
      BY <2>4 DEF Waiting
    <3>3. Len(P) + Owed(sent, seen) + Count(sent, "LONG_DATA")
            = Count(sent, "RESET") + Waiting(con)
      BY <1>1 DEF CountInv, P
    <3>4. Len(Q) + Owed(sent, seen') + Count(sent, "LONG_DATA")
            = Count(sent, "RESET") + Waiting(con)
      BY <1>5, <1>6, <2>8, <3>1, <3>2, <3>3
    <3> QED BY <3>2, <3>4 DEF CountInv, Q
  <2>11. /\ \A i \in 1..Len(P) : P[i].of \in 1..seen
         /\ \A i, j \in 1..Len(P) : i < j => P[i].of < P[j].of
         /\ \A i \in 1..Len(P), j \in 1..Len(con.taken) : con.taken[j] < P[i].of
    BY <1>1 DEF PendingInv, P
  <2>12. PendingInv(d, seen')
    <3>1. ASSUME NEW i \in 1..Len(Q) PROVE Q[i].of \in 1..seen'
      BY <1>3, <2>2, <2>8, <2>9, <2>11
    <3>2. ASSUME NEW i \in 1..Len(Q), NEW j \in 1..Len(Q), i < j
          PROVE  Q[i].of < Q[j].of
      <4>1. i \in 1..Len(P)
        BY <1>6, <2>8, <3>2
      <4>2. CASE j \in 1..Len(P)
        BY <2>8, <2>11, <3>2, <4>1, <4>2
      <4>3. CASE j = Len(P) + 1
        <5>1. Q[j].of = seen' /\ Q[i].of \in 1..seen
          BY <2>2, <2>8, <2>11, <4>1, <4>3
        <5> QED BY <1>2, <1>3, <5>1
      <4> QED BY <2>9, <4>2, <4>3
    <3>3. ASSUME NEW i \in 1..Len(Q), NEW j \in 1..Len(con.taken)
          PROVE  con.taken[j] < Q[i].of
      <4>1. CASE i \in 1..Len(P)
        BY <2>8, <2>11, <4>1
      <4>2. CASE i = Len(P) + 1
        <5>1. Q[i].of = seen'
          BY <2>2, <2>8, <4>2
        <5>2. con.taken[j] \in Nat /\ con.taken[j] <= seen
          BY <1>7
        <5> QED BY <1>2, <1>3, <5>1, <5>2
      <4> QED BY <2>9, <4>1, <4>2
    <3> QED BY <2>4, <3>1, <3>2, <3>3 DEF PendingInv, Q
  <2>13. LastInv(d, sent, seen')
    <3>1. Len(P) + 1 \in 1..Len(Q) /\ Q[Len(P) + 1].of = seen'
      BY <2>2, <2>8, <2>9
    <3> QED BY <3>1 DEF LastInv, Q
  <2>14. WaitInv(d, sent) /\ TakenInv(d, seen') /\ OwnInv(d, sent)
    BY <1>1, <1>9, <2>4 DEF WaitInv, TakenInv, OwnInv
  <2>15. Kept(d, sent, seen')
    BY <1>1, <1>3, <2>4, <2>7, <2>10, <2>12, <2>13, <2>14 DEF Kept
  <2> QED BY <1>2, <2>15 DEF d
<1> QED BY <1>10, <1>11 DEF ServerReads

-----------------------------------------------------------------------------
(* The theorems                                                              *)

LEMMA ExchangeInit == Init => ExchangeInv
<1> SUFFICES ASSUME Init PROVE ExchangeInv
  OBVIOUS
<1>1. /\ con = [status |-> "IDLE", expected |-> FALSE, server_errno |-> FALSE,
                stmt |-> FALSE, read_buffer |-> << >>, socket |-> << >>,
                writes |-> 0, taken |-> << >>]
      /\ sent = << >> /\ seen = 0 /\ ret = "EOF" /\ MaxCommands \in Nat
  BY ExchangeAssumption DEF Init
<1>2. 0 \in 0..MaxCommands
  BY <1>1
<1>3. con \in Connections /\ sent \in Seq(Commands) /\ Len(sent) = 0
  BY <1>1, <1>2 DEF Connections
<1>4. /\ ~con.expected /\ con.writes = 0 /\ Len(con.taken) = 0
      /\ con.read_buffer = << >> /\ con.socket = << >>
  BY <1>1
<1>5. Len(Pending(con)) = 0
  BY <1>4 DEF Pending
<1>6. Owed(sent, 0) = 0 /\ Count(sent, "LONG_DATA") = 0 /\ Count(sent, "RESET") = 0
  <2>1. Count(sent, "LONG_DATA") = 0 /\ Count(sent, "RESET") = 0
    <3>1. \A k \in 1..Len(sent) : sent[k] # "LONG_DATA" /\ sent[k] # "RESET"
      BY <1>3
    <3> QED BY <1>3, <3>1, CountZero
  <2>2. {k \in (0 + 1)..Len(sent) : ~Silent(sent[k])} = {}
    BY <1>3
  <2> QED BY <2>1, <2>2, FS_EmptySet DEF Owed
<1>7. CountInv(con, sent, seen)
  BY <1>1, <1>4, <1>5, <1>6 DEF CountInv, Waiting
<1> QED BY <1>1, <1>3, <1>4, <1>5, <1>7
        DEF ExchangeInv, Kept, WaitInv, PendingInv, TakenInv, LastInv, OwnInv

LEMMA ExchangeStep == ExchangeInv /\ [Next]_vars => ExchangeInv'
<1> SUFFICES ASSUME ExchangeInv, [Next]_vars PROVE ExchangeInv'
  OBVIOUS
<1>1. Kept(con, sent, seen) /\ ret \in {"NONE", "PROCESSING", "ERROR", "EOF"}
  BY DEF ExchangeInv
<1>2. ASSUME NEW command \in Commands, Send(command) PROVE ExchangeInv'
  <2>1. ret' = "NONE"
    BY <1>2 DEF Send
  <2> QED BY <1>1, <1>2, <2>1, SendKept DEF ExchangeInv
<1>3. CASE ServerReads
  <2>1. ret' = ret
    BY <1>3 DEF ServerReads
  <2> QED BY <1>1, <1>3, <2>1, ServerReadsKept DEF ExchangeInv
<1>4. CASE Poll
  <2>1. /\ sent' = sent /\ seen' = seen
        /\ con' = con \/ con' \in Turns(con)
    BY <1>4 DEF Poll
  <2>2. ret' \in {"NONE", "PROCESSING", "ERROR", "EOF"}
    BY <1>4 DEF Poll, Returned
  <2>3. Kept(con', sent, seen)
    BY <1>1, <2>1, TurnsKept
  <2> QED BY <2>1, <2>2, <2>3 DEF ExchangeInv
<1>5. CASE UNCHANGED vars
  BY <1>1, <1>5 DEF ExchangeInv, vars
<1> QED BY <1>2, <1>3, <1>4, <1>5 DEF Next

LEMMA ExchangeAlways == Spec => []ExchangeInv
  BY ExchangeInit, ExchangeStep, PTL DEF Spec

(* What the invariant says of an idle connection, of the order of the        *)
(* answers and of what was taken.                                            *)
LEMMA ExchangeKept == ExchangeInv => CountKept /\ AnswerIsOwn
<1> SUFFICES ASSUME ExchangeInv PROVE CountKept /\ AnswerIsOwn
  OBVIOUS
<1>1. /\ con \in Connections /\ sent \in Seq(Commands)
      /\ Len(sent) \in Nat /\ seen \in 0..Len(sent)
      /\ Len(con.taken) = Len(sent) /\ con.writes <= Len(sent)
      /\ WaitInv(con, sent) /\ CountInv(con, sent, seen)
      /\ TakenInv(con, seen) /\ OwnInv(con, sent)
      /\ ret \in {"NONE", "PROCESSING", "ERROR", "EOF"}
  BY LenProperties DEF ExchangeInv, Kept
<1>2. DOMAIN con.taken = 1..Len(con.taken)
  BY <1>1, PendingFacts, LenProperties
<1>3. TypeOK
  BY <1>1 DEF TypeOK, WaitInv
<1>4. BehindByResets
  <2> SUFFICES ASSUME con.status = "IDLE"
               PROVE  Unread + Sent("LONG_DATA") = Sent("RESET")
    BY DEF BehindByResets
  <2>1. Waiting(con) = 0
    BY <1>1 DEF WaitInv, Waiting
  <2>2. /\ Unread = Len(Pending(con)) + Owed(sent, seen)
        /\ Sent("LONG_DATA") = Count(sent, "LONG_DATA")
        /\ Sent("RESET") = Count(sent, "RESET")
    BY <1>1, PendingFacts DEF Unread, Owed, Sent, Count
  <2>3. Count(sent, "RESET") \in Nat
    BY <1>1, CountNat
  <2>4. Len(Pending(con)) + Owed(sent, seen) + Count(sent, "LONG_DATA")
          = Count(sent, "RESET") + 0
    BY <1>1, <2>1 DEF CountInv
  <2> QED BY <2>2, <2>3, <2>4
<1>5. AnswersInOrder
  BY <1>1, <1>2 DEF AnswersInOrder, TakenInv
<1>6. AnswerIsOwn
  BY <1>1, <1>2 DEF AnswerIsOwn, OwnInv
<1> QED BY <1>3, <1>4, <1>5, <1>6 DEF CountKept

(* The library counts answers as the server does: an idle connection is      *)
(* behind by the COM_STMT_RESET it has sent, less the                        *)
(* COM_STMT_SEND_LONG_DATA, and by nothing else, and answers are taken in    *)
(* the order of their commands, for any number of commands in any order the  *)
(* calls allow (command.cc:121, net.cc:355, net.cc:541).                     *)
THEOREM CountKeptCorrect == Spec => []CountKept
  BY ExchangeAlways, ExchangeKept, PTL

(* What a command reports is its own answer unless a COM_STMT_RESET was sent *)
(* before it (command.cc:125): the commands of a query and of a statement    *)
(* that is not reset never report each other's answers.                      *)
THEOREM AnswerIsOwnCorrect == Spec => []AnswerIsOwn
  BY ExchangeAlways, ExchangeKept, PTL
=============================================================================

------------------------------ MODULE TlsProofs ------------------------------
(***************************************************************************)
(* What is sent over TLS is encrypted and arrives whole, and what is       *)
(* received is not lost, for messages and answers of any size and any      *)
(* number of commands.                                                     *)
(***************************************************************************)
EXTENDS Tls, Integers, FiniteSetTheorems, SequenceTheorems,
        WellFoundedInduction, TLAPS

(* Chunks that may be written before OpenSSL has finished its handshake, and *)
(* those that have to wait until then.                                       *)
Open == {k \in Chunks : ~IsData(k)}
Secret == {k \in Chunks : IsData(k) /\ ~k.clear}
Written == Open \union Secret

Strings == {"GREETING", "CERTIFICATE", "FINISHED", "DATA", "ALERT", "ERROR"}

Connections ==
    [status : {"CONNECTING", "CONNECT_FAILED", "IDLE", "BUSY", "SSL_ERROR",
               "NET_ERROR"},
     expected : BOOLEAN, handshake_done : BOOLEAN, finished : BOOLEAN,
     failed : BOOLEAN, closed : BOOLEAN, start : Nat, end : Nat, used : Nat, size : Nat,
     waiting : Seq(Secret), read_bio : Seq(Strings), write_bio : Seq(Open),
     ssl_write_buffer : Seq(Written), queued : Nat, done : Nat,
     read_buffer : Nat, out : Seq(Written), room : BOOLEAN, thrown : Nat]

(* What every step of the library keeps, in the middle of a poll too: the    *)
(* offsets of ssl.write_buffer, and that no secret is in libuv's hands       *)
(* before the handshake of OpenSSL is finished.                              *)
ConInv(c) ==
    /\ c \in Connections
    /\ c.end = c.start + Len(c.waiting) /\ c.used = c.end
    /\ ~c.finished => c.out \in Seq(Open) /\ c.ssl_write_buffer \in Seq(Open)
    /\ c.queued > 0 => c.ssl_write_buffer # << >>

(* A server without TLS is sent nothing.                                     *)
PlainInv ==
    ~server.ssl => /\ con.out = << >> /\ con.queued = 0 /\ con.done = 0
                   /\ ~con.handshake_done /\ ~con.finished /\ ~server.gone
                   /\ con.status \in {"CONNECTING", "CONNECT_FAILED"}

(* Between two polls OpenSSL has nothing that was not read, unless a read    *)
(* has brought several records; libuv has nothing to write, unless the       *)
(* socket was full.                                                          *)
RestInv ==
    /\ "burst" \notin met \/ ~con.handshake_done => con.read_bio = << >>
    /\ "full" \notin met => con.room /\ con.queued = 0
    /\ con.thrown = 0

(* The inductive invariant.  SentEncrypted and AnswersKept are not inductive *)
(* without the last two.                                                     *)
TlsInv ==
    /\ ConInv(con)
    /\ server \in [ssl : BOOLEAN, seen : Nat, answer : Nat, gone : BOOLEAN,
                   in : Seq(Strings)]
    /\ given \in Seq(Secret)
    /\ lost \in Nat /\ met \subseteq {"full", "burst"}
    /\ AnswersKept
    /\ PlainInv /\ RestInv

-----------------------------------------------------------------------------
(* Messages arrive whole                                                     *)

(* Every message given so far is one chunk; the socket was never full.       *)
Single(g) == \A i \in 1..Len(g) : g[i].part <= 1
Kept(g, m) == "full" \notin m \/ Single(g)

(* Where the chunks of the messages are, in their order.                     *)
Data(s) == DataUpTo(s)[Len(s)]
Queued(c) == IF c.queued = 1 THEN c.ssl_write_buffer ELSE << >>
Stream(c) == Data(c.out) \o Queued(c)

(* OpenSSL has had the server's last record.                                 *)
Over(c) == c.failed \/ c.closed

(* f are the records on their way, and how many of them and of those read    *)
(* belong to an answer; the alert is the last one.                           *)
Alert(c, s) == s.gone /\ ~Over(c)
Unread(c, f, s) == c.read_buffer + Len(f) - (IF Alert(c, s) THEN 1 ELSE 0)
OnWay(f, alert) ==
    /\ alert => f # << >>
    /\ \A i \in 1..Len(f) :
         IF alert /\ i = Len(f) THEN f[i] \in {"ALERT", "ERROR"}
                                ELSE f[i] = "DATA"

(* Before the greeting was read.                                             *)
Greeting(c, s, g) ==
    /\ g = << >> /\ c.waiting = << >> /\ c.out = << >>
    /\ c.read_bio = << >> /\ c.write_bio = << >>
    /\ Len(s.in) <= 1 /\ ~s.gone /\ s.seen = 0
    /\ ~c.finished /\ ~Over(c) /\ c.room /\ c.queued = 0 /\ c.done = 0
    /\ c.read_buffer = 0
    /\ \/ c.status = "CONNECTING" /\ c.expected
       \/ c.status = "CONNECT_FAILED" /\ ~s.ssl

(* While OpenSSL shakes hands: one record at a time, and the socket is free. *)
Shaking(c, s, g) ==
    /\ c.waiting # << >> /\ c.waiting = g
    /\ c.room /\ c.queued = 0 /\ c.done = 0
    /\ c.read_bio = << >> /\ c.write_bio = << >> /\ c.read_buffer = 0
    /\ Len(s.in) <= 1
    /\ s.in # << >> =>
         IF s.gone THEN s.in[1] \in {"ALERT", "ERROR"}
         ELSE s.in[1] \in {"CERTIFICATE", "FINISHED"} /\ s.seen = Len(c.out)
    /\ Over(c) => s.gone
    /\ IF c.failed THEN c.status = "SSL_ERROR" /\ ~c.expected
                   ELSE c.status = "CONNECTING" /\ c.expected

(* What was sent was not yet answered, or will not be in full.               *)
Starved(c, f, s) ==
    Unread(c, f, s) = 0 \/ (s.gone /\ Unread(c, f, s) < s.answer)

(* Once it has: what is on its way is the rest of one answer, and then the   *)
(* alert.  There is none of it while a command waits for its own.            *)
Answering(c, f, s) ==
    /\ OnWay(f, Alert(c, s))
    /\ Over(c) => s.gone /\ f = << >>
    /\ Unread(c, f, s) <= s.answer
    /\ ~c.expected \/ c.queued > 0 \/ s.seen < Len(c.out) => Starved(c, f, s)

(* What is read in full is taken at once.                                    *)
Taken(c, s) == c.expected => c.read_buffer = 0 \/ c.read_buffer # s.answer

(* Chunks are written at once if the socket was never full, and one at a     *)
(* time if each is a message.                                                *)
Sending(c, g, m) ==
    /\ c.handshake_done /\ c.waiting = << >> /\ c.write_bio = << >>
    /\ c.status = "IDLE" => ~c.expected /\ c.done = 0
    /\ Len(c.ssl_write_buffer) = 1 /\ IsData(c.ssl_write_buffer[1])
    /\ c.out # << >> /\ IsData(c.out[Len(c.out)])
    /\ "full" \notin m => c.room /\ c.queued = 0
    /\ Single(g) /\ c.queued > 0 =>
         c.queued = 1 /\ c.status # "IDLE" /\ c.done = 0
    /\ Kept(g, m) => Stream(c) = g

Held ==
    IF ~con.handshake_done THEN Greeting(con, server, given)
    ELSE IF ~con.finished THEN Shaking(con, server, given)
    ELSE /\ Answering(con, con.read_bio \o server.in, server)
         /\ Taken(con, server)
         /\ Sending(con, given, met)

(* With TlsInv, the inductive invariant for SentIntact: after the end of the *)
(* socket only what was sent counts.                                         *)
IntactInv == SentIntact /\ (con.status # "NET_ERROR" => Held)

-----------------------------------------------------------------------------
(* Sequences                                                                 *)

LEMMA ConcatIn ==
    ASSUME NEW S, NEW s \in Seq(S), NEW t \in Seq(S)
    PROVE  /\ s \o t \in Seq(S)
           /\ Len(s \o t) = Len(s) + Len(t)
           /\ s = << >> /\ t = << >> => s \o t = << >>
BY ConcatProperties, ConcatEmptySeq

LEMMA Wider ==
    Seq(Open) \subseteq Seq(Written) /\ Seq(Secret) \subseteq Seq(Written)
BY SeqMonotonic DEF Written

LEMMA LastOfConcat ==
    ASSUME NEW S, NEW s \in Seq(S), NEW t \in Seq(S), t # << >>
    PROVE  /\ s \o t # << >> /\ (s \o t)[Len(s \o t)] = t[Len(t)]
           /\ t[Len(t)] \in S /\ Len(s) < Len(s \o t)
<1> DEFINE u == s \o t
<1>1. /\ Len(u) = Len(s) + Len(t)
      /\ \A i \in 1..Len(s) + Len(t) :
           u[i] = IF i <= Len(s) THEN s[i] ELSE t[i - Len(s)]
  BY ConcatProperties
<1>2. Len(s) \in Nat /\ Len(t) \in Nat \ {0}  BY LenProperties, EmptySeq
<1> HIDE DEF u
<1>3. /\ Len(u) \in 1..Len(s) + Len(t) /\ ~(Len(u) <= Len(s))
      /\ Len(u) - Len(s) = Len(t) /\ Len(s) < Len(u) /\ Len(u) # 0
      /\ Len(t) \in 1..Len(t)
  BY <1>1, <1>2
<1>4. u[Len(u)] = t[Len(t)]  BY <1>1, <1>3
<1>5. u # << >>  BY <1>3, EmptySeq
<1>6. t[Len(t)] \in S  BY <1>3, ElementOfSeq
<1> QED BY <1>3, <1>4, <1>5, <1>6 DEF u

LEMMA LastIn ==
    ASSUME NEW S, NEW s \in Seq(S), s # << >>
    PROVE  << Last(s) >> \in Seq(S) /\ << Last(s) >> # << >>
<1>1. Len(s) \in 1..Len(s)  BY EmptySeq, LenProperties
<1>2. Last(s) \in S  BY <1>1, ElementOfSeq DEF Last
<1> QED BY <1>2

LEMMA TailIn ==
    ASSUME NEW S, NEW s \in Seq(S), s # << >>
    PROVE  Head(s) \in S /\ Tail(s) \in Seq(S) /\ Len(Tail(s)) = Len(s) - 1
BY HeadTailProperties

LEMMA StartIsPrefix ==
    ASSUME NEW S, NEW s \in Seq(S), NEW t \in Seq(S)
    PROVE  IsPrefix(s, s \o t)
<1> DEFINE u == s \o t
<1>1. /\ u \in Seq(S) /\ Len(u) = Len(s) + Len(t)
      /\ Len(s) \in Nat /\ Len(t) \in Nat
      /\ \A i \in 1..Len(s) + Len(t) :
           u[i] = IF i <= Len(s) THEN s[i] ELSE t[i - Len(s)]
  BY ConcatProperties, LenProperties
<1> HIDE DEF u
<1>2. Len(s) <= Len(u) /\ \A i \in 1..Len(s) : u[i] = s[i]  BY <1>1
<1> QED BY <1>1, <1>2 DEF IsPrefix, u

LEMMA NothingIsPrefix ==
    ASSUME NEW S, NEW s \in Seq(S)
    PROVE  IsPrefix(<< >>, s)
<1>1. << >> \o s = s /\ << >> \in Seq(S)  BY ConcatEmptySeq
<1> QED BY <1>1, StartIsPrefix

-----------------------------------------------------------------------------
(* The data in a sequence                                                    *)

(* A set of naturals that is not empty has a least element.                  *)
LEMMA LeastOf ==
    ASSUME NEW T \in SUBSET Nat, T # {}
    PROVE  \E n \in T : \A m \in T : n <= m
<1>1. IsWellFoundedOn(OpToRel(<, Nat), Nat)  BY NatLessThanWellFounded, Zenon
<1>2. PICK n \in T : \A y \in T : ~(<<y, n>> \in OpToRel(<, Nat))
  BY <1>1, WFMin, Zenon
<1>3. \A y \in T : ~(y < n)  BY <1>2 DEF OpToRel
<1> QED BY <1>3

(* What holds at the first place of an interval and is handed on to the next *)
(* place holds everywhere in it.                                             *)
LEMMA Everywhere ==
    ASSUME NEW a \in Int, NEW b \in Int, NEW T \in SUBSET (a..b),
           a <= b => a \in T,
           \A i \in T : i + 1 <= b => i + 1 \in T
    PROVE  T = a..b
<1> DEFINE Missed == {k \in Nat : a + k <= b /\ a + k \notin T}
<1>1. SUFFICES ASSUME Missed # {} PROVE FALSE
  <2> SUFFICES ASSUME NEW i \in a..b, i \notin T PROVE FALSE  OBVIOUS
  <2>1. i - a \in Nat /\ a + (i - a) = i /\ i <= b  OBVIOUS
  <2> QED BY <2>1, <1>1
<1>2. PICK k \in Missed : \A m \in Missed : k <= m
  <2>1. Missed \in SUBSET Nat  OBVIOUS
  <2> HIDE DEF Missed
  <2> QED BY <2>1, <1>1, LeastOf
<1>3. k \in Nat /\ a + k <= b /\ a + k \notin T  BY <1>2
<1>4. k # 0  BY <1>3
<1>5. k - 1 \in Nat /\ ~(k <= k - 1) /\ a + (k - 1) <= b  BY <1>3, <1>4
<1>6. k - 1 \notin Missed  BY <1>2, <1>5
<1>7. a + (k - 1) \in T  BY <1>5, <1>6
<1>8. (a + (k - 1)) + 1 = a + k  BY <1>3
<1> QED BY <1>3, <1>7, <1>8

LEMMA EverywhereUpTo ==
    ASSUME NEW n \in Nat, NEW T \in SUBSET (0..n), 0 \in T,
           \A i \in T : i + 1 <= n => i + 1 \in T
    PROVE  T = 0..n
<1>1. 0 \in Int /\ n \in Int  OBVIOUS
<1> QED BY <1>1, Everywhere

LEMMA DataAdds ==
    ASSUME NEW s \in Seq(Written)
    PROVE  /\ DataUpTo(s)[0] = << >>
           /\ \A i \in 0..Len(s) : DataUpTo(s)[i] \in Seq(Written)
           /\ \A i \in 1..Len(s) :
                DataUpTo(s)[i] =
                  IF IsData(s[i]) THEN Append(DataUpTo(s)[i - 1], s[i])
                                  ELSE DataUpTo(s)[i - 1]
<1> DEFINE n == Len(s)
           V(i, v) == IF IsData(s[i]) THEN Append(v, s[i]) ELSE v
           Right(i, f) == IF i = 0 THEN << >> ELSE V(i, f[i - 1])
           Good(m, f) == /\ f \in [0..m -> Seq(Written)]
                         /\ \A i \in 0..m : f[i] = Right(i, f)
           T == {m \in 0..n : \E f : Good(m, f)}
<1>1. n \in Nat /\ << >> \in Seq(Written)  BY LenProperties
<1>2. ASSUME NEW i \in 1..n, NEW v \in Seq(Written)
      PROVE  V(i, v) \in Seq(Written)
  <2>1. s[i] \in Written  BY <1>2, ElementOfSeq
  <2> QED BY <2>1, <1>2, AppendProperties
<1> HIDE DEF n
<1>3. 0 \in T
  <2>1. Good(0, [i \in 0..0 |-> << >>])  BY <1>1
  <2>2. \E f : Good(0, f)  BY <2>1
  <2> HIDE DEF Good
  <2> QED BY <1>1, <2>2
<1>4. ASSUME NEW m \in T, m + 1 <= n PROVE m + 1 \in T
  <2>1. PICK f : Good(m, f)  BY <1>4
  <2>2. m \in 0..n /\ m \in Nat /\ m + 1 \in 1..n /\ m + 1 # 0
        /\ (m + 1) - 1 = m /\ m \in 0..m
    BY <1>1, <1>4
  <2> DEFINE v == V(m + 1, f[m])
             g == [i \in 0..(m + 1) |-> IF i = m + 1 THEN v ELSE f[i]]
  <2>3. v \in Seq(Written)
    <3>1. f[m] \in Seq(Written)  BY <2>1, <2>2
    <3> QED BY <1>2, <2>2, <3>1
  <2> HIDE DEF v, V
  <2>4. \A i \in 0..(m + 1) : i # m + 1 => i \in 0..m  BY <2>2
  <2>5. g \in [0..(m + 1) -> Seq(Written)]  BY <2>1, <2>3, <2>4
  <2>6. ASSUME NEW i \in 0..(m + 1) PROVE g[i] = Right(i, g)
    <3>1. CASE i = 0  BY <2>1, <2>2, <2>4, <3>1
    <3>2. CASE i # 0
      <4>1. i - 1 \in 0..(m + 1) /\ i - 1 # m + 1 /\ i - 1 \in 0..m
        BY <2>2, <3>2
      <4>2. g[i - 1] = f[i - 1]  BY <4>1
      <4>3. CASE i = m + 1  BY <2>2, <3>2, <4>2, <4>3 DEF v
      <4>4. CASE i # m + 1  BY <2>1, <2>4, <3>2, <4>2, <4>4
      <4> QED BY <4>3, <4>4
    <3> QED BY <3>1, <3>2
  <2>7. Good(m + 1, g)  BY <2>5, <2>6
  <2> HIDE DEF Good
  <2> QED BY <2>2, <2>7
<1>5. n \in T
  <2>1. T \in SUBSET (0..n)  OBVIOUS
  <2> HIDE DEF T
  <2>2. T = 0..n  BY <1>1, <1>3, <1>4, <2>1, EverywhereUpTo
  <2> QED BY <1>1, <2>2
<1>6. PICK f : Good(n, f)  BY <1>5
<1>7. \E g : g = [i \in 0..n |-> IF i = 0 THEN << >> ELSE V(i, g[i - 1])]
  <2>1. f = [i \in 0..n |-> IF i = 0 THEN << >> ELSE V(i, f[i - 1])]
    BY <1>6
  <2> QED BY <2>1
<1>8. DataUpTo(s) = CHOOSE g : g = [i \in 0..n |-> IF i = 0 THEN << >>
                                                  ELSE V(i, g[i - 1])]
  BY DEF DataUpTo, n
<1> DEFINE d == DataUpTo(s)
<1> HIDE DEF V
<1>9. d = [i \in 0..n |-> IF i = 0 THEN << >> ELSE V(i, d[i - 1])]
  BY <1>7, <1>8
<1> HIDE DEF d
<1>10. d[0] = << >>  BY <1>1, <1>9
<1>11. \A i \in 1..n : d[i] = V(i, d[i - 1])
  <2> SUFFICES ASSUME NEW i \in 1..n PROVE d[i] = V(i, d[i - 1])  OBVIOUS
  <2>1. i \in 0..n /\ i # 0  BY <1>1
  <2> QED BY <1>9, <2>1
<1>12. {i \in 0..n : d[i] \in Seq(Written)} = 0..n
  <2> DEFINE U == {i \in 0..n : d[i] \in Seq(Written)}
  <2>1. U \in SUBSET (0..n) /\ 0 \in U
    <3>1. 0 \in 0..n  BY <1>1
    <3>2. d[0] \in Seq(Written)  BY <1>1, <1>10, Zenon
    <3> QED BY <3>1, <3>2, Zenon
  <2>2. ASSUME NEW i \in U, i + 1 <= n PROVE i + 1 \in U
    <3>1. i + 1 \in 1..n /\ i + 1 \in 0..n /\ (i + 1) - 1 = i
      BY <1>1, <2>2
    <3>2. d[i + 1] = V(i + 1, d[i])  BY <1>11, <3>1
    <3>3. V(i + 1, d[i]) \in Seq(Written)  BY <1>2, <2>2, <3>1
    <3> QED BY <3>1, <3>2, <3>3
  <2> HIDE DEF U
  <2>3. U = 0..n  BY <1>1, <2>1, <2>2, EverywhereUpTo
  <2> QED BY <2>3 DEF U
<1> QED BY <1>10, <1>11, <1>12 DEF d, n, V

(* The data of the whole is that of the parts: secrets all of them, the rest *)
(* none.                                                                     *)
LEMMA DataConcat ==
    ASSUME NEW s \in Seq(Written), NEW t \in Seq(Secret)
    PROVE  Data(s \o t) = Data(s) \o t
<1> DEFINE u == s \o t
           n == Len(s)
           m == Len(t)
           d == DataUpTo(s)
           e == DataUpTo(u)
<1>1. t \in Seq(Written)  BY Wider
<1>2. u \in Seq(Written) /\ Len(u) = n + m /\ n \in Nat /\ m \in Nat
  BY <1>1, ConcatIn, LenProperties
<1>3. \A i \in 1..n : u[i] = s[i]  BY <1>1, ConcatProperties
<1>4. \A i \in 1..m : u[n + i] = t[i]
  <2> SUFFICES ASSUME NEW i \in 1..m PROVE u[n + i] = t[i]  OBVIOUS
  <2>1. n + i \in 1..(n + m) /\ ~(n + i <= n) /\ (n + i) - n = i  BY <1>2
  <2> QED BY <1>1, <2>1, ConcatProperties
<1>5. \A i \in 1..m : IsData(t[i]) /\ t[i] \in Secret
  BY ElementOfSeq DEF Secret
<1>6. /\ d[0] = << >> /\ \A i \in 0..n : d[i] \in Seq(Written)
      /\ \A i \in 1..n : d[i] = IF IsData(s[i]) THEN Append(d[i - 1], s[i])
                                               ELSE d[i - 1]
  BY DataAdds
<1>7. /\ e[0] = << >>
      /\ \A i \in 1..(n + m) :
           e[i] = IF IsData(u[i]) THEN Append(e[i - 1], u[i]) ELSE e[i - 1]
  BY <1>2, DataAdds
<1> HIDE DEF u, n, m, d, e
<1>8. e[n] = d[n]
  <2> DEFINE U == {i \in 0..n : e[i] = d[i]}
  <2>1. U \in SUBSET (0..n)  OBVIOUS
  <2>2. 0 \in U
    <3>1. 0 \in 0..n  BY <1>2
    <3> QED BY <1>6, <1>7, <3>1, Zenon
  <2>3. ASSUME NEW i \in U, i + 1 <= n PROVE i + 1 \in U
    <3>1. /\ i + 1 \in 1..n /\ i + 1 \in 0..n /\ (i + 1) - 1 = i
          /\ i + 1 \in 1..(n + m)
      BY <1>2, <2>3
    <3>2. e[i + 1] = d[i + 1]  BY <1>3, <1>6, <1>7, <2>3, <3>1
    <3> QED BY <3>1, <3>2
  <2> HIDE DEF U
  <2>6. n \in Nat  BY <1>2
  <2>4. U = 0..n  BY <2>6, <2>1, <2>2, <2>3, EverywhereUpTo
  <2>5. n \in 0..n  BY <1>2
  <2> QED BY <2>4, <2>5 DEF U
<1>9. e[n + m] = d[n] \o t
  <2> DEFINE w == d[n]
             U == {i \in 0..m : e[n + i] = w \o SubSeq(t, 1, i)}
  <2>1. U \in SUBSET (0..m)  OBVIOUS
  <2>2. w \in Seq(Written)
    <3>1. n \in 0..n  BY <1>2
    <3> QED BY <1>6, <3>1
  <2> HIDE DEF w
  <2>3. 0 \in U
    <3>1. SubSeq(t, 1, 0) = << >>  BY SubSeqProperties, EmptySeq
    <3>2. w \o << >> = w  BY <2>2, ConcatEmptySeq
    <3>3. n + 0 = n /\ 0 \in 0..m  BY <1>2
    <3> QED BY <1>8, <3>1, <3>2, <3>3 DEF w
  <2>4. ASSUME NEW i \in U, i + 1 <= m PROVE i + 1 \in U
    <3>1. /\ i \in 0..m /\ i + 1 \in 1..m /\ i + 1 \in 0..m
          /\ n + (i + 1) \in 1..(n + m) /\ (n + (i + 1)) - 1 = n + i
      BY <1>2, <2>4
    <3>2. e[n + (i + 1)] = Append(e[n + i], t[i + 1])
      BY <1>4, <1>5, <1>7, <3>1
    <3> DEFINE p == SubSeq(t, 1, i)
               x == t[i + 1]
    <3>3. p \in Seq(Secret) /\ SubSeq(t, 1, i + 1) = Append(p, x)
      <4>1. i \in Nat /\ i + 1 <= Len(t)  BY <2>4, <3>1 DEF m
      <4> QED BY <4>1
    <3>4. e[n + i] = w \o p  BY <2>4
    <3>5. x \in Written /\ p \in Seq(Written)
      BY <1>5, <3>1, <3>3, Wider DEF Written
    <3> HIDE DEF p, x
    <3>6. Append(w \o p, x) = w \o Append(p, x)
      <4>1. w \o p \in Seq(Written) /\ << x >> \in Seq(Written)
        BY <2>2, <3>5, ConcatIn
      <4>2. Append(w \o p, x) = (w \o p) \o << x >>
            /\ Append(p, x) = p \o << x >>
        BY <3>5, <4>1, AppendIsConcat
      <4> QED BY <2>2, <3>5, <4>1, <4>2, ConcatAssociative
    <3>7. e[n + (i + 1)] = w \o SubSeq(t, 1, i + 1)
      BY <3>2, <3>3, <3>4, <3>6 DEF x
    <3> QED BY <3>1, <3>7
  <2> HIDE DEF U
  <2>5. U = 0..m  BY <1>2, <2>1, <2>3, <2>4, EverywhereUpTo
  <2>6. m \in U  BY <1>2, <2>5
  <2>7. SubSeq(t, 1, m) = t  BY DEF m
  <2> QED BY <2>6, <2>7 DEF U, w
<1> QED BY <1>2, <1>9 DEF Data, u, n, m, d, e

LEMMA DataOpen == ASSUME NEW s \in Seq(Open) PROVE Data(s) = << >>
<1> DEFINE n == Len(s)
           d == DataUpTo(s)
           U == {i \in 0..n : d[i] = << >>}
<1>1. s \in Seq(Written) /\ n \in Nat  BY Wider, LenProperties
<1>2. \A i \in 1..n : ~IsData(s[i])  BY ElementOfSeq DEF Open
<1>3. d[0] = << >> /\ \A i \in 1..n : ~IsData(s[i]) => d[i] = d[i - 1]
  BY <1>1, DataAdds
<1> HIDE DEF n, d
<1>4. U \in SUBSET (0..n)  OBVIOUS
<1>5. 0 \in U  BY <1>1, <1>3
<1>6. ASSUME NEW i \in U, i + 1 <= n PROVE i + 1 \in U
  <2>1. i + 1 \in 1..n /\ i + 1 \in 0..n /\ (i + 1) - 1 = i  BY <1>1, <1>6
  <2> QED BY <1>2, <1>3, <1>6, <2>1
<1> HIDE DEF U
<1>7. U = 0..n
  <2>1. n \in Nat  BY <1>1
  <2> QED BY <2>1, <1>4, <1>5, <1>6, EverywhereUpTo
<1>8. n \in U  BY <1>1, <1>7
<1> QED BY <1>8 DEF U, Data, n, d

LEMMA DataIn == ASSUME NEW s \in Seq(Written) PROVE Data(s) \in Seq(Written)
<1>1. Len(s) \in 0..Len(s)  BY LenProperties
<1> QED BY <1>1, DataAdds DEF Data

-----------------------------------------------------------------------------
(* Records on their way                                                      *)

LEMMA FlowTail ==
    ASSUME NEW S, NEW r \in Seq(S), NEW t \in Seq(S), r # << >>
    PROVE  /\ r \o t \in Seq(S) /\ r \o t # << >>
           /\ (r \o t)[1] = Head(r) /\ Tail(r) \o t = Tail(r \o t)
<1>1. /\ r \o t \in Seq(S) /\ Len(r \o t) = Len(r) + Len(t)
      /\ Len(r) \in Nat \ {0} /\ Len(t) \in Nat
      /\ \A i \in 1..Len(r) + Len(t) :
           (r \o t)[i] = IF i <= Len(r) THEN r[i] ELSE t[i - Len(r)]
  BY ConcatProperties, LenProperties, EmptySeq
<1>2. r \o t # << >>  BY <1>1
<1>3. (r \o t)[1] = Head(r)
  <2>1. 1 \in 1..Len(r) + Len(t) /\ 1 <= Len(r)  BY <1>1
  <2> QED BY <1>1, <2>1
<1>4. Tail(r) \o t = Tail(r \o t)
  <2>1. Tail(r) \in Seq(S) /\ Len(Tail(r)) = Len(r) - 1
        /\ \A i \in 1..Len(Tail(r)) : Tail(r)[i] = r[i + 1]
    BY HeadTailProperties
  <2>2. Tail(r \o t) \in Seq(S) /\ Len(Tail(r \o t)) = Len(r) + Len(t) - 1
        /\ \A i \in 1..Len(Tail(r \o t)) : Tail(r \o t)[i] = (r \o t)[i + 1]
    BY <1>1, <1>2, HeadTailProperties
  <2>3. Tail(r) \o t \in Seq(S) /\ Len(Tail(r) \o t) = Len(r) - 1 + Len(t)
        /\ \A i \in 1..Len(Tail(r)) + Len(t) :
             (Tail(r) \o t)[i] = IF i <= Len(Tail(r)) THEN Tail(r)[i]
                                 ELSE t[i - Len(Tail(r))]
    BY <2>1, ConcatProperties
  <2>4. ASSUME NEW i \in 1..Len(Tail(r) \o t)
        PROVE  (Tail(r) \o t)[i] = Tail(r \o t)[i]
    <3>1. /\ i \in 1..Len(Tail(r)) + Len(t) /\ i \in 1..Len(Tail(r \o t))
          /\ i + 1 \in 1..Len(r) + Len(t)
          /\ (i <= Len(Tail(r))) = (i + 1 <= Len(r))
          /\ i - Len(Tail(r)) = (i + 1) - Len(r)
          /\ i <= Len(Tail(r)) => i \in 1..Len(Tail(r))
      BY <1>1, <2>1, <2>2, <2>3
    <3> QED BY <1>1, <2>1, <2>2, <2>3, <3>1
  <2>5. Len(Tail(r) \o t) = Len(Tail(r \o t))  BY <1>1, <2>2, <2>3
  <2> QED BY <2>2, <2>3, <2>4, <2>5, SeqEqual
<1> QED BY <1>1, <1>2, <1>3, <1>4

LEMMA OneRecord ==
    ASSUME NEW S, NEW q \in Seq(S), q # << >>, Len(q) <= 1
    PROVE  Len(q) = 1 /\ q[1] = Head(q) /\ Tail(q) = << >>
<1> DEFINE tail == Tail(q)
<1>1. Len(q) = 1
  <2>1. Len(q) \in Nat \ {0}  BY EmptySeq
  <2> QED BY <2>1
<1>2. tail \in Seq(S) /\ Len(tail) = 0  BY <1>1, HeadTailProperties
<1>3. q[1] = Head(q)  OBVIOUS
<1> HIDE DEF tail
<1>4. tail = << >>  BY <1>2, EmptySeq
<1> QED BY <1>1, <1>3, <1>4 DEF tail

(* What is read from the socket stays on its way.                            *)
LEMMA FlowMoves ==
    ASSUME NEW S, NEW t \in Seq(S), NEW n \in 0..Len(t)
    PROVE  LET a == SubSeq(t, 1, n)
               b == SubSeq(t, n + 1, Len(t))
           IN  /\ a \in Seq(S) /\ b \in Seq(S)
               /\ \A r \in Seq(S) : (r \o a) \o b = r \o t
<1>1. Len(t) \in Nat  BY LenProperties
<1>2. SubSeq(t, 1, n) \in Seq(S) /\ SubSeq(t, n + 1, Len(t)) \in Seq(S)
  BY <1>1, SubSeqProperties, ElementOfSeq
<1>3. SubSeq(t, 1, n) \o SubSeq(t, n + 1, Len(t)) = t
  <2>1. 1 \in 1..Len(t) + 1 /\ n \in 1 - 1..Len(t) /\ Len(t) \in n..Len(t)
    BY <1>1
  <2> QED BY <2>1, ConcatAdjacentSubSeq, SubSeqFull
<1> DEFINE a == SubSeq(t, 1, n)
           b == SubSeq(t, n + 1, Len(t))
<1> HIDE DEF a, b
<1>4. a \in Seq(S) /\ b \in Seq(S)  BY <1>2 DEF a, b
<1>5. ASSUME NEW r \in Seq(S) PROVE (r \o a) \o b = r \o t
  <2>1. (r \o a) \o b = r \o (a \o b)  BY <1>4, ConcatAssociative
  <2>2. a \o b = t  BY <1>3 DEF a, b
  <2> QED BY <2>1, <2>2
<1>6. \A r \in Seq(S) : (r \o a) \o b = r \o t  BY <1>5
<1> QED BY <1>2, <1>6 DEF a, b

LEMMA WayTail ==
    ASSUME NEW f \in Seq(Strings), f # << >>, NEW alert \in BOOLEAN,
           OnWay(f, alert)
    PROVE  /\ Tail(f) \in Seq(Strings) /\ Len(Tail(f)) = Len(f) - 1
           /\ f[1] = "DATA" => OnWay(Tail(f), alert)
           /\ f[1] # "DATA" => alert /\ Len(f) = 1 /\ Tail(f) = << >>
<1> DEFINE tail == Tail(f)
<1>1. /\ tail \in Seq(Strings) /\ Len(tail) = Len(f) - 1
      /\ Len(f) \in Nat \ {0}
      /\ \A i \in 1..Len(tail) : tail[i] = f[i + 1]
  BY HeadTailProperties, EmptySeq
<1> HIDE DEF tail
<1>2. \A i \in 1..Len(f) :
        IF alert /\ i = Len(f) THEN f[i] \in {"ALERT", "ERROR"}
                               ELSE f[i] = "DATA"
  BY DEF OnWay
<1>3. ASSUME f[1] = "DATA" PROVE OnWay(tail, alert)
  <2>1. alert => Len(f) # 1
    <3>1. 1 \in 1..Len(f)  BY <1>1
    <3> QED BY <1>2, <1>3, <3>1
  <2>2. alert => tail # << >>
    <3>1. Len(tail) = 0 => Len(f) = 1  BY <1>1
    <3> QED BY <2>1, <3>1, EmptySeq
  <2>3. ASSUME NEW i \in 1..Len(tail)
        PROVE  IF alert /\ i = Len(tail) THEN tail[i] \in {"ALERT", "ERROR"}
                                         ELSE tail[i] = "DATA"
    <3>1. i + 1 \in 1..Len(f) /\ (i + 1 = Len(f)) = (i = Len(tail))
      BY <1>1
    <3> QED BY <1>1, <1>2, <3>1
  <2> QED BY <2>2, <2>3 DEF OnWay
<1>4. ASSUME f[1] # "DATA" PROVE alert /\ Len(f) = 1 /\ tail = << >>
  <2>1. 1 \in 1..Len(f)  BY <1>1
  <2>2. alert /\ Len(f) = 1  BY <1>2, <1>4, <2>1
  <2>3. Len(tail) = 0  BY <1>1, <2>2
  <2> QED BY <1>1, <2>2, <2>3, EmptySeq
<1> QED BY <1>1, <1>3, <1>4 DEF tail

-----------------------------------------------------------------------------
(* Steps of the library                                                      *)

(* What d may differ in from c: nothing happens to the socket, the handshake *)
(* is not taken back, and without anything to read nothing fails.            *)
Follows(c, d) ==
    /\ d.handshake_done = c.handshake_done /\ d.room = c.room
    /\ c.finished => d.finished
    /\ c.room /\ c.queued = 0 => d.queued = 0
    /\ c.read_bio = << >> =>
         /\ d.read_bio = << >> /\ d.failed = c.failed /\ d.closed = c.closed /\ d.status = c.status
         /\ d.thrown = c.thrown /\ d.expected = c.expected

(* uv_write keeps secrets back until the handshake is finished if it is      *)
(* given none.                                                               *)
LEMMA WriteKeeps ==
    ASSUME NEW c, ConInv(c), NEW chunks \in Seq(Written),
           ~c.finished => chunks \in Seq(Open)
    PROVE  /\ ConInv(Write(c, chunks)) /\ Follows(c, Write(c, chunks))
           /\ \A f \in {"status", "expected", "finished", "failed", "closed",
                        "read_bio", "write_bio", "waiting", "thrown",
                        "read_buffer"} :
                Write(c, chunks)[f] = c[f]
<1> DEFINE d == Write(c, chunks)
           Same(e) == \A f \in {"status", "expected", "finished", "failed",
                                "closed", "read_bio", "write_bio", "waiting",
                                "thrown", "read_buffer"} : e[f] = c[f]
<1>1. c \in Connections  BY DEF ConInv
<1>2. CASE chunks = << >>
  BY <1>2 DEF Write, Follows
<1>3. CASE chunks # << >> /\ c.queued = 0 /\ c.room
  <2>1. d = [c EXCEPT !.out = @ \o chunks, !.done = @ + Len(chunks),
                      !.ssl_write_buffer = << Last(chunks) >>]
    BY <1>3 DEF Write
  <2>2. c.out \o chunks \in Seq(Written) /\ << Last(chunks) >> \in Seq(Written)
        /\ << Last(chunks) >> # << >>
    BY <1>1, <1>3, ConcatIn, LastIn DEF Connections
  <2>3. ~c.finished => c.out \o chunks \in Seq(Open)
                       /\ << Last(chunks) >> \in Seq(Open)
    BY <1>3, ConcatIn, LastIn DEF ConInv
  <2>4. c.done + Len(chunks) \in Nat  BY <1>1, LenProperties DEF Connections
  <2>5. d \in Connections  BY <1>1, <2>1, <2>2, <2>4 DEF Connections
  <2>6. ConInv(d)
    BY <1>1, <1>3, <2>1, <2>2, <2>3, <2>5 DEF ConInv, Connections
  <2> HIDE DEF d
  <2>7. Follows(c, d) /\ Same(d)
    BY <1>1, <1>3, <2>1 DEF Follows, Connections
  <2> QED BY <2>6, <2>7 DEF d
<1>4. CASE chunks # << >> /\ ~(c.queued = 0 /\ c.room)
  <2>1. d = [c EXCEPT !.queued = @ + Len(chunks),
                      !.ssl_write_buffer = << Last(chunks) >>]
    BY <1>4 DEF Write
  <2>2. << Last(chunks) >> \in Seq(Written) /\ << Last(chunks) >> # << >>
    BY <1>4, LastIn
  <2>3. ~c.finished => << Last(chunks) >> \in Seq(Open)  BY <1>4, LastIn
  <2>4. c.queued + Len(chunks) \in Nat  BY <1>1, LenProperties DEF Connections
  <2>5. d \in Connections  BY <1>1, <2>1, <2>2, <2>4 DEF Connections
  <2>6. ConInv(d)
    BY <1>1, <1>4, <2>1, <2>2, <2>3, <2>5 DEF ConInv, Connections
  <2> HIDE DEF d
  <2>7. Follows(c, d) /\ Same(d)
    BY <1>1, <1>4, <2>1 DEF Follows, Connections
  <2> QED BY <2>6, <2>7 DEF d
<1> QED BY <1>2, <1>3, <1>4

(* So does attachsql_ssl_data_check, which lets ssl.write_buffer wait until  *)
(* SSL_write takes it.                                                       *)
LEMMA DataCheckKeeps ==
    ASSUME NEW c, ConInv(c)
    PROVE  /\ ConInv(DataCheck(c)) /\ Follows(c, DataCheck(c))
           /\ \A f \in {"status", "expected", "finished", "failed", "closed",
                        "read_bio", "thrown", "read_buffer"} :
                DataCheck(c)[f] = c[f]
           /\ DataCheck(c).write_bio = << >>
           /\ DataCheck(c).waiting = IF Encrypts(c) THEN << >> ELSE c.waiting
<1> DEFINE taken == IF Encrypts(c) THEN c.waiting ELSE << >>
           all == c.write_bio \o taken
           e == [c EXCEPT !.write_bio = << >>,
                          !.waiting = IF Encrypts(c) THEN << >> ELSE @,
                          !.start = IF Encrypts(c) THEN c.end ELSE @]
<1>1. c \in Connections /\ DataCheck(c) = Write(e, all)
  BY DEF ConInv, DataCheck
<1>2. c.write_bio \in Seq(Open) /\ c.waiting \in Seq(Secret)
  BY <1>1 DEF Connections
<1>3. all \in Seq(Written)
  <2>1. c.write_bio \in Seq(Written) /\ taken \in Seq(Written)
    BY <1>2, Wider
  <2> QED BY <2>1, ConcatIn
<1>4. ~e.finished => all \in Seq(Open)
  <2>1. ~c.finished => taken = << >>  BY DEF Encrypts
  <2>2. << >> \in Seq(Open)  OBVIOUS
  <2>3. e.finished = c.finished  BY <1>1 DEF Connections
  <2> QED BY <1>2, <2>1, <2>2, <2>3, ConcatIn
<1>5. ConInv(e)
  <2>1. << >> \in Seq(Open) /\ << >> \in Seq(Secret) /\ Len(<< >>) = 0  OBVIOUS
  <2>2. e \in Connections  BY <1>1, <2>1 DEF Connections
  <2>3. e.end = e.start + Len(e.waiting) /\ e.used = e.end
    BY <1>1, <2>1 DEF ConInv, Connections
  <2> QED BY <1>1, <2>2, <2>3 DEF ConInv, Connections
<1>6. Follows(c, e) /\ \A f \in {"status", "expected", "finished", "failed", "closed",
                                 "read_bio", "thrown", "read_buffer"} :
                         e[f] = c[f]
      /\ e.write_bio = << >>
      /\ e.waiting = IF Encrypts(c) THEN << >> ELSE c.waiting
  BY <1>1 DEF Follows, Connections
<1> HIDE DEF e, all
<1>7. /\ ConInv(DataCheck(c)) /\ Follows(e, DataCheck(c))
      /\ \A f \in {"status", "expected", "finished", "failed", "closed", "read_bio",
                   "thrown", "read_buffer", "write_bio", "waiting"} :
           DataCheck(c)[f] = e[f]
  BY <1>1, <1>3, <1>4, <1>5, WriteKeeps
<1> QED BY <1>6, <1>7 DEF Follows

LEMMA HandleErrorKeeps ==
    ASSUME NEW c, ConInv(c)
    PROVE  ConInv(HandleError(c))
BY DEF ConInv, HandleError, Connections

(* An error of OpenSSL stops everything: nothing is written and nothing is   *)
(* expected any more.                                                        *)
Stopped(c, d) ==
    /\ d.status = "SSL_ERROR" /\ ~d.expected
    /\ d.done = c.done /\ d.queued = c.queued

(* The handshake of OpenSSL takes one record.                                *)
LEMMA HandshakeKeeps ==
    ASSUME NEW c, ConInv(c), c.read_bio # << >>
    PROVE  LET d == Handshake(c)
           IN  /\ ConInv(d) /\ Follows(c, d) /\ d.thrown = c.thrown
               /\ d.read_bio = Tail(c.read_bio)
               /\ d.failed => c.failed \/ Stopped(c, d)
               /\ Head(c.read_bio) \in {"CERTIFICATE", "FINISHED"}
                    => d.failed = c.failed
<1> DEFINE d == Handshake(c)
           rest == [c EXCEPT !.read_bio = Tail(@)]
<1>1. c \in Connections  BY DEF ConInv
<1>2. Tail(c.read_bio) \in Seq(Strings)  BY <1>1, TailIn DEF Connections
<1>3. ConInv(rest)  BY <1>1, <1>2 DEF ConInv, Connections
<1>4. CASE Head(c.read_bio) = "CERTIFICATE"
  <2>1. d = [rest EXCEPT !.write_bio = Append(@, Chunk("KEY"))]
    BY <1>4 DEF Handshake
  <2>2. Chunk("KEY") \in Open
    BY TlsAssumption DEF Chunk, Open, Chunks, Messages, IsData
  <2>3. Append(c.write_bio, Chunk("KEY")) \in Seq(Open)
    BY <1>1, <2>2, AppendProperties DEF Connections
  <2> HIDE DEF d
  <2>4. ConInv(d)  BY <1>1, <1>2, <1>3, <2>1, <2>3 DEF ConInv, Connections
  <2> QED BY <1>1, <1>4, <2>1, <2>4 DEF Follows, Connections, d
<1>5. CASE Head(c.read_bio) = "FINISHED"
  <2>1. d = [rest EXCEPT !.finished = TRUE]  BY <1>5 DEF Handshake
  <2> HIDE DEF d
  <2>2. ConInv(d)  BY <1>1, <1>2, <2>1 DEF ConInv, Connections
  <2> QED BY <1>1, <1>5, <2>1, <2>2 DEF Follows, Connections, d
<1>6. CASE Head(c.read_bio) = "ALERT"
  <2>1. d = [rest EXCEPT !.closed = TRUE]  BY <1>6 DEF Handshake
  <2> HIDE DEF d
  <2>2. ConInv(d)  BY <1>1, <1>2, <2>1 DEF ConInv, Connections
  <2> QED BY <1>1, <1>6, <2>1, <2>2 DEF Follows, Connections, d
<1>7. CASE Head(c.read_bio) \notin {"CERTIFICATE", "FINISHED", "ALERT"}
  <2>1. d = HandleError(rest)  BY <1>7 DEF Handshake
  <2> HIDE DEF d
  <2>2. ConInv(d)  BY <1>3, <2>1, HandleErrorKeeps
  <2> QED BY <1>1, <1>7, <2>1, <2>2
          DEF HandleError, Follows, Stopped, Connections, d
<1> QED BY <1>4, <1>5, <1>6, <1>7

LEMMA SslRunKeeps ==
    ASSUME NEW c, ConInv(c)
    PROVE  ConInv(SslRun(c)) /\ Follows(c, SslRun(c))
<1> DEFINE d == SslRun(c)
           rest == [c EXCEPT !.read_bio = Tail(@)]
<1>1. c \in Connections  BY DEF ConInv
<1>2. CASE c.read_bio = << >>
  <2>1. d = DataCheck(c)  BY <1>2 DEF SslRun
  <2> QED BY <2>1, DataCheckKeeps
<1>3. CASE c.read_bio # << >> /\ ~c.finished
  <2> DEFINE e == Handshake(c)
  <2>1. d = DataCheck(e)  BY <1>3 DEF SslRun
  <2>2. ConInv(e) /\ Follows(c, e)  BY <1>3, HandshakeKeeps
  <2> HIDE DEF e
  <2>3. ConInv(d) /\ Follows(e, d)  BY <2>1, <2>2, DataCheckKeeps
  <2> QED BY <1>3, <2>2, <2>3 DEF Follows
<1>4. CASE c.read_bio # << >> /\ c.finished
  <2>1. Tail(c.read_bio) \in Seq(Strings)
    BY <1>1, <1>4, TailIn DEF Connections
  <2>2. ConInv(rest)  BY <1>1, <2>1 DEF ConInv, Connections
  <2>3. PICK e : /\ d = DataCheck(e) /\ ConInv(e)
                 /\ e.handshake_done = c.handshake_done /\ e.room = c.room
                 /\ e.finished /\ e.queued = c.queued
    <3>1. CASE Head(c.read_bio) = "DATA"
      <4> DEFINE e == [rest EXCEPT !.thrown = @ + 1]
      <4>1. d = DataCheck(e)  BY <1>4, <3>1 DEF SslRun
      <4>2. c.thrown + 1 \in Nat  BY <1>1 DEF Connections
      <4>3. e \in Connections  BY <1>1, <2>1, <4>2 DEF Connections
      <4>4. ConInv(e)  BY <1>1, <1>4, <4>3 DEF ConInv, Connections
      <4>5. /\ e.handshake_done = c.handshake_done /\ e.room = c.room
            /\ e.finished /\ e.queued = c.queued
        BY <1>1, <1>4 DEF Connections
      <4> QED BY <4>1, <4>4, <4>5
    <3>2. CASE Head(c.read_bio) = "ALERT"
      <4> DEFINE e == [rest EXCEPT !.closed = TRUE]
      <4>1. d = DataCheck(e)  BY <1>4, <3>2 DEF SslRun
      <4>2. ConInv(e)  BY <1>1, <2>1 DEF ConInv, Connections
      <4>3. /\ e.handshake_done = c.handshake_done /\ e.room = c.room
            /\ e.finished /\ e.queued = c.queued
        BY <1>1, <1>4 DEF Connections
      <4> QED BY <4>1, <4>2, <4>3
    <3>3. CASE Head(c.read_bio) \notin {"DATA", "ALERT"}
      <4> DEFINE e == HandleError(rest)
      <4>1. d = DataCheck(e)  BY <1>4, <3>3 DEF SslRun
      <4>2. ConInv(e)  BY <2>2, HandleErrorKeeps
      <4>3. /\ e.handshake_done = c.handshake_done /\ e.room = c.room
            /\ e.finished /\ e.queued = c.queued
        BY <1>1, <1>4 DEF Connections, HandleError
      <4> QED BY <4>1, <4>2, <4>3
    <3> QED BY <3>1, <3>2, <3>3
  <2> QED BY <1>4, <2>3, DataCheckKeeps DEF Follows
<1> QED BY <1>2, <1>3, <1>4

(* While the handshake goes on and there is nothing to read, everything that *)
(* is in ssl.write_buffer waits.                                             *)
LEMMA SslRunWaits ==
    ASSUME NEW c, ConInv(c), ~c.finished, c.read_bio = << >>
    PROVE  LET d == SslRun(c)
           IN  /\ ~d.finished /\ d.waiting = c.waiting /\ d.write_bio = << >>
               /\ d.read_buffer = c.read_buffer
<1>1. SslRun(c) = DataCheck(c)  BY DEF SslRun
<1>2. ~Encrypts(c)  BY DEF Encrypts
<1> QED BY <1>1, <1>2, DataCheckKeeps

(* ssl.write_buffer with a message more.                                     *)
Filled(c, chunks) ==
    LET b == IF Available(c) < Len(chunks) THEN Increased(c) ELSE c
    IN  [b EXCEPT !.end = @ + Len(chunks), !.used = @ + Len(chunks),
                  !.waiting = @ \o chunks]

(* It is never shifted and its data never left behind: used and the write    *)
(* offset are the same number.                                               *)
LEMMA FilledKeeps ==
    ASSUME NEW c, ConInv(c), NEW chunks \in Seq(Secret)
    PROVE  LET e == Filled(c, chunks)
           IN  /\ ConInv(e) /\ Follows(c, e) /\ e.waiting = c.waiting \o chunks
               /\ \A f \in {"status", "expected", "handshake_done", "finished",
                            "failed", "closed", "read_bio", "write_bio",
                            "ssl_write_buffer", "queued", "done",
                            "read_buffer", "out", "room", "thrown"} :
                    e[f] = c[f]
<1> DEFINE n == Len(chunks)
           b == IF Available(c) < n THEN Increased(c) ELSE c
           e == [b EXCEPT !.end = @ + n, !.used = @ + n,
                          !.waiting = @ \o chunks]
<1>1. c \in Connections /\ c.used = c.end /\ n \in Nat
  BY LenProperties DEF ConInv
<1>2. \E size \in Nat : b = [c EXCEPT !.size = size]
  <2>1. c = [c EXCEPT !.size = c.size]  BY <1>1 DEF Connections
  <2>2. [c EXCEPT !.end = c.used] = [c EXCEPT !.size = c.size]
    BY <1>1 DEF Connections
  <2>3. 2 * c.size \in Nat /\ c.size \in Nat  BY <1>1 DEF Connections
  <2> QED BY <2>1, <2>2, <2>3 DEF Increased
<1>3. /\ ConInv(e) /\ Follows(c, e) /\ e.waiting = c.waiting \o chunks
      /\ \A f \in {"status", "expected", "handshake_done", "finished",
                   "failed", "closed", "read_bio", "write_bio", "ssl_write_buffer",
                   "queued", "done", "read_buffer", "out", "room",
                   "thrown"} : e[f] = c[f]
  <2>1. PICK size \in Nat : b = [c EXCEPT !.size = size]  BY <1>2
  <2>2. /\ c.waiting \o chunks \in Seq(Secret)
        /\ Len(c.waiting \o chunks) = Len(c.waiting) + n
    BY <1>1, ConcatIn DEF Connections
  <2>3. /\ e.end = c.end + n /\ e.used = c.used + n
        /\ e.waiting = c.waiting \o chunks
    BY <1>1, <2>1 DEF Connections
  <2>4. /\ c.start \in Nat /\ c.end \in Nat /\ c.used \in Nat
        /\ Len(c.waiting) \in Nat
    BY <1>1, LenProperties DEF Connections
  <2>5. e \in Connections
    <3>1. e = [c EXCEPT !.size = size, !.end = c.end + n,
                        !.used = c.used + n, !.waiting = c.waiting \o chunks]
      BY <1>1, <2>1 DEF Connections
    <3>2. c.end + n \in Nat /\ c.used + n \in Nat  BY <1>1, <2>4
    <3> HIDE DEF e, n
    <3> QED BY <1>1, <2>2, <3>1, <3>2 DEF Connections
  <2>6. e.end = e.start + Len(e.waiting) /\ e.used = e.end
    <3>1. e.start = c.start  BY <1>1, <2>1 DEF Connections
    <3>2. c.end = c.start + Len(c.waiting)  BY DEF ConInv
    <3> QED BY <1>1, <2>2, <2>3, <2>4, <3>1, <3>2
  <2>7. /\ e.finished = c.finished /\ e.out = c.out /\ e.queued = c.queued
        /\ e.ssl_write_buffer = c.ssl_write_buffer
        /\ e.handshake_done = c.handshake_done /\ e.room = c.room
        /\ e.read_bio = c.read_bio /\ e.failed = c.failed /\ e.closed = c.closed
        /\ e.status = c.status /\ e.thrown = c.thrown
        /\ e.expected = c.expected /\ e.write_bio = c.write_bio
        /\ e.done = c.done /\ e.read_buffer = c.read_buffer
    BY <1>1, <2>1 DEF Connections
  <2> HIDE DEF e
  <2> QED BY <2>3, <2>5, <2>6, <2>7 DEF ConInv, Follows
<1> QED BY <1>3 DEF Filled

LEMMA SslBufferWriteKeeps ==
    ASSUME NEW c, ConInv(c), NEW chunks \in Seq(Secret)
    PROVE  LET d == SslBufferWrite(c, chunks)
           IN  /\ d = SslRun(Filled(c, chunks)) /\ ConInv(d) /\ Follows(c, d)
               /\ ~c.finished /\ c.read_bio = << >> =>
                    /\ ~d.finished /\ d.waiting = c.waiting \o chunks
                    /\ d.write_bio = << >> /\ d.read_buffer = c.read_buffer
<1> DEFINE e == Filled(c, chunks)
<1>1. SslBufferWrite(c, chunks) = SslRun(e)  BY DEF SslBufferWrite, Filled
<1>2. /\ ConInv(e) /\ Follows(c, e) /\ e.waiting = c.waiting \o chunks
      /\ e.finished = c.finished /\ e.read_bio = c.read_bio
      /\ e.read_buffer = c.read_buffer
  BY FilledKeeps
<1> HIDE DEF e
<1> QED BY <1>1, <1>2, SslRunKeeps, SslRunWaits DEF Follows, e

(* A server that does not offer TLS is left, any other is asked for it and   *)
(* then logged in to through ssl.write_buffer.                               *)
LEMMA LoginSecret == Login \in Seq(Secret) /\ Len(Login) = 1
<1>1. PICK c \in Chunks : c = Chunk("LOGIN") /\ c.message = "LOGIN"
  <2>1. Chunk("LOGIN") \in Chunks
    BY TlsAssumption DEF Chunk, Chunks, Messages
  <2>2. Chunk("LOGIN").message = "LOGIN"  BY DEF Chunk
  <2> QED BY <2>1, <2>2
<1>2. [c EXCEPT !.clear = FALSE] \in Secret
  BY <1>1 DEF Chunks, Secret, IsData
<1>3. Login = << [c EXCEPT !.clear = FALSE] >>  BY <1>1 DEF Login
<1> QED BY <1>2, <1>3

LEMMA HandshakeResponseKeeps ==
    ASSUME NEW c, ConInv(c), ~c.handshake_done, server.ssl, c.read_bio = << >>
    PROVE  LET d == HandshakeResponse(c)
           IN  /\ ConInv(d) /\ d.read_bio = << >> /\ d.thrown = c.thrown
               /\ d.failed = c.failed /\ d.closed = c.closed /\ d.status = c.status
               /\ d.room = c.room
               /\ c.room /\ c.queued = 0 => d.queued = 0
               /\ d.handshake_done /\ d.expected
               /\ ~c.finished /\ c.waiting = << >> =>
                    /\ ~d.finished /\ d.waiting = Login
                    /\ d.write_bio = << >> /\ d.read_buffer = c.read_buffer
<1> DEFINE asked == Write(c, << Chunk("SSL_REQUEST") >>)
           e == [asked EXCEPT !.write_bio = << Chunk("HELLO") >>]
           hello == SslRun(e)
           f == [hello EXCEPT !.handshake_done = TRUE]
           g == SslBufferWrite(f, Login)
           d == [g EXCEPT !.expected = TRUE]
<1>1. HandshakeResponse(c) = d  BY DEF HandshakeResponse
<1>2. Chunk("SSL_REQUEST") \in Open /\ Chunk("HELLO") \in Open
  BY TlsAssumption DEF Chunk, Open, Chunks, Messages, IsData
<1>3. /\ ConInv(asked) /\ Follows(c, asked) /\ asked.waiting = c.waiting
      /\ asked.finished = c.finished /\ asked.read_buffer = c.read_buffer
  <2>1. << Chunk("SSL_REQUEST") >> \in Seq(Open)  BY <1>2
  <2>2. << Chunk("SSL_REQUEST") >> \in Seq(Written)  BY <2>1, Wider
  <2> QED BY <2>1, <2>2, WriteKeeps
<1> HIDE DEF asked
<1>4. /\ ConInv(e) /\ Follows(asked, e) /\ e.waiting = asked.waiting
      /\ e.finished = asked.finished /\ e.read_buffer = asked.read_buffer
  <2>1. asked \in Connections /\ << Chunk("HELLO") >> \in Seq(Open)
    BY <1>2, <1>3 DEF ConInv
  <2>2. e \in Connections  BY <2>1 DEF Connections
  <2> QED BY <1>3, <2>1, <2>2 DEF ConInv, Follows, Connections
<1> HIDE DEF e
<1>5. /\ ConInv(hello) /\ Follows(e, hello)
      /\ ~e.finished => /\ ~hello.finished /\ hello.waiting = e.waiting
                        /\ hello.read_buffer = e.read_buffer
  <2>1. e.read_bio = << >>  BY <1>3, <1>4 DEF Follows
  <2> QED BY <1>4, <2>1, SslRunKeeps, SslRunWaits
<1> HIDE DEF hello
<1>6. /\ ConInv(f) /\ f.room = hello.room /\ f.queued = hello.queued
      /\ f.read_bio = hello.read_bio /\ f.failed = hello.failed /\ f.closed = hello.closed
      /\ f.status = hello.status /\ f.thrown = hello.thrown
      /\ f.waiting = hello.waiting /\ f.finished = hello.finished
      /\ f.read_buffer = hello.read_buffer /\ f.handshake_done
  BY <1>5 DEF ConInv, Connections
<1> HIDE DEF f
<1>7. /\ ConInv(g) /\ Follows(f, g)
      /\ ~f.finished /\ f.waiting = << >> =>
           /\ ~g.finished /\ g.waiting = Login
           /\ g.write_bio = << >> /\ g.read_buffer = f.read_buffer
  <2>1. f.read_bio = << >>  BY <1>3, <1>4, <1>5, <1>6 DEF Follows
  <2>2. << >> \o Login = Login  BY LoginSecret, ConcatEmptySeq
  <2> QED BY <1>6, <2>1, <2>2, LoginSecret, SslBufferWriteKeeps
<1> HIDE DEF g
<1>8. /\ ConInv(d) /\ d.room = g.room /\ d.queued = g.queued
      /\ d.read_bio = g.read_bio /\ d.failed = g.failed /\ d.closed = g.closed
      /\ d.status = g.status /\ d.thrown = g.thrown
      /\ d.waiting = g.waiting /\ d.write_bio = g.write_bio
      /\ d.finished = g.finished /\ d.read_buffer = g.read_buffer
      /\ d.handshake_done = g.handshake_done /\ d.expected
  BY <1>7 DEF ConInv, Connections
<1> HIDE DEF d
<1> QED BY <1>1, <1>3, <1>4, <1>5, <1>6, <1>7, <1>8 DEF Follows

-----------------------------------------------------------------------------
(* The parts of a poll                                                       *)

LEMMA DecryptKeeps ==
    ASSUME NEW c, ConInv(c), c.read_bio # << >>
    PROVE  LET d == Decrypt(c)
           IN  /\ ConInv(d) /\ Follows(c, d) /\ d.thrown = c.thrown
               /\ d.read_bio = Tail(c.read_bio)
               /\ d.failed => c.failed \/ Stopped(c, d)
<1> DEFINE d == Decrypt(c)
           rest == [c EXCEPT !.read_bio = Tail(@)]
<1>1. c \in Connections  BY DEF ConInv
<1>2. CASE ~c.finished
  <2> DEFINE e == Handshake(c)
  <2>1. /\ ConInv(e) /\ Follows(c, e) /\ e.thrown = c.thrown
        /\ e.read_bio = Tail(c.read_bio)
        /\ e.failed => c.failed \/ Stopped(c, e)
        /\ Head(c.read_bio) \in {"CERTIFICATE", "FINISHED"}
             => e.failed = c.failed
    BY HandshakeKeeps
  <2>2. CASE Head(c.read_bio) \in {"CERTIFICATE", "FINISHED"}
    <3>1. d = DataCheck(e)  BY <1>2, <2>2 DEF Decrypt
    <3> HIDE DEF e, d
    <3>2. /\ ConInv(d) /\ Follows(e, d) /\ d.thrown = e.thrown
          /\ d.read_bio = e.read_bio /\ d.failed = e.failed
      BY <2>1, <3>1, DataCheckKeeps
    <3> QED BY <2>1, <2>2, <3>2 DEF Follows, d
  <2>3. CASE Head(c.read_bio) \notin {"CERTIFICATE", "FINISHED"}
    <3>1. d = e  BY <1>2, <2>3 DEF Decrypt
    <3> QED BY <2>1, <3>1
  <2> QED BY <2>2, <2>3
<1>3. CASE c.finished
  <2>1. Tail(c.read_bio) \in Seq(Strings)
    BY <1>1, TailIn DEF Connections
  <2>2. ConInv(rest)  BY <1>1, <2>1 DEF ConInv, Connections
  <2>3. CASE Head(c.read_bio) = "DATA"
    <3>1. d = [rest EXCEPT !.read_buffer = @ + 1]
      BY <1>3, <2>3 DEF Decrypt
    <3>2. rest \in Connections /\ rest.read_buffer \in Nat
      BY <2>2 DEF ConInv, Connections
    <3> HIDE DEF rest
    <3>3. d \in Connections
      <4> DEFINE sum == rest.read_buffer + 1
      <4>1. sum \in Nat  BY <3>2
      <4>2. d = [rest EXCEPT !.read_buffer = sum]  BY <3>1
      <4> HIDE DEF sum, d
      <4> QED BY <3>2, <4>1, <4>2 DEF Connections
    <3>4. ConInv(d)  BY <2>2, <3>1, <3>2, <3>3 DEF ConInv, Connections
    <3> USE DEF rest
    <3> QED BY <1>1, <3>1, <3>2, <3>4 DEF Follows, Connections
  <2>4. CASE Head(c.read_bio) = "ALERT"
    <3>1. d = [rest EXCEPT !.closed = TRUE]  BY <1>3, <2>4 DEF Decrypt
    <3>2. ConInv(d)  BY <1>1, <2>1, <3>1 DEF ConInv, Connections
    <3> QED BY <1>1, <3>1, <3>2 DEF Follows, Connections
  <2>5. CASE Head(c.read_bio) \notin {"DATA", "ALERT"}
    <3>1. d = HandleError(rest)  BY <1>3, <2>5 DEF Decrypt
    <3>2. ConInv(d)  BY <2>2, <3>1, HandleErrorKeeps
    <3> QED BY <1>1, <3>1, <3>2 DEF HandleError, Follows, Stopped, Connections
  <2> QED BY <2>3, <2>4, <2>5
<1> QED BY <1>2, <1>3

(* A read of n records.                                                      *)
LEMMA ReadDataKeeps ==
    ASSUME NEW c, ConInv(c), server.ssl, server.in \in Seq(Strings),
           NEW n \in Nat, n <= Len(server.in),
           ~c.handshake_done => c.read_bio = << >>
    PROVE  LET d == ReadData(c, n)
           IN  /\ ConInv(d) /\ d.thrown = c.thrown /\ d.room = c.room
               /\ c.room /\ c.queued = 0 => d.queued = 0
               /\ c.read_bio = << >> /\ n <= 1 => d.read_bio = << >>
               /\ ~d.handshake_done => d.read_bio = << >>
               /\ d.failed => c.failed \/ Stopped(c, d)
<1> DEFINE d == ReadData(c, n)
<1>1. c \in Connections  BY DEF ConInv
<1>2. CASE n = 0
  BY <1>2 DEF ReadData
<1>3. CASE n # 0 /\ ~c.handshake_done
  BY <1>3, HandshakeResponseKeeps DEF ReadData
<1>4. CASE n # 0 /\ c.handshake_done
  <2> DEFINE came == SubSeq(server.in, 1, n)
             e == [c EXCEPT !.read_bio = @ \o came]
  <2>1. came \in Seq(Strings) /\ Len(came) = n
    BY <1>4, SubSeqProperties
  <2>2. /\ c.read_bio \o came \in Seq(Strings)
        /\ Len(c.read_bio \o came) = Len(c.read_bio) + n
        /\ Len(c.read_bio) \in Nat
    <3>1. c.read_bio \in Seq(Strings)  BY <1>1 DEF Connections
    <3> HIDE DEF came
    <3> QED BY <2>1, <3>1, ConcatIn, LenProperties
  <2>3. c.read_bio \o came # << >>  BY <1>4, <2>2
  <2> HIDE DEF came
  <2>4. ConInv(e)  BY <1>1, <2>2 DEF ConInv, Connections
  <2>5. /\ e.read_bio = c.read_bio \o came /\ e.thrown = c.thrown
        /\ e.room = c.room /\ e.queued = c.queued /\ e.done = c.done
        /\ e.failed = c.failed /\ e.closed = c.closed /\ e.handshake_done
    BY <1>1, <1>4 DEF Connections
  <2>6. d = Decrypt(e)  BY <1>4 DEF ReadData, came
  <2> HIDE DEF e
  <2>7. /\ ConInv(d) /\ Follows(e, d) /\ d.thrown = e.thrown
        /\ d.read_bio = Tail(e.read_bio)
        /\ d.failed => e.failed \/ Stopped(e, d)
    BY <2>3, <2>4, <2>5, <2>6, DecryptKeeps
  <2>8. c.read_bio = << >> /\ n <= 1 => d.read_bio = << >>
    <3> SUFFICES ASSUME c.read_bio = << >>, n <= 1 PROVE d.read_bio = << >>
      OBVIOUS
    <3>1. Len(e.read_bio) = 1  BY <1>4, <2>2, <2>5
    <3>2. Tail(e.read_bio) \in Seq(Strings) /\ Len(Tail(e.read_bio)) = 0
      BY <2>2, <2>3, <2>5, <3>1, TailIn
    <3> QED BY <2>7, <3>2, EmptySeq
  <2> QED BY <2>5, <2>7, <2>8 DEF Follows, Stopped
<1> QED BY <1>2, <1>3, <1>4

(* libuv writes nothing but what it was given before.                        *)
LEMMA FlushKeeps ==
    ASSUME NEW c, ConInv(c)
    PROVE  LET d == Flush(c)
           IN  /\ ConInv(d)
               /\ d.room = c.room /\ (c.room => d.queued = 0)
               /\ ~c.room => d.queued = c.queued
               /\ c.queued = 0 => d.done = c.done /\ d.out = c.out
               /\ \A f \in {"status", "expected", "failed", "closed", "read_bio",
                            "thrown", "handshake_done", "finished"} : d[f] = c[f]
<1> DEFINE d == Flush(c)
           copies == [i \in 1..c.queued |-> c.ssl_write_buffer[1]]
<1>1. c \in Connections /\ c.queued \in Nat /\ c.done \in Nat
  BY DEF ConInv, Connections
<1>2. ASSUME NEW S, c.ssl_write_buffer \in Seq(S)
      PROVE  copies \in Seq(S) /\ (c.queued = 0 => copies = << >>)
  <2>1. c.queued > 0 => c.ssl_write_buffer[1] \in S
    <3> SUFFICES ASSUME c.queued > 0 PROVE c.ssl_write_buffer[1] \in S
      OBVIOUS
    <3>1. c.ssl_write_buffer # << >>  BY DEF ConInv
    <3>2. 1 \in 1..Len(c.ssl_write_buffer)
      BY <1>2, <3>1, EmptySeq, LenProperties
    <3> QED BY <1>2, <3>2, ElementOfSeq
  <2>2. \A i \in 1..c.queued : c.ssl_write_buffer[1] \in S  BY <1>1, <2>1
  <2>3. copies \in Seq(S)  BY <1>1, <2>2, IsASeq
  <2>4. DOMAIN copies = 1..c.queued  OBVIOUS
  <2> HIDE DEF copies
  <2>5. Len(copies) \in Nat /\ 1..Len(copies) = 1..c.queued
    BY <2>3, <2>4, LenProperties
  <2>6. c.queued = 0 => Len(copies) = 0  BY <2>5
  <2> QED BY <2>3, <2>6, EmptySeq
<1>3. CASE ~c.room
  BY <1>3 DEF Flush
<1>4. CASE c.room
  <2>1. d = [c EXCEPT !.out = @ \o copies, !.queued = 0, !.done = @ + c.queued]
    BY <1>4 DEF Flush
  <2>2. c.out \o copies \in Seq(Written)
    BY <1>1, <1>2, ConcatIn DEF Connections
  <2>3. ~c.finished => c.out \o copies \in Seq(Open)
    BY <1>2, ConcatIn DEF ConInv
  <2>4. /\ c.done + c.queued \in Nat
        /\ c.queued = 0 => c.done + c.queued = c.done
    BY <1>1
  <2>7. c.queued = 0 => c.out \o copies = c.out
    BY <1>1, <1>2, ConcatEmptySeq DEF Connections
  <2> HIDE DEF copies
  <2>5. d \in Connections
    <3> DEFINE x == c.out \o copies
               sum == c.done + c.queued
    <3>1. d = [c EXCEPT !.out = x, !.queued = 0, !.done = sum]  BY <2>1
    <3> HIDE DEF x, sum, d
    <3>2. x \in Seq(Written) /\ sum \in Nat /\ 0 \in Nat
      BY <2>2, <2>4 DEF x, sum
    <3> QED BY <1>1, <3>1, <3>2 DEF Connections
  <2>6. ConInv(d)  BY <1>1, <2>1, <2>3, <2>5 DEF ConInv, Connections
  <2> QED BY <1>1, <1>4, <2>1, <2>4, <2>6, <2>7 DEF Connections
<1> QED BY <1>3, <1>4

LEMMA OnWritesKeeps ==
    ASSUME NEW c, ConInv(c)
    PROVE  LET d == OnWrites(c)
           IN  /\ ConInv(d) /\ d.done = 0
               /\ c.done = 0 => d.status = c.status
               /\ \A f \in {"expected", "failed", "closed", "read_bio", "thrown", "room",
                            "queued", "handshake_done", "finished", "out"} : d[f] = c[f]
<1> DEFINE d == OnWrites(c)
<1>1. c \in Connections /\ c.done \in Nat  BY DEF ConInv, Connections
<1>2. PICK status \in {c.status, "IDLE"} :
         /\ d = [c EXCEPT !.done = 0, !.status = status]
         /\ c.done = 0 => status = c.status
  <2> DEFINE status == IF c.done > 0 /\ ~c.expected THEN "IDLE" ELSE c.status
  <2>1. d = [c EXCEPT !.done = 0, !.status = status]  BY DEF OnWrites
  <2>2. status \in {c.status, "IDLE"} /\ (c.done = 0 => status = c.status)
    BY <1>1
  <2> HIDE DEF d, status
  <2> QED BY <2>1, <2>2
<1> HIDE DEF d
<1>3. d \in Connections  BY <1>1, <1>2 DEF Connections
<1>4. ConInv(d)  BY <1>1, <1>2, <1>3 DEF ConInv, Connections
<1>5. /\ d.done = 0 /\ (c.done = 0 => d.status = c.status)
      /\ \A f \in {"expected", "failed", "closed", "read_bio", "thrown", "room",
                   "queued", "handshake_done", "finished", "out"} : d[f] = c[f]
  BY <1>1, <1>2 DEF Connections
<1> QED BY <1>4, <1>5 DEF d

LEMMA ProcessKeeps ==
    ASSUME NEW c, ConInv(c)
    PROVE  LET d == Process(c)
           IN  /\ ConInv(d)
               /\ ~c.expected => d.status = c.status
               /\ \A f \in {"failed", "closed", "read_bio", "thrown", "room", "queued",
                            "done", "handshake_done", "finished", "out"} : d[f] = c[f]
<1> DEFINE d == Process(c)
<1>1. c \in Connections  BY DEF ConInv
<1> DEFINE e == [c EXCEPT !.expected = FALSE, !.status = "IDLE",
                         !.read_buffer = 0]
<1>2. d = c \/ (c.expected /\ d = e)
  BY Zenon DEF Process
<1>3. ConInv(d)
  <2>1. e \in Connections  BY <1>1 DEF Connections
  <2>2. ConInv(e)  BY <1>1, <2>1 DEF ConInv, Connections
  <2> QED BY <1>2, <2>2
<1> HIDE DEF d
<1>4. /\ ~c.expected => d.status = c.status
      /\ \A f \in {"failed", "closed", "read_bio", "thrown", "room", "queued",
                   "done", "handshake_done", "finished", "out"} : d[f] = c[f]
  BY <1>1, <1>2 DEF Connections
<1> QED BY <1>3, <1>4 DEF d

-----------------------------------------------------------------------------
(* Messages on their way                                                     *)

(* Once OpenSSL is ready; f are the records on their way.                    *)
Going(c, f, s, g, m) ==
    /\ ConInv(c) /\ c.finished /\ f \in Seq(Strings)
    /\ s.gone \in BOOLEAN /\ s.answer \in Nat /\ s.seen \in Nat
    /\ Answering(c, f, s) /\ Sending(c, g, m)

LEMMA RestKeeps ==
    ASSUME NEW c, ConInv(c), c.read_bio # << >>
    PROVE  ConInv([c EXCEPT !.read_bio = Tail(@)])
<1>1. c \in Connections  BY DEF ConInv
<1>2. Tail(c.read_bio) \in Seq(Strings)  BY <1>1, TailIn DEF Connections
<1> QED BY <1>1, <1>2 DEF ConInv, Connections

LEMMA UnreadInt ==
    ASSUME NEW c, NEW f, NEW s, NEW g, NEW m, Going(c, f, s, g, m)
    PROVE  /\ Unread(c, f, s) \in Nat /\ c.read_buffer <= Unread(c, f, s)
           /\ Len(f) \in Nat /\ c.read_buffer \in Nat
           /\ Alert(c, s) \in BOOLEAN
           /\ Len(f) > 0 /\ ~Alert(c, s) => Unread(c, f, s) > 0
<1>1. /\ c.read_buffer \in Nat /\ Len(f) \in Nat
      /\ c.failed \in BOOLEAN /\ c.closed \in BOOLEAN
  BY LenProperties DEF Going, ConInv, Connections
<1>2. Alert(c, s) \in BOOLEAN  BY <1>1 DEF Alert, Over, Going
<1>3. Alert(c, s) => Len(f) > 0
  BY <1>1, EmptySeq DEF Going, Answering, OnWay
<1>4. Unread(c, f, s) = c.read_buffer + Len(f)
                        - (IF Alert(c, s) THEN 1 ELSE 0)
  BY DEF Unread
<1> QED BY <1>1, <1>2, <1>3, <1>4

(* A record that SSL_read has returned is no longer on its way: it is thrown *)
(* away, or one more of the answer is there.                                 *)
LEMMA RecordRead ==
    ASSUME NEW c, NEW f, NEW s, NEW g, NEW m, Going(c, f, s, g, m),
           f # << >>, f[1] = "DATA",
           NEW d, ConInv(d),
           d.read_buffer \in {c.read_buffer, c.read_buffer + 1},
           \A x \in {"status", "expected", "handshake_done", "finished",
                     "failed", "closed", "waiting", "write_bio", "ssl_write_buffer",
                     "queued", "done", "out", "room"} : d[x] = c[x]
    PROVE  Going(d, Tail(f), s, g, m)
<1> DEFINE u == Unread(c, f, s)
           v == Unread(d, Tail(f), s)
<1>1. /\ u \in Nat /\ c.read_buffer <= u /\ Len(f) \in Nat
      /\ c.read_buffer \in Nat /\ Alert(c, s) \in BOOLEAN
  BY UnreadInt
<1>2. /\ Tail(f) \in Seq(Strings) /\ Len(Tail(f)) = Len(f) - 1
      /\ OnWay(Tail(f), Alert(c, s))
  BY <1>1, WayTail DEF Going, Answering
<1>3. Alert(d, s) = Alert(c, s)  BY DEF Alert, Over
<1>4. v \in {u, u - 1} /\ v \in Int
  BY <1>1, <1>2, <1>3 DEF Unread
<1>5. u > 0
  <2>1. Alert(c, s) => Len(f) > 1
    <3>1. Alert(c, s) => Tail(f) # << >>  BY <1>2 DEF OnWay
    <3>2. Alert(c, s) => Len(Tail(f)) > 0  BY <1>2, <3>1, EmptySeq
    <3> QED BY <1>1, <1>2, <3>2
  <2>2. Len(f) > 0  BY <1>1, EmptySeq DEF Going
  <2> QED BY <1>1, <2>1, <2>2 DEF Unread
<1>6. Answering(d, Tail(f), s)
  <2>1. Over(d) => s.gone /\ Tail(f) = << >>
    BY DEF Going, Answering, Over
  <2>2. u <= s.answer /\ s.answer \in Nat  BY DEF Going, Answering
  <2>3. ASSUME ~d.expected \/ d.queued > 0 \/ s.seen < Len(d.out)
        PROVE  Starved(d, Tail(f), s)
    <3>1. Starved(c, f, s)  BY <2>3 DEF Going, Answering
    <3>2. s.gone /\ u < s.answer  BY <1>5, <3>1 DEF Starved
    <3> QED BY <1>1, <1>4, <2>2, <3>2 DEF Starved
  <2> QED BY <1>1, <1>2, <1>3, <1>4, <2>1, <2>2, <2>3 DEF Answering
<1>7. Sending(d, g, m)  BY DEF Going, Sending, Stream, Queued
<1> QED BY <1>2, <1>6, <1>7 DEF Going

(* After the alert comes nothing, whether it is an error or not noticed.     *)
LEMMA AlertRead ==
    ASSUME NEW c, NEW f, NEW s, NEW g, NEW m, Going(c, f, s, g, m),
           Taken(c, s), f # << >>, f[1] # "DATA",
           NEW d, ConInv(d),
           \/ d.status = "SSL_ERROR" /\ ~d.expected /\ d.failed
           \/ d.status = c.status /\ d.expected = c.expected /\ d.closed,
           \A x \in {"handshake_done", "finished", "waiting", "write_bio",
                     "ssl_write_buffer", "queued", "done", "out", "room",
                     "read_buffer"} : d[x] = c[x]
    PROVE  Going(d, Tail(f), s, g, m)
<1> DEFINE u == Unread(c, f, s)
           tail == Tail(f)
           v == Unread(d, tail, s)
<1>1. /\ u \in Nat /\ c.read_buffer <= u /\ Len(f) \in Nat
      /\ c.read_buffer \in Nat /\ Alert(c, s) \in BOOLEAN
  BY UnreadInt
<1>2. /\ tail \in Seq(Strings) /\ Len(tail) = Len(f) - 1
      /\ Alert(c, s) /\ Len(f) = 1 /\ tail = << >>
  BY <1>1, WayTail DEF Going, Answering
<1> HIDE DEF tail
<1>3. ~Alert(d, s) /\ s.gone  BY <1>2 DEF Alert, Over
<1>4. v = u /\ u = c.read_buffer
  BY <1>1, <1>2, <1>3 DEF Unread
<1>5. Answering(d, tail, s)
  <2>1. u <= s.answer /\ s.answer \in Nat  BY DEF Going, Answering
  <2>2. Starved(d, tail, s)
    <3>1. CASE c.expected
      BY <1>1, <1>3, <1>4, <2>1, <3>1 DEF Starved, Taken
    <3>2. CASE ~c.expected
      <4>1. Starved(c, f, s)  BY <3>2 DEF Going, Answering
      <4> QED BY <1>4, <4>1 DEF Starved
    <3> QED BY <3>1, <3>2
  <2>3. OnWay(tail, Alert(d, s))
    <3>1. Len(tail) = 0  BY <1>2
    <3> QED BY <1>3, <3>1 DEF OnWay
  <2> QED BY <1>2, <1>3, <1>4, <2>1, <2>2, <2>3 DEF Answering
<1>6. Sending(d, g, m)  BY DEF Going, Sending, Stream, Queued
<1> QED BY <1>2, <1>5, <1>6 DEF Going, tail

(* Without anything to write, attachsql_ssl_data_check does nothing; without *)
(* write requests, neither libuv nor on_write does.                          *)
LEMMA NothingToDo ==
    ASSUME NEW c, ConInv(c)
    PROVE  /\ c.write_bio = << >> /\ (c.waiting = << >> \/ ~c.finished)
                => DataCheck(c) = c
           /\ c.queued = 0 => Flush(c) = c
           /\ c.done = 0 => OnWrites(c) = c
<1>1. c \in Connections  BY DEF ConInv
<1>2. ASSUME c.write_bio = << >>, c.waiting = << >> \/ ~c.finished
      PROVE  DataCheck(c) = c
  <2>1. ~Encrypts(c)
    <3>1. c.waiting = << >> => c.end = c.start
      <4>1. Len(<< >>) = 0  OBVIOUS
      <4> QED BY <1>1, <4>1 DEF ConInv, Connections
    <3> QED BY <1>1, <1>2, <3>1 DEF Encrypts, Connections
  <2>2. [c EXCEPT !.write_bio = << >>, !.waiting = c.waiting,
                  !.start = c.start] = c
    BY <1>1, <1>2 DEF Connections
  <2>3. c.write_bio \o << >> = << >>  BY <1>2
  <2> QED BY <2>1, <2>2, <2>3 DEF DataCheck, Write
<1>3. ASSUME c.queued = 0 PROVE Flush(c) = c
  <2> DEFINE copies == [i \in 1..c.queued |-> c.ssl_write_buffer[1]]
  <2>1. copies \in Seq({c.ssl_write_buffer[1]}) /\ DOMAIN copies = {}
    BY <1>3
  <2>2. copies = << >>
    <3> HIDE DEF copies
    <3>1. Len(copies) \in Nat /\ 1..Len(copies) = {}  BY <2>1, LenProperties
    <3>2. Len(copies) = 0
      <4> SUFFICES ASSUME Len(copies) # 0 PROVE FALSE  OBVIOUS
      <4>1. 1 \in 1..Len(copies)  BY <3>1
      <4> QED BY <3>1, <4>1
    <3> QED BY <2>1, <3>2, EmptySeq
  <2>3. c.out \o copies = c.out
    <3> HIDE DEF copies
    <3> QED BY <1>1, <2>2, ConcatEmptySeq DEF Connections
  <2>4. c.done + c.queued = c.done  BY <1>1, <1>3 DEF Connections
  <2>5. [c EXCEPT !.out = c.out, !.queued = 0, !.done = c.done] = c
    BY <1>1, <1>3 DEF Connections
  <2>6. Flush(c) = IF ~c.room THEN c
                   ELSE [c EXCEPT !.out = c.out \o copies, !.queued = 0,
                                  !.done = c.done + c.queued]
    BY DEF Flush
  <2> HIDE DEF copies
  <2> QED BY <2>3, <2>4, <2>5, <2>6
<1>4. ASSUME c.done = 0 PROVE OnWrites(c) = c
  <2>1. OnWrites(c) = [c EXCEPT !.done = 0, !.status = c.status]
    BY <1>4 DEF OnWrites
  <2> QED BY <1>1, <1>4, <2>1 DEF Connections
<1> QED BY <1>2, <1>3, <1>4

(* t are the records that are still in the socket.                           *)
LEMMA SslRunGoing ==
    ASSUME NEW c, NEW t \in Seq(Strings), NEW s, NEW g, NEW m,
           Going(c, c.read_bio \o t, s, g, m), Taken(c, s)
    PROVE  LET d == SslRun(c)
           IN  Going(d, d.read_bio \o t, s, g, m) /\ Taken(d, s)
<1> DEFINE d == SslRun(c)
           rest == [c EXCEPT !.read_bio = Tail(@)]
           f == c.read_bio \o t
<1>1. /\ ConInv(c) /\ c \in Connections /\ c.finished
      /\ c.waiting = << >> /\ c.write_bio = << >>
  BY DEF Going, ConInv, Sending
<1>2. CASE c.read_bio = << >>
  <2>1. d = c  BY <1>1, <1>2, NothingToDo DEF SslRun
  <2> QED BY <2>1
<1>3. CASE c.read_bio # << >>
  <2>1. ConInv(rest)  BY <1>1, <1>3, RestKeeps
  <2>2. /\ f # << >> /\ f[1] = Head(c.read_bio)
        /\ Tail(c.read_bio) \o t = Tail(f)
    <3>1. c.read_bio \in Seq(Strings)  BY <1>1 DEF Connections
    <3> QED BY <1>3, <3>1, FlowTail
  <2> HIDE DEF f
  <2>3. CASE Head(c.read_bio) = "DATA"
    <3> DEFINE e == [rest EXCEPT !.thrown = @ + 1]
    <3>1. d = DataCheck(e)  BY <1>1, <1>3, <2>3 DEF SslRun
    <3>2. ConInv(e)
      <4>1. c.thrown + 1 \in Nat  BY <1>1 DEF Connections
      <4>2. Tail(c.read_bio) \in Seq(Strings)
        BY <1>1, <1>3, TailIn DEF Connections
      <4>3. e \in Connections  BY <1>1, <4>1, <4>2 DEF Connections
      <4> QED BY <1>1, <4>3 DEF ConInv, Connections
    <3>3. /\ e.read_bio = Tail(c.read_bio)
          /\ \A x \in {"status", "expected", "handshake_done", "finished",
                       "failed", "closed", "waiting", "write_bio", "ssl_write_buffer",
                       "queued", "done", "out", "room", "read_buffer"} :
               e[x] = c[x]
      BY <1>1 DEF Connections
    <3> HIDE DEF e
    <3>4. d = e  BY <1>1, <3>1, <3>2, <3>3, NothingToDo
    <3>5. Going(e, Tail(f), s, g, m)
      BY <2>2, <2>3, <3>2, <3>3, RecordRead DEF f
    <3>6. Taken(e, s)  BY <3>3 DEF Taken
    <3> QED BY <2>2, <3>3, <3>4, <3>5, <3>6
  <2>4. CASE Head(c.read_bio) = "ALERT"
    <3> DEFINE e == [rest EXCEPT !.closed = TRUE]
    <3>1. d = DataCheck(e)  BY <1>1, <1>3, <2>4 DEF SslRun
    <3>2. ConInv(e)  BY <1>1, <2>1 DEF ConInv, Connections
    <3>3. /\ e.read_bio = Tail(c.read_bio) /\ e.closed
          /\ \A x \in {"status", "expected", "handshake_done", "finished",
                       "waiting", "write_bio", "ssl_write_buffer", "queued",
                       "done", "out", "room", "read_buffer"} : e[x] = c[x]
      BY <1>1 DEF Connections
    <3> HIDE DEF e
    <3>4. d = e  BY <1>1, <3>1, <3>2, <3>3, NothingToDo
    <3>5. Going(e, Tail(f), s, g, m)
      BY <2>2, <2>4, <3>2, <3>3, AlertRead DEF f
    <3>6. Taken(e, s)  BY <3>3 DEF Taken
    <3> QED BY <2>2, <3>3, <3>4, <3>5, <3>6
  <2>5. CASE Head(c.read_bio) \notin {"DATA", "ALERT"}
    <3> DEFINE e == HandleError(rest)
    <3>1. d = DataCheck(e)  BY <1>1, <1>3, <2>5 DEF SslRun
    <3>2. ConInv(e)  BY <2>1, HandleErrorKeeps
    <3>3. /\ e.read_bio = Tail(c.read_bio)
          /\ e.status = "SSL_ERROR" /\ ~e.expected /\ e.failed
          /\ \A x \in {"handshake_done", "finished", "waiting", "write_bio",
                       "ssl_write_buffer", "queued", "done", "out", "room",
                       "read_buffer"} : e[x] = c[x]
      BY <1>1 DEF Connections, HandleError
    <3> HIDE DEF e
    <3>4. d = e  BY <1>1, <3>1, <3>2, <3>3, NothingToDo
    <3>5. Going(e, Tail(f), s, g, m)
      BY <2>2, <2>5, <3>2, <3>3, AlertRead DEF f
    <3>6. Taken(e, s)  BY <3>3 DEF Taken
    <3> QED BY <2>2, <3>3, <3>4, <3>5, <3>6
  <2> QED BY <2>3, <2>4, <2>5
<1> QED BY <1>2, <1>3

LEMMA DecryptGoing ==
    ASSUME NEW c, NEW t \in Seq(Strings), NEW s, NEW g, NEW m,
           Going(c, c.read_bio \o t, s, g, m), Taken(c, s),
           c.read_bio # << >>
    PROVE  LET d == Decrypt(c) IN Going(d, d.read_bio \o t, s, g, m)
<1> DEFINE d == Decrypt(c)
           rest == [c EXCEPT !.read_bio = Tail(@)]
           f == c.read_bio \o t
<1>1. ConInv(c) /\ c \in Connections /\ c.finished
  BY DEF Going, ConInv
<1>2. /\ f # << >> /\ f[1] = Head(c.read_bio)
      /\ Tail(c.read_bio) \o t = Tail(f)
  <2>1. c.read_bio \in Seq(Strings)  BY <1>1 DEF Connections
  <2> QED BY <2>1, FlowTail
<1> HIDE DEF f
<1>3. ConInv(d)  BY <1>1, DecryptKeeps
<1>4. CASE Head(c.read_bio) = "DATA"
  <2>1. d = [rest EXCEPT !.read_buffer = @ + 1]  BY <1>1, <1>4 DEF Decrypt
  <2>2. /\ d.read_bio = Tail(c.read_bio)
        /\ d.read_buffer \in {c.read_buffer, c.read_buffer + 1}
        /\ \A x \in {"status", "expected", "handshake_done", "finished",
                     "failed", "closed", "waiting", "write_bio", "ssl_write_buffer",
                     "queued", "done", "out", "room"} : d[x] = c[x]
    BY <1>1, <2>1 DEF Connections
  <2> HIDE DEF d
  <2>3. Going(d, Tail(f), s, g, m)
    BY <1>2, <1>3, <1>4, <2>2, RecordRead DEF f
  <2> QED BY <1>2, <2>2, <2>3 DEF d
<1>5. CASE Head(c.read_bio) = "ALERT"
  <2>1. d = [rest EXCEPT !.closed = TRUE]  BY <1>1, <1>5 DEF Decrypt
  <2>2. /\ d.read_bio = Tail(c.read_bio) /\ d.closed
        /\ \A x \in {"status", "expected", "handshake_done", "finished",
                     "waiting", "write_bio", "ssl_write_buffer", "queued",
                     "done", "out", "room", "read_buffer"} : d[x] = c[x]
    BY <1>1, <2>1 DEF Connections
  <2> HIDE DEF d
  <2>3. Going(d, Tail(f), s, g, m)
    BY <1>2, <1>3, <1>5, <2>2, AlertRead DEF f
  <2> QED BY <1>2, <2>2, <2>3 DEF d
<1>6. CASE Head(c.read_bio) \notin {"DATA", "ALERT"}
  <2>1. d = HandleError(rest)  BY <1>1, <1>6 DEF Decrypt
  <2>2. /\ d.read_bio = Tail(c.read_bio)
        /\ d.status = "SSL_ERROR" /\ ~d.expected /\ d.failed
        /\ \A x \in {"handshake_done", "finished", "waiting", "write_bio",
                     "ssl_write_buffer", "queued", "done", "out", "room",
                     "read_buffer"} : d[x] = c[x]
    BY <1>1, <2>1 DEF Connections, HandleError
  <2> HIDE DEF d
  <2>3. Going(d, Tail(f), s, g, m)
    BY <1>2, <1>3, <1>6, <2>2, AlertRead DEF f
  <2> QED BY <1>2, <2>2, <2>3 DEF d
<1> QED BY <1>4, <1>5, <1>6

LEMMA OnWritesGoing ==
    ASSUME NEW c, NEW f, NEW s, NEW g, NEW m, Going(c, f, s, g, m)
    PROVE  LET d == OnWrites(c)
           IN  /\ Going(d, f, s, g, m) /\ d.done = 0
               /\ d.read_bio = c.read_bio
               /\ Taken(c, s) => Taken(d, s)
<1> DEFINE d == OnWrites(c)
<1>1. ConInv(c) /\ c \in Connections /\ c.done \in Nat
  BY DEF Going, ConInv, Connections
<1>2. /\ \A x \in {"expected", "handshake_done", "finished", "failed", "closed",
                   "waiting", "write_bio", "ssl_write_buffer", "queued",
                   "out", "room", "read_buffer", "read_bio"} : d[x] = c[x]
      /\ d.status = IF c.done > 0 /\ ~c.expected THEN "IDLE" ELSE c.status
      /\ d.done = 0
  BY <1>1 DEF OnWrites, Connections
<1>3. ConInv(d)  BY <1>1, OnWritesKeeps
<1> HIDE DEF d
<1>4. Answering(d, f, s)
  BY <1>2 DEF Going, Answering, Alert, Over, Unread, Starved
<1>5. Sending(d, g, m)
  <2>1. d.status = "IDLE" => ~d.expected  BY <1>2 DEF Going, Sending
  <2>2. ASSUME Single(g), d.queued > 0 PROVE d.queued = 1 /\ d.status # "IDLE"
    <3>1. c.queued = 1 /\ c.status # "IDLE" /\ c.done = 0
      BY <1>2, <2>2 DEF Going, Sending
    <3> QED BY <1>2, <3>1
  <2> QED BY <1>2, <2>1, <2>2 DEF Going, Sending, Stream, Queued
<1>6. Taken(c, s) => Taken(d, s)  BY <1>2 DEF Taken
<1> QED BY <1>2, <1>3, <1>4, <1>5, <1>6 DEF Going, d

(* What libuv writes is what the buffer holds now: if several requests are   *)
(* queued, that is not what they were made for.                              *)
LEMMA FlushGoing ==
    ASSUME NEW c, NEW f, NEW s, NEW g, NEW m, Going(c, f, s, g, m)
    PROVE  LET d == OnWrites(Flush(c))
           IN  /\ Going(d, f, s, g, m) /\ d.done = 0
               /\ d.read_bio = c.read_bio
<1> DEFINE b == Flush(c)
           d == OnWrites(b)
<1>1. ConInv(c) /\ c \in Connections /\ c.done \in Nat /\ c.queued \in Nat
  BY DEF Going, ConInv, Connections
<1>2. ConInv(b) /\ ConInv(d)  BY <1>1, FlushKeeps, OnWritesKeeps
<1>3. CASE c.queued = 0 \/ ~c.room
  <2>1. b = c
    <3>1. CASE c.queued = 0  BY <1>1, <3>1, NothingToDo
    <3>2. CASE ~c.room  BY <3>2 DEF Flush
    <3> QED BY <1>3, <3>1, <3>2
  <2> QED BY <2>1, OnWritesGoing
<1>4. CASE c.queued > 0 /\ c.room
  <2> DEFINE chunk == c.ssl_write_buffer[1]
             copies == [i \in 1..c.queued |-> chunk]
             out == c.out \o copies
  <2>1. b = [c EXCEPT !.out = out, !.queued = 0, !.done = c.done + c.queued]
    BY <1>4 DEF Flush
  <2>2. chunk \in Secret /\ IsData(chunk)
    <3>1. /\ c.ssl_write_buffer \in Seq(Written)
          /\ 1 \in 1..Len(c.ssl_write_buffer)
          /\ IsData(chunk)
      BY <1>1 DEF Going, Sending, Connections
    <3>2. chunk \in Written  BY <3>1, ElementOfSeq
    <3> HIDE DEF chunk
    <3> QED BY <3>1, <3>2 DEF Written, Open
  <2> HIDE DEF chunk
  <2>3. copies \in Seq(Secret) /\ Len(copies) = c.queued
        /\ copies[Len(copies)] = chunk
        /\ (c.queued = 1 => copies = << chunk >>)
    <3>1. copies \in Seq(Secret)  BY <1>1, <2>2, IsASeq
    <3>2. DOMAIN copies = 1..c.queued
          /\ \A i \in 1..c.queued : copies[i] = chunk
      OBVIOUS
    <3> HIDE DEF copies
    <3>3. Len(copies) = c.queued
      <4>1. Len(copies) \in Nat /\ 1..Len(copies) = 1..c.queued
        BY <3>1, <3>2, LenProperties
      <4>2. /\ c.queued \in 1..c.queued
            /\ Len(copies) >= 1 => Len(copies) \in 1..Len(copies)
        BY <1>1, <1>4, <4>1
      <4> QED BY <1>1, <1>4, <4>1, <4>2
    <3>4. c.queued \in 1..c.queued  BY <1>1, <1>4
    <3>5. ASSUME c.queued = 1 PROVE copies = << chunk >>
      <4>1. << chunk >> \in Seq(Secret) /\ Len(<< chunk >>) = 1
            /\ \A i \in 1..1 : << chunk >>[i] = chunk
        BY <2>2
      <4>2. /\ Len(copies) = 1
            /\ \A i \in 1..Len(copies) : copies[i] = << chunk >>[i]
        BY <3>2, <3>3, <3>5, <4>1
      <4> QED BY <3>1, <4>1, <4>2, SeqEqual
    <3> QED BY <3>1, <3>2, <3>3, <3>4, <3>5
  <2> HIDE DEF copies
  <2>4. /\ out # << >> /\ IsData(out[Len(out)])
    <3>1. c.out \in Seq(Written) /\ copies \in Seq(Written)
      BY <1>1, <2>3, Wider DEF Connections
    <3>2. copies # << >>  BY <1>4, <2>3, EmptySeq
    <3>3. out # << >> /\ out[Len(out)] = copies[Len(copies)]
      BY <3>1, <3>2, LastOfConcat
    <3> QED BY <2>2, <2>3, <3>3
  <2>5. Kept(g, m) => Data(out) = g
    <3> SUFFICES ASSUME Kept(g, m) PROVE Data(out) = g  OBVIOUS
    <3>1. c.queued = 1 /\ Data(c.out) \o c.ssl_write_buffer = g
      <4>1. c.queued # 0  BY <1>4
      <4>2. "full" \notin m => c.queued = 0  BY DEF Going, Sending
      <4>3. Single(g)  BY <4>1, <4>2 DEF Kept
      <4>4. c.queued = 1  BY <1>4, <4>3 DEF Going, Sending
      <4> QED BY <4>4 DEF Going, Sending, Stream, Queued
    <3>2. c.ssl_write_buffer = << chunk >>
      BY <1>1 DEF Going, Sending, Connections, chunk
    <3>3. Data(out) = Data(c.out) \o copies
      BY <1>1, <2>3, DataConcat DEF Connections
    <3> QED BY <2>3, <3>1, <3>2, <3>3
  <2> HIDE DEF out
  <2>6. /\ \A x \in {"expected", "handshake_done", "finished", "failed", "closed",
                     "waiting", "write_bio", "ssl_write_buffer", "room",
                     "read_buffer", "read_bio"} : b[x] = c[x]
        /\ b.status = c.status /\ b.out = out /\ b.queued = 0
        /\ b \in Connections
    BY <1>1, <1>2, <2>1 DEF Connections, ConInv
  <2> HIDE DEF b
  <2>7. /\ \A x \in {"expected", "handshake_done", "finished", "failed", "closed",
                     "waiting", "write_bio", "ssl_write_buffer", "room",
                     "read_buffer", "read_bio"} : d[x] = c[x]
        /\ d.status = IF b.done > 0 /\ ~c.expected THEN "IDLE" ELSE c.status
        /\ d.out = out /\ d.queued = 0 /\ d.done = 0
    BY <2>6 DEF OnWrites, Connections
  <2> HIDE DEF d
  <2>8. Starved(c, f, s)  BY <1>4 DEF Going, Answering
  <2>9. Answering(d, f, s)
    BY <2>7, <2>8 DEF Going, Answering, Alert, Over, Unread, Starved
  <2>10. Kept(g, m) => Stream(d) = g
    <3>1. Data(d.out) \o << >> = Data(d.out)
      <4>1. d.out \in Seq(Written)  BY <1>2 DEF ConInv, Connections
      <4>2. Len(d.out) \in 0..Len(d.out)  BY <4>1, LenProperties
      <4>3. Data(d.out) \in Seq(Written)  BY <4>1, <4>2, DataAdds DEF Data
      <4> QED BY <4>3, ConcatEmptySeq
    <3> QED BY <2>5, <2>7, <3>1 DEF Stream, Queued
  <2>11. Sending(d, g, m)
    <3>1. d.status = "IDLE" => ~d.expected  BY <2>7 DEF Going, Sending
    <3> QED BY <1>4, <2>4, <2>7, <2>10, <3>1 DEF Going, Sending
  <2> QED BY <1>2, <2>7, <2>9, <2>11 DEF Going, d, b
<1>5. c.queued = 0 \/ ~c.room \/ (c.queued > 0 /\ c.room)  BY <1>1
<1> QED BY <1>3, <1>4, <1>5

(* An answer that is there in full is one that nothing waits behind.         *)
LEMMA ProcessGoing ==
    ASSUME NEW c, NEW f, NEW g, NEW m, Going(c, f, server, g, m), c.done = 0
    PROVE  LET d == Process(c)
           IN  /\ Going(d, f, server, g, m) /\ Taken(d, server)
               /\ d.read_bio = c.read_bio
<1> DEFINE d == Process(c)
<1>1. ConInv(c) /\ c \in Connections /\ c.handshake_done
  BY DEF Going, ConInv, Sending
<1>2. ConInv(d)  BY <1>1, ProcessKeeps
<1>3. /\ Unread(c, f, server) \in Nat /\ c.read_buffer <= Unread(c, f, server)
      /\ c.read_buffer \in Nat /\ Len(f) \in Nat
  BY UnreadInt
<1>4. CASE c.expected /\ c.read_buffer > 0 /\ c.read_buffer = server.answer
  <2>1. d = [c EXCEPT !.expected = FALSE, !.status = "IDLE", !.read_buffer = 0]
    BY <1>1, <1>4 DEF Process
  <2>2. /\ \A x \in {"handshake_done", "finished", "failed", "closed", "waiting",
                     "write_bio", "ssl_write_buffer", "room", "read_bio",
                     "queued", "done", "out"} : d[x] = c[x]
        /\ ~d.expected /\ d.status = "IDLE" /\ d.read_buffer = 0
    BY <1>1, <2>1 DEF Connections
  <2> HIDE DEF d
  <2>3. ~Starved(c, f, server)
    BY <1>3, <1>4 DEF Starved
  <2>4. ~(c.queued > 0) /\ ~(server.seen < Len(c.out))
    BY <2>3 DEF Going, Answering
  <2>5. Unread(c, f, server) = server.answer
    BY <1>3, <1>4 DEF Going, Answering
  <2>6. Alert(d, server) = Alert(c, server)  BY <2>2 DEF Alert, Over
  <2>7. Unread(d, f, server) = 0
    <3> DEFINE alerts == IF Alert(c, server) THEN 1 ELSE 0
    <3>1. alerts \in {0, 1}  OBVIOUS
    <3>2. /\ Unread(c, f, server) = c.read_buffer + Len(f) - alerts
          /\ Unread(d, f, server) = 0 + Len(f) - alerts
      BY <2>2, <2>6 DEF Unread
    <3> HIDE DEF alerts
    <3> QED BY <1>3, <1>4, <2>5, <3>1, <3>2
  <2>8. Answering(d, f, server)
    BY <2>2, <2>6, <2>7 DEF Going, Answering, Over, Starved
  <2>9. Sending(d, g, m)
    BY <2>2, <2>4 DEF Going, Sending, Stream, Queued
  <2> QED BY <1>2, <2>2, <2>8, <2>9 DEF Going, Taken, d
<1>5. CASE ~(c.expected /\ c.read_buffer > 0 /\ c.read_buffer = server.answer)
  <2>1. d = c  BY <1>5 DEF Process
  <2>2. Taken(c, server)  BY <1>3, <1>5 DEF Taken
  <2> QED BY <2>1, <2>2
<1> QED BY <1>4, <1>5

(* A read while OpenSSL shakes hands: of a message of the server's, which is *)
(* answered, of the last, after which the login is written, or of an alert.  *)
LEMMA ShakingRead ==
    ASSUME ConInv(con), con.handshake_done, ~con.finished,
           con.status = "CONNECTING", Shaking(con, server, given),
           given \in Seq(Secret),
           server.gone \in BOOLEAN, server.answer \in Nat, server.seen \in Nat,
           server.in \in Seq(Strings), server.in # << >>,
           server'.in = << >>, server'.gone = server.gone,
           server'.seen = server.seen
    PROVE  LET d == Decrypt([con EXCEPT !.read_bio = server.in])
           IN  /\ ConInv(d) /\ d.queued = 0 /\ d.read_buffer = 0
               /\ d.read_bio = << >>
               /\ d.finished =>
                    /\ d.status = "CONNECTING" /\ d.expected
                    /\ Going([d EXCEPT !.done = 0], << >>, server, given, met)
               /\ ~d.finished =>
                    /\ d.failed => d.done = 0
                    /\ Shaking([d EXCEPT !.done = 0], server', given)
                    /\ d.handshake_done
<1> DEFINE d == Decrypt([con EXCEPT !.read_bio = server.in])
           e == [con EXCEPT !.read_bio = server.in]
<1>1. /\ con \in Connections /\ con.room /\ con.queued = 0 /\ con.done = 0
      /\ con.read_bio = << >> /\ con.write_bio = << >> /\ con.read_buffer = 0
      /\ con.waiting = given /\ given # << >> /\ ~con.failed /\ con.expected
  BY DEF ConInv, Shaking
<1>2. /\ Len(server.in) = 1 /\ server.in[1] = Head(server.in)
      /\ Tail(server.in) = << >>
  <2>1. Len(server.in) <= 1  BY DEF Shaking
  <2> QED BY <2>1, OneRecord
<1>3. /\ e.read_bio = server.in /\ ~e.finished
      /\ [e EXCEPT !.read_bio = Tail(@)] = con
  BY <1>1, <1>2 DEF Connections
<1>4. /\ IF server.gone THEN server.in[1] \in {"ALERT", "ERROR"}
         ELSE /\ server.in[1] \in {"CERTIFICATE", "FINISHED"}
              /\ server.seen = Len(con.out) /\ ~con.closed
  BY DEF Shaking, Over
<1>5. d = IF server.in[1] \in {"CERTIFICATE", "FINISHED"}
          THEN DataCheck(Handshake(e)) ELSE Handshake(e)
  BY <1>2, <1>3 DEF Decrypt
<1> SUFFICES /\ ConInv(d) /\ d.queued = 0 /\ d.read_buffer = 0
             /\ d.read_bio = << >>
             /\ d.finished =>
                  /\ d.status = "CONNECTING" /\ d.expected
                  /\ Going([d EXCEPT !.done = 0], << >>, server, given, met)
             /\ ~d.finished =>
                  /\ d.failed => d.done = 0
                  /\ Shaking([d EXCEPT !.done = 0], server', given)
                  /\ d.handshake_done
  OBVIOUS
<1> HIDE DEF e, d
<1>6. CASE server.in[1] = "CERTIFICATE"
  <2> DEFINE y == [con EXCEPT !.write_bio = Append(@, Chunk("KEY"))]
  <2>1. d = DataCheck(y)  BY <1>2, <1>3, <1>5, <1>6 DEF Handshake
  <2>2. Chunk("KEY") \in Open
    BY TlsAssumption DEF Chunk, Open, Chunks, Messages, IsData
  <2>3. Append(con.write_bio, Chunk("KEY")) \in Seq(Open)
    BY <1>1, <2>2, AppendProperties DEF Connections
  <2>4. /\ ConInv(y) /\ y.handshake_done /\ ~y.finished /\ y.room
        /\ y.queued = 0 /\ y.read_bio = << >> /\ y.read_buffer = 0
        /\ y.waiting = given /\ y.status = "CONNECTING" /\ y.expected
        /\ ~y.failed /\ y.closed = con.closed
    BY <1>1, <2>3 DEF ConInv, Connections
  <2> HIDE DEF y
  <2>5. /\ ConInv(d) /\ d.handshake_done /\ ~d.finished /\ d.room
        /\ d.queued = 0 /\ d.read_bio = << >> /\ d.read_buffer = 0
        /\ d.waiting = given /\ d.status = "CONNECTING" /\ d.expected
        /\ ~d.failed /\ d.write_bio = << >> /\ d.closed = con.closed
    BY <2>1, <2>4, DataCheckKeeps DEF Follows, Encrypts
  <2>6. Shaking([d EXCEPT !.done = 0], server', given)
    <3>1. d \in Connections  BY <2>5 DEF ConInv
    <3>2. Len(server'.in) <= 1
      <4>1. Len(<< >>) = 0  OBVIOUS
      <4> QED BY <4>1
    <3> QED BY <1>1, <1>4, <1>6, <2>5, <3>1, <3>2
            DEF Connections, Shaking, Over
  <2> QED BY <2>5, <2>6
<1>7. CASE server.in[1] = "FINISHED"
  <2> DEFINE y == [con EXCEPT !.finished = TRUE]
             z == [y EXCEPT !.write_bio = << >>, !.waiting = << >>,
                            !.start = y.end]
             x == [d EXCEPT !.done = 0]
  <2>1. d = DataCheck(y)  BY <1>2, <1>3, <1>5, <1>7 DEF Handshake
  <2>2. ConInv(y) /\ y \in Connections /\ Encrypts(y)
    <3>1. ConInv(y)  BY <1>1 DEF ConInv, Connections
    <3>2. y.finished /\ y.end = y.start + Len(given) /\ y.start \in Nat
          /\ Len(given) \in Nat \ {0}
      BY <1>1, EmptySeq DEF ConInv, Connections
    <3> QED BY <3>1, <3>2 DEF Encrypts, ConInv
  <2>3. d = Write(z, given)
    <3>1. y.write_bio \o y.waiting = given
      BY <1>1, ConcatEmptySeq DEF Connections
    <3> QED BY <2>1, <2>2, <3>1 DEF DataCheck
  <2>4. /\ z.queued = 0 /\ z.room /\ z.out = con.out /\ z.done = 0
        /\ z \in Connections
    <3>1. y.queued = 0 /\ y.room /\ y.out = con.out /\ y.done = 0
          /\ y.end \in Nat
      BY <1>1, <2>2 DEF Connections
    <3>2. << >> \in Seq(Open) /\ << >> \in Seq(Secret)  OBVIOUS
    <3> HIDE DEF y
    <3> QED BY <2>2, <3>1, <3>2 DEF Connections
  <2>5. d = [z EXCEPT !.out = con.out \o given, !.done = 0 + Len(given),
                      !.ssl_write_buffer = << Last(given) >>]
    BY <1>1, <2>3, <2>4 DEF Write
  <2>6. ConInv(d)  BY <2>1, <2>2, DataCheckKeeps
  <2>7. /\ d.handshake_done /\ d.finished /\ d.room /\ d.queued = 0
        /\ d.read_bio = << >> /\ d.read_buffer = 0 /\ d.write_bio = << >>
        /\ d.waiting = << >> /\ d.status = "CONNECTING" /\ d.expected
        /\ ~d.failed /\ ~d.closed /\ d.out = con.out \o given
        /\ d.ssl_write_buffer = << given[Len(given)] >>
    <3>1. z.handshake_done /\ z.finished /\ z.read_bio = << >>
          /\ z.read_buffer = 0 /\ z.write_bio = << >> /\ z.waiting = << >>
          /\ z.status = "CONNECTING" /\ z.expected /\ ~z.failed /\ ~z.closed
      BY <1>1, <1>4, <1>7 DEF Connections
    <3> HIDE DEF z
    <3> QED BY <2>4, <2>5, <3>1 DEF Connections, Last
  <2>8. /\ x.handshake_done /\ x.finished /\ x.room /\ x.queued = 0
        /\ x.read_bio = << >> /\ x.read_buffer = 0 /\ x.write_bio = << >>
        /\ x.waiting = << >> /\ x.status = "CONNECTING" /\ x.expected
        /\ ~x.failed /\ ~x.closed /\ x.out = con.out \o given
        /\ x.ssl_write_buffer = << given[Len(given)] >>
        /\ ConInv(x)
    BY <2>6, <2>7 DEF ConInv, Connections
  <2> HIDE DEF x
  <2>9. /\ x.out # << >> /\ IsData(x.out[Len(x.out)])
        /\ IsData(given[Len(given)]) /\ Len(con.out) < Len(x.out)
    <3>1. con.out \in Seq(Written) /\ given \in Seq(Written)
      BY <1>1, Wider DEF Connections
    <3>2. given[Len(given)] \in Secret  BY <1>1, LastOfConcat
    <3> QED BY <1>1, <2>8, <3>1, <3>2, LastOfConcat DEF Secret
  <2>10. Stream(x) = given
    <3>1. con.out \in Seq(Open) /\ con.out \in Seq(Written)
      BY <1>1 DEF ConInv, Connections
    <3>2. Data(x.out) = Data(con.out) \o given  BY <2>8, <3>1, DataConcat
    <3>3. Data(x.out) = given
      BY <3>1, <3>2, DataOpen, ConcatEmptySeq
    <3>4. given \o << >> = given  BY ConcatEmptySeq
    <3> QED BY <2>8, <3>3, <3>4 DEF Stream, Queued
  <2>11. Sending(x, given, met)
    <3>1. /\ Len(x.ssl_write_buffer) = 1
          /\ x.ssl_write_buffer[1] = given[Len(given)]
      BY <2>8
    <3> QED BY <2>8, <2>9, <2>10, <3>1 DEF Sending
  <2>12. Answering(x, << >>, server)
    <3>1. ~server.gone  BY <1>4, <1>7
    <3>2. ~Alert(x, server) /\ Len(<< >>) = 0  BY <3>1 DEF Alert, Over
    <3>3. Unread(x, << >>, server) = 0  BY <2>8, <3>2 DEF Unread
    <3> QED BY <2>8, <3>2, <3>3 DEF Answering, OnWay, Over, Starved
  <2>13. Going(x, << >>, server, given, met)  BY <2>8, <2>11, <2>12 DEF Going
  <2> QED BY <2>6, <2>7, <2>13 DEF x
<1>8. CASE server.in[1] = "ALERT"
  <2>1. d = [con EXCEPT !.closed = TRUE]
    BY <1>2, <1>3, <1>5, <1>8 DEF Handshake
  <2>2. ConInv(d)  BY <1>1, <2>1 DEF ConInv, Connections
  <2>3. /\ d.handshake_done /\ ~d.finished /\ d.room /\ d.queued = 0
        /\ d.read_bio = << >> /\ d.read_buffer = 0 /\ d.write_bio = << >>
        /\ d.waiting = given /\ d.status = "CONNECTING" /\ d.expected
        /\ ~d.failed /\ d.done = 0
    BY <1>1, <2>1 DEF Connections
  <2>4. server.gone  BY <1>4, <1>8
  <2>5. Shaking([d EXCEPT !.done = 0], server', given)
    <3>1. d \in Connections  BY <2>2 DEF ConInv
    <3>2. Len(server'.in) <= 1
      <4>1. Len(<< >>) = 0  OBVIOUS
      <4> QED BY <4>1
    <3> QED BY <1>1, <2>3, <2>4, <3>1, <3>2 DEF Connections, Shaking
  <2> QED BY <2>2, <2>3, <2>5
<1>9. CASE server.in[1] \notin {"CERTIFICATE", "FINISHED", "ALERT"}
  <2>1. d = HandleError(con)  BY <1>2, <1>3, <1>5, <1>9 DEF Handshake
  <2>2. ConInv(d)  BY <2>1, HandleErrorKeeps
  <2>3. /\ d.handshake_done /\ ~d.finished /\ d.room /\ d.queued = 0
        /\ d.read_bio = << >> /\ d.read_buffer = 0 /\ d.write_bio = << >>
        /\ d.waiting = given /\ d.status = "SSL_ERROR" /\ ~d.expected
        /\ d.failed /\ d.done = 0
    BY <1>1, <2>1 DEF Connections, HandleError
  <2>4. server.gone  BY <1>4, <1>9
  <2>5. Shaking([d EXCEPT !.done = 0], server', given)
    <3>1. d \in Connections  BY <2>2 DEF ConInv
    <3>2. Len(server'.in) <= 1
      <4>1. Len(<< >>) = 0  OBVIOUS
      <4> QED BY <4>1
    <3> QED BY <1>1, <2>3, <2>4, <3>1, <3>2 DEF Connections, Shaking
  <2> QED BY <2>2, <2>3, <2>5
<1> QED BY <1>6, <1>7, <1>8, <1>9

-----------------------------------------------------------------------------
(* The steps of Next                                                         *)

LEMMA InitInv == Init => TlsInv
<1> SUFFICES ASSUME Init PROVE TlsInv  OBVIOUS
<1>1. DefaultSize \in Nat  BY TlsAssumption
<1>2. con \in Connections  BY <1>1 DEF Init, Connections
<1>3. ConInv(con)  BY <1>2 DEF Init, ConInv
<1>4. server \in [ssl : BOOLEAN, seen : Nat, answer : Nat, gone : BOOLEAN,
                  in : Seq(Strings)]
  <2>1. << "GREETING" >> \in Seq(Strings)  BY DEF Strings
  <2>2. server \in [ssl : BOOLEAN, seen : {0}, answer : {0}, gone : {FALSE},
                    in : {<< "GREETING" >>}]
    BY DEF Init
  <2>3. PICK greeting \in Seq(Strings) :
           server \in [ssl : BOOLEAN, seen : {0}, answer : {0}, gone : {FALSE},
                      in : {greeting}]
    BY <2>1, <2>2
  <2>4. server.ssl \in BOOLEAN  BY <2>3
  <2>5. server.seen \in Nat /\ server.answer \in Nat  BY <2>3
  <2>6. server.gone \in BOOLEAN  BY <2>3
  <2>7. server.in \in Seq(Strings)  BY <2>3
  <2>8. server = [ssl |-> server.ssl, seen |-> server.seen,
                  answer |-> server.answer, gone |-> server.gone,
                  in |-> server.in]
    BY <2>3
  <2> QED BY <2>4, <2>5, <2>6, <2>7, <2>8
<1>5. AnswersKept  BY DEF Init, AnswersKept, NothingLost, ErrorReported
<1>6. PlainInv /\ RestInv  BY DEF Init, PlainInv, RestInv
<1> QED BY <1>3, <1>4, <1>5, <1>6 DEF Init, TlsInv

(* The library's part of a poll: what becomes of con before the thrown       *)
(* records are counted.                                                      *)
Polled(c, n) == Process(OnWrites(Flush(Turned(c, n))))

(* The turn up to the read: an error stops everything.                       *)
LEMMA TurnedKeeps ==
    ASSUME NEW c, ConInv(c), server.ssl, server.in \in Seq(Strings),
           NEW n \in Nat, n <= Len(server.in),
           ~c.handshake_done => c.read_bio = << >>
    PROVE  LET d == Turned(c, n)
           IN  /\ ConInv(d) /\ d.room = c.room
               /\ c.room /\ c.queued = 0 => d.queued = 0
               /\ ~d.handshake_done => d.read_bio = << >>
               /\ c.read_bio = << >> => d.thrown = c.thrown
               /\ c.read_bio = << >> /\ n <= 1 => d.read_bio = << >>
               /\ (/\ c.read_bio = << >> /\ c.room /\ c.queued = 0
                   /\ ~c.failed /\ d.failed) =>
                      /\ d.status = "SSL_ERROR" /\ ~d.expected
                      /\ d.done = 0 /\ d.queued = 0
<1> DEFINE ran == IF c.handshake_done THEN SslRun(c) ELSE c
           settled == OnWrites(ran)
           read == ReadData(settled, n)
<1>1. Turned(c, n) = read  BY DEF Turned
<1>2. ConInv(ran) /\ Follows(c, ran)
  BY SslRunKeeps DEF Follows
<1> HIDE DEF ran
<1>3. /\ ConInv(settled) /\ settled.done = 0
      /\ \A f \in {"expected", "failed", "closed", "read_bio", "thrown",
                   "room", "queued", "handshake_done"} : settled[f] = ran[f]
  BY <1>2, OnWritesKeeps
<1> HIDE DEF settled
<1>4. ~settled.handshake_done => settled.read_bio = << >>
  BY <1>2, <1>3 DEF Follows
<1>5. /\ ConInv(read) /\ read.thrown = settled.thrown
      /\ read.room = settled.room
      /\ settled.room /\ settled.queued = 0 => read.queued = 0
      /\ settled.read_bio = << >> /\ n <= 1 => read.read_bio = << >>
      /\ ~read.handshake_done => read.read_bio = << >>
      /\ read.failed => settled.failed \/ Stopped(settled, read)
  BY <1>3, <1>4, ReadDataKeeps
<1> HIDE DEF read
<1>6. (/\ c.read_bio = << >> /\ c.room /\ c.queued = 0
       /\ ~c.failed /\ read.failed) =>
          /\ read.status = "SSL_ERROR" /\ ~read.expected
          /\ read.done = 0 /\ read.queued = 0
  BY <1>2, <1>3, <1>5 DEF Follows, Stopped
<1> QED BY <1>1, <1>2, <1>3, <1>5, <1>6 DEF Follows

LEMMA PolledKeeps ==
    ASSUME NEW c, ConInv(c), server.ssl, server.in \in Seq(Strings),
           NEW n \in Nat, n <= Len(server.in),
           ~c.handshake_done => c.read_bio = << >>
    PROVE  LET d == Polled(c, n)
           IN  /\ ConInv(d) /\ d.room = c.room
               /\ c.room /\ c.queued = 0 => d.queued = 0
               /\ ~d.handshake_done => d.read_bio = << >>
               /\ c.read_bio = << >> => d.thrown = c.thrown
               /\ c.read_bio = << >> /\ n <= 1 => d.read_bio = << >>
               /\ (/\ c.read_bio = << >> /\ c.room /\ c.queued = 0
                   /\ ~c.failed /\ d.failed) => d.status = "SSL_ERROR"
<1> DEFINE read == Turned(c, n)
           flushed == Flush(read)
           all == OnWrites(flushed)
           d == Process(all)
<1>1. Polled(c, n) = d  BY DEF Polled
<1>2. /\ ConInv(read) /\ read.room = c.room
      /\ c.room /\ c.queued = 0 => read.queued = 0
      /\ ~read.handshake_done => read.read_bio = << >>
      /\ c.read_bio = << >> => read.thrown = c.thrown
      /\ c.read_bio = << >> /\ n <= 1 => read.read_bio = << >>
      /\ (/\ c.read_bio = << >> /\ c.room /\ c.queued = 0
          /\ ~c.failed /\ read.failed) =>
             /\ read.status = "SSL_ERROR" /\ ~read.expected
             /\ read.done = 0 /\ read.queued = 0
  BY TurnedKeeps
<1> HIDE DEF read
<1>3. /\ ConInv(flushed) /\ flushed.room = read.room
      /\ read.room => flushed.queued = 0
      /\ read.queued = 0 => flushed.done = read.done
      /\ \A f \in {"status", "expected", "failed", "closed", "read_bio",
                   "thrown", "handshake_done"} : flushed[f] = read[f]
  BY <1>2, FlushKeeps
<1> HIDE DEF flushed
<1>4. /\ ConInv(all) /\ all.done = 0
      /\ flushed.done = 0 => all.status = flushed.status
      /\ \A f \in {"expected", "failed", "closed", "read_bio", "thrown",
                   "room", "queued", "handshake_done"} : all[f] = flushed[f]
  BY <1>3, OnWritesKeeps
<1> HIDE DEF all
<1>5. /\ ConInv(d)
      /\ ~all.expected => d.status = all.status
      /\ \A f \in {"failed", "closed", "read_bio", "thrown", "room", "queued",
                   "handshake_done"} : d[f] = all[f]
  BY <1>4, ProcessKeeps
<1> HIDE DEF d
<1> QED BY <1>1, <1>2, <1>3, <1>4, <1>5

LEMMA PollStep ==
    ASSUME TlsInv, NEW n \in 0..Burst, Poll(n)
    PROVE  TlsInv'
<1> DEFINE all == Polled(con, n)
<1>1. /\ n \in Nat /\ n <= Len(server.in) /\ server.in \in Seq(Strings)
      /\ con.status \in {"CONNECTING", "BUSY"}
      /\ con' = [all EXCEPT !.thrown = 0]
      /\ lost' = lost + all.thrown
      /\ server' = [server EXCEPT !.in = SubSeq(@, n + 1, Len(@))]
      /\ met' = IF n > 1 THEN met \union {"burst"} ELSE met
  BY TlsAssumption DEF Poll, Polled, TlsInv
<1>2. given' \in Seq(Secret)
  BY LoginSecret DEF Poll, TlsInv
<1>3. SubSeq(server.in, n + 1, Len(server.in)) \in Seq(Strings)
  BY <1>1, SubSeqProperties, LenProperties
<1>4. server' \in [ssl : BOOLEAN, seen : Nat, answer : Nat, gone : BOOLEAN,
                   in : Seq(Strings)]
      /\ server'.ssl = server.ssl
  BY <1>1, <1>3 DEF TlsInv
<1>5. met' \subseteq {"full", "burst"} /\ met \subseteq met'
      /\ ("burst" \notin met' => n <= 1) /\ ("full" \in met' => "full" \in met)
  BY <1>1 DEF TlsInv
<1>6. /\ ConInv(all)
      /\ con.room /\ con.queued = 0 => all.room /\ all.queued = 0
      /\ ~all.handshake_done => all.read_bio = << >>
      /\ con.read_bio = << >> => all.thrown = con.thrown
      /\ con.read_bio = << >> /\ n <= 1 => all.read_bio = << >>
      /\ (/\ con.read_bio = << >> /\ con.room /\ con.queued = 0
          /\ ~con.failed /\ all.failed) => all.status = "SSL_ERROR"
      /\ ~server.ssl => /\ all.out = << >> /\ all.queued = 0 /\ all.done = 0
                        /\ ~all.handshake_done /\ ~all.finished
                        /\ all.status \in {"CONNECTING", "CONNECT_FAILED"}
  <2>1. CASE server.ssl
    BY <1>1, <2>1, PolledKeeps DEF TlsInv, RestInv
  <2>2. CASE ~server.ssl
    <3> DEFINE settled == OnWrites(con)
               read == ReadData(settled, n)
               flushed == Flush(read)
               last == OnWrites(flushed)
    <3>1. /\ con.out = << >> /\ con.queued = 0 /\ con.done = 0
          /\ ~con.handshake_done /\ con.read_bio = << >> /\ ~con.finished
          /\ con.status \in {"CONNECTING", "CONNECT_FAILED"}
      BY <2>2 DEF TlsInv, PlainInv, RestInv
    <3>2. all = Process(last)  BY <3>1 DEF Polled, Turned
    <3> HIDE DEF all
    <3>3. /\ ConInv(settled) /\ settled.done = 0
          /\ settled.status = con.status
          /\ \A f \in {"expected", "failed", "closed", "read_bio", "thrown",
                       "room", "queued", "handshake_done", "out",
                       "finished"} : settled[f] = con[f]
      BY <3>1, OnWritesKeeps DEF TlsInv
    <3> HIDE DEF settled
    <3> DEFINE left == [settled EXCEPT !.status = "CONNECT_FAILED",
                                       !.expected = FALSE]
    <3>8. settled \in Connections /\ (read = settled \/ read = left)
      BY <2>2, <3>1, <3>3 DEF ReadData, HandshakeResponse, ConInv
    <3>9. /\ ConInv(left) /\ left.status = "CONNECT_FAILED"
          /\ \A f \in {"failed", "closed", "read_bio", "thrown", "room",
                       "queued", "handshake_done", "out", "finished", "done"} :
               left[f] = settled[f]
      BY <3>3, <3>8 DEF ConInv, Connections
    <3> HIDE DEF left
    <3> HIDE DEF read
    <3>4. /\ ConInv(read) /\ read.done = 0
          /\ read.status \in {"CONNECTING", "CONNECT_FAILED"}
          /\ \A f \in {"failed", "closed", "read_bio", "thrown", "room",
                       "queued", "handshake_done", "out", "finished"} :
               read[f] = con[f]
      BY <3>1, <3>3, <3>8, <3>9
    <3>5. /\ ConInv(flushed) /\ flushed.done = 0 /\ flushed.queued = 0
          /\ flushed.room = con.room /\ flushed.out = << >>
          /\ flushed.status = read.status
          /\ \A f \in {"failed", "closed", "read_bio", "thrown",
                       "handshake_done", "finished"} : flushed[f] = con[f]
      BY <3>1, <3>4, FlushKeeps
    <3> HIDE DEF flushed
    <3>6. /\ ConInv(last) /\ last.done = 0 /\ last.queued = 0
          /\ last.room = con.room /\ last.out = << >>
          /\ last.status = read.status
          /\ \A f \in {"failed", "closed", "read_bio", "thrown",
                       "handshake_done", "finished"} : last[f] = con[f]
      BY <3>5, OnWritesKeeps
    <3> HIDE DEF last
    <3>7. all = last  BY <3>1, <3>2, <3>6 DEF Process
    <3> QED BY <2>2, <3>1, <3>4, <3>6, <3>7
  <2> QED BY <2>1, <2>2
<1> HIDE DEF all
<1>7. ConInv(con') /\ con'.thrown = 0
      /\ \A f \in {"room", "queued", "read_bio", "handshake_done", "failed",
                   "closed", "status", "out", "done", "finished"} :
           con'[f] = all[f]
  BY <1>1, <1>6 DEF ConInv, Connections
<1>8. PlainInv'
  <2>1. server'.gone = server.gone  BY <1>1 DEF TlsInv
  <2> QED BY <1>4, <1>6, <1>7, <2>1 DEF TlsInv, PlainInv
<1>9. RestInv'  BY <1>5, <1>6, <1>7 DEF TlsInv, RestInv
<1>10. lost' \in Nat /\ ("burst" \notin met' => lost' = lost)
  <2>1. all.thrown \in Nat  BY <1>6 DEF ConInv, Connections
  <2>2. "burst" \notin met' => all.thrown = 0
    BY <1>5, <1>6 DEF TlsInv, RestInv
  <2> QED BY <1>1, <2>1, <2>2 DEF TlsInv
<1>11. AnswersKept'
  <2>1. met = {} => ~con.failed
    BY <1>1 DEF TlsInv, AnswersKept, ErrorReported
  <2>2. ErrorReported'
    BY <1>5, <1>6, <1>7, <2>1 DEF TlsInv, RestInv, ErrorReported
  <2>3. NothingLost'
    BY <1>5, <1>10 DEF TlsInv, AnswersKept, NothingLost
  <2> QED BY <2>2, <2>3 DEF AnswersKept
<1> QED BY <1>2, <1>4, <1>5, <1>7, <1>8, <1>9, <1>10, <1>11 DEF TlsInv

(* The last poll before the end of the socket.                               *)
LEMMA PollEndStep ==
    ASSUME TlsInv, PollEnd
    PROVE  TlsInv'
<1> DEFINE n == Len(server.in)
           read == Turned(con, n)
           all == ReadFails(read)
<1>1. /\ server.gone /\ con.status \in {"CONNECTING", "BUSY"}
      /\ con' = [all EXCEPT !.thrown = 0] /\ lost' = lost + all.thrown
      /\ server' = [server EXCEPT !.in = << >>]
      /\ met' = IF n > 1 THEN met \union {"burst"} ELSE met
      /\ given' = given
  BY DEF PollEnd
<1>2. /\ server.in \in Seq(Strings) /\ server.ssl /\ n \in Nat /\ n <= n
      /\ ConInv(con) /\ (~con.handshake_done => con.read_bio = << >>)
  BY <1>1, LenProperties DEF TlsInv, PlainInv, RestInv
<1>3. /\ server' \in [ssl : BOOLEAN, seen : Nat, answer : Nat, gone : BOOLEAN,
                      in : Seq(Strings)]
      /\ server'.ssl
  <2>1. << >> \in Seq(Strings)  OBVIOUS
  <2> QED BY <1>1, <1>2, <2>1 DEF TlsInv
<1>4. /\ ConInv(read) /\ read.room = con.room
      /\ con.room /\ con.queued = 0 => read.queued = 0
      /\ ~read.handshake_done => read.read_bio = << >>
      /\ con.read_bio = << >> => read.thrown = con.thrown
      /\ con.read_bio = << >> /\ n <= 1 => read.read_bio = << >>
  BY <1>2, TurnedKeeps
<1> HIDE DEF read, n
<1>5. /\ ConInv(con') /\ con'.thrown = 0 /\ con'.status = "NET_ERROR"
      /\ \A f \in {"room", "queued", "read_bio", "handshake_done"} :
           con'[f] = read[f]
      /\ all.thrown = read.thrown /\ read.thrown \in Nat
  BY <1>1, <1>4 DEF ReadFails, ConInv, Connections
<1>6. met' \subseteq {"full", "burst"} /\ met \subseteq met'
      /\ ("burst" \notin met' => n <= 1) /\ ("full" \in met' => "full" \in met)
  BY <1>1, <1>2 DEF TlsInv
<1>7. PlainInv'  BY <1>3 DEF PlainInv
<1>8. RestInv'  BY <1>4, <1>5, <1>6 DEF TlsInv, RestInv
<1>9. lost' \in Nat /\ ("burst" \notin met' => lost' = lost)
  <2>1. "burst" \notin met' => read.thrown = 0
    BY <1>4, <1>6 DEF TlsInv, RestInv
  <2> QED BY <1>1, <1>5, <2>1 DEF TlsInv
<1>10. AnswersKept'
  BY <1>5, <1>6, <1>9 DEF TlsInv, AnswersKept, NothingLost, ErrorReported
<1> QED BY <1>1, <1>3, <1>5, <1>6, <1>7, <1>8, <1>9, <1>10 DEF TlsInv

LEMMA SentNat == ASSUME given \in Seq(Secret) PROVE Sent \in Nat
<1> DEFINE commands == {g \in ToSet(given) :
                          g.message = "COMMAND" /\ g.part = 1}
<1>1. Len(given) \in Nat /\ DOMAIN given = 1..Len(given)
  BY LenProperties
<1>2. IsFiniteSet(1..Len(given))  BY <1>1, FS_Interval
<1>3. IsFiniteSet(ToSet(given))
  <2>1. given \in Surjection(1..Len(given), ToSet(given))
    <3>1. given \in [1..Len(given) -> ToSet(given)]
      <4>1. given = [i \in 1..Len(given) |-> given[i]]  BY LenProperties
      <4> QED BY <1>1, <4>1 DEF ToSet
    <3> QED BY <1>1, <3>1 DEF ToSet, Surjection
  <2> QED BY <1>2, <2>1, FS_Surjection
<1>4. IsFiniteSet(commands)  BY <1>3, FS_Subset
<1> QED BY <1>4, FS_CardinalityType DEF Sent

LEMMA SendStep ==
    ASSUME TlsInv, NEW n \in Sizes, NEW answered \in BOOLEAN, Send(n, answered)
    PROVE  TlsInv'
<1> DEFINE chunks == [i \in 1..n |-> [message |-> "COMMAND",
                        number |-> Sent + 1, part |-> i, clear |-> FALSE]]
           sent == SslBufferWrite(con, chunks)
<1>1. /\ con.status = "IDLE" /\ Sent < MaxCommands
      /\ con' = [sent EXCEPT !.expected = answered, !.status = "BUSY",
                             !.thrown = 0]
      /\ lost' = lost + sent.thrown
      /\ given' = given \o chunks
      /\ UNCHANGED <<server, met>>
  BY DEF Send
<1>2. chunks \in Seq(Secret)
  <2>1. n \in Nat /\ Sent + 1 \in 0..MaxCommands
    BY <1>1, SentNat, TlsAssumption DEF TlsInv
  <2>2. ASSUME NEW i \in 1..n
        PROVE  [message |-> "COMMAND", number |-> Sent + 1, part |-> i,
                clear |-> FALSE] \in Secret
    BY <2>1, <2>2 DEF Secret, Chunks, Messages, IsData
  <2> QED BY <2>1, <2>2, IsASeq
<1> HIDE DEF chunks
<1>3. ConInv(sent) /\ Follows(con, sent)
  BY <1>2, SslBufferWriteKeeps DEF TlsInv
<1> HIDE DEF sent
<1>4. /\ ConInv(con') /\ con'.thrown = 0 /\ con'.status = "BUSY"
      /\ \A f \in {"room", "queued", "read_bio", "handshake_done",
                   "failed", "closed"} : con'[f] = sent[f]
  BY <1>1, <1>3 DEF ConInv, Connections
<1>5. server.ssl  BY <1>1 DEF TlsInv, PlainInv
<1>6. PlainInv'  BY <1>1, <1>5 DEF PlainInv
<1>7. RestInv'  BY <1>1, <1>3, <1>4 DEF TlsInv, RestInv, Follows
<1>8. given' \in Seq(Secret)  BY <1>1, <1>2, ConcatIn DEF TlsInv
<1>9. lost' \in Nat /\ ("burst" \notin met => lost' = lost)
  <2>1. sent.thrown \in Nat  BY <1>3 DEF ConInv, Connections
  <2>2. "burst" \notin met => sent.thrown = 0
    BY <1>3 DEF TlsInv, RestInv, Follows
  <2> QED BY <1>1, <2>1, <2>2 DEF TlsInv
<1>10. AnswersKept'
  <2>1. met = {} => ~con.failed
    BY <1>1 DEF TlsInv, AnswersKept, ErrorReported
  <2>2. met = {} => ~con'.failed
    BY <1>3, <1>4, <2>1 DEF TlsInv, RestInv, Follows
  <2> QED BY <1>1, <1>9, <2>2
          DEF TlsInv, AnswersKept, NothingLost, ErrorReported
<1> QED BY <1>1, <1>4, <1>6, <1>7, <1>8, <1>9, <1>10 DEF TlsInv

LEMMA SocketStep ==
    ASSUME TlsInv, SocketFull \/ SocketDrains
    PROVE  TlsInv'
<1>1. con \in Connections /\ UNCHANGED <<server, given, lost>>
  BY DEF TlsInv, ConInv, SocketFull, SocketDrains
<1>2. /\ con' = [con EXCEPT !.room = con'.room] /\ con'.room \in BOOLEAN
      /\ \/ met' = met \union {"full"}
         \/ met' = met /\ con'.room
  BY <1>1 DEF SocketFull, SocketDrains, Connections
<1>3. ConInv(con')  BY <1>1, <1>2 DEF TlsInv, ConInv, Connections
<1>4. \A f \in {"queued", "read_bio", "handshake_done", "failed", "closed",
                "status", "out", "done", "thrown", "finished"} :
        con'[f] = con[f]
  BY <1>1, <1>2 DEF Connections
<1>5. met' \subseteq {"full", "burst"} /\ met \subseteq met'
      /\ ("burst" \in met' => "burst" \in met)
  BY <1>2 DEF TlsInv
<1>6. PlainInv'  BY <1>1, <1>4 DEF TlsInv, PlainInv
<1>7. RestInv'  BY <1>2, <1>4, <1>5 DEF TlsInv, RestInv
<1>8. AnswersKept'
  BY <1>1, <1>4, <1>5 DEF TlsInv, AnswersKept, NothingLost, ErrorReported
<1> QED BY <1>1, <1>3, <1>5, <1>6, <1>7, <1>8 DEF TlsInv

(* The server answers a message of the handshake, or one that is data; or it *)
(* gives up.                                                                 *)
LEMMA AnswersParts ==
    ASSUME ServerAnswers
    PROVE  /\ UNCHANGED <<con, given, lost, met>> /\ ~server.gone
           /\ server.seen < Len(con.out) /\ con.queued = 0
           /\ \/ \E message \in {"CERTIFICATE", "FINISHED"} :
                    server' = [server EXCEPT !.seen = Len(con.out),
                                             !.in = << message >>]
              \/ /\ Last(con.out).message \in {"LOGIN", "COMMAND"}
                 /\ con.expected
                 /\ \E n \in Records \union {1} :
                      server' = [server EXCEPT !.seen = Len(con.out),
                                   !.in = @ \o [i \in 1..n |-> "DATA"],
                                   !.answer = n]
           /\ Last(con.out).message \in {"LOGIN", "COMMAND"} =>
                \E n \in Records \union {1} :
                  server' = [server EXCEPT !.seen = Len(con.out),
                               !.in = @ \o [i \in 1..n |-> "DATA"],
                               !.answer = n]
<1> DEFINE last == Last(con.out).message
           Answer(n) == server' = [server EXCEPT !.seen = Len(con.out),
                                     !.in = @ \o [i \in 1..n |-> "DATA"],
                                     !.answer = n]
           Step(r) == server' = [server EXCEPT !.seen = Len(con.out),
                                               !.in = << r >>]
<1>1. /\ UNCHANGED <<con, given, lost, met>> /\ ~server.gone
      /\ server.seen < Len(con.out) /\ Complete
      /\ \/ last = "HELLO" /\ Step("CERTIFICATE")
         \/ last = "KEY" /\ Step("FINISHED")
         \/ /\ last \in {"LOGIN", "COMMAND"} /\ con.expected
            /\ \E n \in (IF last = "LOGIN" THEN {1} ELSE Records) : Answer(n)
  BY Zenon DEF ServerAnswers
<1>2. con.queued = 0  BY Zenon DEF ServerAnswers, Complete
<1> HIDE DEF last, Answer, Step
<1>3. \/ \E message \in {"CERTIFICATE", "FINISHED"} : Step(message)
      \/ /\ last \in {"LOGIN", "COMMAND"} /\ con.expected
         /\ \E n \in Records \union {1} : Answer(n)
  BY <1>1
<1>4. last \in {"LOGIN", "COMMAND"} => \E n \in Records \union {1} : Answer(n)
  BY <1>1
<1> QED BY <1>1, <1>2, <1>3, <1>4, Zenon DEF last, Answer, Step

LEMMA FailsParts ==
    ASSUME ServerFails
    PROVE  /\ UNCHANGED <<con, given, lost, met>> /\ ~server.gone
           /\ con.finished \/ server.seen < Len(con.out)
           /\ \E last \in {"ALERT", "ERROR"} :
                server' = [server EXCEPT !.gone = TRUE, !.in = Append(@, last)]
BY Zenon DEF ServerFails

LEMMA ServerKeeps ==
    ASSUME ServerAnswers \/ ServerFails
    PROVE  UNCHANGED <<con, given, lost, met>> /\ ~server.gone
<1>1. CASE ServerAnswers  BY <1>1, Zenon DEF ServerAnswers
<1>2. CASE ServerFails  BY <1>2, Zenon DEF ServerFails
<1> QED BY <1>1, <1>2

LEMMA ServerStep ==
    ASSUME TlsInv, ServerAnswers \/ ServerFails
    PROVE  TlsInv'
<1>1. UNCHANGED <<con, given, lost, met>>  BY ServerKeeps
<1>2. server' \in [ssl : BOOLEAN, seen : Nat, answer : Nat, gone : BOOLEAN,
                   in : Seq(Strings)]
      /\ server'.ssl = server.ssl
  <2>1. /\ Len(con.out) \in Nat /\ server.in \in Seq(Strings)
        /\ server \in [ssl : BOOLEAN, seen : Nat, answer : Nat,
                       gone : BOOLEAN, in : Seq(Strings)]
    BY LenProperties DEF TlsInv, ConInv, Connections
  <2>2. CASE ServerFails
    <3>1. PICK last \in {"ALERT", "ERROR"} :
             server' = [server EXCEPT !.gone = TRUE, !.in = Append(@, last)]
      BY <2>2, FailsParts
    <3>2. Append(server.in, last) \in Seq(Strings)
      BY <2>1, AppendProperties DEF Strings
    <3> QED BY <2>1, <3>1, <3>2
  <2>3. ASSUME NEW message \in {"CERTIFICATE", "FINISHED"},
               server' = [server EXCEPT !.seen = Len(con.out),
                                        !.in = << message >>]
        PROVE  /\ server' \in [ssl : BOOLEAN, seen : Nat, answer : Nat,
                               gone : BOOLEAN, in : Seq(Strings)]
               /\ server'.ssl = server.ssl
    <3>1. << message >> \in Seq(Strings)  BY DEF Strings
    <3> QED BY <2>1, <2>3, <3>1
  <2>4. ASSUME NEW n \in Records \union {1},
               server' = [server EXCEPT !.seen = Len(con.out),
                            !.in = @ \o [i \in 1..n |-> "DATA"],
                            !.answer = n]
        PROVE  /\ server' \in [ssl : BOOLEAN, seen : Nat, answer : Nat,
                               gone : BOOLEAN, in : Seq(Strings)]
               /\ server'.ssl = server.ssl
    <3>1. n \in Nat  BY TlsAssumption
    <3>2. [i \in 1..n |-> "DATA"] \in Seq(Strings)
      BY <3>1, IsASeq DEF Strings
    <3>3. server.in \o [i \in 1..n |-> "DATA"] \in Seq(Strings)
      BY <2>1, <3>2, ConcatIn
    <3> QED BY <2>1, <2>4, <3>1, <3>3
  <2>5. CASE ServerAnswers
    <3>1. \/ \E message \in {"CERTIFICATE", "FINISHED"} :
               server' = [server EXCEPT !.seen = Len(con.out),
                                        !.in = << message >>]
          \/ \E n \in Records \union {1} :
               server' = [server EXCEPT !.seen = Len(con.out),
                            !.in = @ \o [i \in 1..n |-> "DATA"],
                            !.answer = n]
      BY <2>5, AnswersParts, Zenon
    <3> QED BY <2>3, <2>4, <3>1, Zenon
  <2> QED BY <2>2, <2>5
<1>3. PlainInv'
  <2>1. CASE server.ssl  BY <1>2, <2>1 DEF PlainInv
  <2>2. CASE ~server.ssl
    <3>1. con.out = << >> /\ ~con.finished /\ server.seen \in Nat
      BY <2>2 DEF TlsInv, PlainInv
    <3>2. ~(server.seen < Len(con.out))
      <4>1. Len(<< >>) = 0  OBVIOUS
      <4> QED BY <3>1, <4>1
    <3>3. ~ServerAnswers  BY <3>2, AnswersParts, Zenon
    <3>4. ~ServerFails  BY <3>1, <3>2, FailsParts, Zenon
    <3> QED BY <3>3, <3>4
  <2> QED BY <2>1, <2>2
<1> QED BY <1>1, <1>2, <1>3
        DEF TlsInv, RestInv, AnswersKept, NothingLost, ErrorReported

LEMMA TlsStep == ASSUME TlsInv, [Next]_vars PROVE TlsInv'
<1>1. ASSUME UNCHANGED vars PROVE TlsInv'
  BY <1>1 DEF vars, TlsInv, PlainInv, RestInv, AnswersKept, NothingLost,
              ErrorReported
<1>2. ASSUME PollEarly PROVE TlsInv'  BY <1>1, <1>2 DEF PollEarly
<1> QED BY <1>1, <1>2, PollStep, PollEndStep, SendStep, SocketStep, ServerStep
    DEF Next

-----------------------------------------------------------------------------
(* The steps of Next keep messages whole                                     *)

Servers == [ssl : BOOLEAN, seen : Nat, answer : Nat, gone : BOOLEAN,
            in : Seq(Strings)]

(* Neither the count of thrown records nor what is still in the socket is    *)
(* looked at.                                                                *)
LEMMA GoingSame ==
    ASSUME NEW c, NEW f, NEW s, NEW g, NEW m, Going(c, f, s, g, m),
           NEW r, r.gone = s.gone, r.answer = s.answer, r.seen = s.seen,
           NEW k, "full" \in k <=> "full" \in m
    PROVE  LET d == [c EXCEPT !.thrown = 0]
           IN  /\ Going(d, f, r, g, k) /\ d.read_bio = c.read_bio
               /\ Taken(c, s) => Taken(d, r)
<1> DEFINE d == [c EXCEPT !.thrown = 0]
<1>1. c \in Connections  BY DEF Going, ConInv
<1>2. \A x \in {"status", "expected", "handshake_done", "finished", "failed", "closed",
                "waiting", "write_bio", "ssl_write_buffer", "queued", "done",
                "out", "room", "read_buffer", "read_bio"} : d[x] = c[x]
  BY <1>1 DEF Connections
<1>3. ConInv(d)  BY <1>1 DEF Going, ConInv, Connections
<1> HIDE DEF d
<1>4. Answering(d, f, r)
  BY <1>2 DEF Going, Answering, Alert, Over, Unread, Starved
<1>5. Sending(d, g, k)
  BY <1>2 DEF Going, Sending, Stream, Queued, Kept
<1>6. Taken(c, s) => Taken(d, r)  BY <1>2 DEF Taken
<1> QED BY <1>2, <1>3, <1>4, <1>5, <1>6 DEF Going, d

LEMMA GoingIntact ==
    ASSUME TlsInv, Held, con.handshake_done, con.finished
    PROVE  /\ Going(con, con.read_bio \o server.in, server, given, met)
           /\ Taken(con, server)
<1>1. con.read_bio \o server.in \in Seq(Strings)
  <2>1. con.read_bio \in Seq(Strings) /\ server.in \in Seq(Strings)
    BY DEF TlsInv, ConInv, Connections
  <2> QED BY <2>1, ConcatIn
<1> QED BY <1>1 DEF TlsInv, Held, Going

(* What a poll makes of the connection before thrown is reset.               *)
LEMMA PollParts ==
    ASSUME TlsInv, NEW n \in 0..Burst, Poll(n)
    PROVE  /\ n \in Nat /\ n <= Len(server.in) /\ n \in 0..Len(server.in)
           /\ con.status \in {"CONNECTING", "BUSY"}
           /\ con' = [Polled(con, n) EXCEPT !.thrown = 0]
           /\ given' = IF Polled(con, n).handshake_done /\ ~con.handshake_done
                       THEN Login ELSE given
           /\ server \in Servers /\ server' \in Servers
           /\ server'.in = SubSeq(server.in, n + 1, Len(server.in))
           /\ server'.gone = server.gone /\ server'.answer = server.answer
           /\ server'.seen = server.seen /\ server'.ssl = server.ssl
           /\ "full" \in met' <=> "full" \in met
<1>1. /\ n \in Nat /\ n <= Len(server.in)
      /\ con.status \in {"CONNECTING", "BUSY"}
      /\ con' = [Polled(con, n) EXCEPT !.thrown = 0]
      /\ given' = IF Polled(con, n).handshake_done /\ ~con.handshake_done
                  THEN Login ELSE given
      /\ server' = [server EXCEPT !.in = SubSeq(@, n + 1, Len(@))]
      /\ met' = IF n > 1 THEN met \union {"burst"} ELSE met
  BY TlsAssumption DEF Poll, Polled
<1>2. server \in Servers /\ server.in \in Seq(Strings)
  BY DEF TlsInv, Servers
<1>3. Len(server.in) \in Nat  BY <1>2, LenProperties
<1>4. n \in 0..Len(server.in)  BY <1>1, <1>3
<1>5. SubSeq(server.in, n + 1, Len(server.in)) \in Seq(Strings)
  BY <1>2, <1>4, FlowMoves
<1>6. /\ server' \in Servers
      /\ server'.in = SubSeq(server.in, n + 1, Len(server.in))
      /\ server'.gone = server.gone /\ server'.answer = server.answer
      /\ server'.seen = server.seen /\ server'.ssl = server.ssl
  BY <1>1, <1>2, <1>5 DEF Servers
<1>7. "full" \in met' <=> "full" \in met  BY <1>1
<1> QED BY <1>1, <1>2, <1>4, <1>6, <1>7

(* The turn up to the read of a connection whose handshakes are over.        *)
LEMMA GoingTurned ==
    ASSUME TlsInv, Held, NEW n \in 0..Len(server.in),
           con.handshake_done, con.finished
    PROVE  LET rest == SubSeq(server.in, n + 1, Len(server.in))
               read == Turned(con, n)
           IN  /\ Going(read, read.read_bio \o rest, server, given, met)
               /\ rest \in Seq(Strings)
<1> DEFINE came == SubSeq(server.in, 1, n)
           rest == SubSeq(server.in, n + 1, Len(server.in))
           ran == SslRun(con)
           settled == OnWrites(ran)
           read == ReadData(settled, n)
<1>1. /\ n \in 0..Len(server.in) /\ server.in \in Seq(Strings) /\ n \in Nat
  BY DEF TlsInv
<1>2. Turned(con, n) = read  BY DEF Turned
<1>3. /\ came \in Seq(Strings) /\ rest \in Seq(Strings)
      /\ \A r \in Seq(Strings) : (r \o came) \o rest = r \o server.in
  BY <1>1, FlowMoves
<1>4. n # 0 => came # << >>
  <2> SUFFICES ASSUME n # 0 PROVE came # << >>  OBVIOUS
  <2>1. 1 <= n  BY <1>1
  <2>2. Len(came) = n
    BY <1>1, <2>1, SubSeqProperties, ElementOfSeq, LenProperties
  <2> HIDE DEF came
  <2> QED BY <2>1, <2>2, EmptySeq
<1>5. n = 0 => rest = server.in
  BY <1>1, SubSeqFull
<1> HIDE DEF rest
<1>6. /\ Going(ran, ran.read_bio \o server.in, server, given, met)
      /\ Taken(ran, server)
  BY <1>1, GoingIntact, SslRunGoing
<1> HIDE DEF ran
<1>7. /\ Going(settled, settled.read_bio \o server.in, server, given, met)
      /\ Taken(settled, server)
  BY <1>6, OnWritesGoing
<1> HIDE DEF settled
<1>8. Going(read, read.read_bio \o rest, server, given, met)
  <2>1. CASE n = 0
    <3>1. read = settled  BY <2>1 DEF ReadData
    <3> QED BY <1>5, <1>7, <2>1, <3>1
  <2>2. CASE n # 0
    <3> DEFINE e == [settled EXCEPT !.read_bio = @ \o came]
    <3>1. ConInv(settled) /\ settled \in Connections
          /\ settled.handshake_done /\ settled.read_bio \in Seq(Strings)
      BY <1>7 DEF Going, Sending, ConInv, Connections
    <3>2. read = Decrypt(e)  BY <2>2, <3>1 DEF ReadData
    <3>3. /\ settled.read_bio \o came \in Seq(Strings)
          /\ settled.read_bio \o came # << >>
          /\ (settled.read_bio \o came) \o rest = settled.read_bio \o server.in
      <4> HIDE DEF came
      <4>1. settled.read_bio \o came \in Seq(Strings)
        BY <1>3, <3>1, ConcatIn
      <4>2. settled.read_bio \o came # << >>
        BY <1>3, <1>4, <2>2, <3>1, LastOfConcat
      <4> QED BY <1>3, <3>1, <4>1, <4>2
    <3> HIDE DEF came
    <3>4. /\ e.read_bio = settled.read_bio \o came
          /\ \A x \in {"status", "expected", "handshake_done", "finished",
                       "failed", "closed", "waiting", "write_bio", "ssl_write_buffer",
                       "queued", "done", "out", "room", "read_buffer"} :
               e[x] = settled[x]
      BY <3>1 DEF Connections
    <3>5. ConInv(e)  BY <3>1, <3>3 DEF ConInv, Connections
    <3> HIDE DEF e
    <3>6. Answering(e, settled.read_bio \o server.in, server)
      BY <1>7, <3>4 DEF Going, Answering, Alert, Over, Unread, Starved
    <3>7. Sending(e, given, met)
      BY <1>7, <3>4 DEF Going, Sending, Stream, Queued
    <3>8. Taken(e, server)  BY <1>7, <3>4 DEF Taken
    <3>9. Going(e, e.read_bio \o rest, server, given, met)
      BY <1>7, <3>3, <3>4, <3>5, <3>6, <3>7 DEF Going
    <3>10. Going(Decrypt(e), Decrypt(e).read_bio \o rest, server, given, met)
      BY <1>3, <3>3, <3>4, <3>8, <3>9, DecryptGoing
    <3> QED BY <3>2, <3>10
  <2> QED BY <2>1, <2>2
<1> QED BY <1>2, <1>3, <1>8 DEF rest

(* A poll of a connection whose handshakes are over.                         *)
LEMMA GoingPoll ==
    ASSUME TlsInv, Held, NEW n \in 0..Burst, Poll(n),
           con.handshake_done, con.finished
    PROVE  Held'
<1> DEFINE rest == SubSeq(server.in, n + 1, Len(server.in))
           read == Turned(con, n)
           written == OnWrites(Flush(read))
           d == Process(written)
<1>1. /\ n \in 0..Len(server.in)
      /\ con' = [Polled(con, n) EXCEPT !.thrown = 0]
      /\ given' = given /\ server'.in = rest
      /\ server'.gone = server.gone /\ server'.answer = server.answer
      /\ server'.seen = server.seen
      /\ "full" \in met' <=> "full" \in met
  BY PollParts DEF Servers
<1>2. Polled(con, n) = d  BY DEF Polled
<1>8. Going(read, read.read_bio \o rest, server, given, met)
  BY <1>1, GoingTurned
<1> HIDE DEF read, rest
<1>9. Going(written, written.read_bio \o rest, server, given, met)
      /\ written.done = 0
  BY <1>8, FlushGoing
<1> HIDE DEF written
<1>10. Going(d, d.read_bio \o rest, server, given, met) /\ Taken(d, server)
  BY <1>9, ProcessGoing
<1> HIDE DEF d
<1>11. /\ Going(con', con'.read_bio \o server'.in, server', given', met')
       /\ Taken(con', server')
  BY <1>1, <1>2, <1>10, GoingSame
<1> QED BY <1>11 DEF Going, Sending, Held

(* What is left of a poll after the read, with nothing queued and none of an *)
(* answer there: on_write, which leaves the status while something is        *)
(* expected.                                                                 *)
LEMMA Settles ==
    ASSUME NEW c, ConInv(c), c.queued = 0, c.read_buffer = 0,
           c.expected \/ c.done = 0
    PROVE  Process(OnWrites(Flush(c))) = [c EXCEPT !.done = 0]
<1>1. c \in Connections  BY DEF ConInv
<1>2. Flush(c) = c  BY NothingToDo
<1>3. OnWrites(c) = [c EXCEPT !.done = 0]
  <2>1. OnWrites(c) = [c EXCEPT !.done = 0, !.status = c.status]
    <3>1. c.done = 0 \/ c.expected  OBVIOUS
    <3>2. c.done > 0 /\ ~c.expected => FALSE  BY <3>1
    <3> QED BY <3>2 DEF OnWrites
  <2> QED BY <1>1, <2>1 DEF Connections
<1> DEFINE d == [c EXCEPT !.done = 0]
<1>4. d.read_buffer = 0  BY <1>1 DEF Connections
<1> HIDE DEF d
<1>5. Process(d) = d  BY <1>4 DEF Process
<1> QED BY <1>2, <1>3, <1>5 DEF d

(* A poll while OpenSSL shakes hands.                                        *)
LEMMA ShakingPoll ==
    ASSUME TlsInv, Held, NEW n \in 0..Burst, Poll(n),
           con.handshake_done, ~con.finished
    PROVE  Held'
<1>1. /\ n \in 0..Len(server.in) /\ n \in Nat
      /\ server \in Servers /\ server.in \in Seq(Strings)
      /\ con.status \in {"CONNECTING", "BUSY"}
      /\ con' = [Polled(con, n) EXCEPT !.thrown = 0]
      /\ given' = given /\ given \in Seq(Secret)
      /\ server'.in = SubSeq(server.in, n + 1, Len(server.in))
      /\ server'.gone = server.gone /\ server'.answer = server.answer
      /\ server'.seen = server.seen
      /\ "full" \in met' <=> "full" \in met
  BY PollParts DEF TlsInv, Servers
<1>2. Shaking(con, server, given) /\ ConInv(con)  BY DEF TlsInv, Held
<1>3. /\ con \in Connections /\ con.queued = 0 /\ con.done = 0
      /\ con.read_bio = << >> /\ con.write_bio = << >>
      /\ con.read_buffer = 0 /\ Len(server.in) <= 1
      /\ con.status = "CONNECTING" /\ con.expected /\ ~con.failed
  BY <1>1, <1>2 DEF ConInv, Shaking
<1>4. SslRun(con) = con /\ OnWrites(con) = con
  <2>1. SslRun(con) = DataCheck(con)  BY <1>3 DEF SslRun
  <2> QED BY <1>2, <1>3, <2>1, NothingToDo
<1> DEFINE d == ReadData(con, n)
<1>5. Polled(con, n) = Process(OnWrites(Flush(d)))
  BY <1>4 DEF Polled, Turned
<1>6. CASE n = 0
  <2>1. d = con  BY <1>6 DEF ReadData
  <2>2. con' = [[con EXCEPT !.done = 0] EXCEPT !.thrown = 0]
    BY <1>1, <1>2, <1>3, <1>5, <2>1, Settles
  <2>3. server'.in = server.in  BY <1>1, <1>6, SubSeqFull
  <2>4. \A x \in {"status", "expected", "handshake_done", "finished", "failed", "closed",
                  "waiting", "write_bio", "queued", "done", "out", "room",
                  "read_buffer", "read_bio"} : con'[x] = con[x]
    BY <1>3, <2>2 DEF Connections
  <2>5. Shaking(con', server', given')
    BY <1>1, <1>2, <2>3, <2>4 DEF Shaking, Over
  <2> QED BY <2>4, <2>5 DEF Held
<1>7. CASE n # 0
  <2>1. n = 1 /\ Len(server.in) = 1 /\ server.in # << >>
    <3> DEFINE k == Len(server.in)
    <3>1. k \in Nat  BY <1>1, LenProperties
    <3>4. n \in 0..k /\ k <= 1  BY <1>1, <1>3
    <3> HIDE DEF k
    <3>5. n = 1 /\ k = 1  BY <1>7, <3>1, <3>4
    <3>2. n = 1 /\ Len(server.in) = 1  BY <3>5 DEF k
    <3>3. Len(<< >>) = 0  OBVIOUS
    <3> QED BY <3>2, <3>3
  <2>2. SubSeq(server.in, 1, n) = server.in /\ << >> \o server.in = server.in
    BY <1>1, <2>1, SubSeqFull, ConcatEmptySeq
  <2>3. d = Decrypt([con EXCEPT !.read_bio = server.in])
    BY <1>3, <2>1, <2>2 DEF ReadData
  <2>4. server'.in = << >>
    <3>1. 2 \in Int /\ 1 \in Int /\ 1 < 2 /\ 1 + 1 = 2  OBVIOUS
    <3> QED BY <1>1, <2>1, <3>1, SubSeqEmpty
  <2>5. server.gone \in BOOLEAN /\ server.answer \in Nat /\ server.seen \in Nat
    BY <1>1 DEF Servers
  <2> HIDE DEF d
  <2>6. /\ ConInv(d) /\ d.queued = 0 /\ d.read_buffer = 0
        /\ d.read_bio = << >>
        /\ d.finished =>
             /\ d.status = "CONNECTING" /\ d.expected
             /\ Going([d EXCEPT !.done = 0], << >>, server, given, met)
        /\ ~d.finished =>
             /\ d.failed => d.done = 0
             /\ Shaking([d EXCEPT !.done = 0], server', given)
             /\ d.handshake_done
    BY <1>1, <1>2, <1>3, <2>1, <2>3, <2>4, <2>5, ShakingRead
  <2> DEFINE e == [d EXCEPT !.done = 0]
  <2>7. /\ d \in Connections /\ e.expected = d.expected
        /\ e.failed = d.failed /\ e.closed = d.closed /\ e.finished = d.finished
        /\ e.handshake_done = d.handshake_done /\ e \in Connections
        /\ e.read_buffer = 0 /\ e.read_bio = << >>
    BY <2>6 DEF ConInv, Connections
  <2>8. d.expected \/ d.done = 0
    BY <2>6, <2>7 DEF Shaking
  <2>9. con' = [e EXCEPT !.thrown = 0]
    BY <1>1, <1>5, <2>6, <2>8, Settles
  <2> HIDE DEF e
  <2>10. CASE d.finished
    <3>1. Going(e, << >>, server, given, met)  BY <2>6, <2>10 DEF e
    <3>2. Taken(e, server)  BY <2>7 DEF Taken
    <3>5. LET x == [e EXCEPT !.thrown = 0]
          IN  /\ Going(x, << >>, server', given, met')
              /\ x.read_bio = e.read_bio /\ Taken(x, server')
      BY <1>1, <3>1, <3>2, GoingSame
    <3>3. Going(con', << >>, server', given', met') /\ Taken(con', server')
          /\ con'.read_bio = << >>
      BY <1>1, <2>7, <2>9, <3>5
    <3>4. con'.read_bio \o server'.in = << >>  BY <2>4, <3>3
    <3> QED BY <3>3, <3>4 DEF Going, Sending, Held
  <2>11. CASE ~d.finished
    <3>1. Shaking(e, server', given)  BY <2>6, <2>11 DEF e
    <3>2. \A x \in {"status", "expected", "handshake_done", "finished",
                    "failed", "closed", "waiting", "write_bio", "queued", "done", "out",
                    "room", "read_buffer", "read_bio"} : con'[x] = e[x]
      BY <2>7, <2>9 DEF Connections
    <3>3. Shaking(con', server', given')
      BY <1>1, <3>1, <3>2 DEF Shaking, Over
    <3> QED BY <2>6, <2>7, <2>11, <3>2, <3>3 DEF Held
  <2> QED BY <2>10, <2>11
<1> QED BY <1>6, <1>7

(* A poll that waits for the greeting, or reads it.                          *)
LEMMA GreetingPoll ==
    ASSUME TlsInv, Held, NEW n \in 0..Burst, Poll(n), ~con.handshake_done
    PROVE  Held'
<1>1. /\ n \in 0..Len(server.in) /\ n \in Nat
      /\ server \in Servers /\ server.in \in Seq(Strings)
      /\ con.status \in {"CONNECTING", "BUSY"}
      /\ con' = [Polled(con, n) EXCEPT !.thrown = 0]
      /\ given' = IF Polled(con, n).handshake_done THEN Login ELSE given
      /\ server'.in = SubSeq(server.in, n + 1, Len(server.in))
      /\ server'.gone = server.gone /\ server'.ssl = server.ssl
      /\ server'.seen = server.seen
  BY PollParts DEF TlsInv, Servers
<1>2. Greeting(con, server, given) /\ ConInv(con)  BY DEF TlsInv, Held
<1>3. /\ con \in Connections /\ con.queued = 0 /\ con.done = 0 /\ con.room
      /\ con.read_bio = << >> /\ con.write_bio = << >>
      /\ con.waiting = << >> /\ con.out = << >>
      /\ con.read_buffer = 0 /\ Len(server.in) <= 1 /\ ~con.finished
      /\ con.status = "CONNECTING" /\ con.expected /\ ~Over(con)
      /\ ~server.gone /\ server.seen = 0 /\ given = << >>
  BY <1>1, <1>2 DEF ConInv, Greeting
<1>4. Len(server'.in) <= 1 /\ (n # 0 => server'.in = << >>)
  <2>1. Len(server.in) \in Nat  BY <1>1, LenProperties
  <2>2. CASE n = 0
    <3>1. server'.in = server.in  BY <1>1, <2>2, SubSeqFull
    <3> QED BY <1>3, <2>2, <3>1
  <2>3. CASE n # 0
    <3>1. n + 1 \in Int /\ Len(server.in) \in Int /\ Len(server.in) < n + 1
      BY <1>1, <1>3, <2>1, <2>3
    <3>2. server'.in = << >>  BY <1>1, <3>1, SubSeqEmpty
    <3>3. Len(<< >>) = 0  OBVIOUS
    <3> QED BY <3>2, <3>3
  <2> QED BY <2>2, <2>3
<1> DEFINE d == ReadData(con, n)
           e == [d EXCEPT !.done = 0]
<1>5. Polled(con, n) = Process(OnWrites(Flush(d)))
  <2>1. OnWrites(con) = con  BY <1>2, <1>3, NothingToDo
  <2> QED BY <2>1 DEF Polled, Turned
<1>6. CASE n = 0 \/ ~server.ssl
  <2>1. /\ ConInv(d) /\ d.queued = 0 /\ d.done = 0
        /\ \A x \in {"handshake_done", "finished", "failed", "closed", "waiting",
                     "write_bio", "queued", "done", "out", "room",
                     "read_buffer", "read_bio"} : d[x] = con[x]
        /\ \/ d.status = "CONNECTING" /\ d.expected
           \/ d.status = "CONNECT_FAILED" /\ ~server.ssl
    <3>1. CASE n = 0  BY <1>2, <1>3, <3>1 DEF ReadData
    <3>2. CASE n # 0
      BY <1>2, <1>3, <1>6, <3>2 DEF ReadData, HandshakeResponse, ConInv,
                                    Connections
    <3> QED BY <3>1, <3>2
  <2> HIDE DEF d
  <2>2. d \in Connections /\ d.read_buffer = 0
    BY <1>3, <2>1 DEF ConInv
  <2>3. Polled(con, n) = e  BY <1>5, <2>1, <2>2, Settles
  <2>4. /\ \A x \in {"handshake_done", "finished", "failed", "closed", "waiting",
                     "write_bio", "queued", "done", "out", "room",
                     "read_buffer", "read_bio"} : con'[x] = con[x]
        /\ con'.status = d.status /\ con'.expected = d.expected
        /\ ~e.handshake_done
    BY <1>1, <2>1, <2>2, <2>3 DEF Connections
  <2>5. given' = << >>  BY <1>1, <1>3, <2>3, <2>4
  <2>6. Greeting(con', server', given')
    BY <1>1, <1>3, <1>4, <2>1, <2>4, <2>5 DEF Greeting, Over
  <2> QED BY <2>4, <2>6 DEF Held
<1>7. CASE n # 0 /\ server.ssl
  <2>1. d = HandshakeResponse(con)  BY <1>7 DEF ReadData
  <2> HIDE DEF d
  <2>2. /\ ConInv(d) /\ d.read_bio = << >> /\ d.failed = con.failed /\ d.closed = con.closed
        /\ d.status = con.status /\ d.room = con.room /\ d.queued = 0
        /\ d.handshake_done /\ d.expected /\ ~d.finished
        /\ d.waiting = Login /\ d.write_bio = << >>
        /\ d.read_buffer = con.read_buffer
    BY <1>2, <1>3, <1>7, <2>1, HandshakeResponseKeeps
  <2>3. Polled(con, n) = e /\ d \in Connections
    BY <1>3, <1>5, <2>2, Settles DEF ConInv
  <2>4. /\ \A x \in {"status", "expected", "handshake_done", "finished",
                     "failed", "closed", "waiting", "write_bio", "queued", "room",
                     "read_buffer", "read_bio"} : con'[x] = d[x]
        /\ con'.done = 0 /\ e.handshake_done
    BY <1>1, <2>2, <2>3 DEF Connections
  <2>5. given' = Login /\ Login # << >>
    <3>1. Login # << >>
      <4>1. Len(Login) = 1 /\ Len(<< >>) = 0  BY LoginSecret
      <4>2. 1 # 0  OBVIOUS
      <4> QED BY <4>1, <4>2, Zenon
    <3> QED BY <1>1, <2>3, <2>4, <3>1
  <2>6. Shaking(con', server', given')
    BY <1>3, <1>4, <1>7, <2>2, <2>4, <2>5 DEF Shaking, Over
  <2> QED BY <2>2, <2>4, <2>6 DEF Held
<1> QED BY <1>6, <1>7

LEMMA ThrownKeeps ==
    ASSUME NEW c, ConInv(c)
    PROVE  ConInv([c EXCEPT !.thrown = @ + 1])
<1>1. c \in Connections /\ c.thrown + 1 \in Nat  BY DEF ConInv, Connections
<1>2. [c EXCEPT !.thrown = @ + 1] \in Connections  BY <1>1 DEF Connections
<1> QED BY <1>1, <1>2 DEF ConInv, Connections

(* A command is handed to OpenSSL after what the last read has left: but for *)
(* the data that waits, SslRun does what it does without a command.          *)
LEMMA SslRunFilled ==
    ASSUME NEW c, ConInv(c), c.finished, c.waiting = << >>,
           c.write_bio = << >>, NEW chunks \in Seq(Secret)
    PROVE  LET y == SslRun(c)
           IN  /\ y.expected => c.expected
               /\ \E x : /\ SslRun(Filled(c, chunks)) = DataCheck(x)
                         /\ ConInv(x) /\ x.waiting = chunks
                         /\ x.write_bio = << >> /\ x.finished
                         /\ \A f \in {"read_bio", "failed", "closed", "read_buffer"} :
                              x[f] = y[f]
                         /\ \A f \in {"handshake_done", "queued", "done",
                                      "room", "out", "ssl_write_buffer"} :
                              x[f] = c[f]
<1> DEFINE y == SslRun(c)
           e == Filled(c, chunks)
           rest == [c EXCEPT !.read_bio = Tail(@)]
           left == [e EXCEPT !.read_bio = Tail(@)]
<1>1. c \in Connections  BY DEF ConInv
<1>2. /\ ConInv(e) /\ e \in Connections /\ e.waiting = chunks
      /\ \A f \in {"status", "expected", "handshake_done", "finished",
                   "failed", "closed", "read_bio", "write_bio", "ssl_write_buffer",
                   "queued", "done", "read_buffer", "out", "room",
                   "thrown"} : e[f] = c[f]
  <2>1. << >> \o chunks = chunks  BY ConcatEmptySeq
  <2> HIDE DEF e
  <2>2. /\ ConInv(e) /\ e.waiting = c.waiting \o chunks
        /\ \A f \in {"status", "expected", "handshake_done", "finished",
                     "failed", "closed", "read_bio", "write_bio",
                     "ssl_write_buffer", "queued", "done", "read_buffer",
                     "out", "room", "thrown"} : e[f] = c[f]
    BY FilledKeeps DEF e
  <2>3. e \in Connections  BY <2>2 DEF ConInv
  <2> QED BY <2>1, <2>2, <2>3
<1> HIDE DEF e
<1> SUFFICES /\ y.expected => c.expected
             /\ \E x : /\ SslRun(e) = DataCheck(x)
                       /\ ConInv(x) /\ x.waiting = chunks
                       /\ x.write_bio = << >> /\ x.finished
                       /\ \A f \in {"read_bio", "failed", "closed", "read_buffer"} :
                            x[f] = y[f]
                       /\ \A f \in {"handshake_done", "queued", "done",
                                    "room", "out", "ssl_write_buffer"} :
                            x[f] = c[f]
  BY DEF e
<1>3. CASE c.read_bio = << >>
  <2>1. y = c  BY <1>1, <1>3, NothingToDo DEF SslRun
  <2>2. SslRun(e) = DataCheck(e)  BY <1>2, <1>3 DEF SslRun
  <2> QED BY <1>2, <2>1, <2>2
<1>4. CASE c.read_bio # << >>
  <2>1. ConInv(rest) /\ ConInv(left) /\ Head(e.read_bio) = Head(c.read_bio)
    BY <1>2, <1>4, RestKeeps
  <2>2. rest \in Connections /\ left \in Connections  BY <2>1 DEF ConInv
  <2>3. CASE Head(c.read_bio) = "DATA"
    <3> DEFINE q == [rest EXCEPT !.thrown = @ + 1]
               x == [left EXCEPT !.thrown = @ + 1]
    <3>1. y = DataCheck(q) /\ SslRun(e) = DataCheck(x)
      BY <1>2, <1>4, <2>1, <2>3 DEF SslRun
    <3>2. ConInv(q) /\ ConInv(x)
      <4> HIDE DEF rest, left
      <4> QED BY <2>1, ThrownKeeps
    <3>4. /\ q.waiting = << >> /\ q.write_bio = << >>
          /\ q.expected = c.expected /\ q.failed = c.failed /\ q.closed = c.closed
          /\ q.read_buffer = c.read_buffer /\ q.read_bio = Tail(c.read_bio)
      BY <1>1 DEF Connections
    <3>5. /\ x.failed = c.failed /\ x.closed = c.closed /\ x.read_buffer = c.read_buffer
          /\ x.read_bio = Tail(c.read_bio) /\ x.waiting = chunks
          /\ x.write_bio = << >> /\ x.finished
          /\ \A f \in {"handshake_done", "queued", "done", "room", "out",
                       "ssl_write_buffer"} : x[f] = c[f]
      BY <1>2 DEF Connections
    <3> HIDE DEF q, x
    <3>6. y = q  BY <3>1, <3>2, <3>4, NothingToDo
    <3> QED BY <3>1, <3>2, <3>4, <3>5, <3>6
  <2>4. CASE Head(c.read_bio) = "ALERT"
    <3> DEFINE q == [rest EXCEPT !.closed = TRUE]
               x == [left EXCEPT !.closed = TRUE]
    <3>1. y = DataCheck(q) /\ SslRun(e) = DataCheck(x)
      BY <1>2, <1>4, <2>1, <2>4 DEF SslRun
    <3>2. ConInv(q) /\ ConInv(x)
      <4> HIDE DEF rest, left
      <4> QED BY <2>1, <2>2 DEF ConInv, Connections
    <3>4. /\ q.waiting = << >> /\ q.write_bio = << >>
          /\ q.expected = c.expected /\ q.failed = c.failed
          /\ q.closed = TRUE
          /\ q.read_buffer = c.read_buffer /\ q.read_bio = Tail(c.read_bio)
      BY <1>1 DEF Connections
    <3>5. /\ x.failed = c.failed /\ x.closed = TRUE
          /\ x.read_buffer = c.read_buffer
          /\ x.read_bio = Tail(c.read_bio) /\ x.waiting = chunks
          /\ x.write_bio = << >> /\ x.finished
          /\ \A f \in {"handshake_done", "queued", "done", "room", "out",
                       "ssl_write_buffer"} : x[f] = c[f]
      BY <1>2 DEF Connections
    <3> HIDE DEF q, x
    <3>6. y = q  BY <3>1, <3>2, <3>4, NothingToDo
    <3> QED BY <3>1, <3>2, <3>4, <3>5, <3>6
  <2>5. CASE Head(c.read_bio) \notin {"DATA", "ALERT"}
    <3> DEFINE q == HandleError(rest)
               x == HandleError(left)
    <3>1. y = DataCheck(q) /\ SslRun(e) = DataCheck(x)
      BY <1>2, <1>4, <2>1, <2>5 DEF SslRun
    <3>2. ConInv(q) /\ ConInv(x)  BY <2>1, HandleErrorKeeps
    <3>4. /\ q.waiting = << >> /\ q.write_bio = << >> /\ ~q.expected
          /\ q.failed /\ q.read_buffer = c.read_buffer
          /\ q.read_bio = Tail(c.read_bio)
      BY <1>1 DEF Connections, HandleError
    <3>5. /\ x.failed /\ x.read_buffer = c.read_buffer
          /\ x.read_bio = Tail(c.read_bio) /\ x.waiting = chunks
          /\ x.write_bio = << >> /\ x.finished
          /\ \A f \in {"handshake_done", "queued", "done", "room", "out",
                       "ssl_write_buffer"} : x[f] = c[f]
      BY <1>2 DEF Connections, HandleError
    <3>7. q.failed = x.failed /\ q.closed = x.closed
      BY <1>1, <1>2 DEF HandleError, Connections
    <3> HIDE DEF q, x
    <3>6. y = q  BY <3>1, <3>2, <3>4, NothingToDo
    <3> QED BY <3>1, <3>2, <3>4, <3>5, <3>6, <3>7
  <2> QED BY <2>3, <2>4, <2>5
<1> QED BY <1>3, <1>4

(* What attachsql_ssl_data_check does with a command that waits: it is       *)
(* written, or libuv is given its last chunk as often as it has chunks.      *)
LEMMA CommandWritten ==
    ASSUME NEW x, ConInv(x), x.finished, x.write_bio = << >>,
           x.waiting # << >>
    PROVE  LET d == DataCheck(x)
               chunks == x.waiting
           IN  /\ d \in Connections /\ d.finished
               /\ d.waiting = << >> /\ d.write_bio = << >>
               /\ d.ssl_write_buffer = << Last(chunks) >>
               /\ IF x.queued = 0 /\ x.room
                  THEN d.out = x.out \o chunks /\ d.queued = 0
                  ELSE /\ d.out = x.out /\ d.queued = x.queued + Len(chunks)
                       /\ d.done = x.done
               /\ \A f \in {"handshake_done", "read_bio", "failed", "closed",
                            "read_buffer", "room"} : d[f] = x[f]
<1> DEFINE d == DataCheck(x)
           chunks == x.waiting
           z == [x EXCEPT !.write_bio = << >>, !.waiting = << >>,
                          !.start = x.end]
<1>1. x \in Connections /\ ConInv(d)  BY DataCheckKeeps DEF ConInv
<1>2. Encrypts(x)
  <2>1. x.end = x.start + Len(chunks) /\ x.start \in Nat
        /\ Len(chunks) \in Nat \ {0}
    BY <1>1, EmptySeq DEF ConInv, Connections
  <2> QED BY <2>1 DEF Encrypts
<1>3. d = Write(z, chunks)
  <2>1. x.write_bio \o chunks = chunks  BY <1>1, ConcatEmptySeq DEF Connections
  <2> QED BY <1>2, <2>1 DEF DataCheck
<1>4. /\ z \in Connections /\ z.waiting = << >> /\ z.write_bio = << >>
      /\ z.finished
      /\ \A f \in {"handshake_done", "read_bio", "failed", "closed", "read_buffer",
                   "room", "queued", "done", "out"} : z[f] = x[f]
  <2>1. << >> \in Seq(Open) /\ << >> \in Seq(Secret) /\ x.end \in Nat
    BY <1>1 DEF Connections
  <2> QED BY <1>1, <2>1 DEF Connections
<1>5. d \in Connections  BY <1>1 DEF ConInv
<1>6. chunks # << >>  OBVIOUS
<1> SUFFICES /\ d \in Connections /\ d.finished
             /\ d.waiting = << >> /\ d.write_bio = << >>
             /\ d.ssl_write_buffer = << Last(chunks) >>
             /\ IF x.queued = 0 /\ x.room
                THEN d.out = x.out \o chunks /\ d.queued = 0
                ELSE /\ d.out = x.out /\ d.queued = x.queued + Len(chunks)
                     /\ d.done = x.done
             /\ \A f \in {"handshake_done", "read_bio", "failed", "closed",
                          "read_buffer", "room"} : d[f] = x[f]
  OBVIOUS
<1> HIDE DEF d, z, chunks
<1> DEFINE Rest(e) == /\ e.finished /\ e.waiting = << >>
                      /\ e.write_bio = << >>
                      /\ e.ssl_write_buffer = << Last(chunks) >>
                      /\ \A f \in {"handshake_done", "read_bio", "failed",
                                   "closed", "read_buffer", "room"} :
                           e[f] = x[f]
<1>7. CASE x.queued = 0 /\ x.room
  <2>1. d = [z EXCEPT !.out = @ \o chunks, !.done = @ + Len(chunks),
                      !.ssl_write_buffer = << Last(chunks) >>]
    BY <1>3, <1>4, <1>6, <1>7 DEF Write
  <2>2. d.out = x.out \o chunks /\ d.queued = 0
    BY <1>4, <1>7, <2>1 DEF Connections
  <2>3. Rest(d)  BY <1>4, <1>5, <2>1 DEF Connections
  <2> QED BY <1>5, <1>7, <2>2, <2>3
<1>8. CASE ~(x.queued = 0 /\ x.room)
  <2>1. d = [z EXCEPT !.queued = @ + Len(chunks),
                      !.ssl_write_buffer = << Last(chunks) >>]
    BY <1>3, <1>4, <1>6, <1>8 DEF Write
  <2>2. /\ d.out = x.out /\ d.queued = x.queued + Len(chunks)
        /\ d.done = x.done
    BY <1>4, <1>8, <2>1 DEF Connections
  <2>3. Rest(d)  BY <1>4, <1>5, <2>1 DEF Connections
  <2> QED BY <1>5, <1>8, <2>2, <2>3
<1> QED BY <1>7, <1>8

LEMMA SingleConcat ==
    ASSUME NEW g \in Seq(Secret), NEW s \in Seq(Secret), s # << >>,
           s[Len(s)].part = Len(s), Single(g \o s)
    PROVE  Single(g) /\ Len(s) = 1 /\ << Last(s) >> = s
<1> DEFINE u == g \o s
<1>1. /\ Len(g) \in Nat /\ Len(s) \in Nat \ {0} /\ Len(u) = Len(g) + Len(s)
      /\ \A i \in 1..Len(g) + Len(s) :
           u[i] = IF i <= Len(g) THEN g[i] ELSE s[i - Len(g)]
  BY ConcatProperties, LenProperties, EmptySeq
<1>2. \A i \in 1..Len(u) : u[i].part <= 1  BY DEF Single
<1> HIDE DEF u
<1>3. Single(g)
  <2>1. \A i \in 1..Len(g) : i \in 1..Len(u) /\ u[i] = g[i]  BY <1>1
  <2> QED BY <1>2, <2>1 DEF Single
<1>4. Len(s) = 1
  <2>1. Len(u) \in 1..Len(u) /\ u[Len(u)] = s[Len(s)]
    BY LastOfConcat, <1>1 DEF u
  <2>2. s[Len(s)].part <= 1  BY <1>2, <2>1
  <2> DEFINE k == Len(s)
  <2>3. k <= 1 /\ k \in Nat \ {0}  BY <1>1, <2>2
  <2> HIDE DEF k
  <2>4. k = 1  BY <2>3
  <2> QED BY <2>4 DEF k
<1>5. << Last(s) >> = s
  <2>1. Len(<< Last(s) >>) = Len(s) /\ << Last(s) >>[1] = s[1]
    BY <1>4 DEF Last
  <2>2. << Last(s) >> \in Seq(Secret)  BY LastIn
  <2> DEFINE l == << Last(s) >>
  <2> HIDE DEF l
  <2>3. Len(l) = 1 /\ l[1] = s[1] /\ l \in Seq(Secret)
    BY <1>4, <2>1, <2>2 DEF l
  <2>4. \A i \in 1..Len(l) : l[i] = s[i]
    <3>1. \A i \in 1..Len(l) : i = 1  BY <2>3
    <3> QED BY <2>3, <3>1
  <2>5. l = s  BY <1>4, <2>3, <2>4, SeqEqual
  <2> QED BY <2>5 DEF l
<1> QED BY <1>3, <1>4, <1>5

(* A command, sent when nothing is expected: what is still unread of the     *)
(* last answer is not all of it.                                             *)
LEMMA SendIntact ==
    ASSUME TlsInv, Held, NEW n \in Sizes, NEW answered \in BOOLEAN,
           Send(n, answered)
    PROVE  Held'
<1> DEFINE chunks == [i \in 1..n |-> [message |-> "COMMAND",
                        number |-> Sent + 1, part |-> i, clear |-> FALSE]]
           sent == SslBufferWrite(con, chunks)
           y == SslRun(con)
           flow == y.read_bio \o server.in
<1>1. /\ con.status = "IDLE" /\ Sent < MaxCommands
      /\ con' = [sent EXCEPT !.expected = answered, !.status = "BUSY",
                             !.thrown = 0]
      /\ given' = given \o chunks
      /\ UNCHANGED <<server, met>>
  BY DEF Send
<1>2. /\ chunks \in Seq(Secret) /\ Len(chunks) = n /\ n \in Nat \ {0}
      /\ chunks[n].part = n
  <2>1. n \in Nat \ {0} /\ Sent + 1 \in 0..MaxCommands
    BY <1>1, SentNat, TlsAssumption DEF TlsInv
  <2>2. ASSUME NEW i \in 1..n
        PROVE  [message |-> "COMMAND", number |-> Sent + 1, part |-> i,
                clear |-> FALSE] \in Secret
    BY <2>1, <2>2 DEF Secret, Chunks, Messages, IsData
  <2>3. chunks \in Seq(Secret)  BY <2>1, <2>2, IsASeq
  <2>4. n \in 1..n  BY <2>1
  <2>5. chunks[n].part = n  BY <2>4
  <2> QED BY <2>1, <2>3, <2>5
<1> HIDE DEF chunks
<1>3. /\ ConInv(con) /\ con \in Connections /\ given \in Seq(Secret)
      /\ server.in \in Seq(Strings)
  BY DEF TlsInv, ConInv
<1>4. con.handshake_done /\ con.finished
  BY <1>1 DEF Held, Greeting, Shaking
<1>5. /\ Going(con, con.read_bio \o server.in, server, given, met)
      /\ Taken(con, server)
  BY <1>4, GoingIntact
<1>6. Going(y, flow, server, given, met)
  BY <1>3, <1>5, SslRunGoing
<1>7. /\ con.waiting = << >> /\ con.write_bio = << >> /\ ~con.expected
      /\ con.done = 0
  BY <1>1, <1>5 DEF Going, Sending
<1>8. sent = SslRun(Filled(con, chunks))
  BY <1>2, <1>3, SslBufferWriteKeeps
<1>9. /\ ~y.expected
      /\ \E x : /\ SslRun(Filled(con, chunks)) = DataCheck(x)
                /\ ConInv(x) /\ x.waiting = chunks
                /\ x.write_bio = << >> /\ x.finished
                /\ \A f \in {"read_bio", "failed", "closed", "read_buffer"} :
                     x[f] = y[f]
                /\ \A f \in {"handshake_done", "queued", "done", "room",
                             "out", "ssl_write_buffer"} : x[f] = con[f]
  BY <1>2, <1>3, <1>4, <1>7, SslRunFilled
<1>10. PICK x : /\ sent = DataCheck(x)
                /\ ConInv(x) /\ x.waiting = chunks
                /\ x.write_bio = << >> /\ x.finished
                /\ x.read_bio = y.read_bio /\ x.failed = y.failed /\ x.closed = y.closed
                /\ x.read_buffer = y.read_buffer
                /\ x.handshake_done /\ x.queued = con.queued
                /\ x.done = 0 /\ x.room = con.room /\ x.out = con.out
  BY <1>4, <1>7, <1>8, <1>9
<1> HIDE DEF sent, y
<1>11. chunks # << >>
  <2>1. Len(<< >>) = 0  OBVIOUS
  <2> QED BY <1>2, <2>1
<1>12. /\ sent \in Connections /\ sent.finished
       /\ sent.waiting = << >> /\ sent.write_bio = << >>
       /\ sent.ssl_write_buffer = << Last(chunks) >>
       /\ IF con.queued = 0 /\ con.room
          THEN sent.out = con.out \o chunks /\ sent.queued = 0
          ELSE /\ sent.out = con.out /\ sent.queued = con.queued + n
               /\ sent.done = 0
       /\ sent.handshake_done /\ sent.room = con.room
       /\ sent.read_bio = y.read_bio /\ sent.failed = y.failed /\ sent.closed = y.closed
       /\ sent.read_buffer = y.read_buffer
  <2>1. ConInv(x) /\ x.finished /\ x.write_bio = << >> /\ x.waiting # << >>
    BY <1>10, <1>11
  <2>2. LET d == DataCheck(x)
        IN  /\ d \in Connections /\ d.finished
            /\ d.waiting = << >> /\ d.write_bio = << >>
            /\ d.ssl_write_buffer = << Last(x.waiting) >>
            /\ IF x.queued = 0 /\ x.room
               THEN d.out = x.out \o x.waiting /\ d.queued = 0
               ELSE /\ d.out = x.out /\ d.done = x.done
                    /\ d.queued = x.queued + Len(x.waiting)
            /\ d.handshake_done = x.handshake_done
            /\ d.read_bio = x.read_bio /\ d.failed = x.failed /\ d.closed = x.closed
            /\ d.read_buffer = x.read_buffer /\ d.room = x.room
    BY <2>1, CommandWritten
  <2> QED BY <1>2, <1>10, <2>2
<1>13. /\ con'.status = "BUSY"
       /\ \A f \in {"finished", "waiting", "write_bio", "ssl_write_buffer",
                    "out", "queued", "done", "handshake_done", "room",
                    "read_bio", "failed", "closed", "read_buffer"} : con'[f] = sent[f]
  BY <1>1, <1>12 DEF Connections
<1>14. Answering(con', con'.read_bio \o server'.in, server')
       /\ Taken(con', server')
  <2> HIDE DEF flow
  <2>1. con'.read_bio \o server'.in = flow  BY <1>1, <1>12, <1>13 DEF flow
  <2>2. Alert(con', server) = Alert(y, server)
    BY <1>12, <1>13 DEF Alert, Over
  <2>3. Unread(con', flow, server) = Unread(y, flow, server)
    BY <1>12, <1>13, <2>2 DEF Unread
  <2>4. Starved(y, flow, server)  BY <1>6, <1>9 DEF Going, Answering
  <2>5. Starved(con', flow, server)  BY <2>3, <2>4 DEF Starved
  <2>6. Answering(con', flow, server)
    BY <1>6, <1>12, <1>13, <2>2, <2>3, <2>5 DEF Going, Answering, Over
  <2>7. Taken(con', server)
    <3>1. /\ Unread(y, flow, server) \in Nat /\ y.read_buffer \in Nat
          /\ y.read_buffer <= Unread(y, flow, server)
      BY <1>6, UnreadInt
    <3>2. server.answer \in Nat  BY <1>6 DEF Going
    <3> QED BY <1>12, <1>13, <2>4, <3>1, <3>2 DEF Starved, Taken
  <2> QED BY <1>1, <2>1, <2>6, <2>7
<1>15. Sending(con', given', met')
  <2>1. Last(chunks) \in Secret
    BY <1>2, <1>11, LastOfConcat DEF Last
  <2>2. /\ Len(con'.ssl_write_buffer) = 1
        /\ IsData(con'.ssl_write_buffer[1])
    <3> DEFINE last == Last(chunks)
    <3>1. con'.ssl_write_buffer = << last >>  BY <1>12, <1>13
    <3>2. IsData(last)  BY <2>1 DEF Secret
    <3> HIDE DEF last
    <3> QED BY <3>1, <3>2
  <2>3. con.out \in Seq(Written) /\ chunks \in Seq(Written)
    BY <1>2, <1>3, Wider DEF Connections
  <2>4. Sending(con, given, met)  BY <1>5 DEF Going
  <2>5. /\ con'.handshake_done /\ con'.waiting = << >>
        /\ con'.write_bio = << >> /\ con'.status # "IDLE"
        /\ con'.room = con.room
    BY <1>12, <1>13
  <2>6. CASE con.queued = 0 /\ con.room
    <3>1. con'.out = con.out \o chunks /\ con'.queued = 0
      BY <1>12, <1>13, <2>6
    <3>2. /\ con'.out # << >> /\ con'.out[Len(con'.out)] = chunks[Len(chunks)]
          /\ chunks[Len(chunks)] \in Secret
      BY <1>2, <1>11, <2>3, <3>1, LastOfConcat
    <3>3. IsData(con'.out[Len(con'.out)])  BY <3>2 DEF Secret
    <3>4. ASSUME Kept(given', met') PROVE Stream(con') = given'
      <4>1. Kept(given, met)
        <5>1. CASE "full" \notin met  BY <5>1 DEF Kept
        <5>2. CASE "full" \in met
          <6>1. Single(given \o chunks)  BY <1>1, <3>4, <5>2 DEF Kept
          <6> QED BY <1>2, <1>3, <1>11, <6>1, SingleConcat DEF Kept
        <5> QED BY <5>1, <5>2
      <4>2. Stream(con) = given  BY <2>4, <4>1 DEF Sending
      <4>3. Data(con.out) \o << >> = given
        BY <2>6, <4>2 DEF Stream, Queued
      <4>4. Data(con.out) \in Seq(Written)  BY <2>3, DataIn
      <4>5. Data(con.out) = given  BY <4>3, <4>4, ConcatEmptySeq
      <4>6. Data(con'.out) = given \o chunks
        BY <1>2, <2>3, <3>1, <4>5, DataConcat
      <4>7. Stream(con') = (given \o chunks) \o << >>
        BY <3>1, <4>6 DEF Stream, Queued
      <4>8. given \o chunks \in Seq(Secret)  BY <1>2, <1>3, ConcatIn
      <4> QED BY <1>1, <4>7, <4>8, ConcatEmptySeq
    <3>5. "full" \notin met' => con'.room /\ con'.queued = 0
      BY <2>5, <2>6, <3>1
    <3>6. Single(given') /\ con'.queued > 0 =>
            con'.queued = 1 /\ con'.status # "IDLE" /\ con'.done = 0
      BY <3>1
    <3> QED BY <2>2, <2>5, <3>2, <3>3, <3>4, <3>5, <3>6 DEF Sending
  <2>7. CASE ~(con.queued = 0 /\ con.room)
    <3>1. con'.out = con.out /\ con'.queued = con.queued + n /\ con'.done = 0
      BY <1>12, <1>13, <2>7
    <3>2. "full" \in met  BY <2>4, <2>7 DEF Sending
    <3>3. con'.out # << >> /\ IsData(con'.out[Len(con'.out)])
      BY <2>4, <3>1 DEF Sending
    <3>4. ASSUME Single(given')
          PROVE  /\ con'.queued = 1 /\ con.queued = 0 /\ Single(given)
                 /\ << Last(chunks) >> = chunks
      <4>1. Single(given) /\ n = 1 /\ << Last(chunks) >> = chunks
        BY <1>1, <1>2, <1>3, <1>11, <3>4, SingleConcat
      <4>2. con.queued = 0
        BY <1>1, <1>3, <2>4, <4>1 DEF Sending, Connections
      <4> QED BY <3>1, <4>1, <4>2
    <3>5. ASSUME Kept(given', met') PROVE Stream(con') = given'
      <4>1. Single(given')  BY <1>1, <3>2, <3>5 DEF Kept
      <4>2. Stream(con) = given  BY <2>4, <3>4, <4>1 DEF Sending, Kept
      <4>7. con.queued = 0  BY <3>4, <4>1
      <4>3. Data(con.out) \o << >> = given
        BY <4>2, <4>7 DEF Stream, Queued
      <4>4. Data(con.out) \in Seq(Written)  BY <2>3, DataIn
      <4>5. Data(con.out) = given  BY <4>3, <4>4, ConcatEmptySeq
      <4>6. Queued(con') = chunks
        BY <1>12, <1>13, <3>4, <4>1 DEF Queued
      <4> QED BY <1>1, <3>1, <4>5, <4>6 DEF Stream
    <3> QED BY <1>1, <2>2, <2>5, <3>1, <3>2, <3>3, <3>4, <3>5 DEF Sending
  <2> QED BY <2>6, <2>7
<1>16. con'.handshake_done /\ con'.finished  BY <1>12, <1>13
<1> QED BY <1>14, <1>15, <1>16 DEF Held

LEMMA SocketIntact ==
    ASSUME TlsInv, Held, SocketFull \/ SocketDrains
    PROVE  Held'
<1>1. con \in Connections /\ UNCHANGED <<server, given>>
  BY DEF TlsInv, ConInv, SocketFull, SocketDrains
<1>2. con.finished \/ ~con.room  BY DEF SocketFull, SocketDrains
<1>3. con.handshake_done /\ con.finished
  BY <1>2 DEF Held, Greeting, Shaking
<1>4. /\ Answering(con, con.read_bio \o server.in, server)
      /\ Taken(con, server) /\ Sending(con, given, met)
  BY <1>3 DEF Held
<1>5. "full" \in met'
  <2>1. CASE SocketFull  BY <2>1 DEF SocketFull
  <2>2. CASE SocketDrains  BY <1>4, <2>2 DEF SocketDrains, Sending
  <2> QED BY <2>1, <2>2
<1>6. met \subseteq met'  BY DEF SocketFull, SocketDrains
<1>7. \A x \in {"status", "expected", "handshake_done", "finished", "failed", "closed",
                "waiting", "write_bio", "ssl_write_buffer", "queued", "done",
                "out", "read_buffer", "read_bio"} : con'[x] = con[x]
  BY <1>1 DEF SocketFull, SocketDrains, Connections
<1>8. Answering(con', con'.read_bio \o server'.in, server')
      /\ Taken(con', server')
  <2> DEFINE f == con.read_bio \o server.in
  <2>1. con'.read_bio \o server'.in = f  BY <1>1, <1>7
  <2>2. Answering(con, f, server)  BY <1>4
  <2> HIDE DEF f
  <2>3. Answering(con', f, server)
    BY <1>7, <2>2 DEF Answering, Alert, Over, Unread, Starved
  <2>4. Taken(con', server)  BY <1>4, <1>7 DEF Taken
  <2> QED BY <1>1, <2>1, <2>3, <2>4
<1>9. Sending(con', given', met')
  <2>1. Kept(given', met') => Kept(given, met)
    BY <1>1, <1>6 DEF Kept
  <2>2. Stream(con') = Stream(con)  BY <1>7 DEF Stream, Queued
  <2>3. Single(given') <=> Single(given)  BY <1>1
  <2> QED BY <1>1, <1>4, <1>5, <1>7, <2>1, <2>2, <2>3 DEF Sending
<1> QED BY <1>3, <1>7, <1>8, <1>9 DEF Held

(* The server's answer to a command is on its way, all of it.                *)
LEMMA AnswerComes ==
    ASSUME TlsInv, Held, con.handshake_done, con.finished,
           NEW n \in Nat \ {0}, ~server.gone, con.queued = 0, con.expected,
           server.seen < Len(con.out),
           server' = [server EXCEPT !.seen = Len(con.out),
                                    !.in = @ \o [i \in 1..n |-> "DATA"],
                                    !.answer = n],
           UNCHANGED <<con, given, met>>
    PROVE  Held'
<1> DEFINE f == con.read_bio \o server.in
           data == [i \in 1..n |-> "DATA"]
<1>1. /\ Going(con, f, server, given, met) /\ Taken(con, server)
      /\ con.read_bio \in Seq(Strings) /\ server.in \in Seq(Strings)
      /\ server \in Servers
  BY GoingIntact DEF TlsInv, ConInv, Connections, Servers
<1>2. /\ data \in Seq(Strings) /\ Len(data) = n
      /\ \A i \in 1..n : data[i] = "DATA"
  <2>1. data \in Seq(Strings)  BY IsASeq DEF Strings
  <2>2. DOMAIN data = 1..n  OBVIOUS
  <2> QED BY <2>1, <2>2
<1> HIDE DEF data
<1>3. /\ server'.in = server.in \o data /\ server'.answer = n
      /\ server'.seen = Len(con.out) /\ server'.gone = server.gone
  BY <1>1 DEF Servers, data
<1>4. con'.read_bio \o server'.in = f \o data
  <2>1. \A r, s, t \in Seq(Strings) : (r \o s) \o t = r \o (s \o t)
    BY ConcatAssociative
  <2>2. (con.read_bio \o server.in) \o data
          = con.read_bio \o (server.in \o data)
    BY <1>1, <1>2, <2>1
  <2>3. con'.read_bio \o server'.in = con.read_bio \o (server.in \o data)
    BY <1>3
  <2> QED BY <2>2, <2>3
<1> HIDE DEF f
<1>5. Unread(con, f, server) = 0 /\ ~Alert(con, server) /\ ~Over(con)
  BY <1>1 DEF Going, Answering, Starved, Alert
<1>6. con.read_buffer = 0 /\ Len(f) = 0
  <2>1. con.read_buffer \in Nat /\ Len(f) \in Nat  BY <1>1, UnreadInt
  <2> QED BY <1>5, <2>1 DEF Unread
<1>7. f \o data = data
  <2>1. f = << >>  BY <1>1, <1>6, EmptySeq DEF Going
  <2> QED BY <1>2, <2>1, ConcatEmptySeq
<1>8. Answering(con, data, server')
  <2>1. ~Alert(con, server')  BY <1>3 DEF Alert
  <2>2. OnWay(data, Alert(con, server'))  BY <1>2, <2>1 DEF OnWay
  <2>3. Unread(con, data, server') = n  BY <1>2, <1>6, <2>1 DEF Unread
  <2>4. ~(server'.seen < Len(con.out))
    <3>1. Len(con.out) \in Nat
      BY LenProperties DEF TlsInv, ConInv, Connections
    <3> QED BY <1>3, <3>1
  <2>5. ~(con.queued > 0)  OBVIOUS
  <2> QED BY <1>3, <1>5, <2>2, <2>3, <2>4, <2>5 DEF Answering
<1>9. Taken(con, server')  BY <1>6 DEF Taken
<1>10. Sending(con, given, met)  BY <1>1 DEF Going
<1> QED BY <1>4, <1>7, <1>8, <1>9, <1>10 DEF Held

(* The server's alert is the last record, or one that is damaged.            *)
LEMMA AlertComes ==
    ASSUME TlsInv, Held, con.handshake_done, con.finished, ServerFails
    PROVE  Held'
<1>1. PICK last \in {"ALERT", "ERROR"} :
        server' = [server EXCEPT !.gone = TRUE, !.in = Append(@, last)]
  BY FailsParts
<1> DEFINE f == con.read_bio \o server.in
           g == Append(f, last)
<1>2. /\ Going(con, f, server, given, met) /\ Taken(con, server)
      /\ con.read_bio \in Seq(Strings) /\ server.in \in Seq(Strings)
      /\ server \in Servers /\ last \in Strings
  BY GoingIntact DEF TlsInv, ConInv, Connections, Servers, Strings
<1>3. /\ ~server.gone /\ server'.gone
      /\ server'.in = Append(server.in, last)
      /\ server'.answer = server.answer /\ server'.seen = server.seen
      /\ UNCHANGED <<con, given, met>>
  BY <1>1, <1>2, FailsParts DEF Servers
<1>4. con'.read_bio \o server'.in = g
  <2>1. \A r, s \in Seq(Strings) : r \o Append(s, last) = Append(r \o s, last)
    <3> SUFFICES ASSUME NEW r \in Seq(Strings), NEW s \in Seq(Strings)
                 PROVE  r \o Append(s, last) = Append(r \o s, last)
      OBVIOUS
    <3>1. << last >> \in Seq(Strings)  BY <1>2
    <3>2. (r \o s) \o << last >> = r \o (s \o << last >>)
      BY <3>1, ConcatAssociative
    <3>3. \A q \in Seq(Strings) : Append(q, last) = q \o << last >>
      BY <1>2, AppendIsConcat
    <3>4. r \o s \in Seq(Strings)  BY ConcatIn
    <3> QED BY <3>2, <3>3, <3>4
  <2> QED BY <1>2, <1>3, <2>1
<1>5. /\ g \in Seq(Strings) /\ Len(g) = Len(f) + 1 /\ Len(f) \in Nat
      /\ \A i \in 1..Len(f) : g[i] = f[i]
      /\ g[Len(f) + 1] \in {"ALERT", "ERROR"}
  <2>1. f \in Seq(Strings) /\ last \in Strings  BY <1>2 DEF Going
  <2> HIDE DEF f
  <2> QED BY <2>1, AppendProperties, LenProperties
<1> HIDE DEF f, g
<1>6. ~Over(con) /\ ~Alert(con, server) /\ Alert(con, server')
  BY <1>2, <1>3 DEF Going, Answering, Alert
<1>7. Unread(con, g, server') = Unread(con, f, server)
  <2>1. con.read_buffer \in Nat  BY <1>2, UnreadInt
  <2> QED BY <1>5, <1>6, <2>1 DEF Unread
<1>8. OnWay(g, Alert(con, server'))
  <2>1. \A i \in 1..Len(f) : f[i] = "DATA"
    BY <1>2, <1>6 DEF Going, Answering, OnWay
  <2>2. g # << >>
    <3>1. Len(g) # 0  BY <1>5
    <3> QED BY <1>5, <3>1, EmptySeq
  <2>3. ASSUME NEW i \in 1..Len(g)
        PROVE  IF i = Len(g) THEN g[i] \in {"ALERT", "ERROR"}
                             ELSE g[i] = "DATA"
    <3>1. \/ i \in 1..Len(f) /\ i # Len(g)
          \/ i = Len(f) + 1 /\ i = Len(g)
      BY <1>5
    <3> QED BY <1>5, <2>1, <3>1
  <2> QED BY <1>6, <2>2, <2>3 DEF OnWay
<1>9. Answering(con, g, server')
  <2>1. Starved(con, f, server) => Starved(con, g, server')
    BY <1>3, <1>7 DEF Starved
  <2> QED BY <1>2, <1>3, <1>6, <1>7, <1>8, <2>1 DEF Going, Answering
<1>10. Taken(con, server')  BY <1>2, <1>3 DEF Taken
<1>11. Sending(con, given, met)  BY <1>2 DEF Going
<1> QED BY <1>3, <1>4, <1>9, <1>10, <1>11 DEF Held

LEMMA ServerIntact ==
    ASSUME TlsInv, Held, ServerAnswers \/ ServerFails
    PROVE  Held'
<1>1. /\ UNCHANGED <<con, given, met>> /\ ~server.gone /\ con \in Connections
      /\ server \in Servers
  <2>1. UNCHANGED <<con, given, met>> /\ ~server.gone  BY ServerKeeps
  <2> QED BY <2>1 DEF TlsInv, ConInv, Servers
<1>2. Len(con.out) \in Nat /\ Len(<< >>) = 0
  BY <1>1, LenProperties DEF Connections
<1>3. CASE ~con.handshake_done
  <2>1. con.out = << >> /\ server.seen = 0 /\ ~con.finished
    BY <1>3 DEF Held, Greeting
  <2>2. ~(server.seen < Len(con.out))  BY <1>2, <2>1
  <2> QED BY <2>1, <2>2, AnswersParts, FailsParts
<1>4. CASE con.handshake_done /\ ~con.finished
  <2>1. Shaking(con, server, given)  BY <1>4 DEF Held
  <2>2. server.seen < Len(con.out) /\ server.seen \in Nat
    <3>1. server.seen < Len(con.out)
      BY <1>4, AnswersParts, FailsParts, Zenon
    <3> QED BY <1>1, <3>1 DEF Servers
  <2>3. CASE ServerAnswers
    <3>1. Last(con.out) \in Open
      <4>1. con.out \in Seq(Open)  BY <1>4 DEF TlsInv, ConInv
      <4>2. Len(con.out) \in 1..Len(con.out)  BY <1>2, <2>2
      <4> QED BY <4>1, <4>2, ElementOfSeq DEF Last
    <3>2. Last(con.out).message \notin {"LOGIN", "COMMAND"}
      BY <3>1 DEF Open, IsData
    <3>3. \E r \in {"CERTIFICATE", "FINISHED"} :
            server' = [server EXCEPT !.seen = Len(con.out), !.in = << r >>]
      BY <2>3, <3>2, AnswersParts, Zenon
    <3>4. PICK r \in {"CERTIFICATE", "FINISHED"} :
            /\ server'.in = << r >> /\ server'.gone = server.gone
            /\ server'.seen = Len(con.out)
      BY <1>1, <3>3 DEF Servers
    <3>5. Len(server'.in) <= 1 /\ server'.in[1] = r  BY <3>4
    <3>6. Shaking(con, server', given)
      BY <1>1, <2>1, <3>4, <3>5 DEF Shaking
    <3> QED BY <1>1, <1>4, <3>6 DEF Held
  <2>4. CASE ServerFails
    <3>1. server.in = << >>
      <4>1. server.seen # Len(con.out)  BY <1>2, <2>2
      <4> QED BY <1>1, <2>1, <4>1 DEF Shaking
    <3>2. PICK last \in {"ALERT", "ERROR"} :
            server'.in = << last >> /\ server'.gone
      <4>1. PICK last \in {"ALERT", "ERROR"} :
              server' = [server EXCEPT !.gone = TRUE, !.in = Append(@, last)]
        BY <2>4, FailsParts
      <4>2. Append(<< >>, last) = << last >>  OBVIOUS
      <4> QED BY <1>1, <3>1, <4>1, <4>2 DEF Servers
    <3>3. Len(server'.in) <= 1 /\ server'.in[1] \in {"ALERT", "ERROR"}
      BY <3>2
    <3>4. Shaking(con, server', given)
      BY <2>1, <3>2, <3>3 DEF Shaking
    <3> QED BY <1>1, <1>4, <3>4 DEF Held
  <2> QED BY <2>3, <2>4
<1>5. CASE con.handshake_done /\ con.finished
  <2>1. CASE ServerFails  BY <1>5, <2>1, AlertComes
  <2>2. CASE ServerAnswers
    <3>1. Last(con.out).message \in {"LOGIN", "COMMAND"}
      BY <1>5 DEF Held, Sending, IsData, Last
    <3>4. con.expected
      <4>1. Last(con.out).message \notin {"HELLO", "KEY"}  BY <3>1
      <4> QED BY <2>2, <4>1, Zenon DEF ServerAnswers
    <3>2. /\ server.seen < Len(con.out) /\ con.queued = 0
          /\ \E n \in Records \union {1} :
               server' = [server EXCEPT !.seen = Len(con.out),
                            !.in = @ \o [i \in 1..n |-> "DATA"],
                            !.answer = n]
      BY <2>2, <3>1, AnswersParts, Zenon
    <3>3. PICK n \in Nat \ {0} :
            server' = [server EXCEPT !.seen = Len(con.out),
                         !.in = @ \o [i \in 1..n |-> "DATA"],
                         !.answer = n]
      <4>1. Records \union {1} \subseteq Nat \ {0}  BY TlsAssumption
      <4> QED BY <3>2, <4>1, Zenon
    <3>5. /\ server.seen < Len(con.out) /\ con.queued = 0
          /\ ~server.gone /\ UNCHANGED <<con, given, met>>
          /\ con.handshake_done /\ con.finished
      BY <1>1, <1>5, <3>2
    <3> QED BY <3>3, <3>4, <3>5, AnswerComes, Zenon
  <2> QED BY <2>1, <2>2
<1> QED BY <1>3, <1>4, <1>5

(* What SentIntact says of a connection in the middle of a poll, too.        *)
Intact(c, g, m) ==
    \/ IsPrefix(Data(c.out), g)
    \/ "full" \in m /\ \E i \in DOMAIN g : g[i].part > 1

LEMMA SendingIntact ==
    ASSUME NEW c, ConInv(c), NEW g \in Seq(Secret), NEW m,
           ~c.finished \/ Sending(c, g, m)
    PROVE  Intact(c, g, m)
<1>1. c.out \in Seq(Written) /\ c.ssl_write_buffer \in Seq(Written)
  BY DEF ConInv, Connections
<1>2. CASE ~c.finished
  <2>1. c.out \in Seq(Open)  BY <1>2 DEF ConInv
  <2>2. Data(c.out) = << >>  BY <2>1, DataOpen
  <2> QED BY <2>2, NothingIsPrefix DEF Intact
<1>3. CASE Sending(c, g, m) /\ Kept(g, m)
  <2>1. g = Data(c.out) \o Queued(c)  BY <1>3 DEF Sending, Stream
  <2>2. Queued(c) \in Seq(Written) /\ Data(c.out) \in Seq(Written)
    BY <1>1, DataIn DEF Queued
  <2> QED BY <2>1, <2>2, StartIsPrefix DEF Intact
<1>4. CASE ~Kept(g, m)
  <2>1. PICK i \in 1..Len(g) : ~(g[i].part <= 1)  BY <1>4 DEF Kept, Single
  <2>2. g[i] \in Secret  BY ElementOfSeq
  <2>3. g[i].part \in Nat  BY <2>2 DEF Secret, Chunks
  <2>4. i \in DOMAIN g /\ g[i].part > 1  BY <2>1, <2>3, LenProperties
  <2> QED BY <1>4, <2>4 DEF Intact, Kept
<1> QED BY <1>2, <1>3, <1>4

LEMMA HeldIntact == TlsInv /\ Held => SentIntact
<1> SUFFICES ASSUME TlsInv, Held PROVE SentIntact  OBVIOUS
<1>1. ~con.finished \/ Sending(con, given, met)  BY DEF Held, Greeting
<1>2. Intact(con, given, met)  BY <1>1, SendingIntact DEF TlsInv
<1>3. Received = Data(con.out)  BY DEF Received, Data
<1> QED BY <1>2, <1>3 DEF Intact, SentIntact

(* The poll that finds the end of the socket: nothing more is written after  *)
(* the read, and whatever that has written is whole.                         *)
LEMMA EndIntact ==
    ASSUME TlsInv, Held, PollEnd
    PROVE  SentIntact'
<1> DEFINE n == Len(server.in)
           read == Turned(con, n)
<1>1. /\ server.gone /\ con.status \in {"CONNECTING", "BUSY"}
      /\ con' = [ReadFails(read) EXCEPT !.thrown = 0]
      /\ server' = [server EXCEPT !.in = << >>]
      /\ met \subseteq met' /\ given' = given
  BY DEF PollEnd
<1>2. /\ server.in \in Seq(Strings) /\ server \in Servers /\ server.ssl
      /\ n \in Nat /\ n \in 0..n /\ n <= n
      /\ ConInv(con) /\ (~con.handshake_done => con.read_bio = << >>)
      /\ given \in Seq(Secret)
  BY <1>1, LenProperties DEF TlsInv, PlainInv, RestInv, Servers
<1>3. /\ server'.in = << >> /\ server'.gone = server.gone
      /\ server'.seen = server.seen
  BY <1>1, <1>2 DEF Servers
<1>4. ConInv(read)  BY <1>2, TurnedKeeps
<1>5. Intact(read, given, met)
  <2>1. con.handshake_done  BY <1>1 DEF Held, Greeting
  <2>2. CASE con.finished
    <3>1. Sending(read, given, met)
      BY <1>2, <2>1, <2>2, GoingTurned DEF Going
    <3> HIDE DEF read
    <3> QED BY <1>2, <1>4, <3>1, SendingIntact
  <2>3. CASE ~con.finished
    <3>1. Shaking(con, server, given)  BY <2>1, <2>3 DEF Held
    <3>2. /\ con \in Connections /\ con.done = 0 /\ con.read_bio = << >>
          /\ con.write_bio = << >> /\ n <= 1 /\ con.status = "CONNECTING"
      BY <1>1, <1>2, <3>1 DEF ConInv, Shaking
    <3>3. read = ReadData(con, n)
      <4>1. SslRun(con) = DataCheck(con)  BY <3>2 DEF SslRun
      <4>2. SslRun(con) = con /\ OnWrites(con) = con
        BY <1>2, <2>3, <3>2, <4>1, NothingToDo
      <4> QED BY <2>1, <4>2 DEF Turned
    <3>4. CASE server.in = << >>
      <4>1. n = 0  BY <3>4
      <4>2. read = con  BY <3>3, <4>1 DEF ReadData
      <4> QED BY <1>2, <2>3, <4>2, SendingIntact
    <3>5. CASE server.in # << >>
      <4>1. n = 1
        <5>1. n \in Nat \ {0}  BY <1>2, <3>5, EmptySeq
        <5> HIDE DEF n
        <5> QED BY <3>2, <5>1
      <4>2. SubSeq(server.in, 1, n) = server.in /\ << >> \o server.in = server.in
        BY <1>2, SubSeqFull, ConcatEmptySeq
      <4>3. read = Decrypt([con EXCEPT !.read_bio = server.in])
        BY <2>1, <3>2, <3>3, <4>1, <4>2 DEF ReadData
      <4>4. server.gone \in BOOLEAN /\ server.answer \in Nat
            /\ server.seen \in Nat
        BY <1>2 DEF Servers
      <4> HIDE DEF read, n
      <4>5. read.finished =>
              Going([read EXCEPT !.done = 0], << >>, server, given, met)
        BY <1>2, <1>3, <2>1, <2>3, <3>1, <3>2, <3>5, <4>3, <4>4, ShakingRead
      <4>6. CASE ~read.finished  BY <1>2, <1>4, <4>6, SendingIntact
      <4>7. CASE read.finished
        <5> DEFINE x == [read EXCEPT !.done = 0]
        <5>1. ConInv(x) /\ Sending(x, given, met)  BY <4>5, <4>7 DEF Going
        <5>2. x.out = read.out  BY <1>4 DEF ConInv, Connections
        <5> HIDE DEF x
        <5>3. Intact(x, given, met)  BY <1>2, <5>1, SendingIntact
        <5> QED BY <5>2, <5>3 DEF Intact
      <4> QED BY <4>6, <4>7
    <3> QED BY <3>4, <3>5
  <2> QED BY <2>2, <2>3
<1> HIDE DEF read
<1>6. con'.out = read.out  BY <1>1, <1>4 DEF ReadFails, ConInv, Connections
<1>7. Received' = Data(read.out)  BY <1>6 DEF Received, Data
<1> QED BY <1>1, <1>5, <1>7 DEF Intact, SentIntact

LEMMA InitIntact == Init => IntactInv
<1> SUFFICES ASSUME Init PROVE IntactInv  OBVIOUS
<1>1. Len(server.in) <= 1 /\ ~server.gone /\ server.seen = 0
  <2>1. server.in = << "GREETING" >> /\ ~server.gone /\ server.seen = 0
    BY DEF Init
  <2> QED BY <2>1
<1>2. ~con.handshake_done  BY DEF Init
<1>3. Greeting(con, server, given)  BY <1>1 DEF Init, Greeting, Over
<1>4. Held  BY <1>2, <1>3 DEF Held
<1> QED BY <1>4, InitInv, HeldIntact DEF IntactInv

LEMMA IntactStep == ASSUME TlsInv, IntactInv, [Next]_vars PROVE IntactInv'
<1>1. TlsInv' /\ (TlsInv' /\ Held' => SentIntact')
  BY TlsStep, HeldIntact, PTL
<1>2. ASSUME UNCHANGED vars PROVE IntactInv'
  <2>1. UNCHANGED <<con, server, given, met>>  BY <1>2 DEF vars
  <2> QED BY <2>1 DEF IntactInv, Held, SentIntact, Received
<1>3. ASSUME PollEarly PROVE IntactInv'  BY <1>2, <1>3 DEF PollEarly
<1>4. ASSUME Next, con.status # "NET_ERROR" PROVE IntactInv'
  <2>1. Held  BY <1>4 DEF IntactInv
  <2>2. ASSUME NEW n \in 0..Burst, Poll(n) PROVE Held'
    BY <2>1, <2>2, GreetingPoll, ShakingPoll, GoingPoll
  <2>3. CASE PollEnd
    <3>1. con'.status = "NET_ERROR"
      <4>1. con' = [ReadFails(Turned(con, Len(server.in))) EXCEPT !.thrown = 0]
        BY <2>3 DEF PollEnd
      <4>2. con' \in Connections  BY <1>1 DEF TlsInv, ConInv
      <4> QED BY <4>1, <4>2 DEF ReadFails, Connections
    <3> QED BY <2>1, <2>3, <3>1, EndIntact DEF IntactInv
  <2>4. CASE PollEarly  BY <1>3, <2>4
  <2>5. CASE ~PollEnd /\ ~PollEarly
    <3>1. Held'
      BY <1>4, <2>1, <2>2, <2>5, SendIntact, SocketIntact, ServerIntact DEF Next
    <3> QED BY <1>1, <3>1 DEF IntactInv
  <2> QED BY <2>3, <2>4, <2>5
<1>5. ASSUME Next, con.status = "NET_ERROR" PROVE IntactInv'
  <2>1. \/ SocketFull \/ SocketDrains \/ ServerAnswers \/ ServerFails
        \/ PollEarly
    BY <1>5 DEF Next, Poll, PollEnd, Send
  <2>2. CASE PollEarly  BY <1>3, <2>2
  <2>3. CASE SocketFull \/ SocketDrains
    <3>1. con \in Connections  BY DEF TlsInv, ConInv
    <3>2. /\ con'.out = con.out /\ con'.status = con.status
          /\ met \subseteq met' /\ given' = given
      BY <2>3, <3>1 DEF SocketFull, SocketDrains, Connections
    <3> QED BY <1>5, <3>2 DEF IntactInv, SentIntact, Received
  <2>4. CASE ServerAnswers \/ ServerFails
    <3>1. UNCHANGED <<con, given, met>>  BY <2>4, ServerKeeps
    <3> QED BY <1>5, <3>1 DEF IntactInv, SentIntact, Received
  <2> QED BY <2>1, <2>2, <2>3, <2>4
<1> QED BY <1>2, <1>4, <1>5

-----------------------------------------------------------------------------
(* Theorems                                                                  *)

THEOREM TlsInvCorrect == Spec => []TlsInv
BY InitInv, TlsStep, PTL DEF Spec

THEOREM IntactInvCorrect == Spec => [](TlsInv /\ IntactInv)
<1>1. Init => TlsInv /\ IntactInv  BY InitInv, InitIntact
<1>2. TlsInv /\ IntactInv /\ [Next]_vars => (TlsInv /\ IntactInv)'
  BY TlsStep, IntactStep
<1> QED BY <1>1, <1>2, PTL DEF Spec

(* Every message reaches the server whole and in order, although it waits in *)
(* ssl.write_buffer for as long as OpenSSL wants to read first; only where   *)
(* the socket has been full can a message of several chunks be damaged       *)
(* (net.cc:66, net.cc:96).                                                   *)
THEOREM SentIntactCorrect == Spec => []SentIntact
<1>1. IntactInv => SentIntact  BY DEF IntactInv
<1> QED BY <1>1, IntactInvCorrect, PTL

(* Nothing but the greeting passes in the clear: secrets wait in             *)
(* ssl.write_buffer until SSL_write takes them (connect.cc:785, net.cc:131). *)
THEOREM SentEncryptedCorrect == Spec => []SentEncrypted
<1>1. TlsInv => SentEncrypted
  <2> SUFFICES ASSUME TlsInv PROVE SentEncrypted  OBVIOUS
  <2>1. con \in Connections  BY DEF TlsInv, ConInv
  <2>2. TypeOK
    <3>1. /\ con.out \in Seq(Chunks) /\ con.waiting \in Seq(Chunks)
      <4>1. /\ Seq(Written) \subseteq Seq(Chunks)
            /\ Seq(Secret) \subseteq Seq(Chunks)
        BY SeqMonotonic DEF Written, Open, Secret
      <4> QED BY <2>1, <4>1 DEF Connections
    <3>2. ToSet(con.read_bio) \union ToSet(server.in) \subseteq Strings
      <4>1. con.read_bio \in Seq(Strings) /\ server.in \in Seq(Strings)
        BY <2>1 DEF TlsInv, Connections
      <4> QED BY <4>1, LenProperties, ElementOfSeq DEF ToSet
    <3>3. con.end = con.start + Len(con.waiting) /\ con.used = con.end
      BY DEF TlsInv, ConInv
    <3>4. \A f \in {"expected", "handshake_done", "finished", "failed", "closed",
                    "room"} : con[f] \in BOOLEAN
      BY <2>1 DEF Connections
    <3>5. con.status \in {"CONNECTING", "CONNECT_FAILED", "IDLE", "BUSY",
                          "SSL_ERROR", "NET_ERROR"}
      BY <2>1 DEF Connections
    <3> QED BY <3>1, <3>2, <3>3, <3>4, <3>5 DEF TlsInv, TypeOK, Strings
  <2>3. ASSUME NEW i \in DOMAIN con.out
        PROVE  /\ IsData(con.out[i]) => ~con.out[i].clear /\ con.finished
               /\ server.ssl
    <3>1. con.out \in Seq(Written) /\ i \in 1..Len(con.out)
      BY <2>1, LenProperties DEF Connections
    <3>2. con.out[i] \in Written  BY <3>1, ElementOfSeq
    <3>3. ~con.finished => con.out[i] \in Open
      BY <3>1, ElementOfSeq DEF TlsInv, ConInv
    <3>4. server.ssl  BY <3>1, EmptySeq DEF TlsInv, PlainInv
    <3> QED BY <3>2, <3>3, <3>4 DEF Written, Open, Secret
  <2> QED BY <2>2, <2>3 DEF SentEncrypted, CredentialsEncrypted
<1> QED BY <1>1, TlsInvCorrect, PTL

(* No record and no error is lost, unless a read brought several records or  *)
(* the socket was full (net.cc:51, net.cc:121).                              *)
THEOREM AnswersKeptCorrect == Spec => []AnswersKept
<1>1. TlsInv => AnswersKept  BY DEF TlsInv
<1> QED BY <1>1, TlsInvCorrect, PTL
=============================================================================

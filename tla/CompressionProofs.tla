------------------------- MODULE CompressionProofs -------------------------
(***************************************************************************)
(* The safety of Compression, proved for every answer, however the server  *)
(* cuts it, for any number of commands and any width of the packet number. *)
(*                                                                         *)
(* Everywhere and Recursion are induction and recursion over an interval,  *)
(* from a least counterexample.                                            *)
(***************************************************************************)
EXTENDS Compression, SequenceTheorems, WellFoundedInduction, TLAPS

Chunk == [size : Nat \ {0}, large : BOOLEAN]

(* The compressed packets make up the answer, and while the server has not   *)
(* answered there are none.                                                  *)
StreamInv ==
    /\ chunks \in Seq(Chunk)
    /\ answer \in Answers
    /\ available \in Nat
    /\ chunks # << >> => SizeUpTo(chunks)[Len(chunks)] = 2 * answer.packets
    /\ request # "NONE" => /\ chunks = << >>
                           /\ con.expected = "RESPONSE"
                           /\ con.command_status = "SEND"

(* Nothing is opened before it is received, or parsed before it is opened.   *)
ReadInv(c) ==
    /\ c \in Connections
    /\ c.opened <= Len(chunks) /\ 2 * c.opened <= c.received
    /\ c.unpacked = SizeUpTo(chunks)[c.opened]
    /\ 2 * c.parsed <= c.unpacked /\ c.parsed <= answer.packets

(* The numbers count the packets opened until one is refused, and that one   *)
(* is at the head of the buffer from then on.                                *)
NumberInv(c) ==
    /\ c.command_status # "READ_FAILED" =>
           ~c.broken /\ c.compressed_packet_number = c.opened % Base
    /\ c.command_status = "READ_FAILED" =>
           /\ c.expected = "NONE"
           /\ IF c.broken THEN chunks[c.opened + 1].large
                          ELSE NumberByte(c.opened + 1) < 0

(* While a packet is expected there is one; EOF is the end of the answer.    *)
PlaceInv(c) ==
    /\ c.expected # "NONE" \/ c.command_status = "ROW_IN_BUFFER" =>
           c.parsed < answer.packets
    /\ c.command_status = "EOF" =>
           c.expected = "NONE" /\ (chunks # << >> => c.parsed = answer.packets)

ConInv(c) == ReadInv(c) /\ NumberInv(c) /\ PlaceInv(c)

CompressionInv == TypeOK /\ StreamInv /\ ConInv(con)

-----------------------------------------------------------------------------
(* Induction and recursion over an interval                                  *)

(* A set of naturals that is not empty has a least element.                  *)
LEMMA LeastOf ==
    ASSUME NEW T \in SUBSET Nat, T # {}
    PROVE  \E n \in T : \A m \in T : n <= m
<1>1. IsWellFoundedOn(OpToRel(<, Nat), Nat)  BY NatLessThanWellFounded, Zenon
<1>2. PICK n \in T : \A y \in T : ~(<<y, n>> \in OpToRel(<, Nat))
  BY <1>1, WFMin, Zenon
<1>3. \A y \in T : ~(y < n)  BY <1>2 DEF OpToRel
<1> QED BY <1>3

(* What holds at the first place of an interval and is handed on to the next *)
(* place holds everywhere in it.                                             *)
LEMMA Everywhere ==
    ASSUME NEW a \in Int, NEW b \in Int, NEW T \in SUBSET (a..b),
           a <= b => a \in T,
           \A i \in T : i + 1 <= b => i + 1 \in T
    PROVE  T = a..b
<1> DEFINE Missed == {k \in Nat : a + k <= b /\ a + k \notin T}
<1>1. SUFFICES ASSUME Missed # {} PROVE FALSE
  <2> SUFFICES ASSUME NEW i \in a..b, i \notin T PROVE FALSE  OBVIOUS
  <2>1. i - a \in Nat /\ a + (i - a) = i /\ i <= b  OBVIOUS
  <2> QED BY <2>1, <1>1
<1>2. PICK k \in Missed : \A m \in Missed : k <= m
  <2>1. Missed \in SUBSET Nat  OBVIOUS
  <2> HIDE DEF Missed
  <2> QED BY <2>1, <1>1, LeastOf
<1>3. k \in Nat /\ a + k <= b /\ a + k \notin T  BY <1>2
<1>4. k # 0  BY <1>3
<1>5. k - 1 \in Nat /\ ~(k <= k - 1) /\ a + (k - 1) <= b  BY <1>3, <1>4
<1>6. k - 1 \notin Missed  BY <1>2, <1>5
<1>7. a + (k - 1) \in T  BY <1>5, <1>6
<1>8. (a + (k - 1)) + 1 = a + k  BY <1>3
<1> QED BY <1>3, <1>7, <1>8

(* f starts with base, and F gives each value from the one before.           *)
Follows(f, S, a, b, base, F) ==
    /\ f = [i \in a..b |-> IF i = a THEN base ELSE F[i][f[i - 1]]]
    /\ f \in [a..b -> S]

(* A function over an interval may be defined by recursion.                  *)
LEMMA Recursion ==
    ASSUME NEW S, NEW base \in S, NEW a \in Int, NEW b \in Int,
           NEW F \in [a..b -> [S -> S]]
    PROVE  \E f : Follows(f, S, a, b, base, F)
<1> DEFINE Good(n, f) == /\ f \in [a..n -> S]
                         /\ \A i \in a..n :
                                f[i] = IF i = a THEN base ELSE F[i][f[i - 1]]
           T == {n \in a..b : \E f : Good(n, f)}
<1>1. a <= b => a \in T
  <2>1. Good(a, [i \in a..a |-> base])  OBVIOUS
  <2>2. \E f : Good(a, f)  BY <2>1
  <2> HIDE DEF Good
  <2> QED BY <2>2
<1>2. ASSUME NEW m \in T, m + 1 <= b PROVE m + 1 \in T
  <2>1. PICK f : Good(m, f)  BY <1>2
  <2> DEFINE n == m + 1
             v == F[n][f[m]]
             g == [i \in a..n |-> IF i = n THEN v ELSE f[i]]
  <2>2. m \in a..b /\ n \in a..b /\ n # a /\ n - 1 = m /\ m \in a..m  BY <1>2
  <2>3. v \in S  BY <2>1, <2>2
  <2> HIDE DEF v
  <2>4. \A i \in a..n : i # n => i \in a..m  BY <2>2
  <2>5. g \in [a..n -> S]  BY <2>1, <2>3, <2>4
  <2>6. ASSUME NEW i \in a..n
        PROVE  g[i] = IF i = a THEN base ELSE F[i][g[i - 1]]
    <3>1. CASE i = a  BY <3>1, <2>1, <2>2, <2>4
    <3>2. CASE i # a
      <4>1. i - 1 \in a..n /\ i - 1 # n /\ i - 1 \in a..m  BY <3>2, <2>2
      <4>2. g[i - 1] = f[i - 1]  BY <4>1
      <4>3. CASE i = n  BY <4>2, <4>3, <3>2, <2>2 DEF v
      <4>4. CASE i # n  BY <4>2, <4>4, <3>2, <2>1, <2>4
      <4> QED BY <4>3, <4>4
    <3> QED BY <3>1, <3>2
  <2>7. Good(n, g)  BY <2>5, <2>6
  <2> QED BY <2>7, <2>2
<1>3. T = a..b
  <2>1. T \in SUBSET (a..b)  OBVIOUS
  <2> HIDE DEF T
  <2> QED BY <1>1, <1>2, <2>1, Everywhere
<1>4. PICK f : Good(b, f)
  <2>1. CASE a <= b  BY <2>1, <1>3
  <2>2. CASE ~(a <= b)
    <3>1. Good(b, [i \in a..b |-> base])  BY <2>2
    <3> QED BY <3>1
  <2> QED BY <2>1, <2>2
<1>5. f = [i \in a..b |-> IF i = a THEN base ELSE F[i][f[i - 1]]]  BY <1>4
<1> QED BY <1>4, <1>5 DEF Follows

-----------------------------------------------------------------------------
(* Numbers                                                                   *)

(* A multiple that is not zero is at least one step away.                    *)
LEMMA Multiple ==
    ASSUME NEW b \in Nat, NEW k \in Int
    PROVE  (k >= 1 => b * k >= b) /\ (k <= -1 => b * k <= -b)
OBVIOUS

LEMMA OneRemainder ==
    ASSUME NEW b \in Nat, NEW q \in Int, NEW r \in 0..(b - 1),
           NEW u \in Int, NEW v \in 0..(b - 1), b * q + r = b * u + v
    PROVE  r = v
<1>1. b * (q - u) = v - r  OBVIOUS
<1>2. CASE q - u >= 1
  <2>1. b * (q - u) >= b  BY <1>2, Multiple
  <2> QED BY <2>1, <1>1
<1>3. CASE q - u <= -1
  <2>1. b * (q - u) <= -b  BY <1>3, Multiple
  <2> QED BY <2>1, <1>1
<1>4. CASE q = u  BY <1>4, <1>1
<1> QED BY <1>2, <1>3, <1>4

LEMMA Divided ==
    ASSUME NEW n \in Nat, NEW b \in Nat, b > 0
    PROVE  n = b * (n \div b) + (n % b) /\ n % b \in 0..(b - 1) /\ n \div b \in Nat
OBVIOUS

(* A number of some width counts on like one without.                        *)
LEMMA CountsOn ==
    ASSUME NEW n \in Nat, NEW b \in Nat, b > 0
    PROVE  ((n % b) + 1) % b = (n + 1) % b
<1> DEFINE q == n \div b
           r == n % b
           u == (n + 1) \div b
           v == (n + 1) % b
           w == r + 1
<1>1. n = b * q + r /\ r \in 0..(b - 1) /\ q \in Nat  BY Divided
<1>2. n + 1 = b * u + v /\ v \in 0..(b - 1) /\ u \in Nat
  <2>1. n + 1 \in Nat  OBVIOUS
  <2> QED BY <2>1, Divided
<1>3. w \in Nat /\ w = b * (w \div b) + (w % b) /\ w % b \in 0..(b - 1) /\ w \div b \in Nat
  <2>1. w \in Nat  BY <1>1
  <2> HIDE DEF w
  <2> QED BY <2>1, Divided
<1>4. CASE w < b
  <2>1. v = w
    <3>1. b * q + w = b * u + v /\ w \in 0..(b - 1)  BY <1>1, <1>2, <1>4
    <3> HIDE DEF q, r, u, v, w
    <3> QED BY <3>1, <1>1, <1>2, OneRemainder
  <2>2. w % b = w
    <3> DEFINE x == w \div b
               y == w % b
    <3>1. b * x + y = b * 0 + w /\ w \in 0..(b - 1)
      <4>1. b * 0 = 0  OBVIOUS
      <4> QED BY <4>1, <1>3, <1>4
    <3>2. x \in Int /\ y \in 0..(b - 1) /\ 0 \in Int  BY <1>3
    <3> HIDE DEF x, y, w
    <3>3. y = w  BY <3>1, <3>2, OneRemainder
    <3> QED BY <3>3 DEF y
  <2> QED BY <2>1, <2>2
<1>5. CASE ~(w < b)
  <2>1. w = b  BY <1>1, <1>5
  <2>2. v = 0
    <3> DEFINE p == q + 1
               o == 0
    <3>1. b * p + o = b * u + v /\ o \in 0..(b - 1) /\ p \in Int
      <4>1. b * (q + 1) = b * q + b  BY <1>1
      <4> QED BY <4>1, <2>1, <1>1, <1>2
    <3> HIDE DEF q, r, u, v, w, p, o
    <3>3. b * p + o = b * u + v  BY <3>1
    <3>4. p \in Int /\ u \in Int /\ o \in 0..(b - 1) /\ v \in 0..(b - 1)
      BY <3>1, <1>2
    <3>2. o = v  BY <3>3, <3>4, OneRemainder
    <3> QED BY <3>2 DEF o
  <2>3. w % b = 0
    <3> DEFINE x == w \div b
               y == w % b
    <3>1. b * x + y = b * 1 + 0 /\ 0 \in 0..(b - 1)
      <4>1. b * 1 = b  OBVIOUS
      <4> QED BY <4>1, <1>3, <2>1
    <3>2. x \in Int /\ y \in 0..(b - 1) /\ 1 \in Int  BY <1>3
    <3> HIDE DEF x, y, w
    <3>3. y = 0  BY <3>1, <3>2, OneRemainder
    <3> QED BY <3>3 DEF y
  <2> QED BY <2>2, <2>3
<1> QED BY <1>4, <1>5

(* The char of a packet's number is the number, or negative.                 *)
LEMMA NumberAsChar ==
    ASSUME NEW n \in Nat
    PROVE  /\ n % Base \in 0..(Base - 1)
           /\ NumberByte(n) # n % Base => NumberByte(n) < 0
           /\ NumberByte(n) < 0 => n >= Base \div 2
<1>1. Base \in Nat /\ Base > 2 /\ Base \div 2 \in Nat /\ Base \div 2 < Base
  BY CompressionAssumption
<1>2. n % Base \in 0..(Base - 1) /\ n = Base * (n \div Base) + (n % Base)
      /\ n \div Base \in Nat
  BY <1>1, Divided
<1>3. NumberByte(n) # n % Base => NumberByte(n) < 0
  BY <1>1, <1>2 DEF NumberByte
<1>4. NumberByte(n) < 0 => n % Base >= Base \div 2
  BY <1>1, <1>2 DEF NumberByte
<1>5. n % Base <= n
  <2> DEFINE m == Base * (n \div Base)
  <2>1. m >= 0 /\ m \in Int  BY <1>1, <1>2
  <2> HIDE DEF m
  <2>2. n = m + (n % Base)  BY <1>2 DEF m
  <2> QED BY <2>1, <2>2, <1>2
<1> QED BY <1>1, <1>2, <1>3, <1>4, <1>5

-----------------------------------------------------------------------------
(* Sizes of compressed packets                                               *)

LEMMA SizesAdd ==
    ASSUME NEW s \in Seq(Chunk)
    PROVE  /\ SizeUpTo(s)[0] = 0
           /\ \A i \in 0..Len(s) : SizeUpTo(s)[i] \in Nat
           /\ \A i \in 1..Len(s) : SizeUpTo(s)[i] = SizeUpTo(s)[i - 1] + s[i].size
<1> DEFINE n == Len(s)
           G(i, z) == z + s[i].size
           F == [i \in 0..n |-> [z \in Nat |-> IF i = 0 THEN 0 ELSE G(i, z)]]
           T == {i \in 0..n : SizeUpTo(s)[i] \in Nat}
<1>1. n \in Nat /\ n \in Int /\ 0 \in Int /\ 0 \in Nat  OBVIOUS
<1>2. \A i \in 1..n, z \in Nat : G(i, z) \in Nat
  <2> SUFFICES ASSUME NEW i \in 1..n, NEW z \in Nat PROVE G(i, z) \in Nat  OBVIOUS
  <2>1. s[i] \in Chunk  OBVIOUS
  <2> QED BY <2>1 DEF Chunk
<1> HIDE DEF G
<1>3. F \in [0..n -> [Nat -> Nat]]
  <2>1. \A i \in 0..n : i # 0 => i \in 1..n  BY <1>1
  <2> QED BY <2>1, <1>2
<1>4. PICK f : Follows(f, Nat, 0, n, 0, F)
  <2> HIDE DEF F, n
  <2> QED BY <1>1, <1>3, Recursion, Zenon
<1>5. \A i \in 0..n : i # 0 => F[i][f[i - 1]] = G(i, f[i - 1])
  <2> SUFFICES ASSUME NEW i \in 0..n, i # 0
               PROVE  F[i][f[i - 1]] = G(i, f[i - 1])  OBVIOUS
  <2>1. i - 1 \in 0..n  BY <1>1
  <2>2. f[i - 1] \in Nat  BY <1>4, <2>1 DEF Follows
  <2> QED BY <2>2
<1> HIDE DEF F
<1>6. f = [i \in 0..n |-> IF i = 0 THEN 0 ELSE G(i, f[i - 1])]
  BY <1>4, <1>5 DEF Follows
<1>7. SizeUpTo(s) = CHOOSE upto : upto = [i \in 0..n |-> IF i = 0 THEN 0
                                                       ELSE G(i, upto[i - 1])]
  BY DEF SizeUpTo, G
<1> HIDE DEF n
<1>8. SizeUpTo(s) = [i \in 0..n |-> IF i = 0 THEN 0 ELSE G(i, SizeUpTo(s)[i - 1])]
  BY <1>6, <1>7, Zenon
<1>9. 0 \in T  BY <1>1, <1>8
<1>10. ASSUME NEW i \in T, i + 1 <= n PROVE i + 1 \in T
  <2>1. i + 1 \in 0..n /\ i + 1 \in 1..n /\ i + 1 # 0 /\ (i + 1) - 1 = i
    BY <1>10, <1>1
  <2>2. SizeUpTo(s)[i + 1] = G(i + 1, SizeUpTo(s)[i])  BY <2>1, <1>8
  <2> QED BY <2>1, <2>2, <1>2, <1>10
<1>11. T = 0..n
  <2>1. T \in SUBSET (0..n)  OBVIOUS
  <2> HIDE DEF T
  <2> QED BY <1>1, <1>9, <1>10, <2>1, Everywhere
<1>12. \A i \in 1..n : SizeUpTo(s)[i] = G(i, SizeUpTo(s)[i - 1])
  <2>1. \A i \in 1..n : i \in 0..n /\ i # 0  BY <1>1
  <2> QED BY <2>1, <1>8
<1>13. SizeUpTo(s)[0] = 0  BY <1>1, <1>8
<1> QED BY <1>11, <1>12, <1>13 DEF n, G

(* Every compressed packet holds something.                                  *)
LEMMA SizesIncrease ==
    ASSUME NEW s \in Seq(Chunk), NEW i \in 0..(Len(s) - 1)
    PROVE  SizeUpTo(s)[i] < SizeUpTo(s)[Len(s)]
<1> DEFINE n == Len(s)
           z == SizeUpTo(s)
           T == {j \in (i + 1)..n : z[i] < z[j]}
<1>1. n \in Nat /\ i \in Nat /\ i + 1 <= n  OBVIOUS
<1>2. \A j \in 1..n : /\ z[j - 1] \in Nat /\ z[j] \in Nat
                      /\ z[j] > z[j - 1]
  <2> SUFFICES ASSUME NEW j \in 1..n
               PROVE  z[j - 1] \in Nat /\ z[j] \in Nat /\ z[j] > z[j - 1]  OBVIOUS
  <2>1. j \in 0..n /\ j - 1 \in 0..n  BY <1>1
  <2>2. z[j - 1] \in Nat /\ z[j] \in Nat /\ z[j] = z[j - 1] + s[j].size
    BY <2>1, SizesAdd
  <2>3. s[j] \in Chunk  OBVIOUS
  <2>4. s[j].size \in Nat \ {0}  BY <2>3 DEF Chunk
  <2> HIDE DEF z
  <2> QED BY <2>2, <2>4
<1> HIDE DEF z, n
<1>3. T = (i + 1)..n
  <2>1. T \in SUBSET ((i + 1)..n)  OBVIOUS
  <2>2. i + 1 \in T
    <3>1. i + 1 \in 1..n /\ (i + 1) - 1 = i /\ i + 1 \in (i + 1)..n  BY <1>1
    <3> QED BY <3>1, <1>2
  <2>3. ASSUME NEW j \in T, j + 1 <= n PROVE j + 1 \in T
    <3>1. /\ j \in 1..n /\ j + 1 \in 1..n /\ (j + 1) - 1 = j /\ i + 1 \in 1..n
          /\ (i + 1) - 1 = i /\ j + 1 \in (i + 1)..n
      BY <2>3, <1>1
    <3>2. z[i] \in Nat /\ z[j] \in Nat /\ z[j + 1] \in Nat /\ z[j] < z[j + 1] /\ z[i] < z[j]
      BY <3>1, <1>2, <2>3
    <3> QED BY <3>1, <3>2
  <2>4. i + 1 \in Int /\ n \in Int  BY <1>1
  <2> HIDE DEF T
  <2> QED BY <2>1, <2>2, <2>3, <2>4, Everywhere
<1>4. n \in T  BY <1>1, <1>3
<1> QED BY <1>4 DEF n, z

-----------------------------------------------------------------------------
(* Opening and parsing                                                       *)

(* If as much was unpacked as the answer has, every compressed packet was    *)
(* opened.                                                                   *)
LEMMA Unpacked ==
    ASSUME StreamInv, NEW c, ReadInv(c)
    PROVE  /\ c.opened \in 0..Len(chunks) /\ Len(chunks) \in Nat /\ c.unpacked \in Nat
           /\ answer.packets \in Nat /\ answer.head \in Nat
           /\ answer.head >= 1 /\ answer.head <= answer.packets
           /\ chunks = << >> => c.opened = 0 /\ c.unpacked = 0
           /\ chunks # << >> /\ c.unpacked >= 2 * answer.packets =>
                  /\ c.opened = Len(chunks)
                  /\ c.unpacked = 2 * answer.packets
<1>1. chunks \in Seq(Chunk) /\ Len(chunks) \in Nat  BY DEF StreamInv
<1>2. c \in Connections /\ c.opened <= Len(chunks)
      /\ c.unpacked = SizeUpTo(chunks)[c.opened]
  BY DEF ReadInv
<1>3. c.opened \in Nat /\ c.unpacked \in Nat  BY <1>2 DEF Connections
<1>4. c.opened \in 0..Len(chunks)  BY <1>1, <1>2, <1>3
<1>5. /\ answer.packets \in Nat /\ answer.head \in Nat
      /\ answer.head >= 1 /\ answer.head <= answer.packets
  BY CompressionAssumption DEF StreamInv, Answers
<1>6. ASSUME chunks = << >> PROVE c.opened = 0 /\ c.unpacked = 0
  <2>1. c.opened = 0  BY <1>2, <1>3, <1>6
  <2> QED BY <2>1, <1>1, <1>2, SizesAdd
<1>7. ASSUME chunks # << >>, c.unpacked >= 2 * answer.packets
      PROVE  c.opened = Len(chunks) /\ c.unpacked = 2 * answer.packets
  <2> DEFINE total == SizeUpTo(chunks)[Len(chunks)]
  <2>1. total = 2 * answer.packets  BY <1>7 DEF StreamInv
  <2>2. ~(c.unpacked < total)  BY <2>1, <1>3, <1>5, <1>7
  <2>3. c.opened \in 0..(Len(chunks) - 1) => c.unpacked < total
    BY <1>1, <1>2, SizesIncrease
  <2>4. c.opened = Len(chunks)  BY <2>2, <2>3, <1>1, <1>4
  <2> QED BY <2>1, <2>4, <1>2
<1> QED BY <1>1, <1>3, <1>4, <1>5, <1>6, <1>7

(* A packet is refused for good: its number stays negative.                  *)
LEMMA Refused ==
    ASSUME NEW c, ReadInv(c), NumberInv(c), ~c.broken,
           (c.compressed_packet_number + 1) % Base # NumberByte(c.opened + 1)
    PROVE  NumberByte(c.opened + 1) < 0
<1>1. c.opened \in Nat /\ c.opened + 1 \in Nat  BY DEF ReadInv, Connections
<1>2. Base \in Nat /\ Base > 0  BY CompressionAssumption
<1>3. CASE c.command_status = "READ_FAILED"  BY <1>3 DEF NumberInv
<1>4. CASE c.command_status # "READ_FAILED"
  <2>1. c.compressed_packet_number = c.opened % Base  BY <1>4 DEF NumberInv
  <2>2. (c.compressed_packet_number + 1) % Base = (c.opened + 1) % Base
    BY <2>1, <1>1, <1>2, CountsOn
  <2>3. NumberByte(c.opened + 1) # (c.opened + 1) % Base  BY <2>2
  <2> QED BY <2>3, <1>1, NumberAsChar
<1> QED BY <1>3, <1>4

(* attachsql_con_decompress_read_buffer opens the next packet or refuses it. *)
LEMMA DecompressKeeps ==
    ASSUME StreamInv, NEW c, ConInv(c)
    PROVE  ConInv(Decompress(c)) /\ Decompress(c).received = c.received
<1> DEFINE number == (c.compressed_packet_number + 1) % Base
           d == [c EXCEPT !.compressed_packet_number = number]
           head == c.opened + 1
<1>1. c \in Connections  BY DEF ConInv, ReadInv
<1>2. number \in 0..(Base - 1)
  <2>1. c.compressed_packet_number + 1 \in Nat  BY <1>1 DEF Connections
  <2> QED BY <2>1, NumberAsChar
<1>3. CASE ~Whole(c) \/ c.broken
  <2>1. Decompress(c) = c  BY <1>3 DEF Decompress
  <2> QED BY <2>1
<1>4. CASE ~(~Whole(c) \/ c.broken) /\ number # NumberByte(head)
  <2> DEFINE e == Failed(d)
  <2>1. Decompress(c) = e  BY <1>4 DEF Decompress
  <2>2. /\ e \in Connections /\ e.expected = "NONE" /\ e.command_status = "READ_FAILED"
        /\ e.opened = c.opened /\ e.received = c.received /\ e.unpacked = c.unpacked
        /\ e.parsed = c.parsed
    BY <1>1, <1>2 DEF Failed, Connections
  <2>3. e.broken = c.broken  BY <1>1 DEF Failed, Connections
  <2> HIDE DEF e
  <2>4. ReadInv(e)  BY <2>2 DEF ConInv, ReadInv
  <2>5. NumberByte(head) < 0  BY <1>4, Refused DEF ConInv
  <2>6. NumberInv(e)
    <3>1. ~e.broken  BY <2>3, <1>4
    <3> QED BY <2>2, <2>5, <3>1 DEF NumberInv
  <2>7. PlaceInv(e)  BY <2>2 DEF PlaceInv
  <2> QED BY <2>1, <2>2, <2>4, <2>6, <2>7 DEF ConInv
<1>5. CASE ~(~Whole(c) \/ c.broken) /\ number = NumberByte(head) /\ chunks[head].large
  <2> DEFINE e == Failed([d EXCEPT !.broken = TRUE])
  <2>1. Decompress(c) = e  BY <1>5 DEF Decompress
  <2>2. /\ e \in Connections /\ e.expected = "NONE" /\ e.command_status = "READ_FAILED"
        /\ e.opened = c.opened /\ e.received = c.received /\ e.unpacked = c.unpacked
        /\ e.parsed = c.parsed
    BY <1>1, <1>2 DEF Failed, Connections
  <2>3. e.broken  BY <1>1 DEF Failed, Connections
  <2> HIDE DEF e
  <2>4. ReadInv(e)  BY <2>2 DEF ConInv, ReadInv
  <2>5. chunks[e.opened + 1].large  BY <2>2, <1>5
  <2>6. NumberInv(e)  BY <2>2, <2>3, <2>5, Zenon DEF NumberInv
  <2>7. PlaceInv(e)  BY <2>2 DEF PlaceInv
  <2> QED BY <2>1, <2>2, <2>4, <2>6, <2>7 DEF ConInv
<1>6. CASE ~(~Whole(c) \/ c.broken) /\ number = NumberByte(head) /\ ~chunks[head].large
  <2> DEFINE e == [d EXCEPT !.opened = @ + 1, !.unpacked = @ + chunks[head].size]
  <2>1. Decompress(c) = e  BY <1>6 DEF Decompress
  <2>2. Whole(c) /\ c.opened < Len(chunks) /\ c.received >= 2 * head
    BY <1>6 DEF Whole
  <2>3. /\ head \in Nat /\ head \in 1..Len(chunks) /\ c.opened \in Nat
        /\ head - 1 = c.opened
    BY <2>2, <1>1 DEF StreamInv, Connections
  <2>4. SizeUpTo(chunks)[head] = c.unpacked + chunks[head].size
        /\ chunks[head].size \in Nat
    <3>1. chunks \in Seq(Chunk) /\ chunks[head] \in Chunk  BY <2>3 DEF StreamInv
    <3>2. c.unpacked = SizeUpTo(chunks)[head - 1]  BY <2>3 DEF ConInv, ReadInv
    <3>3. chunks[head].size \in Nat  BY <3>1 DEF Chunk
    <3> HIDE DEF head
    <3> QED BY <3>1, <3>2, <3>3, <2>3, SizesAdd
  <2>5. /\ e \in Connections /\ e.expected = c.expected
        /\ e.command_status = c.command_status
        /\ e.opened = head /\ e.received = c.received
        /\ e.unpacked = c.unpacked + chunks[head].size
        /\ e.parsed = c.parsed /\ e.compressed_packet_number = number
    <3> DEFINE u == c.unpacked + chunks[head].size
               o == head
    <3>1. u \in Nat /\ o \in Nat  BY <1>1, <2>3, <2>4 DEF Connections
    <3>2. e = [c EXCEPT !.compressed_packet_number = number, !.opened = o,
                        !.unpacked = u]
      BY <1>1 DEF Connections
    <3> HIDE DEF u, o, e, number
    <3>3. /\ e \in Connections /\ e.expected = c.expected
          /\ e.command_status = c.command_status
          /\ e.opened = o /\ e.received = c.received /\ e.unpacked = u
          /\ e.parsed = c.parsed /\ e.compressed_packet_number = number
      BY <1>1, <1>2, <3>1, <3>2 DEF Connections
    <3> QED BY <3>3 DEF u, o
  <2>6. e.broken = c.broken  BY <1>1 DEF Connections
  <2> HIDE DEF e, d
  <2>7. ReadInv(e)
    <3>1. /\ c.received \in Nat /\ c.parsed \in Nat /\ c.unpacked \in Nat
          /\ 2 * c.parsed <= c.unpacked /\ c.parsed <= answer.packets
      BY <1>1 DEF ConInv, ReadInv, Connections
    <3>2. head <= Len(chunks) /\ 2 * head <= c.received  BY <2>2, <2>3, <3>1
    <3>3. 2 * c.parsed <= c.unpacked + chunks[head].size  BY <3>1, <2>4
    <3> HIDE DEF head
    <3> QED BY <2>4, <2>5, <3>1, <3>2, <3>3 DEF ReadInv
  <2>8. NumberInv(e)
    <3>1. number >= 0 /\ number \in Int  BY <1>2
    <3>2. ~(NumberByte(head) < 0)  BY <3>1, <1>6
    <3>3. c.command_status # "READ_FAILED"  BY <3>2, <1>6 DEF ConInv, NumberInv
    <3>4. c.compressed_packet_number = c.opened % Base
      BY <3>3 DEF ConInv, NumberInv
    <3>5. number = head % Base
      <4>1. Base \in Nat /\ Base > 0  BY CompressionAssumption
      <4> QED BY <4>1, <3>4, <2>3, CountsOn
    <3>6. ~e.broken  BY <2>6, <1>6
    <3> HIDE DEF head, number
    <3>7. e.compressed_packet_number = e.opened % Base  BY <2>5, <3>5
    <3> QED BY <2>5, <3>3, <3>6, <3>7, Zenon DEF NumberInv
  <2>9. PlaceInv(e)  BY <2>5 DEF ConInv, PlaceInv
  <2> QED BY <2>1, <2>5, <2>7, <2>8, <2>9 DEF ConInv
<1> QED BY <1>3, <1>4, <1>5, <1>6

(* attachsql_con_process_packets reads no packet that was not unpacked.      *)
LEMMA ReadPacketsKeeps ==
    ASSUME StreamInv, NEW c, ConInv(c)
    PROVE  ConInv(ReadPackets(c)) /\ ReadPackets(c).received = c.received
<1> DEFINE packets == answer.packets
           half == c.unpacked \div 2
<1>1. c \in Connections /\ ReadInv(c) /\ NumberInv(c) /\ PlaceInv(c)
  BY DEF ConInv, ReadInv
<1>2. /\ packets \in Nat /\ answer.head \in Nat
      /\ answer.head >= 1 /\ answer.head <= packets /\ c.unpacked \in Nat
  BY <1>1, Unpacked
<1>3. /\ c.parsed \in Nat /\ 2 * c.parsed <= c.unpacked /\ c.parsed <= packets
      /\ half \in Nat /\ 2 * half <= c.unpacked
  BY <1>1, <1>2 DEF ReadInv, Connections
<1>4. CASE c.expected = "NONE"
  <2>1. ReadPackets(c) = c  BY <1>4 DEF ReadPackets
  <2> QED BY <2>1
<1>5. ASSUME c.expected # "NONE"
      PROVE  /\ c.parsed < packets /\ c.command_status # "READ_FAILED"
             /\ c.command_status # "EOF"
             /\ Stop(c) \in Nat /\ Stop(c) > c.parsed /\ Stop(c) <= packets
  <2>1. c.parsed < packets /\ c.command_status # "READ_FAILED"
        /\ c.command_status # "EOF"
    BY <1>1, <1>5 DEF NumberInv, PlaceInv
  <2> QED BY <2>1, <1>2, <1>3 DEF Stop
<1>6. CASE c.expected # "NONE" /\ c.unpacked < 2 * Stop(c)
  <2> DEFINE parsed == IF c.parsed < half THEN half ELSE c.parsed
             e == [c EXCEPT !.parsed = parsed]
  <2>1. ReadPackets(c) = e  BY <1>6 DEF ReadPackets
  <2>2. parsed \in Nat /\ 2 * parsed <= c.unpacked  BY <1>3
  <2>3. parsed < packets
    <3>1. half < Stop(c)  BY <1>2, <1>3, <1>5, <1>6
    <3> QED BY <3>1, <1>2, <1>3, <1>5, <1>6
  <2> HIDE DEF parsed
  <2>4. /\ e \in Connections /\ e.expected = c.expected
        /\ e.command_status = c.command_status
        /\ e.opened = c.opened /\ e.received = c.received /\ e.unpacked = c.unpacked
        /\ e.parsed = parsed /\ e.compressed_packet_number = c.compressed_packet_number
    BY <1>1, <2>2 DEF Connections
  <2>5. e.broken = c.broken  BY <1>1 DEF Connections
  <2> HIDE DEF e
  <2>6. ReadInv(e)
    <3>1. parsed <= packets  BY <2>2, <2>3, <1>2
    <3> QED BY <1>1, <2>2, <2>4, <3>1 DEF ReadInv
  <2>7. NumberInv(e)  BY <1>1, <2>4, <2>5, Zenon DEF NumberInv
  <2>8. PlaceInv(e)  BY <1>5, <1>6, <2>3, <2>4 DEF PlaceInv
  <2> QED BY <2>1, <2>4, <2>6, <2>7, <2>8 DEF ConInv
<1>7. CASE c.expected # "NONE" /\ ~(c.unpacked < 2 * Stop(c))
  <2> DEFINE told == IF Stop(c) = packets THEN "EOF" ELSE "ROW_IN_BUFFER"
             e == [c EXCEPT !.parsed = Stop(c), !.expected = "NONE", !.status = "IDLE",
                            !.command_status = told]
  <2>1. ReadPackets(c) = e  BY <1>7 DEF ReadPackets
  <2>2. Stop(c) \in Nat /\ 2 * Stop(c) <= c.unpacked /\ Stop(c) <= packets
    BY <1>2, <1>5, <1>7
  <2>3. told \in {"EOF", "ROW_IN_BUFFER"}
        /\ (told = "EOF" => Stop(c) = packets) /\ (told = "ROW_IN_BUFFER" => Stop(c) # packets)
    OBVIOUS
  <2> HIDE DEF told
  <2>4. /\ e \in Connections /\ e.expected = "NONE" /\ e.command_status = told
        /\ e.opened = c.opened /\ e.received = c.received /\ e.unpacked = c.unpacked
        /\ e.parsed = Stop(c) /\ e.compressed_packet_number = c.compressed_packet_number
    BY <1>1, <2>2, <2>3 DEF Connections
  <2>5. e.broken = c.broken  BY <1>1 DEF Connections
  <2> HIDE DEF e
  <2>6. ReadInv(e)  BY <1>1, <2>2, <2>4 DEF ReadInv
  <2>7. NumberInv(e)
    <3>1. e.command_status # "READ_FAILED" /\ c.command_status # "READ_FAILED"
      BY <2>3, <2>4, <1>5, <1>7
    <3> QED BY <3>1, <1>1, <2>4, <2>5, Zenon DEF NumberInv
  <2>8. PlaceInv(e)
    <3>1. told = "ROW_IN_BUFFER" => Stop(c) < packets  BY <2>2, <2>3, <1>2
    <3> QED BY <2>3, <2>4, <3>1 DEF PlaceInv
  <2> QED BY <2>1, <2>4, <2>6, <2>7, <2>8 DEF ConInv
<1> QED BY <1>4, <1>6, <1>7

LEMMA ProcessKeeps ==
    ASSUME StreamInv, NEW c, ConInv(c)
    PROVE  ConInv(Process(c)) /\ Process(c).received = c.received
<1> DEFINE d == Decompress(c)
<1>1. ConInv(d) /\ d.received = c.received  BY DecompressKeeps
<1> HIDE DEF d
<1>2. ConInv(ReadPackets(d)) /\ ReadPackets(d).received = d.received
  BY <1>1, ReadPacketsKeeps
<1> QED BY <1>1, <1>2 DEF Process, d

(* Before the server answers there is nothing to read.                       *)
LEMMA ProcessNothing ==
    ASSUME StreamInv, NEW c, ConInv(c), chunks = << >>
    PROVE  /\ Process(c).expected = c.expected
           /\ Process(c).command_status = c.command_status
<1>1. c \in Connections /\ ReadInv(c)  BY DEF ConInv, ReadInv
<1>2. c.opened = 0 /\ c.unpacked = 0 /\ answer.head \in Nat /\ answer.head >= 1
  BY <1>1, Unpacked
<1>3. ~Whole(c)  BY <1>2 DEF Whole
<1>4. Process(c) = ReadPackets(c)  BY <1>3 DEF Process, Decompress
<1>5. c.parsed \in Nat  BY <1>1 DEF Connections
<1>6. c.unpacked < 2 * Stop(c)  BY <1>2, <1>5 DEF Stop
<1> QED BY <1>1, <1>4, <1>6 DEF ReadPackets, Connections

-----------------------------------------------------------------------------
(* The steps                                                                 *)

(* At the end of an answer nothing of it is anywhere.                        *)
LEMMA EndReached ==
    ASSUME CompressionInv, con.command_status = "EOF"
    PROVE  /\ available = 0
           /\ chunks # << >> => /\ con.opened = Len(chunks)
                                /\ con.received = 2 * Len(chunks)
                                /\ con.unpacked = 2 * con.parsed
<1>1. ReadInv(con) /\ PlaceInv(con) /\ StreamInv  BY DEF CompressionInv, ConInv
<1>2. /\ con.received \in Nat /\ con.parsed \in Nat /\ available \in Nat
      /\ con.received + available <= 2 * Len(chunks)
      /\ 2 * con.parsed <= con.unpacked /\ 2 * con.opened <= con.received
  BY <1>1 DEF CompressionInv, TypeOK, StreamInv, ReadInv, Connections
<1>3. Len(chunks) \in Nat /\ con.unpacked \in Nat /\ answer.packets \in Nat
  BY <1>1, Unpacked
<1>4. CASE chunks = << >>
  <2>1. Len(chunks) = 0  BY <1>4
  <2> QED BY <2>1, <1>2, <1>4
<1>5. CASE chunks # << >>
  <2>1. con.parsed = answer.packets
    BY <1>1, <1>5 DEF PlaceInv
  <2>2. con.unpacked >= 2 * answer.packets  BY <2>1, <1>2
  <2>3. con.opened = Len(chunks) /\ con.unpacked = 2 * answer.packets
    BY <1>1, <1>5, <2>2, Unpacked
  <2> QED BY <2>1, <2>3, <1>2, <1>3
<1> QED BY <1>4, <1>5

(* A command, sent or lost, starts all counts again.                         *)
LEMMA SentKeeps ==
    ASSUME CompressionInv, con.command_status = "EOF",
           con' = Sent(con), chunks' = << >>, UNCHANGED <<answer, available>>,
           request' \in Commands \union {"LOST"}, writes' \in BOOLEAN, ret' = "true"
    PROVE  CompressionInv'
<1>1. con \in Connections /\ StreamInv  BY DEF CompressionInv, TypeOK
<1>2. available' = 0  BY EndReached
<1>3. /\ con' \in Connections /\ con'.compressed_packet_number = 0
      /\ con'.received = 0 /\ con'.opened = 0 /\ con'.unpacked = 0 /\ con'.parsed = 0
      /\ con'.expected = "RESPONSE" /\ con'.command_status = "SEND"
  <2>1. 0 \in 0..(Base - 1)  BY CompressionAssumption
  <2> QED BY <1>1, <2>1 DEF Sent, Connections
<1>4. << >> \in Seq(Chunk) /\ Len(chunks') = 0  OBVIOUS
<1>5. SizeUpTo(chunks')[0] = 0  BY <1>4, SizesAdd
<1>6. answer.packets \in Nat /\ answer.packets >= 1
  BY <1>1, CompressionAssumption DEF StreamInv, Answers
<1>7. ~con'.broken
  <2>1. con.command_status # "READ_FAILED"  OBVIOUS
  <2>2. ~con.broken  BY <2>1 DEF CompressionInv, ConInv, NumberInv
  <2>3. con'.broken = con.broken  BY <1>1 DEF Sent, Connections
  <2> QED BY <2>2, <2>3
<1>8. TypeOK'  BY <1>2, <1>3, <1>4, <1>6 DEF CompressionInv, TypeOK
<1>9. StreamInv'  BY <1>1, <1>2, <1>3, <1>4 DEF StreamInv, Answers
<1>10. ReadInv(con)'  BY <1>3, <1>4, <1>5, <1>6 DEF ReadInv
<1>11. NumberInv(con)'
  <2>1. 0 % Base = 0  BY CompressionAssumption
  <2>2. con'.command_status # "READ_FAILED"  BY <1>3
  <2>3. con'.compressed_packet_number = con'.opened % Base  BY <1>3, <2>1
  <2> QED BY <2>2, <2>3, <1>7, Zenon DEF NumberInv
<1>12. PlaceInv(con)'  BY <1>3, <1>6 DEF PlaceInv
<1> QED BY <1>8, <1>9, <1>10, <1>11, <1>12 DEF CompressionInv, ConInv

LEMMA SendStep ==
    ASSUME CompressionInv, NEW command \in Commands, Send(command) PROVE CompressionInv'
<1>1. /\ con.command_status = "EOF" /\ con' = Sent(con) /\ chunks' = << >>
      /\ UNCHANGED <<answer, available>> /\ request' \in Commands \union {"LOST"}
      /\ writes' \in BOOLEAN /\ ret' = "true"
  BY DEF Send
<1> QED BY <1>1, SentKeeps

LEMMA SendFailsStep ==
    ASSUME CompressionInv, NEW command \in Commands, SendFails(command)
    PROVE  CompressionInv'
<1>1. /\ con.command_status = "EOF" /\ con' = Sent(con) /\ chunks' = << >>
      /\ UNCHANGED <<answer, available>> /\ request' \in Commands \union {"LOST"}
      /\ writes' \in BOOLEAN /\ ret' = "true"
  BY DEF SendFails, CompressionInv, TypeOK
<1> QED BY <1>1, SentKeeps

(* The stream that the server sends is the answer, cut.                      *)
LEMMA CutsAreChunks ==
    ASSUME NEW n \in Nat, NEW s \in Cuts(n)
    PROVE  s \in Seq(Chunk) /\ SizeUpTo(s)[Len(s)] = n
<1>1. PICK m \in 1..MaxChunks : s \in [1..m -> [size : 1..n, large : BOOLEAN]]
  BY DEF Cuts
<1>2. SizeUpTo(s)[Len(s)] = n  BY DEF Cuts
<1>3. s \in [1..m -> Chunk]
  <2>1. [size : 1..n, large : BOOLEAN] \subseteq Chunk  BY DEF Chunk
  <2> QED BY <1>1, <2>1
<1>4. m \in Nat  OBVIOUS
<1>5. s \in Seq(Chunk)  BY <1>3, <1>4
<1> QED BY <1>2, <1>5

LEMMA ServerAnswersStep == ASSUME CompressionInv, ServerAnswers PROVE CompressionInv'
<1>1. request # "NONE" /\ request' = "NONE"
      /\ UNCHANGED <<con, available, writes, ret>>
  BY DEF ServerAnswers
<1>2. StreamInv /\ ReadInv(con) /\ NumberInv(con) /\ PlaceInv(con) /\ TypeOK
  BY DEF CompressionInv, ConInv
<1>3. chunks = << >> /\ con.expected = "RESPONSE" /\ con.command_status = "SEND"
  BY <1>1, <1>2 DEF StreamInv
<1>4. CASE UNCHANGED <<answer, chunks>>
  <2>1. TypeOK'  BY <1>1, <1>2, <1>4 DEF TypeOK
  <2>2. StreamInv'  BY <1>1, <1>2, <1>4 DEF StreamInv, Answers
  <2>3. ConInv(con)'
    BY <1>1, <1>2, <1>4 DEF ConInv, ReadInv, NumberInv, PlaceInv
  <2> QED BY <2>1, <2>2, <2>3 DEF CompressionInv
<1>5. CASE answer' \in Answers /\ chunks' \in Cuts(2 * answer'.packets)
  <2>1. answer'.packets \in Nat /\ answer'.packets >= 1
    BY <1>5, CompressionAssumption DEF Answers
  <2>2. 2 * answer'.packets \in Nat  BY <2>1
  <2>3. chunks' \in Seq(Chunk) /\ SizeUpTo(chunks')[Len(chunks')] = 2 * answer'.packets
    BY <1>5, <2>2, CutsAreChunks
  <2>4. /\ con.opened = 0 /\ con.unpacked = 0 /\ con.received \in Nat /\ con.received = 0
        /\ available = 0 /\ con.parsed = 0 /\ con \in Connections
    <3>1. con.opened = 0 /\ con.unpacked = 0  BY <1>2, <1>3, Unpacked
    <3>2. con.received \in Nat /\ available \in Nat /\ con.parsed \in Nat
      BY <1>2 DEF StreamInv, ReadInv, Connections
    <3>3. con.received + available <= 0  BY <1>2, <1>3 DEF TypeOK
    <3>4. 2 * con.parsed <= 0  BY <3>1, <1>2 DEF ReadInv
    <3> QED BY <3>1, <3>2, <3>3, <3>4, <1>2 DEF ReadInv
  <2>5. SizeUpTo(chunks')[0] = 0  BY <2>3, SizesAdd
  <2>6. Len(chunks') \in Nat  BY <2>3
  <2>7. TypeOK'  BY <1>1, <1>2, <2>1, <2>4, <2>6 DEF TypeOK
  <2>8. StreamInv'
    <3>1. available' \in Nat /\ answer' \in Answers'
      BY <1>1, <1>2, <1>5 DEF StreamInv, Answers
    <3> QED BY <3>1, <1>1, <2>3 DEF StreamInv
  <2>9. ReadInv(con)'  BY <1>1, <2>1, <2>4, <2>5, <2>6 DEF ReadInv
  <2>10. NumberInv(con)'
    <3>1. con'.command_status # "READ_FAILED" /\ con.command_status # "READ_FAILED"
      BY <1>1, <1>3
    <3>2. con' = con  BY <1>1
    <3> QED BY <3>1, <3>2, <1>2, Zenon DEF NumberInv
  <2>11. PlaceInv(con)'  BY <1>1, <1>3, <2>1, <2>4 DEF PlaceInv
  <2> QED BY <2>7, <2>8, <2>9, <2>10, <2>11 DEF CompressionInv, ConInv
<1> QED BY <1>4, <1>5 DEF ServerAnswers

LEMMA ArriveStep == ASSUME CompressionInv, Arrive PROVE CompressionInv'
<1>1. PICK n \in 1..Underway : available' = available + n  BY DEF Arrive
<1>2. UNCHANGED <<con, answer, chunks, request, writes, ret>>  BY DEF Arrive
<1>3. available \in Nat /\ con.received \in Nat /\ Len(chunks) \in Nat
  BY DEF CompressionInv, StreamInv, ConInv, ReadInv, Connections
<1>4. available' \in Nat /\ con.received + available' <= 2 * Len(chunks)
  BY <1>1, <1>3 DEF Underway
<1>5. TypeOK'  BY <1>2, <1>4 DEF CompressionInv, TypeOK
<1>6. StreamInv'  BY <1>2, <1>4 DEF CompressionInv, StreamInv, Answers
<1>7. ConInv(con)'
  BY <1>2 DEF CompressionInv, ConInv, ReadInv, NumberInv, PlaceInv
<1> QED BY <1>5, <1>6, <1>7 DEF CompressionInv

(* Whatever became of the connection while the stream stayed.                *)
LEMMA ReadKeeps ==
    ASSUME CompressionInv, ConInv(con'), UNCHANGED <<chunks, answer, request>>,
           available' \in Nat, con'.received + available' <= 2 * Len(chunks),
           request # "NONE" => /\ con'.expected = "RESPONSE"
                               /\ con'.command_status = "SEND",
           writes' \in BOOLEAN,
           ret' \in {"true", "NONE", "PROCESSING", "ROW_READY", "EOF"}
    PROVE  CompressionInv'
<1>1. ConInv(con)'  BY DEF ConInv, ReadInv, NumberInv, PlaceInv
<1>2. con' \in Connections /\ con'.opened <= Len(chunks) /\ con'.parsed <= answer.packets
  BY DEF ConInv, ReadInv
<1>3. TypeOK'  BY <1>2 DEF CompressionInv, TypeOK
<1>4. StreamInv'  BY DEF CompressionInv, StreamInv, Answers
<1> QED BY <1>1, <1>3, <1>4 DEF CompressionInv

(* Received bytes change nothing but their count.                            *)
LEMMA ReceivedMore ==
    ASSUME NEW c, ConInv(c), NEW n \in Nat
    PROVE  LET d == [c EXCEPT !.received = @ + n]
           IN  /\ ConInv(d) /\ d.received = c.received + n
               /\ d.expected = c.expected /\ d.command_status = c.command_status
<1> DEFINE r == c.received + n
           d == [c EXCEPT !.received = @ + n]
<1>1. c \in Connections /\ ReadInv(c) /\ NumberInv(c) /\ PlaceInv(c)
  BY DEF ConInv, ReadInv
<1>2. r \in Nat /\ c.received \in Nat /\ c.received <= r /\ c.opened \in Nat
  BY <1>1 DEF Connections
<1>3. d = [c EXCEPT !.received = r]  BY <1>1 DEF Connections
<1> HIDE DEF r, d
<1>4. /\ d \in Connections /\ d.received = r /\ d.opened = c.opened
      /\ d.unpacked = c.unpacked /\ d.parsed = c.parsed /\ d.expected = c.expected
      /\ d.command_status = c.command_status
      /\ d.compressed_packet_number = c.compressed_packet_number
  BY <1>1, <1>2, <1>3 DEF Connections
<1>5. d.broken = c.broken  BY <1>1, <1>3 DEF Connections
<1>6. ReadInv(d)  BY <1>1, <1>2, <1>4 DEF ReadInv
<1>7. NumberInv(d)  BY <1>1, <1>4, <1>5, Zenon DEF NumberInv
<1>8. PlaceInv(d)  BY <1>1, <1>4 DEF PlaceInv
<1> QED BY <1>4, <1>6, <1>7, <1>8 DEF ConInv, d, r

LEMMA TurnKeeps ==
    ASSUME CompressionInv
    PROVE  /\ ConInv(Turn(con))
           /\ Turn(con).received <= con.received + available
           /\ Turn(con).received \in Nat
           /\ request # "NONE" => /\ Turn(con).expected = "RESPONSE"
                                  /\ Turn(con).command_status = "SEND"
<1>1. ConInv(con) /\ StreamInv /\ available \in Nat
  BY DEF CompressionInv, StreamInv
<1>2. con.received \in Nat  BY <1>1 DEF ConInv, ReadInv, Connections
<1> DEFINE d == [con EXCEPT !.received = @ + available]
           e == IF available > 0 THEN Process(d) ELSE con
<1>3. /\ ConInv(d) /\ d.received = con.received + available
      /\ d.expected = con.expected /\ d.command_status = con.command_status
  BY <1>1, ReceivedMore
<1> HIDE DEF d
<1>4. ConInv(Process(d)) /\ Process(d).received = con.received + available
  BY <1>1, <1>3, ProcessKeeps
<1>5. ConInv(e) /\ e.received \in Nat /\ e.received <= con.received + available
  BY <1>1, <1>2, <1>4
<1>6. Turn(con) = Process(e)  BY DEF Turn, d
<1>7. request # "NONE" => /\ e.expected = "RESPONSE" /\ e.command_status = "SEND"
                          /\ chunks = << >>
  <2> SUFFICES ASSUME request # "NONE"
               PROVE  e.expected = "RESPONSE" /\ e.command_status = "SEND"
                      /\ chunks = << >>
    OBVIOUS
  <2>1. chunks = << >> /\ con.expected = "RESPONSE" /\ con.command_status = "SEND"
    BY <1>1 DEF StreamInv
  <2>2. Process(d).expected = "RESPONSE" /\ Process(d).command_status = "SEND"
    BY <1>1, <1>3, <2>1, ProcessNothing
  <2> QED BY <2>1, <2>2
<1> HIDE DEF e
<1>8. ConInv(Process(e)) /\ Process(e).received = e.received
  BY <1>1, <1>5, ProcessKeeps
<1>9. request # "NONE" => /\ Process(e).expected = "RESPONSE"
                          /\ Process(e).command_status = "SEND"
  BY <1>1, <1>5, <1>7, ProcessNothing
<1> QED BY <1>5, <1>6, <1>8, <1>9

LEMMA ReturnedTyped ==
    ASSUME NEW c
    PROVE  Returned(c) \in {"true", "NONE", "PROCESSING", "ROW_READY", "EOF"}
BY DEF Returned

LEMMA PollStep == ASSUME CompressionInv, Poll PROVE CompressionInv'
<1>1. ConInv(con) /\ StreamInv /\ TypeOK  BY DEF CompressionInv
<1>2. Len(chunks) \in Nat /\ available \in Nat /\ con.received \in Nat
      /\ con.received + available <= 2 * Len(chunks)
  BY <1>1 DEF StreamInv, ConInv, ReadInv, Connections, TypeOK
<1>3. CASE UNCHANGED <<con, answer, chunks, request, available, writes>>
           /\ ret' = Returned(con)
  <2>1. ret' \in {"true", "NONE", "PROCESSING", "ROW_READY", "EOF"}
    BY <1>3, ReturnedTyped
  <2>2. writes' \in BOOLEAN  BY <1>1, <1>3 DEF TypeOK
  <2>3. ConInv(con')  BY <1>1, <1>3
  <2>4. available' \in Nat /\ con'.received + available' <= 2 * Len(chunks)
    BY <1>2, <1>3
  <2>5. request # "NONE" => con'.expected = "RESPONSE" /\ con'.command_status = "SEND"
    BY <1>1, <1>3 DEF StreamInv
  <2> QED BY <2>1, <2>2, <2>3, <2>4, <2>5, <1>3, ReadKeeps
<1>4. CASE /\ con' = Turn(con) /\ available' = 0 /\ writes' = FALSE
           /\ ret' = Returned(con') /\ UNCHANGED <<answer, chunks, request>>
  <2>1. ret' \in {"true", "NONE", "PROCESSING", "ROW_READY", "EOF"}
    BY <1>4, ReturnedTyped
  <2>2. /\ ConInv(con') /\ con'.received \in Nat
        /\ con'.received <= con.received + available
        /\ request # "NONE" => con'.expected = "RESPONSE" /\ con'.command_status = "SEND"
    BY <1>4, TurnKeeps
  <2>3. available' \in Nat /\ con'.received + available' <= 2 * Len(chunks)
    BY <2>2, <1>2, <1>4
  <2>4. writes' \in BOOLEAN  BY <1>4
  <2> QED BY <2>1, <2>2, <2>3, <2>4, <1>4, ReadKeeps
<1> QED BY <1>3, <1>4 DEF Poll

LEMMA RowNextStep == ASSUME CompressionInv, RowNext PROVE CompressionInv'
<1>1. ConInv(con) /\ StreamInv /\ TypeOK  BY DEF CompressionInv
<1> DEFINE d == [con EXCEPT !.expected = "ROW", !.command_status = "READ_ROW"]
<1>2. /\ con.command_status = "ROW_IN_BUFFER" /\ con' = Process(d) /\ ret' = "NONE"
      /\ UNCHANGED <<answer, chunks, request, available, writes>>
  BY DEF RowNext
<1>3. con \in Connections /\ ReadInv(con) /\ NumberInv(con) /\ PlaceInv(con)
  BY <1>1 DEF ConInv, ReadInv
<1>4. /\ d \in Connections /\ d.received = con.received /\ d.opened = con.opened
      /\ d.unpacked = con.unpacked /\ d.parsed = con.parsed /\ d.expected = "ROW"
      /\ d.command_status = "READ_ROW"
      /\ d.compressed_packet_number = con.compressed_packet_number
  BY <1>3 DEF Connections
<1>5. d.broken = con.broken  BY <1>3 DEF Connections
<1> HIDE DEF d
<1>6. ReadInv(d)  BY <1>3, <1>4 DEF ReadInv
<1>7. NumberInv(d)
  <2>1. con.command_status # "READ_FAILED" /\ d.command_status # "READ_FAILED"
    BY <1>2, <1>4
  <2> QED BY <2>1, <1>3, <1>4, <1>5, Zenon DEF NumberInv
<1>8. PlaceInv(d)  BY <1>2, <1>3, <1>4 DEF PlaceInv
<1>9. ConInv(con') /\ con'.received = con.received
  BY <1>1, <1>2, <1>4, <1>6, <1>7, <1>8, ProcessKeeps DEF ConInv
<1>10. request = "NONE"  BY <1>1, <1>2 DEF StreamInv
<1>11. available' \in Nat /\ con'.received + available' <= 2 * Len(chunks)
  BY <1>1, <1>2, <1>9 DEF StreamInv, TypeOK
<1>12. writes' \in BOOLEAN  BY <1>1, <1>2 DEF TypeOK
<1> QED BY <1>2, <1>9, <1>10, <1>11, <1>12, ReadKeeps

LEMMA InitInv == Init => CompressionInv
<1> SUFFICES ASSUME Init PROVE CompressionInv  OBVIOUS
<1>1. 0 \in 0..(Base - 1) /\ 0 % Base = 0 /\ 1 \in 1..MaxPackets
  BY CompressionAssumption
<1>2. << >> \in Seq(Chunk) /\ Len(<< >>) = 0  OBVIOUS
<1>3. SizeUpTo(<< >>)[0] = 0  BY <1>2, SizesAdd
<1>4. TypeOK
  <2>1. con \in Connections  BY <1>1 DEF Init, Connections
  <2>2. /\ con.received = 0 /\ con.opened = 0 /\ con.parsed = 0
        /\ available = 0 /\ Len(chunks) = 0 /\ answer.packets = 1
    BY <1>2 DEF Init
  <2>3. /\ request \in Commands \union {"NONE", "LOST"}
        /\ writes \in BOOLEAN
        /\ ret \in {"true", "NONE", "PROCESSING", "ROW_READY", "EOF"}
    BY DEF Init
  <2> QED BY <2>1, <2>2, <2>3 DEF TypeOK
<1>5. StreamInv  BY <1>1, <1>2 DEF Init, StreamInv, Answers
<1>6. ReadInv(con)  BY <1>1, <1>2, <1>3 DEF Init, ReadInv, Connections
<1>7. NumberInv(con) /\ PlaceInv(con)  BY <1>1 DEF Init, NumberInv, PlaceInv
<1> QED BY <1>4, <1>5, <1>6, <1>7 DEF CompressionInv, ConInv

LEMMA CompressionStep == ASSUME CompressionInv, [Next]_vars PROVE CompressionInv'
<1>1. ASSUME NEW command \in Commands, Send(command) \/ SendFails(command)
      PROVE  CompressionInv'
  BY <1>1, SendStep, SendFailsStep
<1>2. ASSUME UNCHANGED vars PROVE CompressionInv'
  BY <1>2 DEF vars, CompressionInv, TypeOK, StreamInv, Answers, ConInv, ReadInv,
              NumberInv, PlaceInv
<1>3. ASSUME PollWaits PROVE CompressionInv'
  BY <1>2, <1>3 DEF PollWaits
<1> QED BY <1>1, <1>2, <1>3, ServerAnswersStep, ArriveStep, PollStep, RowNextStep
        DEF Next

-----------------------------------------------------------------------------
(* Theorems                                                                  *)

THEOREM CompressionInvCorrect == Spec => []CompressionInv
BY InitInv, CompressionStep, PTL DEF Spec

(* Compressed packets are opened once each and in order, and one is refused  *)
(* only for its size or for a number with the sign bit (net.cc:434,          *)
(* net.cc:457).                                                              *)
THEOREM PacketsOpenedCorrect == Spec => []PacketsOpened
<1>1. CompressionInv => PacketsOpened
  <2> SUFFICES ASSUME CompressionInv PROVE PacketsOpened  OBVIOUS
  <2>1. StreamUnpacked  BY DEF CompressionInv, ConInv, ReadInv, StreamUnpacked
  <2>2. RefusalExplained
    <3> SUFFICES ASSUME con.command_status = "READ_FAILED"
                 PROVE  \/ con.opened + 1 >= Base \div 2
                        \/ chunks[con.opened + 1].large
      BY DEF RefusalExplained
    <3>1. con.opened + 1 \in Nat
      BY DEF CompressionInv, TypeOK, Connections
    <3>2. NumberByte(con.opened + 1) < 0 \/ chunks[con.opened + 1].large
      BY DEF CompressionInv, ConInv, NumberInv
    <3>3. NumberByte(con.opened + 1) < 0 => con.opened + 1 >= Base \div 2
      BY <3>1, NumberAsChar
    <3> QED BY <3>2, <3>3
  <2> QED BY <2>1, <2>2 DEF CompressionInv, PacketsOpened
<1> QED BY <1>1, CompressionInvCorrect, PTL

(* An answer that is over has left nothing on its way or in a buffer         *)
(* (connect.cc:283, net.cc:236).                                             *)
THEOREM EndIsWholeCorrect == Spec => []EndIsWhole
<1>1. CompressionInv => EndIsWhole  BY EndReached DEF EndIsWhole
<1> QED BY <1>1, CompressionInvCorrect, PTL
=============================================================================

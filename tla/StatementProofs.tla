-------------------------- MODULE StatementProofs --------------------------
(***************************************************************************)
(* The properties of Statement, of Escaping and of Packing: of statements  *)
(* with any number of parameters and columns, of any lengths and any sizes *)
(* of the execution buffer; of queries with any number of parameters of    *)
(* any length; of numbers, dates and times with bytes of any even number   *)
(* of values above twelve.                                                 *)
(*                                                                         *)
(* The offsets of a packet and of a row, the room that parameters take and *)
(* the numbers that bytes stand for are recursive functions.  What they    *)
(* compute is proved by a least counterexample (LeastOf): Recursion says   *)
(* that such a function exists, Everywhere that what holds at the first    *)
(* place and is handed on holds at every place.  The three parts rest on   *)
(* these lemmas, which is why they are in one module.                      *)
(***************************************************************************)
EXTENDS Statement, Escaping, Packing, FiniteSetTheorems, SequenceTheorems,
        WellFoundedInduction, TLAPS

(* What is known of a buffer's size: it was never allocated, or is at least  *)
(* as large as the first allocation.                                         *)
BufferSizes == {n \in Nat : n = 0 \/ n >= DefaultSize}

(* A statement that was not prepared has no parameters, and the objects      *)
(* allocated are those the parameters point to and those that were lost.     *)
HeapInv ==
    /\ phase \in {"none", "preparing"} => params = << >>
    /\ exec_size \in BufferSizes
    /\ live = lost + Cardinality(Datetimes)

(* A packet under way is the one that the parameters describe.               *)
PacketInv == phase = "executing" => packet = AllWritten

(* Offsets belong to the current row, which belongs to a result; con->stmt_row*)
(* was allocated for the statement's columns.                                *)
RowInv ==
    /\ row \in Seq([nulls : SUBSET Int, size : {1, 8}])
    /\ phase # "rows" => row = << >>
    /\ row = << >> => read_at = << >>
    /\ read_at # << >> => /\ read_at \in [1..columns -> Int]
                          /\ stmt_row # 0
    /\ replaced \/ stmt_row \in {0, columns}
    /\ phase \in {"none", "preparing"} => replaced \/ stmt_row = 0

StatementInv ==
    /\ TypeOK /\ DeletesOwn /\ ExecFits /\ RowDecoded
    /\ HeapInv /\ PacketInv /\ RowInv

-----------------------------------------------------------------------------
(* Induction and recursion over an interval                                  *)

(* A set of naturals that is not empty has a least element.                  *)
LEMMA LeastOf ==
    ASSUME NEW T \in SUBSET Nat, T # {}
    PROVE  \E n \in T : \A m \in T : n <= m
<1>1. IsWellFoundedOn(OpToRel(<, Nat), Nat)  BY NatLessThanWellFounded, Zenon
<1>2. PICK n \in T : \A y \in T : ~(<<y, n>> \in OpToRel(<, Nat))
  BY <1>1, WFMin, Zenon
<1>3. \A y \in T : ~(y < n)  BY <1>2 DEF OpToRel
<1> QED BY <1>3

(* What holds at the first place of an interval and is handed on to the next *)
(* place holds everywhere in it.                                             *)
LEMMA Everywhere ==
    ASSUME NEW a \in Int, NEW b \in Int, NEW T \in SUBSET (a..b),
           a <= b => a \in T,
           \A i \in T : i + 1 <= b => i + 1 \in T
    PROVE  T = a..b
<1> DEFINE Missed == {k \in Nat : a + k <= b /\ a + k \notin T}
<1>1. SUFFICES ASSUME Missed # {} PROVE FALSE
  <2> SUFFICES ASSUME NEW i \in a..b, i \notin T PROVE FALSE  OBVIOUS
  <2>1. i - a \in Nat /\ a + (i - a) = i /\ i <= b  OBVIOUS
  <2> QED BY <2>1, <1>1
<1>2. PICK k \in Missed : \A m \in Missed : k <= m
  <2>1. Missed \in SUBSET Nat  OBVIOUS
  <2> HIDE DEF Missed
  <2> QED BY <2>1, <1>1, LeastOf
<1>3. k \in Nat /\ a + k <= b /\ a + k \notin T  BY <1>2
<1>4. k # 0  BY <1>3
<1>5. k - 1 \in Nat /\ ~(k <= k - 1) /\ a + (k - 1) <= b  BY <1>3, <1>4
<1>6. k - 1 \notin Missed  BY <1>2, <1>5
<1>7. a + (k - 1) \in T  BY <1>5, <1>6
<1>8. (a + (k - 1)) + 1 = a + k  BY <1>3
<1> QED BY <1>3, <1>7, <1>8

(* f starts with base, and F gives each value from the one before.           *)
Follows(f, S, a, b, base, F) ==
    /\ f = [i \in a..b |-> IF i = a THEN base ELSE F[i][f[i - 1]]]
    /\ f \in [a..b -> S]

(* A function over an interval may be defined by recursion.                  *)
LEMMA Recursion ==
    ASSUME NEW S, NEW base \in S, NEW a \in Int, NEW b \in Int,
           NEW F \in [a..b -> [S -> S]]
    PROVE  \E f : Follows(f, S, a, b, base, F)
<1> DEFINE Good(n, f) == /\ f \in [a..n -> S]
                         /\ \A i \in a..n :
                                f[i] = IF i = a THEN base ELSE F[i][f[i - 1]]
           T == {n \in a..b : \E f : Good(n, f)}
<1>1. a <= b => a \in T
  <2>1. Good(a, [i \in a..a |-> base])  OBVIOUS
  <2>2. \E f : Good(a, f)  BY <2>1
  <2> HIDE DEF Good
  <2> QED BY <2>2
<1>2. ASSUME NEW m \in T, m + 1 <= b PROVE m + 1 \in T
  <2>1. PICK f : Good(m, f)  BY <1>2
  <2> DEFINE n == m + 1
             v == F[n][f[m]]
             g == [i \in a..n |-> IF i = n THEN v ELSE f[i]]
  <2>2. m \in a..b /\ n \in a..b /\ n # a /\ n - 1 = m /\ m \in a..m  BY <1>2
  <2>3. v \in S  BY <2>1, <2>2
  <2> HIDE DEF v
  <2>4. \A i \in a..n : i # n => i \in a..m  BY <2>2
  <2>5. g \in [a..n -> S]  BY <2>1, <2>3, <2>4
  <2>6. ASSUME NEW i \in a..n
        PROVE  g[i] = IF i = a THEN base ELSE F[i][g[i - 1]]
    <3>1. CASE i = a  BY <3>1, <2>1, <2>2, <2>4
    <3>2. CASE i # a
      <4>1. i - 1 \in a..n /\ i - 1 # n /\ i - 1 \in a..m  BY <3>2, <2>2
      <4>2. g[i - 1] = f[i - 1]  BY <4>1
      <4>3. CASE i = n  BY <4>2, <4>3, <3>2, <2>2 DEF v
      <4>4. CASE i # n  BY <4>2, <4>4, <3>2, <2>1, <2>4
      <4> QED BY <4>3, <4>4
    <3> QED BY <3>1, <3>2
  <2>7. Good(n, g)  BY <2>5, <2>6
  <2> QED BY <2>7, <2>2
<1>3. T = a..b
  <2>1. T \in SUBSET (a..b)  OBVIOUS
  <2> HIDE DEF T
  <2> QED BY <1>1, <1>2, <2>1, Everywhere
<1>4. PICK f : Good(b, f)
  <2>1. CASE a <= b  BY <2>1, <1>3
  <2>2. CASE ~(a <= b)
    <3>1. Good(b, [i \in a..b |-> base])  BY <2>2
    <3> QED BY <3>1
  <2> QED BY <2>1, <2>2
<1>5. f = [i \in a..b |-> IF i = a THEN base ELSE F[i][f[i - 1]]]  BY <1>4
<1> QED BY <1>4, <1>5 DEF Follows

-----------------------------------------------------------------------------
(* Sizes and offsets of an execution                                         *)

Allocated == {n \in Nat : n >= DefaultSize}

Entry == [what : {"type", "value"}, param : Nat, at : Int, size : Nat]

ParamOfIndex == params \in [1..Len(params) -> Param] /\ Len(params) \in Nat

LEMMA ParamsTyped == TypeOK => ParamOfIndex
BY DEF TypeOK, ParamOfIndex

(* attachsql_stmt_check_buffer_size only makes the buffer larger.            *)
LEMMA CheckedGrows ==
    ASSUME NEW size \in Allocated, NEW required \in Nat
    PROVE  Checked(size, required) \in Allocated
BY StatementAssumption DEF Checked, Allocated

LEMMA GrownGrows ==
    ASSUME ParamOfIndex, NEW i \in 1..Len(params), NEW size \in Allocated
    PROVE  Grown(i, size) \in Allocated
<1>1. params[i].size \in Nat  BY DEF ParamOfIndex, Param
<1>2. DatetimeSize \in Nat  BY StatementAssumption
<1>3. Checked(size, DatetimeSize) \in Allocated  BY <1>2, CheckedGrows
<1>4. Checked(Checked(size, DatetimeSize), params[i].size) \in Allocated
  BY <1>1, <1>3, CheckedGrows
<1> QED BY <1>3, <1>4 DEF Grown

(* The first room asked for makes every execution start with the default     *)
(* size at least.                                                            *)
LEMMA FirstSize ==
    ASSUME exec_size \in BufferSizes PROVE Checked(exec_size, Minimum) \in Allocated
BY StatementAssumption DEF Checked, Allocated, BufferSizes

LEMMA SizeAtAllocated ==
    ASSUME ParamOfIndex, exec_size \in BufferSizes
    PROVE  \A i \in 0..Len(params) : SizeAt[i] \in Allocated
<1> DEFINE n == Len(params)
           base == Checked(exec_size, Minimum)
           F == [i \in 0..n |-> [s \in Allocated |-> IF i = 0 THEN base ELSE Grown(i, s)]]
           T == {i \in 0..n : SizeAt[i] \in Allocated}
<1>1. n \in Int /\ 0 \in Int  BY DEF ParamOfIndex
<1>2. base \in Allocated  BY FirstSize
<1>3. F \in [0..n -> [Allocated -> Allocated]]  BY <1>1, <1>2, GrownGrows
<1>4. PICK f : Follows(f, Allocated, 0, n, base, F)
  <2> HIDE DEF F, base, n
  <2> QED BY <1>1, <1>2, <1>3, Recursion, Zenon
<1>5. \A i \in 0..n : i # 0 => F[i][f[i - 1]] = Grown(i, f[i - 1])
  <2> SUFFICES ASSUME NEW i \in 0..n, i # 0
               PROVE  F[i][f[i - 1]] = Grown(i, f[i - 1])  OBVIOUS
  <2>1. i - 1 \in 0..n  BY <1>1
  <2>2. f[i - 1] \in Allocated  BY <1>4, <2>1 DEF Follows
  <2> QED BY <2>2
<1>6. f = [i \in 0..n |-> IF i = 0 THEN base ELSE Grown(i, f[i - 1])]
  <2> HIDE DEF F, base
  <2> QED BY <1>4, <1>5 DEF Follows
<1>7. SizeAt = CHOOSE size : size = [i \in 0..n |-> IF i = 0 THEN base
                                                    ELSE Grown(i, size[i - 1])]
  BY DEF SizeAt
<1> HIDE DEF F, base, n
<1>8. SizeAt = [i \in 0..n |-> IF i = 0 THEN base ELSE Grown(i, SizeAt[i - 1])]
  BY <1>6, <1>7, Zenon
<1>9. 0 <= n => 0 \in T  BY <1>1, <1>2, <1>8
<1>10. ASSUME NEW i \in T, i + 1 <= n PROVE i + 1 \in T
  <2>1. i \in 0..n /\ i + 1 \in 0..n /\ i + 1 \in 1..n /\ i + 1 # 0 /\ (i + 1) - 1 = i
    BY <1>10, <1>1
  <2>2. SizeAt[i + 1] = Grown(i + 1, SizeAt[i])  BY <2>1, <1>8
  <2>3. SizeAt[i] \in Allocated  BY <1>10
  <2>4. Grown(i + 1, SizeAt[i]) \in Allocated  BY <2>1, <2>3, GrownGrows DEF n
  <2> QED BY <2>1, <2>2, <2>4
<1>11. T \in SUBSET (0..n)  OBVIOUS
<1>12. T = 0..n
  <2> HIDE DEF T
  <2> QED BY <1>1, <1>9, <1>10, <1>11, Everywhere
<1> QED BY <1>12 DEF n

LEMMA ValueSizeNat ==
    ASSUME NEW p \in Param PROVE ValueSize(p) \in Nat
BY DEF Param, AllTypes, ValueSize, PackedSize

LEMMA NotNullFinite ==
    ASSUME ParamOfIndex
    PROVE  IsFiniteSet(NotNull) /\ Cardinality(NotNull) \in Nat
<1>1. IsFiniteSet(1..Len(params))  BY FS_Interval DEF ParamOfIndex
<1>2. NotNull \in SUBSET (1..Len(params))  BY DEF NotNull, ParamOfIndex
<1> QED BY <1>1, <1>2, FS_Subset, FS_CardinalityType

LEMMA TypesStartInt == ASSUME ParamOfIndex PROVE TypesStart \in Int
BY StatementAssumption DEF TypesStart, NullBytes, ParamOfIndex

(* The values follow one another, behind the types.                          *)
LEMMA ValuesFollow ==
    ASSUME ParamOfIndex
    PROVE  /\ ValuesAt \in [1..(Len(params) + 1) -> Int]
           /\ ValuesAt[1] = TypesStart + 2 * Cardinality(NotNull)
           /\ \A i \in 1..Len(params) :
                  ValuesAt[i + 1] = ValuesAt[i] + ValueSize(params[i])
<1> DEFINE n == Len(params) + 1
           base == TypesStart + 2 * Cardinality(NotNull)
           G(i, s) == s + ValueSize(params[i - 1])
           F == [i \in 1..n |-> [s \in Int |-> IF i = 1 THEN base ELSE G(i, s)]]
           T == {i \in 1..n : ValuesAt[i] \in Int}
<1>1. n \in Int /\ 1 \in Int /\ 1 <= n  BY DEF ParamOfIndex
<1>2. base \in Int  BY NotNullFinite, TypesStartInt
<1>3. \A i \in 1..n, s \in Int : i # 1 => G(i, s) \in Int
  <2> SUFFICES ASSUME NEW i \in 1..n, NEW s \in Int, i # 1 PROVE G(i, s) \in Int
    OBVIOUS
  <2>1. i - 1 \in 1..Len(params)  BY <1>1 DEF ParamOfIndex
  <2>2. ValueSize(params[i - 1]) \in Nat  BY <2>1, ValueSizeNat DEF ParamOfIndex
  <2> QED BY <2>2
<1> HIDE DEF base, G
<1>4. F \in [1..n -> [Int -> Int]]  BY <1>1, <1>2, <1>3
<1>5. PICK f : Follows(f, Int, 1, n, base, F)
  <2> HIDE DEF F, n
  <2> QED BY <1>1, <1>2, <1>4, Recursion, Zenon
<1>6. \A i \in 1..n : i # 1 => F[i][f[i - 1]] = G(i, f[i - 1])
  <2> SUFFICES ASSUME NEW i \in 1..n, i # 1
               PROVE  F[i][f[i - 1]] = G(i, f[i - 1])  OBVIOUS
  <2>1. i - 1 \in 1..n  BY <1>1
  <2>2. f[i - 1] \in Int  BY <1>5, <2>1 DEF Follows
  <2> QED BY <2>2
<1> HIDE DEF F
<1>7. f = [i \in 1..n |-> IF i = 1 THEN base ELSE G(i, f[i - 1])]
  BY <1>5, <1>6 DEF Follows
<1>8. ValuesAt = CHOOSE at : at = [i \in 1..n |-> IF i = 1 THEN base
                                                  ELSE G(i, at[i - 1])]
  BY DEF ValuesAt, base, G
<1> HIDE DEF n
<1>9. ValuesAt = [i \in 1..n |-> IF i = 1 THEN base ELSE G(i, ValuesAt[i - 1])]
  BY <1>7, <1>8, Zenon
<1>10. 1 \in T  BY <1>1, <1>2, <1>9
<1>11. ASSUME NEW i \in T, i + 1 <= n PROVE i + 1 \in T
  <2>1. i \in 1..n /\ i + 1 \in 1..n /\ i + 1 # 1 /\ (i + 1) - 1 = i
    BY <1>11, <1>1
  <2>2. ValuesAt[i + 1] = G(i + 1, ValuesAt[i])  BY <2>1, <1>9
  <2> QED BY <2>1, <2>2, <1>3, <1>11
<1>12. T = 1..n
  <2>1. T \in SUBSET (1..n)  OBVIOUS
  <2> HIDE DEF T
  <2> QED BY <1>1, <1>10, <1>11, <2>1, Everywhere
<1>13. ValuesAt \in [1..n -> Int]  BY <1>9, <1>12
<1>14. ASSUME NEW i \in 1..Len(params)
       PROVE  ValuesAt[i + 1] = ValuesAt[i] + ValueSize(params[i])
  <2>1. i + 1 \in 1..n /\ i + 1 # 1 /\ (i + 1) - 1 = i  BY DEF ParamOfIndex, n
  <2>2. ValuesAt[i + 1] = G(i + 1, ValuesAt[i])  BY <2>1, <1>9
  <2> QED BY <2>1, <2>2 DEF G
<1>15. ValuesAt[1] = base  BY <1>1, <1>9
<1> QED BY <1>13, <1>14, <1>15 DEF n, base

(* A later value is behind the bytes of an earlier one.                      *)
LEMMA ValuesIncrease ==
    ASSUME ParamOfIndex, NEW i \in 1..Len(params)
    PROVE  /\ ValuesAt[i] >= ValuesAt[1]
           /\ \A j \in (i + 1)..Len(params) :
                  ValuesAt[j] >= ValuesAt[i] + ValueSize(params[i])
<1> DEFINE n == Len(params)
           end == ValuesAt[i] + ValueSize(params[i])
           S == {j \in 1..n : ValuesAt[j] >= ValuesAt[1]}
           T == {j \in (i + 1)..n : ValuesAt[j] >= end}
<1>1. n \in Nat  BY DEF ParamOfIndex
<1>2. \A j \in 1..n : /\ ValuesAt[j] \in Int
                      /\ ValueSize(params[j]) \in Nat
                      /\ ValuesAt[j + 1] = ValuesAt[j] + ValueSize(params[j])
  BY <1>1, ValuesFollow, ValueSizeNat DEF ParamOfIndex
<1> HIDE DEF n
<1>3. S = 1..n
  <2>1. S \in SUBSET (1..n)  OBVIOUS
  <2>2. 1 <= n => 1 \in S  BY <1>1, <1>2
  <2>3. ASSUME NEW j \in S, j + 1 <= n PROVE j + 1 \in S
    <3>1. j \in 1..n /\ j + 1 \in 1..n /\ 1 \in 1..n  BY <2>3, <1>1
    <3>2. ValuesAt[j] >= ValuesAt[1]  BY <2>3
    <3> QED BY <3>1, <3>2, <1>2
  <2> HIDE DEF S
  <2> QED BY <1>1, <2>1, <2>2, <2>3, Everywhere
<1>4. T = (i + 1)..n
  <2>1. i \in 1..n  BY DEF n
  <2>2. T \in SUBSET ((i + 1)..n)  OBVIOUS
  <2>3. i + 1 <= n => i + 1 \in T  BY <1>1, <1>2, <2>1
  <2>4. ASSUME NEW j \in T, j + 1 <= n PROVE j + 1 \in T
    <3>1. j \in 1..n /\ j + 1 \in (i + 1)..n  BY <2>4, <2>1, <1>1
    <3>2. j + 1 \in 1..n  BY <3>1, <2>1, <1>1
    <3>3. ValuesAt[j] >= end  BY <2>4
    <3>4. end \in Int  BY <2>1, <1>2
    <3> HIDE DEF end
    <3>5. ValuesAt[j + 1] >= end  BY <3>1, <3>2, <3>3, <3>4, <1>2
    <3> QED BY <3>1, <3>5
  <2>5. i + 1 \in Int  BY <2>1
  <2> HIDE DEF T
  <2> QED BY <1>1, <2>2, <2>3, <2>4, <2>5, Everywhere
<1> QED BY <1>3, <1>4 DEF n

TypeEntry(i) == [what |-> "type", param |-> i, at |-> TypeAt(i), size |-> 2]

ValueEntry(i) == [what |-> "value", param |-> i, at |-> ValuesAt[i],
                  size |-> ValueSize(params[i])]

LEMMA WrittenTyped ==
    ASSUME ParamOfIndex, NEW i \in 1..Len(params)
    PROVE  /\ TypeEntry(i) \in Entry /\ ValueEntry(i) \in Entry
           /\ Written(i) = IF i \in NotNull THEN <<TypeEntry(i), ValueEntry(i)>>
                                            ELSE << >>
<1>1. i \in Nat /\ i \in DOMAIN params  BY DEF ParamOfIndex
<1>2. TypeAt(i) \in Int  BY TypesStartInt, <1>1 DEF TypeAt
<1>3. TypeEntry(i) \in Entry  BY <1>1, <1>2 DEF TypeEntry, Entry
<1>9. i \in 1..(Len(params) + 1)  BY DEF ParamOfIndex
<1>4. ValuesAt[i] \in Int  BY <1>9, ValuesFollow
<1>5. ValueSize(params[i]) \in Nat  BY ValueSizeNat DEF ParamOfIndex
<1>6. ValueEntry(i) \in Entry  BY <1>1, <1>4, <1>5 DEF ValueEntry, Entry
<1>7. i \in NotNull <=> ~IsNull(i)  BY <1>1 DEF NotNull
<1>8. Written(i) = IF i \in NotNull THEN <<TypeEntry(i), ValueEntry(i)>>
                                    ELSE << >>
  BY <1>7 DEF Written, TypeEntry, ValueEntry
<1> QED BY <1>3, <1>6, <1>8

(* The packet grows parameter by parameter.                                  *)
LEMMA WrittenInOrder ==
    ASSUME ParamOfIndex
    PROVE  \E upto \in [0..Len(params) -> Seq(Entry)] :
               /\ upto[0] = << >>
               /\ \A i \in 1..Len(params) : upto[i] = upto[i - 1] \o Written(i)
               /\ AllWritten = upto[Len(params)]
<1> DEFINE n == Len(params)
           F == [i \in 0..n |-> [s \in Seq(Entry) |-> IF i = 0 THEN << >>
                                                      ELSE s \o Written(i)]]
           Upto(f) == f = [i \in 0..n |-> IF i = 0 THEN << >>
                                          ELSE f[i - 1] \o Written(i)]
           T(f) == {i \in 0..n : f[i] \in Seq(Entry)}
<1>1. n \in Int /\ 0 \in Int /\ 0 <= n  BY DEF ParamOfIndex
<1>2. << >> \in Seq(Entry)  OBVIOUS
<1>3. \A i \in 1..n : Written(i) \in Seq(Entry)
  <2> SUFFICES ASSUME NEW i \in 1..Len(params) PROVE Written(i) \in Seq(Entry)
    OBVIOUS
  <2>1. /\ TypeEntry(i) \in Entry /\ ValueEntry(i) \in Entry
        /\ Written(i) = IF i \in NotNull THEN <<TypeEntry(i), ValueEntry(i)>>
                                         ELSE << >>
    BY WrittenTyped
  <2> QED BY <2>1
<1>4. \A i \in 0..n, s \in Seq(Entry) : i # 0 => s \o Written(i) \in Seq(Entry)
  <2>1. \A i \in 0..n : i # 0 => i \in 1..n  BY <1>1
  <2> QED BY <2>1, <1>3
<1>5. F \in [0..n -> [Seq(Entry) -> Seq(Entry)]]  BY <1>2, <1>4
<1>6. PICK f : Follows(f, Seq(Entry), 0, n, << >>, F)
  <2> HIDE DEF F, n
  <2> QED BY <1>1, <1>2, <1>5, Recursion, Zenon
<1>7. \A i \in 0..n : i # 0 => F[i][f[i - 1]] = f[i - 1] \o Written(i)
  <2> SUFFICES ASSUME NEW i \in 0..n, i # 0
               PROVE  F[i][f[i - 1]] = f[i - 1] \o Written(i)  OBVIOUS
  <2>1. i - 1 \in 0..n  BY <1>1
  <2>2. f[i - 1] \in Seq(Entry)  BY <1>6, <2>1 DEF Follows
  <2> QED BY <2>2
<1> HIDE DEF F
<1>8. Upto(f)  BY <1>6, <1>7 DEF Follows
<1>9. AllWritten = (CHOOSE upto : Upto(upto))[n]  BY DEF AllWritten
<1>10. PICK g : g = (CHOOSE upto : Upto(upto)) /\ AllWritten = g[n]  BY <1>9
<1>11. Upto(g)
  <2> HIDE DEF Upto
  <2> QED BY <1>8, <1>10, Zenon
<1>12. g[0] = << >>  BY <1>1, <1>11
<1>13. ASSUME NEW i \in 1..n PROVE g[i] = g[i - 1] \o Written(i)
  <2>1. i \in 0..n /\ i # 0  BY <1>1
  <2> QED BY <2>1, <1>11
<1>14. T(g) = 0..n
  <2> DEFINE R == T(g)
  <2>1. R \in SUBSET (0..n)  OBVIOUS
  <2>5. 0 \in 0..n  BY <1>1
  <2>6. g[0] \in Seq(Entry)  BY <1>2, <1>12
  <2>2. 0 \in R  BY <2>5, <2>6
  <2>3. ASSUME NEW i \in R, i + 1 <= n PROVE i + 1 \in R
    <3>1. i + 1 \in 1..n /\ i + 1 \in 0..n /\ (i + 1) - 1 = i  BY <2>3, <1>1
    <3>2. g[i] \in Seq(Entry)  BY <2>3
    <3>3. g[i + 1] = g[i] \o Written(i + 1)  BY <3>1, <1>13
    <3>4. g[i + 1] \in Seq(Entry)  BY <3>1, <3>2, <3>3, <1>3
    <3> QED BY <3>1, <3>4
  <2> HIDE DEF R
  <2>4. R = 0..n  BY <1>1, <2>1, <2>2, <2>3, Everywhere
  <2> QED BY <2>4 DEF R
<1>15. g \in [0..n -> Seq(Entry)]
  <2>1. DOMAIN g = 0..n /\ g = [i \in DOMAIN g |-> g[i]]  BY <1>11
  <2> QED BY <2>1, <1>14
<1> QED BY <1>10, <1>12, <1>13, <1>15

(* The value of every parameter that is not NULL is in the packet.           *)
LEMMA ValueWritten ==
    ASSUME ParamOfIndex, NEW i \in NotNull
    PROVE  \E k \in DOMAIN AllWritten : AllWritten[k] = ValueEntry(i)
<1> DEFINE n == Len(params)
           v == ValueEntry(i)
<1>1. PICK upto \in [0..n -> Seq(Entry)] :
          /\ upto[0] = << >>
          /\ \A j \in 1..n : upto[j] = upto[j - 1] \o Written(j)
          /\ AllWritten = upto[n]
  BY WrittenInOrder
<1> DEFINE T == {j \in i..n : \E k \in DOMAIN upto[j] : upto[j][k] = v}
<1>2. i \in 1..n /\ n \in Int /\ i \in Int  BY DEF ParamOfIndex, NotNull
<1>3. i \in T
  <2>1. Written(i) = <<TypeEntry(i), v>> /\ TypeEntry(i) \in Entry /\ v \in Entry
    BY <1>2, WrittenTyped
  <2>7. i - 1 \in 0..n /\ i \in 0..n  BY <1>2
  <2>2. upto[i - 1] \in Seq(Entry)  BY <1>1, <2>7
  <2>3. upto[i] = upto[i - 1] \o <<TypeEntry(i), v>>  BY <1>1, <1>2, <2>1
  <2> HIDE DEF v
  <2>4. Len(upto[i]) = Len(upto[i - 1]) + 2 /\ upto[i][Len(upto[i])] = v
    BY <2>1, <2>2, <2>3
  <2>5. upto[i] \in Seq(Entry)  BY <1>1, <2>7
  <2>6. Len(upto[i]) \in DOMAIN upto[i]  BY <2>2, <2>4, <2>5
  <2> QED BY <2>4, <2>6, <1>2
<1>4. ASSUME NEW j \in T, j + 1 <= n PROVE j + 1 \in T
  <2>1. j \in i..n /\ j + 1 \in i..n /\ j + 1 \in 1..n /\ j \in 0..n /\ (j + 1) - 1 = j
    BY <1>4, <1>2
  <2>2. PICK k \in DOMAIN upto[j] : upto[j][k] = v  BY <1>4
  <2>3. upto[j + 1] = upto[j] \o Written(j + 1)  BY <1>1, <2>1
  <2>4. /\ TypeEntry(j + 1) \in Entry /\ ValueEntry(j + 1) \in Entry
        /\ Written(j + 1) = IF j + 1 \in NotNull
                            THEN <<TypeEntry(j + 1), ValueEntry(j + 1)>> ELSE << >>
    BY <2>1, WrittenTyped
  <2>5. Written(j + 1) \in Seq(Entry)
    <3> DEFINE a == TypeEntry(j + 1)
               b == ValueEntry(j + 1)
    <3>1. <<a, b>> \in Seq(Entry) /\ << >> \in Seq(Entry)
      <4> HIDE DEF a, b
      <4> QED BY <2>4 DEF a, b
    <3> QED BY <2>4, <3>1
  <2>6. upto[j] \in Seq(Entry)  BY <1>1, <2>1
  <2>7. k \in DOMAIN upto[j + 1] /\ upto[j + 1][k] = v
    <3> DEFINE s == upto[j]
               t == Written(j + 1)
    <3>1. s \in Seq(Entry) /\ t \in Seq(Entry) /\ k \in DOMAIN s /\ s[k] = v
      BY <2>2, <2>5, <2>6
    <3> HIDE DEF s, t, v
    <3>2. k \in DOMAIN (s \o t) /\ (s \o t)[k] = v  BY <3>1
    <3> QED BY <2>3, <3>2 DEF s, t
  <2> QED BY <2>1, <2>7
<1>5. T = i..n
  <2>1. T \in SUBSET (i..n)  OBVIOUS
  <2> HIDE DEF T, n
  <2> QED BY <1>2, <1>3, <1>4, <2>1, Everywhere
<1>6. n \in T  BY <1>2, <1>5
<1> QED BY <1>1, <1>6

(* If no NULL comes before another value, those that are not NULL are the    *)
(* first few.                                                                *)
LEMMA FirstFew ==
    ASSUME ParamOfIndex, NullsLast
    PROVE  \E m \in 0..Len(params) : NotNull = 1..m /\ Cardinality(NotNull) = m
<1> DEFINE n == Len(params)
           T == {k \in Nat : k + 1 \notin NotNull}
<1>1. n \in Nat /\ NotNull \subseteq 1..n  BY DEF ParamOfIndex, NotNull
<1>2. n \in T  BY <1>1
<1>3. PICK m \in T : \A k \in T : m <= k
  <2>1. T \in SUBSET Nat  OBVIOUS
  <2> HIDE DEF T
  <2> QED BY <1>2, <2>1, LeastOf
<1>4. m \in Nat /\ m <= n /\ m + 1 \notin NotNull  BY <1>2, <1>3
<1>5. ASSUME NEW i \in 1..m PROVE i \in NotNull
  <2>1. i - 1 \in Nat /\ ~(m <= i - 1) /\ (i - 1) + 1 = i  BY <1>4
  <2>2. i - 1 \notin T  BY <1>3, <2>1
  <2> QED BY <2>1, <2>2
<1>6. ASSUME NEW i \in NotNull PROVE i \in 1..m
  <2>1. i \in 1..n  BY <1>1
  <2>2. i > m => m + 1 \in 1..i  BY <1>4, <2>1
  <2>3. ~(i > m)  BY <1>4, <2>2 DEF NullsLast
  <2> QED BY <2>1, <2>3, <1>4
<1>7. NotNull = 1..m  BY <1>5, <1>6
<1>8. Cardinality(1..m) = m
  <2>1. 1 \in Int /\ m \in Int /\ (1 > m => m = 0) /\ m - 1 + 1 = m  BY <1>4
  <2> QED BY <2>1, FS_Interval
<1> QED BY <1>4, <1>7, <1>8

(* Then the packet is type, value, type, value, and so on.                   *)
LEMMA WrittenInPairs ==
    ASSUME ParamOfIndex, NEW m \in 0..Len(params), NotNull = 1..m
    PROVE  /\ AllWritten \in Seq(Entry) /\ Len(AllWritten) = 2 * m
           /\ \A k \in 1..m : /\ AllWritten[2 * k - 1] = TypeEntry(k)
                              /\ AllWritten[2 * k] = ValueEntry(k)
<1> DEFINE n == Len(params)
           w(j) == IF j <= m THEN j ELSE m
<1>1. PICK upto \in [0..n -> Seq(Entry)] :
          /\ upto[0] = << >>
          /\ \A j \in 1..n : upto[j] = upto[j - 1] \o Written(j)
          /\ AllWritten = upto[n]
  BY WrittenInOrder
<1> DEFINE Pairs(s, z) ==
               /\ Len(s) = 2 * z
               /\ \A k \in 1..z : s[2 * k - 1] = TypeEntry(k) /\ s[2 * k] = ValueEntry(k)
           T == {j \in 0..n : Pairs(upto[j], w(j))}
<1>2. n \in Nat /\ m \in Nat /\ m <= n  BY DEF ParamOfIndex
<1>3. 0 \in T
  <2>1. w(0) = 0 /\ 0 \in 0..n  BY <1>2
  <2>2. Pairs(<< >>, 0)  OBVIOUS
  <2> HIDE DEF Pairs, w
  <2> QED BY <2>1, <2>2, <1>1
<1>4. ASSUME NEW j \in T, j + 1 <= n PROVE j + 1 \in T
  <2>1. j \in 0..n /\ j + 1 \in 0..n /\ j + 1 \in 1..n /\ (j + 1) - 1 = j
    BY <1>4, <1>2
  <2> DEFINE i == j + 1
             s == upto[j]
  <2>2. s \in Seq(Entry) /\ Pairs(s, w(j))  BY <1>1, <1>4, <2>1
  <2>3. upto[i] = s \o Written(i)  BY <1>1, <2>1
  <2>4. /\ TypeEntry(i) \in Entry /\ ValueEntry(i) \in Entry
        /\ Written(i) = IF i \in NotNull THEN <<TypeEntry(i), ValueEntry(i)>>
                                         ELSE << >>
    BY <2>1, WrittenTyped
  <2>5. CASE j < m
    <3>1. w(j) = j /\ w(i) = i /\ i \in NotNull  BY <2>5, <2>1, <1>2
    <3>2. upto[i] = s \o <<TypeEntry(i), ValueEntry(i)>>  BY <2>3, <2>4, <3>1
    <3> HIDE DEF w
    <3>3. Len(s) = 2 * j  BY <2>2, <3>1
    <3>4. /\ Len(upto[i]) = 2 * i
          /\ upto[i][2 * i - 1] = TypeEntry(i) /\ upto[i][2 * i] = ValueEntry(i)
          /\ \A k \in 1..(2 * j) : upto[i][k] = s[k]
      <4> DEFINE a == TypeEntry(i)
                 b == ValueEntry(i)
                 r == s \o <<a, b>>
      <4>1. a \in Entry /\ b \in Entry  BY <2>4
      <4> HIDE DEF a, b
      <4>2. /\ Len(r) = Len(s) + 2 /\ r[Len(s) + 1] = a /\ r[Len(s) + 2] = b
            /\ \A k \in 1..Len(s) : r[k] = s[k]
        BY <2>2, <4>1
      <4>3. upto[i] = r  BY <3>2 DEF a, b
      <4>4. Len(s) + 1 = 2 * i - 1 /\ Len(s) + 2 = 2 * i  BY <3>3, <2>1
      <4> HIDE DEF r, s, i
      <4> QED BY <4>2, <4>3, <4>4, <3>3 DEF a, b
    <3>5. ASSUME NEW k \in 1..i
          PROVE  upto[i][2 * k - 1] = TypeEntry(k) /\ upto[i][2 * k] = ValueEntry(k)
      <4>1. CASE k = i  BY <4>1, <3>4
      <4>2. CASE k # i
        <5>1. k \in 1..j /\ 2 * k - 1 \in 1..(2 * j) /\ 2 * k \in 1..(2 * j)
          BY <4>2, <2>1
        <5>2. s[2 * k - 1] = TypeEntry(k) /\ s[2 * k] = ValueEntry(k)
          BY <5>1, <2>2, <3>1
        <5> HIDE DEF s, i
        <5> QED BY <5>1, <5>2, <3>4
      <4> QED BY <4>1, <4>2
    <3>6. Pairs(upto[i], i)  BY <3>4, <3>5
    <3> QED BY <3>1, <3>6, <2>1
  <2>6. CASE ~(j < m)
    <3>1. w(j) = m /\ w(i) = m /\ i \notin NotNull  BY <2>6, <2>1, <1>2
    <3>2. upto[i] = s  BY <2>2, <2>3, <2>4, <3>1
    <3> HIDE DEF w, Pairs
    <3> QED BY <3>1, <3>2, <2>1, <2>2
  <2> QED BY <2>5, <2>6
<1>5. T = 0..n
  <2>1. T \in SUBSET (0..n) /\ 0 \in Int /\ n \in Int  BY <1>2
  <2> HIDE DEF T, n
  <2> QED BY <1>3, <1>4, <2>1, Everywhere
<1>6. Pairs(upto[n], w(n))
  <2>1. n \in 0..n  BY <1>2
  <2> HIDE DEF Pairs, w
  <2> QED BY <1>5, <2>1
<1>7. w(n) = m  BY <1>2
<1>8. upto[n] \in Seq(Entry)  BY <1>1, <1>2
<1> QED BY <1>1, <1>6, <1>7, <1>8

(* What is written later leaves alone what is written before it.             *)
LEMMA ReadBack ==
    ASSUME ParamOfIndex, NullsLast, packet = AllWritten, NEW i \in NotNull
    PROVE  /\ Given("type", i, TypesStart + 2 * (i - 1))
           /\ Given("value", i, ValuesAt[i])
<1>1. PICK m \in 0..Len(params) : NotNull = 1..m /\ Cardinality(NotNull) = m
  BY FirstFew
<1>2. /\ Len(packet) = 2 * m
      /\ packet \in Seq(Entry)
      /\ \A k \in 1..m : packet[2 * k - 1] = TypeEntry(k) /\ packet[2 * k] = ValueEntry(k)
  BY <1>1, WrittenInPairs
<1>3. m \in Nat /\ i \in 1..m /\ 1..m \subseteq 1..Len(params) /\ TypesStart \in Int
  BY <1>1, TypesStartInt DEF ParamOfIndex
<1>4. \A k \in 1..m : /\ ValuesAt[k] \in Int /\ ValueSize(params[k]) \in Nat
                      /\ ValuesAt[k] >= TypesStart + 2 * m
                      /\ \A j \in (k + 1)..m :
                             ValuesAt[j] >= ValuesAt[k] + ValueSize(params[k])
  <2> SUFFICES ASSUME NEW k \in 1..m
      PROVE  /\ ValuesAt[k] \in Int /\ ValueSize(params[k]) \in Nat
             /\ ValuesAt[k] >= TypesStart + 2 * m
             /\ \A j \in (k + 1)..m :
                    ValuesAt[j] >= ValuesAt[k] + ValueSize(params[k])
    OBVIOUS
  <2>1. k \in 1..Len(params) /\ k \in 1..(Len(params) + 1) /\ Len(params) \in Nat
    BY <1>3 DEF ParamOfIndex
  <2>2. (k + 1)..m \subseteq (k + 1)..Len(params)  BY <1>1, <2>1
  <2>3. ValuesAt[k] >= ValuesAt[1]
        /\ \A j \in (k + 1)..Len(params) :
               ValuesAt[j] >= ValuesAt[k] + ValueSize(params[k])
    BY <2>1, ValuesIncrease
  <2>4. ValuesAt[1] = TypesStart + 2 * m  BY <1>1, ValuesFollow
  <2>5. ValuesAt[k] \in Int  BY <2>1, ValuesFollow
  <2>6. ValueSize(params[k]) \in Nat  BY <2>1, ValueSizeNat DEF ParamOfIndex
  <2> QED BY <2>2, <2>3, <2>4, <2>5, <2>6
<1>5. \A l \in 1..(2 * m) : \E k \in 1..m :
          \/ l = 2 * k - 1 /\ packet[l] = TypeEntry(k)
          \/ l = 2 * k /\ packet[l] = ValueEntry(k)
  <2> SUFFICES ASSUME NEW l \in 1..(2 * m)
               PROVE  \E k \in 1..m : \/ l = 2 * k - 1 /\ packet[l] = TypeEntry(k)
                                      \/ l = 2 * k /\ packet[l] = ValueEntry(k)
    OBVIOUS
  <2> DEFINE k == (l + 1) \div 2
  <2>1. k \in 1..m /\ (l = 2 * k - 1 \/ l = 2 * k)  BY <1>3
  <2> HIDE DEF k
  <2> QED BY <2>1, <1>2
<1>6. \A k \in 1..m : /\ TypeEntry(k).at = TypesStart + 2 * (k - 1)
                      /\ TypeEntry(k).size = 2
                      /\ TypeEntry(k).what = "type" /\ TypeEntry(k).param = k
                      /\ ValueEntry(k).at = ValuesAt[k]
                      /\ ValueEntry(k).size = ValueSize(params[k])
                      /\ ValueEntry(k).what = "value" /\ ValueEntry(k).param = k
  BY DEF TypeEntry, ValueEntry, TypeAt
<1>7. DOMAIN packet = 1..(2 * m)  BY <1>2
<1>8. Given("type", i, TypesStart + 2 * (i - 1))
  <2>1. 2 * i - 1 \in DOMAIN packet /\ packet[2 * i - 1] = TypeEntry(i)
    BY <1>2, <1>3, <1>7
  <2>2. ASSUME NEW l \in (2 * i - 1 + 1)..Len(packet)
        PROVE  \/ packet[l].at >= packet[2 * i - 1].at + packet[2 * i - 1].size
               \/ packet[l].at + packet[l].size <= packet[2 * i - 1].at
    <3>1. l \in 1..(2 * m)  BY <1>2, <1>3, <2>2
    <3>2. PICK k \in 1..m : \/ l = 2 * k - 1 /\ packet[l] = TypeEntry(k)
                            \/ l = 2 * k /\ packet[l] = ValueEntry(k)
      BY <1>5, <3>1
    <3>3. k >= i  BY <3>2, <2>2, <1>3
    <3>4. CASE l = 2 * k - 1 /\ packet[l] = TypeEntry(k)
      <4>1. k > i  BY <3>4, <2>2, <1>3
      <4> QED BY <4>1, <3>4, <2>1, <1>6, <1>3
    <3>5. CASE l = 2 * k /\ packet[l] = ValueEntry(k)
      <4>1. ValuesAt[k] \in Int /\ ValuesAt[k] >= TypesStart + 2 * m  BY <1>4
      <4>2. ValuesAt[k] >= TypesStart + 2 * (i - 1) + 2  BY <4>1, <1>3
      <4>3. packet[l].at = ValuesAt[k]  BY <3>5, <1>6
      <4>4. packet[2 * i - 1].at + packet[2 * i - 1].size
                = TypesStart + 2 * (i - 1) + 2
        BY <2>1, <1>6, <1>3
      <4> QED BY <4>2, <4>3, <4>4
    <3> QED BY <3>2, <3>4, <3>5
  <2> QED BY <2>1, <2>2, <1>6, <1>3 DEF Given
<1>9. Given("value", i, ValuesAt[i])
  <2>1. 2 * i \in DOMAIN packet /\ packet[2 * i] = ValueEntry(i)
    BY <1>2, <1>3, <1>7
  <2>2. ASSUME NEW l \in (2 * i + 1)..Len(packet)
        PROVE  \/ packet[l].at >= packet[2 * i].at + packet[2 * i].size
               \/ packet[l].at + packet[l].size <= packet[2 * i].at
    <3>1. l \in 1..(2 * m)  BY <1>2, <1>3, <2>2
    <3>2. PICK k \in 1..m : \/ l = 2 * k - 1 /\ packet[l] = TypeEntry(k)
                            \/ l = 2 * k /\ packet[l] = ValueEntry(k)
      BY <1>5, <3>1
    <3>3. k > i /\ k \in (i + 1)..m  BY <3>2, <2>2, <1>3
    <3>4. CASE packet[l] = TypeEntry(k)
      <4>1. ValuesAt[i] \in Int /\ ValuesAt[i] >= TypesStart + 2 * m
        BY <1>3, <1>4
      <4>2. TypesStart + 2 * (k - 1) + 2 <= ValuesAt[i]  BY <4>1, <1>3
      <4>3. packet[l].at + packet[l].size = TypesStart + 2 * (k - 1) + 2
        BY <3>4, <1>6
      <4>4. packet[2 * i].at = ValuesAt[i]  BY <2>1, <1>6, <1>3
      <4> QED BY <4>2, <4>3, <4>4
    <3>5. CASE packet[l] = ValueEntry(k)
      BY <3>3, <3>5, <2>1, <1>6, <1>3, <1>4
    <3> QED BY <3>2, <3>4, <3>5
  <2>3. /\ packet[2 * i].what = "value" /\ packet[2 * i].param = i
        /\ packet[2 * i].at = ValuesAt[i]
    BY <2>1, <1>6, <1>3
  <2> QED BY <2>1, <2>2, <2>3 DEF Given
<1> QED BY <1>8, <1>9

(* The server finds the values where attachsql_stmt_execute has put them.    *)
LEMMA ServerReadsAll ==
    ASSUME ParamOfIndex, NullsLast, packet = AllWritten, NEW i \in NotNull
    PROVE  ServerReads(i)
<1> DEFINE n == Len(params)
           base == ServerTypesAt + 2 * Cardinality(NotNull)
           before == {j \in NotNull : j < i}
           G(j, s) == s + ValueSize(params[j])
           P(at) == at = [j \in 0..n |-> IF j = 0 THEN base ELSE G(j, at[j - 1])]
           at == CHOOSE at : P(at)
           g == [j \in 0..n |-> ValuesAt[j + 1]]
           T == {j \in 0..n : at[j] = ValuesAt[j + 1]}
<1>1. ServerReads(i) <=>
          /\ Given("type", i, ServerTypesAt + 2 * Cardinality(before))
          /\ Given("value", i, at[i - 1])
  BY DEF ServerReads
<1>2. ServerTypesAt = TypesStart  BY DEF ServerTypesAt, TypesStart, NullBytes
<1>3. n \in Nat /\ i \in 1..n  BY DEF ParamOfIndex, NotNull
<1>4. Cardinality(before) = i - 1
  <2>1. before = 1..(i - 1)
    <3>1. \A j \in 1..i : j \in NotNull  BY DEF NullsLast
    <3>2. before \subseteq 1..(i - 1)  BY <1>3 DEF NotNull, ParamOfIndex
    <3> QED BY <3>1, <3>2, <1>3
  <2>2. 1 \in Int /\ i - 1 \in Int /\ (1 > i - 1 => i - 1 = 0) /\ (i - 1) - 1 + 1 = i - 1
    BY <1>3
  <2>3. Cardinality(1..(i - 1)) = i - 1  BY <2>2, FS_Interval
  <2> QED BY <2>1, <2>3
<1>5. /\ base = ValuesAt[1]
      /\ \A j \in 1..n : ValuesAt[j + 1] = G(j, ValuesAt[j])
  BY <1>2, ValuesFollow
<1> HIDE DEF base, G, before
<1>6. P(g)
  <2>1. ASSUME NEW j \in 0..n
        PROVE  g[j] = IF j = 0 THEN base ELSE G(j, g[j - 1])
    <3>1. CASE j = 0  BY <3>1, <1>5, <1>3
    <3>2. CASE j # 0
      <4>1. j \in 1..n /\ j - 1 \in 0..n /\ (j - 1) + 1 = j  BY <3>2, <1>3
      <4>2. g[j - 1] = ValuesAt[j]  BY <4>1
      <4> QED BY <4>1, <4>2, <1>5, <3>2
    <3> QED BY <3>1, <3>2
  <2> QED BY <2>1
<1>7. P(at)
  <2> HIDE DEF P
  <2> QED BY <1>6, Zenon
<1> HIDE DEF at, g
<1>8. T = 0..n
  <2>1. T \in SUBSET (0..n)  OBVIOUS
  <2>2. 0 \in T  BY <1>3, <1>5, <1>7
  <2>3. ASSUME NEW j \in T, j + 1 <= n PROVE j + 1 \in T
    <3>1. /\ j + 1 \in 0..n /\ j + 1 # 0 /\ j + 1 \in 1..n /\ j \in 0..n
          /\ (j + 1) - 1 = j
      BY <2>3, <1>3
    <3>2. at[j + 1] = G(j + 1, at[j])  BY <3>1, <1>7
    <3>3. at[j] = ValuesAt[j + 1]  BY <2>3
    <3> QED BY <3>1, <3>2, <3>3, <1>5
  <2>4. 0 \in Int /\ n \in Int  BY <1>3
  <2> HIDE DEF T, n, P
  <2> QED BY <2>1, <2>2, <2>3, <2>4, Everywhere
<1>9. at[i - 1] = ValuesAt[i]
  <2>1. i - 1 \in T /\ (i - 1) + 1 = i  BY <1>3, <1>8
  <2> QED BY <2>1
<1> QED BY <1>1, <1>2, <1>4, <1>9, ReadBack

-----------------------------------------------------------------------------
(* Offsets in a row                                                          *)

(* Each column that is not NULL moves the next one behind its bytes.         *)
LEMMA ColumnsFollow ==
    ASSUME NEW i \in Nat \ {0, 1}, row[1].size \in {1, 8}, columns \in Nat
    PROVE  /\ ServerColumnAt(1) = 1 + RowBitmap(columns)
           /\ ServerColumnAt(i - 1) \in Int
           /\ ServerColumnAt(i) = ServerColumnAt(i - 1)
                  + (IF i - 1 \in row[1].nulls THEN 0 ELSE row[1].size)
<1> DEFINE B(k) == {j \in 1..(k - 1) : j \notin row[1].nulls}
           h == 1 + ((columns + 2 + Bits - 1) \div Bits)
           size == row[1].size
<1>1. columns + Bits - 1 + 2 = columns + 2 + Bits - 1 /\ h \in Int
  BY StatementAssumption
<1>2. h = 1 + RowBitmap(columns)  BY <1>1 DEF RowBitmap
<1>3. \A k \in Nat : IsFiniteSet(B(k)) /\ Cardinality(B(k)) \in Nat
  <2> SUFFICES ASSUME NEW k \in Nat
               PROVE  IsFiniteSet(B(k)) /\ Cardinality(B(k)) \in Nat  OBVIOUS
  <2>1. IsFiniteSet(1..(k - 1))  BY FS_Interval
  <2>2. B(k) \in SUBSET (1..(k - 1))  OBVIOUS
  <2> HIDE DEF B
  <2> QED BY <2>1, <2>2, FS_Subset, FS_CardinalityType
<1>4. B(1) = {}  OBVIOUS
<1>5. i - 1 \in Nat /\ i \in Nat  OBVIOUS
<1>6. B(i) = IF i - 1 \in row[1].nulls THEN B(i - 1) ELSE B(i - 1) \union {i - 1}
  <2>1. \A j : j \in 1..(i - 1) <=> j = i - 1 \/ j \in 1..((i - 1) - 1)  OBVIOUS
  <2> QED BY <2>1
<1>7. i - 1 \notin B(i - 1)  OBVIOUS
<1>8. \A k \in {1, i - 1, i} : ServerColumnAt(k) = h + size * Cardinality(B(k))
  BY DEF ServerColumnAt
<1> HIDE DEF B, h, size
<1>9. Cardinality(B(i)) = Cardinality(B(i - 1))
                             + (IF i - 1 \in row[1].nulls THEN 0 ELSE 1)
  <2>1. IsFiniteSet(B(i - 1)) /\ Cardinality(B(i - 1)) \in Nat  BY <1>3, <1>5
  <2>2. Cardinality(B(i - 1) \union {i - 1}) = Cardinality(B(i - 1)) + 1
    BY <2>1, <1>7, FS_AddElement
  <2> QED BY <2>1, <2>2, <1>6
<1>10. Cardinality(B(1)) = 0  BY <1>4, FS_EmptySet
<1>11. ServerColumnAt(1) = h
  <2>1. size * 0 = 0  BY DEF size
  <2> QED BY <2>1, <1>8, <1>10, <1>1
<1>12. Cardinality(B(i - 1)) \in Nat  BY <1>3, <1>5
<1> DEFINE c == Cardinality(B(i - 1))
           d == Cardinality(B(i))
           here == ServerColumnAt(i)
           there == ServerColumnAt(i - 1)
           null == i - 1 \in row[1].nulls
<1>13. /\ c \in Nat /\ d = c + (IF null THEN 0 ELSE 1)
       /\ here = h + size * d /\ there = h + size * c
  BY <1>8, <1>9, <1>12
<1>14. size = 1 \/ size = 8  BY DEF size
<1> HIDE DEF c, d, here, there, null
<1>15. there \in Int /\ here = there + (IF null THEN 0 ELSE size)
  <2>1. CASE size = 1  BY <2>1, <1>1, <1>13
  <2>2. CASE size = 8  BY <2>2, <1>1, <1>13
  <2> QED BY <2>1, <2>2, <1>14
<1> QED BY <1>2, <1>11, <1>15 DEF here, there, null, size

(* attachsql_statement_row_get finds the columns where the server has put    *)
(* them.                                                                     *)
LEMMA OffsetsFound ==
    ASSUME columns \in Nat, row[1].size \in {1, 8}, RowGet
    PROVE  /\ read_at' \in [1..columns -> Int]
           /\ \A i \in 1..columns : read_at'[i] = ServerColumnAt(i)
<1> DEFINE n == columns
           base == 1 + RowBitmap(columns)
           G(i, s) == s + (IF i - 1 \in row[1].nulls THEN 0 ELSE row[1].size)
           P(at) == at = [i \in 1..n |-> IF i = 1 THEN base ELSE G(i, at[i - 1])]
           at == CHOOSE at : P(at)
           g == [i \in 1..n |-> ServerColumnAt(i)]
           T == {i \in 1..n : at[i] = ServerColumnAt(i)}
<1>1. read_at' = at  BY DEF RowGet
<1>2. n \in Nat  OBVIOUS
<1>3. \A i \in 1..n : i # 1 => /\ ServerColumnAt(i - 1) \in Int
                               /\ ServerColumnAt(i) = G(i, ServerColumnAt(i - 1))
  BY ColumnsFollow
<1>4. ServerColumnAt(1) = base /\ base \in Int
  <2>1. 2 \in Nat \ {0, 1}  OBVIOUS
  <2>2. ServerColumnAt(1) = base  BY <2>1, ColumnsFollow
  <2>3. base \in Int  BY StatementAssumption DEF RowBitmap
  <2> QED BY <2>2, <2>3
<1> HIDE DEF base
<1>5. \A i \in 1..n : ServerColumnAt(i) \in Int
  <2> SUFFICES ASSUME NEW i \in 1..n PROVE ServerColumnAt(i) \in Int  OBVIOUS
  <2>1. CASE i = 1  BY <2>1, <1>4
  <2>2. CASE i # 1  BY <2>2, <1>3
  <2> QED BY <2>1, <2>2
<1> HIDE DEF G, n
<1>6. P(g)
  <2>1. ASSUME NEW i \in 1..n
        PROVE  g[i] = IF i = 1 THEN base ELSE G(i, g[i - 1])
    <3>1. CASE i = 1  BY <3>1, <1>4
    <3>2. CASE i # 1
      <4>1. i - 1 \in 1..n  BY <3>2, <1>2
      <4>2. g[i - 1] = ServerColumnAt(i - 1)  BY <4>1
      <4> QED BY <4>2, <1>3, <3>2
    <3> QED BY <3>1, <3>2
  <2> QED BY <2>1
<1>7. P(at)
  <2> HIDE DEF P
  <2> QED BY <1>6, Zenon
<1> HIDE DEF at, g
<1>8. T = 1..n
  <2>1. T \in SUBSET (1..n)  OBVIOUS
  <2>2. 1 <= n => 1 \in T  BY <1>2, <1>4, <1>7
  <2>3. ASSUME NEW i \in T, i + 1 <= n PROVE i + 1 \in T
    <3>1. i + 1 \in 1..n /\ i + 1 # 1 /\ i \in 1..n /\ (i + 1) - 1 = i
      BY <2>3, <1>2
    <3>2. at[i + 1] = G(i + 1, at[i])  BY <3>1, <1>7
    <3>3. at[i] = ServerColumnAt(i)  BY <2>3
    <3> QED BY <3>1, <3>2, <3>3, <1>3
  <2>4. 1 \in Int /\ n \in Int  BY <1>2
  <2> HIDE DEF T, P
  <2> QED BY <2>1, <2>2, <2>3, <2>4, Everywhere
<1>9. \A i \in 1..n : at[i] = ServerColumnAt(i)  BY <1>8
<1>10. DOMAIN at = 1..n /\ at = [i \in 1..n |-> at[i]]  BY <1>7
<1> QED BY <1>1, <1>5, <1>9, <1>10 DEF n

-----------------------------------------------------------------------------
(* Parameters                                                                *)

LEMMA DatetimesFinite ==
    ASSUME ParamOfIndex
    PROVE  /\ IsFiniteSet(Datetimes) /\ Cardinality(Datetimes) \in Nat
           /\ Datetimes \subseteq 1..Len(params)
<1>1. IsFiniteSet(1..Len(params))  BY FS_Interval DEF ParamOfIndex
<1>2. Datetimes \in SUBSET (1..Len(params))  BY DEF Datetimes, ParamOfIndex
<1> QED BY <1>1, <1>2, FS_Subset, FS_CardinalityType

(* A setter puts one parameter in place of another; if it takes note of a    *)
(* datetime it has, or had, one.                                             *)
LEMMA ParamSet ==
    ASSUME StatementInv, NEW i \in DOMAIN params, NEW p \in Param,
           params' = [params EXCEPT ![i] = p],
           p.datetime_alloc => p.data = "datetime" \/ p.covered
    PROVE  /\ params' \in Seq(Param)
           /\ DeletesOwn'
           /\ Datetimes' = IF p.data = "datetime" THEN Datetimes \union {i}
                                                  ELSE Datetimes \ {i}
           /\ Cardinality(Datetimes') =
                  Cardinality(Datetimes)
                      + (IF p.data = "datetime" THEN 1 ELSE 0)
                      - (IF i \in Datetimes THEN 1 ELSE 0)
<1>1. ParamOfIndex  BY ParamsTyped DEF StatementInv
<1>2. params' \in [1..Len(params) -> Param] /\ Len(params) \in Nat
  BY <1>1 DEF ParamOfIndex
<1>3. params' \in Seq(Param)
  <2>1. params \in Seq(Param) /\ i \in 1..Len(params)
    BY <1>1 DEF StatementInv, TypeOK, ParamOfIndex
  <2> QED BY <2>1, ExceptSeq
<1>4. DOMAIN params' = DOMAIN params
      /\ \A j \in DOMAIN params : params'[j] = IF j = i THEN p ELSE params[j]
  OBVIOUS
<1>5. DeletesOwn'
  <2> SUFFICES ASSUME NEW j \in DOMAIN params, params'[j].datetime_alloc
               PROVE  params'[j].data = "datetime" \/ params'[j].covered
    BY <1>4 DEF DeletesOwn, Deleted, Datetimes
  <2> QED BY <1>4 DEF StatementInv, DeletesOwn, Deleted, Datetimes
<1>6. Datetimes' = IF p.data = "datetime" THEN Datetimes \union {i}
                                          ELSE Datetimes \ {i}
  BY <1>4 DEF Datetimes
<1>7. IsFiniteSet(Datetimes) /\ Cardinality(Datetimes) \in Nat
  BY <1>1, DatetimesFinite
<1>8. Cardinality(Datetimes') =
          Cardinality(Datetimes) + (IF p.data = "datetime" THEN 1 ELSE 0)
                                 - (IF i \in Datetimes THEN 1 ELSE 0)
  <2> DEFINE D == Datetimes
             E == Datetimes'
  <2>1. IsFiniteSet(D) /\ Cardinality(D) \in Nat  BY <1>7
  <2>2. E = IF p.data = "datetime" THEN D \union {i} ELSE D \ {i}  BY <1>6
  <2> HIDE DEF D, E
  <2>3. Cardinality(D \union {i}) = IF i \in D THEN Cardinality(D) ELSE Cardinality(D) + 1
    BY <2>1, FS_AddElement
  <2>4. Cardinality(D \ {i}) = IF i \in D THEN Cardinality(D) - 1 ELSE Cardinality(D)
    BY <2>1, FS_RemoveElement
  <2>5. Cardinality(E) = Cardinality(D) + (IF p.data = "datetime" THEN 1 ELSE 0)
                                        - (IF i \in D THEN 1 ELSE 0)
    <3>1. CASE p.data = "datetime"  BY <3>1, <2>1, <2>2, <2>3
    <3>2. CASE p.data # "datetime"  BY <3>2, <2>1, <2>2, <2>4
    <3> QED BY <3>1, <3>2
  <2> QED BY <2>5 DEF D, E
<1> QED BY <1>3, <1>5, <1>6, <1>8

(* What a setter does to the parameters keeps the rest.                      *)
LEMMA SetterKeeps ==
    ASSUME StatementInv, NEW i, Sets(i), params' \in Seq(Param), DeletesOwn',
           live' \in 0..MaxLive,
           live' = lost' + Cardinality(Datetimes'), lost' \in Nat
    PROVE  StatementInv'
<1>1. phase = "ready" /\ phase' = "ready" /\ UNCHANGED <<exec_size, stmt_row, replaced,
                             packet, overrun, columns, row, read_at>>
  BY DEF Sets, sending, result
<1>2. TypeOK'
  <2>1. ParamOfIndex'  BY DEF ParamOfIndex
  <2>2. Cardinality(Datetimes') \in Nat
    <3>1. IsFiniteSet(1..Len(params'))  BY <2>1, FS_Interval DEF ParamOfIndex
    <3>2. Datetimes' \in SUBSET (1..Len(params'))
      BY <2>1 DEF Datetimes, ParamOfIndex
    <3> QED BY <3>1, <3>2, FS_Subset, FS_CardinalityType
  <2>3. lost' \in 0..MaxLive  BY <2>2, StatementAssumption
  <2> QED BY <1>1, <2>3 DEF StatementInv, TypeOK
<1>3. ExecFits' /\ RowDecoded'
  BY <1>1 DEF StatementInv, ExecFits, RowDecoded, ServerColumnAt
<1>4. HeapInv'
  BY <1>1 DEF StatementInv, HeapInv
<1>5. PacketInv' /\ RowInv'
  BY <1>1 DEF StatementInv, PacketInv, RowInv
<1> QED BY <1>2, <1>3, <1>4, <1>5 DEF StatementInv

LEMMA SetNumberStep ==
    ASSUME StatementInv, NEW i, NEW type, SetNumber(i, type) PROVE StatementInv'
<1> DEFINE p == [params[i] EXCEPT !.data = "number", !.type = type,
                                  !.covered = Covers(i)]
<1>1. i \in DOMAIN params /\ params[i] \in Param /\ type \in AllTypes
  BY StatementAssumption DEF SetNumber, Sets, StatementInv, TypeOK
<1>2. params' = [params EXCEPT ![i] = p]  BY DEF SetNumber
<1>3. Covers(i) \in BOOLEAN  BY <1>1 DEF Covers, Param
<1>4. p \in Param /\ p.data = "number" /\ p.covered = Covers(i)
      /\ p.datetime_alloc = params[i].datetime_alloc
  BY <1>1, <1>3 DEF Param
<1>5. params[i].datetime_alloc => Covers(i)
  BY <1>1 DEF StatementInv, DeletesOwn, Deleted, Covers
<1> HIDE DEF p
<1>6. /\ params' \in Seq(Param) /\ DeletesOwn'
      /\ Cardinality(Datetimes') =
             Cardinality(Datetimes) + 0 - (IF i \in Datetimes THEN 1 ELSE 0)
  <2>1. p.data # "datetime"  BY <1>4
  <2>2. p.datetime_alloc => p.data = "datetime" \/ p.covered  BY <1>4, <1>5, Zenon
  <2> QED BY <1>1, <1>2, <1>4, <2>1, <2>2, ParamSet
<1>7. ParamOfIndex  BY ParamsTyped DEF StatementInv
<1>8. Cardinality(Datetimes) \in Nat  BY <1>7, DatetimesFinite
<1>9. live' = live /\ lost' = IF i \in Datetimes THEN lost + 1 ELSE lost
  BY DEF SetNumber, Loses
<1>10. live' \in 0..MaxLive /\ lost' \in Nat /\ live' = lost' + Cardinality(Datetimes')
  BY <1>6, <1>8, <1>9 DEF StatementInv, TypeOK, HeapInv
<1> QED BY <1>6, <1>10, SetterKeeps DEF SetNumber

LEMMA SetStringStep ==
    ASSUME StatementInv, NEW i, NEW type, NEW length \in StringSizes,
           SetString(i, type, length)
    PROVE  StatementInv'
<1> DEFINE p == [params[i] EXCEPT !.data = "string", !.size = length, !.type = type,
                                  !.covered = Covers(i)]
<1>1. i \in DOMAIN params /\ params[i] \in Param /\ type \in AllTypes /\ length \in Nat
  BY StatementAssumption DEF SetString, Sets, StatementInv, TypeOK
<1>2. params' = [params EXCEPT ![i] = p]  BY DEF SetString
<1>3. Covers(i) \in BOOLEAN  BY <1>1 DEF Covers, Param
<1>4. p \in Param /\ p.data = "string" /\ p.covered = Covers(i)
      /\ p.datetime_alloc = params[i].datetime_alloc
  BY <1>1, <1>3 DEF Param
<1>5. params[i].datetime_alloc => Covers(i)
  BY <1>1 DEF StatementInv, DeletesOwn, Deleted, Covers
<1> HIDE DEF p
<1>6. /\ params' \in Seq(Param) /\ DeletesOwn'
      /\ Cardinality(Datetimes') =
             Cardinality(Datetimes) + 0 - (IF i \in Datetimes THEN 1 ELSE 0)
  <2>1. p.data # "datetime"  BY <1>4
  <2>2. p.datetime_alloc => p.data = "datetime" \/ p.covered  BY <1>4, <1>5, Zenon
  <2> QED BY <1>1, <1>2, <1>4, <2>1, <2>2, ParamSet
<1>7. ParamOfIndex  BY ParamsTyped DEF StatementInv
<1>8. Cardinality(Datetimes) \in Nat  BY <1>7, DatetimesFinite
<1>9. live' = live /\ lost' = IF i \in Datetimes THEN lost + 1 ELSE lost
  BY DEF SetString, Loses
<1>10. live' \in 0..MaxLive /\ lost' \in Nat /\ live' = lost' + Cardinality(Datetimes')
  BY <1>6, <1>8, <1>9 DEF StatementInv, TypeOK, HeapInv
<1> QED BY <1>6, <1>10, SetterKeeps DEF SetString

LEMMA SetNullStep ==
    ASSUME StatementInv, NEW i, SetNull(i) PROVE StatementInv'
<1> DEFINE p == [params[i] EXCEPT !.type = "NULL"]
<1>1. i \in DOMAIN params /\ params[i] \in Param
  BY DEF SetNull, Sets, StatementInv, TypeOK
<1>2. params' = [params EXCEPT ![i] = p]  BY DEF SetNull
<1>3. p \in Param /\ p.data = params[i].data /\ p.covered = params[i].covered
      /\ p.datetime_alloc = params[i].datetime_alloc
  BY <1>1 DEF Param, AllTypes
<1>4. params[i].datetime_alloc => params[i].data = "datetime" \/ params[i].covered
  BY <1>1 DEF StatementInv, DeletesOwn, Deleted, Datetimes
<1>5. p.data = "datetime" <=> i \in Datetimes  BY <1>1, <1>3 DEF Datetimes
<1> HIDE DEF p
<1>6. /\ params' \in Seq(Param) /\ DeletesOwn'
      /\ Datetimes' = IF p.data = "datetime" THEN Datetimes \union {i}
                                             ELSE Datetimes \ {i}
  <2>1. p.datetime_alloc => p.data = "datetime" \/ p.covered  BY <1>3, <1>4, Zenon
  <2> QED BY <1>1, <1>2, <1>3, <2>1, ParamSet
<1>7. Datetimes' = Datetimes  BY <1>5, <1>6
<1>8. live' = live /\ lost' = lost  BY DEF SetNull, heap
<1>9. live' \in 0..MaxLive /\ lost' \in Nat /\ live' = lost' + Cardinality(Datetimes')
  BY <1>7, <1>8 DEF StatementInv, TypeOK, HeapInv
<1> QED BY <1>6, <1>9, SetterKeeps DEF SetNull

LEMMA SetDatetimeStep ==
    ASSUME StatementInv, NEW i, NEW type, SetDatetime(i, type) PROVE StatementInv'
<1> DEFINE p == [params[i] EXCEPT !.data = "datetime", !.type = type,
                                  !.datetime_alloc = (type = "DATETIME"),
                                  !.covered = FALSE]
<1>1. i \in DOMAIN params /\ params[i] \in Param /\ type \in AllTypes
  BY StatementAssumption DEF SetDatetime, Sets, StatementInv, TypeOK
<1>2. params' = [params EXCEPT ![i] = p]  BY DEF SetDatetime
<1>3. p \in Param /\ p.data = "datetime"  BY <1>1 DEF Param
<1> HIDE DEF p
<1>4. /\ params' \in Seq(Param) /\ DeletesOwn'
      /\ Cardinality(Datetimes') =
             Cardinality(Datetimes) + 1 - (IF i \in Datetimes THEN 1 ELSE 0)
  BY <1>1, <1>2, <1>3, ParamSet
<1>5. ParamOfIndex  BY ParamsTyped DEF StatementInv
<1>6. Cardinality(Datetimes) \in Nat  BY <1>5, DatetimesFinite
<1>7. live < MaxLive /\ live' = live + 1
      /\ lost' = IF i \in Datetimes THEN lost + 1 ELSE lost
  BY DEF SetDatetime, Loses
<1>8. live' \in 0..MaxLive /\ lost' \in Nat /\ live' = lost' + Cardinality(Datetimes')
  BY <1>4, <1>6, <1>7, StatementAssumption DEF StatementInv, TypeOK, HeapInv
<1> QED BY <1>4, <1>8, SetterKeeps DEF SetDatetime

-----------------------------------------------------------------------------
(* Preparing, executing and closing                                          *)

LEMMA NoParams ==
    ASSUME params = << >> PROVE Datetimes = {} /\ Cardinality(Datetimes) = 0
BY FS_EmptySet DEF Datetimes

LEMMA PrepareStep == ASSUME StatementInv, Prepare PROVE StatementInv'
<1>1. ParamOfIndex  BY ParamsTyped DEF StatementInv
<1>2. Cardinality(Datetimes) \in Nat  BY <1>1, DatetimesFinite
<1>3. Datetimes' = {} /\ Cardinality(Datetimes') = 0
  BY FS_EmptySet DEF Prepare, Datetimes
<1>4. params' = << >> /\ live' = live /\ lost' = lost + Cardinality(Datetimes)
      /\ exec_size' = 0 /\ phase' = "preparing" /\ phase \in {"none", "ready"}
      /\ UNCHANGED <<packet, overrun, columns, row, read_at, stmt_row>>
      /\ replaced' = (replaced \/ phase = "ready")
  BY DEF Prepare, sending, result
<1>5. live \in 0..MaxLive /\ lost \in 0..MaxLive /\ live = lost + Cardinality(Datetimes)
  BY DEF StatementInv, TypeOK, HeapInv
<1>6. live' = lost' + 0 /\ lost' \in 0..MaxLive  BY <1>2, <1>4, <1>5
<1>7. TypeOK'
  <2>1. params' \in Seq(Param)  BY <1>4
  <2>2. replaced' \in BOOLEAN  BY <1>4 DEF StatementInv, TypeOK
  <2> QED BY <2>1, <2>2, <1>4, <1>5, <1>6 DEF StatementInv, TypeOK
<1>8. DeletesOwn'  BY <1>4 DEF DeletesOwn, Deleted
<1>9. ExecFits' /\ RowDecoded'
  BY <1>4 DEF StatementInv, ExecFits, RowDecoded, ServerColumnAt
<1>10. HeapInv'
  <2>1. exec_size' \in BufferSizes  BY <1>4 DEF BufferSizes
  <2> QED BY <2>1, <1>3, <1>4, <1>6 DEF HeapInv
<1>11. PacketInv' /\ RowInv'
  BY <1>4 DEF StatementInv, PacketInv, RowInv
<1> QED BY <1>7, <1>8, <1>9, <1>10, <1>11 DEF StatementInv

LEMMA PrepareResponseStep ==
    ASSUME StatementInv, NEW n \in ParamCounts, NEW c \in ColumnCounts,
           PrepareResponse(n, c)
    PROVE  StatementInv'
<1>1. n \in Nat /\ c \in Nat  BY StatementAssumption
<1>2. phase = "preparing" /\ phase' = "ready" /\ params' = [i \in 1..n |-> NewParam]
      /\ columns' = c
      /\ UNCHANGED <<exec_size, packet, overrun, row, read_at, stmt_row, live, lost,
                     replaced>>
  BY DEF PrepareResponse, sending, heap
<1>3. NewParam \in Param /\ ~NewParam.datetime_alloc /\ NewParam.data # "datetime"
  BY DEF NewParam, Param, AllTypes
<1>4. params' \in Seq(Param)  BY <1>1, <1>2, <1>3
<1>5. DOMAIN params' = 1..n /\ \A i \in 1..n : params'[i] = NewParam  BY <1>2
<1>6. Datetimes' = {}  BY <1>3, <1>5 DEF Datetimes
<1>7. Datetimes = {} /\ Cardinality(Datetimes) = 0
  BY <1>2, NoParams DEF StatementInv, HeapInv
<1>8. TypeOK'  BY <1>1, <1>2, <1>4 DEF StatementInv, TypeOK
<1>9. DeletesOwn'  BY <1>3, <1>5 DEF DeletesOwn, Deleted
<1>10. row = << >> /\ read_at = << >>  BY <1>2 DEF StatementInv, RowInv
<1>11. ExecFits' /\ RowDecoded'
  <2>1. RowDecoded'  BY <1>2, <1>10 DEF RowDecoded
  <2> QED BY <2>1, <1>2 DEF StatementInv, ExecFits
<1>12. HeapInv'
  <2>1. Cardinality(Datetimes') = Cardinality(Datetimes)  BY <1>6, <1>7
  <2> QED BY <2>1, <1>2 DEF StatementInv, HeapInv
<1>13. PacketInv'  BY <1>2 DEF PacketInv
<1>14. RowInv'  BY <1>2, <1>10 DEF StatementInv, RowInv
<1> QED BY <1>8, <1>9, <1>11, <1>12, <1>13, <1>14 DEF StatementInv

(* What attachsql_statement_close deletes and what it does not delete are    *)
(* together all the datetimes there are.                                     *)
LEMMA CloseStep == ASSUME StatementInv, Close PROVE StatementInv'
<1> DEFINE D == Deleted \intersect Datetimes
<1>1. ParamOfIndex  BY ParamsTyped DEF StatementInv
<1>2. IsFiniteSet(Datetimes) /\ Cardinality(Datetimes) \in Nat
  BY <1>1, DatetimesFinite
<1>3. D \in SUBSET Datetimes /\ Unowned = Datetimes \ D
  BY DEF Unowned, Deleted, Datetimes
<1> HIDE DEF D
<1>4. IsFiniteSet(D) /\ Cardinality(D) \in Nat
  BY <1>2, <1>3, FS_Subset, FS_CardinalityType
<1>5. Cardinality(Unowned) = Cardinality(Datetimes) - Cardinality(D)
  <2>1. Datetimes \intersect D = D  BY <1>3
  <2>2. Cardinality(Datetimes \ D) =
            Cardinality(Datetimes) - Cardinality(Datetimes \intersect D)
    BY <1>2, FS_Difference
  <2> QED BY <2>1, <2>2, <1>3
<1>6. params' = << >> /\ live' = live - Cardinality(D)
      /\ lost' = lost + Cardinality(Unowned)
      /\ exec_size' = 0 /\ phase' = "none" /\ phase = "ready" /\ stmt_row' = 0
      /\ replaced' = FALSE
      /\ UNCHANGED <<packet, overrun, columns, row, read_at>>
  BY DEF Close, sending, result, D
<1>7. Datetimes' = {} /\ Cardinality(Datetimes') = 0
  BY <1>6, FS_EmptySet DEF Datetimes
<1>8. live \in 0..MaxLive /\ lost \in 0..MaxLive /\ live = lost + Cardinality(Datetimes)
  BY DEF StatementInv, TypeOK, HeapInv
<1>9. live' = lost' + 0 /\ lost' \in 0..MaxLive /\ live' \in 0..MaxLive
  <2>1. Cardinality(Unowned) \in Nat
    <3>1. Unowned \in SUBSET Datetimes  BY <1>3
    <3> QED BY <3>1, <1>2, FS_Subset, FS_CardinalityType
  <2> QED BY <2>1, <1>2, <1>4, <1>5, <1>6, <1>8, StatementAssumption
<1>10. TypeOK'
  <2>1. params' \in Seq(Param)  BY <1>6
  <2> QED BY <2>1, <1>6, <1>9 DEF StatementInv, TypeOK
<1>11. DeletesOwn'  BY <1>6 DEF DeletesOwn, Deleted
<1>12. row = << >> /\ read_at = << >>  BY <1>6 DEF StatementInv, RowInv
<1>13. ExecFits' /\ RowDecoded'
  <2>1. RowDecoded'  BY <1>6, <1>12 DEF RowDecoded
  <2> QED BY <2>1, <1>6 DEF StatementInv, ExecFits
<1>14. HeapInv'
  <2>1. exec_size' \in BufferSizes  BY <1>6 DEF BufferSizes
  <2> QED BY <2>1, <1>6, <1>7, <1>9 DEF HeapInv
<1>15. PacketInv' /\ RowInv'
  BY <1>6, <1>12 DEF StatementInv, PacketInv, RowInv
<1> QED BY <1>10, <1>11, <1>13, <1>14, <1>15 DEF StatementInv

(* The buffer is at least as large as the first allocation, so a value that  *)
(* ends behind the buffer ends behind that too.                              *)
LEMMA ExecuteStep == ASSUME StatementInv, Execute PROVE StatementInv'
<1>1. ParamOfIndex  BY ParamsTyped DEF StatementInv
<1>2. exec_size \in BufferSizes  BY DEF StatementInv, HeapInv
<1>3. /\ phase = "ready" /\ phase' = "executing" /\ packet' = AllWritten
      /\ exec_size' = SizeAt[Len(params)]
      /\ overrun' = \E i \in NotNull : ValuesAt[i] + ValueSize(params[i]) > SizeAt[i]
      /\ UNCHANGED <<params, columns, row, read_at, stmt_row, live, lost, replaced>>
  BY DEF Execute, result, heap
<1>4. \A i \in 0..Len(params) : SizeAt[i] \in Nat /\ SizeAt[i] >= DefaultSize
  BY <1>1, <1>2, SizeAtAllocated DEF Allocated
<1>5. exec_size' \in Nat /\ exec_size' >= DefaultSize
  <2>1. Len(params) \in 0..Len(params)  BY <1>1 DEF ParamOfIndex
  <2> QED BY <2>1, <1>3, <1>4
<1>6. overrun' \in BOOLEAN  BY <1>3
<1>7. TypeOK'  BY <1>3, <1>5, <1>6 DEF StatementInv, TypeOK
<1>8. DeletesOwn' /\ RowDecoded'
  BY <1>3 DEF StatementInv, DeletesOwn, Deleted, Datetimes, RowDecoded, ServerColumnAt
<1>9. ASSUME overrun'
      PROVE  \E k \in DOMAIN packet' : packet'[k].at + packet'[k].size > DefaultSize
  <2>1. PICK i \in NotNull : ValuesAt[i] + ValueSize(params[i]) > SizeAt[i]
    BY <1>3, <1>9
  <2>2. PICK k \in DOMAIN AllWritten : AllWritten[k] = ValueEntry(i)
    BY <1>1, ValueWritten
  <2>3. i \in 1..Len(params) /\ i \in 0..Len(params) /\ i \in 1..(Len(params) + 1)
    BY <1>1 DEF NotNull, ParamOfIndex
  <2>4. ValuesAt[i] \in Int  BY <1>1, <2>3, ValuesFollow
  <2>5. ValueSize(params[i]) \in Nat  BY <1>1, <2>3, ValueSizeNat DEF ParamOfIndex
  <2>6. SizeAt[i] \in Nat /\ SizeAt[i] >= DefaultSize  BY <2>3, <1>4
  <2>7. ValuesAt[i] + ValueSize(params[i]) > DefaultSize
    BY <2>1, <2>4, <2>5, <2>6, StatementAssumption
  <2>8. packet'[k].at = ValuesAt[i] /\ packet'[k].size = ValueSize(params[i])
    BY <1>3, <2>2 DEF ValueEntry
  <2> QED BY <1>3, <2>2, <2>7, <2>8
<1>10. ExecFits'  BY <1>9 DEF ExecFits
<1>11. HeapInv'
  <2>1. exec_size' \in BufferSizes  BY <1>5 DEF BufferSizes
  <2>2. Datetimes' = Datetimes  BY <1>3 DEF Datetimes
  <2> QED BY <2>1, <2>2, <1>3 DEF StatementInv, HeapInv
<1>12. AllWritten' = AllWritten
  <2>1. params' = params  BY <1>3
  <2> QED BY <2>1 DEF AllWritten, Written, IsNull, TypeAt, TypesStart, NullBytes,
                      ValuesAt, NotNull, ValueSize
<1>13. PacketInv' /\ RowInv'
  BY <1>3, <1>12 DEF StatementInv, PacketInv, RowInv
<1> QED BY <1>7, <1>8, <1>10, <1>11, <1>13 DEF StatementInv

LEMMA ExecuteResponseStep == ASSUME StatementInv, ExecuteResponse PROVE StatementInv'
<1>1. /\ phase = "executing" /\ phase' \in {"rows", "ready"} /\ overrun' = FALSE
      /\ UNCHANGED <<params, exec_size, columns, row, read_at, stmt_row, live, lost,
                     replaced>>
  BY DEF ExecuteResponse, binding, result, heap
<1>2. TypeOK'  BY <1>1 DEF StatementInv, TypeOK
<1>3. DeletesOwn' /\ RowDecoded' /\ ExecFits'
  BY <1>1 DEF StatementInv, DeletesOwn, Deleted, Datetimes, RowDecoded, ServerColumnAt,
              ExecFits
<1>4. HeapInv' /\ PacketInv' /\ RowInv'
  BY <1>1 DEF StatementInv, HeapInv, PacketInv, RowInv, Datetimes
<1> QED BY <1>2, <1>3, <1>4 DEF StatementInv

-----------------------------------------------------------------------------
(* Rows                                                                      *)

(* A step of the rows leaves the parameters alone.                           *)
LEMMA RowsKeep ==
    ASSUME StatementInv,
           UNCHANGED <<params, exec_size, packet, overrun, columns, live, lost, replaced>>,
           phase = "rows", phase' \in {"rows", "ready"}, stmt_row' \in Nat,
           Len(row') <= 1
    PROVE  TypeOK' /\ DeletesOwn' /\ ExecFits' /\ HeapInv' /\ PacketInv'
<1>1. TypeOK'  BY DEF StatementInv, TypeOK
<1>2. DeletesOwn' /\ ExecFits'
  BY DEF StatementInv, DeletesOwn, Deleted, Datetimes, ExecFits
<1>3. HeapInv' /\ PacketInv'  BY DEF StatementInv, HeapInv, PacketInv, Datetimes
<1> QED BY <1>1, <1>2, <1>3

LEMMA ReadRowStep ==
    ASSUME StatementInv, NEW nulls \in SUBSET {1, columns}, NEW size \in {1, 8},
           ReadRow(nulls, size)
    PROVE  StatementInv'
<1> DEFINE r == [nulls |-> nulls, size |-> size]
<1>1. /\ phase = "rows" /\ phase' = "rows" /\ row' = <<r>> /\ read_at' = << >>
      /\ UNCHANGED <<params, exec_size, packet, overrun, columns, live, lost, replaced,
                     stmt_row>>
  BY DEF ReadRow, binding, sending, heap
<1>2. columns \in Nat /\ stmt_row \in Nat  BY DEF StatementInv, TypeOK
<1>3. r \in [nulls : SUBSET Int, size : {1, 8}]  BY <1>2
<1> HIDE DEF r
<1>4. row' \in Seq([nulls : SUBSET Int, size : {1, 8}]) /\ Len(row') = 1 /\ row' # << >>
  BY <1>1, <1>3
<1>5. TypeOK' /\ DeletesOwn' /\ ExecFits' /\ HeapInv' /\ PacketInv'
  BY <1>1, <1>2, <1>4, RowsKeep
<1>6. RowDecoded'  BY <1>1 DEF RowDecoded
<1>7. RowInv'  BY <1>1, <1>4 DEF StatementInv, RowInv
<1> QED BY <1>5, <1>6, <1>7 DEF StatementInv

LEMMA RowGetStep == ASSUME StatementInv, RowGet PROVE StatementInv'
<1>1. /\ phase = "rows" /\ phase' = "rows" /\ row # << >>
      /\ stmt_row' = IF stmt_row = 0 THEN columns ELSE stmt_row
      /\ UNCHANGED <<params, exec_size, packet, overrun, columns, row, live, lost,
                     replaced>>
  BY DEF RowGet, binding, sending, heap
<1>2. columns \in Nat /\ stmt_row \in Nat /\ Len(row) <= 1
  BY DEF StatementInv, TypeOK
<1>3. row[1].size \in {1, 8}
  <2>1. row \in Seq([nulls : SUBSET Int, size : {1, 8}])  BY DEF StatementInv, RowInv
  <2> DEFINE Rows == [nulls : SUBSET Int, size : {1, 8}]
  <2>2. row[1] \in Rows
    <3>1. row \in Seq(Rows)  BY <2>1
    <3> HIDE DEF Rows
    <3>2. Len(row) \in Nat /\ Len(row) # 0  BY <3>1, <1>1, EmptySeq
    <3>3. Len(row) <= 1  BY <1>2
    <3> DEFINE l == Len(row)
    <3>4. l = 1
      <4>1. l \in Nat /\ l # 0 /\ l <= 1  BY <3>2, <3>3
      <4> HIDE DEF l
      <4> QED BY <4>1
    <3> QED BY <3>1, <3>4
  <2> QED BY <2>2
<1>4. /\ read_at' \in [1..columns -> Int]
      /\ \A i \in 1..columns : read_at'[i] = ServerColumnAt(i)
  BY <1>2, <1>3, OffsetsFound
<1>5. TypeOK' /\ DeletesOwn' /\ ExecFits' /\ HeapInv' /\ PacketInv'
  <2>1. stmt_row' \in Nat /\ Len(row') <= 1  BY <1>1, <1>2
  <2> QED BY <2>1, <1>1, RowsKeep
<1>6. RowDecoded'
  <2>1. \A i : ServerColumnAt(i)' = ServerColumnAt(i)  BY <1>1 DEF ServerColumnAt
  <2>2. DOMAIN read_at' = 1..columns  BY <1>4
  <2> QED BY <2>1, <2>2, <1>4 DEF RowDecoded
<1>7. RowInv'
  <2>1. read_at' # << >> => stmt_row' # 0
    <3>1. CASE columns = 0
      <4>1. read_at' = << >>  BY <3>1, <1>4
      <4> QED BY <4>1
    <3>2. CASE columns # 0  BY <3>2, <1>1
    <3> QED BY <3>1, <3>2
  <2>2. replaced' \/ stmt_row' \in {0, columns'}  BY <1>1 DEF StatementInv, RowInv
  <2> QED BY <2>1, <2>2, <1>1, <1>4 DEF StatementInv, RowInv
<1> QED BY <1>5, <1>6, <1>7 DEF StatementInv

LEMMA RowNextStep == ASSUME StatementInv, RowNext PROVE StatementInv'
<1>1. /\ phase = "rows" /\ phase' = "rows" /\ row' = << >> /\ read_at' = << >>
      /\ UNCHANGED <<params, exec_size, packet, overrun, columns, live, lost, replaced,
                     stmt_row>>
  BY DEF RowNext, binding, sending, heap
<1>2. stmt_row' \in Nat /\ Len(row') <= 1  BY <1>1 DEF StatementInv, TypeOK
<1>3. TypeOK' /\ DeletesOwn' /\ ExecFits' /\ HeapInv' /\ PacketInv'
  BY <1>1, <1>2, RowsKeep
<1>4. RowDecoded'  BY <1>1 DEF RowDecoded
<1>5. row' \in Seq([nulls : SUBSET Int, size : {1, 8}])  BY <1>1
<1>6. RowInv'  BY <1>1, <1>5 DEF StatementInv, RowInv
<1> QED BY <1>3, <1>4, <1>6 DEF StatementInv

LEMMA RowsEndStep == ASSUME StatementInv, RowsEnd PROVE StatementInv'
<1>1. /\ phase = "rows" /\ phase' = "ready" /\ row = << >>
      /\ UNCHANGED <<params, exec_size, packet, overrun, columns, row, read_at, live, lost,
                     replaced, stmt_row>>
  BY DEF RowsEnd, binding, sending, result, heap
<1>2. stmt_row' \in Nat /\ Len(row') <= 1  BY <1>1 DEF StatementInv, TypeOK
<1>3. TypeOK' /\ DeletesOwn' /\ ExecFits' /\ HeapInv' /\ PacketInv'
  BY <1>1, <1>2, RowsKeep
<1>4. read_at' = << >>  BY <1>1 DEF StatementInv, RowInv
<1>5. RowDecoded'  BY <1>4 DEF RowDecoded
<1>6. RowInv'  BY <1>1 DEF StatementInv, RowInv
<1> QED BY <1>3, <1>5, <1>6 DEF StatementInv

-----------------------------------------------------------------------------
(* The invariant                                                             *)

LEMMA InitInv == Init => StatementInv
<1> SUFFICES ASSUME Init PROVE StatementInv  OBVIOUS
<1> USE DEF Init
<1>1. Datetimes = {} /\ Cardinality(Datetimes) = 0  BY NoParams
<1>2. TypeOK
  <2>1. params \in Seq(Param)  OBVIOUS
  <2>2. 0 \in 0..MaxLive  BY StatementAssumption
  <2>3. Len(row) <= 1  OBVIOUS
  <2> QED BY <2>1, <2>2, <2>3 DEF TypeOK
<1>3. DeletesOwn /\ ExecFits /\ RowDecoded
  BY DEF DeletesOwn, Deleted, ExecFits, RowDecoded
<1>4. HeapInv  BY <1>1 DEF HeapInv, BufferSizes
<1>5. PacketInv /\ RowInv  BY DEF PacketInv, RowInv
<1> QED BY <1>2, <1>3, <1>4, <1>5 DEF StatementInv

LEMMA StutterStep == ASSUME StatementInv, UNCHANGED vars PROVE StatementInv'
<1>1. UNCHANGED <<phase, params, exec_size, packet, overrun, columns, row, read_at,
                  stmt_row, live, lost, replaced>>
  BY DEF vars, binding, sending, result, heap
<1>2. TypeOK' /\ DeletesOwn' /\ HeapInv'
  BY <1>1 DEF StatementInv, TypeOK, DeletesOwn, Deleted, Datetimes, HeapInv
<1>3. ExecFits' /\ RowDecoded' /\ RowInv'
  BY <1>1 DEF StatementInv, ExecFits, RowDecoded, ServerColumnAt, RowInv
<1>4. PacketInv'
  <2>1. AllWritten' = AllWritten
    BY <1>1 DEF AllWritten, Written, IsNull, TypeAt, TypesStart, NullBytes, ValuesAt,
                NotNull, ValueSize
  <2> QED BY <2>1, <1>1 DEF StatementInv, PacketInv
<1> QED BY <1>2, <1>3, <1>4 DEF StatementInv

LEMMA SetterStep == ASSUME StatementInv, Setter PROVE StatementInv'
<1>1. PICK n \in ParamCounts : \E i \in 1..n :
          \/ \E type \in Types : SetNumber(i, type) \/ SetDatetime(i, type)
          \/ \E type \in Types, length \in StringSizes : SetString(i, type, length)
          \/ SetNull(i)
  BY DEF Setter
<1> PICK i \in 1..n :
          \/ \E type \in Types : SetNumber(i, type) \/ SetDatetime(i, type)
          \/ \E type \in Types, length \in StringSizes : SetString(i, type, length)
          \/ SetNull(i)
  BY <1>1
<1>2. ASSUME NEW type \in Types, SetNumber(i, type) PROVE StatementInv'
  BY <1>2, SetNumberStep
<1>3. ASSUME NEW type \in Types, SetDatetime(i, type) PROVE StatementInv'
  BY <1>3, SetDatetimeStep
<1>4. ASSUME NEW type \in Types, NEW length \in StringSizes, SetString(i, type, length)
      PROVE  StatementInv'
  BY <1>4, SetStringStep
<1>5. ASSUME SetNull(i) PROVE StatementInv'  BY <1>5, SetNullStep
<1> QED BY <1>2, <1>3, <1>4, <1>5

LEMMA AnswerStep == ASSUME StatementInv, Answer PROVE StatementInv'
<1>1. ASSUME NEW n \in ParamCounts, NEW c \in ColumnCounts, PrepareResponse(n, c)
      PROVE  StatementInv'
  BY <1>1, PrepareResponseStep
<1>2. ASSUME NEW nulls \in SUBSET {1, columns}, NEW size \in {1, 8}, ReadRow(nulls, size)
      PROVE  StatementInv'
  BY <1>2, ReadRowStep
<1> QED BY <1>1, <1>2, ExecuteResponseStep, RowsEndStep DEF Answer

LEMMA StatementStep == ASSUME StatementInv, [Next]_vars PROVE StatementInv'
BY PrepareStep, CloseStep, ExecuteStep, RowGetStep, RowNextStep, SetterStep, AnswerStep,
   StutterStep DEF Next

-----------------------------------------------------------------------------
(* Theorems                                                                  *)

(* The invariant of a statement: memory, packet and row agree with what the  *)
(* application has bound and the server has sent.                            *)
THEOREM StatementInvCorrect == Spec => []StatementInv
BY InitInv, StatementStep, PTL DEF Spec

(* attachsql_statement_close deletes each datetime once and nothing else,    *)
(* but for the named exceptions (statement.cc:318).                          *)
THEOREM ParametersOwnedCorrect == Spec => []ParametersOwned
<1>1. StatementInv => ParametersOwned
  <2> SUFFICES ASSUME StatementInv PROVE ParametersOwned  OBVIOUS
  <2>1. NothingLeft
    <3> SUFFICES ASSUME phase = "none" PROVE live = lost  BY DEF NothingLeft
    <3>1. Cardinality(Datetimes) = 0  BY NoParams DEF StatementInv, HeapInv
    <3>2. live = lost + Cardinality(Datetimes) /\ lost \in Nat
      BY DEF StatementInv, HeapInv, TypeOK
    <3> QED BY <3>1, <3>2
  <2> QED BY <2>1 DEF StatementInv, ParametersOwned
<1> QED BY <1>1, StatementInvCorrect, PTL

(* The server reads every parameter as it was bound, for any number of       *)
(* parameters and any sizes (statement.cc:81).                               *)
THEOREM DecodedNullsLastCorrect == Spec => []DecodedNullsLast
<1>1. StatementInv => DecodedNullsLast
  <2> SUFFICES ASSUME StatementInv, phase = "executing", NullsLast, NEW i \in NotNull
               PROVE  ServerReads(i)
    BY DEF DecodedNullsLast
  <2>1. ParamOfIndex /\ packet = AllWritten
    BY ParamsTyped DEF StatementInv, PacketInv
  <2> QED BY <2>1, ServerReadsAll
<1> QED BY <1>1, StatementInvCorrect, PTL

(* attachsql_statement_row_get finds every column of a row, in an array that *)
(* is large enough (statement_getset.cc:240).                                *)
THEOREM RowReadCorrect == Spec => []RowRead
<1>1. StatementInv => RowRead
  <2> SUFFICES ASSUME StatementInv PROVE RowRead  OBVIOUS
  <2>1. RowFits
    <3> SUFFICES ASSUME Len(read_at) > stmt_row PROVE replaced  BY DEF RowFits
    <3>1. columns \in Nat /\ stmt_row \in Nat  BY DEF StatementInv, TypeOK
    <3>2. CASE read_at = << >>  BY <3>1, <3>2
    <3>3. CASE read_at # << >>
      <4>1. read_at \in [1..columns -> Int] /\ stmt_row # 0
        BY <3>3 DEF StatementInv, RowInv
      <4>2. Len(read_at) = columns  BY <3>1, <4>1
      <4>3. stmt_row # columns  BY <3>1, <4>2
      <4> QED BY <4>1, <4>3 DEF StatementInv, RowInv
    <3> QED BY <3>2, <3>3
  <2> QED BY <2>1 DEF StatementInv, RowRead
<1> QED BY <1>1, StatementInvCorrect, PTL

(* Only a packet longer than the first allocation is written behind the end  *)
(* of its buffer (statement.cc:245).                                         *)
THEOREM ExecFitsCorrect == Spec => []ExecFits
<1>1. StatementInv => ExecFits  BY DEF StatementInv
<1> QED BY <1>1, StatementInvCorrect, PTL

-----------------------------------------------------------------------------
(* Parameters of a query                                                     *)

(* Where the pieces are that a text is put together from.                    *)
Pieces(p, n, text, at) ==
    /\ at \in [1..(n + 1) -> Nat]
    /\ at[1] = 0 /\ at[n + 1] = Len(text)
    /\ \A i \in 1..n : /\ at[i + 1] = at[i] + Len(p[i])
                       /\ at[i + 1] <= Len(text)
                       /\ \A k \in 1..Len(p[i]) : text[at[i] + k] = p[i][k]

LEMMA UptoPieces ==
    ASSUME NEW C, NEW n \in Nat, n > 0, NEW p \in [1..n -> Seq(C)],
           NEW upto \in [1..n -> Seq(C)], upto[1] = p[1],
           \A i \in 2..n : upto[i] = upto[i - 1] \o p[i]
    PROVE  \E at : Pieces(p, n, upto[n], at)
<1> DEFINE at == [i \in 1..(n + 1) |-> IF i = 1 THEN 0 ELSE Len(upto[i - 1])]
           Begins(s, t) == /\ Len(s) <= Len(t)
                           /\ \A k \in 1..Len(s) : t[k] = s[k]
<1>1. \A i \in 1..n : upto[i] \in Seq(C) /\ Len(upto[i]) \in Nat
  OBVIOUS
<1>2. at \in [1..(n + 1) -> Nat]
  <2>1. \A i \in 1..(n + 1) : i # 1 => i - 1 \in 1..n  OBVIOUS
  <2> QED BY <2>1, <1>1
<1>3. at[1] = 0 /\ at[n + 1] = Len(upto[n])  OBVIOUS
<1>4. ASSUME NEW i \in 1..n PROVE Begins(upto[i], upto[n])
  <2> DEFINE T == {z \in i..n : Begins(upto[i], upto[z])}
  <2>1. i \in T
    <3>1. upto[i] \in Seq(C)  BY <1>1
    <3>2. Begins(upto[i], upto[i])  BY <3>1
    <3>3. i \in i..n  OBVIOUS
    <3> HIDE DEF Begins
    <3> QED BY <3>2, <3>3
  <2>2. ASSUME NEW z \in T, z + 1 <= n PROVE z + 1 \in T
    <3>1. z + 1 \in 2..n /\ (z + 1) - 1 = z /\ z \in 1..n /\ z + 1 \in i..n
      BY <2>2
    <3> DEFINE s == upto[i]
               t == upto[z]
               r == p[z + 1]
    <3>2. s \in Seq(C) /\ t \in Seq(C) /\ r \in Seq(C)  BY <3>1, <1>1
    <3>3. Begins(s, t)  BY <2>2
    <3>4. upto[z + 1] = t \o r  BY <3>1
    <3> HIDE DEF s, t, r
    <3>5. Begins(s, t \o r)  BY <3>2, <3>3
    <3> QED BY <3>1, <3>4, <3>5 DEF s
  <2>3. T \in SUBSET (i..n) /\ i \in Int /\ n \in Int  OBVIOUS
  <2> HIDE DEF T
  <2>4. T = i..n  BY <2>1, <2>2, <2>3, Everywhere
  <2>5. n \in i..n  OBVIOUS
  <2>6. n \in T  BY <2>4, <2>5
  <2> QED BY <2>6 DEF T
<1>5. ASSUME NEW i \in 1..n
      PROVE  /\ at[i + 1] = at[i] + Len(p[i])
             /\ at[i + 1] <= Len(upto[n])
             /\ \A k \in 1..Len(p[i]) : upto[n][at[i] + k] = p[i][k]
  <2>1. i + 1 \in 1..(n + 1) /\ i + 1 # 1 /\ (i + 1) - 1 = i  OBVIOUS
  <2>2. at[i + 1] = Len(upto[i])  BY <2>1
  <2>3. Begins(upto[i], upto[n])  BY <1>4
  <2>4. p[i] \in Seq(C) /\ upto[i] \in Seq(C)  BY <1>1
  <2>5. CASE i = 1
    <3>1. at[i] = 0 /\ upto[i] = p[i]  BY <2>5
    <3> DEFINE t == upto[n]
               r == p[i]
    <3>2. Begins(r, t) /\ r \in Seq(C)  BY <3>1, <2>3, <2>4
    <3> HIDE DEF at, t, r
    <3>3. at[i + 1] = at[i] + Len(r) /\ at[i + 1] <= Len(t)
      BY <3>1, <3>2, <2>2 DEF r
    <3>4. \A k \in 1..Len(r) : t[at[i] + k] = r[k]  BY <3>1, <3>2
    <3> QED BY <3>3, <3>4 DEF r, t
  <2>6. CASE i # 1
    <3>1. i \in 2..n /\ i - 1 \in 1..n /\ i \in 1..(n + 1)  BY <2>6
    <3> DEFINE s == upto[i - 1]
               r == p[i]
    <3>7. at[i] = Len(s)  BY <3>1, <2>6
    <3>2. at[i] = Len(s) /\ upto[i] = s \o r  BY <3>1, <3>7
    <3>3. s \in Seq(C) /\ r \in Seq(C)  BY <3>1, <1>1
    <3> DEFINE t == upto[n]
               u == upto[i]
    <3>5. Begins(u, t) /\ u = s \o r  BY <2>3, <3>2
    <3> HIDE DEF s, r, at, t, u
    <3>4. Len(s \o r) = Len(s) + Len(r)
          /\ \A k \in 1..Len(r) : (s \o r)[Len(s) + k] = r[k]
                                  /\ Len(s) + k \in 1..Len(s \o r)
      BY <3>3
    <3>6. \A k \in 1..Len(r) : t[Len(s) + k] = r[k]  BY <3>4, <3>5
    <3>8. at[i + 1] = at[i] + Len(r) /\ at[i + 1] <= Len(t)
      BY <2>2, <3>2, <3>4, <3>5 DEF u
    <3> QED BY <3>2, <3>6, <3>8 DEF r, t
  <2> QED BY <2>5, <2>6
<1> HIDE DEF at
<1>6. Pieces(p, n, upto[n], at)  BY <1>2, <1>3, <1>5 DEF Pieces
<1> QED BY <1>6

(* FlattenSeq puts the pieces one behind the other.                          *)
LEMMA FlattenedPieces ==
    ASSUME NEW C, NEW n \in Nat, NEW p \in [1..n -> Seq(C)]
    PROVE  /\ FlattenSeq(p) \in Seq(C)
           /\ \E at : Pieces(p, n, FlattenSeq(p), at)
<1>1. Len(p) = n  OBVIOUS
<1>2. CASE n = 0
  <2>1. p = << >>  BY <1>2
  <2>2. FlattenSeq(p) = << >>  BY <2>1 DEF FlattenSeq
  <2> DEFINE at == [i \in 1..1 |-> 0]
  <2>3. at \in [1..1 -> Nat] /\ at[1] = 0  OBVIOUS
  <2> HIDE DEF at
  <2>4. Pieces(p, n, << >>, at)  BY <1>2, <2>3 DEF Pieces
  <2> QED BY <2>2, <2>4
<1>3. CASE n > 0
  <2> DEFINE base == p[1]
             G(i, s) == s \o p[i]
             F == [i \in 1..n |-> [s \in Seq(C) |-> IF i = 1 THEN base ELSE G(i, s)]]
             Upto(f) == f = [i \in 1..n |-> IF i = 1 THEN p[i] ELSE G(i, f[i - 1])]
  <2>1. base \in Seq(C) /\ n \in Int /\ 1 \in Int  BY <1>3
  <2>2. \A i \in 1..n, s \in Seq(C) : G(i, s) \in Seq(C)  OBVIOUS
  <2> HIDE DEF base, G
  <2>3. F \in [1..n -> [Seq(C) -> Seq(C)]]  BY <2>1, <2>2
  <2>4. PICK f : Follows(f, Seq(C), 1, n, base, F)
    <3> HIDE DEF F
    <3> QED BY <2>1, <2>3, Recursion, Zenon
  <2>5. \A i \in 1..n : i # 1 => F[i][f[i - 1]] = G(i, f[i - 1])
    <3> SUFFICES ASSUME NEW i \in 1..n, i # 1
                 PROVE  F[i][f[i - 1]] = G(i, f[i - 1])  OBVIOUS
    <3>1. i - 1 \in 1..n  OBVIOUS
    <3>2. f[i - 1] \in Seq(C)  BY <2>4, <3>1 DEF Follows
    <3> QED BY <3>2
  <2> HIDE DEF F
  <2>6. Upto(f)  BY <2>4, <2>5 DEF Follows, base
  <2>7. FlattenSeq(p) = (CHOOSE g : Upto(g))[n]
    BY <1>1, <1>3 DEF FlattenSeq, G
  <2>8. PICK g : g = (CHOOSE h : Upto(h)) /\ FlattenSeq(p) = g[n]  BY <2>7
  <2>9. Upto(g)
    <3> HIDE DEF Upto
    <3> QED BY <2>6, <2>8, Zenon
  <2>10. g[1] = p[1]  BY <2>9, <1>3
  <2>11. \A i \in 2..n : g[i] = g[i - 1] \o p[i]
    <3> SUFFICES ASSUME NEW i \in 2..n PROVE g[i] = g[i - 1] \o p[i]  OBVIOUS
    <3>1. i \in 1..n /\ i # 1  OBVIOUS
    <3> QED BY <2>9, <3>1 DEF G
  <2>12. g \in [1..n -> Seq(C)]
    <3> DEFINE T == {i \in 1..n : g[i] \in Seq(C)}
    <3>1. 1 \in T  BY <2>10, <1>3
    <3>2. ASSUME NEW i \in T, i + 1 <= n PROVE i + 1 \in T
      <4>1. i + 1 \in 2..n /\ i + 1 \in 1..n /\ (i + 1) - 1 = i  BY <3>2
      <4>2. g[i + 1] = g[i] \o p[i + 1]  BY <4>1, <2>11
      <4>3. g[i] \in Seq(C) /\ p[i + 1] \in Seq(C)  BY <3>2, <4>1
      <4>4. g[i + 1] \in Seq(C)  BY <4>2, <4>3
      <4> QED BY <4>1, <4>4
    <3>3. T \in SUBSET (1..n)  OBVIOUS
    <3> HIDE DEF T
    <3>4. T = 1..n  BY <2>1, <3>1, <3>2, <3>3, Everywhere
    <3>5. \A i \in 1..n : g[i] \in Seq(C)  BY <3>4 DEF T
    <3>6. DOMAIN g = 1..n /\ g = [i \in DOMAIN g |-> g[i]]  BY <2>9
    <3> QED BY <3>5, <3>6
  <2>13. \E at : Pieces(p, n, g[n], at)  BY <1>3, <2>10, <2>11, <2>12, UptoPieces
  <2>14. g[n] \in Seq(C)  BY <1>3, <2>12
  <2> QED BY <2>8, <2>13, <2>14
<1> QED BY <1>2, <1>3

(* If no piece has more than two characters, the text has at most two for    *)
(* each.                                                                     *)
LEMMA TwiceAtMost ==
    ASSUME NEW C, NEW n \in Nat, NEW p \in [1..n -> Seq(C)],
           \A i \in 1..n : Len(p[i]) <= 2
    PROVE  Len(FlattenSeq(p)) <= 2 * n
<1> DEFINE text == FlattenSeq(p)
<1>1. PICK at : Pieces(p, n, text, at)  BY FlattenedPieces
<1> DEFINE T == {j \in 1..(n + 1) : at[j] <= 2 * (j - 1)}
<1>2. 1 \in T  BY <1>1 DEF Pieces
<1>3. ASSUME NEW j \in T, j + 1 <= n + 1 PROVE j + 1 \in T
  <2>1. j \in 1..n /\ j + 1 \in 1..(n + 1)  BY <1>3
  <2>2. at[j + 1] = at[j] + Len(p[j]) /\ at[j] \in Nat  BY <1>1, <2>1 DEF Pieces
  <2>3. Len(p[j]) <= 2 /\ Len(p[j]) \in Nat  BY <2>1
  <2>4. at[j] <= 2 * (j - 1)  BY <1>3
  <2> QED BY <2>1, <2>2, <2>3, <2>4
<1>4. T \in SUBSET (1..(n + 1)) /\ 1 \in Int /\ n + 1 \in Int  OBVIOUS
<1>5. T = 1..(n + 1)
  <2> HIDE DEF T
  <2> QED BY <1>2, <1>3, <1>4, Everywhere
<1>6. n + 1 \in T  BY <1>5
<1>7. at[n + 1] <= 2 * n  BY <1>6
<1> QED BY <1>1, <1>7 DEF Pieces

-----------------------------------------------------------------------------
(* Reading a text                                                            *)

Reader(C) == [read : Seq(C), open : {"no", "backslash", "delimiter", "end"}]

Start == [read |-> << >>, open |-> "no"]

LEMMA ReadNextTyped ==
    ASSUME NEW C, "newline" \in C, NEW s \in Reader(C), NEW c \in C,
           NEW within, NEW backslashes \in BOOLEAN
    PROVE  ReadNext(s, c, within, backslashes) \in Reader(C)
<1>1. Meaning(c) \in C  BY DEF Meaning
<1>2. Append(s.read, Meaning(c)) \in Seq(C)  BY <1>1 DEF Reader
<1>3. Append(s.read, c) \in Seq(C)  BY DEF Reader
<1> DEFINE a == Append(s.read, Meaning(c))
           b == Append(s.read, c)
<1>4. ReadNext(s, c, within, backslashes) =
        CASE s.open = "backslash" -> [read |-> a, open |-> "no"]
          [] s.open = "delimiter" -> IF c = within THEN [read |-> b, open |-> "no"]
                                     ELSE [s EXCEPT !.open = "end"]
          [] s.open = "end" -> s
          [] s.open = "no" -> IF c = within THEN [s EXCEPT !.open = "delimiter"]
                              ELSE IF c = "backslash" /\ backslashes
                                     THEN [s EXCEPT !.open = "backslash"]
                                     ELSE [s EXCEPT !.read = b]
  BY DEF ReadNext
<1>5. a \in Seq(C) /\ b \in Seq(C)  BY <1>2, <1>3
<1> HIDE DEF a, b
<1> QED BY <1>4, <1>5 DEF Reader

InOrder(after, C, text, within, backslashes) ==
    /\ after \in [0..Len(text) -> Reader(C)]
    /\ after[0] = Start
    /\ \A i \in 1..Len(text) :
           after[i] = ReadNext(after[i - 1], text[i], within, backslashes)
    /\ Read(text, within, backslashes) = after[Len(text)]

(* A text is read character by character.                                    *)
LEMMA ReadInOrder ==
    ASSUME NEW C, "newline" \in C, NEW text \in Seq(C),
           NEW within \in C, NEW backslashes \in BOOLEAN
    PROVE  \E after : InOrder(after, C, text, within, backslashes)
<1> DEFINE n == Len(text)
           S == Reader(C)
           G(i, s) == ReadNext(s, text[i], within, backslashes)
           F == [i \in 0..n |-> [s \in S |-> IF i = 0 THEN Start ELSE G(i, s)]]
           After(f) == f = [i \in 0..n |-> IF i = 0 THEN Start ELSE G(i, f[i - 1])]
<1>1. n \in Int /\ 0 \in Int /\ 0 <= n  OBVIOUS
<1>2. Start \in S
  <2>1. << >> \in Seq(C)  OBVIOUS
  <2> QED BY <2>1 DEF Start, Reader
<1>3. \A i \in 1..n, s \in S : G(i, s) \in S  BY ReadNextTyped
<1> HIDE DEF G, S
<1>4. F \in [0..n -> [S -> S]]
  <2>1. \A i \in 0..n : i # 0 => i \in 1..n  BY <1>1
  <2> QED BY <2>1, <1>2, <1>3
<1>5. PICK f : Follows(f, S, 0, n, Start, F)
  <2> HIDE DEF F, n
  <2> QED BY <1>1, <1>2, <1>4, Recursion, Zenon
<1>6. \A i \in 0..n : i # 0 => F[i][f[i - 1]] = G(i, f[i - 1])
  <2> SUFFICES ASSUME NEW i \in 0..n, i # 0
               PROVE  F[i][f[i - 1]] = G(i, f[i - 1])  OBVIOUS
  <2>1. i - 1 \in 0..n  BY <1>1
  <2>2. f[i - 1] \in S  BY <1>5, <2>1 DEF Follows
  <2> QED BY <2>2
<1> HIDE DEF F
<1>7. After(f)  BY <1>5, <1>6 DEF Follows
<1>8. Read(text, within, backslashes) = (CHOOSE g : After(g))[n]
  BY DEF Read, G, Start
<1>9. PICK g : g = (CHOOSE h : After(h)) /\ Read(text, within, backslashes) = g[n]
  BY <1>8
<1>10. After(g)
  <2> HIDE DEF After
  <2> QED BY <1>7, <1>9, Zenon
<1>11. g[0] = Start  BY <1>10, <1>1
<1>12. ASSUME NEW i \in 1..n PROVE g[i] = G(i, g[i - 1])
  <2>1. i \in 0..n /\ i # 0  BY <1>1
  <2> QED BY <2>1, <1>10
<1>13. g \in [0..n -> S]
  <2> DEFINE T == {i \in 0..n : g[i] \in S}
  <2>1. 0 \in T  BY <1>1, <1>2, <1>11
  <2>2. ASSUME NEW i \in T, i + 1 <= n PROVE i + 1 \in T
    <3>1. i + 1 \in 1..n /\ i + 1 \in 0..n /\ (i + 1) - 1 = i  BY <2>2, <1>1
    <3>2. g[i + 1] = G(i + 1, g[i])  BY <3>1, <1>12
    <3>3. g[i] \in S  BY <2>2
    <3> QED BY <3>1, <3>2, <3>3, <1>3
  <2>3. T \in SUBSET (0..n)  OBVIOUS
  <2> HIDE DEF T
  <2>4. T = 0..n  BY <1>1, <2>1, <2>2, <2>3, Everywhere
  <2>5. \A i \in 0..n : g[i] \in S  BY <2>4 DEF T
  <2>6. DOMAIN g = 0..n /\ g = [i \in DOMAIN g |-> g[i]]  BY <1>10
  <2> QED BY <2>5, <2>6
<1>14. InOrder(g, C, text, within, backslashes)
  BY <1>9, <1>11, <1>12, <1>13 DEF G, S, InOrder
<1> QED BY <1>14

LEMMA ReadPlain ==
    ASSUME NEW r, NEW c, NEW within, c # within,
           NEW backslashes, ~(c = "backslash" /\ backslashes)
    PROVE  ReadNext([read |-> r, open |-> "no"], c, within, backslashes)
             = [read |-> Append(r, c), open |-> "no"]
BY DEF ReadNext

LEMMA ReadDoubled ==
    ASSUME NEW r, NEW within, NEW backslashes
    PROVE  LET next == ReadNext([read |-> r, open |-> "no"], within, within, backslashes)
           IN  ReadNext(next, within, within, backslashes)
                 = [read |-> Append(r, within), open |-> "no"]
<1> DEFINE s == [read |-> r, open |-> "no"]
           t == [read |-> r, open |-> "delimiter"]
<1>1. ReadNext(s, within, within, backslashes) = t  BY DEF ReadNext
<1>2. ReadNext(t, within, within, backslashes) = [read |-> Append(r, within), open |-> "no"]
  BY DEF ReadNext
<1> QED BY <1>1, <1>2

LEMMA ReadEscaped ==
    ASSUME NEW r, NEW c, NEW within, within # "backslash"
    PROVE  LET next == ReadNext([read |-> r, open |-> "no"], "backslash", within, TRUE)
           IN  ReadNext(next, c, within, TRUE)
                 = [read |-> Append(r, Meaning(c)), open |-> "no"]
<1> DEFINE s == [read |-> r, open |-> "no"]
           t == [read |-> r, open |-> "backslash"]
<1>1. ReadNext(s, "backslash", within, TRUE) = t  BY DEF ReadNext
<1>2. ReadNext(t, c, within, TRUE) = [read |-> Append(r, Meaning(c)), open |-> "no"]
  BY DEF ReadNext
<1> QED BY <1>1, <1>2

(* A piece that is read as the character c.                                  *)
Means(piece, c, within, backslashes) ==
    \/ /\ piece = <<c>> /\ c # within
       /\ ~(c = "backslash" /\ backslashes)
    \/ piece = <<within, within>> /\ c = within
    \/ /\ piece[1] = "backslash" /\ Len(piece) = 2
       /\ backslashes /\ Meaning(piece[2]) = c

Spells(n, p, data, within, backslashes) ==
    \A i \in 1..n : Means(p[i], data[i], within, backslashes)

LEMMA LengthsDiffer ==
    ASSUME NEW q, Len(q) = 2, NEW c PROVE q # <<c>>
<1>1. Len(<<c>>) = 1  OBVIOUS
<1> QED BY <1>1

(* A text whose pieces are read as the characters of data is read as data.   *)
LEMMA PiecesRead ==
    ASSUME NEW C, "newline" \in C, NEW n \in Nat, NEW p \in [1..n -> Seq(C)],
           NEW data \in [1..n -> C], NEW backslashes \in BOOLEAN,
           NEW within \in C, within # "backslash",
           Spells(n, p, data, within, backslashes)
    PROVE  Read(FlattenSeq(p), within, backslashes) = [read |-> data, open |-> "no"]
<1> DEFINE text == FlattenSeq(p)
<1>1. text \in Seq(C)  BY FlattenedPieces
<1>2. PICK at : Pieces(p, n, text, at)  BY FlattenedPieces
<1> HIDE DEF text
<1>10. \E after : InOrder(after, C, text, within, backslashes)
  BY <1>1, ReadInOrder, Zenon
<1>3. PICK after \in [0..Len(text) -> Reader(C)] :
          /\ after[0] = Start
          /\ \A i \in 1..Len(text) :
                 after[i] = ReadNext(after[i - 1], text[i], within, backslashes)
          /\ Read(text, within, backslashes) = after[Len(text)]
  BY <1>10 DEF InOrder
<1> DEFINE Got(s, j) == /\ s.open = "no" /\ Len(s.read) = j
                        /\ \A k \in 1..j : s.read[k] = data[k]
           T == {j \in 1..(n + 1) : at[j] <= Len(text) /\ Got(after[at[j]], j - 1)}
<1>4. 1 \in T
  <2>1. at[1] = 0 /\ 0 <= Len(text)  BY <1>1, <1>2 DEF Pieces
  <2>2. Got(Start, 0)  BY DEF Start
  <2> HIDE DEF Got
  <2> QED BY <2>1, <2>2, <1>3
<1>5. ASSUME NEW j \in T, j + 1 <= n + 1 PROVE j + 1 \in T
  <2>1. j \in 1..n /\ j + 1 \in 1..(n + 1) /\ (j + 1) - 1 = j  BY <1>5
  <2> DEFINE q == p[j]
             c == data[j]
             m == at[j]
             s == after[m]
  <2>2. q \in Seq(C) /\ c \in C  BY <2>1
  <2>3. m \in Nat /\ m <= Len(text) /\ Got(s, j - 1)
    BY <1>2, <1>5, <2>1 DEF Pieces
  <2>4. s \in Reader(C)
    <3>1. m \in 0..Len(text)  BY <1>1, <2>3
    <3> HIDE DEF m
    <3> QED BY <3>1
  <2>5. /\ at[j + 1] = m + Len(q) /\ m + Len(q) <= Len(text)
        /\ \A k \in 1..Len(q) : text[m + k] = q[k]
    <3> HIDE DEF T
    <3> QED BY <1>2, <2>1 DEF Pieces
  <2>6. Means(q, c, within, backslashes)  BY <2>1 DEF Spells
  <2>7. Len(q) \in {1, 2}
    <3> HIDE DEF q, c
    <3>1. CASE q = <<c>>  BY <3>1
    <3>2. CASE q = <<within, within>>  BY <3>2
    <3> QED BY <2>6, <3>1, <3>2 DEF Means
  <2>8. after[m + 1] = ReadNext(s, q[1], within, backslashes)
    <3>1. m + 1 \in 1..Len(text) /\ (m + 1) - 1 = m /\ 1 \in 1..Len(q)
      <4>1. Len(text) \in Nat  BY <1>1
      <4>2. m \in Nat  BY <2>3
      <4> HIDE DEF m, q, Got, T
      <4> DEFINE l == Len(q)
                 z == Len(text)
      <4>3. l \in {1, 2} /\ m + l <= z /\ z \in Nat  BY <2>5, <2>7, <4>1
      <4> HIDE DEF l, z
      <4>4. m + 1 \in 1..z /\ (m + 1) - 1 = m /\ 1 \in 1..l  BY <4>2, <4>3
      <4> QED BY <4>4 DEF l, z
    <3>2. text[m + 1] = q[1]  BY <3>1, <2>5
    <3> HIDE DEF m, q, T
    <3> QED BY <3>1, <3>2, <1>3 DEF s
  <2>9. Len(q) = 2 => after[m + 2] = ReadNext(after[m + 1], q[2], within, backslashes)
    <3> SUFFICES ASSUME Len(q) = 2
                 PROVE  after[m + 2] = ReadNext(after[m + 1], q[2], within, backslashes)
      OBVIOUS
    <3>1. m + 2 \in 1..Len(text) /\ (m + 2) - 1 = m + 1 /\ 2 \in 1..Len(q)
      <4>1. Len(text) \in Nat  BY <1>1
      <4>2. m \in Nat  BY <2>3
      <4> HIDE DEF m, q, Got, T
      <4> DEFINE z == Len(text)
      <4>3. m + 2 <= z /\ z \in Nat  BY <2>5, <4>1
      <4> HIDE DEF z
      <4>4. m + 2 \in 1..z /\ (m + 2) - 1 = m + 1 /\ 2 \in 1..2  BY <4>2, <4>3
      <4> QED BY <4>4 DEF z
    <3>2. text[m + 2] = q[2]  BY <3>1, <2>5
    <3> HIDE DEF m, q, T
    <3> QED BY <3>1, <3>2, <1>3
  <2> HIDE DEF q, m, c, T, s
  <2> DEFINE b == s.read
             d == Append(b, c)
  <2>13. s = [read |-> b, open |-> "no"] /\ b \in Seq(C)
    BY <2>3, <2>4 DEF Reader
  <2>10. after[m + Len(q)] = [read |-> d, open |-> "no"]
    <3>1. CASE q = <<c>>
      <4>1. q[1] = c /\ Len(q) = 1  BY <3>1
      <4>2. c # within /\ ~(c = "backslash" /\ backslashes)
        BY <2>6, <3>1, <4>1 DEF Means
      <4> HIDE DEF b
      <4>3. ReadNext([read |-> b, open |-> "no"], c, within, backslashes)
              = [read |-> Append(b, c), open |-> "no"]
        BY <4>2, ReadPlain, Zenon
      <4> QED BY <4>1, <4>3, <2>8, <2>13
    <3>2. CASE Len(q) = 2
      <4>1. q # <<c>>  BY <3>2, LengthsDiffer, Zenon
      <4>2. CASE q = <<within, within>>
        <5>1. q[1] = within /\ q[2] = within  BY <4>2
        <5>2. c = within  BY <2>6, <4>1, <5>1 DEF Means
        <5> HIDE DEF b
        <5>3. ReadNext(ReadNext([read |-> b, open |-> "no"], within, within, backslashes),
                       within, within, backslashes)
                = [read |-> Append(b, within), open |-> "no"]
          BY ReadDoubled, Zenon
        <5>4. after[m + 1] = ReadNext(s, within, within, backslashes)
          BY <2>8, <5>1, Zenon
        <5>5. after[m + 2] = ReadNext(after[m + 1], within, within, backslashes)
          BY <2>9, <3>2, <5>1, Zenon
        <5> QED BY <3>2, <5>2, <5>3, <5>4, <5>5, <2>13
      <4>3. CASE q # <<within, within>>
        <5>1. q[1] = "backslash" /\ backslashes /\ Meaning(q[2]) = c
          BY <2>6, <4>1, <4>3 DEF Means
        <5>2. backslashes = TRUE  BY <5>1
        <5> HIDE DEF b
        <5>3. after[m + 2] = ReadNext(ReadNext(s, q[1], within, TRUE), q[2], within, TRUE)
          BY <3>2, <5>2, <2>8, <2>9, Zenon
        <5>4. after[m + 2] = [read |-> Append(b, Meaning(q[2])), open |-> "no"]
          BY <5>1, <5>3, <2>13, ReadEscaped
        <5> QED BY <3>2, <5>1, <5>4
      <4> QED BY <4>2, <4>3
    <3>3. Len(q) = 1 => q = <<c>>
      <4>1. Len(<<within, within>>) # 1  OBVIOUS
      <4> QED BY <4>1, <2>6 DEF Means
    <3> QED BY <2>7, <3>1, <3>2, <3>3
  <2>11. Got([read |-> d, open |-> "no"], j)
    <3>1. Len(b) = j - 1 /\ \A k \in 1..(j - 1) : b[k] = data[k]  BY <2>3
    <3>2. b \in Seq(C)  BY <2>13
    <3> HIDE DEF b
    <3>3. Len(d) = j /\ \A k \in 1..j : d[k] = data[k]
      BY <2>1, <2>2, <3>1, <3>2 DEF c
    <3> HIDE DEF d
    <3> QED BY <3>3
  <2>12. Got(after[at[j + 1]], j) /\ at[j + 1] <= Len(text)
    <3> HIDE DEF Got
    <3> QED BY <2>5, <2>10, <2>11
  <2> HIDE DEF Got
  <2> QED BY <2>1, <2>12 DEF T
<1>6. T = 1..(n + 1)
  <2>1. T \in SUBSET (1..(n + 1)) /\ 1 \in Int /\ n + 1 \in Int  OBVIOUS
  <2> HIDE DEF T
  <2> QED BY <1>4, <1>5, <2>1, Everywhere
<1>7. Got(after[Len(text)], n)
  <2>1. n + 1 \in T /\ (n + 1) - 1 = n
    <3>1. n + 1 \in 1..(n + 1) /\ (n + 1) - 1 = n  OBVIOUS
    <3> HIDE DEF T
    <3> QED BY <3>1, <1>6
  <2>2. at[n + 1] = Len(text)  BY <1>2 DEF Pieces
  <2> HIDE DEF Got
  <2> QED BY <2>1, <2>2
<1>8. after[Len(text)] \in Reader(C)
  <2>1. Len(text) \in 0..Len(text)  BY <1>1
  <2> QED BY <2>1
<1>9. after[Len(text)] = [read |-> data, open |-> "no"]
  <2> DEFINE s == after[Len(text)]
             d == s.read
  <2>1. s = [read |-> d, open |-> s.open] /\ d \in Seq(C)  BY <1>8 DEF Reader
  <2>2. d = data
    <3>1. Len(d) = n /\ \A k \in 1..n : d[k] = data[k]  BY <1>7
    <3> HIDE DEF d
    <3> QED BY <2>1, <3>1
  <2> QED BY <2>1, <2>2, <1>7
<1> QED BY <1>3, <1>9 DEF text

Letters == Characters \union {"n", "newline", "quote", "double_quote", "backslash"}

(* A server with backslashes reads what attachsql_query_escape_data has      *)
(* written as the text it was given, between either kind of quotes, and one  *)
(* without what attachsql_query_no_backslash_escape_data has between single  *)
(* quotes, or between double ones if there is no quote in it; neither more   *)
(* than doubles the text.                                                    *)
LEMMA EscapedDataRead ==
    ASSUME NEW n \in Nat, NEW data \in [1..n -> Characters],
           NEW within \in {"quote", "double_quote"}
    PROVE  /\ Read(EscapeData(data), within, TRUE) = [read |-> data, open |-> "no"]
           /\ (within = "quote" \/ \A i \in 1..n : data[i] \notin {"quote", "double_quote"})
                => Read(NoBackslashEscapeData(data), within, FALSE)
                     = [read |-> data, open |-> "no"]
           /\ EscapeData(data) \in Seq(Letters)
           /\ NoBackslashEscapeData(data) \in Seq(Letters)
           /\ Len(EscapeData(data)) <= 2 * n
           /\ Len(NoBackslashEscapeData(data)) <= 2 * n
<1> DEFINE p == [i \in DOMAIN data |-> Escaped(data[i])]
           q == [i \in DOMAIN data |-> Doubled(data[i])]
<1>1. EscapeData(data) = FlattenSeq(p)  BY DEF EscapeData
<1>2. NoBackslashEscapeData(data) = FlattenSeq(q)
  BY DEF NoBackslashEscapeData
<1>3. ASSUME NEW c \in Characters
      PROVE  /\ Escaped(c) \in Seq(Letters) /\ Len(Escaped(c)) <= 2
             /\ Means(Escaped(c), c, within, TRUE)
  <2>1. c \in Letters /\ "backslash" \in Letters /\ "quote" \in Letters
        /\ "double_quote" \in Letters /\ "n" \in Letters
    BY DEF Letters
  <2>2. DOMAIN Escapes = {"quote", "double_quote", "newline", "backslash"}
        /\ Escapes["quote"] = "quote" /\ Escapes["newline"] = "n"
        /\ Escapes["double_quote"] = "double_quote"
        /\ Escapes["backslash"] = "backslash"
    BY DEF Escapes
  <2>3. CASE c \in {"quote", "double_quote", "newline", "backslash"}
    <3> DEFINE e == Escapes[c]
    <3>1. e \in Letters /\ Meaning(e) = c
      BY <2>1, <2>2, <2>3 DEF Meaning
    <3> HIDE DEF e
    <3>2. Escaped(c) = <<"backslash", e>>  BY <2>2, <2>3 DEF Escaped, e
    <3>3. <<"backslash", e>> \in Seq(Letters) /\ Len(<<"backslash", e>>) = 2
          /\ <<"backslash", e>>[1] = "backslash" /\ <<"backslash", e>>[2] = e
      BY <3>1, <2>1
    <3> QED BY <3>1, <3>2, <3>3 DEF Means
  <2>4. CASE c \notin {"quote", "double_quote", "newline", "backslash"}
    <3>1. Escaped(c) = <<c>>  BY <2>2, <2>4 DEF Escaped
    <3> QED BY <3>1, <2>1, <2>4 DEF Means
  <2> QED BY <2>3, <2>4
<1>4. ASSUME NEW c \in Characters
      PROVE  /\ Doubled(c) \in Seq(Letters) /\ Len(Doubled(c)) <= 2
             /\ (within = "quote" \/ c \notin {"quote", "double_quote"})
                  => Means(Doubled(c), c, within, FALSE)
  <2>1. c \in Letters /\ "quote" \in Letters  BY DEF Letters
  <2>2. CASE c = "quote"
    <3>1. Doubled(c) = <<"quote", "quote">>  BY <2>2 DEF Doubled
    <3> QED BY <3>1, <2>1, <2>2 DEF Means
  <2>3. CASE c # "quote"
    <3>1. Doubled(c) = <<c>>  BY <2>3 DEF Doubled
    <3> QED BY <3>1, <2>1, <2>3 DEF Means
  <2> QED BY <2>2, <2>3
<1>5. data \in [1..n -> Letters] /\ "newline" \in Letters
      /\ within \in Letters /\ within # "backslash"
  BY DEF Letters
<1>6. /\ p \in [1..n -> Seq(Letters)] /\ \A i \in 1..n : Len(p[i]) <= 2
      /\ \A i \in 1..n : Means(p[i], data[i], within, TRUE)
  BY <1>3
<1>7. /\ q \in [1..n -> Seq(Letters)] /\ \A i \in 1..n : Len(q[i]) <= 2
      /\ \A i \in 1..n : (within = "quote" \/ data[i] \notin {"quote", "double_quote"})
             => Means(q[i], data[i], within, FALSE)
  BY <1>4
<1> HIDE DEF p, q
<1>8. Read(FlattenSeq(p), within, TRUE) = [read |-> data, open |-> "no"]
  <2> DEFINE mode == TRUE
  <2>1. mode \in BOOLEAN /\ Spells(n, p, data, within, mode)
    BY <1>6 DEF Spells
  <2> HIDE DEF mode
  <2>2. Read(FlattenSeq(p), within, mode) = [read |-> data, open |-> "no"]
    BY <1>5, <1>6, <2>1, PiecesRead
  <2> QED BY <2>2 DEF mode
<1>9. ASSUME within = "quote" \/ \A i \in 1..n : data[i] \notin {"quote", "double_quote"}
      PROVE  Read(FlattenSeq(q), within, FALSE) = [read |-> data, open |-> "no"]
  <2> DEFINE mode == FALSE
  <2>1. mode \in BOOLEAN /\ Spells(n, q, data, within, mode)
    BY <1>7, <1>9 DEF Spells
  <2> HIDE DEF mode
  <2>2. Read(FlattenSeq(q), within, mode) = [read |-> data, open |-> "no"]
    BY <1>5, <1>7, <2>1, PiecesRead
  <2> QED BY <2>2 DEF mode
<1>10. FlattenSeq(p) \in Seq(Letters) /\ FlattenSeq(q) \in Seq(Letters)
  BY <1>6, <1>7, FlattenedPieces
<1>11. Len(FlattenSeq(p)) <= 2 * n /\ Len(FlattenSeq(q)) <= 2 * n
  BY <1>6, <1>7, TwiceAtMost
<1> QED BY <1>1, <1>2, <1>8, <1>9, <1>10, <1>11

-----
(* Sums                                                                      *)

(* Sums by recursion, of n parts.                                            *)
SumOf(sum, n, p) == sum = [i \in 0..n |-> IF i = 0 THEN 0 ELSE sum[i - 1] + p[i]]

(* A sum may be defined by recursion.                                        *)
LEMMA SumExists ==
    ASSUME NEW n \in Nat, NEW p \in [1..n -> Int]
    PROVE  \E f : SumOf(f, n, p)
<1> DEFINE G(i, s) == s + p[i]
           F == [i \in 0..n |-> [s \in Int |-> IF i = 0 THEN 0 ELSE G(i, s)]]
<1>1. n \in Int /\ 0 \in Int /\ 0 <= n  OBVIOUS
<1>2. \A i \in 1..n, s \in Int : G(i, s) \in Int  OBVIOUS
<1> HIDE DEF G
<1>3. F \in [0..n -> [Int -> Int]]
  <2>1. \A i \in 0..n : i # 0 => i \in 1..n  OBVIOUS
  <2> QED BY <2>1, <1>2
<1>4. PICK f : Follows(f, Int, 0, n, 0, F)
  <2> HIDE DEF F
  <2> QED BY <1>1, <1>3, Recursion, Zenon
<1>5. \A i \in 0..n : i # 0 => F[i][f[i - 1]] = G(i, f[i - 1])
  <2> SUFFICES ASSUME NEW i \in 0..n, i # 0
               PROVE  F[i][f[i - 1]] = G(i, f[i - 1])  OBVIOUS
  <2>1. i - 1 \in 0..n  OBVIOUS
  <2>2. f[i - 1] \in Int  BY <1>4, <2>1 DEF Follows
  <2> QED BY <2>2
<1> HIDE DEF F
<1>6. f = [i \in 0..n |-> IF i = 0 THEN 0 ELSE G(i, f[i - 1])]
  BY <1>4, <1>5 DEF Follows
<1>7. SumOf(f, n, p)  BY <1>6 DEF SumOf, G
<1> QED BY <1>7

(* A sum is a number at every place.                                         *)
LEMMA SumsUp ==
    ASSUME NEW n \in Nat, NEW p \in [1..n -> Int], NEW sum, SumOf(sum, n, p)
    PROVE  /\ sum \in [0..n -> Int]
           /\ sum[0] = 0
           /\ \A i \in 1..n : sum[i] = sum[i - 1] + p[i]
<1>1. n \in Int /\ 0 \in Int /\ 0 <= n /\ 0 \in 0..n  OBVIOUS
<1>2. sum[0] = 0  BY <1>1 DEF SumOf
<1>3. ASSUME NEW i \in 1..n PROVE sum[i] = sum[i - 1] + p[i]
  <2>1. i \in 0..n /\ i # 0  OBVIOUS
  <2> QED BY <2>1 DEF SumOf
<1>4. sum \in [0..n -> Int]
  <2> DEFINE T == {i \in 0..n : sum[i] \in Int}
  <2>1. 0 \in T  BY <1>1, <1>2
  <2>2. ASSUME NEW i \in T, i + 1 <= n PROVE i + 1 \in T
    <3>1. i + 1 \in 1..n /\ i + 1 \in 0..n /\ (i + 1) - 1 = i  BY <2>2
    <3>2. sum[i + 1] = sum[i] + p[i + 1]  BY <3>1, <1>3
    <3> QED BY <3>1, <3>2, <2>2
  <2>3. T \in SUBSET (0..n)  OBVIOUS
  <2> HIDE DEF T
  <2>4. T = 0..n  BY <1>1, <2>1, <2>2, <2>3, Everywhere
  <2>5. \A i \in 0..n : sum[i] \in Int  BY <2>4 DEF T
  <2>6. DOMAIN sum = 0..n /\ sum = [i \in DOMAIN sum |-> sum[i]]  BY DEF SumOf
  <2> QED BY <2>5, <2>6
<1> QED BY <1>2, <1>3, <1>4

LEMMA TotalSums ==
    ASSUME NEW n \in Nat, NEW bytes \in [1..n -> Int]
    PROVE  \E sum \in [0..n -> Int] :
               /\ sum[0] = 0
               /\ \A i \in 1..n : sum[i] = sum[i - 1] + bytes[i]
               /\ Total(bytes) = sum[n]
<1>1. Len(bytes) = n  OBVIOUS
<1>2. Total(bytes) = (CHOOSE g : SumOf(g, n, bytes))[n]  BY <1>1 DEF Total, SumOf
<1>3. PICK sum : /\ sum = (CHOOSE g : SumOf(g, n, bytes))
                 /\ Total(bytes) = sum[n]
  BY <1>2
<1>4. SumOf(sum, n, bytes)
  <2>1. \E g : SumOf(g, n, bytes)  BY SumExists
  <2> QED BY <2>1, <1>3, Zenon
<1>5. /\ sum \in [0..n -> Int]
      /\ sum[0] = 0
      /\ \A i \in 1..n : sum[i] = sum[i - 1] + bytes[i]
  BY <1>4, SumsUp
<1> QED BY <1>3, <1>5

(* Sums compare as their parts do.                                           *)
LEMMA TotalGrows ==
    ASSUME NEW n \in Nat, NEW a \in [1..n -> Int], NEW b \in [1..n -> Int],
           \A i \in 1..n : a[i] <= b[i]
    PROVE  /\ Total(a) \in Int /\ Total(b) \in Int
           /\ Total(a) <= Total(b)
<1>1. PICK s \in [0..n -> Int] : /\ s[0] = 0
                                 /\ \A i \in 1..n : s[i] = s[i - 1] + a[i]
                                 /\ Total(a) = s[n]
  BY TotalSums
<1>2. PICK t \in [0..n -> Int] : /\ t[0] = 0
                                 /\ \A i \in 1..n : t[i] = t[i - 1] + b[i]
                                 /\ Total(b) = t[n]
  BY TotalSums
<1> DEFINE T == {i \in 0..n : s[i] <= t[i]}
<1>3. 0 \in T  BY <1>1, <1>2
<1>4. ASSUME NEW i \in T, i + 1 <= n PROVE i + 1 \in T
  <2>1. i \in 0..n /\ i + 1 \in 0..n /\ i + 1 \in 1..n /\ (i + 1) - 1 = i
    BY <1>4
  <2>2. s[i + 1] = s[i] + a[i + 1] /\ t[i + 1] = t[i] + b[i + 1]
    BY <2>1, <1>1, <1>2
  <2>3. a[i + 1] <= b[i + 1] /\ a[i + 1] \in Int /\ b[i + 1] \in Int  BY <2>1
  <2>4. s[i] <= t[i] /\ s[i] \in Int /\ t[i] \in Int  BY <1>4, <2>1
  <2> QED BY <2>1, <2>2, <2>3, <2>4
<1>5. T \in SUBSET (0..n) /\ 0 \in Int /\ n \in Int /\ 0 <= n  OBVIOUS
<1>6. T = 0..n
  <2> HIDE DEF T
  <2> QED BY <1>3, <1>4, <1>5, Everywhere
<1>7. n \in T
  <2>1. n \in 0..n  BY <1>5
  <2> HIDE DEF T
  <2> QED BY <2>1, <1>6
<1>8. n \in 0..n  BY <1>5
<1> QED BY <1>1, <1>2, <1>7, <1>8

-----------------------------------------------------------------------------
(* The query                                                                 *)

(* Flags are known between the answer of a command and the next command, and *)
(* only then may the library leave backslashes alone.                        *)
FlagsInv ==
    /\ told => status = "IDLE" /\ no_backslash = (server = "none")
    /\ no_backslash => told

(* The parameters of a query were built by the same flag.  If it was set the *)
(* server had said so, and a query with parameters has not changed its mode. *)
BuiltBy(flag) ==
    /\ query_buffer = [i \in DOMAIN parameters |-> Build(parameters[i], flag)]
    /\ parameters # << >> => /\ flag => server = "none"
                             /\ informed => flag = (server = "none")

QueryTypes ==
    /\ status \in {"NOT_CONNECTED", "CONNECTING", "IDLE", "BUSY"}
    /\ no_backslash \in BOOLEAN
    /\ server \in {"backslash", "none"}
    /\ in_query \in BOOLEAN /\ told \in BOOLEAN /\ informed \in BOOLEAN
    /\ parameters \in Parameters

EscapingInv ==
    /\ QueryTypes /\ FlagsInv
    /\ \E flag \in BOOLEAN : BuiltBy(flag)

LEMMA TextData ==
    ASSUME NEW p \in Text
    PROVE  /\ p.kind \in {"CHAR", "CHAR_LIKE", "NONE"}
           /\ p.within \in {"quote", "double_quote"}
           /\ \E n \in Nat : p.data \in [1..n -> Characters]
<1>1. p.kind \in {"CHAR", "CHAR_LIKE", "NONE"} /\ p.data \in Texts
      /\ p.within \in {"quote", "double_quote"}
  BY DEF Text
<1>2. \E n \in 0..MaxLength : p.data \in [1..n -> Characters]
  BY <1>1 DEF Texts
<1>3. 0..MaxLength \subseteq Nat  OBVIOUS
<1> QED BY <1>1, <1>2, <1>3

(* A server that reads as the text was escaped reads it as it was given,     *)
(* unless there are quotes in it between double quotes that only a backslash *)
(* could mark.                                                               *)
LEMMA TextRead ==
    ASSUME NEW p \in Text, p.kind # "NONE"
    PROVE  /\ Read(Build(p, FALSE), p.within, TRUE) = [read |-> p.data, open |-> "no"]
           /\ ~(p.within = "double_quote"
                 /\ \E i \in DOMAIN p.data : p.data[i] \in {"quote", "double_quote"})
                => Read(Build(p, TRUE), p.within, FALSE)
                     = [read |-> p.data, open |-> "no"]
<1>1. PICK n \in Nat : p.data \in [1..n -> Characters]  BY TextData
<1> DEFINE d == p.data
           w == p.within
<1>2. /\ Build(p, FALSE) = EscapeData(d)
      /\ Build(p, TRUE) = NoBackslashEscapeData(d)
  BY TextData DEF Build
<1>3. w \in {"quote", "double_quote"} /\ d \in [1..n -> Characters] /\ DOMAIN d = 1..n
  BY <1>1, TextData
<1> HIDE DEF d, w
<1>4. /\ Read(EscapeData(d), w, TRUE) = [read |-> d, open |-> "no"]
      /\ (w = "quote" \/ \A i \in 1..n : d[i] \notin {"quote", "double_quote"})
           => Read(NoBackslashEscapeData(d), w, FALSE) = [read |-> d, open |-> "no"]
  BY <1>3, EscapedDataRead
<1>5. ~(w = "double_quote" /\ \E i \in DOMAIN d : d[i] \in {"quote", "double_quote"})
        => Read(NoBackslashEscapeData(d), w, FALSE) = [read |-> d, open |-> "no"]
  BY <1>3, <1>4
<1> QED BY <1>2, <1>4, <1>5 DEF d, w

LEMMA NumberPrinted ==
    ASSUME NEW p \in Numbers, NEW flag
    PROVE  /\ p.kind \in {"INT", "BIGINT", "FLOAT", "DOUBLE"}
           /\ p.kind \in {"INT", "BIGINT"}
                => Build(p, flag) \in {"small", "negative", "large"}
           /\ \/ Build(p, flag) = p.value
              \/ p.kind = "BIGINT" /\ p.value # "small"
              \/ p.kind \in {"FLOAT", "DOUBLE"} /\ p.value # "short"
<1>1. CASE p \in Fraction
  <2>1. p.kind \in {"FLOAT", "DOUBLE"} /\ p.value \in {"short", "fine", "special"}
    BY <1>1 DEF Fraction
  <2>2. Build(p, flag) = FractionPrinted(p)  BY <2>1 DEF Build
  <2> QED BY <2>1, <2>2 DEF FractionPrinted
<1>2. CASE p \in WholeNumber
  <2>1. /\ p.kind \in {"INT", "BIGINT"} /\ p.is_unsigned \in BOOLEAN
        /\ p.value \in {"small", "negative", "large"}
    BY <1>2 DEF WholeNumber
  <2>2. p.value \in {"small", IF p.is_unsigned THEN "large" ELSE "negative"}
    BY <2>1 DEF Numbers, Fraction
  <2>3. Build(p, flag) = Printed(p)  BY <2>1 DEF Build
  <2> QED BY <2>1, <2>2, <2>3 DEF Printed, Signed, Unsigned
<1> QED BY <1>1, <1>2 DEF Numbers

(* What is written for a parameter fits into what is counted for it and the  *)
(* place of its placeholder.                                                 *)
LEMMA ParameterFits ==
    ASSUME NEW p \in Text \union Numbers, NEW flag \in BOOLEAN
    PROVE  /\ Filled(p, Build(p, flag)) \in Int
           /\ Room(p) + 1 \in Int
           /\ Filled(p, Build(p, flag)) <= Room(p) + 1
<1>1. CASE p \in Numbers
  <2> DEFINE b == Build(p, flag)
  <2>1. /\ p.kind \in {"INT", "BIGINT", "FLOAT", "DOUBLE"}
        /\ p.kind \in {"INT", "BIGINT"} => b \in {"small", "negative", "large"}
    BY <1>1, NumberPrinted
  <2> HIDE DEF b
  <2>2. /\ Filled(p, b) = Digits(p.kind, b)
        /\ Digits(p.kind, b) \in Int /\ Room(p) + 1 \in Int
        /\ Digits(p.kind, b) <= Room(p) + 1
    BY <2>1 DEF Filled, Room, Digits
  <2> QED BY <2>2 DEF b
<1>2. CASE p \in Text
  <2>1. PICK n \in Nat : p.data \in [1..n -> Characters]  BY <1>2, TextData
  <2> DEFINE d == p.data
             b == Build(p, flag)
  <2>2. d \in [1..n -> Characters] /\ Len(d) = n  BY <2>1
  <2>3. p.kind \in {"CHAR", "CHAR_LIKE", "NONE"}  BY <1>2, TextData
  <2>4. p.kind = "NONE" => b = d  BY DEF Build
  <2>5. p.kind # "NONE" => b \in {EscapeData(d), NoBackslashEscapeData(d)}
    BY <2>3 DEF Build
  <2>6. Room(p) = CASE p.kind = "CHAR" -> 2 * Len(d) + 2
                      [] p.kind = "CHAR_LIKE" -> 2 * Len(d)
                      [] p.kind = "NONE" -> Len(d)
    BY <2>3 DEF Room
  <2>7. Filled(p, b) = IF p.kind = "CHAR" THEN Len(b) + 2 ELSE Len(b)
    BY <2>3 DEF Filled
  <2> HIDE DEF d, b
  <2>8. p.kind # "NONE" => Len(b) \in Nat /\ Len(b) <= 2 * n
    <3>1. /\ EscapeData(d) \in Seq(Letters) /\ Len(EscapeData(d)) <= 2 * n
          /\ NoBackslashEscapeData(d) \in Seq(Letters)
          /\ Len(NoBackslashEscapeData(d)) <= 2 * n
      <4>1. "quote" \in {"quote", "double_quote"}  OBVIOUS
      <4> QED BY <2>2, <4>1, EscapedDataRead
    <3>2. Len(EscapeData(d)) \in Nat /\ Len(NoBackslashEscapeData(d)) \in Nat
      BY <3>1
    <3> QED BY <2>5, <3>1, <3>2
  <2>9. Filled(p, b) \in Int /\ Room(p) + 1 \in Int
        /\ Filled(p, b) <= Room(p) + 1
    <3> DEFINE l == Len(b)
    <3>1. p.kind = "NONE" => l = n  BY <2>2, <2>4
    <3> HIDE DEF l
    <3> QED BY <2>2, <2>3, <2>6, <2>7, <2>8, <3>1 DEF l
  <2> QED BY <2>9 DEF b
<1> QED BY <1>1, <1>2

LEMMA ParametersTyped ==
    ASSUME NEW texts \in Parameters
    PROVE  \E n \in 0..MaxParams : texts \in [1..n -> Text \union Numbers]
BY DEF Parameters

LEMMA QueryInit == EscapingInit => EscapingInv
<1> SUFFICES ASSUME EscapingInit PROVE EscapingInv  OBVIOUS
<1>1. parameters = << >> /\ query_buffer = << >>  BY DEF EscapingInit
<1>2. parameters \in Parameters
  <2>1. 0 \in 0..MaxParams  BY EscapingAssumption
  <2>2. << >> \in [1..0 -> Text \union Numbers]  OBVIOUS
  <2> QED BY <1>1, <2>1, <2>2 DEF Parameters
<1>3. BuiltBy(FALSE)  BY <1>1 DEF BuiltBy
<1>4. QueryTypes  BY <1>2 DEF EscapingInit, QueryTypes
<1>5. FlagsInv  BY DEF EscapingInit, FlagsInv
<1> QED BY <1>3, <1>4, <1>5 DEF EscapingInv

LEMMA ConnectStep == ASSUME EscapingInv, Connect PROVE EscapingInv'
<1>1. UNCHANGED <<no_backslash, server, in_query, parameters, query_buffer,
                  informed, told>> /\ status = "NOT_CONNECTED" /\ status' = "CONNECTING"
  BY DEF Connect, query
<1>2. PICK flag \in BOOLEAN : BuiltBy(flag)  BY DEF EscapingInv
<1>3. BuiltBy(flag)'  BY <1>1, <1>2 DEF BuiltBy
<1>4. QueryTypes'  BY <1>1 DEF EscapingInv, QueryTypes
<1>5. FlagsInv'  BY <1>1 DEF EscapingInv, FlagsInv
<1> QED BY <1>3, <1>4, <1>5 DEF EscapingInv

(* The flag a query is built by is the one con->server_status has then.      *)
LEMMA QueryStep ==
    ASSUME EscapingInv, NEW texts \in Parameters, Query(texts)
    PROVE  EscapingInv'
<1>1. /\ parameters' = texts /\ server' = server /\ informed' = told
      /\ query_buffer' = [i \in DOMAIN texts |-> Build(texts[i], no_backslash)]
      /\ told' = FALSE /\ in_query' = TRUE
      /\ \/ status' = "BUSY" /\ no_backslash' = FALSE
         \/ /\ status = "NOT_CONNECTED" /\ status' = "CONNECTING"
            /\ no_backslash' = no_backslash
  BY DEF Query
<1>2. QueryTypes /\ FlagsInv  BY DEF EscapingInv
<1>3. PICK flag \in BOOLEAN : flag = no_backslash  BY <1>2 DEF QueryTypes
<1>4. (flag => server = "none") /\ (told => flag = (server = "none"))
  BY <1>2, <1>3 DEF FlagsInv
<1>5. BuiltBy(flag)'  BY <1>1, <1>3, <1>4 DEF BuiltBy
<1>6. QueryTypes'  BY <1>1, <1>2 DEF QueryTypes
<1>7. FlagsInv'  BY <1>1, <1>2 DEF QueryTypes, FlagsInv
<1> QED BY <1>5, <1>6, <1>7 DEF EscapingInv

LEMMA QueryCloseStep ==
    ASSUME EscapingInv, QueryClose PROVE EscapingInv'
<1>1. /\ UNCHANGED <<status, no_backslash, server, told, informed>>
      /\ in_query' = FALSE /\ parameters' = << >> /\ query_buffer' = << >>
  BY DEF QueryClose
<1>2. << >> \in Parameters
  <2>1. 0 \in 0..MaxParams  BY EscapingAssumption
  <2>2. << >> \in [1..0 -> Text \union Numbers]  OBVIOUS
  <2> QED BY <2>1, <2>2 DEF Parameters
<1>3. BuiltBy(FALSE)'  BY <1>1 DEF BuiltBy
<1>4. QueryTypes'  BY <1>1, <1>2 DEF EscapingInv, QueryTypes
<1>5. FlagsInv'  BY <1>1 DEF EscapingInv, FlagsInv
<1> QED BY <1>3, <1>4, <1>5 DEF EscapingInv

LEMMA ConnectedStep == ASSUME EscapingInv, Connected PROVE EscapingInv'
<1>1. /\ UNCHANGED <<server, in_query, parameters, query_buffer, informed>>
      /\ \/ /\ status' = "IDLE" /\ no_backslash' = (server = "none")
            /\ told' = TRUE
         \/ status' = "BUSY" /\ no_backslash' = FALSE /\ told' = FALSE
  BY DEF Connected, query
<1>2. PICK flag \in BOOLEAN : BuiltBy(flag)  BY DEF EscapingInv
<1>3. BuiltBy(flag)'  BY <1>1, <1>2 DEF BuiltBy
<1>4. QueryTypes'  BY <1>1 DEF EscapingInv, QueryTypes
<1>5. FlagsInv'  BY <1>1 DEF EscapingInv, FlagsInv
<1> QED BY <1>3, <1>4, <1>5 DEF EscapingInv

(* Only a query without parameters changes the server's mode.                *)
LEMMA AnswerFlagsStep == ASSUME EscapingInv, AnswerFlags PROVE EscapingInv'
<1>1. /\ UNCHANGED <<in_query, parameters, query_buffer, informed>>
      /\ status' = "IDLE" /\ told' = TRUE
      /\ no_backslash' = (server' = "none")
      /\ server' \in {"backslash", "none"} /\ (parameters # << >> => server' = server)
  BY DEF AnswerFlags, query, EscapingInv, QueryTypes
<1>2. PICK flag \in BOOLEAN : BuiltBy(flag)  BY DEF EscapingInv
<1>3. BuiltBy(flag)'  BY <1>1, <1>2 DEF BuiltBy
<1>4. QueryTypes'  BY <1>1 DEF EscapingInv, QueryTypes
<1>5. FlagsInv'  BY <1>1 DEF EscapingInv, FlagsInv
<1> QED BY <1>3, <1>4, <1>5 DEF EscapingInv

LEMMA AnswerErrorStep == ASSUME EscapingInv, AnswerError PROVE EscapingInv'
<1>1. /\ UNCHANGED <<no_backslash, server, in_query, parameters, query_buffer,
                     informed, told>>
      /\ status = "BUSY" /\ status' = "IDLE"
  BY DEF AnswerError, query
<1>2. PICK flag \in BOOLEAN : BuiltBy(flag)  BY DEF EscapingInv
<1>3. BuiltBy(flag)'  BY <1>1, <1>2 DEF BuiltBy
<1>4. QueryTypes'  BY <1>1 DEF EscapingInv, QueryTypes
<1>5. FlagsInv'  BY <1>1 DEF EscapingInv, FlagsInv
<1> QED BY <1>3, <1>4, <1>5 DEF EscapingInv

LEMMA QueryStutter == ASSUME EscapingInv, UNCHANGED escapingVars PROVE EscapingInv'
<1>1. UNCHANGED <<status, no_backslash, server, in_query, parameters,
                  query_buffer, informed, told>>
  BY DEF escapingVars, query
<1>2. PICK flag \in BOOLEAN : BuiltBy(flag)  BY DEF EscapingInv
<1>3. BuiltBy(flag)'  BY <1>1, <1>2 DEF BuiltBy
<1>4. QueryTypes'  BY <1>1 DEF EscapingInv, QueryTypes
<1>5. FlagsInv'  BY <1>1 DEF EscapingInv, FlagsInv
<1> QED BY <1>3, <1>4, <1>5 DEF EscapingInv

(* The parameters of a query are those the buffer was built from, and the    *)
(* flag they were escaped by is known to be the server's or is the default.  *)
THEOREM EscapingInvCorrect == EscapingSpec => []EscapingInv
<1>1. EscapingInit => EscapingInv  BY QueryInit
<1>2. EscapingInv /\ [EscapingNext]_escapingVars => EscapingInv'
  <2> SUFFICES ASSUME EscapingInv, [EscapingNext]_escapingVars PROVE EscapingInv'  OBVIOUS
  <2>1. CASE Connect  BY <2>1, ConnectStep
  <2>2. CASE QueryClose  BY <2>2, QueryCloseStep
  <2>3. CASE Connected  BY <2>3, ConnectedStep
  <2>4. CASE AnswerFlags  BY <2>4, AnswerFlagsStep
  <2>5. CASE AnswerError  BY <2>5, AnswerErrorStep
  <2>6. CASE \E texts \in Parameters : Query(texts)
    <3>1. PICK texts \in Parameters : Query(texts)  BY <2>6
    <3> QED BY <3>1, QueryStep
  <2>7. CASE UNCHANGED escapingVars  BY <2>7, QueryStutter
  <2> QED BY <2>1, <2>2, <2>3, <2>4, <2>5, <2>6, <2>7 DEF EscapingNext
<1> QED BY <1>1, <1>2, PTL DEF EscapingSpec

(* BuiltInside: a query fits into the buffer that was allocated for it,      *)
(* whatever its parameters (attachsql_query).                                *)
THEOREM BuiltInsideCorrect == EscapingSpec => []BuiltInside
<1>1. EscapingInv => BuiltInside
  <2> SUFFICES ASSUME EscapingInv PROVE BuiltInside  OBVIOUS
  <2>1. QueryTypes  BY DEF EscapingInv
  <2>2. PICK flag \in BOOLEAN : BuiltBy(flag)  BY DEF EscapingInv
  <2>3. PICK n \in 0..MaxParams : parameters \in [1..n -> Text \union Numbers]
    BY <2>1, ParametersTyped DEF QueryTypes
  <2>4. n \in Nat /\ n <= MaxParams  BY EscapingAssumption
  <2>5. DOMAIN parameters = 1..n /\ Len(parameters) = n  BY <2>3, <2>4
  <2>6. EscapingTypeOK
    <3>1. DOMAIN query_buffer = DOMAIN parameters  BY <2>2 DEF BuiltBy
    <3> QED BY <2>1, <2>4, <2>5, <3>1 DEF QueryTypes, EscapingTypeOK
  <2> DEFINE reserved == [i \in DOMAIN parameters |-> Room(parameters[i]) + 1]
             used == [i \in DOMAIN parameters |->
                        Filled(parameters[i], query_buffer[i])]
  <2>7. ASSUME NEW i \in 1..n
        PROVE  used[i] \in Int /\ reserved[i] \in Int /\ used[i] <= reserved[i]
    <3>1. query_buffer[i] = Build(parameters[i], flag)
      BY <2>2, <2>5 DEF BuiltBy
    <3>2. parameters[i] \in Text \union Numbers  BY <2>3
    <3> QED BY <2>5, <3>1, <3>2, ParameterFits
  <2>8. used \in [1..n -> Int] /\ reserved \in [1..n -> Int]  BY <2>5, <2>7
  <2>9. BufferFits = (Total(used) + 1 <= Total(reserved) + 1)
    BY DEF BufferFits
  <2> HIDE DEF used, reserved
  <2>10. Total(used) \in Int /\ Total(reserved) \in Int
         /\ Total(used) <= Total(reserved)
    BY <2>4, <2>7, <2>8, TotalGrows
  <2>11. Total(used) + 1 <= Total(reserved) + 1  BY <2>10
  <2> QED BY <2>6, <2>9, <2>11 DEF BuiltInside
<1> QED BY <1>1, EscapingInvCorrect, PTL

(* TextUnderstood: the server reads every text of a query as it was given,   *)
(* if it has sent its flags since the last command or reads backslashes,     *)
(* except texts with quotes between double quotes in the mode without        *)
(* backslashes (attachsql_query, attachsql_command_send).                    *)
THEOREM TextUnderstoodCorrect == EscapingSpec => []TextUnderstood
<1>1. EscapingInv => TextUnderstood
  <2> SUFFICES ASSUME EscapingInv PROVE TextUnderstood  OBVIOUS
  <2>1. QueryTypes  BY DEF EscapingInv
  <2>2. PICK flag \in BOOLEAN : BuiltBy(flag)  BY DEF EscapingInv
  <2>3. PICK n \in 0..MaxParams : parameters \in [1..n -> Text \union Numbers]
    BY <2>1, ParametersTyped DEF QueryTypes
  <2>4. ASSUME informed \/ server = "backslash" PROVE ReadAsGiven
    <3> SUFFICES ASSUME NEW i \in DOMAIN parameters, IsText(i)
                 PROVE  \/ Read(query_buffer[i], parameters[i].within, server = "backslash")
                             = [read |-> parameters[i].data, open |-> "no"]
                        \/ Misquoted(parameters[i])
      BY DEF ReadAsGiven
    <3> DEFINE p == parameters[i]
    <3>1. p \in Text /\ p.kind # "NONE"
      <4>1. p \in Text \union Numbers  BY <2>3
      <4>2. p.kind \in {"CHAR", "CHAR_LIKE"}  BY DEF IsText
      <4> QED BY <4>1, <4>2, NumberPrinted
    <3>2. query_buffer[i] = Build(p, flag)  BY <2>2 DEF BuiltBy
    <3>3. flag = (server = "none")
      <4>1. parameters # << >>  OBVIOUS
      <4> QED BY <4>1, <2>1, <2>2, <2>4 DEF BuiltBy, QueryTypes
    <3> HIDE DEF p
    <3>4. CASE server = "none"
      <4>1. flag = TRUE /\ (server = "backslash") = FALSE  BY <3>3, <3>4
      <4>2. Misquoted(p) \/ Read(Build(p, TRUE), p.within, FALSE)
                               = [read |-> p.data, open |-> "no"]
        BY <3>1, <3>4, TextRead DEF Misquoted
      <4> QED BY <4>1, <4>2, <3>2 DEF p
    <3>5. CASE server = "backslash"
      <4>1. flag = FALSE /\ (server = "backslash") = TRUE  BY <3>3, <3>5
      <4>2. Read(Build(p, FALSE), p.within, TRUE) = [read |-> p.data, open |-> "no"]
        BY <3>1, TextRead
      <4> QED BY <4>1, <4>2, <3>2 DEF p
    <3> QED BY <2>1, <3>4, <3>5 DEF QueryTypes
  <2> QED BY <2>4 DEF TextUnderstood, Understood, UnderstoodByDefault
<1> QED BY <1>1, EscapingInvCorrect, PTL

(* NumberKept: a number is printed as it was given, unless it is a BIGINT    *)
(* that is negative or large, or a FLOAT or DOUBLE with more decimals than   *)
(* are printed or without digits (attachsql_query).                          *)
THEOREM NumberKeptCorrect == EscapingSpec => []NumberKept
<1>1. EscapingInv => NumberKept
  <2> SUFFICES ASSUME EscapingInv,
                      NEW i \in DOMAIN parameters, parameters[i] \in Number
               PROVE  \/ query_buffer[i] = parameters[i].value
                      \/ parameters[i].kind = "BIGINT" /\ parameters[i].value # "small"
                      \/ /\ parameters[i].kind \in {"FLOAT", "DOUBLE"}
                         /\ parameters[i].value # "short"
    BY DEF NumberKept
  <2>1. QueryTypes  BY DEF EscapingInv
  <2>2. PICK flag \in BOOLEAN : BuiltBy(flag)  BY DEF EscapingInv
  <2>3. PICK n \in 0..MaxParams : parameters \in [1..n -> Text \union Numbers]
    BY <2>1, ParametersTyped DEF QueryTypes
  <2> DEFINE p == parameters[i]
  <2>4. p \in Numbers
    <3>1. p.kind \in {"INT", "BIGINT", "FLOAT", "DOUBLE"}
      BY DEF Number, WholeNumber, Fraction
    <3>2. p \in Text \union Numbers  BY <2>3
    <3> QED BY <3>1, <3>2, TextData
  <2>5. query_buffer[i] = Build(p, flag)  BY <2>2 DEF BuiltBy
  <2> QED BY <2>4, <2>5, NumberPrinted
<1> QED BY <1>1, EscapingInvCorrect, PTL

-----------------------------------------------------------------------------
(* Bytes                                                                     *)

LEMMA UnpackSums ==
    ASSUME NEW w \in Nat, NEW b, \A i \in 1..w : b[i] * Power[i - 1] \in Int
    PROVE  \E sum \in [0..w -> Int] :
               /\ sum[0] = 0
               /\ \A i \in 1..w : sum[i] = sum[i - 1] + (b[i] * Power[i - 1])
               /\ UnpackInt(w, b) = sum[w]
<1> DEFINE p == [i \in 1..w |-> b[i] * Power[i - 1]]
<1>1. UnpackInt(w, b) = (CHOOSE g : SumOf(g, w, p))[w]  BY DEF UnpackInt, SumOf
<1>2. p \in [1..w -> Int]  OBVIOUS
<1>3. \A i \in 1..w : p[i] = b[i] * Power[i - 1]  OBVIOUS
<1> HIDE DEF p
<1>4. PICK sum : sum = (CHOOSE g : SumOf(g, w, p)) /\ UnpackInt(w, b) = sum[w]
  BY <1>1
<1>5. SumOf(sum, w, p)
  <2>1. \E g : SumOf(g, w, p)  BY <1>2, SumExists
  <2> QED BY <2>1, <1>4, Zenon
<1>6. /\ sum \in [0..w -> Int]
      /\ sum[0] = 0
      /\ \A i \in 1..w : sum[i] = sum[i - 1] + p[i]
  BY <1>2, <1>5, SumsUp
<1> QED BY <1>3, <1>4, <1>6

LEMMA PowerExists ==
    \E f : f = [w \in 0..8 |-> IF w = 0 THEN 1 ELSE Base * f[w - 1]]
<1> DEFINE F == [w \in 0..8 |-> [s \in Nat |-> IF w = 0 THEN 1 ELSE Base * s]]
<1>1. F \in [0..8 -> [Nat -> Nat]]  BY PackingAssumption
<1>2. PICK f : Follows(f, Nat, 0, 8, 1, F)
  <2>1. 1 \in Nat /\ 0 \in Int /\ 8 \in Int  OBVIOUS
  <2> HIDE DEF F
  <2> QED BY <1>1, <2>1, Recursion
<1>3. \A w \in 0..8 : w # 0 => F[w][f[w - 1]] = Base * f[w - 1]
  <2> SUFFICES ASSUME NEW w \in 0..8, w # 0
               PROVE  F[w][f[w - 1]] = Base * f[w - 1]  OBVIOUS
  <2>1. w - 1 \in 0..8  OBVIOUS
  <2>2. f[w - 1] \in Nat  BY <1>2, <2>1 DEF Follows
  <2> QED BY <2>2
<1> HIDE DEF F
<1>4. f = [w \in 0..8 |-> IF w = 0 THEN 1 ELSE Base * f[w - 1]]
  BY <1>2, <1>3 DEF Follows
<1> QED BY <1>4

(* The powers are those of Base, and there are eight bytes in the largest.   *)
LEMMA Powers ==
    /\ \A w \in 0..8 : Power[w] \in Nat /\ Power[w] > 0
    /\ Power[0] = 1
    /\ \A w \in 1..8 : Power[w] = Base * Power[w - 1]
<1>1. Power = CHOOSE f : f = [w \in 0..8 |-> IF w = 0 THEN 1 ELSE Base * f[w - 1]]
  BY DEF Power
<1>2. Power = [w \in 0..8 |-> IF w = 0 THEN 1 ELSE Base * Power[w - 1]]
  BY <1>1, PowerExists, Zenon
<1>3. Power[0] = 1  BY <1>2
<1>4. ASSUME NEW w \in 1..8 PROVE Power[w] = Base * Power[w - 1]
  <2>1. w \in 0..8 /\ w # 0  OBVIOUS
  <2> QED BY <2>1, <1>2
<1>5. \A w \in 0..8 : Power[w] \in Nat /\ Power[w] > 0
  <2> DEFINE T == {w \in 0..8 : Power[w] \in Nat /\ Power[w] > 0}
  <2>1. 0 \in T  BY <1>3
  <2>2. ASSUME NEW w \in T, w + 1 <= 8 PROVE w + 1 \in T
    <3>1. w + 1 \in 1..8 /\ w + 1 \in 0..8 /\ (w + 1) - 1 = w  BY <2>2
    <3>2. Power[w + 1] = Base * Power[w]  BY <3>1, <1>4
    <3>3. Base * Power[w] \in Nat /\ Base * Power[w] > 0
      BY <2>2, PackingAssumption
    <3> QED BY <3>1, <3>2, <3>3
  <2>3. T \in SUBSET (0..8)  OBVIOUS
  <2> HIDE DEF T
  <2>4. 0 \in Int /\ 8 \in Int /\ \A w \in T : w + 1 <= 8 => w + 1 \in T
    BY <2>2
  <2>5. T = 0..8  BY <2>1, <2>3, <2>4, Everywhere, Zenon
  <2> QED BY <2>5 DEF T
<1> QED BY <1>3, <1>4, <1>5

(* A number is its quotient and its remainder, and they are unique.          *)
LEMMA RemainderOf ==
    ASSUME NEW n \in Int, NEW b \in Nat, b > 0,
           NEW q \in Int, NEW r \in Nat, r < b, n = (q * b) + r
    PROVE  n % b = r
<1> DEFINE x == n \div b
           y == n % b
<1>1. y \in 0..(b - 1) /\ n = (b * x) + y /\ x \in Int  OBVIOUS
<1> HIDE DEF x, y
<1>2. x \in Int /\ y \in Int /\ 0 <= y /\ y < b /\ n = (b * x) + y  BY <1>1
<1>3. (q - x) * b = y - r  BY <1>2
<1>4. CASE q - x >= 1
  <2>1. (q - x) * b >= b  BY <1>2, <1>4
  <2> QED BY <2>1, <1>2, <1>3
<1>5. CASE q - x <= -1
  <2>1. (q - x) * b <= -b  BY <1>2, <1>5
  <2> QED BY <2>1, <1>2, <1>3
<1>6. CASE q - x = 0  BY <1>6, <1>3, <1>2 DEF y
<1> QED BY <1>2, <1>4, <1>5, <1>6

LEMMA RemainderIs ==
    ASSUME NEW n \in Nat, NEW b \in Nat, b > 0,
           NEW q \in Nat, NEW r \in Nat, r < b, n = (q * b) + r
    PROVE  n % b = r
<1>1. n \in Int /\ q \in Int  OBVIOUS
<1> QED BY <1>1, RemainderOf

(* One byte more: the remainder by b * w is that by w and the next digit.    *)
LEMMA NextByte ==
    ASSUME NEW n \in Nat, NEW b \in Nat, b > 0, NEW w \in Nat, w > 0
    PROVE  n % (b * w) = (n % w) + (((n \div w) % b) * w)
<1> DEFINE q == n \div w
           r == n % w
           s == q \div b
           t == q % b
<1>1. q \in Nat /\ r \in Nat /\ r < w /\ n = (q * w) + r  OBVIOUS
<1> HIDE DEF q, r
<1>2. s \in Nat /\ t \in Nat /\ t < b /\ q = (s * b) + t  BY <1>1
<1> HIDE DEF s, t
<1>3. b * w \in Nat /\ b * w > 0  OBVIOUS
<1>4. (t * w) + r \in Nat  BY <1>1, <1>2
<1>5. (t * w) + r < b * w
  <2>1. (b - t) * w >= w  BY <1>2
  <2>2. (b - t) * w = (b * w) - (t * w)  BY <1>2
  <2>3. t * w \in Nat  BY <1>2
  <2> QED BY <2>1, <2>2, <2>3, <1>1, <1>3
<1>6. n = (s * (b * w)) + ((t * w) + r)
  <2>1. q * w = (s * (b * w)) + (t * w)  BY <1>2
  <2> QED BY <2>1, <1>1, <1>2
<1>7. n % (b * w) = (t * w) + r  BY <1>3, <1>4, <1>5, <1>6, <1>2, RemainderIs
<1> QED BY <1>1, <1>2, <1>7 DEF q, r, s, t

Byte == 0..(Base - 1)

Digit(n, i) == (n \div Power[i - 1]) % Base

LEMMA DigitsFit ==
    ASSUME NEW n \in Nat, NEW i \in 1..8
    PROVE  Digit(n, i) \in Byte
<1>1. i - 1 \in 0..8  OBVIOUS
<1>2. Power[i - 1] \in Nat /\ Power[i - 1] > 0  BY <1>1, Powers
<1> DEFINE p == Power[i - 1]
<1> HIDE DEF p
<1>3. n \div p \in Nat  BY <1>2 DEF p
<1>4. (n \div p) % Base \in 0..(Base - 1)  BY <1>3, PackingAssumption
<1> QED BY <1>4 DEF Digit, Byte, p

(* What is unpacked is the part of a number that the bytes have room for.    *)
LEMMA IntUnpacked ==
    ASSUME NEW n \in Nat, NEW w \in 0..8, NEW b,
           \A i \in 1..w : b[i] = Digit(n, i)
    PROVE  UnpackInt(w, b) = n % Power[w]
<1>1. \A i \in 1..w : i \in 1..8 /\ i \in 0..8 /\ i - 1 \in 0..8  OBVIOUS
<1>2. ASSUME NEW i \in 1..w PROVE b[i] * Power[i - 1] \in Int
  <2>1. Power[i - 1] \in Nat  BY <1>1, Powers
  <2>2. b[i] \in Byte  BY <1>1, DigitsFit
  <2>3. b[i] \in Nat  BY <2>2, PackingAssumption DEF Byte
  <2> QED BY <2>1, <2>3
<1>3. PICK sum \in [0..w -> Int] :
        /\ sum[0] = 0
        /\ \A i \in 1..w : sum[i] = sum[i - 1] + (b[i] * Power[i - 1])
        /\ UnpackInt(w, b) = sum[w]
  <2>1. w \in Nat  OBVIOUS
  <2> QED BY <1>2, <2>1, UnpackSums
<1> DEFINE T == {i \in 0..w : sum[i] = n % Power[i]}
<1>4. 0 \in T
  <2>1. 0 \in 0..w /\ n % 1 = 0  OBVIOUS
  <2> QED BY <2>1, <1>3, Powers
<1>5. ASSUME NEW i \in T, i + 1 <= w PROVE i + 1 \in T
  <2>1. i + 1 \in 1..w /\ i + 1 \in 0..w /\ (i + 1) - 1 = i /\ i \in 0..8
        /\ i + 1 \in 1..8
    BY <1>5
  <2>2. sum[i + 1] = (n % Power[i]) + (b[i + 1] * Power[i])
    BY <1>3, <1>5, <2>1
  <2>3. b[i + 1] = (n \div Power[i]) % Base  BY <2>1 DEF Digit
  <2>4. Power[i + 1] = Base * Power[i] /\ Power[i] \in Nat /\ Power[i] > 0
    BY <2>1, Powers
  <2>5. n % (Base * Power[i]) = (n % Power[i])
                                + (((n \div Power[i]) % Base) * Power[i])
    <3>1. Base \in Nat /\ Base > 0  BY PackingAssumption
    <3> QED BY <2>4, <3>1, NextByte
  <2> QED BY <2>1, <2>2, <2>3, <2>4, <2>5
<1>6. T \in SUBSET (0..w)  OBVIOUS
<1> HIDE DEF T
<1>7. 0 \in Int /\ w \in Int /\ \A i \in T : i + 1 <= w => i + 1 \in T  BY <1>5
<1>8. T = 0..w  BY <1>4, <1>6, <1>7, Everywhere, Zenon
<1>9. w \in 0..w  OBVIOUS
<1>10. sum[w] = n % Power[w]  BY <1>8, <1>9 DEF T
<1> QED BY <1>3, <1>10

(* The bytes of a number.                                                    *)
LEMMA IntPacked ==
    ASSUME NEW n \in Nat, NEW w \in 0..8
    PROVE  /\ PackInt(w, n) \in Seq(Byte) /\ Len(PackInt(w, n)) = w
           /\ \A i \in 1..w : PackInt(w, n)[i] = Digit(n, i)
<1>1. \A i \in 1..w : i \in 1..8  OBVIOUS
<1>2. \A i \in 1..w : Digit(n, i) \in Byte  BY <1>1, DigitsFit
<1>3. PackInt(w, n) = [i \in 1..w |-> Digit(n, i)]  BY DEF PackInt, Digit
<1> QED BY <1>2, <1>3

(* A number that its bytes have room for is unpacked as it was.              *)
LEMMA IntKept ==
    ASSUME NEW w \in 0..8, NEW n \in 0..(Power[w] - 1), NEW b,
           \A i \in 1..w : b[i] = Digit(n, i)
    PROVE  UnpackInt(w, b) = n
<1>1. Power[w] \in Nat /\ n \in Nat /\ n < Power[w]  BY Powers
<1>2. UnpackInt(w, b) = n % Power[w]  BY <1>1, IntUnpacked
<1> DEFINE p == Power[w]
<1> HIDE DEF p
<1>3. n % p = n  BY <1>1 DEF p
<1> QED BY <1>2, <1>3 DEF p

(* A byte in front of others.                                                *)
LEMMA Prefixed ==
    ASSUME NEW m \in Byte, NEW s \in Seq(Byte), NEW b, b = <<m>> \o s
    PROVE  /\ b \in Seq(Byte) /\ Len(b) = Len(s) + 1 /\ b[1] = m /\ Head(b) = m
           /\ \A i \in 1..Len(s) : b[i + 1] = s[i]
           /\ Tail(b) = s
OBVIOUS

(* The marks are bytes, and larger than any length of one byte.              *)
LEMMA Marks ==
    /\ Base \in Nat /\ Base > 13 /\ NullMark = Base - 5
    /\ {NullMark, Int2Mark, Int3Mark, Int8Mark} \subseteq Byte
    /\ {NullMark, Int2Mark, Int3Mark, Int8Mark} \subseteq Nat
    /\ Int2Mark > NullMark /\ Int3Mark > Int2Mark /\ Int8Mark > Int3Mark
    /\ Base \div 2 \in Nat /\ Base = 2 * (Base \div 2)
BY PackingAssumption DEF NullMark, Int2Mark, Int3Mark, Int8Mark, Byte

Following(w, b) == UnpackInt(w, Tail(b))

(* b is a mark and a number of w bytes.                                      *)
MarkedNumber(b, m, w, n) ==
    b \in Seq(Byte) /\ Len(b) = w + 1 /\ b[1] = m /\ Following(w, b) = n

(* A length of several bytes follows its mark.                               *)
LEMMA MarkedLength ==
    ASSUME NEW w \in 0..8, NEW n \in 0..(Power[w] - 1), NEW m \in Byte
    PROVE  MarkedNumber(<<m>> \o PackInt(w, n), m, w, n)
<1> DEFINE b == <<m>> \o PackInt(w, n)
<1>1. n \in Nat  BY Powers
<1>2. PackInt(w, n) \in Seq(Byte) /\ Len(PackInt(w, n)) = w
      /\ \A i \in 1..w : PackInt(w, n)[i] = Digit(n, i)
  BY <1>1, IntPacked
<1>3. b \in Seq(Byte) /\ Len(b) = w + 1 /\ b[1] = m /\ Tail(b) = PackInt(w, n)
  BY <1>2, Prefixed
<1>4. UnpackInt(w, Tail(b)) = n  BY <1>2, <1>3, IntKept
<1>5. Following(w, b) = n  BY <1>4, Zenon DEF Following
<1> QED BY <1>3, <1>5, Zenon DEF MarkedNumber

(* A byte that is read through a char is kept, but for those of the upper    *)
(* half where char is signed.                                                *)
LEMMA CharKept ==
    ASSUME NEW n \in Byte
    PROVE  Char(n) = n \/ (char_signed /\ n >= Base \div 2)
<1>1. CASE ~char_signed
  <2>1. Char(n) = n  BY <1>1, Zenon DEF Char
  <2> QED BY <2>1
<1>2. CASE n < Base \div 2
  <2>1. Power[1] = Base  BY Powers, Marks
  <2>2. SignedInt(1, n) = n  BY <1>2, <2>1, Marks DEF SignedInt, Byte
  <2>3. Char(n) = n  BY <2>2, Zenon DEF Char
  <2> QED BY <2>3
<1>3. n < Base \div 2 \/ n >= Base \div 2  BY Marks DEF Byte
<1> QED BY <1>1, <1>2, <1>3, Zenon

LEMMA LengthUnpackedAs ==
    ASSUME NEW n \in Nat, n < Power[8], NEW b, b = PackLength(n)
    PROVE  /\ b \in Seq(Byte) /\ Len(b) > 0
           /\ UnpackLength(b) = [bytes |-> Len(b), null |-> FALSE,
                                 length |-> IF n < NullMark THEN Char(n) ELSE n]
<1>1. /\ Power[2] \in Nat /\ Power[3] \in Nat /\ Power[8] \in Nat
      /\ NullMark < Power[2] /\ Power[2] <= Power[3] /\ NullMark \in Nat
  <2>1. Power[1] = Base /\ Power[2] = Base * Power[1] /\ Power[3] = Base * Power[2]
    BY Powers, Marks
  <2>2. /\ Power[2] \in Nat /\ Power[2] > 0 /\ Power[3] \in Nat
        /\ Power[8] \in Nat
    BY Powers
  <2>3. Base * Base > Base  BY Marks
  <2>4. Base * Power[2] >= Power[2]
    <3> DEFINE p == Power[2]
    <3> HIDE DEF p
    <3>1. Base * p >= p  BY <2>2, Marks DEF p
    <3> QED BY <3>1 DEF p
  <2> QED BY <2>1, <2>2, <2>3, <2>4, Marks
<1>2. CASE n < NullMark
  <2>1. b = PackInt(1, n)  BY <1>1, <1>2 DEF PackLength
  <2>2. b \in Seq(Byte) /\ Len(b) = 1 /\ b[1] = Digit(n, 1)
    BY <1>1, <2>1, IntPacked
  <2>3. Digit(n, 1) = n
    <3>1. n \div 1 = n /\ n % Base = n  BY <1>1, <1>2, Marks
    <3> QED BY <3>1, Powers DEF Digit
  <2>4. /\ b[1] = n /\ b[1] # NullMark /\ b[1] # Int2Mark /\ b[1] # Int3Mark
        /\ b[1] < NullMark
    BY <1>1, <1>2, <2>2, <2>3, Marks
  <2>5. UnpackLength(b) = [bytes |-> 1, length |-> Char(n), null |-> FALSE]
    BY <2>4, Zenon DEF UnpackLength
  <2> QED BY <1>2, <2>2, <2>5
<1>3. CASE n >= NullMark /\ n < Power[2]
  <2>1. b = <<Int2Mark>> \o PackInt(2, n)  BY <1>1, <1>3 DEF PackLength
  <2>2. n \in 0..(Power[2] - 1) /\ Int2Mark \in Byte /\ 2 \in 0..8
    BY <1>1, <1>3, Marks
  <2>3. b \in Seq(Byte) /\ Len(b) = 2 + 1 /\ b[1] = Int2Mark /\ Following(2, b) = n
    <3>1. MarkedNumber(<<Int2Mark>> \o PackInt(2, n), Int2Mark, 2, n)
      BY <2>2, MarkedLength
    <3> QED BY <2>1, <3>1, Zenon DEF MarkedNumber
  <2>4. ~(Int2Mark < NullMark) /\ Int2Mark # NullMark /\ Int2Mark # Int3Mark
    BY Marks
  <2>5. UnpackLength(b) = [bytes |-> 3, length |-> n, null |-> FALSE]
    BY <2>3, <2>4, Zenon DEF UnpackLength, Following
  <2>6. Len(b) = 3 /\ 3 > 0 /\ (IF n < NullMark THEN Char(n) ELSE n) = n
    BY <1>1, <1>3, <2>3
  <2> QED BY <2>3, <2>5, <2>6, Zenon
<1>4. CASE n >= NullMark /\ n >= Power[2] /\ n < Power[3]
  <2>1. b = <<Int3Mark>> \o PackInt(3, n)  BY <1>1, <1>4 DEF PackLength
  <2>2. n \in 0..(Power[3] - 1) /\ Int3Mark \in Byte /\ 3 \in 0..8
    BY <1>1, <1>4, Marks
  <2>3. b \in Seq(Byte) /\ Len(b) = 3 + 1 /\ b[1] = Int3Mark /\ Following(3, b) = n
    <3>1. MarkedNumber(<<Int3Mark>> \o PackInt(3, n), Int3Mark, 3, n)
      BY <2>2, MarkedLength
    <3> QED BY <2>1, <3>1, Zenon DEF MarkedNumber
  <2>4. ~(Int3Mark < NullMark) /\ Int3Mark # NullMark /\ Int3Mark # Int2Mark
    BY Marks
  <2>5. UnpackLength(b) = [bytes |-> 4, length |-> n, null |-> FALSE]
    BY <2>3, <2>4, Zenon DEF UnpackLength, Following
  <2>6. Len(b) = 4 /\ 4 > 0 /\ (IF n < NullMark THEN Char(n) ELSE n) = n
    BY <1>1, <1>4, <2>3
  <2> QED BY <2>3, <2>5, <2>6, Zenon
<1>5. CASE n >= NullMark /\ n >= Power[2] /\ n >= Power[3]
  <2>1. b = <<Int8Mark>> \o PackInt(8, n)  BY <1>1, <1>5 DEF PackLength
  <2>2. n \in 0..(Power[8] - 1) /\ Int8Mark \in Byte /\ 8 \in 0..8
    BY <1>1, <1>5, Marks
  <2>3. b \in Seq(Byte) /\ Len(b) = 8 + 1 /\ b[1] = Int8Mark /\ Following(8, b) = n
    <3>1. MarkedNumber(<<Int8Mark>> \o PackInt(8, n), Int8Mark, 8, n)
      BY <2>2, MarkedLength
    <3> QED BY <2>1, <3>1, Zenon DEF MarkedNumber
  <2>4. /\ ~(Int8Mark < NullMark) /\ Int8Mark # NullMark /\ Int8Mark # Int2Mark
        /\ Int8Mark # Int3Mark
    BY Marks
  <2>5. UnpackLength(b) = [bytes |-> 9, length |-> n, null |-> FALSE]
    BY <2>3, <2>4, Zenon DEF UnpackLength, Following
  <2>6. Len(b) = 9 /\ 9 > 0 /\ (IF n < NullMark THEN Char(n) ELSE n) = n
    BY <1>1, <1>5, <2>3
  <2> QED BY <2>3, <2>5, <2>6, Zenon
<1> QED BY <1>1, <1>2, <1>3, <1>4, <1>5

-----------------------------------------------------------------------------
(* Dates and times                                                           *)

(* Bytes behind others.                                                      *)
LEMMA Joined ==
    ASSUME NEW s \in Seq(Byte), NEW t \in Seq(Byte)
    PROVE  /\ s \o t \in Seq(Byte) /\ Len(s \o t) = Len(s) + Len(t)
           /\ \A i \in 1..Len(s) : (s \o t)[i] = s[i]
           /\ \A i \in 1..Len(t) : (s \o t)[Len(s) + i] = t[i]
OBVIOUS

(* How long two of them are together, and how they begin.                    *)
LEMMA JoinedLength ==
    ASSUME NEW s \in Seq(Byte), NEW t \in Seq(Byte), NEW n \in Nat,
           Len(s) + Len(t) = n, Len(s) > 0
    PROVE  s \o t \in Seq(Byte) /\ Len(s \o t) = n /\ (s \o t)[1] = s[1]
<1> DEFINE b == s \o t
<1>1. b \in Seq(Byte) /\ Len(b) = n  BY Joined
<1>2. 1 \in 1..Len(s)  OBVIOUS
<1>3. b[1] = s[1]  BY <1>2, Joined
<1> QED BY <1>1, <1>3

LEMMA TailAt ==
    ASSUME NEW b \in Seq(Byte), Len(b) > 0
    PROVE  /\ Head(b) = b[1] /\ Tail(b) \in Seq(Byte) /\ Len(Tail(b)) = Len(b) - 1
           /\ \A i \in 1..(Len(b) - 1) : Tail(b)[i] = b[i + 1]
OBVIOUS

(* Where the parts of a date and time are, n bytes from the start.           *)
DateAt(b, n, d) ==
    /\ b[n + 1] = Digit(d.year, 1) /\ b[n + 2] = Digit(d.year, 2)
    /\ b[n + 3] = d.month /\ b[n + 4] = d.day

ClockAt(b, n, d) ==
    b[n + 1] = d.hour /\ b[n + 2] = d.minute /\ b[n + 3] = d.second

MicroAt(b, n, d) == \A i \in 1..4 : b[n + i] = Digit(d.microsecond, i)

(* The parts of what the setters take.                                       *)
PartsOf(d) ==
    /\ d.year \in Nat /\ d.year < Power[2]
    /\ d.month \in Byte /\ d.day \in Byte
    /\ d.hour \in Byte /\ d.minute \in Byte /\ d.second \in Byte
    /\ d.microsecond \in Nat /\ d.microsecond < Power[4]

LEMMA DateBytes ==
    ASSUME NEW d, PartsOf(d)
    PROVE  Date(d) \in Seq(Byte) /\ Len(Date(d)) = 4 /\ DateAt(Date(d), 0, d)
<1> DEFINE y == PackInt(2, d.year)
           m == <<d.month, d.day>>
<1>1. y \in Seq(Byte) /\ Len(y) = 2 /\ y[1] = Digit(d.year, 1)
      /\ y[2] = Digit(d.year, 2)
  <2>1. 2 \in 0..8 /\ d.year \in Nat /\ 1 \in 1..2 /\ 2 \in 1..2
    BY DEF PartsOf
  <2> QED BY <2>1, IntPacked
<1>2. m \in Seq(Byte) /\ Len(m) = 2 /\ m[1] = d.month /\ m[2] = d.day
  BY DEF PartsOf
<1>3. Date(d) = y \o m  BY DEF Date
<1> HIDE DEF y, m
<1>4. /\ y \o m \in Seq(Byte) /\ Len(y \o m) = 4
      /\ (y \o m)[1] = y[1] /\ (y \o m)[2] = y[2]
      /\ (y \o m)[3] = m[1] /\ (y \o m)[4] = m[2]
  <2> DEFINE b == y \o m
  <2>1. \A i \in 1..Len(y) : b[i] = y[i]  BY <1>1, <1>2, Joined
  <2>2. \A i \in 1..Len(m) : b[Len(y) + i] = m[i]  BY <1>1, <1>2, Joined
  <2>3. b \in Seq(Byte) /\ Len(b) = 4
    <3>1. Len(y) + Len(m) = 4 /\ 4 \in Nat /\ Len(y) > 0  BY <1>1, <1>2
    <3> QED BY <1>1, <1>2, <3>1, JoinedLength, Zenon
  <2> HIDE DEF b
  <2> QED BY <1>1, <1>2, <2>1, <2>2, <2>3 DEF b
<1> QED BY <1>1, <1>2, <1>3, <1>4 DEF DateAt

LEMMA ClockBytes ==
    ASSUME NEW d, PartsOf(d)
    PROVE  Clock(d) \in Seq(Byte) /\ Len(Clock(d)) = 3 /\ ClockAt(Clock(d), 0, d)
BY DEF PartsOf, Clock, ClockAt

LEMMA MicroBytes ==
    ASSUME NEW d, PartsOf(d)
    PROVE  Micro(d) \in Seq(Byte) /\ Len(Micro(d)) = 4 /\ MicroAt(Micro(d), 0, d)
<1>1. 4 \in 0..8 /\ d.microsecond \in Nat  BY DEF PartsOf
<1>2. /\ PackInt(4, d.microsecond) \in Seq(Byte)
      /\ Len(PackInt(4, d.microsecond)) = 4
      /\ \A i \in 1..4 : PackInt(4, d.microsecond)[i] = Digit(d.microsecond, i)
  BY <1>1, IntPacked
<1> QED BY <1>2 DEF Micro, MicroAt

(* What is behind other bytes is so many bytes further on.                   *)
LEMMA PartsJoined ==
    ASSUME NEW s \in Seq(Byte), NEW t \in Seq(Byte), NEW d
    PROVE  /\ Len(t) = 4 /\ DateAt(t, 0, d) => DateAt(s \o t, Len(s), d)
           /\ Len(t) = 3 /\ ClockAt(t, 0, d) => ClockAt(s \o t, Len(s), d)
           /\ Len(t) = 4 /\ MicroAt(t, 0, d) => MicroAt(s \o t, Len(s), d)
           /\ Len(s) = 5 /\ DateAt(s, 1, d) => DateAt(s \o t, 1, d)
           /\ Len(s) = 8 /\ DateAt(s, 1, d) => DateAt(s \o t, 1, d)
           /\ Len(s) = 8 /\ ClockAt(s, 5, d) => ClockAt(s \o t, 5, d)
<1> DEFINE b == s \o t
<1>1. Len(s) \in Nat /\ \A i \in 1..Len(s) : b[i] = s[i]  BY Joined
<1>2. \A i \in 1..Len(t) : b[Len(s) + i] = t[i]  BY Joined
<1> HIDE DEF b
<1>3. Len(t) = 4 /\ DateAt(t, 0, d) => DateAt(b, Len(s), d)
  BY <1>1, <1>2 DEF DateAt
<1>4. Len(t) = 3 /\ ClockAt(t, 0, d) => ClockAt(b, Len(s), d)
  BY <1>1, <1>2 DEF ClockAt
<1>5. Len(t) = 4 /\ MicroAt(t, 0, d) => MicroAt(b, Len(s), d)
  BY <1>1, <1>2 DEF MicroAt
<1>6. Len(s) = 5 /\ DateAt(s, 1, d) => DateAt(b, 1, d)
  BY <1>1 DEF DateAt
<1>7. Len(s) = 8 /\ DateAt(s, 1, d) => DateAt(b, 1, d)
  BY <1>1 DEF DateAt
<1>8. Len(s) = 8 /\ ClockAt(s, 5, d) => ClockAt(b, 5, d)
  BY <1>1 DEF ClockAt
<1> QED BY <1>3, <1>4, <1>5, <1>6, <1>7, <1>8 DEF b

(* The bytes of a date, of a date and time, and of one with a fraction.      *)
DateLayout(b, d) ==
    b \in Seq(Byte) /\ Len(b) = 5 /\ b[1] = 4 /\ DateAt(b, 1, d)

ClockLayout(b, d) ==
    /\ b \in Seq(Byte) /\ Len(b) = 8 /\ b[1] = 7
    /\ DateAt(b, 1, d) /\ ClockAt(b, 5, d)

MicroLayout(b, d) ==
    /\ b \in Seq(Byte) /\ Len(b) = 12 /\ b[1] = 11
    /\ DateAt(b, 1, d) /\ ClockAt(b, 5, d) /\ MicroAt(b, 8, d)

LEMMA DatetimeBytes ==
    ASSUME NEW d, PartsOf(d)
    PROVE  /\ DateLayout(<<4>> \o Date(d), d)
           /\ ClockLayout(<<7>> \o Date(d) \o Clock(d), d)
           /\ MicroLayout(<<11>> \o Date(d) \o Clock(d) \o Micro(d), d)
<1>1. ASSUME NEW m \in Byte
      PROVE  /\ <<m>> \o Date(d) \in Seq(Byte) /\ Len(<<m>> \o Date(d)) = 5
             /\ (<<m>> \o Date(d))[1] = m /\ DateAt(<<m>> \o Date(d), 1, d)
  <2> DEFINE s == <<m>>
             t == Date(d)
  <2>1. s \in Seq(Byte) /\ Len(s) = 1 /\ s[1] = m /\ 1 \in 1..1  OBVIOUS
  <2>2. t \in Seq(Byte) /\ Len(t) = 4 /\ DateAt(t, 0, d)  BY DateBytes
  <2> HIDE DEF s, t
  <2>3. s \o t \in Seq(Byte) /\ Len(s \o t) = 5 /\ (s \o t)[1] = m
    <3>1. Len(s) + Len(t) = 5 /\ 5 \in Nat /\ Len(s) > 0  BY <2>1, <2>2
    <3> QED BY <2>1, <2>2, <3>1, JoinedLength, Zenon
  <2>4. DateAt(s \o t, 1, d)
    <3>1. DateAt(s \o t, Len(s), d)  BY <2>1, <2>2, PartsJoined
    <3> QED BY <2>1, <3>1
  <2> QED BY <2>3, <2>4 DEF s, t
<1>2. ASSUME NEW s \in Seq(Byte), NEW m, Len(s) = 5, s[1] = m, DateAt(s, 1, d)
      PROVE  /\ s \o Clock(d) \in Seq(Byte) /\ Len(s \o Clock(d)) = 8
             /\ (s \o Clock(d))[1] = m
             /\ DateAt(s \o Clock(d), 1, d) /\ ClockAt(s \o Clock(d), 5, d)
  <2> DEFINE t == Clock(d)
  <2>1. t \in Seq(Byte) /\ Len(t) = 3 /\ ClockAt(t, 0, d) /\ 1 \in 1..5
    BY ClockBytes
  <2> HIDE DEF t
  <2>2. s \o t \in Seq(Byte) /\ Len(s \o t) = 8 /\ (s \o t)[1] = m
    <3>1. Len(s) + Len(t) = 8 /\ 8 \in Nat /\ Len(s) > 0  BY <1>2, <2>1
    <3> QED BY <1>2, <2>1, <3>1, JoinedLength, Zenon
  <2>3. DateAt(s \o t, 1, d)  BY <1>2, <2>1, PartsJoined
  <2>4. ClockAt(s \o t, 5, d)
    <3>1. ClockAt(s \o t, Len(s), d)  BY <2>1, PartsJoined
    <3> QED BY <1>2, <3>1
  <2> QED BY <2>2, <2>3, <2>4 DEF t
<1>3. ASSUME NEW s \in Seq(Byte), Len(s) = 8, s[1] = 11,
             DateAt(s, 1, d), ClockAt(s, 5, d)
      PROVE  MicroLayout(s \o Micro(d), d)
  <2> DEFINE t == Micro(d)
  <2>1. t \in Seq(Byte) /\ Len(t) = 4 /\ MicroAt(t, 0, d) /\ 1 \in 1..8
    BY MicroBytes
  <2> HIDE DEF t
  <2>2. s \o t \in Seq(Byte) /\ Len(s \o t) = 12 /\ (s \o t)[1] = 11
    <3>1. Len(s) + Len(t) = 12 /\ 12 \in Nat /\ Len(s) > 0  BY <1>3, <2>1
    <3> QED BY <1>3, <2>1, <3>1, JoinedLength, Zenon
  <2>3. DateAt(s \o t, 1, d) /\ ClockAt(s \o t, 5, d)
    BY <1>3, <2>1, PartsJoined
  <2>4. MicroAt(s \o t, 8, d)
    <3>1. MicroAt(s \o t, Len(s), d)  BY <2>1, PartsJoined
    <3> QED BY <1>3, <3>1
  <2> QED BY <2>2, <2>3, <2>4 DEF t, MicroLayout
<1>4. 4 \in Byte /\ 7 \in Byte /\ 11 \in Byte  BY Marks DEF Byte
<1>5. DateLayout(<<4>> \o Date(d), d)  BY <1>1, <1>4 DEF DateLayout
<1>6. ClockLayout(<<7>> \o Date(d) \o Clock(d), d)
  <2> DEFINE s == <<7>> \o Date(d)
  <2>1. s \in Seq(Byte) /\ Len(s) = 5 /\ s[1] = 7 /\ DateAt(s, 1, d)
    BY <1>1, <1>4
  <2> HIDE DEF s
  <2>2. ClockLayout(s \o Clock(d), d)  BY <1>2, <2>1 DEF ClockLayout
  <2> QED BY <2>2 DEF s
<1>7. MicroLayout(<<11>> \o Date(d) \o Clock(d) \o Micro(d), d)
  <2> DEFINE s == <<11>> \o Date(d)
             t == s \o Clock(d)
  <2>1. s \in Seq(Byte) /\ Len(s) = 5 /\ s[1] = 11 /\ DateAt(s, 1, d)
    BY <1>1, <1>4
  <2> HIDE DEF s
  <2>2. /\ t \in Seq(Byte) /\ Len(t) = 8 /\ t[1] = 11
        /\ DateAt(t, 1, d) /\ ClockAt(t, 5, d)
    BY <1>2, <2>1
  <2> HIDE DEF t
  <2>3. MicroLayout(t \o Micro(d), d)  BY <1>3, <2>2
  <2> QED BY <2>3 DEF s, t
<1> QED BY <1>5, <1>6, <1>7


(* A date and time as a record.                                              *)
DatetimeOf(year, month, day, hour, minute, second, microsecond, is_negative) ==
    [year |-> year, month |-> month, day |-> day, hour |-> hour, minute |-> minute,
     second |-> second, microsecond |-> microsecond, is_negative |-> is_negative]

(* What is read for each number of bytes.                                    *)
LEMMA DatetimeRead ==
    ASSUME NEW b, NEW us, us = UnpackInt(4, SubSeq(b, 8, 11)),
           NEW year, year = UnpackInt(2, b), NEW day, day = Char(b[4])
    PROVE  /\ UnpackDatetime(b, 0) = DatetimeOf(0, 0, 0, 0, 0, 0, 0, FALSE)
           /\ UnpackDatetime(b, 4) = DatetimeOf(year, b[3], day, 0, 0, 0, 0, FALSE)
           /\ UnpackDatetime(b, 7)
                = DatetimeOf(year, b[3], day, b[5], b[6], b[7], 0, FALSE)
           /\ UnpackDatetime(b, 11)
                = DatetimeOf(year, b[3], day, b[5], b[6], b[7], us, FALSE)
<1> DEFINE date == [NoDatetime EXCEPT !.year = year, !.month = b[3], !.day = day]
           clock == [date EXCEPT !.hour = b[5], !.minute = b[6], !.second = b[7]]
           micro == [clock EXCEPT !.microsecond = us]
<1>1. /\ ~(4 = 0) /\ 4 \in 1..4 /\ ~(4 \in 5..7)
      /\ ~(7 = 0) /\ ~(7 \in 1..4) /\ 7 \in 5..7
      /\ ~(11 = 0) /\ ~(11 \in 1..4) /\ ~(11 \in 5..7)
      /\ ~(0 \in 1..4) /\ ~(0 \in 5..7)
  OBVIOUS
<1>2. /\ NoDatetime = DatetimeOf(0, 0, 0, 0, 0, 0, 0, FALSE)
      /\ date = DatetimeOf(year, b[3], day, 0, 0, 0, 0, FALSE)
      /\ clock = DatetimeOf(year, b[3], day, b[5], b[6], b[7], 0, FALSE)
      /\ micro = DatetimeOf(year, b[3], day, b[5], b[6], b[7], us, FALSE)
  <2>1. PICK no : no = FALSE  OBVIOUS
  <2>2. NoDatetime = DatetimeOf(0, 0, 0, 0, 0, 0, 0, no)
    BY <2>1, Zenon DEF NoDatetime, DatetimeOf
  <2> DEFINE dated == [NoDatetime EXCEPT !.year = year]
             monthly == [dated EXCEPT !.month = b[3]]
  <2>3. dated = DatetimeOf(year, 0, 0, 0, 0, 0, 0, no)  BY <2>2 DEF DatetimeOf
  <2> HIDE DEF dated
  <2>4. monthly = DatetimeOf(year, b[3], 0, 0, 0, 0, 0, no)  BY <2>3 DEF DatetimeOf
  <2> HIDE DEF monthly
  <2>5. [monthly EXCEPT !.day = day] = DatetimeOf(year, b[3], day, 0, 0, 0, 0, no)
    BY <2>4 DEF DatetimeOf
  <2>6. date = DatetimeOf(year, b[3], day, 0, 0, 0, 0, no)
    BY <2>5 DEF monthly, dated
  <2> HIDE DEF date
  <2> DEFINE hourly == [date EXCEPT !.hour = b[5]]
             timely == [hourly EXCEPT !.minute = b[6]]
  <2>7. hourly = DatetimeOf(year, b[3], day, b[5], 0, 0, 0, no)
    BY <2>6 DEF DatetimeOf
  <2> HIDE DEF hourly
  <2>8. timely = DatetimeOf(year, b[3], day, b[5], b[6], 0, 0, no)
    BY <2>7 DEF DatetimeOf
  <2> HIDE DEF timely
  <2>9. [timely EXCEPT !.second = b[7]]
          = DatetimeOf(year, b[3], day, b[5], b[6], b[7], 0, no)
    BY <2>8 DEF DatetimeOf
  <2>10. clock = DatetimeOf(year, b[3], day, b[5], b[6], b[7], 0, no)
    BY <2>9 DEF timely, hourly
  <2> HIDE DEF clock
  <2>11. micro = DatetimeOf(year, b[3], day, b[5], b[6], b[7], us, no)
    BY <2>10 DEF DatetimeOf
  <2> QED BY <2>1, <2>2, <2>6, <2>10, <2>11, Zenon
<1>3. UnpackDatetime(b, 0) = NoDatetime  BY <1>1, Zenon DEF UnpackDatetime
<1>4. UnpackDatetime(b, 4) = date  BY <1>1, Zenon DEF UnpackDatetime
<1>5. UnpackDatetime(b, 7) = clock  BY <1>1, Zenon DEF UnpackDatetime
<1>6. UnpackDatetime(b, 11) = micro  BY <1>1, Zenon DEF UnpackDatetime
<1> QED BY <1>2, <1>3, <1>4, <1>5, <1>6, Zenon

(* The parts of a date and time are read from where they are.                *)
LEMMA LayoutsRead ==
    ASSUME NEW d, PartsOf(d), NEW b
    PROVE  /\ DateLayout(b, d) =>
                UnpackDatetime(Tail(b), Head(b))
                  = DatetimeOf(d.year, d.month, Char(d.day), 0, 0, 0, 0, FALSE)
           /\ ClockLayout(b, d) =>
                UnpackDatetime(Tail(b), Head(b))
                  = DatetimeOf(d.year, d.month, Char(d.day),
                               d.hour, d.minute, d.second, 0, FALSE)
           /\ MicroLayout(b, d) =>
                UnpackDatetime(Tail(b), Head(b))
                  = DatetimeOf(d.year, d.month, Char(d.day),
                               d.hour, d.minute, d.second, d.microsecond, FALSE)
<1>1. ASSUME b \in Seq(Byte), Len(b) >= 5, DateAt(b, 1, d), NEW t, t = Tail(b)
      PROVE  UnpackInt(2, t) = d.year /\ t[3] = d.month /\ t[4] = d.day
  <2>1. \A i \in 1..(Len(b) - 1) : t[i] = b[i + 1]  BY <1>1, TailAt
  <2>2. t[1] = b[2] /\ t[2] = b[3] /\ t[3] = b[4] /\ t[4] = b[5]
    BY <1>1, <2>1
  <2>3. \A i \in 1..2 : t[i] = Digit(d.year, i)
    <3>1. \A i \in 1..2 : i = 1 \/ i = 2  OBVIOUS
    <3>2. t[1] = Digit(d.year, 1) /\ t[2] = Digit(d.year, 2)
      BY <1>1, <2>2 DEF DateAt
    <3> QED BY <3>1, <3>2, Zenon
  <2>4. d.year \in 0..(Power[2] - 1) /\ 2 \in 0..8
    <3>1. Power[2] \in Nat  BY Powers
    <3> QED BY <3>1 DEF PartsOf
  <2>5. UnpackInt(2, t) = d.year  BY <2>3, <2>4, IntKept
  <2> QED BY <1>1, <2>2, <2>5 DEF DateAt
<1>2. ASSUME b \in Seq(Byte), Len(b) >= 8, ClockAt(b, 5, d), NEW t, t = Tail(b)
      PROVE  t[5] = d.hour /\ t[6] = d.minute /\ t[7] = d.second
  <2>1. \A i \in 1..(Len(b) - 1) : t[i] = b[i + 1]  BY <1>2, TailAt
  <2> QED BY <1>2, <2>1 DEF ClockAt
<1>3. ASSUME b \in Seq(Byte), Len(b) = 12, MicroAt(b, 8, d), NEW t, t = Tail(b)
      PROVE  UnpackInt(4, SubSeq(t, 8, 11)) = d.microsecond
  <2>1. t \in Seq(Byte) /\ Len(t) = 11 /\ \A i \in 1..11 : t[i] = b[i + 1]
    <3>1. Len(b) > 0 /\ Len(b) - 1 = 11  BY <1>3
    <3>2. /\ t \in Seq(Byte) /\ Len(t) = Len(b) - 1
          /\ \A i \in 1..(Len(b) - 1) : t[i] = b[i + 1]
      BY <1>3, <3>1, TailAt, Zenon
    <3> QED BY <3>1, <3>2, Zenon
  <2>2. \A i \in 1..4 : t[7 + i] = Digit(d.microsecond, i)
    <3> SUFFICES ASSUME NEW i \in 1..4
                 PROVE  t[7 + i] = Digit(d.microsecond, i)  OBVIOUS
    <3>1. t[7 + i] = b[8 + i]  BY <2>1
    <3> QED BY <1>3, <3>1 DEF MicroAt
  <2>3. \A i \in 1..4 : SubSeq(t, 8, 11)[i] = t[7 + i]  BY <2>1
  <2>4. d.microsecond \in 0..(Power[4] - 1) /\ 4 \in 0..8
    <3>1. Power[4] \in Nat  BY Powers
    <3> QED BY <3>1 DEF PartsOf
  <2>5. PICK s : s = SubSeq(t, 8, 11)  OBVIOUS
  <2>6. \A i \in 1..4 : s[i] = Digit(d.microsecond, i)
    BY <2>2, <2>3, <2>5, Zenon
  <2>7. UnpackInt(4, s) = d.microsecond  BY <2>4, <2>6, IntKept
  <2> QED BY <2>5, <2>7
<1>4. ASSUME DateLayout(b, d)
      PROVE  UnpackDatetime(Tail(b), Head(b))
               = DatetimeOf(d.year, d.month, Char(d.day), 0, 0, 0, 0, FALSE)
  <2>1. PICK t : t = Tail(b)  OBVIOUS
  <2>2. b \in Seq(Byte) /\ Len(b) >= 5 /\ DateAt(b, 1, d) /\ Head(b) = 4
    BY <1>4, TailAt DEF DateLayout
  <2>3. UnpackInt(2, t) = d.year /\ t[3] = d.month /\ t[4] = d.day
    BY <1>1, <2>1, <2>2, Zenon
  <2> QED BY <2>1, <2>2, <2>3, DatetimeRead, Zenon
<1>5. ASSUME ClockLayout(b, d)
      PROVE  UnpackDatetime(Tail(b), Head(b))
               = DatetimeOf(d.year, d.month, Char(d.day),
                            d.hour, d.minute, d.second, 0, FALSE)
  <2>1. PICK t : t = Tail(b)  OBVIOUS
  <2>2. /\ b \in Seq(Byte) /\ Len(b) >= 5 /\ Len(b) >= 8
        /\ DateAt(b, 1, d) /\ ClockAt(b, 5, d) /\ Head(b) = 7
    BY <1>5, TailAt DEF ClockLayout
  <2>3. UnpackInt(2, t) = d.year /\ t[3] = d.month /\ t[4] = d.day
    BY <1>1, <2>1, <2>2, Zenon
  <2>4. t[5] = d.hour /\ t[6] = d.minute /\ t[7] = d.second
    BY <1>2, <2>1, <2>2, Zenon
  <2> QED BY <2>1, <2>2, <2>3, <2>4, DatetimeRead, Zenon
<1>6. ASSUME MicroLayout(b, d)
      PROVE  UnpackDatetime(Tail(b), Head(b))
               = DatetimeOf(d.year, d.month, Char(d.day),
                            d.hour, d.minute, d.second, d.microsecond, FALSE)
  <2>1. PICK t : t = Tail(b)  OBVIOUS
  <2>2. /\ b \in Seq(Byte) /\ Len(b) >= 5 /\ Len(b) >= 8 /\ Len(b) = 12
        /\ DateAt(b, 1, d) /\ ClockAt(b, 5, d) /\ MicroAt(b, 8, d) /\ Head(b) = 11
    BY <1>6, TailAt DEF MicroLayout
  <2>3. UnpackInt(2, t) = d.year /\ t[3] = d.month /\ t[4] = d.day
    BY <1>1, <2>1, <2>2, Zenon
  <2>4. t[5] = d.hour /\ t[6] = d.minute /\ t[7] = d.second
    BY <1>2, <2>1, <2>2, Zenon
  <2>5. UnpackInt(4, SubSeq(t, 8, 11)) = d.microsecond
    BY <1>3, <2>1, <2>2, Zenon
  <2>6. UnpackDatetime(t, 11)
          = DatetimeOf(UnpackInt(2, t), t[3], Char(t[4]), t[5], t[6], t[7],
                       UnpackInt(4, SubSeq(t, 8, 11)), FALSE)
    BY DatetimeRead, Zenon
  <2> QED BY <2>1, <2>2, <2>3, <2>4, <2>5, <2>6, Zenon
<1> QED BY <1>4, <1>5, <1>6

(* One byte of length zero.                                                  *)
LEMMA NothingPacked ==
    ASSUME NEW b, b = << 0 >>
    PROVE  b \in Seq(Byte) /\ Len(b) = 1 /\ b[1] = 0 /\ Head(b) = 0
<1>1. 0 \in Byte  BY Marks DEF Byte
<1>2. << 0 >> \in Seq(Byte)  BY <1>1
<1> QED BY <1>2

(* A buffer holds as many bytes as its first byte says.                      *)
Measured(b) == b \in Seq(Byte) /\ Len(b) > 0 /\ Len(b) = b[1] + 1

LEMMA LayoutsMeasured ==
    ASSUME NEW b, NEW d
    PROVE  /\ DateLayout(b, d) => Measured(b)
           /\ ClockLayout(b, d) => Measured(b)
           /\ MicroLayout(b, d) => Measured(b)
           /\ b = <<0>> => Measured(b)
<1>1. DateLayout(b, d) => Measured(b)  BY DEF DateLayout, Measured
<1>2. ClockLayout(b, d) => Measured(b)  BY DEF ClockLayout, Measured
<1>3. MicroLayout(b, d) => Measured(b)  BY DEF MicroLayout, Measured
<1>4. b = <<0>> => Measured(b)  BY NothingPacked DEF Measured
<1> QED BY <1>1, <1>2, <1>3, <1>4

LEMMA NoDay == Char(0) = 0
<1>1. 0 \in Byte /\ ~(0 >= Base \div 2)  BY Marks DEF Byte
<1> QED BY <1>1, CharKept, Zenon

(* The parts of a date and time that are left out are zero.                  *)
LEMMA DatetimeUnpacked ==
    ASSUME NEW d, PartsOf(d), NEW b, b = PackDatetime(d, FALSE)
    PROVE  /\ Measured(b)
           /\ UnpackDatetime(Tail(b), Head(b))
                = DatetimeOf(d.year, d.month, Char(d.day),
                             d.hour, d.minute, d.second, d.microsecond, FALSE)
<1>1. d.microsecond > 0 \/ d.microsecond = 0  BY DEF PartsOf
<1>2. CASE d.microsecond > 0
  <2>1. b = <<11>> \o Date(d) \o Clock(d) \o Micro(d)
    <3>1. d.microsecond # 0  BY <1>2 DEF PartsOf
    <3> QED BY <1>2, <3>1, Zenon DEF PackDatetime
  <2>2. MicroLayout(b, d)  BY <2>1, DatetimeBytes, Zenon
  <2> QED BY <2>2, LayoutsMeasured, LayoutsRead, Zenon
<1>3. CASE d.microsecond = 0 /\ Clock(d) # <<0, 0, 0>>
  <2>1. b = <<7>> \o Date(d) \o Clock(d)
    <3>1. ~(d.microsecond > 0)  BY <1>3
    <3> QED BY <1>3, <3>1, Zenon DEF PackDatetime
  <2>2. ClockLayout(b, d)  BY <2>1, DatetimeBytes, Zenon
  <2> QED BY <1>3, <2>2, LayoutsMeasured, LayoutsRead, Zenon
<1>4. ASSUME d.microsecond = 0, Clock(d) = <<0, 0, 0>>
      PROVE  ~(d.microsecond > 0) /\ d.hour = 0 /\ d.minute = 0 /\ d.second = 0
  BY <1>4 DEF Clock
<1>5. CASE /\ d.microsecond = 0 /\ Clock(d) = <<0, 0, 0>>
           /\ d.year > 0 \/ d.month > 0 \/ d.day > 0
  <2>1. b = <<4>> \o Date(d)  BY <1>4, <1>5, Zenon DEF PackDatetime
  <2>2. DateLayout(b, d)  BY <2>1, DatetimeBytes, Zenon
  <2> QED BY <1>4, <1>5, <2>2, LayoutsMeasured, LayoutsRead, Zenon
<1>6. CASE /\ d.microsecond = 0 /\ Clock(d) = <<0, 0, 0>>
           /\ ~(d.year > 0) /\ ~(d.month > 0) /\ ~(d.day > 0)
  <2>1. b = <<0>>  BY <1>4, <1>6, Zenon DEF PackDatetime
  <2>2. d.year = 0 /\ d.month = 0 /\ d.day = 0
    BY <1>6, Marks DEF PartsOf, Byte
  <2>3. UnpackDatetime(Tail(b), Head(b)) = DatetimeOf(0, 0, 0, 0, 0, 0, 0, FALSE)
    <3>1. UnpackDatetime(Tail(b), 0) = DatetimeOf(0, 0, 0, 0, 0, 0, 0, FALSE)
      BY DatetimeRead, Zenon
    <3>2. Head(b) = 0  BY <2>1, NothingPacked
    <3> QED BY <3>1, <3>2, Zenon
  <2> QED BY <1>4, <1>6, <2>1, <2>2, <2>3, NoDay, LayoutsMeasured, Zenon
<1> QED BY <1>1, <1>2, <1>3, <1>5, <1>6, Zenon

(* A date has no time of day.                                                *)
LEMMA DateUnpacked ==
    ASSUME NEW d, PartsOf(d), NEW b, b = PackDatetime(d, TRUE)
    PROVE  /\ Measured(b)
           /\ UnpackDatetime(Tail(b), Head(b))
                = DatetimeOf(d.year, d.month, Char(d.day), 0, 0, 0, 0, FALSE)
<1>1. CASE d.year > 0 \/ d.month > 0 \/ d.day > 0
  <2>1. b = <<4>> \o Date(d)  BY <1>1, Zenon DEF PackDatetime
  <2>2. DateLayout(b, d)  BY <2>1, DatetimeBytes, Zenon
  <2> QED BY <2>2, LayoutsMeasured, LayoutsRead, Zenon
<1>2. CASE ~(d.year > 0) /\ ~(d.month > 0) /\ ~(d.day > 0)
  <2>1. b = <<0>>  BY <1>2, Zenon DEF PackDatetime
  <2>2. d.year = 0 /\ d.month = 0 /\ d.day = 0
    BY <1>2, Marks DEF PartsOf, Byte
  <2>3. UnpackDatetime(Tail(b), Head(b)) = DatetimeOf(0, 0, 0, 0, 0, 0, 0, FALSE)
    <3>1. UnpackDatetime(Tail(b), 0) = DatetimeOf(0, 0, 0, 0, 0, 0, 0, FALSE)
      BY DatetimeRead, Zenon
    <3>2. Head(b) = 0  BY <2>1, NothingPacked
    <3> QED BY <3>1, <3>2, Zenon
  <2> QED BY <2>1, <2>2, <2>3, NoDay, LayoutsMeasured, Zenon
<1> QED BY <1>1, <1>2, Zenon

(* What the setters of dates and times take.                                 *)
LEMMA SetParts ==
    ASSUME NEW d, d \in SetDatetimes \/ d \in SetTimes
    PROVE  /\ PartsOf(d) /\ d.is_negative \in BOOLEAN
           /\ d = DatetimeOf(d.year, d.month, d.day, d.hour, d.minute, d.second,
                             d.microsecond, d.is_negative)
           /\ d \in SetDatetimes => d.is_negative = FALSE
           /\ d \in SetTimes => d.year = 0 /\ d.month = 0 /\ d.day = 0
<1>1. Power[2] \in Nat /\ Power[2] > 0 /\ Power[4] \in Nat  BY Powers
<1>2. PartsOf(d)
  <2> DEFINE p == Power[2]
             q == Power[4]
  <2>1. p \in Nat /\ p > 0 /\ q \in Nat /\ Years \subseteq 0..(p - 1)
        /\ Microseconds \subseteq 0..(q - 1)
    BY <1>1, PackingAssumption
  <2> HIDE DEF p, q
  <2>2. \A y \in Years : y \in Nat /\ y < p  BY <2>1
  <2>3. \A m \in Microseconds : m \in Nat /\ m < q  BY <2>1
  <2>4. Parts \subseteq Byte /\ 0 \in Byte  BY PackingAssumption, Marks DEF Byte
  <2>5. /\ d.year \in Years \/ d.year = 0
        /\ d.month \in Parts \/ d.month = 0
        /\ d.day \in Parts \/ d.day = 0
        /\ d.hour \in Parts /\ d.minute \in Parts /\ d.second \in Parts
        /\ d.microsecond \in Microseconds
    BY Zenon DEF SetDatetimes, SetTimes
  <2>6. d.year \in Nat /\ d.year < p
    <3>1. 0 \in Nat /\ 0 < p  BY <2>1
    <3> QED BY <2>2, <2>5, <3>1, Zenon
  <2>7. d.microsecond \in Nat /\ d.microsecond < q  BY <2>3, <2>5
  <2> QED BY <2>4, <2>5, <2>6, <2>7, Zenon DEF PartsOf, p, q
<1>3. /\ d.is_negative \in BOOLEAN
      /\ d = DatetimeOf(d.year, d.month, d.day, d.hour, d.minute, d.second,
                        d.microsecond, d.is_negative)
  BY Zenon DEF SetDatetimes, SetTimes, DatetimeOf
<1>4. d \in SetDatetimes => d.is_negative = FALSE  BY Zenon DEF SetDatetimes
<1>5. d \in SetTimes => d.year = 0 /\ d.month = 0 /\ d.day = 0
  BY DEF SetTimes
<1> QED BY <1>2, <1>3, <1>4, <1>5, Zenon

(* Where the sign, the days and the parts of a time are.                     *)
TimeAt(b, n, d) ==
    /\ b[n + 1] = Negative(d)
    /\ \A i \in 1..4 : b[(n + 1) + i] = Digit(d.day, i)
    /\ ClockAt(b, n + 5, d)

TimeLayout(b, d) ==
    b \in Seq(Byte) /\ Len(b) = 9 /\ b[1] = 8 /\ TimeAt(b, 1, d)

MicroTimeLayout(b, d) ==
    /\ b \in Seq(Byte) /\ Len(b) = 13 /\ b[1] = 12
    /\ TimeAt(b, 1, d) /\ MicroAt(b, 9, d)

Body(d) == <<Negative(d)>> \o PackInt(4, d.day) \o Clock(d)

LEMMA BodyBytes ==
    ASSUME NEW d, PartsOf(d)
    PROVE  Body(d) \in Seq(Byte) /\ Len(Body(d)) = 8 /\ TimeAt(Body(d), 0, d)
<1> DEFINE s == <<Negative(d)>>
           t == PackInt(4, d.day)
           c == Clock(d)
           st == s \o t
           b == st \o c
<1>1. s \in Seq(Byte) /\ Len(s) = 1 /\ s[1] = Negative(d)
  <2>1. Negative(d) \in {0, 1}  BY Zenon DEF Negative
  <2>2. Negative(d) \in Byte  BY <2>1, Marks DEF Byte
  <2> QED BY <2>2
<1>2. t \in Seq(Byte) /\ Len(t) = 4 /\ \A i \in 1..4 : t[i] = Digit(d.day, i)
  <2>1. d.day \in Nat /\ 4 \in 0..8  BY Marks DEF PartsOf, Byte
  <2> QED BY <2>1, IntPacked
<1>3. c \in Seq(Byte) /\ Len(c) = 3 /\ ClockAt(c, 0, d)  BY ClockBytes
<1> HIDE DEF s, t, c
<1>4. /\ st \in Seq(Byte) /\ Len(st) = 5 /\ st[1] = Negative(d)
      /\ \A i \in 1..4 : st[1 + i] = Digit(d.day, i)
  <2>1. Len(s) + Len(t) = 5 /\ 5 \in Nat /\ Len(s) > 0  BY <1>1, <1>2
  <2>2. st \in Seq(Byte) /\ Len(st) = 5 /\ st[1] = s[1]
    BY <1>1, <1>2, <2>1, JoinedLength, Zenon
  <2>3. \A i \in 1..Len(t) : st[Len(s) + i] = t[i]  BY <1>1, <1>2, Joined
  <2> HIDE DEF st
  <2> QED BY <1>1, <1>2, <2>2, <2>3
<1> HIDE DEF st
<1>5. b \in Seq(Byte) /\ Len(b) = 8 /\ b[1] = st[1]
  <2>1. Len(st) + Len(c) = 8 /\ 8 \in Nat /\ Len(st) > 0  BY <1>3, <1>4
  <2> QED BY <1>3, <1>4, <2>1, JoinedLength, Zenon
<1>6. \A i \in 1..Len(st) : b[i] = st[i]  BY <1>3, <1>4, Joined
<1>7. ClockAt(b, 5, d)
  <2>1. ClockAt(b, Len(st), d)  BY <1>3, <1>4, PartsJoined
  <2> QED BY <1>4, <2>1
<1> HIDE DEF b
<1>8. TimeAt(b, 0, d)
  <2>1. \A i \in 1..4 : b[1 + i] = Digit(d.day, i)  BY <1>4, <1>6
  <2>2. 0 + 1 = 1 /\ 0 + 5 = 5  OBVIOUS
  <2> QED BY <1>4, <1>5, <1>7, <2>1, <2>2, Zenon DEF TimeAt
<1>9. Body(d) = b  BY Zenon DEF Body, b, st, s, t, c
<1> QED BY <1>5, <1>8, <1>9

LEMMA TimeBytes ==
    ASSUME NEW d, PartsOf(d)
    PROVE  /\ TimeLayout(<<8>> \o Body(d), d)
           /\ MicroTimeLayout(<<12>> \o Body(d) \o Micro(d), d)
<1>1. ASSUME NEW m \in Byte, NEW b, b = <<m>> \o Body(d)
      PROVE  b \in Seq(Byte) /\ Len(b) = 9 /\ b[1] = m /\ TimeAt(b, 1, d)
  <2> DEFINE t == Body(d)
  <2>1. t \in Seq(Byte) /\ Len(t) = 8 /\ TimeAt(t, 0, d)  BY BodyBytes
  <2> HIDE DEF t
  <2>2. b \in Seq(Byte) /\ Len(b) = 9 /\ b[1] = m /\ \A i \in 1..8 : b[i + 1] = t[i]
    <3> DEFINE s == <<m>>
    <3>1. s \in Seq(Byte) /\ Len(s) = 1 /\ s[1] = m  OBVIOUS
    <3>2. b = s \o t  BY <1>1 DEF t
    <3> HIDE DEF s
    <3>3. Len(s) + Len(t) = 9 /\ 9 \in Nat /\ Len(s) > 0  BY <2>1, <3>1
    <3>4. b \in Seq(Byte) /\ Len(b) = 9 /\ b[1] = s[1]
      BY <2>1, <3>1, <3>2, <3>3, JoinedLength, Zenon
    <3>5. \A i \in 1..Len(t) : b[Len(s) + i] = t[i]
      BY <2>1, <3>1, <3>2, Joined, Zenon
    <3> QED BY <2>1, <3>1, <3>4, <3>5
  <2>3. TimeAt(b, 1, d)
    <3>1. b[2] = Negative(d) /\ \A i \in 1..4 : b[2 + i] = Digit(d.day, i)
      BY <2>1, <2>2 DEF TimeAt
    <3>2. ClockAt(b, 6, d)  BY <2>1, <2>2 DEF TimeAt, ClockAt
    <3>3. 1 + 1 = 2 /\ 1 + 5 = 6  OBVIOUS
    <3> QED BY <3>1, <3>2, <3>3, Zenon DEF TimeAt
  <2> QED BY <2>2, <2>3
<1>2. 8 \in Byte /\ 12 \in Byte  BY Marks DEF Byte
<1>3. TimeLayout(<<8>> \o Body(d), d)  BY <1>1, <1>2, Zenon DEF TimeLayout
<1>4. MicroTimeLayout(<<12>> \o Body(d) \o Micro(d), d)
  <2> DEFINE s == <<12>> \o Body(d)
             t == Micro(d)
             b == s \o t
  <2>1. s \in Seq(Byte) /\ Len(s) = 9 /\ s[1] = 12 /\ TimeAt(s, 1, d)
    BY <1>1, <1>2, Zenon
  <2>2. t \in Seq(Byte) /\ Len(t) = 4 /\ MicroAt(t, 0, d)  BY MicroBytes
  <2> HIDE DEF s, t
  <2>3. b \in Seq(Byte) /\ Len(b) = 13 /\ b[1] = 12
    <3>1. Len(s) + Len(t) = 13 /\ 13 \in Nat /\ Len(s) > 0  BY <2>1, <2>2
    <3> QED BY <2>1, <2>2, <3>1, JoinedLength, Zenon
  <2>4. MicroAt(b, 9, d)
    <3>1. MicroAt(b, Len(s), d)  BY <2>1, <2>2, PartsJoined
    <3> QED BY <2>1, <3>1
  <2>5. \A i \in 1..Len(s) : b[i] = s[i]  BY <2>1, <2>2, Joined
  <2> HIDE DEF b
  <2>6. TimeAt(b, 1, d)
    <3>1. \A i \in 1..9 : b[i] = s[i]  BY <2>1, <2>5
    <3>2. b[2] = Negative(d) /\ \A i \in 1..4 : b[2 + i] = Digit(d.day, i)
      BY <2>1, <3>1 DEF TimeAt
    <3>3. ClockAt(b, 6, d)  BY <2>1, <3>1 DEF TimeAt, ClockAt
    <3>4. 1 + 1 = 2 /\ 1 + 5 = 6  OBVIOUS
    <3> QED BY <3>2, <3>3, <3>4, Zenon DEF TimeAt
  <2> QED BY <2>3, <2>4, <2>6, Zenon DEF MicroTimeLayout, b, s, t
<1> QED BY <1>3, <1>4

(* What is read for each number of bytes.                                    *)
SignRead(b) == b[1] # 0

LEMMA TimeRead ==
    ASSUME NEW b, NEW day, day = UnpackInt(4, SubSeq(b, 2, 5)),
           NEW us, us = UnpackInt(4, SubSeq(b, 9, 12))
    PROVE  /\ UnpackTime(b, 0) = DatetimeOf(0, 0, 0, 0, 0, 0, 0, FALSE)
           /\ UnpackTime(b, 8)
                = DatetimeOf(0, 0, day, b[6], b[7], b[8], 0, SignRead(b))
           /\ UnpackTime(b, 12)
                = DatetimeOf(0, 0, day, b[6], b[7], b[8], us, SignRead(b))
<1> PICK sign : sign = SignRead(b)  OBVIOUS
<1> DEFINE time == [NoDatetime EXCEPT !.is_negative = sign, !.day = day,
                      !.hour = b[6], !.minute = b[7], !.second = b[8]]
           micro == [time EXCEPT !.microsecond = us]
<1>1. /\ ~(8 = 0) /\ 8 \in 1..8
      /\ ~(12 = 0) /\ ~(12 \in 1..8)
      /\ ~(0 \in 1..8)
  OBVIOUS
<1>2. /\ NoDatetime = DatetimeOf(0, 0, 0, 0, 0, 0, 0, FALSE)
      /\ time = DatetimeOf(0, 0, day, b[6], b[7], b[8], 0, sign)
      /\ micro = DatetimeOf(0, 0, day, b[6], b[7], b[8], us, sign)
  <2>1. PICK no : no = FALSE  OBVIOUS
  <2>2. NoDatetime = DatetimeOf(0, 0, 0, 0, 0, 0, 0, no)
    BY <2>1, Zenon DEF NoDatetime, DatetimeOf
  <2> DEFINE signed == [NoDatetime EXCEPT !.is_negative = sign]
             daily == [signed EXCEPT !.day = day]
             hourly == [daily EXCEPT !.hour = b[6]]
             timely == [hourly EXCEPT !.minute = b[7]]
  <2>3. signed = DatetimeOf(0, 0, 0, 0, 0, 0, 0, sign)  BY <2>2 DEF DatetimeOf
  <2> HIDE DEF signed
  <2>4. daily = DatetimeOf(0, 0, day, 0, 0, 0, 0, sign)  BY <2>3 DEF DatetimeOf
  <2> HIDE DEF daily
  <2>5. hourly = DatetimeOf(0, 0, day, b[6], 0, 0, 0, sign)
    BY <2>4 DEF DatetimeOf
  <2> HIDE DEF hourly
  <2>6. timely = DatetimeOf(0, 0, day, b[6], b[7], 0, 0, sign)
    BY <2>5 DEF DatetimeOf
  <2> HIDE DEF timely
  <2>7. [timely EXCEPT !.second = b[8]]
          = DatetimeOf(0, 0, day, b[6], b[7], b[8], 0, sign)
    BY <2>6 DEF DatetimeOf
  <2>8. time = DatetimeOf(0, 0, day, b[6], b[7], b[8], 0, sign)
    BY <2>7 DEF timely, hourly, daily, signed
  <2> HIDE DEF time
  <2>9. micro = DatetimeOf(0, 0, day, b[6], b[7], b[8], us, sign)
    BY <2>8 DEF DatetimeOf
  <2> QED BY <2>1, <2>2, <2>8, <2>9, Zenon
<1>3. UnpackTime(b, 0) = NoDatetime  BY <1>1, Zenon DEF UnpackTime
<1>4. UnpackTime(b, 8) = time
  BY <1>1, Zenon DEF UnpackTime, SignRead
<1>5. UnpackTime(b, 12) = micro
  BY <1>1, Zenon DEF UnpackTime, SignRead
<1> QED BY <1>2, <1>3, <1>4, <1>5, Zenon

(* The parts of a time are read from where they are.                         *)
LEMMA TimeLayoutsRead ==
    ASSUME NEW d, PartsOf(d), d.day = 0, NEW sign, sign = (Negative(d) # 0), NEW b
    PROVE  /\ TimeLayout(b, d) =>
                UnpackTime(Tail(b), Head(b))
                  = DatetimeOf(0, 0, 0, d.hour, d.minute, d.second, 0, sign)
           /\ MicroTimeLayout(b, d) =>
                UnpackTime(Tail(b), Head(b))
                  = DatetimeOf(0, 0, 0, d.hour, d.minute, d.second,
                               d.microsecond, sign)
<1>1. ASSUME b \in Seq(Byte), Len(b) >= 9, TimeAt(b, 1, d), NEW t, t = Tail(b)
      PROVE  /\ t[1] = Negative(d) /\ UnpackInt(4, SubSeq(t, 2, 5)) = 0
             /\ t[6] = d.hour /\ t[7] = d.minute /\ t[8] = d.second
  <2>1. \A i \in 1..(Len(b) - 1) : t[i] = b[i + 1]  BY <1>1, TailAt
  <2>2. t \in Seq(Byte) /\ Len(t) >= 8  BY <1>1, TailAt
  <2>3. \A i \in 1..8 : t[i] = b[i + 1]  BY <1>1, <2>1
  <2>4. /\ b[2] = Negative(d) /\ \A i \in 1..4 : b[2 + i] = Digit(d.day, i)
        /\ ClockAt(b, 6, d)
    <3>1. 1 + 1 = 2 /\ 1 + 5 = 6  OBVIOUS
    <3> QED BY <1>1, <3>1, Zenon DEF TimeAt
  <2>5. \A i \in 1..4 : SubSeq(t, 2, 5)[i] = t[1 + i]  BY <2>2
  <2>6. \A i \in 1..4 : t[1 + i] = b[2 + i]  BY <2>3
  <2>7. \A i \in 1..4 : SubSeq(t, 2, 5)[i] = Digit(0, i)
    BY <1>1, <2>4, <2>5, <2>6, Zenon
  <2>8. 4 \in 0..8 /\ 0 \in 0..(Power[4] - 1)
    <3>1. Power[4] \in Nat /\ Power[4] > 0  BY Powers
    <3> QED BY <3>1
  <2>9. UnpackInt(4, SubSeq(t, 2, 5)) = 0
    <3>1. PICK s : s = SubSeq(t, 2, 5)  OBVIOUS
    <3>2. \A i \in 1..4 : s[i] = Digit(0, i)  BY <2>7, <3>1
    <3>3. UnpackInt(4, s) = 0  BY <2>8, <3>2, IntKept
    <3> QED BY <3>1, <3>3
  <2>10. t[1] = Negative(d)  BY <2>3, <2>4
  <2>11. t[6] = d.hour /\ t[7] = d.minute /\ t[8] = d.second
    BY <2>3, <2>4 DEF ClockAt
  <2> QED BY <2>9, <2>10, <2>11
<1>2. ASSUME b \in Seq(Byte), Len(b) = 13, MicroAt(b, 9, d), NEW t, t = Tail(b)
      PROVE  UnpackInt(4, SubSeq(t, 9, 12)) = d.microsecond
  <2>1. t \in Seq(Byte) /\ Len(t) = 12 /\ \A i \in 1..12 : t[i] = b[i + 1]
    <3>1. Len(b) > 0 /\ Len(b) - 1 = 12  BY <1>2
    <3>2. /\ t \in Seq(Byte) /\ Len(t) = Len(b) - 1
          /\ \A i \in 1..(Len(b) - 1) : t[i] = b[i + 1]
      BY <1>2, <3>1, TailAt, Zenon
    <3> QED BY <3>1, <3>2, Zenon
  <2>2. \A i \in 1..4 : t[8 + i] = Digit(d.microsecond, i)
    <3> SUFFICES ASSUME NEW i \in 1..4
                 PROVE  t[8 + i] = Digit(d.microsecond, i)  OBVIOUS
    <3>1. t[8 + i] = b[9 + i]  BY <2>1
    <3> QED BY <1>2, <3>1 DEF MicroAt
  <2>3. \A i \in 1..4 : SubSeq(t, 9, 12)[i] = t[8 + i]  BY <2>1
  <2>4. d.microsecond \in 0..(Power[4] - 1) /\ 4 \in 0..8
    <3>1. Power[4] \in Nat  BY Powers
    <3> QED BY <3>1 DEF PartsOf
  <2>5. PICK s : s = SubSeq(t, 9, 12)  OBVIOUS
  <2>6. \A i \in 1..4 : s[i] = Digit(d.microsecond, i)
    BY <2>2, <2>3, <2>5, Zenon
  <2>7. UnpackInt(4, s) = d.microsecond  BY <2>4, <2>6, IntKept
  <2> QED BY <2>5, <2>7
<1>3. ASSUME TimeLayout(b, d)
      PROVE  UnpackTime(Tail(b), Head(b))
               = DatetimeOf(0, 0, 0, d.hour, d.minute, d.second, 0, sign)
  <2>1. PICK t : t = Tail(b)  OBVIOUS
  <2>2. b \in Seq(Byte) /\ Len(b) >= 9 /\ TimeAt(b, 1, d) /\ Head(b) = 8
    BY <1>3, TailAt DEF TimeLayout
  <2>3. /\ t[1] = Negative(d) /\ UnpackInt(4, SubSeq(t, 2, 5)) = 0
        /\ t[6] = d.hour /\ t[7] = d.minute /\ t[8] = d.second
    BY <1>1, <2>1, <2>2, Zenon
  <2>4. UnpackTime(t, 8)
          = DatetimeOf(0, 0, UnpackInt(4, SubSeq(t, 2, 5)), t[6], t[7], t[8], 0,
                       SignRead(t))
    BY TimeRead, Zenon
  <2>5. sign = SignRead(t)  BY <2>3, Zenon DEF SignRead
  <2>6. UnpackTime(t, 8) = DatetimeOf(0, 0, 0, d.hour, d.minute, d.second, 0, sign)
    BY <2>3, <2>4, <2>5
  <2> QED BY <2>1, <2>2, <2>6, Zenon
<1>4. ASSUME MicroTimeLayout(b, d)
      PROVE  UnpackTime(Tail(b), Head(b))
               = DatetimeOf(0, 0, 0, d.hour, d.minute, d.second,
                            d.microsecond, sign)
  <2>1. PICK t : t = Tail(b)  OBVIOUS
  <2>2. /\ b \in Seq(Byte) /\ Len(b) >= 9 /\ Len(b) = 13
        /\ TimeAt(b, 1, d) /\ MicroAt(b, 9, d) /\ Head(b) = 12
    BY <1>4, TailAt DEF MicroTimeLayout
  <2>3. /\ t[1] = Negative(d) /\ UnpackInt(4, SubSeq(t, 2, 5)) = 0
        /\ t[6] = d.hour /\ t[7] = d.minute /\ t[8] = d.second
    BY <1>1, <2>1, <2>2, Zenon
  <2>4. UnpackInt(4, SubSeq(t, 9, 12)) = d.microsecond
    BY <1>2, <2>1, <2>2, Zenon
  <2>5. UnpackTime(t, 12)
          = DatetimeOf(0, 0, UnpackInt(4, SubSeq(t, 2, 5)), t[6], t[7], t[8],
                       UnpackInt(4, SubSeq(t, 9, 12)), SignRead(t))
    BY TimeRead, Zenon
  <2>6. sign = SignRead(t)  BY <2>3, Zenon DEF SignRead
  <2>7. UnpackTime(t, 12)
          = DatetimeOf(0, 0, 0, d.hour, d.minute, d.second, d.microsecond, sign)
    BY <2>3, <2>4, <2>5, <2>6
  <2> QED BY <2>1, <2>2, <2>7, Zenon
<1> QED BY <1>3, <1>4

(* A time is unpacked as it was, unless it has at most hours.                *)
LEMMA TimeUnpacked ==
    ASSUME NEW d, d \in SetTimes, NEW b, b = PackTime(d)
    PROVE  /\ Measured(b)
           /\ \/ UnpackTime(Tail(b), Head(b)) = d
              \/ d.microsecond = 0 /\ d.minute = 0 /\ d.second = 0
<1>1. PartsOf(d) /\ d.day = 0 /\ d.is_negative \in BOOLEAN
  BY SetParts, Zenon
<1> PICK sign : sign = (Negative(d) # 0)  OBVIOUS
<1>2. d = DatetimeOf(0, 0, 0, d.hour, d.minute, d.second, d.microsecond, sign)
  <2>1. sign = d.is_negative
    <3>1. CASE d.is_negative
      <4>1. Negative(d) = 1 /\ 1 # 0  BY <3>1 DEF Negative
      <4> QED BY <1>1, <3>1, <4>1, Zenon
    <3>2. CASE ~d.is_negative
      <4>1. Negative(d) = 0  BY <3>2, Zenon DEF Negative
      <4> QED BY <1>1, <3>2, <4>1, Zenon
    <3> QED BY <3>1, <3>2
  <2> QED BY <2>1, SetParts, Zenon
<1>3. /\ d.microsecond > 0 \/ d.microsecond = 0
      /\ d.minute > 0 \/ d.minute = 0
      /\ d.second > 0 \/ d.second = 0
  BY <1>1, Marks DEF PartsOf, Byte
<1>4. CASE d.microsecond > 0
  <2>1. b = <<12>> \o Body(d) \o Micro(d)
    <3>1. d.microsecond # 0  BY <1>1, <1>4 DEF PartsOf
    <3> QED BY <1>4, <3>1, Zenon DEF PackTime, Body
  <2>2. MicroTimeLayout(b, d)  BY <1>1, <2>1, TimeBytes, Zenon
  <2>3. Measured(b)  BY <2>2 DEF MicroTimeLayout, Measured
  <2> QED BY <1>1, <1>2, <2>2, <2>3, TimeLayoutsRead, SMT
<1>5. CASE d.microsecond = 0 /\ (d.minute > 0 \/ d.second > 0)
  <2>1. b = <<8>> \o Body(d)
    <3>1. ~(d.microsecond > 0)  BY <1>5
    <3> QED BY <1>5, <3>1, Zenon DEF PackTime, Body
  <2>2. TimeLayout(b, d)  BY <1>1, <2>1, TimeBytes, Zenon
  <2>3. Measured(b)  BY <2>2 DEF TimeLayout, Measured
  <2> QED BY <1>1, <1>2, <1>5, <2>2, <2>3, TimeLayoutsRead, SMT
<1>6. CASE d.microsecond = 0 /\ d.minute = 0 /\ d.second = 0
  <2>1. b = <<0>>
    <3>1. ~(d.microsecond > 0) /\ ~(d.day > 0) /\ ~(d.minute > 0) /\ ~(d.second > 0)
      BY <1>1, <1>6
    <3> QED BY <1>6, <3>1, Zenon DEF PackTime
  <2> QED BY <1>6, <2>1, NothingPacked DEF Measured
<1> QED BY <1>3, <1>4, <1>5, <1>6, Zenon

-----------------------------------------------------------------------------
(* Columns                                                                   *)

LEMMA Halves ==
    ASSUME NEW w \in 1..8
    PROVE  /\ Power[w] \div 2 \in Nat /\ Power[w] \div 2 > 0
           /\ Power[w] = 2 * (Power[w] \div 2)
<1>1. w - 1 \in 0..8  OBVIOUS
<1> DEFINE p == Power[w - 1]
           h == Base \div 2
<1>2. Power[w] = Base * p /\ p \in Nat /\ p > 0  BY <1>1, Powers
<1>3. h \in Nat /\ h > 0 /\ Base = 2 * h  BY Marks
<1> HIDE DEF p, h
<1>4. h * p \in Nat /\ h * p > 0 /\ Base * p = 2 * (h * p)  BY <1>2, <1>3
<1>5. (2 * (h * p)) \div 2 = h * p
  <2> DEFINE x == h * p
  <2>1. x \in Nat  BY <1>4
  <2> HIDE DEF x
  <2>2. (2 * x) \div 2 = x  BY <2>1
  <2> QED BY <2>2 DEF x
<1> QED BY <1>2, <1>4, <1>5

(* The bytes of a signed number, and the cast back.                          *)
LEMMA SignedKept ==
    ASSUME NEW w \in 1..8, NEW v \in Int,
           v >= -(Power[w] \div 2), v < Power[w] \div 2,
           NEW n, n = IF v < 0 THEN Power[w] + v ELSE v
    PROVE  n \in Nat /\ n < Power[w] /\ SignedInt(w, n) = v
<1> DEFINE p == Power[w]
           h == p \div 2
<1>1. h \in Nat /\ h > 0 /\ p = 2 * h /\ v >= -h /\ v < h  BY Halves
<1>2. n = IF v < 0 THEN p + v ELSE v  OBVIOUS
<1>3. SignedInt(w, n) = IF n >= h THEN n - p ELSE n  BY DEF SignedInt
<1> HIDE DEF p, h
<1>4. n \in Nat /\ n < p /\ (IF n >= h THEN n - p ELSE n) = v
  BY <1>1, <1>2
<1> QED BY <1>3, <1>4 DEF p

LEMMA Widths ==
    ASSUME NEW type \in DOMAIN Width
    PROVE  /\ type \in {"TINY", "SHORT", "INT24", "LONG", "LONGLONG"}
           /\ Width[type] \in 1..8 /\ BytesRead[type] \in 1..8
           /\ type = "TINY" => Width[type] = 1
           /\ type = "LONGLONG" => Width[type] = 8
           /\ type = "INT24" => Width[type] = 4 /\ BytesRead[type] = 3
           /\ type # "INT24" => BytesRead[type] = Width[type]
           /\ type # "LONGLONG" => Width[type] <= 4
<1>1. type \in {"TINY", "SHORT", "INT24", "LONG", "LONGLONG"}  BY DEF Width
<1> QED BY <1>1 DEF Width, BytesRead

(* Powers grow.                                                              *)
LEMMA PowerGrows ==
    ASSUME NEW w \in 0..8
    PROVE  Power[w] <= Power[8] /\ (w <= 4 => Power[w] <= Power[4])
<1>1. ASSUME NEW i \in 1..8 PROVE Power[i] >= Power[i - 1]
  <2>1. i - 1 \in 0..8  OBVIOUS
  <2> DEFINE p == Power[i - 1]
  <2>2. Power[i] = Base * p /\ p \in Nat  BY <2>1, Powers
  <2> HIDE DEF p
  <2>3. Base * p >= p  BY <2>2, Marks
  <2> QED BY <2>2, <2>3 DEF p
<1>2. /\ Power[1] >= Power[0] /\ Power[2] >= Power[1]
      /\ Power[3] >= Power[2] /\ Power[4] >= Power[3]
      /\ Power[5] >= Power[4] /\ Power[6] >= Power[5]
      /\ Power[7] >= Power[6] /\ Power[8] >= Power[7]
  <2>1. /\ 1 - 1 = 0 /\ 2 - 1 = 1 /\ 3 - 1 = 2 /\ 4 - 1 = 3
        /\ 5 - 1 = 4 /\ 6 - 1 = 5 /\ 7 - 1 = 6 /\ 8 - 1 = 7
    OBVIOUS
  <2>2. /\ 1 \in 1..8 /\ 2 \in 1..8 /\ 3 \in 1..8 /\ 4 \in 1..8
        /\ 5 \in 1..8 /\ 6 \in 1..8 /\ 7 \in 1..8 /\ 8 \in 1..8
    OBVIOUS
  <2> QED BY <1>1, <2>1, <2>2
<1>3. \A i \in 0..8 : Power[i] \in Nat
  BY Powers
<1>4. w \in {0, 1, 2, 3, 4, 5, 6, 7, 8}  OBVIOUS
<1>5. /\ Power[0] \in Nat /\ Power[1] \in Nat /\ Power[2] \in Nat
      /\ Power[3] \in Nat /\ Power[4] \in Nat /\ Power[5] \in Nat
      /\ Power[6] \in Nat /\ Power[7] \in Nat /\ Power[8] \in Nat
  BY <1>3
<1>6. Power[w] <= Power[8]  BY <1>2, <1>4, <1>5
<1>7. CASE w <= 4
  <2>1. w \in {0, 1, 2, 3, 4}  BY <1>7
  <2> QED BY <2>1, <1>2, <1>5, <1>6
<1> QED BY <1>6, <1>7

(* The columns that the getters can return.                                  *)
Column(c) ==
    /\ c.type \in DOMAIN Width /\ c.is_unsigned \in BOOLEAN /\ c.value \in Int
    /\ Fits(c.value, c.is_unsigned, BytesRead[c.type])

LEMMA ColumnsAre == \A c \in Columns : Column(c)
<1> SUFFICES ASSUME NEW c \in Columns PROVE Column(c)  OBVIOUS
<1>1. c.value \in Values \/ \E n \in Values : c.value = -n  BY Zenon DEF Columns
<1>2. \A n \in Values : n \in Int /\ -n \in Int  BY PackingAssumption
<1>3. c.value \in Int  BY <1>1, <1>2, Zenon
<1> QED BY <1>3, Zenon DEF Columns, Column

NumberOf(c) == IF c.value < 0 THEN Power[Width[c.type]] + c.value ELSE c.value

LEMMA ColumnRead ==
    ASSUME NEW c, Column(c), ~(c.type = "INT24" /\ c.value < 0),
           NEW v, v = c.value, NEW type, type = c.type, NEW w, w = Width[type],
           NEW b, b = Encode(c), NEW n, n = NumberOf(c)
    PROVE  /\ v \in Int /\ type \in DOMAIN Width /\ w \in 1..8
           /\ n \in Nat /\ n < Power[w] /\ (v >= 0 => n = v)
           /\ b \in Seq(Byte) /\ b[1] = Digit(n, 1)
           /\ Raw(type, b) = n
           /\ c.is_unsigned => v >= 0
           /\ ~c.is_unsigned /\ type # "INT24" => SignedInt(w, n) = v
<1> DEFINE r == BytesRead[type]
<1>1. /\ v \in Int /\ type \in DOMAIN Width /\ w \in 1..8 /\ r \in 1..8
      /\ type = "INT24" => w = 4 /\ r = 3
      /\ type # "INT24" => r = w
  BY Widths DEF Column
<1>2. n = IF v < 0 THEN Power[w] + v ELSE v  BY DEF NumberOf
<1>3. Power[r] \in Nat /\ Power[w] \in Nat
  <2>1. r \in 0..8 /\ w \in 0..8  BY <1>1
  <2> QED BY <2>1, Powers
<1>4. c.is_unsigned => v \in 0..(Power[r] - 1)
  BY Zenon DEF Column, Fits
<1>5. ~c.is_unsigned => v \in -(Power[r] \div 2)..(Power[r] \div 2 - 1)
  BY Zenon DEF Column, Fits
<1>6. v >= 0 => v < Power[r]
  <2>1. CASE c.is_unsigned  BY <1>1, <1>3, <1>4, <2>1
  <2>2. CASE ~c.is_unsigned
    <3> DEFINE p == Power[r]
               h == p \div 2
    <3>1. h \in Nat /\ p = 2 * h /\ v \in -h..(h - 1)  BY <1>1, <1>5, <2>2, Halves
    <3> HIDE DEF p, h
    <3>2. v >= 0 => v < p  BY <1>1, <3>1
    <3> QED BY <3>2 DEF p
  <2> QED BY <2>1, <2>2
<1>7. Power[r] <= Power[w]
  <2>1. CASE type = "INT24"
    <3>1. 3 \in 0..8 /\ 3 <= 4  OBVIOUS
    <3> QED BY <1>1, <2>1, <3>1, PowerGrows
  <2>2. CASE type # "INT24"  BY <1>1, <1>3, <2>2
  <2> QED BY <2>1, <2>2
<1>8. ASSUME ~c.is_unsigned, type # "INT24"
      PROVE  n \in Nat /\ n < Power[w] /\ SignedInt(w, n) = v
  <2> DEFINE h == Power[w] \div 2
  <2>1. h \in Nat  BY <1>1, Halves
  <2>2. v \in -h..(h - 1)  BY <1>1, <1>5, <1>8
  <2> HIDE DEF h
  <2>3. v >= -h /\ v < h  BY <1>1, <2>1, <2>2
  <2> QED BY <1>1, <1>2, <2>3, SignedKept DEF h
<1>9. v >= 0 => n = v /\ n \in Nat /\ n < Power[r] /\ n < Power[w]
  BY <1>1, <1>2, <1>3, <1>6, <1>7
<1>10. c.is_unsigned => v >= 0  BY <1>1, <1>3, <1>4
<1>11. n \in Nat /\ n < Power[w] /\ (v < 0 => r = w)
  <2>1. v >= 0 \/ v < 0  BY <1>1
  <2> QED BY <1>1, <1>8, <1>9, <1>10, <2>1
<1>12. n < Power[r]
  <2>1. v >= 0 \/ v < 0  BY <1>1
  <2> QED BY <1>9, <1>11, <2>1
<1>13. b = PackInt(w, n)  BY Zenon DEF Encode, NumberOf
<1>14. /\ b \in Seq(Byte) /\ \A i \in 1..w : b[i] = Digit(n, i)
  <2>1. w \in 0..8  BY <1>1
  <2> QED BY <1>11, <1>13, <2>1, IntPacked
<1>15. b[1] = Digit(n, 1) /\ \A i \in 1..r : b[i] = Digit(n, i)
  <2>1. 1 \in 1..w /\ \A i \in 1..r : i \in 1..w  BY <1>1
  <2> QED BY <1>14, <2>1
<1>16. Raw(type, b) = n
  <2>1. n \in 0..(Power[r] - 1) /\ r \in 0..8  BY <1>1, <1>3, <1>11, <1>12
  <2>2. UnpackInt(r, b) = n  BY <1>15, <2>1, IntKept
  <2> QED BY <2>2, Zenon DEF Raw
<1> QED BY <1>1, <1>8, <1>9, <1>10, <1>11, <1>14, <1>15, <1>16, Zenon

(* Eight bytes are twice four.                                               *)
LEMMA LongPower ==
    Power[8] = Power[4] * Power[4]
<1>1. \A i \in 0..8 : Power[i] \in Nat  BY Powers
<1>2. /\ Power[8] = Base * Power[7] /\ Power[7] = Base * Power[6]
      /\ Power[6] = Base * Power[5] /\ Power[5] = Base * Power[4]
      /\ Power[4] = Base * Power[3] /\ Power[3] = Base * Power[2]
      /\ Power[2] = Base * Power[1] /\ Power[1] = Base * Power[0]
      /\ Power[0] = 1
  BY Powers
<1> DEFINE p == Power[4]
           s == Base * Base
<1>3. Base \in Nat /\ s \in Nat  BY Marks
<1>4. p \in Nat /\ p = s * s
  <2>1. Power[2] = s  BY <1>2, <1>3
  <2>2. Power[4] = Base * (Base * s)  BY <1>2, <2>1
  <2> QED BY <1>1, <1>3, <2>2
<1>5. Power[8] = Base * (Base * (Base * (Base * p)))  BY <1>2
<1> HIDE DEF p
<1>6. Base * (Base * (Base * (Base * p))) = (s * s) * p  BY <1>3, <1>4
<1> QED BY <1>4, <1>5, <1>6 DEF p

(* The lower four bytes of a LONGLONG.                                       *)
LEMMA LongTruncated ==
    ASSUME NEW v \in Int, v >= -(Power[4] \div 2), v < Power[4] \div 2,
           NEW n, n = IF v < 0 THEN Power[8] + v ELSE v
    PROVE  SignedInt(4, n % Power[4]) = v
<1> DEFINE p == Power[4]
           h == p \div 2
<1>1. 4 \in 1..8  OBVIOUS
<1>2. h \in Nat /\ h > 0 /\ p = 2 * h /\ v >= -h /\ v < h  BY <1>1, Halves
<1>3. n = IF v < 0 THEN (p * p) + v ELSE v  BY LongPower
<1> HIDE DEF p, h
<1>4. p \in Nat /\ p > 0  BY <1>2
<1>5. n % p = IF v < 0 THEN p + v ELSE v
  <2>1. CASE v >= 0
    <3>1. n = v /\ v \in Nat /\ v < p  BY <1>2, <1>3, <2>1
    <3> QED BY <1>4, <2>1, <3>1
  <2>2. CASE v < 0
    <3>1. p - 1 \in Nat /\ p + v \in Nat /\ p + v < p  BY <1>2, <1>4, <2>2
    <3>2. n = ((p - 1) * p) + (p + v)
      <4>1. (p - 1) * p = (p * p) - p  BY <1>4
      <4>2. p * p \in Nat  BY <1>4
      <4> QED BY <1>3, <1>4, <2>2, <4>1, <4>2
    <3>3. n \in Nat
      <4>1. (p - 1) * p \in Nat  BY <3>1, <1>4
      <4> QED BY <3>1, <3>2, <4>1
    <3>4. n % p = p + v  BY <1>4, <3>1, <3>2, <3>3, RemainderIs
    <3> QED BY <2>2, <3>4
  <2> QED BY <2>1, <2>2
<1>6. SignedInt(4, n % p) = v
  <2>1. n % p = IF v < 0 THEN Power[4] + v ELSE v  BY <1>5 DEF p
  <2>2. v >= -(Power[4] \div 2) /\ v < Power[4] \div 2  OBVIOUS
  <2> QED BY <1>1, <2>1, <2>2, SignedKept
<1> QED BY <1>6 DEF p

(* What the getters return, property by property.                            *)
LEMMA GettersOf ==
    ASSUME NEW c, Column(c), ~(c.type = "INT24" /\ c.value < 0),
           NEW b, b = Encode(c), NEW g, g = Gets(c, b)
    PROVE  /\ \/ /\ c.is_unsigned
                 /\ g.bigint_unsigned = c.value
                 /\ Fits(c.value, TRUE, 4) => g.int_unsigned = c.value
              \/ /\ ~c.is_unsigned
                 /\ g.bigint = c.value
                 /\ Fits(c.value, FALSE, 4) => g.int = c.value
<1> DEFINE v == c.value
           type == c.type
           w == Width[type]
           n == NumberOf(c)
<1>1. /\ v \in Int /\ type \in DOMAIN Width /\ w \in 1..8
      /\ n \in Nat /\ n < Power[w] /\ (v >= 0 => n = v)
      /\ Raw(type, b) = n
      /\ c.is_unsigned => v >= 0
      /\ ~c.is_unsigned /\ type # "INT24" => SignedInt(w, n) = v
  BY ColumnRead
<1>2. /\ g.int = GetInt(type, b) /\ g.int_unsigned = GetIntUnsigned(type, b)
      /\ g.bigint = GetBigint(type, b)
      /\ g.bigint_unsigned = GetBigintUnsigned(type, b)
  BY Zenon DEF Gets
<1>3. /\ type = "LONGLONG" => w = 8
      /\ type = "LONGLONG" => type # "INT24"
  BY <1>1, Widths
<1>4. type = "INT24" => n = v
  <2>1. v >= 0 \/ v < 0  BY <1>1
  <2> QED BY <1>1, <2>1
<1>5. ~c.is_unsigned => GetBigint(type, b) = v
  BY <1>1, <1>4, Zenon DEF GetBigint
<1>7. c.is_unsigned => GetBigintUnsigned(type, b) = v
  BY <1>1, Zenon DEF GetBigintUnsigned
<1>8. c.is_unsigned /\ Fits(v, TRUE, 4) => GetIntUnsigned(type, b) = v
  <2> SUFFICES ASSUME c.is_unsigned, Fits(v, TRUE, 4)
               PROVE  GetIntUnsigned(type, b) = v  OBVIOUS
  <2> DEFINE p == Power[4]
  <2>1. n = v /\ v \in 0..(p - 1) /\ p \in Nat  BY <1>1, Powers DEF Fits
  <2> HIDE DEF p, v, n
  <2>2. n % p = v  BY <2>1
  <2> QED BY <1>1, <2>2, Zenon DEF GetIntUnsigned, p
<1>9. ~c.is_unsigned /\ Fits(v, FALSE, 4) => GetInt(type, b) = v
  <2> SUFFICES ASSUME ~c.is_unsigned, Fits(v, FALSE, 4)
               PROVE  GetInt(type, b) = v  OBVIOUS
  <2>1. CASE type = "LONGLONG"
    <3>1. GetInt(type, b) = SignedInt(4, n % Power[4])
      BY <1>1, <2>1, Zenon DEF GetInt
    <3>2. v \in -(Power[4] \div 2)..(Power[4] \div 2 - 1)  BY Zenon DEF Fits
    <3>3. v >= -(Power[4] \div 2) /\ v < Power[4] \div 2
      <4> DEFINE h == Power[4] \div 2
      <4>1. h \in Nat
        <5>1. 4 \in 1..8  OBVIOUS
        <5> QED BY <5>1, Halves
      <4>2. v \in -h..(h - 1)  BY <3>2
      <4> HIDE DEF h
      <4>3. v >= -h /\ v < h  BY <1>1, <4>1, <4>2
      <4> QED BY <4>3 DEF h
    <3>4. n = IF v < 0 THEN Power[8] + v ELSE v
      BY <1>3, <2>1, Zenon DEF NumberOf
    <3> QED BY <1>1, <3>1, <3>3, <3>4, LongTruncated
  <2>2. CASE type # "LONGLONG"
    BY <1>5, <2>2, Zenon DEF GetInt
  <2> QED BY <2>1, <2>2
<1> HIDE DEF v, type, w, n
<1>10. v = c.value  BY DEF v
<1> QED BY <1>2, <1>5, <1>7, <1>8, <1>9, <1>10, Zenon

(* A number below the modulus is its remainder, also less the modulus.       *)
LEMMA RemainderKept ==
    ASSUME NEW p \in Nat, NEW n \in Nat, n < p
    PROVE  n % p = n /\ (n - p) % p = n
<1>1. p > 0 /\ n - p \in Int  OBVIOUS
<1>2. 0 \in Int /\ -1 \in Int /\ n = (0 * p) + n /\ n - p = ((-1) * p) + n
  OBVIOUS
<1> QED BY <1>1, <1>2, RemainderOf

(* How the one byte of a TINY is read through a char.                        *)
LEMMA TinyRead ==
    ASSUME NEW c, Column(c), c.type = "TINY", char_signed \in BOOLEAN,
           NEW b, b = Encode(c), NEW v, v = c.value, NEW n, n = NumberOf(c)
    PROVE  /\ v \in Int /\ n \in Byte /\ b[1] = n /\ Power[1] = Base
           /\ (v >= 0 => n = v)
           /\ c.is_unsigned => v >= 0
           /\ ~c.is_unsigned => SignedInt(1, n) = v
           /\ Char(n) \in {n, n - Base}
           /\ ~char_signed => Char(n) = n
           /\ char_signed => Char(n) = SignedInt(1, n)
           /\ SmallTiny(c) => n = v /\ Char(n) = n
<1>1. c.type # "INT24" /\ Width[c.type] = 1
  BY Widths DEF Column
<1>2. /\ v \in Int /\ n \in Nat /\ n < Power[1] /\ (v >= 0 => n = v)
      /\ b[1] = Digit(n, 1)
      /\ c.is_unsigned => v >= 0
      /\ ~c.is_unsigned => SignedInt(1, n) = v
  BY <1>1, ColumnRead
<1>3. Power[1] = Base /\ Power[0] = 1 /\ 1 - 1 = 0  BY Powers, Marks
<1>4. Digit(n, 1) = n
  <2>1. n \div 1 = n /\ n % Base = n  BY <1>2, <1>3, Marks
  <2> QED BY <1>3, <2>1, Zenon DEF Digit
<1>5. n \in Byte  BY <1>2, <1>3, Marks DEF Byte
<1>6. SignedInt(1, n) \in {n, n - Base}  BY <1>3 DEF SignedInt
<1>7. /\ ~char_signed => Char(n) = n
      /\ char_signed => Char(n) = SignedInt(1, n)
  BY Zenon DEF Char
<1>8. SmallTiny(c) => n = v /\ Char(n) = n
  <2> SUFFICES ASSUME SmallTiny(c) PROVE n = v /\ Char(n) = n  OBVIOUS
  <2>1. v \in 0..(Base \div 2 - 1)  BY DEF SmallTiny
  <2>2. n = v /\ ~(n >= Base \div 2)  BY <1>2, <2>1, Marks
  <2> QED BY <1>5, <2>2, CharKept
<1>9. Char(n) \in {n, n - Base}  BY <1>6, <1>7
<1> QED BY <1>2, <1>3, <1>4, <1>5, <1>7, <1>8, <1>9, Zenon

(* Which TINYs a signed and an unsigned byte tell apart.                     *)
LEMMA PrintedTiny ==
    ASSUME NEW c, Column(c), c.type = "TINY", char_signed \in BOOLEAN,
           narrow_formats \in BOOLEAN, NEW b, b = Encode(c)
    PROVE  \/ GetChar(c.type, c.is_unsigned, b) = c.value
           \/ /\ ~narrow_formats /\ c.type = "TINY"
              /\ char_signed = c.is_unsigned /\ ~SmallTiny(c)
<1> DEFINE v == c.value
           n == NumberOf(c)
           x == Char(n)
<1>1. /\ v \in Int /\ n \in Byte /\ b[1] = n /\ Power[1] = Base
      /\ (v >= 0 => n = v)
      /\ c.is_unsigned => v >= 0
      /\ ~c.is_unsigned => SignedInt(1, n) = v
      /\ x \in {n, n - Base}
      /\ ~char_signed => x = n
      /\ char_signed => x = SignedInt(1, n)
      /\ SmallTiny(c) => n = v /\ x = n
  BY TinyRead
<1>2. GetChar(c.type, c.is_unsigned, b) = Formatted(1, c.is_unsigned, x)
  BY <1>1, Zenon DEF GetChar
<1>3. c.is_unsigned \in BOOLEAN  BY Zenon DEF Column
<1> HIDE DEF n, x
<1>4. n \in Nat /\ n < Power[1] /\ Power[1] \in Nat
      /\ n < Power[4] /\ Power[4] \in Nat
  <2>1. Power[1] <= Power[4] /\ Power[4] \in Nat  BY PowerGrows, Powers
  <2> QED BY <1>1, <2>1, Marks DEF Byte
<1>5. x % Power[1] = n /\ n % Power[4] = n
  BY <1>1, <1>4, RemainderKept
<1>6. CASE narrow_formats
  <2>1. CASE c.is_unsigned
    <3>1. Formatted(1, c.is_unsigned, x) = x % Power[1]
      BY <1>6, <2>1 DEF Formatted
    <3> QED BY <1>1, <1>2, <1>5, <2>1, <3>1
  <2>2. CASE ~c.is_unsigned
    <3>1. Formatted(1, c.is_unsigned, x) = SignedInt(1, x % Power[1])
      BY <1>6, <2>2, Zenon DEF Formatted
    <3> QED BY <1>1, <1>2, <1>5, <2>2, <3>1
  <2> QED BY <2>1, <2>2
<1>7. CASE ~narrow_formats
  <2>1. CASE c.is_unsigned
    <3>1. Formatted(1, c.is_unsigned, x) = x % Power[4]
      BY <1>7, <2>1 DEF Formatted
    <3>2. CASE x = n  BY <1>1, <1>2, <1>5, <2>1, <3>1, <3>2
    <3>3. CASE x # n
      BY <1>1, <1>7, <2>1, <3>3
    <3> QED BY <3>2, <3>3
  <2>2. CASE ~c.is_unsigned
    <3>1. Formatted(1, c.is_unsigned, x) = x
      BY <1>7, <2>2 DEF Formatted
    <3>2. CASE x = v  BY <1>2, <3>1, <3>2
    <3>3. CASE x # v
      BY <1>1, <1>3, <1>7, <2>2, <3>3
    <3> QED BY <3>2, <3>3
  <2> QED BY <2>1, <2>2
<1> QED BY <1>6, <1>7

(* What is printed, but for the numbers that the platform's formats do not   *)
(* print.                                                                    *)
LEMMA PrintedOf ==
    ASSUME NEW c, Column(c), ~(c.type = "INT24" /\ c.value < 0),
           char_signed \in BOOLEAN, narrow_formats \in BOOLEAN,
           NEW b, b = Encode(c)
    PROVE  \/ GetChar(c.type, c.is_unsigned, b) = c.value
           \/ ~narrow_formats /\ c.type = "SHORT" /\ c.value < 0
           \/ /\ ~narrow_formats /\ c.type = "TINY"
              /\ char_signed = c.is_unsigned /\ ~SmallTiny(c)
<1> DEFINE v == c.value
           type == c.type
           w == Width[type]
           n == NumberOf(c)
<1>1. /\ v \in Int /\ type \in DOMAIN Width /\ w \in 1..8
      /\ n \in Nat /\ n < Power[w] /\ (v >= 0 => n = v)
      /\ Raw(type, b) = n
      /\ c.is_unsigned => v >= 0
      /\ ~c.is_unsigned /\ type # "INT24" => SignedInt(w, n) = v
  BY ColumnRead
<1>2. CASE type = "TINY"  BY <1>2, PrintedTiny
<1>3. CASE type = "SHORT"
  <2>1. GetChar(type, c.is_unsigned, b) = Formatted(2, c.is_unsigned, n)
    <3>1. type # "TINY"  BY <1>3
    <3> QED BY <1>1, <1>3, <3>1, Zenon DEF GetChar
  <2>2. w = 2 /\ type # "INT24"  BY <1>3 DEF Width
  <2> HIDE DEF n, w
  <2>3. n < Power[4] /\ Power[2] \in Nat /\ Power[4] \in Nat
    <3>1. Power[2] <= Power[4] /\ Power[2] \in Nat /\ Power[4] \in Nat
      BY PowerGrows, Powers
    <3> QED BY <1>1, <2>2, <3>1
  <2>4. n % Power[2] = n /\ n % Power[4] = n
    BY <1>1, <2>2, <2>3, RemainderKept
  <2>5. CASE c.is_unsigned
    <3>1. Formatted(2, c.is_unsigned, n) \in {n % Power[2], n % Power[4]}
      BY <2>5 DEF Formatted
    <3> QED BY <1>1, <2>1, <2>4, <2>5, <3>1
  <2>6. CASE ~c.is_unsigned /\ narrow_formats
    <3>1. Formatted(2, c.is_unsigned, n) = SignedInt(2, n % Power[2])
      BY <2>6, Zenon DEF Formatted
    <3> QED BY <1>1, <2>1, <2>2, <2>4, <2>6, <3>1
  <2>7. CASE ~c.is_unsigned /\ ~narrow_formats
    <3>1. Formatted(2, c.is_unsigned, n) = n
      BY <2>7 DEF Formatted
    <3>2. v >= 0 \/ v < 0  BY <1>1
    <3> QED BY <1>1, <1>3, <2>1, <2>7, <3>1, <3>2
  <2> QED BY <2>5, <2>6, <2>7
<1>4. CASE type \notin {"TINY", "SHORT"}
  <2>1. type = "INT24" => n = v
    <3>1. v >= 0 \/ v < 0  BY <1>1
    <3> QED BY <1>1, <3>1
  <2>2. type = "INT24" \/ type \in {"LONG", "LONGLONG"}
    BY <1>1, <1>4, Widths
  <2>3. type # "TINY" /\ type # "SHORT"  BY <1>4
  <2>4. CASE type = "INT24"
    <3>1. GetChar(type, c.is_unsigned, b) = Raw(type, b)
      BY <2>3, <2>4 DEF GetChar
    <3> QED BY <1>1, <2>1, <2>4, <3>1
  <2>5. CASE type \in {"LONG", "LONGLONG"} /\ c.is_unsigned
    <3>1. GetChar(type, c.is_unsigned, b) = Raw(type, b)
      BY <2>3, <2>5 DEF GetChar
    <3> QED BY <1>1, <2>5, <3>1
  <2>6. CASE type # "INT24" /\ ~c.is_unsigned
    <3>1. GetChar(type, c.is_unsigned, b) = SignedInt(w, Raw(type, b))
      BY <2>3, <2>6, Zenon DEF GetChar
    <3> QED BY <1>1, <2>6, <3>1, Zenon
  <2> QED BY <2>2, <2>4, <2>5, <2>6
<1> QED BY <1>2, <1>3, <1>4

(* A number of up to 64 bits has a spacing.                                  *)
LEMMA SpacingIs ==
    ASSUME NEW n \in Nat, n < Power[8]
    PROVE  Spacing(n) \in Spacings /\ (n < Mantissa => Spacing(n) = 1)
<1> DEFINE Fine(s) == n \div s < Mantissa /\ (s > 1 => n \div (s \div 2) >= Mantissa)
<1>1. Mantissa \in Nat /\ n \div 2048 < Mantissa
  <2>1. Mantissa \in Nat /\ Power[8] <= 2048 * Mantissa /\ Power[8] \in Nat
    BY PackingAssumption, Powers
  <2> QED BY <2>1
<1>2. n \div 1 = n  OBVIOUS
<1>3. \E s \in Spacings : Fine(s)
  BY <1>1, <1>2 DEF Spacings
<1>4. Spacing(n) \in Spacings /\ Fine(Spacing(n))
  BY <1>3, Zenon DEF Spacing
<1>5. n < Mantissa => Spacing(n) = 1
  BY <1>1, <1>4 DEF Spacings
<1> QED BY <1>4, <1>5

(* A multiple of the spacing is kept.                                        *)
LEMMA RoundedKept ==
    ASSUME NEW n \in Nat, n < Power[8],
           n < Mantissa \/ n % Spacing(n) = 0
    PROVE  Rounded(n) = n
<1>1. Spacing(n) \in Spacings /\ (n < Mantissa => Spacing(n) = 1)
  BY SpacingIs
<1> DEFINE s == Spacing(n)
<1>2. n % s = 0
  <2>1. n % 1 = 0  OBVIOUS
  <2> QED BY <1>1, <2>1
<1>3. Rounded(n) = s * (n \div s)
  <2>1. Rounded(n) = s * (IF 2 * 0 > s \/ (2 * 0 = s /\ (n \div s) % 2 = 1)
                           THEN n \div s + 1 ELSE n \div s)
    BY <1>2, Zenon DEF Rounded
  <2> HIDE DEF s
  <2>2. s > 0 /\ s \in Nat  BY <1>1 DEF Spacings, s
  <2>3. ~(2 * 0 > s) /\ ~(2 * 0 = s)  BY <2>2
  <2> QED BY <2>1, <2>3
<1> HIDE DEF s
<1>4. s * (n \div s) = n
  BY <1>1, <1>2 DEF Spacings, s
<1> QED BY <1>3, <1>4

(* A TINY is converted by the sign of the platform's char.                   *)
LEMMA DoubleOf ==
    ASSUME NEW c, Column(c), char_signed \in BOOLEAN, NEW b, b = Encode(c)
    PROVE  \/ GetDouble(c.type, b) = c.value
           \/ c.type # "TINY" /\ c.value < 0
           \/ c.value >= Mantissa /\ c.value % Spacing(c.value) # 0
           \/ /\ c.type = "TINY"
              /\ char_signed = c.is_unsigned /\ ~SmallTiny(c)
<1> DEFINE v == c.value
           n == NumberOf(c)
<1>1. CASE c.type # "TINY"
  <2>1. v \in Int  BY DEF Column
  <2>2. CASE v < 0  BY <1>1, <2>2
  <2>3. CASE v >= 0
    <3>1. ~(v < 0)  BY <2>1, <2>3
    <3>2. Raw(c.type, b) = v /\ n = v /\ n < Power[Width[c.type]]
          /\ Width[c.type] \in 1..8
      BY <2>3, <3>1, ColumnRead
    <3>3. GetDouble(c.type, b) = Rounded(v)
      BY <1>1, <3>2, Zenon DEF GetDouble
    <3> HIDE DEF n
    <3>4. v \in Nat /\ v < Power[8]
      <4>1. Power[Width[c.type]] <= Power[8] /\ Power[Width[c.type]] \in Nat
            /\ Power[8] \in Nat
        <5>1. Width[c.type] \in 0..8  BY <3>2
        <5> QED BY <5>1, PowerGrows, Powers
      <4> QED BY <2>1, <2>3, <3>2, <4>1
    <3>5. Mantissa \in Nat  BY PackingAssumption
    <3>6. CASE v < Mantissa \/ v % Spacing(v) = 0
      BY <3>3, <3>4, <3>6, RoundedKept
    <3>7. CASE ~(v < Mantissa) /\ v % Spacing(v) # 0
      BY <2>1, <3>5, <3>7
    <3> QED BY <3>6, <3>7
  <2> QED BY <2>1, <2>2, <2>3
<1>2. CASE c.type = "TINY"
  <2>1. /\ b[1] = n
        /\ (v >= 0 => n = v)
        /\ c.is_unsigned => v >= 0
        /\ ~c.is_unsigned => SignedInt(1, n) = v
        /\ ~char_signed => Char(n) = n
        /\ char_signed => Char(n) = SignedInt(1, n)
        /\ SmallTiny(c) => n = v /\ Char(n) = n
    BY <1>2, TinyRead
  <2>2. GetDouble(c.type, b) = Char(n)  BY <1>2, <2>1, Zenon DEF GetDouble
  <2>3. c.is_unsigned \in BOOLEAN  BY Zenon DEF Column
  <2>4. CASE SmallTiny(c)  BY <2>1, <2>2, <2>4
  <2>5. CASE char_signed # c.is_unsigned
    <3>1. Char(n) = v  BY <2>1, <2>3, <2>5, Zenon
    <3> QED BY <2>2, <3>1
  <2>6. CASE ~SmallTiny(c) /\ char_signed = c.is_unsigned  BY <1>2, <2>6
  <2> QED BY <2>4, <2>5, <2>6
<1> QED BY <1>1, <1>2

(* A record of all its parts.                                                *)
Whole(d) == d = DatetimeOf(d.year, d.month, d.day, d.hour, d.minute, d.second,
                           d.microsecond, FALSE)

(* What is unpacked where all its parts were packed.                         *)
ReadAs(u, d) ==
    u = DatetimeOf(d.year, d.month, Char(d.day), d.hour, d.minute, d.second,
                   d.microsecond, FALSE)

(* The parts of a date and time are kept, but for days of the upper half.    *)
LEMMA PartsKept ==
    ASSUME NEW d, Whole(d), d.day \in Byte, NEW u, ReadAs(u, d)
    PROVE  /\ [u EXCEPT !.day = d.day] = d
           /\ u.day = d.day \/ (char_signed /\ d.day >= Base \div 2)
<1>1. PICK no : no = FALSE  OBVIOUS
<1>2. d = DatetimeOf(d.year, d.month, d.day, d.hour, d.minute, d.second,
                     d.microsecond, no)
  BY <1>1, Zenon DEF Whole
<1>3. u = DatetimeOf(d.year, d.month, Char(d.day), d.hour, d.minute, d.second,
                     d.microsecond, no)
  BY <1>1, Zenon DEF ReadAs
<1>4. u.day = Char(d.day)  BY <1>3 DEF DatetimeOf
<1>5. [u EXCEPT !.day = d.day]
        = DatetimeOf(d.year, d.month, d.day, d.hour, d.minute, d.second,
                     d.microsecond, no)
  BY <1>3 DEF DatetimeOf
<1>6. Char(d.day) = d.day \/ (char_signed /\ d.day >= Base \div 2)  BY CharKept
<1> QED BY <1>2, <1>4, <1>5, <1>6, Zenon

(* A date without the time of day.                                           *)
LEMMA DateOf ==
    ASSUME NEW d, Whole(d),
           NEW e, e = [d EXCEPT !.hour = 0, !.minute = 0, !.second = 0,
                                !.microsecond = 0]
    PROVE  /\ Whole(e) /\ e.year = d.year /\ e.month = d.month /\ e.day = d.day
           /\ e.hour = 0 /\ e.minute = 0 /\ e.second = 0 /\ e.microsecond = 0
<1>1. PICK no : no = FALSE  OBVIOUS
<1> DEFINE hourless == [d EXCEPT !.hour = 0]
           minuteless == [hourless EXCEPT !.minute = 0]
           secondless == [minuteless EXCEPT !.second = 0]
<1>2. d = DatetimeOf(d.year, d.month, d.day, d.hour, d.minute, d.second,
                     d.microsecond, no)
  BY <1>1, Zenon DEF Whole
<1>3. hourless = DatetimeOf(d.year, d.month, d.day, 0, d.minute, d.second,
                            d.microsecond, no)
  BY <1>2 DEF DatetimeOf
<1> HIDE DEF hourless
<1>4. minuteless = DatetimeOf(d.year, d.month, d.day, 0, 0, d.second,
                              d.microsecond, no)
  BY <1>3 DEF DatetimeOf
<1> HIDE DEF minuteless
<1>5. secondless = DatetimeOf(d.year, d.month, d.day, 0, 0, 0, d.microsecond, no)
  BY <1>4 DEF DatetimeOf
<1> HIDE DEF secondless
<1>6. [secondless EXCEPT !.microsecond = 0]
        = DatetimeOf(d.year, d.month, d.day, 0, 0, 0, 0, no)
  BY <1>5 DEF DatetimeOf
<1>7. e = DatetimeOf(d.year, d.month, d.day, 0, 0, 0, 0, no)
  BY <1>6 DEF secondless, minuteless, hourless
<1>8. /\ e.year = d.year /\ e.month = d.month /\ e.day = d.day
      /\ e.hour = 0 /\ e.minute = 0 /\ e.second = 0 /\ e.microsecond = 0
  BY <1>7 DEF DatetimeOf
<1>9. Whole(e)  BY <1>1, <1>7, <1>8, Zenon DEF Whole
<1> QED BY <1>8, <1>9, Zenon

-----------------------------------------------------------------------------
(* Packing and unpacking                                                     *)

(* What Unpack makes of the buffer.                                          *)
Result == [kind |-> given.kind, value |-> Unpacked(buffer)]

(* The inductive invariant: a buffer is empty or what was packed, and what   *)
(* was unpacked is what the buffer says.                                     *)
PackingInv ==
    /\ char_signed \in BOOLEAN /\ narrow_formats \in BOOLEAN
    /\ given \in Givens
    /\ \/ buffer = << >> /\ unpacked = NoResult
       \/ buffer = Packed /\ (unpacked = NoResult \/ unpacked = Result)

LEMMA PackingStarts == PackingInit => PackingInv
BY DEF PackingInit, PackingInv

LEMMA PackingSteps ==
    PackingInv /\ [PackingNext]_packingVars => PackingInv'
<1> SUFFICES ASSUME PackingInv, [PackingNext]_packingVars PROVE PackingInv'
  OBVIOUS
<1>1. ASSUME UNCHANGED platform, given' = given
      PROVE  /\ Packed' = Packed
             /\ buffer' = buffer => Result' = Result
             /\ PackingInv => (char_signed \in BOOLEAN /\ narrow_formats \in BOOLEAN)'
  <2>0. char_signed' = char_signed /\ narrow_formats' = narrow_formats
    BY <1>1 DEF platform
  <2>1. Packed' = Packed  BY <1>1, Zenon DEF Packed
  <2>2. buffer' = buffer => Result' = Result
    BY <1>1, <2>0, Zenon
    DEF Result, Unpacked, UnpackLength, UnpackDatetime, UnpackTime, Gets,
        GetInt, GetIntUnsigned, GetBigint, GetBigintUnsigned, GetDouble,
        GetChar, Formatted, Char
  <2>3. PackingInv => (char_signed \in BOOLEAN /\ narrow_formats \in BOOLEAN)'
    BY <2>0 DEF PackingInv
  <2> QED BY <2>1, <2>2, <2>3
<1>2. ASSUME Pack PROVE PackingInv'
  <2>1. /\ UNCHANGED platform /\ given' = given /\ unpacked' = unpacked
        /\ buffer = << >> /\ buffer' = Packed
    BY <1>2, Zenon DEF Pack
  <2>2. CASE buffer = Packed
    BY <1>1, <2>1, <2>2, Zenon DEF PackingInv
  <2>3. CASE unpacked = NoResult
    BY <1>1, <2>1, <2>3, Zenon DEF PackingInv, NoResult
  <2> QED BY <2>2, <2>3 DEF PackingInv
<1>3. ASSUME Unpack PROVE PackingInv'
  <2>1. /\ UNCHANGED platform /\ given' = given /\ buffer' = buffer
        /\ buffer # << >> /\ unpacked' = Result
    BY <1>3, Zenon DEF Unpack, Result
  <2> QED BY <1>1, <2>1, Zenon DEF PackingInv
<1>4. CASE UNCHANGED packingVars
  <2>1. /\ UNCHANGED platform /\ given' = given /\ buffer' = buffer
        /\ unpacked' = unpacked
    BY <1>4 DEF packingVars
  <2> QED BY <1>1, <2>1, Zenon DEF PackingInv, NoResult
<1> QED BY <1>2, <1>3, <1>4 DEF PackingNext

(* A column is encoded in bytes, whatever its value.                         *)
LEMMA EncodedBytes ==
    ASSUME NEW c, Column(c)
    PROVE  Encode(c) \in Seq(Byte)
<1> DEFINE w == Width[c.type]
           n == NumberOf(c)
<1>1. w \in 1..8 /\ w \in 0..8 /\ c.value \in Int  BY Widths DEF Column
<1>2. n \in Int  BY <1>1, Powers DEF NumberOf
<1>3. Encode(c) = PackInt(w, n)  BY Zenon DEF Encode, NumberOf
<1> HIDE DEF w, n
<1>4. ASSUME NEW i \in 1..w PROVE Digit(n, i) \in Byte
  <2>1. i - 1 \in 0..8  BY <1>1
  <2> DEFINE p == Power[i - 1]
  <2>2. p \in Nat /\ p > 0  BY <2>1, Powers
  <2> HIDE DEF p
  <2>3. n \div p \in Int  BY <1>2, <2>2
  <2>4. (n \div p) % Base \in 0..(Base - 1)  BY <2>3, Marks
  <2> QED BY <2>4 DEF Digit, Byte, p
<1>5. PackInt(w, n) = [i \in 1..w |-> Digit(n, i)]  BY DEF PackInt, Digit
<1> QED BY <1>1, <1>3, <1>4, <1>5

(* What is packed, by its kind.                                              *)
LEMMA GivenKinds ==
    ASSUME given \in Givens
    PROVE  /\ given.kind \in {"length", "datetime", "date", "time", "column"}
           /\ given.kind = "length" => given.value \in Nat /\ given.value < Power[8]
           /\ given.kind \in {"datetime", "date"} => given.value \in SetDatetimes
           /\ given.kind = "time" => given.value \in SetTimes
           /\ given.kind = "column" => Column(given.value)
<1>1. /\ given.kind \in {"length", "datetime", "date", "time", "column"}
      /\ given.kind = "length" =>
           given.value \in {n \in Values : Fits(n, TRUE, 8)}
      /\ given.kind \in {"datetime", "date"} => given.value \in SetDatetimes
      /\ given.kind = "time" => given.value \in SetTimes
      /\ given.kind = "column" => given.value \in Columns
  <2> DEFINE L == {n \in Values : Fits(n, TRUE, 8)}
  <2> HIDE DEF L
  <2>1. \/ given \in [kind : {"length"}, value : L]
        \/ given \in [kind : {"datetime", "date"}, value : SetDatetimes]
        \/ given \in [kind : {"time"}, value : SetTimes]
        \/ given \in [kind : {"column"}, value : Columns]
    BY Zenon DEF Givens, L
  <2>2. /\ given.kind \in {"length", "datetime", "date", "time", "column"}
        /\ given.kind = "length" => given.value \in L
        /\ given.kind \in {"datetime", "date"} => given.value \in SetDatetimes
        /\ given.kind = "time" => given.value \in SetTimes
        /\ given.kind = "column" => given.value \in Columns
    BY <2>1
  <2> QED BY <2>2 DEF L
<1>2. \A n \in Values : Fits(n, TRUE, 8) => n \in Nat /\ n < Power[8]
  <2> DEFINE p == Power[8]
  <2>1. p \in Nat /\ Values \subseteq Nat  BY Powers, PackingAssumption
  <2>2. \A n \in Values : Fits(n, TRUE, 8) => n \in 0..(p - 1)  BY Zenon DEF Fits
  <2> HIDE DEF p
  <2>3. \A n \in 0..(p - 1) : n \in Nat /\ n < p  BY <2>1
  <2>4. \A n \in Values : Fits(n, TRUE, 8) => n \in Nat /\ n < p
    BY <2>2, <2>3, Zenon
  <2> QED BY <2>4 DEF p
<1> QED BY <1>1, <1>2, ColumnsAre, Zenon

(* The bytes of each kind.                                                   *)
LEMMA PackedBytes ==
    ASSUME given \in Givens
    PROVE  /\ Packed \in Seq(Byte)
           /\ given.kind \in {"datetime", "date", "time"} => Measured(Packed)
<1> DEFINE v == given.value
<1>1. CASE given.kind = "length"
  <2>1. Packed = PackLength(v)
    <3>1. given.kind # "datetime" /\ given.kind # "date" /\ given.kind # "time"
          /\ given.kind # "column"
      BY <1>1
    <3> QED BY <1>1, <3>1, Zenon DEF Packed
  <2>2. Packed \in Seq(Byte)  BY <1>1, <2>1, GivenKinds, LengthUnpackedAs
  <2> QED BY <1>1, <2>2
<1>2. CASE given.kind = "datetime"
  <2>1. Packed = PackDatetime(v, FALSE)
    <3>1. given.kind # "length" /\ given.kind # "date" /\ given.kind # "time"
          /\ given.kind # "column"
      BY <1>2
    <3> QED BY <1>2, <3>1, Zenon DEF Packed
  <2>2. v \in SetDatetimes  BY <1>2, GivenKinds
  <2>3. Measured(Packed)  BY <2>1, <2>2, SetParts, DatetimeUnpacked, Zenon
  <2> QED BY <2>3, Zenon DEF Measured
<1>3. CASE given.kind = "date"
  <2>1. Packed = PackDatetime(v, TRUE)
    <3>1. given.kind # "length" /\ given.kind # "datetime" /\ given.kind # "time"
          /\ given.kind # "column"
      BY <1>3
    <3> QED BY <1>3, <3>1, Zenon DEF Packed
  <2>2. v \in SetDatetimes  BY <1>3, GivenKinds
  <2>3. Measured(Packed)  BY <2>1, <2>2, SetParts, DateUnpacked, Zenon
  <2> QED BY <2>3, Zenon DEF Measured
<1>4. CASE given.kind = "time"
  <2>1. Packed = PackTime(v)
    <3>1. given.kind # "length" /\ given.kind # "datetime" /\ given.kind # "date"
          /\ given.kind # "column"
      BY <1>4
    <3> QED BY <1>4, <3>1, Zenon DEF Packed
  <2>2. v \in SetTimes  BY <1>4, GivenKinds
  <2>3. Measured(Packed)  BY <2>1, <2>2, TimeUnpacked, Zenon
  <2> QED BY <2>3, Zenon DEF Measured
<1>5. CASE given.kind = "column"
  <2>1. Packed = Encode(v)
    <3>1. given.kind # "length" /\ given.kind # "datetime" /\ given.kind # "date"
          /\ given.kind # "time"
      BY <1>5
    <3> QED BY <1>5, <3>1, Zenon DEF Packed
  <2>2. Column(v)  BY <1>5, GivenKinds
  <2>3. Encode(v) \in Seq(Byte)  BY <2>2, EncodedBytes
  <2> QED BY <1>5, <2>1, <2>3
<1> QED BY <1>1, <1>2, <1>3, <1>4, <1>5, GivenKinds, Zenon

(* What was unpacked is of the kind and from the bytes that were packed.     *)
LEMMA DoneIs ==
    ASSUME PackingInv, NEW kind, kind # "none", Done(kind)
    PROVE  /\ given \in Givens
           /\ char_signed \in BOOLEAN /\ narrow_formats \in BOOLEAN
           /\ given.kind = kind /\ buffer = Packed /\ unpacked.value = Unpacked(buffer)
<1>1. unpacked # NoResult  BY DEF Done, NoResult
<1>2. buffer = Packed /\ unpacked = Result  BY <1>1, Zenon DEF PackingInv
<1>3. unpacked.kind = given.kind /\ unpacked.value = Unpacked(buffer)
  BY <1>2 DEF Result
<1> QED BY <1>2, <1>3 DEF PackingInv, Done

LEMMA PackingTyped == PackingInv => PackingTypeOK
<1> SUFFICES ASSUME PackingInv PROVE PackingTypeOK  OBVIOUS
<1>1. CASE buffer = << >>  BY <1>1 DEF PackingTypeOK
<1>2. CASE buffer = Packed
  <2>1. given \in Givens  BY DEF PackingInv
  <2>2. buffer \in Seq(Byte)  BY <1>2, <2>1, PackedBytes, Zenon
  <2>3. \A i \in DOMAIN buffer : buffer[i] \in Byte  BY <2>2
  <2>4. given.kind \in {"datetime", "date", "time"} => Len(buffer) = buffer[1] + 1
    BY <1>2, <2>1, PackedBytes, Zenon DEF Measured
  <2> QED BY <2>3, <2>4, Zenon DEF PackingTypeOK, Byte
<1> QED BY <1>1, <1>2, Zenon DEF PackingInv

LEMMA LengthIsKept == PackingInv => LengthKeptBelowSign
<1> SUFFICES ASSUME PackingInv, Done("length")
             PROVE  \/ LengthUnpacked
                    \/ char_signed /\ given.value \in (Base \div 2)..(NullMark - 1)
  BY Zenon DEF LengthKeptBelowSign
<1> DEFINE n == given.value
<1>1. /\ given \in Givens /\ given.kind = "length" /\ buffer = Packed
      /\ unpacked.value = Unpacked(buffer)
  <2>1. "length" # "none"  OBVIOUS
  <2> QED BY <2>1, DoneIs, Zenon
<1>2. n \in Nat /\ n < Power[8]  BY <1>1, GivenKinds
<1>3. buffer = PackLength(n) /\ unpacked.value = UnpackLength(buffer)
  <2>1. /\ given.kind # "datetime" /\ given.kind # "date" /\ given.kind # "time"
        /\ given.kind # "column" /\ given.kind \notin {"datetime", "date"}
    BY <1>1
  <2> QED BY <1>1, <2>1, Zenon DEF Packed, Unpacked
<1>4. unpacked.value = [bytes |-> Len(buffer), null |-> FALSE,
                        length |-> IF n < NullMark THEN Char(n) ELSE n]
  BY <1>2, <1>3, LengthUnpackedAs, Zenon
<1>5. CASE (IF n < NullMark THEN Char(n) ELSE n) = n
  <2>1. unpacked.value = [bytes |-> Len(buffer), null |-> FALSE, length |-> n]
    BY <1>4, <1>5, Zenon
  <2> HIDE DEF n
  <2>2. [bytes |-> Len(buffer), null |-> FALSE, length |-> n]
          = [bytes |-> Len(buffer), length |-> n, null |-> FALSE]
    OBVIOUS
  <2> QED BY <2>1, <2>2, Zenon DEF LengthUnpacked, n
<1>6. CASE (IF n < NullMark THEN Char(n) ELSE n) # n
  <2>1. n < NullMark /\ Char(n) # n  BY <1>6, Zenon
  <2>2. n \in Byte  BY <1>2, <2>1, Marks DEF Byte
  <2>3. char_signed /\ n >= Base \div 2  BY <2>1, <2>2, CharKept, Zenon
  <2>4. n \in (Base \div 2)..(NullMark - 1)
    <3>1. n >= Base \div 2  BY <2>3, Zenon
    <3> QED BY <1>2, <2>1, <3>1, Marks
  <2> QED BY <2>3, <2>4, Zenon
<1> QED BY <1>5, <1>6

LEMMA DatetimeIsKept == PackingInv => DatetimeKept
<1> SUFFICES ASSUME PackingInv PROVE DatetimeKept  OBVIOUS
<1> DEFINE d == given.value
           dateOf == [d EXCEPT !.hour = 0, !.minute = 0, !.second = 0,
                               !.microsecond = 0]
           kept == IF given.kind = "datetime" THEN d ELSE dateOf
           Kept == /\ [unpacked.value EXCEPT !.day = kept.day] = kept
                   /\ \/ unpacked.value.day = kept.day
                      \/ char_signed /\ kept.day >= Base \div 2
<1>1. ASSUME NEW kind \in {"datetime", "date"}, Done(kind)
      PROVE  /\ given.kind = kind /\ buffer = Packed
             /\ unpacked.value = UnpackDatetime(Tail(buffer), Head(buffer))
             /\ d \in SetDatetimes /\ PartsOf(d) /\ d.day \in Byte
             /\ Whole(d)
  <2>1. kind # "none"  OBVIOUS
  <2>2. /\ given \in Givens /\ given.kind = kind /\ buffer = Packed
        /\ unpacked.value = Unpacked(buffer)
    BY <1>1, <2>1, DoneIs, Zenon
  <2>3. /\ given.kind # "length" /\ given.kind # "time" /\ given.kind # "column"
        /\ given.kind \in {"datetime", "date"}
    BY <2>2
  <2>4. unpacked.value = UnpackDatetime(Tail(buffer), Head(buffer))
    BY <2>2, <2>3, Zenon DEF Unpacked
  <2>5. d \in SetDatetimes  BY <2>2, <2>3, GivenKinds, Zenon
  <2> QED BY <2>2, <2>4, <2>5, SetParts, Zenon DEF PartsOf, Whole
<1>2. ASSUME Done("datetime") PROVE Kept
  <2>1. "datetime" \in {"datetime", "date"}  OBVIOUS
  <2>2. /\ given.kind = "datetime" /\ buffer = Packed
        /\ unpacked.value = UnpackDatetime(Tail(buffer), Head(buffer))
        /\ PartsOf(d) /\ d.day \in Byte
        /\ Whole(d)
    BY <1>1, <1>2, <2>1, Zenon
  <2>3. buffer = PackDatetime(d, FALSE)
    <3>1. /\ given.kind # "length" /\ given.kind # "date" /\ given.kind # "time"
          /\ given.kind # "column"
      BY <2>2
    <3> QED BY <2>2, <3>1, Zenon DEF Packed
  <2>4. unpacked.value = DatetimeOf(d.year, d.month, Char(d.day), d.hour, d.minute,
                                    d.second, d.microsecond, FALSE)
    BY <2>2, <2>3, DatetimeUnpacked, Zenon
  <2>5. kept = d  BY <2>2, Zenon
  <2> HIDE DEF d, kept
  <2>6. PICK u : u = unpacked.value  OBVIOUS
  <2>7. [u EXCEPT !.day = d.day] = d
        /\ (u.day = d.day \/ (char_signed /\ d.day >= Base \div 2))
    BY <2>2, <2>4, <2>6, PartsKept, Zenon DEF ReadAs
  <2> QED BY <2>5, <2>6, <2>7, Zenon
<1>3. ASSUME Done("date") PROVE Kept
  <2>1. "date" \in {"datetime", "date"}  OBVIOUS
  <2>2. /\ given.kind = "date" /\ buffer = Packed
        /\ unpacked.value = UnpackDatetime(Tail(buffer), Head(buffer))
        /\ PartsOf(d) /\ d.day \in Byte
        /\ Whole(d)
    BY <1>1, <1>3, <2>1, Zenon
  <2>3. /\ given.kind # "length" /\ given.kind # "datetime" /\ given.kind # "time"
        /\ given.kind # "column"
    BY <2>2
  <2>4. buffer = PackDatetime(d, TRUE)  BY <2>2, <2>3, Zenon DEF Packed
  <2>5. unpacked.value = DatetimeOf(d.year, d.month, Char(d.day), 0, 0, 0, 0, FALSE)
    BY <2>2, <2>4, DateUnpacked, Zenon
  <2>6. kept = dateOf  BY <2>3, Zenon
  <2>7. PICK e : e = dateOf  OBVIOUS
  <2>8. /\ Whole(e) /\ e.year = d.year /\ e.month = d.month /\ e.day = d.day
        /\ e.hour = 0 /\ e.minute = 0 /\ e.second = 0 /\ e.microsecond = 0
    <3> HIDE DEF d
    <3> QED BY <2>2, <2>7, DateOf
  <2> HIDE DEF d, kept, dateOf
  <2>9. PICK u : u = unpacked.value  OBVIOUS
  <2>10. u = DatetimeOf(e.year, e.month, Char(e.day), e.hour, e.minute, e.second,
                        e.microsecond, FALSE)
    BY <2>5, <2>8, <2>9, Zenon
  <2>11. e.day \in Byte  BY <2>2, <2>8, Zenon
  <2>12. [u EXCEPT !.day = e.day] = e
         /\ (u.day = e.day \/ (char_signed /\ e.day >= Base \div 2))
    BY <2>8, <2>10, <2>11, PartsKept, Zenon DEF ReadAs
  <2> QED BY <2>6, <2>7, <2>9, <2>12, Zenon
<1> QED BY <1>2, <1>3, Zenon DEF DatetimeKept

LEMMA TimeIsKept == PackingInv => TimeKeptBelowHour
<1> SUFFICES ASSUME PackingInv, Done("time")
             PROVE  \/ unpacked.value = given.value
                    \/ /\ given.value.microsecond = 0
                       /\ given.value.minute = 0 /\ given.value.second = 0
  BY Zenon DEF TimeKeptBelowHour
<1>1. /\ given \in Givens /\ given.kind = "time" /\ buffer = Packed
      /\ unpacked.value = Unpacked(buffer)
  <2>1. "time" # "none"  OBVIOUS
  <2> QED BY <2>1, DoneIs, Zenon
<1>2. /\ given.kind # "length" /\ given.kind # "datetime" /\ given.kind # "date"
      /\ given.kind # "column" /\ given.kind \notin {"datetime", "date"}
  BY <1>1
<1>3. buffer = PackTime(given.value)  BY <1>1, <1>2, Zenon DEF Packed
<1>4. unpacked.value = UnpackTime(Tail(buffer), Head(buffer))
  BY <1>1, <1>2, Zenon DEF Unpacked
<1>5. given.value \in SetTimes  BY <1>1, GivenKinds, Zenon
<1> QED BY <1>3, <1>4, <1>5, TimeUnpacked, Zenon

LEMMA ColumnsAreExact == PackingInv => ColumnsExact
<1> SUFFICES ASSUME PackingInv, Done("column")
             PROVE  ColumnsExact
  BY Zenon DEF ColumnsExact, GettersExact, PrintedExact, DoubleExact
<1> DEFINE c == given.value
           g == unpacked.value
<1>1. /\ given \in Givens /\ given.kind = "column" /\ buffer = Packed
      /\ unpacked.value = Unpacked(buffer)
      /\ char_signed \in BOOLEAN /\ narrow_formats \in BOOLEAN
  <2>1. "column" # "none"  OBVIOUS
  <2> QED BY <2>1, DoneIs, Zenon
<1>2. /\ given.kind # "length" /\ given.kind # "datetime" /\ given.kind # "date"
      /\ given.kind # "time" /\ given.kind \notin {"datetime", "date"}
  BY <1>1
<1>3. buffer = Encode(c)  BY <1>1, <1>2, Zenon DEF Packed
<1>4. g = Gets(c, buffer)  BY <1>1, <1>2, Zenon DEF Unpacked
<1>5. Column(c)  BY <1>1, GivenKinds, Zenon
<1> HIDE DEF c, g
<1>6. ~(c.type = "INT24" /\ c.value < 0) =>
        /\ \/ /\ c.is_unsigned
              /\ g.bigint_unsigned = c.value
              /\ Fits(c.value, TRUE, 4) => g.int_unsigned = c.value
           \/ /\ ~c.is_unsigned
              /\ g.bigint = c.value
              /\ Fits(c.value, FALSE, 4) => g.int = c.value
  BY <1>3, <1>4, <1>5, GettersOf
<1>7. /\ g.double = GetDouble(c.type, buffer)
      /\ g.char = GetChar(c.type, c.is_unsigned, buffer)
  BY <1>4, Zenon DEF Gets
<1>12. \/ g.char = c.value
       \/ c.type = "INT24" /\ c.value < 0
       \/ ~narrow_formats /\ c.type = "SHORT" /\ c.value < 0
       \/ /\ ~narrow_formats /\ c.type = "TINY"
          /\ char_signed = c.is_unsigned /\ ~SmallTiny(c)
  BY <1>1, <1>3, <1>5, <1>7, PrintedOf, Zenon
<1>8. \/ g.double = c.value
      \/ c.type # "TINY" /\ c.value < 0
      \/ c.value >= Mantissa /\ c.value % Spacing(c.value) # 0
      \/ /\ c.type = "TINY"
         /\ char_signed = c.is_unsigned /\ ~SmallTiny(c)
  BY <1>1, <1>3, <1>5, <1>7, DoubleOf, Zenon
<1>9. GettersExact  BY <1>6, Zenon DEF GettersExact, c, g
<1>10. PrintedExact  BY <1>12, Zenon DEF PrintedExact, c, g
<1>11. DoubleExact  BY <1>8, Zenon DEF DoubleExact, c, g
<1> QED BY <1>9, <1>10, <1>11, Zenon DEF ColumnsExact

(* PackedKept: a length, a date and time, a date and a time are unpacked as  *)
(* they were packed, from as many bytes, whatever is zero and left out; but  *)
(* for what a signed char, or a time of whole hours, makes of them (pack.cc).*)
THEOREM PackedKeptCorrect == PackingSpec => []PackedKept
<1>1. PackingInv => PackedKept
  BY PackingTyped, LengthIsKept, DatetimeIsKept, TimeIsKept, Zenon DEF PackedKept
<1> QED BY <1>1, PackingStarts, PackingSteps, PTL DEF PackingSpec

(* ColumnsExact: a getter returns, prints or converts the value of every     *)
(* column that it can represent, but for the columns that the property names *)
(* (statement_getset.cc).                                                    *)
THEOREM ColumnsExactCorrect == PackingSpec => []ColumnsExact
<1> QED BY ColumnsAreExact, PackingStarts, PackingSteps, PTL DEF PackingSpec
=============================================================================

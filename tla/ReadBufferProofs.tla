-------------------------- MODULE ReadBufferProofs --------------------------
(***************************************************************************)
(* The properties of ReadBuffer, proved for every size of the buffer, of   *)
(* packets and of reads.                                                   *)
(***************************************************************************)
EXTENDS ReadBuffer, SequenceTheorems, TLAPS

(* buffer_used counts the bytes before the write offset, read ones included, *)
(* and the buffer only grows.                                                *)
SizeInv ==
    /\ used = write
    /\ size >= DefaultSize /\ size <= MaxSize
    /\ running = "alloc" => Available >= Suggested

(* A current row stops the reader inside its packet; otherwise a reader that *)
(* expects nothing has emptied the buffer.                                   *)
ReaderInv ==
    /\ row # << >> => /\ ~expecting
                      /\ Header <= read
                      /\ packet_end = read - Header + head
    /\ ~expecting /\ row = << >> => write = read

(* The current row ends where its packet ends.                               *)
RowInv ==
    \A i \in DOMAIN row : /\ row[i].at + row[i].length = packet_end
                          /\ ~row[i].over /\ ~row[i].given_up

(* A kept row whose buffer was not emptied is before the write offset.       *)
KeptInv ==
    /\ \A i \in DOMAIN kept :
         kept[i].given_up \/ (~kept[i].over /\ kept[i].at + kept[i].length <= write)
    /\ ~buffer_rows => kept = << >>

BufferInv ==
    /\ TypeOK /\ StreamKept /\ InBuffer
    /\ SizeInv /\ ReaderInv /\ RowInv /\ KeptInv

-----------------------------------------------------------------------------
(* Pointers to rows                                                          *)

LEMMA PointersTyped ==
    ASSUME NEW s \in Seq(Pointer), NEW i \in DOMAIN s
    PROVE  /\ s[i] \in Pointer
           /\ s[i].at \in Nat /\ s[i].length \in Nat
           /\ s[i].over \in BOOLEAN /\ s[i].given_up \in BOOLEAN
<1>1. s[i] \in Pointer
  BY ElementOfSeq, LenProperties
<1> QED BY <1>1 DEF Pointer

(* Noting something in every pointer of a list keeps it a list of pointers,  *)
(* which start and end where they did.                                       *)
LEMMA NotedPointers ==
    ASSUME NEW s \in Seq(Pointer), NEW f,
           DOMAIN f = DOMAIN s,
           \A i \in DOMAIN s : f[i] \in Pointer,
           f = [i \in DOMAIN s |-> f[i]]
    PROVE  f \in Seq(Pointer) /\ Len(f) = Len(s)
<1>1. DOMAIN s = 1..Len(s) /\ Len(s) \in Nat
  BY LenProperties
<1>2. f \in [1..Len(s) -> Pointer]
  BY <1>1
<1>3. f \in Seq(Pointer)
  BY <1>1, <1>2, IsASeq
<1> QED BY <1>1, <1>3, LenProperties

LEMMA MovedPointers ==
    ASSUME NEW s \in Seq(Pointer)
    PROVE  /\ Moved(s) \in Seq(Pointer) /\ Len(Moved(s)) = Len(s)
           /\ DOMAIN Moved(s) = DOMAIN s
           /\ \A i \in DOMAIN s :
                /\ Moved(s)[i].at = s[i].at
                /\ Moved(s)[i].length = s[i].length
                /\ Moved(s)[i].over = s[i].over
                /\ Moved(s)[i].given_up = s[i].given_up
<1>1. \A i \in DOMAIN s : s[i] \in Pointer
  BY ElementOfSeq, LenProperties
<1>2. \A i \in DOMAIN s : Moved(s)[i] \in Pointer
  BY <1>1 DEF Moved, Pointer
<1>3. Moved(s) \in Seq(Pointer) /\ Len(Moved(s)) = Len(s)
  BY <1>2, NotedPointers DEF Moved
<1> QED BY <1>1, <1>3 DEF Moved, Pointer

LEMMA OverwrittenPointers ==
    ASSUME NEW s \in Seq(Pointer), NEW n \in Nat, write \in Nat
    PROVE  /\ Overwritten(s, n) \in Seq(Pointer)
           /\ Len(Overwritten(s, n)) = Len(s)
           /\ DOMAIN Overwritten(s, n) = DOMAIN s
           /\ \A i \in DOMAIN s :
                /\ Overwritten(s, n)[i].at = s[i].at
                /\ Overwritten(s, n)[i].length = s[i].length
                /\ Overwritten(s, n)[i].given_up = s[i].given_up
                /\ s[i].at + s[i].length <= write =>
                     Overwritten(s, n)[i].over = s[i].over
<1>1. \A i \in DOMAIN s : s[i] \in Pointer
  BY ElementOfSeq, LenProperties
<1>2. \A i \in DOMAIN s : Overwritten(s, n)[i] \in Pointer
  BY <1>1 DEF Overwritten, Pointer
<1>3. Overwritten(s, n) \in Seq(Pointer) /\ Len(Overwritten(s, n)) = Len(s)
  BY <1>2, NotedPointers DEF Overwritten
<1>4. \A i \in DOMAIN s :
        s[i].at + s[i].length <= write =>
            ~(s[i].at < write + n /\ s[i].at + s[i].length > write)
  BY <1>1 DEF Pointer
<1> QED BY <1>1, <1>3, <1>4 DEF Overwritten, Pointer

LEMMA GivenUpPointers ==
    ASSUME NEW s \in Seq(Pointer), NEW end \in Nat, write \in Nat
    PROVE  /\ GivenUp(s, end) \in Seq(Pointer)
           /\ Len(GivenUp(s, end)) = Len(s)
           /\ DOMAIN GivenUp(s, end) = DOMAIN s
           /\ \A i \in DOMAIN s :
                /\ GivenUp(s, end)[i].at = s[i].at
                /\ GivenUp(s, end)[i].length = s[i].length
                /\ GivenUp(s, end)[i].over = s[i].over
                /\ s[i].given_up => GivenUp(s, end)[i].given_up
                /\ end = write => GivenUp(s, end)[i].given_up
<1>1. \A i \in DOMAIN s : s[i] \in Pointer
  BY ElementOfSeq, LenProperties
<1>2. \A i \in DOMAIN s : GivenUp(s, end)[i] \in Pointer
  BY <1>1 DEF GivenUp, Pointer, Empties
<1>3. GivenUp(s, end) \in Seq(Pointer) /\ Len(GivenUp(s, end)) = Len(s)
  BY <1>2, NotedPointers DEF GivenUp
<1> QED BY <1>1, <1>3 DEF GivenUp, Pointer, Empties

-----------------------------------------------------------------------------
(* Room                                                                      *)

(* Where the room of the buffer is short, it is not the difference that has  *)
(* wrapped around; and then the reader has not passed half of the buffer.    *)
LEMMA ShortRoom ==
    ASSUME BufferInv, Available < Suggested
    PROVE  read + write <= size /\ Available = size - read - write /\ ~Shifts
<1>1. /\ size \in Nat /\ write \in Nat /\ read \in Nat
      /\ read <= write /\ write <= size /\ used = write
      /\ size <= MaxSize
  BY DEF BufferInv, TypeOK, InBuffer, SizeInv
<1>2. read + write <= size
  <2>1. SUFFICES ASSUME ~(read + write <= size) PROVE FALSE
    OBVIOUS
  <2>2. Available = Modulus + size - (read + write)
    BY <1>1, <2>1 DEF Available, Minus
  <2> QED BY <1>1, <2>2, BufferAssumption
<1>3. Available = size - read - write
  BY <1>1, <1>2 DEF Available, Minus
<1>4. (Available + used) % Modulus = size - read
  BY <1>1, <1>2, <1>3, BufferAssumption
<1>5. ~(size - read < size \div 2)
  BY <1>1, <1>2
<1> QED BY <1>2, <1>3, <1>4, <1>5 DEF Shifts

(* A current row is a list of one pointer.                                   *)
LEMMA CurrentRow ==
    ASSUME BufferInv, row # << >>
    PROVE  DOMAIN row = {1} /\ Len(row) = 1 /\ row[1] \in Pointer
<1>1. row \in Seq(Pointer) /\ Len(row) <= 1
  BY DEF BufferInv, TypeOK
<1>2. Len(row) \in Nat /\ DOMAIN row = 1..Len(row)
  BY <1>1, LenProperties
<1>3. Len(row) # 0
  BY <1>1, EmptySeq
<1>4. Len(row) = 1
  BY <1>1, <1>2, <1>3
<1>5. DOMAIN row = {1}
  BY <1>2, <1>4
<1> QED BY <1>1, <1>4, <1>5, PointersTyped

-----------------------------------------------------------------------------
(* Steps                                                                     *)

LEMMA InitInv == Init => BufferInv
  BY BufferAssumption, EmptySeq
  DEF Init, BufferInv, TypeOK, StreamKept, Start, InBuffer, SizeInv, ReaderInv,
      RowInv, KeptInv, Available, Minus

LEMMA OnAllocStep == BufferInv /\ OnAlloc => BufferInv'
  BY DEF OnAlloc, BufferInv, TypeOK, StreamKept, Start, InBuffer, SizeInv,
         ReaderInv, RowInv, KeptInv, Available, offsets, rows, stream

LEMMA OnAllocDoubleStep ==
    ASSUME BufferInv, OnAllocDouble
    PROVE  BufferInv'
<1>1. /\ row \in Seq(Pointer) /\ kept \in Seq(Pointer) /\ Len(row) <= 1
      /\ size \in Nat /\ write \in Nat /\ read \in Nat /\ size >= DefaultSize
  BY BufferAssumption DEF BufferInv, TypeOK, SizeInv
<1>2. read + write <= size
  BY ShortRoom DEF OnAllocDouble
<1>3. /\ row' \in Seq(Pointer) /\ Len(row') = Len(row) /\ DOMAIN row' = DOMAIN row
      /\ \A i \in DOMAIN row : /\ row'[i].at = row[i].at
                               /\ row'[i].length = row[i].length
                               /\ row'[i].over = row[i].over
                               /\ row'[i].given_up = row[i].given_up
  BY <1>1, MovedPointers DEF OnAllocDouble
<1>4. /\ kept' \in Seq(Pointer) /\ Len(kept') = Len(kept)
      /\ DOMAIN kept' = DOMAIN kept
      /\ \A i \in DOMAIN kept : /\ kept'[i].at = kept[i].at
                                /\ kept'[i].length = kept[i].length
                                /\ kept'[i].over = kept[i].over
                                /\ kept'[i].given_up = kept[i].given_up
  BY <1>1, MovedPointers DEF OnAllocDouble
<1>5. (row' = << >> <=> row = << >>) /\ (kept' = << >> <=> kept = << >>)
  BY <1>1, <1>3, <1>4, EmptySeq
<1>6. TypeOK'
  BY <1>1, <1>3, <1>4 DEF OnAllocDouble, Grown, BufferInv, TypeOK, stream
<1>7. StreamKept' /\ InBuffer' /\ ReaderInv'
  BY <1>5 DEF OnAllocDouble, BufferInv, StreamKept, Start, InBuffer, ReaderInv, stream
<1>8. SizeInv'
  BY <1>1, <1>2, BufferAssumption
  DEF OnAllocDouble, Grown, BufferInv, SizeInv, Available, Minus
<1>9. RowInv' /\ KeptInv'
  BY <1>3, <1>4, <1>5 DEF OnAllocDouble, BufferInv, RowInv, KeptInv
<1> QED BY <1>6, <1>7, <1>8, <1>9 DEF BufferInv

LEMMA ReadDataStep ==
    ASSUME BufferInv, NEW n \in 0..Burst, ReadData(n)
    PROVE  BufferInv'
<1>1. /\ row \in Seq(Pointer) /\ kept \in Seq(Pointer) /\ Len(row) <= 1
      /\ size \in Nat /\ write \in Nat /\ read \in Nat /\ packet_end \in Nat
      /\ received \in Nat /\ taken \in Nat /\ n \in Nat
  BY BufferAssumption DEF BufferInv, TypeOK
<1>2. /\ row' \in Seq(Pointer) /\ Len(row') = Len(row) /\ DOMAIN row' = DOMAIN row
      /\ \A i \in DOMAIN row : /\ row'[i].at = row[i].at
                               /\ row'[i].length = row[i].length
                               /\ row'[i].given_up = row[i].given_up
                               /\ row[i].at + row[i].length <= write =>
                                    row'[i].over = row[i].over
  BY <1>1, OverwrittenPointers DEF ReadData
<1>3. /\ kept' \in Seq(Pointer) /\ Len(kept') = Len(kept)
      /\ DOMAIN kept' = DOMAIN kept
      /\ \A i \in DOMAIN kept : /\ kept'[i].at = kept[i].at
                                /\ kept'[i].length = kept[i].length
                                /\ kept'[i].given_up = kept[i].given_up
                                /\ kept[i].at + kept[i].length <= write =>
                                     kept'[i].over = kept[i].over
  BY <1>1, OverwrittenPointers DEF ReadData
<1>4. (row' = << >> <=> row = << >>) /\ (kept' = << >> <=> kept = << >>)
  BY <1>1, <1>2, <1>3, EmptySeq
<1>5. TypeOK'
  BY <1>1, <1>2, <1>3 DEF ReadData, BufferInv, TypeOK
<1>6. StreamKept'
  BY <1>1, <1>4, BufferAssumption DEF ReadData, BufferInv, StreamKept, Start
<1>7. InBuffer' /\ ReaderInv'
  BY <1>1, <1>4 DEF ReadData, BufferInv, InBuffer, ReaderInv
<1>8. SizeInv'
  BY <1>1 DEF ReadData, BufferInv, SizeInv
<1>9. RowInv'
  <2>1. row # << >> => packet_end <= write
    BY DEF BufferInv, InBuffer
  <2>2. row = << >> => DOMAIN row = {}
    OBVIOUS
  <2> QED BY <1>2, <2>1, <2>2, <1>1 DEF ReadData, BufferInv, RowInv
<1>10. KeptInv'
  <2>1. \A i \in DOMAIN kept : kept[i].at \in Nat /\ kept[i].length \in Nat
    BY <1>1, PointersTyped
  <2> QED BY <1>1, <1>3, <1>4, <2>1 DEF ReadData, BufferInv, KeptInv
<1> QED BY <1>5, <1>6, <1>7, <1>8, <1>9, <1>10 DEF BufferInv

LEMMA PacketsDoneStep == BufferInv /\ PacketsDone => BufferInv'
  BY DEF PacketsDone, BufferInv, TypeOK, StreamKept, Start, InBuffer, SizeInv,
         ReaderInv, RowInv, KeptInv, Available, offsets, rows, stream

(* The end of a packet: the offsets move to it, or back to the start if it   *)
(* is the end of the data.                                                   *)
LEMMA PacketReadEndStep ==
    ASSUME BufferInv, NEW end \in Nat, end <= write, PacketReadEnd(end)
    PROVE  /\ used' = write' /\ write' \in Nat /\ read' \in Nat
           /\ packet_end' = read' /\ read' <= write' /\ write' <= write
           /\ end # write => write' = write
  BY DEF BufferInv, TypeOK, SizeInv, PacketReadEnd, Empties

(* A packet that starts at r is taken from the stream.                       *)
LEMMA TakenBytes ==
    ASSUME received \in Nat, taken \in Nat, write \in Nat, head \in Nat,
           NEW r \in Nat, NEW end \in Nat, end = r + head, PacketReadEnd(end),
           received - taken = write - r, row' = << >>,
           received' = received, taken' = taken + head
    PROVE  /\ StreamKept'
           /\ write - r = head => write' = read'
<1>1. CASE end = write
  <2>1. write' = 0 /\ read' = 0
    BY <1>1 DEF PacketReadEnd, Empties
  <2>2. received - (taken + head) = 0 - 0
    BY <1>1
  <2> QED BY <2>1, <2>2 DEF StreamKept, Start
<1>2. CASE end # write
  <2>1. write' = write /\ read' = end
    BY <1>2 DEF PacketReadEnd, Empties
  <2>2. received - (taken + head) = write - end /\ write - r # head
    BY <1>2
  <2> QED BY <2>1, <2>2 DEF StreamKept, Start
<1> QED BY <1>1, <1>2

LEMMA KeptGivenUp ==
    ASSUME BufferInv, NEW end \in Nat, NEW s \in Seq(Pointer), end <= write,
           \A i \in DOMAIN s :
              s[i].given_up \/ (~s[i].over /\ s[i].at + s[i].length <= write),
           PacketReadEnd(end), kept' = GivenUp(s, end)
    PROVE  /\ kept' \in Seq(Pointer) /\ Len(kept') = Len(s)
           /\ \A i \in DOMAIN kept' :
                kept'[i].given_up
                  \/ (~kept'[i].over /\ kept'[i].at + kept'[i].length <= write')
<1>1. write \in Nat
  BY DEF BufferInv, TypeOK
<1>2. end # write => write' = write
  BY PacketReadEndStep
<1> QED BY <1>1, <1>2, GivenUpPointers

(* The packet at the head is read to its end.                                *)
LEMMA TakePacket ==
    ASSUME BufferInv, running = "packets", expecting, Whole,
           PacketReadEnd(read + head), Taken, kept' = GivenUp(kept, read + head),
           UNCHANGED <<size, buffer_rows, row, position, received, running>>,
           expecting' \in BOOLEAN,
           ~expecting' => write - read = head
    PROVE  BufferInv'
<1>1. /\ size \in Nat /\ write \in Nat /\ read \in Nat /\ head \in Nat
      /\ write <= size /\ received \in Nat /\ taken \in Nat
      /\ kept \in Seq(Pointer) /\ row = << >> /\ row \in Seq(Pointer)
      /\ received - taken = write - read
      /\ read + head \in Nat /\ read + head <= write
  BY BufferAssumption
  DEF BufferInv, TypeOK, ReaderInv, StreamKept, Start, Whole
<1>2. /\ used' = write' /\ write' \in Nat /\ read' \in Nat
      /\ packet_end' = read' /\ read' <= write' /\ write' <= write
  BY <1>1, PacketReadEndStep
<1>3. /\ kept' \in Seq(Pointer) /\ Len(kept') = Len(kept)
      /\ \A i \in DOMAIN kept' :
           kept'[i].given_up
             \/ (~kept'[i].over /\ kept'[i].at + kept'[i].length <= write')
  BY <1>1, KeptGivenUp DEF BufferInv, KeptInv
<1>4. head' \in Lengths /\ taken' = taken + head
  BY DEF Taken
<1>5. TypeOK'
  BY <1>1, <1>2, <1>3, <1>4 DEF BufferInv, TypeOK
<1>6. StreamKept' /\ InBuffer' /\ ReaderInv' /\ RowInv'
  <2>1. row' = << >> /\ received' = received
    BY <1>1
  <2>2. StreamKept'
    BY <1>1, <1>2, <1>4, <2>1, TakenBytes
  <2>3. InBuffer' /\ RowInv'
    BY <1>2, <2>1 DEF InBuffer, RowInv
  <2>4. ReaderInv'
    <3>1. ~expecting' => write' = read'
      BY <1>1, <1>2, <1>4, <2>1, TakenBytes
    <3> QED BY <2>1, <3>1 DEF ReaderInv
  <2> QED BY <2>2, <2>3, <2>4
<1>7. SizeInv'
  BY <1>2 DEF BufferInv, SizeInv
<1>8. kept' = << >> <=> kept = << >>
  BY <1>1, <1>3, EmptySeq
<1>9. KeptInv'
  BY <1>3, <1>8 DEF BufferInv, KeptInv
<1> QED BY <1>5, <1>6, <1>7, <1>9 DEF BufferInv

LEMMA ReadPacketStep == BufferInv /\ ReadPacket => BufferInv'
  BY TakePacket DEF ReadPacket, BufferInv, TypeOK

LEMMA ReadLastStep == BufferInv /\ ReadLast => BufferInv'
<1>1. BufferInv /\ ReadLast => Whole
  BY BufferAssumption DEF ReadLast, Whole, BufferInv, TypeOK
<1> QED BY <1>1, TakePacket DEF ReadLast

LEMMA ReadRowStep ==
    ASSUME BufferInv, ReadRow
    PROVE  BufferInv'
<1>1. /\ size \in Nat /\ write \in Nat /\ read \in Nat /\ head \in Nat
      /\ write <= size /\ Header \in Nat /\ Header <= head
      /\ row = << >> /\ received - taken = write - read
      /\ read + head <= write
  BY BufferAssumption
  DEF ReadRow, BufferInv, TypeOK, ReaderInv, StreamKept, Start, Whole
<1>2. RowPointer \in Pointer /\ row' = <<RowPointer>>
  BY <1>1 DEF ReadRow, RowPointer, Pointer
<1>3. row' \in Seq(Pointer) /\ Len(row') = 1 /\ DOMAIN row' = {1} /\ row' # << >>
      /\ row'[1] = RowPointer
  BY <1>2
<1>4. read' = read + Header /\ packet_end' = read + head
  BY DEF ReadRow
<1>5. TypeOK'
  <2>1. read' \in 0..size /\ packet_end' \in 0..size
    BY <1>1, <1>4
  <2>2. /\ UNCHANGED <<size, used, write, buffer_rows, kept, position>>
        /\ UNCHANGED <<head, received, taken>>
        /\ expecting' = FALSE /\ running' = "idle"
    BY DEF ReadRow, stream
  <2>3. Len(row') <= 1
    BY <1>3
  <2> QED BY <1>3, <2>1, <2>2, <2>3 DEF BufferInv, TypeOK
<1>6. StreamKept' /\ InBuffer' /\ ReaderInv'
  BY <1>1, <1>3, <1>4 DEF ReadRow, StreamKept, Start, InBuffer, ReaderInv, stream
<1>7. SizeInv' /\ KeptInv'
  BY DEF ReadRow, BufferInv, SizeInv, KeptInv
<1>8. RowInv'
  BY <1>1, <1>3, <1>4 DEF RowInv, RowPointer
<1> QED BY <1>5, <1>6, <1>7, <1>8 DEF BufferInv

(* What both ways to the next row have in common.                            *)
LEMMA NextRowStep ==
    ASSUME BufferInv, GetNextRow,
           kept' \in Seq(Pointer), KeptInv'
    PROVE  BufferInv'
<1>1. /\ size \in Nat /\ write \in Nat /\ read \in Nat /\ head \in Nat
      /\ write <= size /\ Header \in Nat /\ Header <= read
      /\ received \in Nat /\ taken \in Nat
      /\ received - taken = write - (read - Header)
      /\ packet_end = read - Header + head
      /\ packet_end \in Nat /\ packet_end <= write
  BY BufferAssumption
  DEF GetNextRow, BufferInv, TypeOK, ReaderInv, StreamKept, Start, InBuffer
<1>2. /\ used' = write' /\ write' \in Nat /\ read' \in Nat
      /\ packet_end' = read' /\ read' <= write' /\ write' <= write
  BY <1>1, PacketReadEndStep DEF GetNextRow
<1>3. /\ head' \in Lengths /\ taken' = taken + head
      /\ row' = << >> /\ expecting' /\ running' = "packets"
      /\ UNCHANGED <<size, buffer_rows, position, received>>
  BY DEF GetNextRow, Taken
<1>4. row' \in Seq(Pointer) /\ Len(row') = 0
  BY <1>3, EmptySeq
<1>5. TypeOK'
  <2>1. write' \in 0..size /\ read' \in 0..size /\ packet_end' \in 0..size
    BY <1>1, <1>2
  <2>2. used' \in Nat /\ taken' \in Nat /\ Len(row') <= 1
    BY <1>1, <1>2, <1>3, <1>4
  <2>3. expecting' = TRUE
    BY DEF GetNextRow
  <2> QED BY <1>3, <1>4, <2>1, <2>2, <2>3 DEF BufferInv, TypeOK
<1>6. StreamKept' /\ InBuffer' /\ ReaderInv' /\ RowInv'
  <2>1. read - Header \in Nat
    BY <1>1
  <2>2. PacketReadEnd(packet_end)
    BY DEF GetNextRow
  <2>3. StreamKept'
    BY <1>1, <1>3, <2>1, <2>2, TakenBytes
  <2> QED BY <1>2, <1>3, <2>3 DEF InBuffer, ReaderInv, RowInv
<1>7. SizeInv'
  BY <1>2, <1>3 DEF BufferInv, SizeInv
<1> QED BY <1>5, <1>6, <1>7 DEF BufferInv

LEMMA RowNextStep ==
    ASSUME BufferInv, RowNext
    PROVE  BufferInv'
<1>1. kept = << >> /\ kept' = kept /\ kept \in Seq(Pointer)
  BY DEF RowNext, BufferInv, KeptInv, TypeOK
<1>2. KeptInv'
  BY <1>1 DEF KeptInv
<1> QED BY <1>1, <1>2, NextRowStep DEF RowNext

LEMMA RowBufferStep ==
    ASSUME BufferInv, RowBuffer
    PROVE  BufferInv'
<1>1. /\ row # << >> /\ row \in Seq(Pointer) /\ kept \in Seq(Pointer)
      /\ packet_end \in Nat /\ packet_end <= write /\ PacketReadEnd(packet_end)
      /\ buffer_rows' = TRUE /\ write \in Nat
      /\ GetNextRow /\ kept' = GivenUp(kept \o row, packet_end)
  BY DEF RowBuffer, GetNextRow, BufferInv, TypeOK, InBuffer
<1> DEFINE s == kept \o row
<1>2. /\ s \in Seq(Pointer) /\ Len(s) = Len(kept) + 1
      /\ \A i \in 1..Len(s) : s[i] = IF i <= Len(kept) THEN kept[i] ELSE row[1]
  <2>1. Len(row) = 1 /\ Len(kept) \in Nat
    BY <1>1, CurrentRow, LenProperties
  <2>2. /\ s \in Seq(Pointer) /\ Len(s) = Len(kept) + Len(row)
        /\ \A i \in 1..Len(kept) + Len(row) :
              s[i] = IF i <= Len(kept) THEN kept[i] ELSE row[i - Len(kept)]
    BY <1>1, ConcatProperties
  <2> QED BY <2>1, <2>2
<1>3. /\ row[1].at + row[1].length = packet_end
      /\ ~row[1].over
  BY <1>1, CurrentRow DEF BufferInv, RowInv
<1>4. \A i \in DOMAIN s :
        s[i].given_up \/ (~s[i].over /\ s[i].at + s[i].length <= write)
  <2>1. DOMAIN s = 1..Len(s) /\ DOMAIN kept = 1..Len(kept) /\ Len(kept) \in Nat
    BY <1>1, <1>2, LenProperties
  <2>2. \A i \in DOMAIN kept :
          kept[i].given_up \/ (~kept[i].over /\ kept[i].at + kept[i].length <= write)
    BY DEF BufferInv, KeptInv
  <2>3. TAKE i \in DOMAIN s
  <2>4. CASE i <= Len(kept)
    <3>1. i \in DOMAIN kept /\ s[i] = kept[i]
      BY <1>2, <2>1, <2>3, <2>4
    <3> HIDE DEF s
    <3> QED BY <2>2, <3>1
  <2>5. CASE ~(i <= Len(kept))
    <3>1. s[i] = row[1]
      BY <1>2, <2>1, <2>3, <2>5
    <3> HIDE DEF s
    <3> QED BY <1>1, <1>3, <3>1
  <2> QED BY <2>4, <2>5
<1>5. /\ kept' \in Seq(Pointer)
      /\ \A i \in DOMAIN kept' :
           kept'[i].given_up
             \/ (~kept'[i].over /\ kept'[i].at + kept'[i].length <= write')
  <2>1. kept' = GivenUp(s, packet_end)
    BY <1>1
  <2> HIDE DEF s
  <2> QED BY <1>1, <1>2, <1>4, <2>1, KeptGivenUp
<1>6. KeptInv'
  BY <1>1, <1>5 DEF KeptInv
<1> QED BY <1>1, <1>5, <1>6, NextRowStep

LEMMA BufferRowGetStep == BufferInv /\ BufferRowGet => BufferInv'
  BY DEF BufferRowGet, BufferInv, TypeOK, StreamKept, Start, InBuffer, SizeInv,
         ReaderInv, RowInv, KeptInv, Available, offsets, stream

LEMMA NextCommandStep ==
    ASSUME BufferInv, NextCommand
    PROVE  BufferInv'
<1>1. /\ row = << >> /\ row' = row /\ write = read /\ running' = running
      /\ kept' = << >> /\ position' = 0 /\ received' = 0 /\ taken' = 0
      /\ expecting' = TRUE /\ buffer_rows' \in BOOLEAN /\ head' = head
      /\ UNCHANGED <<size, used, write, read, packet_end>>
      /\ read \in Nat
  BY DEF NextCommand, Complete, BufferInv, ReaderInv, TypeOK, offsets
<1>2. kept' \in Seq(Pointer)
  BY <1>1, EmptySeq
<1>3. TypeOK'
  BY <1>1, <1>2 DEF BufferInv, TypeOK
<1>4. StreamKept' /\ InBuffer' /\ ReaderInv' /\ RowInv' /\ KeptInv'
  BY <1>1 DEF BufferInv, StreamKept, Start, InBuffer, ReaderInv, RowInv, KeptInv
<1>5. SizeInv'
  BY <1>1 DEF BufferInv, SizeInv, Available
<1> QED BY <1>3, <1>4, <1>5 DEF BufferInv

LEMMA BufferStep == BufferInv /\ [Next]_vars => BufferInv'
<1> SUFFICES ASSUME BufferInv, [Next]_vars PROVE BufferInv'
  OBVIOUS
<1>1. CASE OnAlloc
  BY <1>1, OnAllocStep
<1>2. CASE OnAllocDouble
  BY <1>2, OnAllocDoubleStep
<1>3. CASE \E n \in 0..Burst : ReadData(n)
  BY <1>3, ReadDataStep
<1>4. CASE PacketsDone
  BY <1>4, PacketsDoneStep
<1>5. CASE ReadPacket
  BY <1>5, ReadPacketStep
<1>6. CASE ReadLast
  BY <1>6, ReadLastStep
<1>7. CASE ReadRow
  BY <1>7, ReadRowStep
<1>8. CASE RowNext
  BY <1>8, RowNextStep
<1>9. CASE RowBuffer
  BY <1>9, RowBufferStep
<1>10. CASE BufferRowGet
  BY <1>10, BufferRowGetStep
<1>11. CASE NextCommand
  BY <1>11, NextCommandStep
<1>12. CASE UNCHANGED vars
  BY <1>12
  DEF vars, offsets, rows, stream, BufferInv, TypeOK, StreamKept, Start,
      InBuffer, SizeInv, ReaderInv, RowInv, KeptInv, Available
<1> QED
  BY <1>1, <1>2, <1>3, <1>4, <1>5, <1>6, <1>7, <1>8, <1>9, <1>10, <1>11, <1>12
  DEF Next

-----------------------------------------------------------------------------
(* Theorems                                                                  *)

(* The inductive invariant.                                                  *)
LEMMA BufferInvCorrect == Spec => []BufferInv
  BY InitInv, BufferStep, PTL DEF Spec

(* For every size of the buffer, of packets and of reads, no byte of the     *)
(* stream is lost or read twice through truncation and growth, and the       *)
(* reader never passes the writer (buffer.cc:65, 118, 129).                  *)
THEOREM StreamInBufferCorrect == Spec => []StreamInBuffer
<1>1. BufferInv => StreamInBuffer
  BY DEF BufferInv, StreamInBuffer
<1> QED BY <1>1, BufferInvCorrect, PTL

(* attachsql_buffer_increase never shifts, and one increase is enough for    *)
(* what libuv asks for, whatever the sizes, as long as the room libuv asks   *)
(* for is not more than the default size (buffer.cc:80, connect.cc:618).     *)
THEOREM RoomOfferedCorrect == Spec => []RoomOffered
<1>1. BufferInv => NeverShifts
  BY ShortRoom DEF NeverShifts
<1>2. BufferInv => RoomEnough
  BY DEF BufferInv, SizeInv, RoomEnough
<1> QED BY <1>1, <1>2, BufferInvCorrect, PTL DEF RoomOffered

(* The current row is never written over, and a kept row only after the      *)
(* buffer was emptied (buffer.cc:129, query.cc:545).                         *)
THEOREM RowsNotOverwrittenCorrect == Spec => []RowsNotOverwritten
<1>1. BufferInv => RowsNotOverwritten
  BY DEF BufferInv, RowInv, KeptInv, RowsNotOverwritten
<1> QED BY <1>1, BufferInvCorrect, PTL

=============================================================================

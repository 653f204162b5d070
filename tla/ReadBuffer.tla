----------------------------- MODULE ReadBuffer -----------------------------
(***************************************************************************)
(* The read buffer (buffer.cc) with its writer, on_alloc and the read      *)
(* callback, and its reader, the packet loop and the row calls.            *)
(*                                                                         *)
(* Pointers are offsets from the start of the buffer.  Contents are not    *)
(* modelled.  received and taken count the bytes of an answer that were    *)
(* put into the buffer and those of the packets that were read, which      *)
(* tells whether the bytes before the write offset are the next ones of    *)
(* the stream; a pointer to a row takes note of what became of its bytes:  *)
(* moved away with the buffer, written over, or given up when the buffer   *)
(* was emptied.  head is the length of the packet that starts at the read  *)
(* offset, with its header.                                                *)
(***************************************************************************)
EXTENDS Integers, Sequences

CONSTANTS
    DefaultSize,  \* ATTACHSQL_DEFAULT_BUFFER_SIZE
    Suggested,    \* the room libuv asks for
    Burst,        \* the most libuv reads at once
    Header,       \* length of a packet's header
    Lengths,      \* lengths of packets, with their headers
    Modulus,      \* size_t counts modulo this
    MaxSize,      \* bound: size the buffer grows to
    MaxBytes      \* bound: bytes of one answer

ASSUME BufferAssumption ==
    /\ DefaultSize \in Nat /\ Suggested \in Nat /\ Burst \in Nat
    /\ 0 < Suggested /\ Suggested <= DefaultSize
    /\ Header \in Nat \ {0}
    /\ Lengths \subseteq {l \in Nat : l >= Header}
    /\ Lengths # {}
    /\ Modulus \in Nat /\ MaxSize \in Nat /\ MaxBytes \in Nat
    /\ DefaultSize <= MaxSize
    /\ 2 * MaxSize + Suggested <= Modulus

VARIABLES
    size,        \* buffer_size
    used,        \* buffer_used
    write,       \* buffer_write_ptr - buffer
    read,        \* buffer_read_ptr - buffer
    packet_end,  \* packet_end_ptr - buffer
    expecting,   \* next_packet_queue is not empty
    buffer_rows, \* buffer_rows: the rows of this answer are kept
    row,         \* result.row_data: no pointer or one
    kept,        \* row_buffer: pointers to the rows kept so far
    position,    \* row_buffer_position
    head,        \* length of the packet at the read offset
    received,    \* bytes of this answer that were read from the stream
    taken,       \* bytes of its packets that were read to their end
    running      \* "idle", "alloc" or "packets"

offsets == <<size, used, write, read, packet_end>>
rows == <<buffer_rows, row, kept, position>>
stream == <<head, received, taken>>
vars == <<offsets, rows, stream, expecting, running>>

Pointer == [at : Nat, length : Nat, moved : BOOLEAN, over : BOOLEAN,
            given_up : BOOLEAN]

Init ==
    /\ size = DefaultSize
    /\ used = 0
    /\ write = 0
    /\ read = 0
    /\ packet_end = 0
    /\ expecting = TRUE
    /\ buffer_rows \in BOOLEAN
    /\ row = << >>
    /\ kept = << >>
    /\ position = 0
    /\ head \in Lengths
    /\ received = 0
    /\ taken = 0
    /\ running = "idle"

-----------------------------------------------------------------------------
(* buffer.cc                                                                 *)

(* size_t subtraction.                                                       *)
Minus(a, b) == IF b <= a THEN a - b ELSE Modulus + a - b

(* attachsql_buffer_get_available                                            *)
Available == Minus(size, read + used)

(* attachsql_buffer_increase shifts the data when the reader has passed half *)
(* of the buffer, and doubles the buffer otherwise.                          *)
Shifts == (Available + used) % Modulus < size \div 2

(* Mutant: the buffer grows by half of its size.                             *)
GrownByHalf == size + size \div 2

Grown == 2 * size

(* Mutant: a packet less than a header from the end empties the buffer.      *)
EmptiesEarly(end) == end + Header >= write

Empties(end) == end = write

(* Mutant: buffer_used counts the bytes that are not read yet.               *)
PacketReadEndUnread(end) ==
    IF Empties(end)
      THEN /\ read' = 0
           /\ write' = 0
           /\ used' = 0
           /\ packet_end' = 0
      ELSE /\ read' = end
           /\ packet_end' = end
           /\ used' = write - end
           /\ UNCHANGED write

(* attachsql_buffer_packet_read_end                                          *)
PacketReadEnd(end) ==
    IF Empties(end)
      THEN /\ read' = 0
           /\ write' = 0
           /\ used' = 0
           /\ packet_end' = 0
      ELSE /\ read' = end
           /\ packet_end' = end
           /\ UNCHANGED <<write, used>>

-----------------------------------------------------------------------------
(* on_alloc and the read callback                                            *)

(* realloc may leave the buffer where it is or move it.  The pointers of     *)
(* buffer_st follow it, those to rows do not.                                *)
Moved(pointers) == [i \in DOMAIN pointers |-> [pointers[i] EXCEPT !.moved = TRUE]]

(* on_alloc with enough room.                                                *)
OnAlloc ==
    /\ running = "idle"
    /\ Available >= Suggested
    /\ running' = "alloc"
    /\ UNCHANGED <<offsets, rows, stream, expecting>>

(* on_alloc, attachsql_buffer_increase doubling the buffer.                  *)
OnAllocDouble ==
    /\ running = "idle"
    /\ Available < Suggested
    /\ ~Shifts
    /\ Grown <= MaxSize
    /\ size' = Grown
    /\ \/ UNCHANGED <<row, kept>>
       \/ row' = Moved(row) /\ kept' = Moved(kept)
    /\ running' = "alloc"
    /\ UNCHANGED <<used, write, read, packet_end, buffer_rows, position>>
    /\ UNCHANGED <<stream, expecting>>

Overwritten(pointers, n) ==
    [i \in DOMAIN pointers |->
        [pointers[i] EXCEPT
           !.over = \/ @
                    \/ /\ pointers[i].at < write + n
                       /\ pointers[i].at + pointers[i].length > write]]

(* libuv puts n bytes into the room it was offered; a write past the end of  *)
(* the buffer has no defined outcome and is not continued here.              *)
ReadData(n) ==
    /\ running = "alloc"
    /\ n <= Available
    /\ n <= size - write
    /\ received + n <= MaxBytes
    /\ n > 0 => expecting \/ row # << >>
    /\ write' = write + n
    /\ used' = used + n
    /\ row' = Overwritten(row, n)
    /\ kept' = Overwritten(kept, n)
    /\ received' = received + n
    /\ running' = "packets"
    /\ UNCHANGED <<size, read, packet_end, buffer_rows, position>>
    /\ UNCHANGED <<head, taken, expecting>>

-----------------------------------------------------------------------------
(* attachsql_con_process_packets                                             *)

(* Mutant: the header is not counted.                                        *)
WholeBody == write - read + Header >= head

(* The packet at the read offset is there to its end.                        *)
Whole == write - read >= head

PacketsDone ==
    /\ running = "packets"
    /\ ~expecting \/ ~Whole
    /\ running' = "idle"
    /\ UNCHANGED <<offsets, rows, stream, expecting>>

(* The packet at the head has been read to its end.                          *)
Taken ==
    /\ taken' = taken + head
    /\ head' \in Lengths

(* What becomes of the bytes the pointers refer to when a packet ends.       *)
GivenUp(pointers, end) ==
    [i \in DOMAIN pointers |->
        [pointers[i] EXCEPT !.given_up = @ \/ Empties(end)]]

(* A packet that is not a row and not the last of the answer.                *)
ReadPacket ==
    /\ running = "packets"
    /\ expecting
    /\ Whole
    /\ PacketReadEnd(read + head)
    /\ Taken
    /\ kept' = GivenUp(kept, read + head)
    /\ UNCHANGED <<size, buffer_rows, row, position, received, expecting, running>>

(* The last packet: nothing is behind it in the buffer.                      *)
ReadLast ==
    /\ running = "packets"
    /\ expecting
    /\ write - read = head
    /\ PacketReadEnd(read + head)
    /\ Taken
    /\ expecting' = FALSE
    /\ kept' = GivenUp(kept, read + head)
    /\ UNCHANGED <<size, buffer_rows, row, position, received, running>>

RowPointer == [at |-> read + Header, length |-> head - Header,
               moved |-> FALSE, over |-> FALSE, given_up |-> FALSE]

(* Mutant: the packet of a row is ended before the row is taken.             *)
ReadRowEnding ==
    /\ running = "packets"
    /\ expecting
    /\ Whole
    /\ PacketReadEnd(read + head)
    /\ row' = <<RowPointer>>
    /\ expecting' = FALSE
    /\ running' = "idle"
    /\ UNCHANGED <<size, buffer_rows, kept, position, stream>>

(* attachsql_packet_read_row leaves the read pointer at the row.             *)
ReadRow ==
    /\ running = "packets"
    /\ expecting
    /\ Whole
    /\ read' = read + Header
    /\ packet_end' = read + head
    /\ row' = <<RowPointer>>
    /\ expecting' = FALSE
    /\ running' = "idle"
    /\ UNCHANGED <<size, used, write, buffer_rows, kept, position, stream>>

(* attachsql_get_next_row                                                    *)
GetNextRow ==
    /\ running = "idle"
    /\ row # << >>
    /\ PacketReadEnd(packet_end)
    /\ Taken
    /\ row' = << >>
    /\ expecting' = TRUE
    /\ running' = "packets"
    /\ UNCHANGED <<size, buffer_rows, position, received>>

RowNext == ~buffer_rows /\ GetNextRow /\ UNCHANGED kept

(* attachsql_query_row_buffer keeps pointers into the buffer.                *)
RowBuffer ==
    /\ buffer_rows
    /\ GetNextRow
    /\ kept' = GivenUp(kept \o row, packet_end)

-----------------------------------------------------------------------------
(* The answer is complete                                                    *)

Complete == running = "idle" /\ ~expecting /\ row = << >>

(* attachsql_query_buffer_row_get                                            *)
BufferRowGet ==
    /\ Complete
    /\ position < Len(kept)
    /\ position' = position + 1
    /\ UNCHANGED <<offsets, buffer_rows, row, kept, stream, expecting, running>>

(* attachsql_query_close, the next command, and whether its rows are to be   *)
(* kept (attachsql_query_buffer_rows).                                       *)
NextCommand ==
    /\ Complete
    /\ expecting' = TRUE
    /\ buffer_rows' \in BOOLEAN
    /\ kept' = << >>
    /\ position' = 0
    /\ received' = 0
    /\ taken' = 0
    /\ UNCHANGED <<offsets, row, head, running>>

-----------------------------------------------------------------------------
Next ==
    \/ OnAlloc \/ OnAllocDouble \/ PacketsDone \/ ReadPacket \/ ReadLast
    \/ ReadRow \/ RowNext \/ RowBuffer \/ BufferRowGet \/ NextCommand
    \/ \E n \in 0..Burst : ReadData(n)

Spec == Init /\ [][Next]_vars

-----------------------------------------------------------------------------
(* Properties                                                                *)

(* Offsets are inside the buffer, and lengths and pointers have their types  *)
(* (buffer_st).                                                              *)
TypeOK ==
    /\ size \in Nat /\ used \in Nat
    /\ write \in 0..size /\ read \in 0..size /\ packet_end \in 0..size
    /\ expecting \in BOOLEAN
    /\ buffer_rows \in BOOLEAN
    /\ row \in Seq(Pointer) /\ Len(row) <= 1
    /\ kept \in Seq(Pointer)
    /\ position \in Nat
    /\ head \in Lengths
    /\ received \in Nat /\ taken \in Nat
    /\ running \in {"idle", "alloc", "packets"}

(* Where the packet being read starts.                                       *)
Start == IF row = << >> THEN read ELSE read - Header

(* No byte of the stream is lost or read twice: what lies between the start  *)
(* of the current packet and the write offset is exactly what was received   *)
(* and not yet taken, through truncation and growth (buffer.cc:65, 124).     *)
StreamKept == received - taken = write - Start

(* The reader never passes the writer, nor does the end of a row that is     *)
(* still in the buffer: attachsql_buffer_unread_data never wraps, and the    *)
(* equality test of attachsql_buffer_packet_read_end never misses the moment *)
(* the buffer is empty (buffer.cc:118, 129).                                 *)
InBuffer == read <= write /\ (row # << >> => packet_end <= write)

(* The branch of attachsql_buffer_increase that moves the data and forgets   *)
(* to move the read pointer is never taken: by the time the reader has       *)
(* passed half of the buffer, attachsql_buffer_get_available has wrapped     *)
(* around and on_alloc sees plenty of room (buffer.cc:80).                   *)
NeverShifts == Available < Suggested => ~Shifts

(* One increase is enough: libuv is never offered less than it asked for, so *)
(* it never reports that there is no buffer space (connect.cc:618).          *)
RoomEnough == running = "alloc" => Available >= Suggested

(* A row is not written over while it is current, and a row kept by          *)
(* attachsql_query_row_buffer only after the buffer has been emptied with    *)
(* the answer still arriving (buffer.cc:129, query.cc:545).  That realloc    *)
(* moves the bytes away from under both is not excluded.                     *)
RowsNotOverwritten ==
    /\ \A i \in DOMAIN row : ~row[i].over
    /\ \A i \in DOMAIN kept : kept[i].over => kept[i].given_up

(* The offsets hold exactly the part of the stream that was received and     *)
(* not read, inside the buffer (buffer.cc:65, 118, 129).                     *)
StreamInBuffer == TypeOK /\ StreamKept /\ InBuffer

(* What attachsql_buffer_increase gives on_alloc: always enough room, and    *)
(* never by shifting (buffer.cc:80, connect.cc:618).                         *)
RoomOffered == NeverShifts /\ RoomEnough
=============================================================================

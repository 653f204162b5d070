------------------------------ MODULE Statement ------------------------------
(***************************************************************************)
(* Prepared statements (statement.cc, statement_getset.cc): the parameters *)
(* bound to a statement and who owns them, the packet that executes it,    *)
(* and the rows it returns.                                                *)
(*                                                                         *)
(* Values are not modelled.  A packet is the list of what was written to   *)
(* it and where, in bytes; the server reads back what was written last.    *)
(* The exchange of packets is module Connection's matter: the answer to a  *)
(* command is one step here.                                               *)
(***************************************************************************)
EXTENDS Integers, Sequences, FiniteSets

CONSTANTS
    ParamCounts,   \* parameters a statement may have
    ColumnCounts,  \* columns its result may have
    Types,         \* types of values the application binds
    StringSizes,   \* lengths of the strings it binds
    DefaultSize,   \* ATTACHSQL_STMT_EXEC_DEFAULT_SIZE
    Minimum,       \* room attachsql_stmt_execute asks for at first
    DatetimeSize,  \* sizeof(attachsql_datetime_st)
    Bits,          \* bits of a byte, 8 in a real build
    MaxLive        \* bound: datetime objects allocated and not deleted

AllTypes == {"LONG", "LONGLONG", "DOUBLE", "STRING", "BLOB", "NULL",
             "DATETIME", "TIME"}

ASSUME StatementAssumption ==
    /\ ParamCounts \subseteq Nat /\ ColumnCounts \subseteq Nat \ {0}
    /\ Types \subseteq AllTypes
    /\ StringSizes \subseteq Nat
    /\ DefaultSize \in Nat /\ Minimum \in Nat \ {0} /\ DatetimeSize \in Nat
    /\ Minimum <= DefaultSize /\ DatetimeSize <= Minimum
    /\ Bits \in Nat \ {0} /\ MaxLive \in Nat

VARIABLES
    phase,      \* "none", "preparing", "ready", "executing" or "rows"
    params,     \* stmt->param_data
    exec_size,  \* stmt->exec_buffer_length
    packet,     \* what an execution that is on its way wrote, in order
    overrun,    \* it wrote behind the end of its buffer
    columns,    \* columns of the statement's result
    stmt_row,   \* entries con->stmt_row has; 0: NULL
    row,        \* the current row: none or one
    read_at,    \* offsets attachsql_statement_row_get found
    live,       \* history: datetime objects allocated and not deleted
    lost,       \* history: those of them that the statement lost track of
    replaced    \* history: prepared over a statement that was not closed

binding == <<params, exec_size>>
sending == <<packet, overrun>>
result == <<columns, row, read_at>>
heap == <<live, lost>>
vars == <<phase, binding, sending, result, stmt_row, heap, replaced>>

(* data is what the union holds.                                             *)
Param == [type : AllTypes, data : {"nothing", "number", "string", "datetime"},
          size : Nat, datetime_alloc : BOOLEAN, covered : BOOLEAN]

(* Mutant: datetime_alloc is not initialised.                                *)
NewParamOwning ==
    [type |-> "NULL", data |-> "nothing", size |-> 0, datetime_alloc |-> TRUE,
     covered |-> FALSE]

(* attachsql_stmt_param_st(); covered is history: a number or a string was   *)
(* put where the pointer to a datetime was.                                  *)
NewParam ==
    [type |-> "NULL", data |-> "nothing", size |-> 0, datetime_alloc |-> FALSE,
     covered |-> FALSE]

Init ==
    /\ phase = "none"
    /\ params = << >>
    /\ exec_size = 0
    /\ packet = << >>
    /\ overrun = FALSE
    /\ columns = 0
    /\ stmt_row = 0
    /\ row = << >>
    /\ read_at = << >>
    /\ live = 0
    /\ lost = 0
    /\ replaced = FALSE

-----------------------------------------------------------------------------
(* Preparing and closing                                                     *)

(* The parameters that point to a datetime.                                  *)
Datetimes == {i \in DOMAIN params : params[i].data = "datetime"}

(* attachsql_statement_prepare on an idle connection: con->stmt is replaced, *)
(* whatever it held before.                                                  *)
Prepare ==
    /\ phase \in {"none", "ready"}
    /\ phase' = "preparing"
    /\ params' = << >>
    /\ exec_size' = 0
    /\ lost' = lost + Cardinality(Datetimes)
    /\ replaced' = (replaced \/ phase = "ready")
    /\ UNCHANGED <<sending, result, stmt_row, live>>

(* attachsql_packet_read_prepare_response, with the definitions that follow. *)
PrepareResponse(n, c) ==
    /\ phase = "preparing"
    /\ phase' = "ready"
    /\ params' = [i \in 1..n |-> NewParam]
    /\ columns' = c
    /\ UNCHANGED <<exec_size, sending, row, read_at, stmt_row, heap, replaced>>

(* Mutant: the last parameter is forgotten.                                  *)
DeletedButLast == {i \in DOMAIN params : i < Len(params) /\ params[i].datetime_alloc}

(* What attachsql_statement_close deletes as a datetime.                     *)
Deleted == {i \in DOMAIN params : params[i].datetime_alloc}

(* The objects of attachsql_statement_set_time are nobody's to delete.       *)
Unowned == {i \in Datetimes : ~params[i].datetime_alloc}

(* Mutant: con->stmt_row is kept for the next statement.                     *)
CloseKeepingRow ==
    /\ phase = "ready"
    /\ phase' = "none"
    /\ params' = << >>
    /\ exec_size' = 0
    /\ live' = live - Cardinality(Deleted \intersect Datetimes)
    /\ lost' = lost + Cardinality(Unowned)
    /\ replaced' = FALSE
    /\ UNCHANGED <<sending, result, stmt_row>>

(* attachsql_statement_close                                                 *)
Close ==
    /\ phase = "ready"
    /\ phase' = "none"
    /\ stmt_row' = 0
    /\ params' = << >>
    /\ exec_size' = 0
    /\ live' = live - Cardinality(Deleted \intersect Datetimes)
    /\ lost' = lost + Cardinality(Unowned)
    /\ replaced' = FALSE
    /\ UNCHANGED <<sending, result>>

-----------------------------------------------------------------------------
(* Parameters                                                                *)

Sets(i) ==
    /\ phase = "ready"
    /\ i \in DOMAIN params
    /\ phase' = phase
    /\ UNCHANGED <<exec_size, sending, result, stmt_row, replaced>>

(* The union takes another value: a datetime in it is deleted by nobody.     *)
Loses(i) == lost' = IF i \in Datetimes THEN lost + 1 ELSE lost

Covers(i) == i \in Datetimes \/ params[i].covered

(* attachsql_statement_set_param: it does not touch datetime_alloc.          *)
SetNumber(i, type) ==
    /\ Sets(i)
    /\ type \in Types \intersect {"LONG", "LONGLONG", "DOUBLE"}
    /\ params' = [params EXCEPT ![i].data = "number", ![i].type = type,
                                ![i].covered = Covers(i)]
    /\ Loses(i)
    /\ UNCHANGED live

SetString(i, type, length) ==
    /\ Sets(i)
    /\ type \in Types \intersect {"STRING", "BLOB"}
    /\ params' = [params EXCEPT ![i].data = "string", ![i].size = length,
                                ![i].type = type, ![i].covered = Covers(i)]
    /\ Loses(i)
    /\ UNCHANGED live

SetNull(i) ==
    /\ Sets(i)
    /\ "NULL" \in Types
    /\ params' = [params EXCEPT ![i].type = "NULL"]
    /\ UNCHANGED heap

(* attachsql_statement_set_datetime and attachsql_statement_set_time; only   *)
(* the first takes note that the object has to be deleted.                   *)
SetDatetime(i, type) ==
    /\ Sets(i)
    /\ type \in Types \intersect {"DATETIME", "TIME"}
    /\ params' = [params EXCEPT ![i].data = "datetime", ![i].type = type,
                                ![i].datetime_alloc = (type = "DATETIME"),
                                ![i].covered = FALSE]
    /\ live < MaxLive
    /\ live' = live + 1
    /\ Loses(i)

-----------------------------------------------------------------------------
(* attachsql_stmt_execute                                                    *)

IsNull(i) == params[i].type = "NULL"

(* Mutant: no byte for the last few parameters.                              *)
NullBytesDown(n) == n \div Bits

NullBytes(n) == (n + Bits - 1) \div Bits

(* Statement id, cursor flags, iteration count, NULL bits and new_bind.      *)
TypesStart == 10 + NullBytes(Len(params))

(* Bytes of a length and of what it counts (attachsql_pack_data).            *)
PackedSize(length) ==
    length + (IF length <= 250 THEN 1 ELSE IF length <= 65535 THEN 3
              ELSE IF length <= 16777215 THEN 4 ELSE 9)

(* A datetime or time with all its parts.                                    *)
ValueSize(p) ==
    CASE p.type = "LONG" -> 4
      [] p.type \in {"LONGLONG", "DOUBLE"} -> 8
      [] p.type \in {"STRING", "BLOB"} -> PackedSize(p.size)
      [] p.type = "DATETIME" -> 12
      [] p.type = "TIME" -> 13
      [] p.type = "NULL" -> 0

NotNull == {i \in DOMAIN params : ~IsNull(i)}

(* buffer_pos before the value of each parameter, and behind the last one.   *)
ValuesAt ==
    LET at[i \in 1..(Len(params) + 1)] ==
          IF i = 1 THEN TypesStart + 2 * Cardinality(NotNull)
          ELSE at[i - 1] + ValueSize(params[i - 1])
    IN  at

(* A type is written at the place of its parameter.                          *)
TypeAt(i) == TypesStart + 2 * (i - 1)

Written(i) ==
    IF IsNull(i) THEN << >>
    ELSE <<[what |-> "type", param |-> i, at |-> TypeAt(i), size |-> 2],
           [what |-> "value", param |-> i, at |-> ValuesAt[i],
            size |-> ValueSize(params[i])]>>

AllWritten ==
    LET upto[i \in 0..Len(params)] ==
          IF i = 0 THEN << >> ELSE upto[i - 1] \o Written(i)
    IN  upto[Len(params)]

(* Mutant: the buffer is made as large as is asked for now.                  *)
CheckedExact(size, required) == IF size < required THEN required ELSE size

(* attachsql_stmt_check_buffer_size: what is in the buffer does not count.   *)
Checked(size, required) ==
    IF size >= required THEN size
    ELSE IF size = 0 THEN DefaultSize ELSE 2 * size

(* The buffer before a parameter's value is written, from the one before     *)
(* that of the parameter before it.                                          *)
Grown(i, size) ==
    IF IsNull(i) THEN size
    ELSE IF params[i].type \in {"STRING", "BLOB"}
      THEN Checked(Checked(size, DatetimeSize), params[i].size)
    ELSE Checked(size, DatetimeSize)

(* exec_buffer_length when the value of each parameter is written.           *)
SizeAt ==
    LET size[i \in 0..Len(params)] ==
          IF i = 0 THEN Checked(exec_size, Minimum) ELSE Grown(i, size[i - 1])
    IN  size

Execute ==
    /\ phase = "ready"
    /\ phase' = "executing"
    /\ exec_size' = SizeAt[Len(params)]
    /\ packet' = AllWritten
    /\ overrun' = \E i \in NotNull :
                      ValuesAt[i] + ValueSize(params[i]) > SizeAt[i]
    /\ UNCHANGED <<params, result, stmt_row, heap, replaced>>

-----------------------------------------------------------------------------
(* Rows                                                                      *)

(* The answer starts a result, or is an OK or an error.                      *)
ExecuteResponse ==
    /\ phase = "executing"
    /\ phase' \in {"rows", "ready"}
    /\ packet' = << >>
    /\ overrun' = FALSE
    /\ UNCHANGED <<binding, result, stmt_row, heap, replaced>>

(* A row arrives: nulls are its columns without a value, sizes the bytes of  *)
(* the others.                                                               *)
ReadRow(nulls, size) ==
    /\ phase = "rows"
    /\ row = << >>
    /\ row' = <<[nulls |-> nulls, size |-> size]>>
    /\ read_at' = << >>
    /\ UNCHANGED <<phase, binding, sending, columns, stmt_row, heap, replaced>>

(* Mutant: the two bits that are not used are forgotten.                     *)
RowBitmapNarrow(c) == (c + Bits - 1) \div Bits

RowBitmap(c) == (c + Bits - 1 + 2) \div Bits

(* attachsql_statement_row_get: con->stmt_row is allocated once.             *)
RowGet ==
    /\ phase = "rows"
    /\ row # << >>
    /\ stmt_row' = IF stmt_row = 0 THEN columns ELSE stmt_row
    /\ read_at' =
         LET at[i \in 1..columns] ==
               IF i = 1 THEN 1 + RowBitmap(columns)
               ELSE at[i - 1] + (IF i - 1 \in row[1].nulls THEN 0 ELSE row[1].size)
         IN  at
    /\ UNCHANGED <<phase, binding, sending, columns, row, heap, replaced>>

(* attachsql_statement_row_next                                              *)
RowNext ==
    /\ phase = "rows"
    /\ row # << >>
    /\ row' = << >>
    /\ read_at' = << >>
    /\ UNCHANGED <<phase, binding, sending, columns, stmt_row, heap, replaced>>

(* The end of the rows.                                                      *)
RowsEnd ==
    /\ phase = "rows"
    /\ row = << >>
    /\ phase' = "ready"
    /\ UNCHANGED <<binding, sending, result, stmt_row, heap, replaced>>

-----------------------------------------------------------------------------
Setter ==
    \E n \in ParamCounts : \E i \in 1..n :
        \/ \E type \in Types : SetNumber(i, type) \/ SetDatetime(i, type)
        \/ \E type \in Types, length \in StringSizes :
               SetString(i, type, length)
        \/ SetNull(i)

Answer ==
    \/ \E n \in ParamCounts, c \in ColumnCounts : PrepareResponse(n, c)
    \/ ExecuteResponse
    \/ \E nulls \in SUBSET {1, columns}, size \in {1, 8} : ReadRow(nulls, size)
    \/ RowsEnd

Next == Prepare \/ Close \/ Execute \/ RowGet \/ RowNext \/ Setter \/ Answer

Spec == Init /\ [][Next]_vars

-----------------------------------------------------------------------------
(* The server                                                                *)

(* What a read of size bytes at an offset gives: the last thing written      *)
(* there, if nothing written later covers a part of it.                      *)
Given(what, i, at) ==
    \E k \in DOMAIN packet :
        /\ packet[k].what = what /\ packet[k].param = i /\ packet[k].at = at
        /\ \A l \in (k + 1)..Len(packet) :
               \/ packet[l].at >= packet[k].at + packet[k].size
               \/ packet[l].at + packet[l].size <= packet[k].at

(* "they don't store type data": the types and then the values of the        *)
(* parameters that are not NULL, one behind the other.                       *)
ServerTypesAt == 10 + ((Len(params) + Bits - 1) \div Bits)

ServerReads(i) ==
    LET before == {j \in NotNull : j < i}
        at[j \in 0..Len(params)] ==
          IF j = 0 THEN ServerTypesAt + 2 * Cardinality(NotNull)
          ELSE at[j - 1] + ValueSize(params[j])
    IN  /\ Given("type", i, ServerTypesAt + 2 * Cardinality(before))
        /\ Given("value", i, at[i - 1])

(* Where the server has put the value of a column of a row.                  *)
ServerColumnAt(i) ==
    1 + ((columns + 2 + Bits - 1) \div Bits)
      + row[1].size * Cardinality({j \in 1..(i - 1) : j \notin row[1].nulls})

-----------------------------------------------------------------------------
(* Properties                                                                *)

(* The records of structs.h, and an execution buffer that is never smaller   *)
(* than its first allocation (statement.cc:245).                             *)
TypeOK ==
    /\ phase \in {"none", "preparing", "ready", "executing", "rows"}
    /\ params \in Seq(Param)
    /\ exec_size = 0 \/ exec_size >= DefaultSize
    /\ overrun \in BOOLEAN
    /\ columns \in Nat /\ stmt_row \in Nat /\ Len(row) <= 1
    /\ live \in 0..MaxLive /\ lost \in 0..MaxLive /\ replaced \in BOOLEAN

NullsLast == \A i \in NotNull : \A j \in 1..i : j \in NotNull

(* The server reads every parameter that was bound as it was bound, as long  *)
(* as no NULL comes before another value: places, sizes and the order of     *)
(* writing in attachsql_stmt_execute agree with each other (statement.cc:81).*)
DecodedNullsLast ==
    phase = "executing" /\ NullsLast => \A i \in NotNull : ServerReads(i)

(* attachsql_statement_row_get finds each value where the server has put it, *)
(* whichever columns are NULL and however many bytes the NULL bits take      *)
(* (statement_getset.cc:249).                                                *)
RowDecoded ==
    \A i \in DOMAIN read_at :
        i \notin row[1].nulls => read_at[i] = ServerColumnAt(i)

(* A packet that would have fit into the first allocation is built inside    *)
(* its buffer.  Only a longer one is written behind the end:                 *)
(* attachsql_stmt_check_buffer_size compares the buffer with the next value, *)
(* not with what is in it already (statement.cc:245).                        *)
ExecFits ==
    overrun => \E k \in DOMAIN packet : packet[k].at + packet[k].size > DefaultSize

(* attachsql_statement_row_get never fills more entries than con->stmt_row   *)
(* was allocated with, also when the connection has carried another          *)
(* statement before, as long as that one was closed; one that was prepared   *)
(* over keeps its row (statement_getset.cc:240).                             *)
RowFits == Len(read_at) > stmt_row => replaced

(* attachsql_statement_close deletes as a datetime only what                 *)
(* attachsql_statement_set_datetime has allocated, or what another setter    *)
(* has put in its place without clearing datetime_alloc (statement.cc:318).  *)
DeletesOwn == \A i \in Deleted : i \in Datetimes \/ params[i].covered

(* Closing a statement leaves no datetime behind but the ones of             *)
(* attachsql_statement_set_time, those another setter has covered, and those *)
(* of a statement that was prepared over (statement.cc:318).                 *)
NothingLeft == phase = "none" => live = lost

(* A statement deletes its datetime objects once, and nothing else, but for  *)
(* the exceptions named above (statement.cc:318).                            *)
ParametersOwned == TypeOK /\ DeletesOwn /\ NothingLeft

(* attachsql_statement_row_get reads every row as it was sent, into an       *)
(* array that is large enough (statement_getset.cc:240).                     *)
RowRead == RowDecoded /\ RowFits
=============================================================================

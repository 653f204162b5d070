------------------------------ MODULE Packing ------------------------------
(***************************************************************************)
(* pack.cc and pack_macros.h: lengths, dates and times as bytes and back,  *)
(* and the getters of statement_getset.cc that turn a column of a binary   *)
(* row into a number.                                                      *)
(*                                                                         *)
(* A buffer is a sequence of bytes.  A byte has Base values instead of 256 *)
(* so that eight of them stay within TLC's integers; the marks of a length *)
(* are the five largest, as in the code.  Whether char is signed, and      *)
(* whether printf is told the width of a narrow integer, are properties of *)
(* the platform.                                                           *)
(***************************************************************************)
EXTENDS Integers, Sequences

CONSTANTS
    Base,         \* values of a byte, scaled down
    Values,       \* numbers that are packed, or that columns hold with a sign
    Years,
    Parts,        \* months, days, hours, minutes and seconds
    Microseconds,
    Mantissa      \* integers below it have a double each: 2^53, scaled down

(* Base^width, for numbers of up to 64 bits.                                 *)
Power[width \in 0..8] == IF width = 0 THEN 1 ELSE Base * Power[width - 1]

ASSUME PackingAssumption ==
    /\ Base \in Nat /\ Base % 2 = 0 /\ Base > 12
    /\ Values \subseteq Nat
    /\ Years \subseteq 0..(Power[2] - 1)
    /\ Parts \subseteq 0..(Base - 1)
    /\ Microseconds \subseteq 0..(Power[4] - 1)
    /\ Mantissa \in Nat /\ Power[4] <= Mantissa /\ Power[8] <= 2048 * Mantissa

VARIABLES
    char_signed, \* the platform's char
    narrow_formats, \* PRIu8, PRId8 and PRId16 name the width they print
    given,       \* what is packed
    buffer,      \* its bytes, << >> before it is packed
    unpacked     \* what was unpacked, see Unpacked

platform == <<char_signed, narrow_formats>>
packingVars == <<platform, given, buffer, unpacked>>

-----------------------------------------------------------------------------
(* pack_macros.h                                                             *)

PackInt(width, n) == [i \in 1..width |-> (n \div Power[i - 1]) % Base]

UnpackInt(width, b) ==
    LET part == [i \in 1..width |-> b[i] * Power[i - 1]]
        sum[i \in 0..width] == IF i = 0 THEN 0 ELSE sum[i - 1] + part[i]
    IN  sum[width]

(* A cast to the signed type of that width, as two's complement.             *)
SignedInt(width, n) ==
    IF n >= Power[width] \div 2 THEN n - Power[width] ELSE n

(* A byte that is read through a char.                                       *)
Char(byte) == IF char_signed THEN SignedInt(1, byte) ELSE byte

-----------------------------------------------------------------------------
(* attachsql_pack_length, attachsql_unpack_length                            *)

NullMark == Base - 5    \* 0xfb
Int2Mark == Base - 4    \* 0xfc
Int3Mark == Base - 3    \* 0xfd
Int8Mark == Base - 2    \* 0xfe

(* Mutant: the mark of NULL is taken for a length.                           *)
PackLengthLate(n) ==
    CASE n <= NullMark -> PackInt(1, n)
      [] n > NullMark /\ n < Power[2]  -> <<Int2Mark>> \o PackInt(2, n)
      [] n >= Power[2] /\ n < Power[3] -> <<Int3Mark>> \o PackInt(3, n)
      [] OTHER                      -> <<Int8Mark>> \o PackInt(8, n)

PackLength(n) ==
    CASE n < NullMark               -> PackInt(1, n)
      [] n >= NullMark /\ n < Power[2] -> <<Int2Mark>> \o PackInt(2, n)
      [] n >= Power[2] /\ n < Power[3] -> <<Int3Mark>> \o PackInt(3, n)
      [] OTHER                      -> <<Int8Mark>> \o PackInt(8, n)

(* The bytes taken, the length, and whether it was NULL.  A negative char    *)
(* becomes a length close to 2^64: it stays negative here.                   *)
UnpackLength(b) ==
    LET Taken(bytes, length) == [bytes |-> bytes, length |-> length, null |-> FALSE]
    IN  CASE b[1] < NullMark -> Taken(1, Char(b[1]))
          [] b[1] = NullMark -> [bytes |-> 1, length |-> 0, null |-> TRUE]
          [] b[1] = Int2Mark -> Taken(3, UnpackInt(2, Tail(b)))
          [] b[1] = Int3Mark -> Taken(4, UnpackInt(3, Tail(b)))
          [] OTHER           -> Taken(9, UnpackInt(8, Tail(b)))

-----------------------------------------------------------------------------
(* attachsql_pack_datetime, attachsql_pack_time and back                     *)

NoDatetime ==
    [year |-> 0, month |-> 0, day |-> 0, hour |-> 0, minute |-> 0,
     second |-> 0, microsecond |-> 0, is_negative |-> FALSE]

Date(d) == PackInt(2, d.year) \o <<d.month, d.day>>
Clock(d) == <<d.hour, d.minute, d.second>>
Micro(d) == PackInt(4, d.microsecond)

(* Mutant: midnight with a fraction of a second is packed as a date.         *)
PackDatetimeMidnight(d, date_only) ==
    CASE ~date_only /\ Clock(d) # <<0, 0, 0>> /\ d.microsecond > 0 ->
           <<11>> \o Date(d) \o Clock(d) \o Micro(d)
      [] ~date_only /\ d.microsecond = 0 /\ Clock(d) # <<0, 0, 0>> ->
           <<7>> \o Date(d) \o Clock(d)
      [] /\ (date_only \/ Clock(d) = <<0, 0, 0>>)
         /\ (d.year > 0 \/ d.month > 0 \/ d.day > 0) -> <<4>> \o Date(d)
      [] OTHER -> <<0>>

(* Mutant: a date has the length of a date and time.                         *)
PackDatetimeLong(d, date_only) ==
    CASE ~date_only /\ d.microsecond > 0 ->
           <<11>> \o Date(d) \o Clock(d) \o Micro(d)
      [] ~date_only /\ d.microsecond = 0 /\ Clock(d) # <<0, 0, 0>> ->
           <<7>> \o Date(d) \o Clock(d)
      [] /\ date_only \/ (d.microsecond = 0 /\ Clock(d) = <<0, 0, 0>>)
         /\ d.year > 0 \/ d.month > 0 \/ d.day > 0 -> <<7>> \o Date(d)
      [] OTHER -> <<0>>

PackDatetime(d, date_only) ==
    CASE ~date_only /\ d.microsecond > 0 ->
           <<11>> \o Date(d) \o Clock(d) \o Micro(d)
      [] ~date_only /\ d.microsecond = 0 /\ Clock(d) # <<0, 0, 0>> ->
           <<7>> \o Date(d) \o Clock(d)
      [] /\ date_only \/ (d.microsecond = 0 /\ Clock(d) = <<0, 0, 0>>)
         /\ d.year > 0 \/ d.month > 0 \/ d.day > 0 -> <<4>> \o Date(d)
      [] OTHER -> <<0>>

(* From the byte after the length on.  A char is stored in the eight bits of *)
(* a part as it is, and as a number in the 32 of the day.                    *)
UnpackDatetime(b, length) ==
    LET date == [NoDatetime EXCEPT !.year = UnpackInt(2, b),
                                   !.month = b[3], !.day = Char(b[4])]
        clock == [date EXCEPT !.hour = b[5], !.minute = b[6], !.second = b[7]]
    IN  CASE length = 0 -> NoDatetime
          [] length \in 1..4 -> date
          [] length \in 5..7 -> clock
          [] OTHER -> [clock EXCEPT !.microsecond =
                                      UnpackInt(4, SubSeq(b, 8, 11))]

Negative(d) == IF d.is_negative THEN 1 ELSE 0

(* Mutant: the sign is left out.                                             *)
PackTimeUnsigned(d) ==
    LET body == <<0>> \o PackInt(4, d.day) \o Clock(d)
    IN  CASE d.microsecond > 0 -> <<12>> \o body \o Micro(d)
          [] /\ d.microsecond = 0
             /\ d.day > 0 \/ d.minute > 0 \/ d.second > 0 -> <<8>> \o body
          [] OTHER -> <<0>>

PackTime(d) ==
    LET body == <<Negative(d)>> \o PackInt(4, d.day) \o Clock(d)
    IN  CASE d.microsecond > 0 -> <<12>> \o body \o Micro(d)
          [] /\ d.microsecond = 0
             /\ d.day > 0 \/ d.minute > 0 \/ d.second > 0 -> <<8>> \o body
          [] OTHER -> <<0>>

UnpackTime(b, length) ==
    LET time == [NoDatetime EXCEPT !.is_negative = b[1] # 0,
                                   !.day = UnpackInt(4, SubSeq(b, 2, 5)),
                                   !.hour = b[6], !.minute = b[7], !.second = b[8]]
    IN  CASE length = 0 -> NoDatetime
          [] length \in 1..8 -> time
          [] OTHER -> [time EXCEPT !.microsecond = UnpackInt(4, SubSeq(b, 9, 12))]

-----------------------------------------------------------------------------
(* Columns of a binary row                                                   *)

(* The bytes of a column (attachsql_statement_row_get) and how many of them  *)
(* the getters look at.                                                      *)
Width == [TINY |-> 1, SHORT |-> 2, INT24 |-> 4, LONG |-> 4, LONGLONG |-> 8]
BytesRead == [TINY |-> 1, SHORT |-> 2, INT24 |-> 3, LONG |-> 4, LONGLONG |-> 8]

(* The server's encoding (external).                                         *)
Encode(c) ==
    LET width == Width[c.type]
    IN  PackInt(width, IF c.value < 0 THEN Power[width] + c.value ELSE c.value)

Raw(type, b) == UnpackInt(BytesRead[type], b)

(* Mutant: a SHORT is returned without the cast.                             *)
GetBigintWide(type, b) ==
    CASE type = "SHORT" -> Raw(type, b)
      [] type = "INT24" -> Raw(type, b)
      [] OTHER -> SignedInt(Width[type], Raw(type, b))

(* attachsql_statement_get_int, attachsql_statement_get_bigint               *)
GetBigint(type, b) ==
    IF type = "INT24" THEN Raw(type, b)
                      ELSE SignedInt(Width[type], Raw(type, b))

GetInt(type, b) ==
    IF type = "LONGLONG" THEN SignedInt(4, Raw(type, b) % Power[4])
                         ELSE GetBigint(type, b)

(* attachsql_statement_get_int_unsigned, ..._get_bigint_unsigned             *)
GetBigintUnsigned(type, b) == Raw(type, b)
GetIntUnsigned(type, b) == Raw(type, b) % Power[4]

(* How far apart doubles are around n, of up to 64 bits.                     *)
Spacings == {1, 2, 4, 8, 16, 32, 64, 128, 256, 512, 1024, 2048}

Spacing(n) ==
    CHOOSE s \in Spacings :
        n \div s < Mantissa /\ (s > 1 => n \div (s \div 2) >= Mantissa)

(* A cast of an unsigned number to double: to the nearest, a tie to an even  *)
(* multiple of the spacing.                                                  *)
Rounded(n) ==
    LET s == Spacing(n)
        below == n \div s
        up == 2 * (n % s) > s \/ (2 * (n % s) = s /\ below % 2 = 1)
    IN  s * (IF up THEN below + 1 ELSE below)

(* Mutant: an INT24 is read as two bytes.                                    *)
GetDoubleShort(type, b) ==
    CASE type = "TINY" -> Char(b[1])
      [] type = "INT24" -> UnpackInt(2, b)
      [] OTHER -> Rounded(Raw(type, b))

(* attachsql_statement_get_double                                            *)
GetDouble(type, b) ==
    IF type = "TINY" THEN Char(b[1]) ELSE Rounded(Raw(type, b))

(* A number passed as a char or a uint16_t and printed in a signed or        *)
(* unsigned format, which cuts it to its width or takes the int it was       *)
(* promoted to as it is.                                                     *)
Formatted(width, is_unsigned, n) ==
    CASE narrow_formats /\ is_unsigned  -> n % Power[width]
      [] narrow_formats /\ ~is_unsigned -> SignedInt(width, n % Power[width])
      [] ~narrow_formats /\ is_unsigned -> n % Power[4]
      [] OTHER                          -> n

(* Mutant: the flag of the column is not looked at.                          *)
GetCharSigned(type, is_unsigned, b) ==
    CASE type = "TINY"  -> Formatted(1, FALSE, Char(b[1]))
      [] type = "SHORT" -> Formatted(2, FALSE, Raw(type, b))
      [] type = "INT24" -> Raw(type, b)
      [] OTHER -> SignedInt(Width[type], Raw(type, b))

(* attachsql_statement_get_char: the number that is printed.                 *)
GetChar(type, is_unsigned, b) ==
    CASE type = "TINY"  -> Formatted(1, is_unsigned, Char(b[1]))
      [] type = "SHORT" -> Formatted(2, is_unsigned, Raw(type, b))
      [] type = "INT24" \/ (type \in {"LONG", "LONGLONG"} /\ is_unsigned) ->
           Raw(type, b)
      [] OTHER -> SignedInt(Width[type], Raw(type, b))

-----------------------------------------------------------------------------
(* The program                                                               *)

SetDatetimes ==
    [year : Years, month : Parts, day : Parts, hour : Parts, minute : Parts,
     second : Parts, microsecond : Microseconds, is_negative : {FALSE}]

(* attachsql_statement_set_time has no days.                                 *)
SetTimes ==
    [year : {0}, month : {0}, day : {0}, hour : Parts, minute : Parts,
     second : Parts, microsecond : Microseconds, is_negative : BOOLEAN]

Fits(value, is_unsigned, width) ==
    IF is_unsigned THEN value \in 0..(Power[width] - 1)
                   ELSE value \in -(Power[width] \div 2)..(Power[width] \div 2 - 1)

(* An INT24 has the values of three bytes.                                   *)
Columns ==
    {c \in [type : DOMAIN Width, is_unsigned : BOOLEAN,
            value : Values \union {-n : n \in Values}] :
       Fits(c.value, c.is_unsigned, BytesRead[c.type])}

Givens ==
    UNION {[kind : {"length"}, value : {n \in Values : Fits(n, TRUE, 8)}],
           [kind : {"datetime", "date"}, value : SetDatetimes],
           [kind : {"time"}, value : SetTimes],
           [kind : {"column"}, value : Columns]}

NoResult == [kind |-> "none"]

PackingInit ==
    /\ char_signed \in BOOLEAN
    /\ narrow_formats \in BOOLEAN
    /\ given \in Givens
    /\ buffer = << >>
    /\ unpacked = NoResult

Packed ==
    CASE given.kind = "length" -> PackLength(given.value)
      [] given.kind = "datetime" -> PackDatetime(given.value, FALSE)
      [] given.kind = "date" -> PackDatetime(given.value, TRUE)
      [] given.kind = "time" -> PackTime(given.value)
      [] given.kind = "column" -> Encode(given.value)

Pack ==
    /\ buffer = << >>
    /\ buffer' = Packed
    /\ UNCHANGED <<platform, given, unpacked>>

(* What the getters return for a column of these bytes.                      *)
Gets(c, b) ==
    [int |-> GetInt(c.type, b),
     int_unsigned |-> GetIntUnsigned(c.type, b),
     bigint |-> GetBigint(c.type, b),
     bigint_unsigned |-> GetBigintUnsigned(c.type, b),
     double |-> GetDouble(c.type, b),
     char |-> GetChar(c.type, c.is_unsigned, b)]

Unpacked(b) ==
    CASE given.kind = "length" -> UnpackLength(b)
      [] given.kind \in {"datetime", "date"} -> UnpackDatetime(Tail(b), Head(b))
      [] given.kind = "time" -> UnpackTime(Tail(b), Head(b))
      [] given.kind = "column" -> Gets(given.value, b)

Unpack ==
    /\ buffer # << >>
    /\ unpacked = NoResult
    /\ unpacked' = [kind |-> given.kind, value |-> Unpacked(buffer)]
    /\ UNCHANGED <<platform, given, buffer>>

PackingNext == Pack \/ Unpack

PackingSpec == PackingInit /\ [][PackingNext]_packingVars

-----------------------------------------------------------------------------
(* Properties                                                                *)

(* A buffer holds bytes, and as many as its first byte says.                 *)
PackingTypeOK ==
    /\ \A i \in DOMAIN buffer : buffer[i] \in 0..(Base - 1)
    /\ given.kind \in {"datetime", "date", "time"} /\ buffer # << >>
       => Len(buffer) = buffer[1] + 1

Done(kind) == unpacked.kind = kind

LengthUnpacked ==
    unpacked.value = [bytes |-> Len(buffer), length |-> given.value, null |-> FALSE]

(* Every length is read back as it was written, from as many bytes as were   *)
(* written, and none is taken for NULL; except, where char is signed, those  *)
(* of one byte with the high bit set (pack.cc:84, pack.cc:28).               *)
LengthKeptBelowSign ==
    Done("length") =>
        \/ LengthUnpacked
        \/ char_signed /\ given.value \in (Base \div 2)..(NullMark - 1)

(* A date and time is read back as it was set, whichever of its parts are    *)
(* zero and left out; a date without the time of day; except, where char is  *)
(* signed, the days that no month has (pack.cc:117, pack.cc:168).            *)
DatetimeKept ==
    LET kept == IF given.kind = "datetime" THEN given.value
                ELSE [given.value EXCEPT !.hour = 0, !.minute = 0,
                                         !.second = 0, !.microsecond = 0]
    IN  Done("datetime") \/ Done("date") =>
          /\ [unpacked.value EXCEPT !.day = kept.day] = kept
          /\ \/ unpacked.value.day = kept.day
             \/ char_signed /\ kept.day >= Base \div 2

(* A time with minutes, seconds or a fraction keeps all its parts and its    *)
(* sign (pack.cc:198).                                                       *)
TimeKeptBelowHour ==
    Done("time") =>
        \/ unpacked.value = given.value
        \/ /\ given.value.microsecond = 0
           /\ given.value.minute = 0 /\ given.value.second = 0

(* A getter of a column's own signedness returns its value whenever the      *)
(* value fits what it returns; INT24 only from zero on                       *)
(* (statement_getset.cc:320).                                                *)
GettersExact ==
    Done("column") =>
        LET c == given.value
            got == unpacked.value
        IN  \/ c.type = "INT24" /\ c.value < 0
            \/ /\ c.is_unsigned
               /\ got.bigint_unsigned = c.value
               /\ Fits(c.value, TRUE, 4) => got.int_unsigned = c.value
            \/ /\ ~c.is_unsigned
               /\ got.bigint = c.value
               /\ Fits(c.value, FALSE, 4) => got.int = c.value

(* The values of a TINY that are the same as a signed and an unsigned byte.  *)
SmallTiny(c) == c.type = "TINY" /\ c.value \in 0..(Base \div 2 - 1)

(* A number is printed by the sign of its column; except where the formats   *)
(* do not name the width: a SHORT, unpacked as a uint16_t, is printed        *)
(* without its sign, and a TINY with the sign of the platform's char         *)
(* (statement_getset.cc:750, statement_getset.cc:766).                       *)
PrintedExact ==
    Done("column") =>
        LET c == given.value
        IN  \/ unpacked.value.char = c.value
            \/ c.type = "INT24" /\ c.value < 0
            \/ ~narrow_formats /\ c.type = "SHORT" /\ c.value < 0
            \/ /\ ~narrow_formats /\ c.type = "TINY"
               /\ char_signed = c.is_unsigned /\ ~SmallTiny(c)

(* A column is converted to a double without loss if its value is not        *)
(* negative, which the conversion does not look at, and has a double; a      *)
(* TINY, which is read through a char, by the sign of the platform's char    *)
(* (statement_getset.cc:661, statement_getset.cc:672).                       *)
DoubleExact ==
    Done("column") =>
        LET c == given.value
        IN  \/ unpacked.value.double = c.value
            \/ c.type # "TINY" /\ c.value < 0
            \/ c.value >= Mantissa /\ c.value % Spacing(c.value) # 0
            \/ /\ c.type = "TINY"
               /\ char_signed = c.is_unsigned /\ ~SmallTiny(c)

(* What is packed is unpacked again, but for the values named above          *)
(* (pack.cc).                                                                *)
PackedKept == PackingTypeOK /\ LengthKeptBelowSign /\ DatetimeKept /\ TimeKeptBelowHour

(* Every getter returns the value of a column it can represent, but for the  *)
(* columns named above (statement_getset.cc:320).                            *)
ColumnsExact == GettersExact /\ PrintedExact /\ DoubleExact
=============================================================================

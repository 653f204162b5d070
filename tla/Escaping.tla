------------------------------ MODULE Escaping ------------------------------
(***************************************************************************)
(* Query parameters (attachsql_query in query.cc): the buffer a query is   *)
(* built in, how text is escaped, and whether the server reads the text    *)
(* back as it was.                                                         *)
(*                                                                         *)
(* The server reads backslashes in one of two ways.  It reports which one  *)
(* in the status flags of OK and EOF packets, the library escapes by the   *)
(* flags it has seen last, and forgets them with every command.            *)
(*                                                                         *)
(* Characters are named; the ones that are escaped alike are one.  Of the  *)
(* statement only the placeholders are modelled, one per parameter: the    *)
(* rest is copied as it is.                                                *)
(***************************************************************************)
EXTENDS Integers, SequencesExt

CONSTANTS
    Characters,    \* characters of the texts given as parameters
    MaxLength,     \* bound: length of a text, and of any two of a query
    MaxParams      \* bound: parameters of a query

ASSUME EscapingAssumption ==
    /\ MaxLength \in Nat
    /\ MaxParams \in Nat \ {0}

VARIABLES
    status,         \* "NOT_CONNECTED", "CONNECTING", "IDLE" or "BUSY"
    no_backslash,   \* the flag in con->server_status
    server,         \* how the server reads: with backslashes or without
    in_query,
    parameters,     \* history: the parameters of the query that was built
    query_buffer,   \* what was built for each of them
    told,           \* history: flags have come since the last command
    informed        \* history: they had when the query was built

query == <<in_query, parameters, query_buffer, informed>>
escapingVars == <<status, no_backslash, server, query, told>>

-----------------------------------------------------------------------------
(* attachsql_query_escape_data, attachsql_query_no_backslash_escape_data     *)

(* Mutant: a backslash is left as it is.                                     *)
EscapesButBackslash ==
    [quote |-> "quote", double_quote |-> "double_quote", newline |-> "n"]

(* Characters that get a backslash, and what follows it: newline stands for  *)
(* the control characters, quote is the single one.                          *)
Escapes == [quote |-> "quote", double_quote |-> "double_quote", newline |-> "n",
            backslash |-> "backslash"]

Escaped(c) ==
    IF c \in DOMAIN Escapes THEN <<"backslash", Escapes[c]>> ELSE <<c>>

(* Only the single quote is doubled.                                         *)
Doubled(c) == IF c = "quote" THEN <<"quote", "quote">> ELSE <<c>>

EscapeData(data) == FlattenSeq([i \in DOMAIN data |-> Escaped(data[i])])

NoBackslashEscapeData(data) ==
    FlattenSeq([i \in DOMAIN data |-> Doubled(data[i])])

-----------------------------------------------------------------------------
(* Numbers: "large" is one only an unsigned type has, and what a negative    *)
(* one looks like when it is printed as unsigned, and the other way around.  *)
(* Of the floating point numbers, a "fine" one has digits that "%.7f" or     *)
(* "%.15f" leaves out, and a "special" one is an infinity or not a number.   *)

WholeNumber == [kind : {"INT", "BIGINT"}, is_unsigned : BOOLEAN,
                value : {"small", "negative", "large"}]

Fraction == [kind : {"FLOAT", "DOUBLE"}, value : {"short", "fine", "special"}]

Number == WholeNumber \union Fraction

Numbers == {n \in WholeNumber :
                n.value \in {"small", IF n.is_unsigned THEN "large" ELSE "negative"}}
           \union Fraction

Signed(value) == IF value = "large" THEN "negative" ELSE value
Unsigned(value) == IF value = "negative" THEN "large" ELSE value

(* Mutant: both kinds have the formats of a BIGINT.                          *)
PrintedExchanged(n) ==
    IF n.is_unsigned THEN Signed(n.value) ELSE Unsigned(n.value)

(* The formats of an INT and of a BIGINT.                                    *)
Printed(n) ==
    IF (n.kind = "INT") = n.is_unsigned THEN Unsigned(n.value)
                                        ELSE Signed(n.value)

(* A fixed number of decimals; "inf" and "nan" are words.                    *)
FractionPrinted(n) ==
    CASE n.value = "short" -> "short"
      [] n.value = "fine" -> "rounded"
      [] n.value = "special" -> "word"

(* Characters of the longest number of its class: a sign, 39 or 309 digits,  *)
(* the point and the decimals are less than snprintf is allowed to write.    *)
Digits(kind, value) ==
    CASE kind = "INT" -> IF value = "negative" THEN 11 ELSE 10
      [] kind = "BIGINT" -> 20
      [] kind = "FLOAT" -> 48
      [] kind = "DOUBLE" -> 326

-----------------------------------------------------------------------------
(* attachsql_query                                                           *)

Texts == UNION {[1..n -> Characters] : n \in 0..MaxLength}

(* The quotes around a text: a CHAR gets single ones, those of a CHAR_LIKE   *)
(* are the statement's own.                                                  *)
Text == [kind : {"CHAR", "NONE"}, data : Texts, within : {"quote"}]
        \union [kind : {"CHAR_LIKE"}, data : Texts, within : {"quote", "double_quote"}]

(* What is built for a parameter, by the flag.                               *)
Build(p, flag) ==
    CASE p.kind \in {"INT", "BIGINT"} -> Printed(p)
      [] p.kind \in {"FLOAT", "DOUBLE"} -> FractionPrinted(p)
      [] p.kind = "NONE" -> p.data
      [] OTHER -> IF flag THEN NoBackslashEscapeData(p.data)
                          ELSE EscapeData(p.data)

(* Mutant: no room for characters that become two.                           *)
RoomOnce(p) ==
    CASE p.kind = "CHAR" -> Len(p.data) + 2
      [] p.kind \in {"CHAR_LIKE", "NONE"} -> Len(p.data)
      [] p.kind = "INT" -> 10
      [] p.kind = "BIGINT" -> 20
      [] p.kind = "FLOAT" -> 152
      [] p.kind = "DOUBLE" -> 1077

(* What out_len counts for a parameter (FLOAT_MAX_LEN, DOUBLE_MAX_LEN).      *)
Room(p) ==
    CASE p.kind = "CHAR" -> 2 * Len(p.data) + 2
      [] p.kind = "CHAR_LIKE" -> 2 * Len(p.data)
      [] p.kind = "NONE" -> Len(p.data)
      [] p.kind = "INT" -> 10
      [] p.kind = "BIGINT" -> 20
      [] p.kind = "FLOAT" -> 152
      [] p.kind = "DOUBLE" -> 1077

(* The characters written for a parameter; sprintf puts a NUL behind those   *)
(* of a number.                                                              *)
Filled(p, built) ==
    CASE p.kind = "CHAR" -> Len(built) + 2
      [] p.kind \in {"CHAR_LIKE", "NONE"} -> Len(built)
      [] OTHER -> Digits(p.kind, built)

EscapingInit ==
    /\ status = "NOT_CONNECTED"
    /\ no_backslash = FALSE
    /\ server \in {"backslash", "none"}
    /\ in_query = FALSE
    /\ parameters = << >>
    /\ query_buffer = << >>
    /\ told = FALSE
    /\ informed = FALSE

(* attachsql_connect, or a query without parameters that leads to it.        *)
Connect ==
    /\ status = "NOT_CONNECTED"
    /\ status' = "CONNECTING"
    /\ UNCHANGED <<no_backslash, server, query, told>>

(* A query is built at once, and sent now or when there is a connection.     *)
(* attachsql_command_send resets con->server_status.                         *)
Query(params) ==
    /\ ~in_query
    /\ in_query' = TRUE
    /\ \/ status = "IDLE" /\ status' = "BUSY" /\ no_backslash' = FALSE
       \/ /\ status = "NOT_CONNECTED"
          /\ status' = "CONNECTING" /\ UNCHANGED no_backslash
    /\ parameters' = params
    /\ query_buffer' = [i \in DOMAIN params |-> Build(params[i], no_backslash)]
    /\ informed' = told
    /\ told' = FALSE
    /\ UNCHANGED server

(* Mutant: the buffer is kept.                                               *)
QueryCloseKeeping ==
    /\ in_query
    /\ status = "IDLE"
    /\ in_query' = FALSE
    /\ parameters' = << >>
    /\ UNCHANGED <<status, no_backslash, server, query_buffer, told, informed>>

(* attachsql_query_close                                                     *)
QueryClose ==
    /\ in_query
    /\ status = "IDLE"
    /\ in_query' = FALSE
    /\ parameters' = << >>
    /\ query_buffer' = << >>
    /\ UNCHANGED <<status, no_backslash, server, told, informed>>

(* The greeting and the OK of the login carry the flags.  A query that is    *)
(* waiting is sent by attachsql_connect_query.                               *)
Connected ==
    /\ status = "CONNECTING"
    /\ \/ /\ ~in_query
          /\ status' = "IDLE"
          /\ no_backslash' = (server = "none")
          /\ told' = TRUE
       \/ /\ in_query
          /\ status' = "BUSY"
          /\ no_backslash' = FALSE
          /\ told' = FALSE
    /\ UNCHANGED <<server, query>>

(* Mutant: the flags are those from before the query.                        *)
AnswerBefore ==
    /\ status = "BUSY"
    /\ status' = "IDLE"
    /\ server' \in IF parameters = << >> THEN {"backslash", "none"} ELSE {server}
    /\ no_backslash' = (server = "none")
    /\ told' = TRUE
    /\ UNCHANGED query

(* The answer ends with an OK or an EOF packet.  A query without parameters  *)
(* may have changed the server's mode (SET sql_mode).                        *)
AnswerFlags ==
    /\ status = "BUSY"
    /\ status' = "IDLE"
    /\ server' \in IF parameters = << >> THEN {"backslash", "none"} ELSE {server}
    /\ no_backslash' = (server' = "none")
    /\ told' = TRUE
    /\ UNCHANGED query

(* An error packet has no flags.                                             *)
AnswerError ==
    /\ status = "BUSY"
    /\ status' = "IDLE"
    /\ UNCHANGED <<no_backslash, server, query, told>>

Length(p) == IF p.kind \in {"CHAR", "CHAR_LIKE", "NONE"} THEN Len(p.data) ELSE 0

Parameters ==
    {p \in UNION {[1..n -> Text \union Numbers] : n \in 0..MaxParams} :
        \A i, j \in DOMAIN p : i # j => Length(p[i]) + Length(p[j]) <= MaxLength}

EscapingNext ==
    \/ Connect \/ QueryClose \/ Connected \/ AnswerFlags \/ AnswerError
    \/ \E params \in Parameters : Query(params)

EscapingSpec == EscapingInit /\ [][EscapingNext]_escapingVars

-----------------------------------------------------------------------------
(* How the server reads a quoted text                                        *)

Meaning(c) == IF c = "n" THEN "newline" ELSE c

(* The next character: what has been read, and what it leaves open.  A       *)
(* delimiter that is not followed by another ends the text.                  *)
ReadNext(s, c, within, backslashes) ==
    CASE s.open = "backslash" -> [read |-> Append(s.read, Meaning(c)), open |-> "no"]
      [] s.open = "delimiter" -> IF c = within
                                   THEN [read |-> Append(s.read, c), open |-> "no"]
                                   ELSE [s EXCEPT !.open = "end"]
      [] s.open = "end" -> s
      [] s.open = "no" -> IF c = within THEN [s EXCEPT !.open = "delimiter"]
                          ELSE IF c = "backslash" /\ backslashes
                                 THEN [s EXCEPT !.open = "backslash"]
                                 ELSE [s EXCEPT !.read = Append(@, c)]

Read(text, within, backslashes) ==
    LET after[i \in 0..Len(text)] ==
          IF i = 0 THEN [read |-> << >>, open |-> "no"]
                   ELSE ReadNext(after[i - 1], text[i], within, backslashes)
    IN  after[Len(text)]

IsText(i) == parameters[i].kind \in {"CHAR", "CHAR_LIKE"}

(* Bytes built for parameters, or reserved for them.                         *)
Total(bytes) ==
    LET sum[i \in 0..Len(bytes)] == IF i = 0 THEN 0 ELSE sum[i - 1] + bytes[i]
    IN  sum[Len(bytes)]

-----------------------------------------------------------------------------
(* Properties                                                                *)

(* A buffer is there for the parameters it was built from, and statuses and  *)
(* flags have their types (structs.h).                                       *)
EscapingTypeOK ==
    /\ status \in {"NOT_CONNECTED", "CONNECTING", "IDLE", "BUSY"}
    /\ no_backslash \in BOOLEAN
    /\ server \in {"backslash", "none"}
    /\ in_query \in BOOLEAN /\ told \in BOOLEAN /\ informed \in BOOLEAN
    /\ Len(parameters) <= MaxParams
    /\ DOMAIN query_buffer = DOMAIN parameters

(* A text with quotes between double quotes, for a server that does not read *)
(* backslashes: only single quotes are doubled, which is wrong for either    *)
(* kind there (query.cc:192).                                                *)
Misquoted(p) ==
    /\ server = "none" /\ p.within = "double_quote"
    /\ \E i \in DOMAIN p.data : p.data[i] \in {"quote", "double_quote"}

(* The server reads every other text of the query as it was given.           *)
ReadAsGiven ==
    \A i \in DOMAIN parameters :
        IsText(i) => LET p == parameters[i]
                     IN  \/ Read(query_buffer[i], p.within, server = "backslash")
                              = [read |-> p.data, open |-> "no"]
                         \/ Misquoted(p)

(* "data in queries can be escaped appropriately": the server reads a text   *)
(* as the application has given it, whatever mode it is in and however often *)
(* the mode was changed, if it has sent its flags since the last command.    *)
(* It has not when the query was built before the login or after an error,   *)
(* whose packet has no flags (query.cc:117, command.cc:52).                  *)
Understood == status = "BUSY" /\ informed => ReadAsGiven

(* A server that reads backslashes understands every text, also one built    *)
(* before the connection was up or after an answer without flags: nothing    *)
(* but its own flags makes the library leave backslashes alone (query.cc:117,*)
(* command.cc:52).                                                           *)
UnderstoodByDefault == status = "BUSY" /\ server = "backslash" => ReadAsGiven

(* The query fits into the buffer that was allocated for it, the NUL of      *)
(* sprintf included: numbers are counted one character short, which the      *)
(* character of their placeholder makes up for: each parameter takes the     *)
(* place of its own (query.cc:64).                                           *)
BufferFits ==
    LET reserved == [i \in DOMAIN parameters |-> Room(parameters[i]) + 1]
        used == [i \in DOMAIN parameters |-> Filled(parameters[i], query_buffer[i])]
    IN  Total(used) + 1 <= Total(reserved) + 1

(* A number is printed as it was given, with these exceptions: the formats  *)
(* of a BIGINT are exchanged, so that a negative one is printed as unsigned  *)
(* and a large unsigned one as negative (query.cc:150), and of a FLOAT or    *)
(* DOUBLE seven or fifteen decimals are printed and of an infinity its name  *)
(* (query.cc:158).                                                           *)
NumberKept ==
    \A i \in {j \in DOMAIN parameters : parameters[j] \in Number} :
        \/ query_buffer[i] = parameters[i].value
        \/ parameters[i].kind = "BIGINT" /\ parameters[i].value # "small"
        \/ parameters[i].kind \in {"FLOAT", "DOUBLE"} /\ parameters[i].value # "short"

(* The server reads texts as they were given whenever the library can know   *)
(* its mode, except quotes between double quotes in the mode without         *)
(* backslashes, and always in the default mode (query.cc:117, command.cc:52).*)
TextUnderstood == Understood /\ UnderstoodByDefault

(* A query with parameters is built inside its buffer (query.cc:64).         *)
BuiltInside == EscapingTypeOK /\ BufferFits
=============================================================================

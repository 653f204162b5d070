---------------------------- MODULE MCConnection ----------------------------
(* Small servers for the connection of module Connection.                    *)
EXTENDS ConnectionSession

Result(cols, rows, more, end) ==
    [kind |-> "RESULT", params |-> 0, cols |-> cols, rows |-> rows,
     more |-> more, end |-> end]

Prepared(params, cols) ==
    [kind |-> "PREPARE", params |-> params, cols |-> cols, rows |-> 0,
     more |-> FALSE, end |-> "EOF"]

Greetings == {Simple(k) : k \in GreetingKinds}
GoodGreetings == {Simple("HANDSHAKE"), Simple("OLD_AUTH"), Simple("ERR")}

(* Answers with and without rows, the only and the first of several.         *)
SmallReplies ==
    {Simple("OK"), Simple("ERR"), [Simple("OK") EXCEPT !.more = TRUE],
     Result(1, 0, FALSE, "EOF"), Result(1, 2, FALSE, "EOF"),
     Result(2, 1, TRUE, "EOF")}

(* And a result set the server gives up before or after its first row.       *)
BrokenReplies ==
    SmallReplies \union {Result(1, n, FALSE, "ERR") : n \in {0, 1}}

SmallPrepared == {Simple("ERR")} \union
    {Prepared(p, c) : p \in {0, 2}, c \in {0, 2}}

(* Result sets whose last packets do not fit a signed packet number.         *)
LongReplies == {Result(1, 2, FALSE, "EOF"), Result(126, 2, FALSE, "EOF"),
                Result(1, 130, TRUE, "EOF")}
=============================================================================

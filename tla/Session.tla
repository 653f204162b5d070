------------------------------- MODULE Session -------------------------------
(***************************************************************************)
(* What a connection promises to the application, whatever happens below:  *)
(* commands are answered one at a time, the rows of an answer are given    *)
(* one by one and each once, the end is announced after the last of them,  *)
(* and an answer that was walked away from gives nothing any more, unless  *)
(* it was left with a row still in the reader's hands.                     *)
(*                                                                         *)
(*   "new"      not connected yet        "row"      a row is waiting       *)
(*   "opening"  being connected          "asking"   the next one was asked *)
(*   "ready"    no answer is expected               for                    *)
(*   "working"  an answer is expected    "refused"  no login               *)
(*   "garbled"  the reader took the      "lost"     the connection failed  *)
(*              bytes of that row for an                                   *)
(*              answer                                                     *)
(***************************************************************************)
EXTENDS Naturals

VARIABLES
    phase,
    rows,       \* rows of the answer that the application has not been given
    open,       \* whether the answer has not been read to its end
    held,       \* whether the reader still holds the row given last
    abandoned   \* whether a command was sent before the end of an answer

vars == <<phase, rows, open, held, abandoned>>

Init ==
    /\ phase = "new"
    /\ rows = 0
    /\ open = FALSE
    /\ held = FALSE
    /\ abandoned = FALSE

Open ==
    /\ phase = "new"
    /\ phase' \in {"opening", "refused"}
    /\ UNCHANGED <<rows, open, held, abandoned>>

Login ==
    /\ phase = "opening"
    /\ phase' \in {"ready", "refused"}
    /\ UNCHANGED <<rows, open, held, abandoned>>

(* A command has an answer with any number of rows, or none at all.  One     *)
(* that is sent over the rest of another answer abandons it.                 *)
Command ==
    /\ phase \in {"ready", "row", "asking"}
    /\ phase' = "working"
    /\ \/ /\ open
          /\ abandoned' = TRUE
          /\ UNCHANGED <<rows, open>>
       \/ /\ ~open
          /\ rows' \in Nat
          /\ open' \in BOOLEAN
          /\ UNCHANGED abandoned
    /\ UNCHANGED held

(* A command that cannot be sent leaves the answer where it is.              *)
CommandRefused ==
    /\ phase \in {"row", "asking"}
    /\ phase' = "ready"
    /\ UNCHANGED <<rows, open, held, abandoned>>

GiveRow ==
    /\ phase \in {"working", "asking"}
    /\ open /\ ~abandoned
    /\ rows > 0
    /\ phase' = "row"
    /\ held' = TRUE
    /\ UNCHANGED <<rows, open, abandoned>>

TakeRow ==
    /\ phase = "row"
    /\ rows > 0
    /\ phase' = "asking"
    /\ rows' = rows - 1
    /\ held' = FALSE
    /\ UNCHANGED <<open, abandoned>>

End ==
    /\ phase \in {"working", "asking"}
    /\ open /\ ~abandoned
    /\ rows = 0
    /\ phase' = "ready"
    /\ open' = FALSE
    /\ UNCHANGED <<rows, held, abandoned>>

(* A command without an answer is over when it is sent.                      *)
NoAnswer ==
    /\ phase = "working"
    /\ ~open \/ abandoned
    /\ phase' = "ready"
    /\ UNCHANGED <<rows, open, held, abandoned>>

(* The row in hand is taken for an answer to the command sent over it.       *)
Garble ==
    /\ phase = "working"
    /\ abandoned /\ held
    /\ phase' = "garbled"
    /\ UNCHANGED <<rows, open, held, abandoned>>

Lose ==
    /\ phase \notin {"new", "garbled"}
    /\ phase' = "lost"
    /\ UNCHANGED <<rows, open, held, abandoned>>

Next ==
    \/ Open \/ Login \/ Command \/ CommandRefused
    \/ GiveRow \/ TakeRow \/ End \/ NoAnswer \/ Garble
    \/ Lose

Spec == Init /\ [][Next]_vars
=============================================================================

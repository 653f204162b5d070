-------------------------- MODULE ConnectionSession --------------------------
(* How a connection of module Connection is a session of module Session.     *)
EXTENDS ConnectionInvariant

(* A login that an error packet has ended leaves status IDLE or              *)
(* CONNECT_FAILED; so does an error after the login, which only ends the     *)
(* answer.                                                                   *)
SessionPhase ==
    IF pc = "misread" THEN "garbled" ELSE
    CASE status = "NOT_CONNECTED" -> "new"
      [] status = "CONNECTING" -> "opening"
      [] status = "NET_ERROR" -> "lost"
      [] status \in {"IDLE", "CONNECT_FAILED"} /\ ~logged_in -> "refused"
      [] status = "BUSY" -> "working"
      [] status = "IDLE" /\ logged_in /\ command_status = "ROW_IN_BUFFER" -> "row"
      [] status = "IDLE" /\ logged_in /\ command_status = "READ_ROW" -> "asking"
      [] OTHER -> "ready"

SessionRows == IF reply.kind = "RESULT" THEN reply.rows - rows_taken ELSE 0

S == INSTANCE Session WITH
        phase <- SessionPhase,
        rows <- SessionRows,
        open <- logged_in /\ Unread,
        held <- in_row,
        abandoned <- stale

(* A connection is a session: rows are given one by one and each once, the   *)
(* end after the last, and nothing of an abandoned answer unless a row of it *)
(* was left in the reader's hands, through every interleaving of callbacks   *)
(* and calls, refusal and network error (connect.cc and net.cc under         *)
(* attachsql_connect_poll).                                                  *)
IsSession == S!Spec
=============================================================================

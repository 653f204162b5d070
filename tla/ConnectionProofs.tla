-------------------------- MODULE ConnectionProofs --------------------------
(***************************************************************************)
(* The types and the safety of Connection, and that it implements Session. *)
(* The types are proved for every server, every application and every      *)
(* bound; the rest for every server that does not break off a result set   *)
(* with an error packet (NoRowErrors): Inv is inductive, the properties of *)
(* the runs follow from it, and with it every step is one of a session or  *)
(* changes nothing a session shows.                                        *)
(***************************************************************************)
EXTENDS ConnectionSession, SequenceTheorems, TLAPS

-----------------------------------------------------------------------------
(* Replies                                                                   *)

(* A reply is a finite run of packets.                                       *)
LEMMA CountFacts ==
    ASSUME NEW r \in Reply
    PROVE  /\ PacketCount(r) \in Nat
           /\ r.kind = "NONE" => PacketCount(r) = 0
           /\ r.kind = "RESULT" => PacketCount(r) = r.cols + r.rows + 3
           /\ r.kind = "PREPARE" =>
                PacketCount(r) = 1 + Definitions(r.params) + Definitions(r.cols)
           /\ r.kind \in GreetingKinds \union {"OK"} => PacketCount(r) = 1
           /\ r.kind \in {"OK", "ERR"} => PacketCount(r) = 1
  BY DEF Reply, GreetingKinds, ReplyKinds, PacketCount, Definitions

(* What the server sends has the type of a reply.                            *)
LEMMA RepliesTyped ==
    /\ HandshakeReplies \subseteq Reply
    /\ QueryReplies \subseteq Reply
    /\ PrepareReplies \subseteq Reply
    /\ LoginReplies \subseteq Reply
    /\ NoReply \in Reply
<1>1. \A k \in ReplyKinds : Simple(k) \in Reply
  BY DEF Reply, Simple
<1> QED BY <1>1, RepliesAssumption
       DEF ReplyKinds, GreetingKinds, LoginReplies, NoReply

LEMMA AnswersTyped ==
    ASSUME NEW command \in Commands
    PROVE  Answers(command) \subseteq Reply
  BY RepliesTyped DEF Answers, Commands

-----------------------------------------------------------------------------
(* The stack of expectations                                                 *)

LEMMA QueueTyped ==
    ASSUME queue \in Seq(PacketTypes)
    PROVE  /\ Pop \in Seq(PacketTypes)
           /\ \A t \in PacketTypes : /\ Push(t) \in Seq(PacketTypes)
                                     /\ Replace(t) \in Seq(PacketTypes)
           /\ Peek # "NONE" => Peek \in PacketTypes
           /\ Peek = "NONE" <=> queue = << >>
<1>1. queue # << >> => queue[Len(queue)] \in PacketTypes
  BY DEF PacketTypes
<1>2. CASE queue = << >>
  BY <1>2 DEF Pop, Push, Replace, Peek, PacketTypes
<1>3. CASE queue # << >>
  BY <1>1, <1>3 DEF Pop, Push, Replace, Peek, PacketTypes
<1> QED BY <1>2, <1>3

-----------------------------------------------------------------------------
(* Types                                                                     *)

(* Sending a command keeps the types of what it assigns.                     *)
LEMMA SendTyped ==
    ASSUME TypeOK,
           NEW command \in Commands,
           SendOk(command) \/ SendFail
    PROVE  /\ ConTypeOK'
           /\ column_count' \in Nat /\ current_column' \in Nat /\ in_row' \in BOOLEAN
           /\ logged_in' \in BOOLEAN => WireTypeOK'
<1> USE DEF TypeOK, netVars, wireVars
<1>1. CASE SendOk(command)
  <2>1. queue' \in Seq(PacketTypes)
    BY <1>1, QueueTyped DEF SendOk, Expect, ConTypeOK, PacketTypes
  <2>m. more_results' \in BOOLEAN
    BY <1>1 DEF SendOk, ResetResult
  <2>2. ConTypeOK'
    BY <1>1, <2>1, <2>m
    DEF SendOk, ResetResult, ConTypeOK, Statuses, CommandStatuses, ErrorCodes
  <2>3. column_count' \in Nat /\ current_column' \in Nat /\ in_row' \in BOOLEAN
    BY <1>1 DEF SendOk, ResetResult, ResultTypeOK
  <2>4. CASE Unread \/ in_row
    <3>1. UNCHANGED wireVars /\ rows_taken' = rows_taken /\ stale' = TRUE
      BY <1>1, <2>4 DEF SendOk
    <3> QED BY <1>1, <2>2, <2>3, <3>1 DEF SendOk, WireTypeOK
  <2>5. CASE ~Unread /\ ~in_row
    <3>1. PICK r \in Answers(command) : Answer(r, 0)
      BY <1>1, <2>5 DEF SendOk
    <3>2. r \in Reply
      BY AnswersTyped
    <3>3. stale' = stale
      BY <1>1, <2>5 DEF SendOk
    <3> QED BY <1>1, <2>2, <2>3, <3>1, <3>2, <3>3 DEF SendOk, Answer, WireTypeOK
  <2> QED BY <2>4, <2>5
<1>2. CASE SendFail
  <2>1. more_results' \in BOOLEAN
    BY <1>2 DEF SendFail, ResetResult
  <2>2. ConTypeOK'
    BY <1>2, <2>1
    DEF SendFail, ResetResult, ConTypeOK, CommandStatuses, ErrorCodes
  <2>3. column_count' \in Nat /\ current_column' \in Nat /\ in_row' \in BOOLEAN
    BY <1>2 DEF SendFail, ResetResult, ResultTypeOK
  <2>4. logged_in' \in BOOLEAN => WireTypeOK'
    BY <1>2 DEF SendFail, WireTypeOK
  <2> QED BY <2>2, <2>3, <2>4
<1> QED BY <1>1, <1>2

(* Reading a packet keeps the types of what the reader assigns for any       *)
(* packet.                                                                   *)
LEMMA AcceptTyped ==
    ASSUME TypeOK,
           NEW types, NEW contents,
           Accept(types, contents)
    PROVE  /\ packet_number' \in 0..255
           /\ pc' \in Processing \union {"app", "loop", "report"}
                /\ ret' \in Returns => ApiTypeOK'
           /\ logged_in' \in BOOLEAN => WireTypeOK'
<1> USE DEF TypeOK, Accept, apiVars, queryVars, rowVars, netVars
<1>1. packet_number' \in 0..255
  BY DEF NextNumber, ConTypeOK
<1>2. pc' \in Processing \union {"app", "loop", "report"} /\ ret' \in Returns =>
        ApiTypeOK'
  BY DEF ApiTypeOK, Processing
<1>3. logged_in' \in BOOLEAN => WireTypeOK'
  BY DEF WireTypeOK
<1> QED BY <1>1, <1>2, <1>3

LEMMA TypeStep == TypeOK /\ [Next]_vars => TypeOK'
<1> SUFFICES ASSUME TypeOK, [Next]_vars
             PROVE  TypeOK'
  OBVIOUS
<1> USE DEF TypeOK, conVars, resultVars, queryVars, rowVars, apiVars, history,
            netVars, wireVars
<1>q. /\ Pop \in Seq(PacketTypes)
      /\ << >> \in Seq(PacketTypes)
      /\ \A t \in PacketTypes : /\ Push(t) \in Seq(PacketTypes)
                                /\ Replace(t) \in Seq(PacketTypes)
  BY QueueTyped DEF ConTypeOK
<1>n. NextNumber \in 0..255 /\ (NextNumber + 1) % 256 \in 0..255
  BY DEF ConTypeOK, NextNumber
<1>1. CASE Connect
  BY <1>1
  DEF Connect, StartConnect, ConTypeOK, ResultTypeOK, ApiTypeOK, WireTypeOK,
      Statuses, CommandStatuses, ErrorCodes, Returns, Processing, PacketTypes
<1>2. CASE Poll
  BY <1>2
  DEF Poll, Settled, ConTypeOK, ResultTypeOK, ApiTypeOK, WireTypeOK,
      Statuses, CommandStatuses, ErrorCodes, Returns, Processing, PacketTypes
<1>3. CASE QueryConnect
  <2>1. ConTypeOK'
    BY <1>3, ApplicationAssumption
    DEF QueryConnect, Call, StartConnect, ConTypeOK, Statuses, CommandStatuses, ErrorCodes, PacketTypes
  <2>2. ResultTypeOK'
    BY <1>3, ApplicationAssumption
    DEF QueryConnect, Call, StartConnect, ResultTypeOK
  <2>b. in_query' \in BOOLEAN /\ query_pending' \in BOOLEAN /\ pending_statement' \in BOOLEAN
    BY <1>3 DEF QueryConnect
  <2>3. ApiTypeOK'
    BY <1>3, ApplicationAssumption, <2>b
    DEF QueryConnect, Call, StartConnect, ApiTypeOK, Returns, Processing
  <2>4. WireTypeOK'
    BY <1>3, ApplicationAssumption, <2>b
    DEF QueryConnect, Call, StartConnect, WireTypeOK
  <2> QED BY <2>1, <2>2, <2>3, <2>4
<1>4. CASE Query
  <2>1. SendOk("QUERY") \/ SendFail
    BY <1>4 DEF Query, Command
  <2>2. /\ ConTypeOK'
        /\ column_count' \in Nat /\ current_column' \in Nat /\ in_row' \in BOOLEAN
        /\ logged_in' \in BOOLEAN => WireTypeOK'
    BY <2>1, SendTyped DEF Commands
  <2>3. ResultTypeOK'
    BY <1>4, <2>2 DEF Query, ResultTypeOK, FreshStmt
  <2>4. WireTypeOK'
    BY <1>4, <2>2 DEF Query, Command, WireTypeOK
  <2>b. in_query' \in BOOLEAN /\ query_pending' \in BOOLEAN /\ pending_statement' \in BOOLEAN
    BY <1>4, Zenon DEF Query, ApiTypeOK
  <2>5. ApiTypeOK'
    BY <1>4, <2>b, ApplicationAssumption
    DEF Query, Command, Call, ApiTypeOK, Returns
  <2> QED BY <2>2, <2>3, <2>4, <2>5
<1>5. CASE QueryRefused
  BY <1>5, ApplicationAssumption
  DEF QueryRefused, Call, ConTypeOK, ResultTypeOK, ApiTypeOK, WireTypeOK,
      Statuses, CommandStatuses, ErrorCodes, Returns, Processing, PacketTypes
<1>6. CASE QueryClose
  <2>1. ConTypeOK'
    BY <1>6
    DEF QueryClose, ConTypeOK, Statuses, CommandStatuses, ErrorCodes, PacketTypes
  <2>2. ResultTypeOK'
    BY <1>6
    DEF QueryClose, ResultTypeOK
  <2>3. ApiTypeOK'
    BY <1>6
    DEF QueryClose, ApiTypeOK, Returns, Processing, ConTypeOK
  <2>4. WireTypeOK'
    BY <1>6
    DEF QueryClose, WireTypeOK
  <2> QED BY <2>1, <2>2, <2>3, <2>4
<1>7. CASE RowNext
  <2>1. Push("ROW") \in Seq(PacketTypes)
    BY <1>q DEF PacketTypes
  <2>2. ConTypeOK'
    BY <1>7, <2>1 DEF RowNext, GetNextRow, ConTypeOK, CommandStatuses
  <2>r. ResultTypeOK'
    BY <1>7 DEF RowNext, GetNextRow, ResultTypeOK
  <2>w. WireTypeOK'
    BY <1>7 DEF RowNext, GetNextRow, WireTypeOK
  <2>3. ResultTypeOK' /\ WireTypeOK'
    BY <2>r, <2>w
  <2>4. ApiTypeOK'
    BY <1>7 DEF RowNext, GetNextRow, ApiTypeOK, Returns, Processing
  <2> QED BY <2>2, <2>3, <2>4
<1>8. CASE NextResult
  <2>1. ConTypeOK'
    BY <1>8, <1>q, ApplicationAssumption, RepliesTyped, CountFacts
    DEF NextResult, ResetResult, Answer, ConTypeOK, Statuses, CommandStatuses, ErrorCodes, PacketTypes
  <2>2. ResultTypeOK'
    BY <1>8, <1>q, ApplicationAssumption, RepliesTyped, CountFacts
    DEF NextResult, ResetResult, Answer, ResultTypeOK
  <2>3. ApiTypeOK'
    BY <1>8, <1>q, ApplicationAssumption, RepliesTyped, CountFacts
    DEF NextResult, ResetResult, Answer, ApiTypeOK, Returns, Processing
  <2>a. PICK r \in QueryReplies : Answer(r, (base + PacketCount(reply)) % 256)
    BY <1>8 DEF NextResult
  <2>b. r \in Reply /\ (base + PacketCount(reply)) % 256 \in 0..255
    BY RepliesTyped, CountFacts DEF WireTypeOK
  <2>4. WireTypeOK'
    BY <1>8, <2>a, <2>b DEF NextResult, Answer, WireTypeOK
  <2> QED BY <2>1, <2>2, <2>3, <2>4
<1>9. CASE BufferRows
  BY <1>9
  DEF BufferRows, ConTypeOK, ResultTypeOK, ApiTypeOK, WireTypeOK,
      Statuses, CommandStatuses, ErrorCodes, Returns, Processing, PacketTypes
<1>10. CASE StatementPrepareConnect
  <2>1. ConTypeOK'
    BY <1>10, ApplicationAssumption
    DEF StatementPrepareConnect, Call, StartConnect, ConTypeOK, Statuses, CommandStatuses, ErrorCodes, PacketTypes
  <2>2. ResultTypeOK'
    BY <1>10, ApplicationAssumption
    DEF StatementPrepareConnect, Call, StartConnect, ResultTypeOK
  <2>3. ApiTypeOK'
    BY <1>10, ApplicationAssumption
    DEF StatementPrepareConnect, Call, StartConnect, ApiTypeOK, Returns, Processing
  <2>4. WireTypeOK'
    BY <1>10, ApplicationAssumption
    DEF StatementPrepareConnect, Call, StartConnect, WireTypeOK
  <2> QED BY <2>1, <2>2, <2>3, <2>4
<1>11. CASE StatementPrepare
  <2>1. SendOk("STMT_PREPARE") \/ SendFail
    BY <1>11 DEF StatementPrepare, Command
  <2>2. /\ ConTypeOK'
        /\ column_count' \in Nat /\ current_column' \in Nat /\ in_row' \in BOOLEAN
        /\ logged_in' \in BOOLEAN => WireTypeOK'
    BY <2>1, SendTyped DEF Commands
  <2>3. ResultTypeOK'
    BY <1>11, <2>2 DEF StatementPrepare, ResultTypeOK, FreshStmt
  <2>4. WireTypeOK'
    BY <1>11, <2>2 DEF StatementPrepare, Command, WireTypeOK
  <2>5. ApiTypeOK'
    BY <1>11, ApplicationAssumption
    DEF StatementPrepare, Command, Call, ApiTypeOK, Returns
  <2> QED BY <2>2, <2>3, <2>4, <2>5
<1>12. CASE StatementExecute
  <2>1. SendOk("STMT_EXECUTE") \/ SendFail
    BY <1>12 DEF StatementExecute, Command
  <2>2. /\ ConTypeOK'
        /\ column_count' \in Nat /\ current_column' \in Nat /\ in_row' \in BOOLEAN
        /\ logged_in' \in BOOLEAN => WireTypeOK'
    BY <2>1, SendTyped DEF Commands
  <2>3. ResultTypeOK'
    BY <1>12, <2>2 DEF StatementExecute, ResultTypeOK, FreshStmt
  <2>4. WireTypeOK'
    BY <1>12, <2>2 DEF StatementExecute, Command, WireTypeOK
  <2>5. ApiTypeOK'
    BY <1>12, ApplicationAssumption
    DEF StatementExecute, Command, Call, ApiTypeOK, Returns
  <2> QED BY <2>2, <2>3, <2>4, <2>5
<1>13. CASE StatementExecuteBad
  BY <1>13, <1>q, ApplicationAssumption
  DEF StatementExecuteBad, Call, ConTypeOK, ResultTypeOK, ApiTypeOK, WireTypeOK,
      Statuses, CommandStatuses, ErrorCodes, Returns, Processing, PacketTypes
<1>14. CASE StatementClose
  <2>1. SendOk("STMT_CLOSE") \/ SendFail
    BY <1>14 DEF StatementClose, Command
  <2>2. /\ ConTypeOK'
        /\ column_count' \in Nat /\ current_column' \in Nat /\ in_row' \in BOOLEAN
        /\ logged_in' \in BOOLEAN => WireTypeOK'
    BY <2>1, SendTyped DEF Commands
  <2>3. ResultTypeOK'
    BY <1>14, <2>2 DEF StatementClose, ResultTypeOK, FreshStmt
  <2>4. WireTypeOK'
    BY <1>14, <2>2 DEF StatementClose, Command, WireTypeOK
  <2>5. ApiTypeOK'
    BY <1>14, ApplicationAssumption
    DEF StatementClose, Command, Call, ApiTypeOK, Returns
  <2> QED BY <2>2, <2>3, <2>4, <2>5
<1>15. CASE OnResolved
  BY <1>15
  DEF OnResolved, ConTypeOK, ResultTypeOK, ApiTypeOK, WireTypeOK,
      Statuses, CommandStatuses, ErrorCodes, Returns, Processing, PacketTypes
<1>16. CASE OnConnect
  <2>1. ConTypeOK'
    BY <1>16, <1>q, RepliesTyped
    DEF OnConnect, Answer, ConTypeOK, Statuses, CommandStatuses, ErrorCodes, PacketTypes
  <2>2. ResultTypeOK'
    BY <1>16, <1>q, RepliesTyped
    DEF OnConnect, Answer, ResultTypeOK
  <2>3. ApiTypeOK'
    BY <1>16, <1>q, RepliesTyped
    DEF OnConnect, Answer, ApiTypeOK, Returns, Processing
  <2>v. stale' \in BOOLEAN /\ logged_in' \in BOOLEAN
    BY <1>16 DEF OnConnect, WireTypeOK
  <2>w. stream' \in {"open", "none"} /\ writes' \in Nat
    BY <1>16 DEF OnConnect, WireTypeOK
  <2>4. WireTypeOK'
    <3>1. CASE \E r \in HandshakeReplies : Answer(r, 255)
      <4>1. PICK r \in HandshakeReplies : Answer(r, 255)
        BY <3>1
      <4>2. r \in Reply
        BY RepliesTyped
      <4> QED BY <2>v, <2>w, <4>1, <4>2 DEF Answer, WireTypeOK
    <3>2. CASE UNCHANGED <<wireVars, rows_taken>>
      BY <3>2, <2>v, <2>w DEF WireTypeOK
    <3> QED BY <1>16, <3>1, <3>2 DEF OnConnect
  <2> QED BY <2>1, <2>2, <2>3, <2>4
<1>17. CASE ConnectReturn
  BY <1>17
  DEF ConnectReturn, ConTypeOK, ResultTypeOK, ApiTypeOK, WireTypeOK,
      Statuses, CommandStatuses, ErrorCodes, Returns, Processing, PacketTypes
<1>18. CASE OnWrite
  BY <1>18
  DEF OnWrite, ConTypeOK, ResultTypeOK, ApiTypeOK, WireTypeOK,
      Statuses, CommandStatuses, ErrorCodes, Returns, Processing, PacketTypes
<1>19. CASE OnWriteFail
  BY <1>19, <1>q
  DEF OnWriteFail, NetError, ConTypeOK, ResultTypeOK, ApiTypeOK, WireTypeOK,
      Statuses, CommandStatuses, ErrorCodes, Returns, Processing, PacketTypes
<1>20. CASE ReadFail
  BY <1>20, <1>q
  DEF ReadFail, NetError, ConTypeOK, ResultTypeOK, ApiTypeOK, WireTypeOK,
      Statuses, CommandStatuses, ErrorCodes, Returns, Processing, PacketTypes
<1>21. CASE ReadData
  BY <1>21, CountFacts
  DEF ReadData, ConTypeOK, ResultTypeOK, ApiTypeOK, WireTypeOK,
      Statuses, CommandStatuses, ErrorCodes, Returns, Processing, PacketTypes
<1>22. CASE LoopEnd
  BY <1>22
  DEF LoopEnd, ConTypeOK, ResultTypeOK, ApiTypeOK, WireTypeOK,
      Statuses, CommandStatuses, ErrorCodes, Returns, Processing, PacketTypes
<1>23. CASE PacketsDone
  BY <1>23
  DEF PacketsDone, Return, ConTypeOK, ResultTypeOK, ApiTypeOK, WireTypeOK,
      Statuses, CommandStatuses, ErrorCodes, Returns, Processing, PacketTypes
<1>24. CASE OutOfSequence
  BY <1>24, <1>q, <1>n
  DEF OutOfSequence, Return, ConTypeOK, ResultTypeOK, ApiTypeOK, WireTypeOK,
      Statuses, CommandStatuses, ErrorCodes, Returns, Processing, PacketTypes
<1>25. CASE ReadHandshake
  <2>1. ConTypeOK'
    BY <1>25, <1>q, <1>n, RepliesTyped
    DEF ReadHandshake, HavePacket, Answer, ConTypeOK, Statuses, CommandStatuses, ErrorCodes, PacketTypes
  <2>2. ResultTypeOK'
    BY <1>25, <1>q, <1>n, RepliesTyped
    DEF ReadHandshake, HavePacket, Answer, ResultTypeOK
  <2>3. ApiTypeOK'
    BY <1>25, <1>q, <1>n, RepliesTyped
    DEF ReadHandshake, HavePacket, Answer, ApiTypeOK, Returns, Processing
  <2>4. WireTypeOK'
    BY <1>25, <1>q, <1>n, RepliesTyped
    DEF ReadHandshake, HavePacket, Answer, WireTypeOK
  <2> QED BY <2>1, <2>2, <2>3, <2>4
<1>26. CASE ReadBadHandshake
  <2>1. PICK ts, cs : Accept(ts, cs)
    BY <1>26 DEF ReadBadHandshake
  <2>2. /\ packet_number' \in 0..255
        /\ pc' \in Processing \union {"app", "loop", "report"}
             /\ ret' \in Returns => ApiTypeOK'
        /\ logged_in' \in BOOLEAN => WireTypeOK'
    BY <2>1, AcceptTyped
  <2>3. ConTypeOK'
    BY <1>26, <1>q, <2>2
    DEF ReadBadHandshake, ConTypeOK, WireTypeOK, Reply, Statuses, CommandStatuses, ErrorCodes, PacketTypes
  <2>4. ResultTypeOK'
    BY <1>26 DEF ReadBadHandshake, ResultTypeOK, WireTypeOK, Reply
  <2>5. ApiTypeOK'
    BY <1>26, <2>1, <2>2
    DEF ReadBadHandshake, Accept, HavePacket, ApiTypeOK, Returns, Processing
  <2>6. WireTypeOK'
    BY <1>26, <2>2 DEF ReadBadHandshake, WireTypeOK
  <2> QED BY <2>3, <2>4, <2>5, <2>6
<1>27. CASE ReadOk
  <2>1. PICK ts, cs : Accept(ts, cs)
    BY <1>27 DEF ReadOk
  <2>2. /\ packet_number' \in 0..255
        /\ pc' \in Processing \union {"app", "loop", "report"}
             /\ ret' \in Returns => ApiTypeOK'
        /\ logged_in' \in BOOLEAN => WireTypeOK'
    BY <2>1, AcceptTyped
  <2>3. ConTypeOK'
    BY <1>27, <1>q, <2>2
    DEF ReadOk, ConTypeOK, WireTypeOK, Reply, Statuses, CommandStatuses, ErrorCodes, PacketTypes
  <2>4. ResultTypeOK'
    BY <1>27 DEF ReadOk, ResultTypeOK, WireTypeOK, Reply
  <2>5. ApiTypeOK'
    BY <1>27, <2>1, <2>2
    DEF ReadOk, Accept, HavePacket, ApiTypeOK, Returns, Processing
  <2>6. WireTypeOK'
    BY <1>27, <2>2 DEF ReadOk, WireTypeOK
  <2> QED BY <2>3, <2>4, <2>5, <2>6
<1>28. CASE ReadErr
  <2>1. PICK ts, cs : Accept(ts, cs)
    BY <1>28 DEF ReadErr
  <2>2. /\ packet_number' \in 0..255
        /\ pc' \in Processing \union {"app", "loop", "report"}
             /\ ret' \in Returns => ApiTypeOK'
        /\ logged_in' \in BOOLEAN => WireTypeOK'
    BY <2>1, AcceptTyped
  <2>3. ConTypeOK'
    BY <1>28, <1>q, <2>2
    DEF ReadErr, ConTypeOK, WireTypeOK, Reply, Statuses, CommandStatuses, ErrorCodes, PacketTypes
  <2>4. ResultTypeOK'
    BY <1>28 DEF ReadErr, ResultTypeOK, WireTypeOK, Reply
  <2>5. ApiTypeOK'
    BY <1>28, <2>1, <2>2
    DEF ReadErr, Accept, HavePacket, ApiTypeOK, Returns, Processing
  <2>6. WireTypeOK'
    BY <1>28, <2>2 DEF ReadErr, WireTypeOK
  <2> QED BY <2>3, <2>4, <2>5, <2>6
<1>29. CASE ReadResult
  <2>1. PICK ts, cs : Accept(ts, cs)
    BY <1>29 DEF ReadResult
  <2>2. /\ packet_number' \in 0..255
        /\ pc' \in Processing \union {"app", "loop", "report"}
             /\ ret' \in Returns => ApiTypeOK'
        /\ logged_in' \in BOOLEAN => WireTypeOK'
    BY <2>1, AcceptTyped
  <2>3. ConTypeOK'
    BY <1>29, <1>q, <2>2
    DEF ReadResult, ConTypeOK, WireTypeOK, Reply, Statuses, CommandStatuses, ErrorCodes, PacketTypes
  <2>4. ResultTypeOK'
    BY <1>29 DEF ReadResult, ResultTypeOK, WireTypeOK, Reply
  <2>5. ApiTypeOK'
    BY <1>29, <2>1, <2>2
    DEF ReadResult, Accept, HavePacket, ApiTypeOK, Returns, Processing
  <2>6. WireTypeOK'
    BY <1>29, <2>2 DEF ReadResult, WireTypeOK
  <2> QED BY <2>3, <2>4, <2>5, <2>6
<1>30. CASE ReadColumn
  <2>1. PICK ts, cs : Accept(ts, cs)
    BY <1>30 DEF ReadColumn
  <2>2. /\ packet_number' \in 0..255
        /\ pc' \in Processing \union {"app", "loop", "report"}
             /\ ret' \in Returns => ApiTypeOK'
        /\ logged_in' \in BOOLEAN => WireTypeOK'
    BY <2>1, AcceptTyped
  <2>q. queue' \in Seq(PacketTypes)
    BY <1>30, <1>q DEF ReadColumn, PacketTypes
  <2>3. ConTypeOK'
    BY <1>30, <2>q, <2>2
    DEF ReadColumn, ConTypeOK, CommandStatuses
  <2>4. ResultTypeOK'
    BY <1>30 DEF ReadColumn, ResultTypeOK, WireTypeOK, Reply
  <2>5. ApiTypeOK'
    BY <1>30, <2>1, <2>2
    DEF ReadColumn, Accept, HavePacket, ApiTypeOK, Returns, Processing
  <2>6. WireTypeOK'
    BY <1>30, <2>2 DEF ReadColumn, WireTypeOK
  <2> QED BY <2>3, <2>4, <2>5, <2>6
<1>31. CASE ReadEof
  <2>1. PICK ts, cs : Accept(ts, cs)
    BY <1>31 DEF ReadEof
  <2>2. /\ packet_number' \in 0..255
        /\ pc' \in Processing \union {"app", "loop", "report"}
             /\ ret' \in Returns => ApiTypeOK'
        /\ logged_in' \in BOOLEAN => WireTypeOK'
    BY <2>1, AcceptTyped
  <2>3. ConTypeOK'
    BY <1>31, <1>q, <2>2
    DEF ReadEof, EofResponse, AfterEof, ConTypeOK, WireTypeOK, Reply, Statuses, CommandStatuses, ErrorCodes, PacketTypes
  <2>4. ResultTypeOK'
    BY <1>31 DEF ReadEof, ResultTypeOK, WireTypeOK, Reply
  <2>5. ApiTypeOK'
    BY <1>31, <2>1, <2>2
    DEF ReadEof, Accept, HavePacket, ApiTypeOK, Returns, Processing
  <2>6. WireTypeOK'
    BY <1>31, <2>2 DEF ReadEof, WireTypeOK
  <2> QED BY <2>3, <2>4, <2>5, <2>6
<1>32. CASE ReadRow
  <2>1. PICK ts, cs : Accept(ts, cs)
    BY <1>32 DEF ReadRow
  <2>2. /\ packet_number' \in 0..255
        /\ pc' \in Processing \union {"app", "loop", "report"}
             /\ ret' \in Returns => ApiTypeOK'
        /\ logged_in' \in BOOLEAN => WireTypeOK'
    BY <2>1, AcceptTyped
  <2>3. ConTypeOK'
    BY <1>32, <1>q, <2>2
    DEF ReadRow, EofResponse, AfterEof, Return, ConTypeOK, WireTypeOK, Reply, Statuses, CommandStatuses, ErrorCodes, PacketTypes
  <2>4. ResultTypeOK'
    BY <1>32 DEF ReadRow, ResultTypeOK, WireTypeOK, Reply
  <2>5. ApiTypeOK'
    BY <1>32, <2>1, <2>2
    DEF ReadRow, Return, Accept, HavePacket, ApiTypeOK, Returns, Processing
  <2>6. WireTypeOK'
    BY <1>32, <2>2 DEF ReadRow, WireTypeOK
  <2> QED BY <2>3, <2>4, <2>5, <2>6
<1>33. CASE ReadPrepareOk
  <2>1. PICK ts, cs : Accept(ts, cs)
    BY <1>33 DEF ReadPrepareOk
  <2>2. /\ packet_number' \in 0..255
        /\ pc' \in Processing \union {"app", "loop", "report"}
             /\ ret' \in Returns => ApiTypeOK'
        /\ logged_in' \in BOOLEAN => WireTypeOK'
    BY <2>1, AcceptTyped
  <2>3. ConTypeOK'
    BY <1>33, <1>q, <2>2
    DEF ReadPrepareOk, ConTypeOK, WireTypeOK, Reply, Statuses, CommandStatuses, ErrorCodes, PacketTypes
  <2>4. ResultTypeOK'
    BY <1>33 DEF ReadPrepareOk, ResultTypeOK, WireTypeOK, Reply
  <2>5. ApiTypeOK'
    BY <1>33, <2>1, <2>2
    DEF ReadPrepareOk, Accept, HavePacket, ApiTypeOK, Returns, Processing
  <2>6. WireTypeOK'
    BY <1>33, <2>2 DEF ReadPrepareOk, WireTypeOK
  <2> QED BY <2>3, <2>4, <2>5, <2>6
<1>34. CASE ReadPrepareParameter
  <2>1. PICK ts, cs : Accept(ts, cs)
    BY <1>34 DEF ReadPrepareParameter
  <2>2. /\ packet_number' \in 0..255
        /\ pc' \in Processing \union {"app", "loop", "report"}
             /\ ret' \in Returns => ApiTypeOK'
        /\ logged_in' \in BOOLEAN => WireTypeOK'
    BY <2>1, AcceptTyped
  <2>q. queue' \in Seq(PacketTypes)
    BY <1>34, <1>q DEF ReadPrepareParameter, PacketTypes
  <2>3. ConTypeOK'
    BY <1>34, <2>q, <2>2
    DEF ReadPrepareParameter, ConTypeOK, CommandStatuses
  <2>4. ResultTypeOK'
    BY <1>34 DEF ReadPrepareParameter, ResultTypeOK, WireTypeOK, Reply
  <2>5. ApiTypeOK'
    BY <1>34, <2>1, <2>2
    DEF ReadPrepareParameter, Accept, HavePacket, ApiTypeOK, Returns, Processing
  <2>6. WireTypeOK'
    BY <1>34, <2>2 DEF ReadPrepareParameter, WireTypeOK
  <2> QED BY <2>3, <2>4, <2>5, <2>6
<1>35. CASE ReadPrepareColumn
  <2>1. PICK ts, cs : Accept(ts, cs)
    BY <1>35 DEF ReadPrepareColumn
  <2>2. /\ packet_number' \in 0..255
        /\ pc' \in Processing \union {"app", "loop", "report"}
             /\ ret' \in Returns => ApiTypeOK'
        /\ logged_in' \in BOOLEAN => WireTypeOK'
    BY <2>1, AcceptTyped
  <2>q. queue' \in Seq(PacketTypes)
    BY <1>35, <1>q DEF ReadPrepareColumn, PacketTypes
  <2>3. ConTypeOK'
    BY <1>35, <2>q, <2>2
    DEF ReadPrepareColumn, ConTypeOK, CommandStatuses
  <2>4. ResultTypeOK'
    BY <1>35 DEF ReadPrepareColumn, ResultTypeOK, WireTypeOK, Reply
  <2>5. ApiTypeOK'
    BY <1>35, <2>1, <2>2
    DEF ReadPrepareColumn, Accept, HavePacket, ApiTypeOK, Returns, Processing
  <2>6. WireTypeOK'
    BY <1>35, <2>2 DEF ReadPrepareColumn, WireTypeOK
  <2> QED BY <2>3, <2>4, <2>5, <2>6
<1>36. CASE Report
  BY <1>36
  DEF Report, ConTypeOK, ResultTypeOK, ApiTypeOK, WireTypeOK,
      Statuses, CommandStatuses, ErrorCodes, Returns, Processing, PacketTypes
<1>37. CASE ReportEof
  BY <1>37
  DEF ReportEof, ReportIdle, ConTypeOK, ResultTypeOK, ApiTypeOK, WireTypeOK,
      Statuses, CommandStatuses, ErrorCodes, Returns, Processing, PacketTypes
<1>38. CASE ReportRow
  BY <1>38
  DEF ReportRow, ReportIdle, ConTypeOK, ResultTypeOK, ApiTypeOK, WireTypeOK,
      Statuses, CommandStatuses, ErrorCodes, Returns, Processing, PacketTypes
<1>39. CASE ReportBufferRow
  <2>1. Push("ROW") \in Seq(PacketTypes)
    BY <1>q DEF PacketTypes
  <2>2. ConTypeOK'
    BY <1>39, <2>1
    DEF ReportBufferRow, ReportIdle, GetNextRow, ConTypeOK, CommandStatuses
  <2>r. ResultTypeOK'
    BY <1>39 DEF ReportBufferRow, GetNextRow, ResultTypeOK
  <2>w. WireTypeOK'
    BY <1>39 DEF ReportBufferRow, GetNextRow, WireTypeOK
  <2>3. ResultTypeOK' /\ WireTypeOK'
    BY <2>r, <2>w
  <2>4. ApiTypeOK'
    BY <1>39
    DEF ReportBufferRow, ReportIdle, GetNextRow, ApiTypeOK, Returns, Processing
  <2> QED BY <2>2, <2>3, <2>4
<1>40. CASE ReportConnected
  BY <1>40
  DEF ReportConnected, ReportIdle, ConTypeOK, ResultTypeOK, ApiTypeOK, WireTypeOK,
      Statuses, CommandStatuses, ErrorCodes, Returns, Processing, PacketTypes
<1>41. CASE ReportConnectedQuery
  <2>1. PICK c \in {"QUERY", "STMT_PREPARE"} : SendOk(c)
    BY <1>41 DEF ReportConnectedQuery
  <2>2. /\ ConTypeOK'
        /\ column_count' \in Nat /\ current_column' \in Nat /\ in_row' \in BOOLEAN
        /\ logged_in' \in BOOLEAN => WireTypeOK'
    BY <2>1, SendTyped DEF Commands
  <2>3. ResultTypeOK'
    BY <1>41, <2>2 DEF ReportConnectedQuery, ResultTypeOK, FreshStmt
  <2>4. WireTypeOK'
    BY <1>41, <2>2 DEF ReportConnectedQuery, WireTypeOK
  <2>5. ApiTypeOK'
    BY <1>41, ApplicationAssumption
    DEF ReportConnectedQuery, ApiTypeOK, Returns
  <2> QED BY <2>2, <2>3, <2>4, <2>5
<1>42. CASE ReportLost
  BY <1>42
  DEF ReportLost, ConTypeOK, ResultTypeOK, ApiTypeOK, WireTypeOK,
      Statuses, CommandStatuses, ErrorCodes, Returns, Processing, PacketTypes
<1>45. CASE Misread
  BY <1>45, <1>q, <1>n
  DEF Misread, ConTypeOK, ResultTypeOK, ApiTypeOK, WireTypeOK,
      Statuses, CommandStatuses, ErrorCodes, Returns, Processing, PacketTypes
<1>43. CASE Aborted
  BY <1>43 DEF Aborted, vars, ConTypeOK, ResultTypeOK, ApiTypeOK, WireTypeOK
<1>44. CASE UNCHANGED vars
  BY <1>44 DEF vars, ConTypeOK, ResultTypeOK, ApiTypeOK, WireTypeOK
<1> QED
  BY <1>1, <1>2, <1>3, <1>4, <1>5, <1>6, <1>7, <1>8, <1>9, <1>10, <1>11,
     <1>12, <1>13, <1>14, <1>15, <1>16, <1>17, <1>18, <1>19, <1>20, <1>21,
     <1>22, <1>23, <1>24, <1>25, <1>26, <1>27, <1>28, <1>29, <1>30, <1>31,
     <1>32, <1>33, <1>34, <1>35, <1>36, <1>37, <1>38, <1>39, <1>40, <1>41,
     <1>42, <1>43, <1>44, <1>45
  DEF Next, Application, Loop, ProcessPackets, Reports

LEMMA TypeInit == Init => TypeOK
<1> SUFFICES ASSUME Init PROVE TypeOK
  OBVIOUS
<1>b. /\ more_results \in BOOLEAN /\ in_query \in BOOLEAN
      /\ query_pending \in BOOLEAN /\ pending_statement \in BOOLEAN
      /\ buffer_rows \in BOOLEAN /\ all_rows_buffered \in BOOLEAN
      /\ in_row \in BOOLEAN
      /\ stale \in BOOLEAN /\ logged_in \in BOOLEAN
  BY DEF Init
<1>1. ConTypeOK
  BY <1>b DEF Init, ConTypeOK, Statuses, CommandStatuses, ErrorCodes, PacketTypes
<1>2. ResultTypeOK
  BY <1>b DEF Init, ResultTypeOK
<1>3. ApiTypeOK
  BY <1>b, ApplicationAssumption DEF Init, ApiTypeOK, Returns
<1>4. WireTypeOK
  BY <1>b, RepliesTyped DEF Init, WireTypeOK
<1> QED BY <1>1, <1>2, <1>3, <1>4 DEF TypeOK

(* Every field of the connection keeps its declared type, whatever the       *)
(* server, the network and the application do: TypeOK, for every value of    *)
(* the constants.                                                            *)
THEOREM TypeCorrect == Spec => []TypeOK
<1>1. TypeOK /\ [Next]_vars => TypeOK'
  BY TypeStep
<1> QED BY <1>1, TypeInit, PTL DEF Spec

-----------------------------------------------------------------------------
(* Packet numbers                                                            *)

LEMMA ModNext ==
    ASSUME NEW n \in Nat
    PROVE  /\ n % 256 \in 0..255
           /\ (n + 1) % 256 = IF n % 256 = 255 THEN 0 ELSE (n % 256) + 1
           /\ ((n % 256) + 0) % 256 = n % 256
  OBVIOUS

(* The packet at the head carries the successor of Number.                   *)
LEMMA NumberFacts ==
    ASSUME TypeOK
    PROVE  /\ Number \in 0..255
           /\ WireNumber \in 0..255
           /\ WireNumber = IF Number = 255 THEN 0 ELSE Number + 1
           /\ (packet_number + 1) % 256
                = IF packet_number = 255 THEN 0 ELSE packet_number + 1
           /\ SignedByte(WireNumber) = WireNumber <=> WireNumber <= 127
<1>1. base + pos \in Nat /\ packet_number \in Nat /\ packet_number <= 255
  BY DEF TypeOK, WireTypeOK, ConTypeOK
<1>2. (base + pos) + 1 = base + pos + 1
  BY DEF TypeOK, WireTypeOK
<1>3. packet_number % 256 = packet_number
  BY <1>1
<1> QED BY <1>1, <1>2, <1>3, ModNext DEF Number, WireNumber, SignedByte

-----------------------------------------------------------------------------
(* The packets of a reply, by position                                       *)

LEMMA ResultPackets ==
    ASSUME NEW r \in Reply, r.kind = "RESULT", NEW i \in Nat, i > 0
    PROVE  /\ i = 1 => PacketAt(r, i) = "RESULT"
           /\ 2 <= i /\ i <= r.cols + 1 => PacketAt(r, i) = "COLUMN"
           /\ i = r.cols + 2 => PacketAt(r, i) = "EOF"
           /\ r.cols + 3 <= i /\ i <= r.cols + r.rows + 2 =>
                PacketAt(r, i) = "ROW"
           /\ i > r.cols + r.rows + 2 => PacketAt(r, i) = r.end
  BY DEF Reply, PacketAt

LEMMA PreparePackets ==
    ASSUME NEW r \in Reply, r.kind = "PREPARE", NEW i \in Nat, i > 0
    PROVE  /\ i = 1 => PacketAt(r, i) = "PREPARE_OK"
           /\ 2 <= i /\ i <= r.params + 1 => PacketAt(r, i) = "PARAM"
           /\ r.params > 0 /\ i = r.params + 2 => PacketAt(r, i) = "EOF"
           /\ r.cols > 0 /\ i = PacketCount(r) => PacketAt(r, i) = "EOF"
           /\ (/\ i > 1 + Definitions(r.params)
               /\ i <= 1 + Definitions(r.params) + r.cols)
                => PacketAt(r, i) = "COLUMN"
<1>1. /\ r.params \in Nat /\ r.cols \in Nat
      /\ PacketCount(r) = 1 + Definitions(r.params) + Definitions(r.cols)
  BY CountFacts DEF Reply
<1>2. /\ r.cols > 0 => PacketCount(r) = 1 + Definitions(r.params) + r.cols + 1
      /\ r.params > 0 => Definitions(r.params) = r.params + 1
      /\ r.params = 0 => Definitions(r.params) = 0
  BY <1>1 DEF Definitions
<1>3. PacketCount(r) \notin 2..(r.params + 1)
      /\ 1 + Definitions(r.params) \notin 2..(r.params + 1)
  BY <1>1 DEF Definitions
<1>4. i = 1 => PacketAt(r, i) = "PREPARE_OK"
  BY DEF PacketAt
<1>5. 2 <= i /\ i <= r.params + 1 => PacketAt(r, i) = "PARAM"
  BY <1>1, <1>3 DEF PacketAt
<1>6. r.params > 0 /\ i = r.params + 2 => PacketAt(r, i) = "EOF"
  BY <1>1, <1>2 DEF PacketAt
<1>7. r.cols > 0 /\ i = PacketCount(r) => PacketAt(r, i) = "EOF"
  <2>1. r.cols > 0 => PacketCount(r) > 1
    BY <1>1, <1>2 DEF Definitions
  <2> QED BY <1>3, <2>1 DEF PacketAt
<1>8. (/\ i > 1 + Definitions(r.params)
       /\ i <= 1 + Definitions(r.params) + r.cols) => PacketAt(r, i) = "COLUMN"
  <2>1. (/\ i > 1 + Definitions(r.params)
         /\ i <= 1 + Definitions(r.params) + r.cols) =>
          /\ i # 1 /\ i \notin 2..(r.params + 1)
          /\ i # PacketCount(r)
    BY <1>1, <1>2 DEF Definitions
  <2> QED BY <2>1 DEF PacketAt
<1> QED BY <1>4, <1>5, <1>6, <1>7, <1>8

LEMMA OtherPackets ==
    ASSUME NEW r \in Reply, r.kind \notin {"RESULT", "PREPARE"}, NEW i \in Nat
    PROVE  PacketAt(r, i) = r.kind
  BY DEF PacketAt

-----------------------------------------------------------------------------
(* The stack, when it holds one expectation                                  *)

LEMMA QueueOne ==
    ASSUME queue \in Seq(PacketTypes), Len(queue) <= 1
    PROVE  /\ Pop = << >>
           /\ \A t : Replace(t) = <<t>>
           /\ queue = << >> => \A t : Push(t) = <<t>>
<1>1. Len(queue) \in Nat
  BY LenProperties
<1>2. Pop = << >>
  BY <1>1, SubSeqEmpty DEF Pop
<1>3. ASSUME NEW t
      PROVE  Append(<< >>, t) = <<t>>
  OBVIOUS
<1>4. \A t : Replace(t) = <<t>>
  BY <1>2, <1>3 DEF Replace
<1>5. queue = << >> => \A t : Push(t) = <<t>>
  BY <1>3 DEF Push
<1> QED BY <1>2, <1>4, <1>5

LEMMA PeekNext ==
    /\ queue' = << >> => Peek' = "NONE" /\ Len(queue') = 0
    /\ \A t : queue' = <<t>> => Peek' = t /\ Len(queue') = 1
  BY DEF Peek

-----------------------------------------------------------------------------
(* Steps that touch none of the state the invariant is about                 *)

core == <<status, command_status, queue, packet_number, local_errcode,
          current_column, column_count, in_row, stmt, stream, writes, reply, pos,
          arrived, base, rows_taken, stale, logged_in>>

LEMMA Frame ==
    ASSUME Inv, UNCHANGED core
    PROVE  WireInv' /\ ReaderInv' /\ NumberInv' /\ StaleInv'
<1> USE DEF core
<1>1. /\ Peek' = Peek /\ Unread' = Unread /\ Together' = Together
      /\ Number' = Number /\ WireNumber' = WireNumber
      /\ PacketCount(reply)' = PacketCount(reply)
  BY DEF Peek, Unread, Together, Number, WireNumber
<1>2. WireInv'
  BY <1>1 DEF Inv, WireInv
<1>3. NumberInv'
  BY <1>1 DEF Inv, NumberInv
<1>4. StaleInv'
  BY <1>1 DEF Inv, StaleInv, RowInHandInv, SentOverInv
<1>5. /\ NothingInv' = NothingInv /\ HandshakeInv' = HandshakeInv
      /\ ResponseInv' = ResponseInv
      /\ PrepareResponseInv' = PrepareResponseInv
      /\ ParameterInv' = ParameterInv
      /\ PrepareColumnInv' = PrepareColumnInv
      /\ ColumnInv' = ColumnInv /\ RowInv' = RowInv
  BY <1>1
  DEF NothingInv, HandshakeInv, ResponseInv, PrepareResponseInv, ParameterInv,
      PrepareColumnInv, ColumnInv, RowInv
<1>6. ReaderInv'
  BY <1>1, <1>5 DEF Inv, ReaderInv
<1> QED BY <1>2, <1>3, <1>4, <1>6

-----------------------------------------------------------------------------
(* Reading a packet                                                          *)

(* A packet that carries the expected number is never one of an answer the   *)
(* application walked away from.                                             *)
LEMMA AcceptedIsFresh ==
    ASSUME Inv, HavePacket, InSequence
    PROVE  /\ Together
           /\ writes = 0
           /\ queue # << >> /\ Len(queue) <= 1
           /\ local_errcode # "PACKET_OUT_OF_SEQUENCE"
           /\ pos + 1 <= arrived
           /\ pos + 1 <= PacketCount(reply)
<1> USE DEF Inv
<1>1. stream = "open"
  BY DEF HavePacket, StreamInv
<1>2. queue # << >>
  BY QueueTyped DEF HavePacket, TypeOK, ConTypeOK
<1>3. ~stale
  <2> SUFFICES ASSUME stale PROVE FALSE
    BY DEF TypeOK, WireTypeOK
  <2>1. packet_number = 0 /\ WireNumber \in 2..128
    BY <1>2 DEF HavePacket, StaleInv, RowInHandInv, SentOverInv
  <2>2. NextNumber \in {0, 1}
    BY <2>1 DEF NextNumber
  <2> QED BY <2>1, <2>2 DEF InSequence, SignedByte
<1>4. Together
  BY <1>1, <1>3 DEF Together
<1>5. /\ pos \in Nat /\ arrived \in Nat /\ PacketCount(reply) \in Nat
      /\ pos < arrived /\ arrived <= PacketCount(reply)
  BY CountFacts DEF HavePacket, TypeOK, WireTypeOK, WireInv
<1>6. writes = 0
  BY <1>4, <1>5 DEF WireInv
<1>7. local_errcode # "PACKET_OUT_OF_SEQUENCE"
  BY <1>2, <1>3 DEF NumberInv
<1>8. Len(queue) <= 1
  BY <1>4 DEF ReaderInv
<1> QED BY <1>2, <1>4, <1>5, <1>6, <1>7, <1>8

(* The reader's number follows the server's.                                 *)
LEMMA AcceptedNumber ==
    ASSUME Inv, HavePacket, InSequence
    PROVE  /\ NextNumber = WireNumber
           /\ WireNumber <= 127
           /\ Peek # "HANDSHAKE" => WireNumber > 0
           /\ Peek = "HANDSHAKE" => WireNumber = 0
<1> USE DEF Inv
<1>1. Together
  BY AcceptedIsFresh
<1>2. CASE Peek = "HANDSHAKE"
  <2>1. pos = 0 /\ base = 255 /\ packet_number = 0
    BY <1>1, <1>2 DEF ReaderInv, HandshakeInv
  <2> QED BY <1>2, <2>1 DEF WireNumber, NextNumber
<1>3. CASE Peek # "HANDSHAKE"
  <2>1. packet_number = Number /\ Number <= 127
    BY <1>1, <1>3 DEF NumberInv, HavePacket
  <2>2. NextNumber = WireNumber /\ WireNumber > 0
    BY <1>3, <2>1, NumberFacts DEF NextNumber
  <2> QED BY <1>3, <2>2, NumberFacts DEF InSequence
<1> QED BY <1>2, <1>3

(* What every packet handler that only reads keeps.                          *)
LEMMA AcceptKeeps ==
    ASSUME Inv, TypeOK',
           NEW types, NEW contents, Accept(types, contents),
           local_errcode' \in {local_errcode, "BAD_PROTOCOL", "BAD_SCRAMBLE"},
           Peek = "HANDSHAKE" => ~logged_in',
           \/ in_row' = in_row
           \/ in_row' => Unread' /\ queue' = << >>
    PROVE  /\ Together' /\ WireInv' /\ NumberInv' /\ StaleInv'
           /\ pos' = pos + 1 /\ reply' = reply /\ rows_taken' = rows_taken
           /\ stream = "open" /\ stream' = "open"
<1> USE DEF Inv, Accept
<1>1. /\ Together /\ writes = 0 /\ local_errcode # "PACKET_OUT_OF_SEQUENCE"
      /\ pos + 1 <= arrived
  BY AcceptedIsFresh
<1>2. /\ packet_number' = WireNumber /\ WireNumber <= 127
      /\ Peek # "HANDSHAKE" => WireNumber > 0
  BY AcceptedNumber
<1>3. Number' = WireNumber
  BY DEF Number, WireNumber, TypeOK, WireTypeOK
<1>4. Together' /\ ~stale' /\ writes' = 0 /\ stream = "open" /\ stream' = "open"
  BY <1>1 DEF Together, netVars
<1>5. WireInv'
  BY <1>1, <1>4 DEF WireInv
<1>6. NumberInv'
  BY <1>1, <1>2, <1>3, <1>4 DEF NumberInv
<1>7. StaleInv'
  BY <1>4 DEF HavePacket, StaleInv, RowInHandInv, SentOverInv
<1> QED BY <1>4, <1>5, <1>6, <1>7

(* A handler that returns to the packet loop.                                *)
LEMMA StreamKeeps ==
    ASSUME Inv, HavePacket, InSequence,
           stream' = "open", UNCHANGED <<pc, ret>>,
           Peek # "ROW",
           status' \in {"BUSY", "IDLE", "CONNECTING", "CONNECT_FAILED"}
    PROVE  StreamInv'
<1> USE DEF Inv
<1>1. Together /\ Peek # "NONE"
  BY AcceptedIsFresh DEF HavePacket
<1>2. status \in {"BUSY", "CONNECTING"}
  BY <1>1 DEF ReaderInv
<1>3. pc \in {"read", "check"}
  BY <1>2 DEF StreamInv, HavePacket, Processing
<1> QED BY <1>3 DEF StreamInv, Processing

(* The number of a packet and the position it is at.                         *)
LEMMA PhaseFacts ==
    ASSUME Inv, HavePacket, InSequence
    PROVE  /\ Pop = << >> /\ \A t : Replace(t) = <<t>>
           /\ pos \in Nat /\ reply \in Reply
           /\ Packet = PacketAt(reply, pos + 1)
           /\ Peek = "RESPONSE" => ResponseInv
           /\ Peek = "PREPARE_RESPONSE" => PrepareResponseInv
           /\ Peek = "PREPARE_PARAMETER" => ParameterInv
           /\ Peek = "PREPARE_COLUMN" => PrepareColumnInv
           /\ Peek = "COLUMN" => ColumnInv
           /\ Peek = "ROW" => RowInv /\ status \in {"BUSY", "IDLE"}
           /\ Peek = "HANDSHAKE" => HandshakeInv
           /\ Peek # "ROW" => status \in {"BUSY", "CONNECTING"} /\ rows_taken = 0
           /\ Peek # "HANDSHAKE" /\ status = "CONNECTING" =>
                command_status = "READ_RESPONSE" /\ reply \in LoginReplies
<1>1. Together /\ Len(queue) <= 1 /\ Peek # "NONE"
  BY AcceptedIsFresh DEF HavePacket
<1>2. Pop = << >> /\ \A t : Replace(t) = <<t>>
  BY <1>1, QueueOne DEF Inv, TypeOK, ConTypeOK
<1>3. pos \in Nat /\ reply \in Reply
  BY DEF Inv, TypeOK, WireTypeOK
<1> QED BY <1>1, <1>2, <1>3 DEF Inv, ReaderInv, Packet

LEMMA LoginKinds == \A r \in LoginReplies : r.kind \in {"OK", "ERR"}
  BY DEF LoginReplies, Simple

-----------------------------------------------------------------------------
(* What has to be shown of the reader, by what it expects next               *)

LEMMA ReaderNothing ==
    ASSUME queue' = << >>,
           NothingInv',
           status' \in {"IDLE", "CONNECT_FAILED"} /\ Unread' => pos' > 0
    PROVE  ReaderInv'
<1>1. Peek' = "NONE" /\ Len(queue') = 0
  BY PeekNext
<1> QED BY <1>1 DEF ReaderInv

LEMMA ReaderExpects ==
    ASSUME NEW t, queue' = <<t>>,
           \/ t = "RESPONSE" /\ ResponseInv'
           \/ t = "PREPARE_RESPONSE" /\ PrepareResponseInv'
           \/ t = "PREPARE_PARAMETER" /\ ParameterInv'
           \/ t = "PREPARE_COLUMN" /\ PrepareColumnInv'
           \/ t = "COLUMN" /\ ColumnInv',
           status' = "BUSY", rows_taken' = 0
    PROVE  ReaderInv'
<1>1. Peek' = t /\ Len(queue') = 1
  BY PeekNext
<1> QED BY <1>1 DEF ReaderInv

LEMMA ReaderRow ==
    ASSUME queue' = <<"ROW">>, RowInv', status' \in {"BUSY", "IDLE"}, pos' > 0
    PROVE  ReaderInv'
<1>1. Peek' = "ROW" /\ Len(queue') = 1
  BY PeekNext
<1> QED BY <1>1 DEF ReaderInv

-----------------------------------------------------------------------------
(* The packet handlers                                                       *)

(* The four parts of the invariant besides the types and the stream.         *)
WireReaderInv == WireInv /\ ReaderInv /\ NumberInv /\ StaleInv

LEMMA ReadColumnStep ==
    ASSUME Inv, TypeOK', ReadColumn
    PROVE  StreamInv' /\ WireReaderInv'
<1>1. Accept({"COLUMN"}, {"COLUMN"}) /\ HavePacket /\ InSequence
      /\ Peek = "COLUMN"
  BY DEF ReadColumn, Accept
<1>2. /\ Together' /\ WireInv' /\ NumberInv' /\ StaleInv'
      /\ pos' = pos + 1 /\ reply' = reply /\ rows_taken' = rows_taken
      /\ stream' = "open"
  BY <1>1, AcceptKeeps DEF ReadColumn, resultVars
<1>3. ColumnInv /\ status = "BUSY" /\ rows_taken = 0
  BY <1>1, PhaseFacts, LoginKinds DEF ColumnInv
<1>4. status' = "BUSY" /\ rows_taken' = 0
  BY <1>2, <1>3 DEF ReadColumn
<1>5. StreamInv'
  BY <1>1, <1>2, <1>4, StreamKeeps DEF ReadColumn
<1>6. current_column \in Nat /\ column_count \in Nat /\ reply.cols \in Nat
  BY DEF Inv, TypeOK, ResultTypeOK, WireTypeOK, Reply
<1>7. CASE LastColumn
  <2>1. queue' = <<"RESPONSE">>
    BY <1>1, <1>7, PhaseFacts DEF ReadColumn
  <2>2. ResponseInv'
    BY <1>2, <1>3, <1>6, <1>7 DEF ResponseInv, ColumnInv, ReadColumn, LastColumn
  <2>3. ReaderInv'
    BY <1>4, <2>1, <2>2, ReaderExpects
  <2> QED BY <1>2, <1>5, <2>3 DEF WireReaderInv
<1>8. CASE ~LastColumn
  <2>1. queue' = <<"COLUMN">>
    BY <1>1, <1>8, PhaseFacts DEF ReadColumn
  <2>2. ColumnInv'
    BY <1>2, <1>3, <1>6, <1>8 DEF ColumnInv, ReadColumn, LastColumn
  <2>3. ReaderInv'
    BY <1>4, <2>1, <2>2, ReaderExpects
  <2> QED BY <1>2, <1>5, <2>3 DEF WireReaderInv
<1> QED BY <1>7, <1>8

(* An answer that has been read to its last packet.                          *)
LEMMA ReaderOver ==
    ASSUME queue' = << >>,
           command_status' \in {"EOF", "CONNECTED"},
           pos' = PacketCount(reply'), pos' \in Nat,
           reply'.kind = "RESULT" => rows_taken' = reply'.rows,
           status' # "BUSY"
    PROVE  ReaderInv'
<1>1. ~Unread'
  BY DEF Unread
<1>2. NothingInv'
  BY <1>1 DEF NothingInv
<1> QED BY <1>1, <1>2, ReaderNothing

(* Which packet a response can be, and where in the answer it then is.       *)
LEMMA ResponsePackets ==
    ASSUME TypeOK, ResponseInv
    PROVE  /\ command_status \in {"SEND", "READ_RESPONSE"} =>
                /\ pos = 0 /\ current_column = 0 /\ Packet = reply.kind
                /\ reply.kind \in {"OK", "ERR", "RESULT"}
           /\ command_status \notin {"SEND", "READ_RESPONSE"} =>
                /\ Packet = "EOF"
                /\ command_status \in {"READ_COLUMN", "READ_STMT_PARAM",
                                       "READ_STMT_COLUMN"}
<1>1. /\ pos \in Nat /\ reply \in Reply /\ reply.cols \in Nat
      /\ reply.params \in Nat /\ reply.rows \in Nat
      /\ pos + 1 \in Nat
  BY DEF Reply, TypeOK, WireTypeOK
<1>2. Packet = PacketAt(reply, pos + 1)
  BY DEF Packet
<1>3. CASE command_status \in {"SEND", "READ_RESPONSE"}
  <2>1. pos = 0 /\ current_column = 0 /\ reply.kind \in {"OK", "ERR", "RESULT"}
    BY <1>3 DEF ResponseInv
  <2>2. Packet = reply.kind
    <3>1. CASE reply.kind = "RESULT"
      BY <1>1, <1>2, <2>1, <3>1, ResultPackets
    <3>2. CASE reply.kind # "RESULT"
      BY <1>1, <1>2, <2>1, <3>2, OtherPackets
    <3> QED BY <3>1, <3>2
  <2> QED BY <1>3, <2>1, <2>2
<1>4. CASE command_status = "READ_COLUMN"
  <2>1. reply.kind = "RESULT" /\ pos + 1 = reply.cols + 2
    BY <1>1, <1>4 DEF ResponseInv
  <2> QED BY <1>1, <1>2, <1>4, <2>1, ResultPackets
<1>5. CASE command_status = "READ_STMT_PARAM"
  <2>1. reply.kind = "PREPARE" /\ reply.params > 0 /\ pos + 1 = reply.params + 2
    BY <1>1, <1>5 DEF ResponseInv
  <2> QED BY <1>1, <1>2, <1>5, <2>1, PreparePackets
<1>6. CASE command_status = "READ_STMT_COLUMN"
  <2>1. reply.kind = "PREPARE" /\ reply.cols > 0 /\ pos + 1 = PacketCount(reply)
    BY <1>1, <1>6 DEF ResponseInv
  <2> QED BY <1>1, <1>2, <1>6, <2>1, PreparePackets
<1> QED BY <1>3, <1>4, <1>5, <1>6 DEF ResponseInv

LEMMA ReadResultStep ==
    ASSUME Inv, TypeOK', ReadResult
    PROVE  StreamInv' /\ WireReaderInv'
<1>1. Accept({"RESPONSE"}, {"RESULT"}) /\ HavePacket /\ InSequence
      /\ Peek = "RESPONSE" /\ Packet = "RESULT"
  BY DEF ReadResult, Accept
<1>2. /\ Together' /\ WireInv' /\ NumberInv' /\ StaleInv'
      /\ pos' = pos + 1 /\ reply' = reply /\ rows_taken' = rows_taken
      /\ stream' = "open"
  BY <1>1, AcceptKeeps DEF ReadResult, resultVars
<1>3. pos = 0 /\ current_column = 0 /\ reply.kind = "RESULT"
  BY <1>1, PhaseFacts, ResponsePackets DEF Inv
<1>4. status' = "BUSY" /\ rows_taken' = 0
  BY <1>1, <1>2, <1>3, PhaseFacts, LoginKinds DEF ReadResult
<1>5. StreamInv'
  BY <1>1, <1>2, <1>4, StreamKeeps DEF ReadResult
<1>6. queue' = <<"COLUMN">>
  BY <1>1, PhaseFacts DEF ReadResult
<1>7. reply.cols \in Nat /\ reply.cols > 0
  BY <1>3 DEF Inv, TypeOK, WireTypeOK, Reply, WireInv
<1>8. ColumnInv'
  BY <1>2, <1>3, <1>7 DEF ColumnInv, ReadResult
<1>9. ReaderInv'
  BY <1>4, <1>6, <1>8, ReaderExpects
<1> QED BY <1>2, <1>5, <1>9 DEF WireReaderInv

LEMMA ReadOkStep ==
    ASSUME Inv, TypeOK', ReadOk
    PROVE  StreamInv' /\ WireReaderInv'
<1>1. Accept({"RESPONSE"}, {"OK"}) /\ HavePacket /\ InSequence
      /\ Peek = "RESPONSE" /\ Packet = "OK"
  BY DEF ReadOk, Accept
<1>2. /\ Together' /\ WireInv' /\ NumberInv' /\ StaleInv'
      /\ pos' = pos + 1 /\ reply' = reply /\ stream' = "open"
  BY <1>1, AcceptKeeps DEF ReadOk, resultVars
<1>3. pos = 0 /\ reply.kind = "OK" /\ reply \in Reply
  BY <1>1, PhaseFacts, ResponsePackets DEF Inv
<1>4. StreamInv'
  BY <1>1, <1>2, StreamKeeps DEF ReadOk
<1>5. queue' = << >>
  BY <1>1, PhaseFacts DEF ReadOk
<1>6. pos' = PacketCount(reply') /\ pos' \in Nat /\ reply'.kind = "OK"
  BY <1>2, <1>3, CountFacts
<1>7. ReaderInv'
  BY <1>5, <1>6, ReaderOver DEF ReadOk
<1> QED BY <1>2, <1>4, <1>7 DEF WireReaderInv

(* An error packet is the whole of the answer.                               *)
LEMMA ErrPackets ==
    ASSUME Inv, HavePacket, InSequence, Packet = "ERR",
           Peek \in Responses \union {"HANDSHAKE"}
    PROVE  pos = 0 /\ reply.kind = "ERR" /\ reply \in Reply
<1>1. pos \in Nat /\ reply \in Reply /\ Packet = PacketAt(reply, pos + 1)
  BY PhaseFacts
<1>2. CASE Peek = "RESPONSE"
  BY <1>1, <1>2, PhaseFacts, ResponsePackets DEF Inv
<1>3. CASE Peek = "HANDSHAKE"
  <2>1. reply.kind \in GreetingKinds /\ pos = 0
    BY <1>3, PhaseFacts DEF HandshakeInv
  <2> QED BY <1>1, <2>1, OtherPackets DEF GreetingKinds
<1>4. CASE Peek = "PREPARE_RESPONSE"
  <2>1. reply.kind \in {"PREPARE", "ERR"} /\ pos = 0
    BY <1>4, PhaseFacts DEF PrepareResponseInv
  <2>2. reply.kind # "PREPARE"
    BY <1>1, <2>1, PreparePackets
  <2> QED BY <1>1, <2>1, <2>2
<1> QED BY <1>2, <1>3, <1>4 DEF Responses

LEMMA ReadErrStep ==
    ASSUME Inv, TypeOK', ReadErr
    PROVE  StreamInv' /\ WireReaderInv'
<1>1. Accept(Responses \union {"HANDSHAKE"}, {"ERR"}) /\ HavePacket
      /\ InSequence /\ Packet = "ERR" /\ Peek \in Responses \union {"HANDSHAKE"}
  BY DEF ReadErr, Accept
<1>2. pos = 0 /\ reply.kind = "ERR" /\ reply \in Reply
  BY <1>1, ErrPackets
<1>3. local_errcode' \in {local_errcode, "BAD_PROTOCOL"}
  BY DEF ReadErr
<1>4. Peek = "HANDSHAKE" => ~logged_in'
  BY <1>1, PhaseFacts DEF HandshakeInv, ReadErr
<1>5. /\ Together' /\ WireInv' /\ NumberInv' /\ StaleInv'
      /\ pos' = pos + 1 /\ reply' = reply /\ stream' = "open"
  BY <1>1, <1>3, <1>4, AcceptKeeps DEF ReadErr, resultVars
<1>6. status' \in {"IDLE", "CONNECT_FAILED"}
  BY DEF ReadErr
<1>7. StreamInv'
  BY <1>1, <1>5, <1>6, StreamKeeps DEF ReadErr, Responses
<1>8. pos' = PacketCount(reply') /\ pos' \in Nat /\ reply'.kind = "ERR"
  BY <1>2, <1>5, CountFacts
<1>9. ReaderInv'
  BY <1>6, <1>8, ReaderOver DEF ReadErr
<1> QED BY <1>5, <1>7, <1>9 DEF WireReaderInv

LEMMA ReadBadHandshakeStep ==
    ASSUME Inv, TypeOK', ReadBadHandshake
    PROVE  StreamInv' /\ WireReaderInv'
<1>1. Accept({"HANDSHAKE"}, {"BAD_HANDSHAKE", "NO_SCRAMBLE"}) /\ HavePacket
      /\ InSequence /\ Peek = "HANDSHAKE"
      /\ Packet \in {"BAD_HANDSHAKE", "NO_SCRAMBLE"}
  BY DEF ReadBadHandshake, Accept
<1>2. HandshakeInv /\ reply \in Reply
  BY <1>1, PhaseFacts
<1>3. reply.kind \in {"BAD_HANDSHAKE", "NO_SCRAMBLE"} /\ pos = 0
  BY <1>1, <1>2, PhaseFacts, OtherPackets DEF HandshakeInv, GreetingKinds
<1>4. /\ Together' /\ WireInv' /\ NumberInv' /\ StaleInv'
      /\ pos' = pos + 1 /\ reply' = reply /\ stream' = "open"
  BY <1>1, <1>2, AcceptKeeps DEF ReadBadHandshake, resultVars, HandshakeInv
<1>5. status' = "CONNECTING" /\ command_status' = "EOF"
  BY <1>2 DEF ReadBadHandshake, HandshakeInv
<1>6. StreamInv'
  BY <1>1, <1>4, <1>5, StreamKeeps DEF ReadBadHandshake
<1>7. pos' = PacketCount(reply') /\ pos' \in Nat /\ reply'.kind # "RESULT"
  BY <1>2, <1>3, <1>4, CountFacts DEF GreetingKinds
<1>8. queue' = << >>
  BY <1>1, PhaseFacts DEF ReadBadHandshake
<1>9. ReaderInv'
  BY <1>5, <1>7, <1>8, ReaderOver
<1> QED BY <1>4, <1>6, <1>9 DEF WireReaderInv

LEMMA ReadHandshakeStep ==
    ASSUME Inv, TypeOK', ReadHandshake
    PROVE  StreamInv' /\ WireReaderInv'
<1>1. HavePacket /\ InSequence /\ Peek = "HANDSHAKE"
  BY DEF ReadHandshake
<1>2. /\ Together /\ writes = 0 /\ stream = "open" /\ ~stale
      /\ local_errcode # "PACKET_OUT_OF_SEQUENCE"
  BY <1>1, AcceptedIsFresh DEF Together
<1>3. HandshakeInv
  BY <1>1, PhaseFacts
<1>4. PICK r \in LoginReplies : Answer(r, 1)
  BY DEF ReadHandshake
<1>5. /\ pos' = 0 /\ arrived' = 0 /\ base' = 1 /\ rows_taken' = 0
      /\ reply' \in LoginReplies /\ reply'.kind \in {"OK", "ERR"}
  BY <1>4, LoginKinds DEF Answer
<1>6. /\ status' = "CONNECTING" /\ stream' = "open" /\ writes' = 1 /\ ~stale'
      /\ packet_number' = 1 /\ command_status' = "READ_RESPONSE"
      /\ current_column' = 0 /\ ~in_row'
  BY <1>1, <1>2, <1>3 DEF ReadHandshake, HavePacket, HandshakeInv, NextNumber, resultVars
<1>7. queue' = <<"RESPONSE">>
  BY <1>1, PhaseFacts DEF ReadHandshake
<1>8. StreamInv'
  BY <1>1, <1>6, StreamKeeps DEF ReadHandshake
<1>9. WireInv'
  BY <1>5, <1>6, CountFacts DEF WireInv, TypeOK, WireTypeOK
<1>10. Peek' = "RESPONSE" /\ Len(queue') = 1
  BY <1>7, PeekNext
<1>11. ResponseInv'
  BY <1>5, <1>6 DEF ResponseInv
<1>12. ReaderInv'
  BY <1>5, <1>6, <1>10, <1>11 DEF ReaderInv
<1>13. Number' = 1
  BY <1>5 DEF Number
<1>14. NumberInv'
  BY <1>2, <1>5, <1>6, <1>13 DEF NumberInv, ReadHandshake
<1>15. StaleInv'
  BY <1>6 DEF StaleInv, RowInHandInv, SentOverInv
<1> QED BY <1>8, <1>9, <1>12, <1>14, <1>15 DEF WireReaderInv

LEMMA ReadEofStep ==
    ASSUME Inv, TypeOK', ReadEof
    PROVE  StreamInv' /\ WireReaderInv'
<1>1. Accept({"RESPONSE"}, {"EOF"}) /\ HavePacket /\ InSequence
      /\ Peek = "RESPONSE" /\ Packet = "EOF"
  BY DEF ReadEof, Accept
<1>2. /\ Together' /\ WireInv' /\ NumberInv' /\ StaleInv'
      /\ pos' = pos + 1 /\ reply' = reply /\ rows_taken' = rows_taken
      /\ stream' = "open"
  BY <1>1, AcceptKeeps DEF ReadEof, resultVars
<1>3. /\ command_status \in {"READ_COLUMN", "READ_STMT_PARAM",
                             "READ_STMT_COLUMN"}
      /\ ResponseInv /\ rows_taken = 0 /\ status = "BUSY"
      /\ pos \in Nat /\ reply \in Reply
  BY <1>1, PhaseFacts, ResponsePackets DEF Inv
<1>4. /\ reply.cols \in Nat /\ reply.params \in Nat /\ reply.rows \in Nat
  BY <1>3 DEF Reply
<1>5. Pop = << >> /\ \A t : Replace(t) = <<t>>
  BY <1>1, PhaseFacts
<1>6. StreamInv'
  <2>1. status' \in {"BUSY", "IDLE"}
    BY <1>3 DEF ReadEof, EofResponse
  <2> QED BY <1>1, <1>2, <2>1, StreamKeeps DEF ReadEof
<1>7. CASE command_status = "READ_COLUMN"
  <2>1. queue' = <<"ROW">> /\ command_status' = "READ_ROW" /\ status' = "BUSY"
    BY <1>3, <1>5, <1>7 DEF ReadEof, EofResponse, AfterEof
  <2>2. RowInv' /\ pos' > 0
    BY <1>2, <1>3, <1>4, <1>7, <2>1 DEF RowInv, ResponseInv
  <2>3. ReaderInv'
    BY <2>1, <2>2, ReaderRow
  <2> QED BY <1>2, <1>6, <2>3 DEF WireReaderInv
<1>8. CASE command_status = "READ_STMT_PARAM" /\ stmt.cols > 0
  <2>1. /\ queue' = <<"PREPARE_COLUMN">> /\ command_status' = "READ_STMT_COLUMN"
        /\ status' = "BUSY"
    BY <1>3, <1>5, <1>8 DEF ReadEof, EofResponse, AfterEof
  <2>2. PrepareColumnInv'
    BY <1>2, <1>3, <1>4, <1>8, <2>1
    DEF PrepareColumnInv, ResponseInv, Definitions, ReadEof
  <2>3. ReaderInv'
    BY <1>2, <1>3, <2>1, <2>2, ReaderExpects
  <2> QED BY <1>2, <1>6, <2>3 DEF WireReaderInv
<1>9. CASE \/ command_status = "READ_STMT_PARAM" /\ ~(stmt.cols > 0)
           \/ command_status = "READ_STMT_COLUMN"
  <2>1. queue' = << >> /\ command_status' = "EOF" /\ status' = "IDLE"
    BY <1>5, <1>9 DEF ReadEof, EofResponse, AfterEof
  <2>2. reply.kind = "PREPARE"
    BY <1>3, <1>9 DEF ResponseInv
  <2>3. pos + 1 = PacketCount(reply)
    BY <1>3, <1>4, <1>9, <2>2, CountFacts DEF ResponseInv, Definitions
  <2>4. ReaderInv'
    BY <1>2, <1>3, <2>1, <2>2, <2>3, ReaderOver
  <2> QED BY <1>2, <1>6, <2>4 DEF WireReaderInv
<1> QED BY <1>3, <1>7, <1>8, <1>9

LEMMA ReadRowStep ==
    ASSUME Inv, TypeOK', ReadRow
    PROVE  StreamInv' /\ WireReaderInv'
<1>1. Accept({"ROW"}, {"ROW", "EOF", "ERR"}) /\ HavePacket /\ InSequence
      /\ Peek = "ROW"
  BY DEF ReadRow, Accept
<1>3. /\ RowInv /\ pos \in Nat /\ reply \in Reply
      /\ Packet = PacketAt(reply, pos + 1)
  BY <1>1, PhaseFacts
<1>4. /\ reply.cols \in Nat /\ reply.rows \in Nat /\ rows_taken \in Nat
      /\ reply.kind = "RESULT" /\ reply.end = "EOF"
      /\ PacketCount(reply) = reply.cols + reply.rows + 3
      /\ pos = reply.cols + 2 + rows_taken /\ rows_taken <= reply.rows
  BY <1>3, CountFacts DEF Reply, RowInv, Inv, WireInv, TypeOK, WireTypeOK
<1>5. Pop = << >>
  BY <1>1, PhaseFacts
<1>8. in_row' => Unread' /\ queue' = << >>
  <2> SUFFICES ASSUME in_row' PROVE Unread' /\ queue' = << >>
    OBVIOUS
  <2>1. Packet # "EOF"
    BY DEF ReadRow
  <2>2. rows_taken < reply.rows
    BY <1>3, <1>4, <2>1, ResultPackets
  <2>3. pos' = pos + 1 /\ reply' = reply
    BY <1>1 DEF Accept
  <2> QED BY <1>3, <1>4, <1>5, <2>1, <2>2, <2>3 DEF ReadRow, Unread
<1>2. /\ Together' /\ WireInv' /\ NumberInv' /\ StaleInv'
      /\ pos' = pos + 1 /\ reply' = reply /\ rows_taken' = rows_taken
      /\ stream' = "open"
  BY <1>1, <1>8, AcceptKeeps DEF ReadRow
<1>6. CASE rows_taken < reply.rows
  <2>1. Packet = "ROW"
    BY <1>3, <1>4, <1>6, ResultPackets
  <2>2. queue' = << >> /\ command_status' = "ROW_IN_BUFFER" /\ status' = "IDLE"
    BY <1>5, <2>1 DEF ReadRow
  <2>3. NothingInv'
    BY <1>2, <1>4, <1>6, <2>2 DEF NothingInv
  <2>4. ReaderInv'
    BY <1>2, <1>4, <2>2, <2>3, ReaderNothing
  <2>5. StreamInv'
    BY <1>1, <1>2, <2>2
    DEF StreamInv, ReadRow, Return, Inv, HavePacket, Processing
  <2> QED BY <1>2, <2>4, <2>5 DEF WireReaderInv
<1>7. CASE rows_taken = reply.rows
  <2>1. Packet = "EOF"
    BY <1>3, <1>4, <1>7, ResultPackets
  <2>2. queue' = << >> /\ command_status' = "EOF" /\ status' = "IDLE"
    BY <1>3, <1>5, <2>1 DEF ReadRow, EofResponse, AfterEof, RowInv
  <2>3. ReaderInv'
    <3>1. pos' = PacketCount(reply') /\ pos' \in Nat
      BY <1>2, <1>3, <1>4, <1>7
    <3>2. rows_taken' = reply'.rows
      BY <1>2, <1>7
    <3> QED BY <2>2, <3>1, <3>2, ReaderOver
  <2>4. StreamInv'
    BY <1>1, <1>2, <2>2
    DEF StreamInv, ReadRow, Return, Inv, HavePacket, Processing
  <2> QED BY <1>2, <2>3, <2>4 DEF WireReaderInv
<1> QED BY <1>4, <1>6, <1>7

LEMMA ReadPrepareOkStep ==
    ASSUME Inv, TypeOK', ReadPrepareOk
    PROVE  StreamInv' /\ WireReaderInv'
<1>1. Accept({"PREPARE_RESPONSE"}, {"PREPARE_OK"}) /\ HavePacket /\ InSequence
      /\ Peek = "PREPARE_RESPONSE" /\ Packet = "PREPARE_OK"
  BY DEF ReadPrepareOk, Accept
<1>2. /\ Together' /\ WireInv' /\ NumberInv' /\ StaleInv'
      /\ pos' = pos + 1 /\ reply' = reply /\ rows_taken' = rows_taken
      /\ stream' = "open"
  BY <1>1, AcceptKeeps DEF ReadPrepareOk, resultVars
<1>3. /\ PrepareResponseInv /\ reply \in Reply /\ pos = 0
      /\ rows_taken = 0 /\ status = "BUSY"
      /\ Packet = PacketAt(reply, pos + 1)
  BY <1>1, PhaseFacts DEF PrepareResponseInv
<1>4. /\ reply.kind = "PREPARE"
      /\ reply.cols \in Nat /\ reply.params \in Nat
  BY <1>1, <1>3, OtherPackets DEF PrepareResponseInv, Reply
<1>5. Pop = << >> /\ \A t : Replace(t) = <<t>>
  BY <1>1, PhaseFacts
<1>6. /\ stmt'.params = reply.params /\ stmt'.cols = reply.cols
      /\ stmt'.current_param = 0 /\ stmt'.current_column = 0
  BY <1>3 DEF ReadPrepareOk, PrepareResponseInv, Inv, TypeOK, ResultTypeOK
<1>7. StreamInv'
  <2>1. status' \in {"BUSY", "IDLE"}
    BY <1>3 DEF ReadPrepareOk
  <2> QED BY <1>1, <1>2, <2>1, StreamKeeps DEF ReadPrepareOk
<1>8. CASE reply.params + reply.cols = 0
  <2>1. queue' = << >> /\ command_status' = "EOF" /\ status' = "IDLE"
    BY <1>5, <1>8 DEF ReadPrepareOk
  <2>2. PacketCount(reply) = 1
    BY <1>3, <1>4, <1>8, CountFacts DEF Definitions
  <2>3. ReaderInv'
    BY <1>2, <1>3, <1>4, <2>1, <2>2, ReaderOver
  <2> QED BY <1>2, <1>7, <2>3 DEF WireReaderInv
<1>9. CASE reply.params > 0
  <2>1. /\ queue' = <<"PREPARE_PARAMETER">>
        /\ command_status' = "READ_STMT_PARAM" /\ status' = "BUSY"
    BY <1>3, <1>4, <1>5, <1>9 DEF ReadPrepareOk
  <2>2. ParameterInv'
    BY <1>2, <1>3, <1>4, <1>6, <1>9, <2>1 DEF ParameterInv
  <2>3. ReaderInv'
    BY <1>2, <1>3, <2>1, <2>2, ReaderExpects
  <2> QED BY <1>2, <1>7, <2>3 DEF WireReaderInv
<1>10. CASE reply.params = 0 /\ reply.cols > 0
  <2>1. /\ queue' = <<"PREPARE_COLUMN">>
        /\ command_status' = "READ_STMT_COLUMN" /\ status' = "BUSY"
    BY <1>3, <1>4, <1>5, <1>10 DEF ReadPrepareOk
  <2>2. PrepareColumnInv'
    BY <1>2, <1>3, <1>4, <1>6, <1>10, <2>1 DEF PrepareColumnInv, Definitions
  <2>3. ReaderInv'
    BY <1>2, <1>3, <2>1, <2>2, ReaderExpects
  <2> QED BY <1>2, <1>7, <2>3 DEF WireReaderInv
<1> QED BY <1>4, <1>8, <1>9, <1>10

LEMMA ReadPrepareParameterStep ==
    ASSUME Inv, TypeOK', ReadPrepareParameter
    PROVE  StreamInv' /\ WireReaderInv'
<1>1. Accept({"PREPARE_PARAMETER"}, {"PARAM"}) /\ HavePacket /\ InSequence
      /\ Peek = "PREPARE_PARAMETER"
  BY DEF ReadPrepareParameter, Accept
<1>2. /\ Together' /\ WireInv' /\ NumberInv' /\ StaleInv'
      /\ pos' = pos + 1 /\ reply' = reply /\ rows_taken' = rows_taken
      /\ stream' = "open"
  BY <1>1, AcceptKeeps DEF ReadPrepareParameter, resultVars
<1>3. /\ ParameterInv /\ reply \in Reply /\ pos \in Nat
      /\ rows_taken = 0 /\ status = "BUSY"
  BY <1>1, PhaseFacts DEF ParameterInv
<1>4. /\ reply.cols \in Nat /\ reply.params \in Nat
      /\ stmt.current_param \in Nat
  BY <1>3 DEF Reply, Inv, TypeOK, ResultTypeOK
<1>5. \A t : Replace(t) = <<t>>
  BY <1>1, PhaseFacts
<1>6. /\ stmt'.params = reply.params /\ stmt'.cols = reply.cols
      /\ stmt'.current_param = stmt.current_param + 1
      /\ stmt'.current_column = 0 /\ stmt.params = reply.params
  BY <1>3 DEF ReadPrepareParameter, ParameterInv, Inv, TypeOK, ResultTypeOK
<1>7. status' = "BUSY" /\ command_status' = "READ_STMT_PARAM" /\ rows_taken' = 0
  BY <1>2, <1>3 DEF ReadPrepareParameter, ParameterInv
<1>8. StreamInv'
  BY <1>1, <1>2, <1>7, StreamKeeps DEF ReadPrepareParameter
<1>9. CASE stmt'.current_param = stmt.params
  <2>1. queue' = <<"RESPONSE">>
    BY <1>5, <1>9 DEF ReadPrepareParameter
  <2>2. ResponseInv'
    BY <1>2, <1>3, <1>4, <1>6, <1>7, <1>9 DEF ResponseInv, ParameterInv
  <2>3. ReaderInv'
    BY <1>7, <2>1, <2>2, ReaderExpects
  <2> QED BY <1>2, <1>8, <2>3 DEF WireReaderInv
<1>10. CASE stmt'.current_param # stmt.params
  <2>1. queue' = <<"PREPARE_PARAMETER">>
    BY <1>5, <1>10 DEF ReadPrepareParameter
  <2>2. ParameterInv'
    BY <1>2, <1>3, <1>4, <1>6, <1>7, <1>10 DEF ParameterInv
  <2>3. ReaderInv'
    BY <1>7, <2>1, <2>2, ReaderExpects
  <2> QED BY <1>2, <1>8, <2>3 DEF WireReaderInv
<1> QED BY <1>9, <1>10

LEMMA ReadPrepareColumnStep ==
    ASSUME Inv, TypeOK', ReadPrepareColumn
    PROVE  StreamInv' /\ WireReaderInv'
<1>1. Accept({"PREPARE_COLUMN"}, {"COLUMN"}) /\ HavePacket /\ InSequence
      /\ Peek = "PREPARE_COLUMN"
  BY DEF ReadPrepareColumn, Accept
<1>2. /\ Together' /\ WireInv' /\ NumberInv' /\ StaleInv'
      /\ pos' = pos + 1 /\ reply' = reply /\ rows_taken' = rows_taken
      /\ stream' = "open"
  BY <1>1, AcceptKeeps DEF ReadPrepareColumn, resultVars
<1>3. /\ PrepareColumnInv /\ reply \in Reply /\ pos \in Nat
      /\ rows_taken = 0 /\ status = "BUSY"
  BY <1>1, PhaseFacts DEF PrepareColumnInv
<1>4. /\ reply.cols \in Nat /\ reply.params \in Nat
      /\ stmt.current_column \in Nat /\ Definitions(reply.params) \in Nat
  BY <1>3 DEF Reply, Inv, TypeOK, ResultTypeOK, Definitions
<1>5. \A t : Replace(t) = <<t>>
  BY <1>1, PhaseFacts
<1>6. /\ stmt'.cols = reply.cols /\ stmt.cols = reply.cols
      /\ stmt'.current_column = stmt.current_column + 1
  BY <1>3 DEF ReadPrepareColumn, PrepareColumnInv, Inv, TypeOK, ResultTypeOK
<1>7. status' = "BUSY" /\ command_status' = "READ_STMT_COLUMN"
      /\ rows_taken' = 0
  BY <1>2, <1>3 DEF ReadPrepareColumn, PrepareColumnInv
<1>8. StreamInv'
  BY <1>1, <1>2, <1>7, StreamKeeps DEF ReadPrepareColumn
<1>9. CASE stmt'.current_column = stmt.cols
  <2>1. queue' = <<"RESPONSE">>
    BY <1>5, <1>9 DEF ReadPrepareColumn
  <2>2. reply.cols > 0 /\ Definitions(reply.cols) = reply.cols + 1
    BY <1>4, <1>6, <1>9 DEF Definitions
  <2>3. pos' + 1 = PacketCount(reply')
    BY <1>2, <1>3, <1>4, <1>6, <1>9, <2>2, CountFacts DEF PrepareColumnInv
  <2>4. ResponseInv'
    BY <1>2, <1>3, <1>7, <2>2, <2>3 DEF ResponseInv, PrepareColumnInv
  <2>5. ReaderInv'
    BY <1>7, <2>1, <2>4, ReaderExpects
  <2> QED BY <1>2, <1>8, <2>5 DEF WireReaderInv
<1>10. CASE stmt'.current_column # stmt.cols
  <2>1. queue' = <<"PREPARE_COLUMN">>
    BY <1>5, <1>10 DEF ReadPrepareColumn
  <2>2. PrepareColumnInv'
    BY <1>2, <1>3, <1>4, <1>6, <1>7, <1>10 DEF PrepareColumnInv
  <2>3. ReaderInv'
    BY <1>7, <2>1, <2>2, ReaderExpects
  <2> QED BY <1>2, <1>8, <2>3 DEF WireReaderInv
<1> QED BY <1>9, <1>10

(* A packet is refused while the reader is on the server's answer only when  *)
(* its number does not fit a signed char.                                    *)
LEMMA OutOfSequenceStep ==
    ASSUME Inv, TypeOK', OutOfSequence
    PROVE  StreamInv' /\ WireReaderInv'
<1> USE DEF Inv
<1>1. /\ pc \in Processing /\ Peek # "NONE"
      /\ stream = "open" /\ stream' = "open"
  BY DEF OutOfSequence, HavePacket, HaveRowBytes, StreamInv, netVars
<1>2. /\ queue' = << >> /\ command_status' = "READ_FAILED"
      /\ status' = status /\ writes' = writes /\ stale' = stale
      /\ reply' = reply /\ pos' = pos /\ arrived' = arrived /\ base' = base
      /\ rows_taken' = rows_taken /\ logged_in' = logged_in
      /\ in_row' = in_row
      /\ Together' = Together /\ Unread' = Unread
      /\ WireNumber' = WireNumber /\ Number' = Number
  BY DEF OutOfSequence, resultVars, netVars, wireVars, history, Together, Unread,
         WireNumber, Number
<1>3. StreamInv'
  BY <1>1, <1>2 DEF StreamInv, OutOfSequence, Return, Processing
<1>4. WireInv'
  BY <1>2 DEF WireInv
<1>5. /\ pos \in Nat /\ arrived \in Nat /\ PacketCount(reply) \in Nat
      /\ arrived <= PacketCount(reply)
  BY CountFacts DEF TypeOK, WireTypeOK, WireInv
<1>5a. queue # << >>
  BY <1>1, QueueTyped DEF TypeOK, ConTypeOK
<1>5b. ~stale => HavePacket /\ ~InSequence
  BY <1>5a DEF OutOfSequence, HaveRowBytes, StaleInv, RowInHandInv
<1>6. ~stale => pos < arrived /\ Unread /\ arrived > 0
  BY <1>5, <1>5b DEF HavePacket, Unread
<1>7. StaleInv'
  BY <1>2 DEF StaleInv, RowInHandInv, SentOverInv
<1>8. ReaderInv'
  <2>1. CASE Together
    <3>1. NothingInv'
      BY <1>2, <1>6, <2>1 DEF NothingInv, Together
    <3>2. status \in {"IDLE", "CONNECT_FAILED"} /\ Unread => pos > 0
      BY <2>1 DEF ReaderInv
    <3> QED BY <1>2, <3>1, <3>2, ReaderNothing
  <2>2. CASE ~Together
    BY <1>2, <2>2 DEF ReaderInv
  <2> QED BY <2>1, <2>2
<1>9. NumberInv'
  <2>1. CASE stale
    BY <1>2, <2>1 DEF NumberInv, Together
  <2>2. CASE ~stale
    <3>1. Together
      BY <1>1, <2>2 DEF Together
    <3>2. Peek # "HANDSHAKE"
      <4> SUFFICES ASSUME Peek = "HANDSHAKE" PROVE FALSE
        OBVIOUS
      <4>1. pos = 0 /\ base = 255 /\ packet_number = 0
        BY <3>1 DEF ReaderInv, HandshakeInv
      <4>2. WireNumber = 0 /\ NextNumber = 0
        BY <4>1 DEF WireNumber, NextNumber
      <4> QED BY <1>5b, <2>2, <4>2 DEF InSequence, SignedByte
    <3>3. /\ packet_number = Number /\ Number <= 127
          /\ pos > 0 /\ logged_in => Number > 0
      BY <1>1, <3>1, <3>2 DEF NumberInv
    <3>4. NextNumber = WireNumber /\ WireNumber \in 0..255
      BY <3>2, <3>3, NumberFacts DEF NextNumber
    <3>5. WireNumber >= 128
      BY <1>5b, <2>2, <3>4 DEF InSequence, SignedByte
    <3>6. Peek' = "NONE"
      BY <1>2, PeekNext
    <3> QED BY <1>1, <1>2, <1>6, <2>2, <3>3, <3>5, <3>6 DEF NumberInv
  <2> QED BY <2>1, <2>2 DEF TypeOK, WireTypeOK
<1> QED BY <1>3, <1>4, <1>7, <1>8, <1>9 DEF WireReaderInv

(* What is read in the bytes of a row belongs to an answer that was sent     *)
(* over.                                                                     *)
LEMMA MisreadStep ==
    ASSUME Inv, TypeOK', Misread
    PROVE  StreamInv' /\ WireReaderInv'
<1> USE DEF Inv
<1>1. pc \in Processing /\ Peek # "NONE" /\ in_row /\ stream = "open"
  BY DEF Misread, HaveRowBytes, StreamInv
<1>2. queue # << >> /\ stale /\ queue \in Seq(PacketTypes)
  BY <1>1, QueueTyped DEF TypeOK, ConTypeOK, StaleInv, RowInHandInv
<1>3. Unread /\ status = "BUSY" /\ Len(queue) <= 2
  BY <1>2 DEF StaleInv, SentOverInv
<1>4. /\ status' = status /\ command_status' = command_status
      /\ local_errcode' = local_errcode /\ in_row' = in_row /\ queue' = Pop
      /\ stream' = stream /\ writes' = writes /\ stale' = stale
      /\ reply' = reply /\ pos' = pos /\ arrived' = arrived /\ base' = base
      /\ ret' = ret /\ pc' = "misread" /\ logged_in' = logged_in
      /\ ~Together' /\ Unread' = Unread
  BY <1>2 DEF Misread, resultVars, netVars, wireVars, history, Together, Unread
<1>5. Len(Pop) <= 2
  <2>1. PICK n \in Nat : n = Len(queue)
    BY <1>2, LenProperties
  <2>2. n # 0 /\ n <= 2
    BY <1>2, <1>3, <2>1, EmptySeq
  <2>3. Len(SubSeq(queue, 1, n - 1)) = IF 1 <= n - 1 THEN n - 1 ELSE 0
    <3>1. \A i \in 1..n - 1 : queue[i] \in PacketTypes
      BY <1>2, <2>1, LenProperties
    <3>2. 1 \in Int /\ n - 1 \in Int /\ (n - 1) - 1 + 1 = n - 1
      BY <2>1
    <3> QED BY <3>1, <3>2, SubSeqProperties
  <2> QED BY <2>1, <2>2, <2>3 DEF Pop
<1>6. StreamInv'
  BY <1>1, <1>4 DEF StreamInv, Processing
<1>7. WireInv' /\ ReaderInv'
  BY <1>4 DEF WireInv, ReaderInv
<1>8. NumberInv'
  BY <1>2, <1>4 DEF NumberInv
<1>9. StaleInv'
  BY <1>1, <1>2, <1>3, <1>4, <1>5 DEF StaleInv, RowInHandInv, SentOverInv
<1> QED BY <1>6, <1>7, <1>8, <1>9 DEF WireReaderInv

-----------------------------------------------------------------------------
(* Sending a command                                                         *)

(* An idle connection whose answer has been read to the end has nothing      *)
(* outstanding.                                                              *)
LEMMA IdleAtEnd ==
    ASSUME Inv, stream = "open", status \in {"IDLE", "CONNECT_FAILED"}, ~Unread
    PROVE  /\ Together /\ ~stale /\ ~in_row /\ queue = << >> /\ writes = 0
           /\ pos = PacketCount(reply) /\ packet_number = Number
           /\ Number <= 127
           /\ local_errcode # "PACKET_OUT_OF_SEQUENCE"
<1> USE DEF Inv
<1>1. ~stale /\ ~in_row
  BY DEF StaleInv, RowInHandInv, SentOverInv
<1>2. Together
  BY <1>1 DEF Together
<1>3. writes = 0
  BY <1>2 DEF WireInv
<1>4. /\ pos \in Nat /\ arrived \in Nat /\ PacketCount(reply) \in Nat
      /\ reply \in Reply /\ reply.cols \in Nat /\ reply.rows \in Nat
      /\ rows_taken \in Nat
  BY CountFacts DEF TypeOK, WireTypeOK, Reply
<1>5. pos = PacketCount(reply)
  BY <1>4 DEF WireInv, Unread
<1>6. Peek # "ROW"
  <2> SUFFICES ASSUME Peek = "ROW" PROVE FALSE
    OBVIOUS
  <2>1. RowInv
    BY <1>2 DEF ReaderInv
  <2>2. PacketCount(reply) = reply.cols + reply.rows + 3
    BY <1>4, <2>1, CountFacts DEF RowInv
  <2>3. pos = reply.cols + 2 + rows_taken /\ rows_taken <= reply.rows
    BY <2>1 DEF RowInv
  <2> QED BY <1>4, <1>5, <2>2, <2>3
<1>7. Peek = "NONE"
  BY <1>2, <1>6 DEF ReaderInv
<1>8. queue = << >>
  BY <1>7, QueueTyped DEF TypeOK, ConTypeOK
<1>9. packet_number = Number /\ Number <= 127
  BY <1>2, <1>7 DEF NumberInv
<1>10. local_errcode # "PACKET_OUT_OF_SEQUENCE"
  BY <1>1 DEF NumberInv
<1> QED BY <1>1, <1>2, <1>3, <1>5, <1>8, <1>9, <1>10

(* The replies a command can have.                                           *)
LEMMA AnswerKinds ==
    ASSUME NoRowErrors, NEW command \in Commands, NEW r \in Answers(command)
    PROVE  /\ r \in Reply
           /\ r.kind = "RESULT" => r.cols > 0 /\ r.end = "EOF"
           /\ command = "STMT_CLOSE" => r.kind = "NONE"
           /\ command = "STMT_PREPARE" => r.kind \in {"PREPARE", "ERR"}
           /\ command \notin {"STMT_CLOSE", "STMT_PREPARE"} =>
                r.kind \in {"OK", "ERR", "RESULT"}
<1>1. r \in Reply
  BY AnswersTyped
<1>2. CASE command = "STMT_CLOSE"
  BY <1>1, <1>2 DEF Answers, NoReply, Simple
<1>3. CASE command = "STMT_PREPARE"
  BY <1>1, <1>3, RepliesAssumption DEF Answers
<1>4. CASE command \notin {"STMT_CLOSE", "STMT_PREPARE"}
  BY <1>1, <1>4, RepliesAssumption DEF Answers, NoRowErrors
<1> QED BY <1>2, <1>3, <1>4

LEMMA SendStale ==
    ASSUME Inv, TypeOK',
           NEW command \in Commands, SendOk(command), Unread \/ in_row,
           status \in {"IDLE", "CONNECT_FAILED"}, logged_in
    PROVE  WireReaderInv'
<1> USE DEF Inv
<1>0. Unread
  BY DEF StaleInv, RowInHandInv
<1>1. /\ stale' /\ in_row' = in_row /\ pos' = pos /\ reply' = reply /\ arrived' = arrived
      /\ base' = base /\ packet_number' = 0 /\ command_status' = "SEND"
      /\ local_errcode' = "OK" /\ ~Together'
      /\ Unread' = Unread /\ WireNumber' = WireNumber
      /\ status' = "BUSY" /\ queue' = Expect(command)
  BY DEF SendOk, ResetResult, wireVars, Together, Unread, WireNumber
<1>2. ~in_row => WireNumber \in 2..128
  <2>1. CASE stale
    BY <2>1 DEF StaleInv, RowInHandInv, SentOverInv
  <2>2. CASE ~stale
    <3>1. Together
      BY <2>2 DEF Together, SendOk
    <3>2. pos > 0 /\ Peek # "HANDSHAKE"
      BY <1>0, <3>1 DEF ReaderInv
    <3>3. Number <= 127 /\ Number > 0
      BY <3>1, <3>2 DEF NumberInv
    <3>4. Number \in 0..255 /\ WireNumber = Number + 1
      BY <3>3, NumberFacts
    <3> QED BY <3>3, <3>4
  <2> QED BY <2>1, <2>2
<1>3. WireInv'
  BY <1>1 DEF WireInv
<1>4. ReaderInv'
  BY <1>1 DEF ReaderInv
<1>5. NumberInv'
  BY <1>1 DEF NumberInv
<1>2a. Len(queue) <= 1
  BY DEF StaleInv, SentOverInv, ReaderInv, Together, SendOk
<1>2b. Len(Expect(command)) <= 2
  <2>1. queue \in Seq(PacketTypes) /\ Len(queue) \in Nat
    BY DEF TypeOK, ConTypeOK
  <2> QED BY <1>2a, <2>1 DEF Expect, Push
<1>6. StaleInv'
  BY <1>0, <1>1, <1>2, <1>2b DEF StaleInv, RowInHandInv, SentOverInv
<1> QED BY <1>3, <1>4, <1>5, <1>6 DEF WireReaderInv

LEMMA SendFresh ==
    ASSUME Inv, TypeOK', NoRowErrors,
           NEW command \in Commands, SendOk(command), ~Unread,
           status \in {"IDLE", "CONNECT_FAILED"},
           command = "STMT_PREPARE" => stmt' = FreshStmt
    PROVE  WireReaderInv'
<1>1. /\ Together /\ ~stale /\ ~in_row /\ queue = << >> /\ writes = 0
  BY IdleAtEnd DEF SendOk
<1>2. PICK r \in Answers(command) : Answer(r, 0)
  BY <1>1 DEF SendOk
<1>3. /\ pos' = 0 /\ arrived' = 0 /\ base' = 0 /\ rows_taken' = 0
      /\ reply' = r /\ r \in Reply
  BY <1>2, AnswersTyped DEF Answer
<1>4. /\ stream' = "open" /\ ~stale' /\ status' = "BUSY" /\ writes' = 1
      /\ packet_number' = 0 /\ command_status' = "SEND"
      /\ local_errcode' = "OK" /\ current_column' = 0 /\ ~in_row'
  BY <1>1 DEF SendOk, ResetResult
<1>5. Number' = 0
  BY <1>3 DEF Number
<1>6. WireInv'
  BY <1>3, <1>4, AnswerKinds, CountFacts DEF WireInv
<1>7. NumberInv'
  BY <1>3, <1>4, <1>5 DEF NumberInv
<1>8. StaleInv'
  BY <1>4 DEF StaleInv, RowInHandInv, SentOverInv
<1>9. \A t : Push(t) = <<t>>
  <2>1. queue \in Seq(PacketTypes) /\ Len(queue) <= 1
    BY <1>1 DEF Inv, TypeOK, ConTypeOK
  <2> QED BY <1>1, <2>1, QueueOne
<1>10. ReaderInv'
  <2>1. CASE command = "STMT_CLOSE"
    <3>1. queue' = << >>
      BY <1>1, <2>1 DEF SendOk, Expect
    <3>2. NothingInv'
      BY <1>3, <1>4, <2>1, AnswerKinds DEF NothingInv
    <3> QED BY <1>4, <3>1, <3>2, ReaderNothing
  <2>2. CASE command = "STMT_PREPARE"
    <3>1. queue' = <<"PREPARE_RESPONSE">>
      BY <1>9, <2>2 DEF SendOk, Expect
    <3>2. PrepareResponseInv'
      BY <1>3, <1>4, <2>2, AnswerKinds DEF PrepareResponseInv, FreshStmt
    <3> QED BY <1>3, <1>4, <3>1, <3>2, ReaderExpects
  <2>3. CASE command \notin {"STMT_CLOSE", "STMT_PREPARE"}
    <3>1. queue' = <<"RESPONSE">>
      BY <1>9, <2>3 DEF SendOk, Expect
    <3>2. ResponseInv'
      BY <1>3, <1>4, <2>3, AnswerKinds DEF ResponseInv
    <3> QED BY <1>3, <1>4, <3>1, <3>2, ReaderExpects
  <2> QED BY <2>1, <2>2, <2>3
<1> QED BY <1>6, <1>7, <1>8, <1>10 DEF WireReaderInv

LEMMA SendFailStep ==
    ASSUME Inv, TypeOK', SendFail
    PROVE  WireReaderInv'
<1> USE DEF Inv
<1>1. /\ stream' = "closed" /\ stale' = stale /\ pos' = pos /\ reply' = reply
      /\ arrived' = arrived /\ base' = base /\ queue' = << >>
      /\ command_status' = "SEND_FAILED" /\ local_errcode' = "NET_WRITE_ERROR"
      /\ in_row' = in_row
      /\ ~Together' /\ Unread' = Unread /\ WireNumber' = WireNumber
  BY DEF SendFail, ResetResult, netVars, wireVars, Together, Unread, WireNumber
<1>2. WireInv'
  BY <1>1 DEF WireInv
<1>3. ReaderInv' /\ NumberInv'
  BY <1>1 DEF ReaderInv, NumberInv
<1>4. StaleInv'
  BY <1>1 DEF StaleInv, RowInHandInv, SentOverInv
<1> QED BY <1>2, <1>3, <1>4 DEF WireReaderInv

(* Every call that goes through attachsql_command_send.                      *)
LEMMA CommandStep ==
    ASSUME Inv, TypeOK', NoRowErrors,
           NEW command \in Commands, NEW failed \in {"TRUE", "FALSE"},
           Command(command, failed),
           command = "STMT_PREPARE" => stmt' = FreshStmt
    PROVE  StreamInv' /\ WireReaderInv'
<1>1. /\ pc' = "app" /\ ret' # "ROW_READY" /\ logged_in
      /\ status \in {"IDLE", "CONNECT_FAILED", "NET_ERROR"}
  BY DEF Command, Call
<1>2. CASE SendOk(command)
  <2>1. status \in {"IDLE", "CONNECT_FAILED"}
    BY <1>1, <1>2 DEF Inv, StreamInv, SendOk
  <2>2. WireReaderInv'
    BY <1>1, <1>2, <2>1, SendStale, SendFresh
  <2>3. StreamInv'
    BY <1>1, <1>2 DEF StreamInv, SendOk, Processing
  <2> QED BY <2>2, <2>3
<1>3. CASE SendFail
  <2>1. stream' = "closed" /\ status' = "NET_ERROR" /\ queue' = << >>
    BY <1>3 DEF Inv, StreamInv, SendFail, netVars
  <2>2. StreamInv'
    BY <1>1, <2>1 DEF StreamInv, Processing
  <2> QED BY <1>3, <2>2, SendFailStep
<1> QED BY <1>2, <1>3 DEF Command

(* The query that waited for the connection is sent by                       *)
(* attachsql_connect_query.                                                  *)
LEMMA ReportConnectedQueryStep ==
    ASSUME Inv, TypeOK', NoRowErrors, ReportConnectedQuery
    PROVE  StreamInv' /\ WireReaderInv'
<1>1. /\ status = "IDLE" /\ command_status = "CONNECTED" /\ stream = "open"
      /\ pc' = "app" /\ ret' = "PROCESSING"
  BY DEF ReportConnectedQuery, ReportIdle, Inv, StreamInv
<1>2. PICK c \in Commands :
        SendOk(c) /\ (c = "STMT_PREPARE" => stmt' = FreshStmt)
  <2>1. CASE pending_statement
    BY <2>1 DEF ReportConnectedQuery, Commands
  <2>2. CASE ~pending_statement
    BY <2>2 DEF ReportConnectedQuery, Commands
  <2> QED BY <2>1, <2>2
<1>3. ~Unread
  <2>1. Together
    BY <1>1 DEF Inv, StaleInv, RowInHandInv, SentOverInv, Together
  <2>2. Peek = "NONE"
    BY <1>1, <2>1 DEF Inv, ReaderInv, RowInv
  <2> QED BY <1>1, <2>1, <2>2 DEF Inv, ReaderInv, NothingInv
<1>4. WireReaderInv'
  BY <1>1, <1>2, <1>3, SendFresh
<1>5. StreamInv'
  BY <1>1, <1>2 DEF StreamInv, SendOk, Processing
<1> QED BY <1>4, <1>5

LEMMA StatementExecuteBadStep ==
    ASSUME Inv, TypeOK', StatementExecuteBad
    PROVE  StreamInv' /\ WireReaderInv'
<1> USE DEF Inv
<1>1. /\ status = "IDLE" /\ stream = "open" /\ queue' = << >>
      /\ command_status' = "SEND_FAILED"
      /\ local_errcode' # "PACKET_OUT_OF_SEQUENCE"
      /\ packet_number' = packet_number
      /\ status' = status /\ stream' = stream /\ writes' = writes
      /\ stale' = stale /\ reply' = reply /\ pos' = pos /\ arrived' = arrived
      /\ base' = base /\ in_row' = in_row /\ logged_in' = logged_in /\ pc' = "app" /\ ret' = "FALSE"
  BY DEF StatementExecuteBad, Call, StreamInv, resultVars, netVars, wireVars, history
<1>2. /\ Together' = Together /\ Unread' = Unread
      /\ Number' = Number /\ WireNumber' = WireNumber
  BY <1>1 DEF Together, Unread, Number, WireNumber
<1>3. Peek' = "NONE"
  BY <1>1, PeekNext
<1>4. StreamInv'
  BY <1>1 DEF StreamInv, Processing
<1>5. WireInv'
  BY <1>1, <1>2 DEF WireInv
<1>6. StaleInv'
  BY <1>1, <1>2 DEF StaleInv, RowInHandInv, SentOverInv
<1>7. ReaderInv'
  <2>1. CASE Together
    <3>1. NothingInv'
      BY <1>1 DEF NothingInv
    <3>2. Unread => pos > 0
      BY <1>1, <2>1 DEF ReaderInv
    <3> QED BY <1>1, <1>2, <3>1, <3>2, ReaderNothing
  <2>2. CASE ~Together
    BY <1>2, <2>2 DEF ReaderInv
  <2> QED BY <2>1, <2>2
<1>8. NumberInv'
  <2>1. CASE Together
    <3>1. Peek # "HANDSHAKE"
      BY <1>1, <2>1 DEF ReaderInv
    <3> QED BY <1>1, <1>2, <1>3, <2>1, <3>1 DEF NumberInv
  <2>2. CASE ~Together
    BY <1>1, <1>2, <2>2 DEF NumberInv
  <2> QED BY <2>1, <2>2
<1> QED BY <1>4, <1>5, <1>6, <1>7, <1>8 DEF WireReaderInv

(* The next result continues the numbering of the one before.                *)
LEMMA NextResultStep ==
    ASSUME Inv, TypeOK', NoRowErrors, NextResult
    PROVE  StreamInv' /\ WireReaderInv'
<1>1. /\ Together /\ ~stale /\ queue = << >> /\ writes = 0
      /\ pos = PacketCount(reply) /\ packet_number = Number /\ Number <= 127
      /\ local_errcode # "PACKET_OUT_OF_SEQUENCE"
  BY IdleAtEnd DEF NextResult
<1>2. PICK r \in QueryReplies : Answer(r, (base + PacketCount(reply)) % 256)
  BY DEF NextResult
<1>3. /\ pos' = 0 /\ arrived' = 0 /\ rows_taken' = 0 /\ reply' = r
      /\ r \in Reply /\ r.kind \in {"OK", "ERR", "RESULT"}
      /\ r.kind = "RESULT" => r.cols > 0 /\ r.end = "EOF"
  BY <1>2, RepliesTyped, RepliesAssumption DEF Answer, NoRowErrors
<1>4. /\ stream' = "open" /\ ~stale' /\ status' = "BUSY" /\ writes' = 0
      /\ packet_number' = packet_number /\ command_status' = "READ_RESPONSE"
      /\ local_errcode' = local_errcode /\ current_column' = 0
      /\ pc' = "app" /\ ret' = "PROCESSING" /\ ~in_row'
  BY <1>1 DEF NextResult, ResetResult, netVars
<1>5. Number' = Number
  <2>1. base' = (base + pos) % 256
    BY <1>1, <1>2 DEF Answer
  <2>2. base + pos \in Nat
    BY DEF Inv, TypeOK, WireTypeOK
  <2>3. (((base + pos) % 256) + 0) % 256 = (base + pos) % 256
    BY <2>2, ModNext
  <2> QED BY <1>3, <2>1, <2>3 DEF Number
<1>6. WireInv'
  BY <1>3, <1>4, CountFacts DEF WireInv
<1>7. NumberInv'
  BY <1>1, <1>3, <1>4, <1>5 DEF NumberInv
<1>8. StaleInv'
  BY <1>4 DEF StaleInv, RowInHandInv, SentOverInv
<1>9. queue' = <<"RESPONSE">>
  <2>1. queue \in Seq(PacketTypes) /\ Len(queue) <= 1
    BY <1>1 DEF Inv, TypeOK, ConTypeOK
  <2> QED BY <1>1, <2>1, QueueOne DEF NextResult
<1>10. ResponseInv'
  BY <1>3, <1>4 DEF ResponseInv
<1>11. ReaderInv'
  BY <1>3, <1>4, <1>9, <1>10, ReaderExpects
<1>12. StreamInv'
  BY <1>4 DEF StreamInv, Processing
<1> QED BY <1>6, <1>7, <1>8, <1>11, <1>12 DEF WireReaderInv

(* attachsql_get_next_row for a row that was reported.                       *)
LEMMA GetNextRowStep ==
    ASSUME Inv, TypeOK', GetNextRow,
           status = "IDLE", command_status = "ROW_IN_BUFFER",
           UNCHANGED <<netVars, wireVars, stale, logged_in>>
    PROVE  WireReaderInv'
<1> USE DEF netVars, wireVars
<1>1. ~stale /\ stream = "open" /\ Together
  BY DEF Inv, StaleInv, RowInHandInv, SentOverInv, StreamInv, Together
<1>2. Peek = "NONE"
  BY <1>1 DEF Inv, ReaderInv, RowInv
<1>3. queue = << >>
  BY <1>2, QueueTyped DEF Inv, TypeOK, ConTypeOK
<1>4. /\ reply.kind = "RESULT" /\ pos = reply.cols + 3 + rows_taken
      /\ rows_taken < reply.rows
  BY <1>1, <1>2 DEF Inv, ReaderInv, NothingInv
<1>5. /\ reply.cols \in Nat /\ reply.rows \in Nat /\ rows_taken \in Nat
  BY DEF Inv, TypeOK, WireTypeOK, Reply
<1>6. /\ command_status' = "READ_ROW" /\ status' = "IDLE"
      /\ packet_number' = packet_number /\ local_errcode' = local_errcode
      /\ rows_taken' = rows_taken + 1 /\ ~in_row'
  BY DEF GetNextRow
<1>7. /\ Together' = Together /\ Unread' = Unread
      /\ Number' = Number /\ WireNumber' = WireNumber
  BY DEF Together, Unread, Number, WireNumber
<1>8. queue' = <<"ROW">>
  <2>1. queue \in Seq(PacketTypes) /\ Len(queue) <= 1
    BY <1>3 DEF Inv, TypeOK, ConTypeOK
  <2> QED BY <1>3, <2>1, QueueOne DEF GetNextRow
<1>9. RowInv' /\ pos' > 0
  BY <1>4, <1>5, <1>6 DEF RowInv
<1>10. ReaderInv'
  BY <1>6, <1>8, <1>9, ReaderRow
<1>11. WireInv'
  BY <1>6, <1>7 DEF Inv, WireInv
<1>12. NumberInv'
  <2>1. /\ packet_number = Number /\ Number <= 127
        /\ pos > 0 /\ logged_in => Number > 0
        /\ local_errcode # "PACKET_OUT_OF_SEQUENCE"
    BY <1>1, <1>2 DEF Inv, NumberInv
  <2> QED BY <1>6, <1>7, <2>1 DEF NumberInv
<1>13. StaleInv'
  BY <1>1, <1>6 DEF StaleInv, RowInHandInv, SentOverInv
<1> QED BY <1>10, <1>11, <1>12, <1>13 DEF WireReaderInv

-----------------------------------------------------------------------------
(* The network                                                               *)

LEMMA StartConnectStep ==
    ASSUME Inv, TypeOK', StartConnect, pc \in {"app", "report"}
    PROVE  StreamInv' /\ WireReaderInv'
<1> USE DEF Inv, wireVars, history, resultVars
<1>1. stream = "none" /\ ret # "ROW_READY"
  BY DEF StartConnect, StreamInv
<1>2. /\ stream' \in {"none", "resolving", "connecting"}
      /\ stream' \in {"resolving", "connecting"} => status' = "CONNECTING"
      /\ status' \in {"CONNECTING", "CONNECT_FAILED"}
      /\ local_errcode' \in {"OK", "OUT_OF_MEMORY_ERROR", "DNS_ERROR",
                             "CONNECT_ERROR"}
      /\ ~stale' /\ ~in_row'
  BY <1>1 DEF StartConnect, StreamInv
<1>3. StreamInv'
  BY <1>1, <1>2 DEF StreamInv, StartConnect, Processing
<1>4. ~Together'
  BY <1>2 DEF Together
<1>5. WireInv'
  BY <1>4 DEF WireInv, StartConnect
<1>6. ReaderInv' /\ NumberInv' /\ StaleInv'
  BY <1>2, <1>4 DEF ReaderInv, NumberInv, StaleInv, RowInHandInv, SentOverInv
<1> QED BY <1>3, <1>5, <1>6 DEF WireReaderInv

LEMMA OnResolvedStep ==
    ASSUME Inv, TypeOK', OnResolved
    PROVE  StreamInv' /\ WireReaderInv'
<1> USE DEF Inv, wireVars, history, resultVars
<1>1. /\ stream' \in {"none", "connecting"}
      /\ stream' = "connecting" => status' = "CONNECTING"
      /\ status' \in {"CONNECTING", "CONNECT_FAILED"}
      /\ local_errcode' \in {"OK", "OUT_OF_MEMORY_ERROR", "DNS_ERROR",
                             "CONNECT_ERROR"}
      /\ ~stale' /\ ~in_row'
  BY DEF OnResolved, StreamInv
<1>2. StreamInv'
  BY <1>1 DEF StreamInv, OnResolved, Processing
<1>3. ~Together'
  BY <1>1 DEF Together
<1>4. WireInv'
  BY <1>3 DEF WireInv, OnResolved
<1>5. ReaderInv' /\ NumberInv' /\ StaleInv'
  BY <1>1, <1>3 DEF ReaderInv, NumberInv, StaleInv, RowInHandInv, SentOverInv
<1> QED BY <1>2, <1>4, <1>5 DEF WireReaderInv

LEMMA OnConnectStep ==
    ASSUME Inv, TypeOK', OnConnect
    PROVE  StreamInv' /\ WireReaderInv'
<1>1. /\ status = "CONNECTING" /\ queue = << >> /\ writes = 0
      /\ command_status = "EOF" /\ packet_number = 0 /\ current_column = 0
      /\ ~in_row /\ ~stale /\ ~logged_in
      /\ local_errcode \in {"OK", "OUT_OF_MEMORY_ERROR", "DNS_ERROR",
                            "CONNECT_ERROR"}
      /\ pc \in {"connecting", "loop"} /\ ret # "ROW_READY"
  BY DEF OnConnect, Inv, StreamInv
<1>2. /\ writes' = 0 /\ command_status' = "EOF" /\ packet_number' = 0
      /\ current_column' = 0 /\ ~in_row' /\ ~stale' /\ ~logged_in'
      /\ pc' = pc /\ ret' = ret
  BY <1>1 DEF OnConnect, resultVars
<1>3. CASE stream' = "open"
  <2>1. PICK r \in HandshakeReplies : Answer(r, 255)
    BY <1>3 DEF OnConnect
  <2>2. /\ reply' = r /\ pos' = 0 /\ arrived' = 0 /\ base' = 255
        /\ rows_taken' = 0 /\ r \in Reply
        /\ r.kind \in GreetingKinds
    BY <2>1, RepliesTyped, RepliesAssumption DEF Answer, Simple
  <2>3. status' = "CONNECTING" /\ local_errcode' = local_errcode
        /\ queue' = Push("HANDSHAKE")
    BY <1>1, <1>3 DEF OnConnect
  <2>4. queue' = <<"HANDSHAKE">>
    <3>1. queue \in Seq(PacketTypes) /\ Len(queue) <= 1
      BY <1>1 DEF Inv, TypeOK, ConTypeOK
    <3> QED BY <1>1, <2>3, <3>1, QueueOne
  <2>5. Peek' = "HANDSHAKE" /\ Len(queue') = 1
    BY <2>4, PeekNext
  <2>6. HandshakeInv'
    BY <1>2, <2>2, <2>3 DEF HandshakeInv
  <2>7. ReaderInv'
    <3>1. rows_taken' = 0 /\ status' = "CONNECTING"
      BY <2>2, <2>3
    <3> QED BY <2>5, <2>6, <3>1 DEF ReaderInv
  <2>8. WireInv'
    BY <1>2, <2>2, CountFacts DEF WireInv, GreetingKinds
  <2>9. NumberInv' /\ StaleInv'
    BY <1>1, <1>2, <2>3, <2>5 DEF NumberInv, StaleInv, RowInHandInv, SentOverInv
  <2>10. StreamInv'
    BY <1>1, <1>2, <1>3, <2>3 DEF StreamInv, Processing
  <2> QED BY <2>7, <2>8, <2>9, <2>10 DEF WireReaderInv
<1>4. CASE stream' # "open"
  <2>1. /\ stream' = "none" /\ status' = "CONNECT_FAILED"
        /\ local_errcode' = "CONNECT_ERROR" /\ queue' = << >>
        /\ UNCHANGED wireVars
    BY <1>1, <1>4 DEF OnConnect
  <2>2. ~Together'
    BY <2>1 DEF Together
  <2>3. WireInv'
    BY <2>1, <2>2 DEF WireInv, Inv, wireVars
  <2>4. ReaderInv' /\ NumberInv' /\ StaleInv'
    BY <1>2, <2>1, <2>2 DEF ReaderInv, NumberInv, StaleInv, RowInHandInv, SentOverInv
  <2>5. StreamInv'
    BY <1>1, <1>2, <2>1 DEF StreamInv, Processing
  <2> QED BY <2>3, <2>4, <2>5 DEF WireReaderInv
<1> QED BY <1>3, <1>4

LEMMA NetErrorStep ==
    ASSUME Inv, TypeOK', pc = "loop", pc' \in {"loop", "aborted"},
           \/ NetError("NET_WRITE_ERROR", "SEND_FAILED")
           \/ NetError("NET_READ_ERROR", "READ_FAILED")
    PROVE  StreamInv' /\ WireReaderInv'
<1> USE DEF Inv
<1>1. /\ stream' = "closed" /\ status' = "NET_ERROR" /\ queue' = << >>
      /\ command_status' \in {"SEND_FAILED", "READ_FAILED"}
      /\ local_errcode' \in {"NET_WRITE_ERROR", "NET_READ_ERROR"}
      /\ stale' = stale /\ reply' = reply /\ pos' = pos /\ arrived' = arrived
      /\ base' = base /\ in_row' = in_row /\ ret' = ret /\ ret # "ROW_READY"
      /\ ~Together' /\ Unread' = Unread /\ WireNumber' = WireNumber
  BY DEF NetError, resultVars, wireVars, history, Together, Unread, WireNumber, StreamInv
<1>2. StreamInv'
  BY <1>1 DEF StreamInv, Processing
<1>3. WireInv'
  BY <1>1 DEF WireInv
<1>4. ReaderInv' /\ NumberInv'
  BY <1>1 DEF ReaderInv, NumberInv
<1>5. StaleInv'
  BY <1>1 DEF StaleInv, RowInHandInv, SentOverInv
<1> QED BY <1>2, <1>3, <1>4, <1>5 DEF WireReaderInv

(* A write that completes with no packet expected ends a command that has no *)
(* answer.                                                                   *)
LEMMA OnWriteStep ==
    ASSUME Inv, TypeOK', OnWrite
    PROVE  StreamInv' /\ WireReaderInv'
<1> USE DEF Inv
<1>1. /\ pc = "loop" /\ stream = "open" /\ writes > 0 /\ writes' = writes - 1
      /\ queue' = queue /\ packet_number' = packet_number
      /\ local_errcode' = local_errcode /\ current_column' = current_column
      /\ column_count' = column_count /\ in_row' = in_row /\ stmt' = stmt /\ stream' = stream
      /\ reply' = reply /\ pos' = pos /\ arrived' = arrived /\ base' = base
      /\ pc' = pc /\ ret' = ret /\ rows_taken' = rows_taken
      /\ stale' = stale /\ logged_in' = logged_in /\ writes \in Nat
  BY DEF OnWrite, resultVars, wireVars, history, TypeOK, WireTypeOK
<1>2. /\ Peek' = Peek /\ Together' = Together /\ Unread' = Unread
      /\ Number' = Number /\ WireNumber' = WireNumber
      /\ PacketCount(reply') = PacketCount(reply)
  BY <1>1 DEF Peek, Together, Unread, Number, WireNumber
<1>3. CASE Peek = "NONE"
  <2>1. status' = "IDLE" /\ command_status' = "EOF"
    BY <1>3 DEF OnWrite, WriteCompletes
  <2>2. StreamInv'
    BY <1>1, <2>1 DEF StreamInv, Processing
  <2>3. CASE stale
    <3>1. ~Together' /\ queue' = << >>
      BY <1>1, <1>3, <2>3, QueueTyped DEF Together, TypeOK, ConTypeOK
    <3>2. WireInv' /\ ReaderInv'
      BY <1>1, <1>2, <2>1, <2>3, <3>1 DEF WireInv, ReaderInv
    <3>3. NumberInv' /\ StaleInv'
      BY <1>1, <1>2, <2>1, <2>3, <3>1
      DEF NumberInv, StaleInv, RowInHandInv, SentOverInv
    <3> QED BY <2>2, <3>2, <3>3 DEF WireReaderInv
  <2>4. CASE ~stale
    <3>1. Together
      BY <1>1, <2>4 DEF Together
    <3>2. /\ writes' = 0 /\ ~(arrived > 0)
          /\ status \notin {"IDLE", "CONNECT_FAILED"}
      BY <1>1, <3>1 DEF WireInv
    <3>3. WireInv'
      BY <1>1, <1>2, <3>2 DEF WireInv
    <3>4. \/ /\ command_status \in {"EOF", "CONNECTED"} /\ ~Unread
             /\ reply.kind = "RESULT" => rows_taken = reply.rows
          \/ command_status = "SEND" /\ reply.kind = "NONE"
      BY <1>3, <3>1, <3>2 DEF ReaderInv, NothingInv
    <3>5. ~Unread /\ (reply.kind = "RESULT" => rows_taken = reply.rows)
      BY <3>4, CountFacts DEF Unread, TypeOK, WireTypeOK
    <3>6. NothingInv'
      BY <1>1, <1>2, <2>1, <3>5 DEF NothingInv
    <3>7. queue' = << >>
      BY <1>1, <1>3, QueueTyped DEF TypeOK, ConTypeOK
    <3>8. ReaderInv'
      BY <1>2, <3>5, <3>6, <3>7, ReaderNothing
    <3>9. NumberInv'
      BY <1>1, <1>2, <1>3, <2>4, <3>1, <3>5 DEF NumberInv
    <3>10. StaleInv'
      BY <1>1, <1>2, <2>4 DEF StaleInv, RowInHandInv, SentOverInv
    <3> QED BY <2>2, <3>3, <3>8, <3>9, <3>10 DEF WireReaderInv
  <2> QED BY <2>3, <2>4 DEF TypeOK, WireTypeOK
<1>4. CASE Peek # "NONE"
  <2>1. status' = status /\ command_status' = command_status
    BY <1>4 DEF OnWrite, WriteCompletes
  <2>2. StreamInv'
    BY <1>1, <2>1 DEF StreamInv, Processing
  <2>3. WireInv'
    BY <1>1, <1>2, <2>1 DEF WireInv
  <2>4. NumberInv' /\ StaleInv'
    BY <1>1, <1>2, <2>1 DEF NumberInv, StaleInv, RowInHandInv, SentOverInv
  <2>5. /\ ResponseInv' = ResponseInv
        /\ PrepareResponseInv' = PrepareResponseInv
        /\ ParameterInv' = ParameterInv
        /\ PrepareColumnInv' = PrepareColumnInv
        /\ ColumnInv' = ColumnInv /\ RowInv' = RowInv
    BY <1>1, <1>2, <2>1
    DEF ResponseInv, PrepareResponseInv, ParameterInv, PrepareColumnInv,
        ColumnInv, RowInv
  <2>6. Together => Peek # "HANDSHAKE"
    BY <1>1 DEF ReaderInv, HandshakeInv
  <2>7. ReaderInv'
    BY <1>1, <1>2, <1>4, <2>1, <2>5, <2>6 DEF ReaderInv
  <2> QED BY <2>2, <2>3, <2>4, <2>7 DEF WireReaderInv
<1> QED BY <1>3, <1>4

LEMMA ReadDataStep ==
    ASSUME Inv, TypeOK', ReadData
    PROVE  StreamInv' /\ WireReaderInv'
<1> USE DEF Inv
<1>1. /\ pc = "loop" /\ stream = "open" /\ (writes = 0 \/ stale)
      /\ arrived' \in (arrived + 1)..PacketCount(reply) /\ pc' = "read"
      /\ status' = status /\ command_status' = command_status
      /\ queue' = queue /\ packet_number' = packet_number
      /\ local_errcode' = local_errcode /\ current_column' = current_column
      /\ column_count' = column_count /\ in_row' = in_row /\ stmt' = stmt /\ stream' = stream
      /\ writes' = writes /\ reply' = reply /\ pos' = pos /\ base' = base
      /\ ret' = ret /\ rows_taken' = rows_taken
      /\ stale' = stale /\ logged_in' = logged_in
  BY DEF ReadData, conVars, resultVars, netVars, history
<1>2. /\ Peek' = Peek /\ Together' = Together /\ Unread' = Unread
      /\ Number' = Number /\ WireNumber' = WireNumber
      /\ PacketCount(reply') = PacketCount(reply)
  BY <1>1 DEF Peek, Together, Unread, Number, WireNumber
<1>3. /\ pos \in Nat /\ arrived \in Nat /\ PacketCount(reply) \in Nat
  BY CountFacts DEF TypeOK, WireTypeOK
<1>4. arrived' > 0 /\ pos <= arrived' /\ arrived' <= PacketCount(reply)
  BY <1>1, <1>3 DEF WireInv
<1>5. StreamInv'
  BY <1>1 DEF StreamInv, Processing
<1>6. Together => writes = 0
  BY <1>1 DEF Together
<1>7. WireInv'
  BY <1>1, <1>2, <1>4, <1>6 DEF WireInv
<1>8. NumberInv' /\ StaleInv'
  BY <1>1, <1>2 DEF NumberInv, StaleInv, RowInHandInv, SentOverInv
<1>9. /\ HandshakeInv' = HandshakeInv /\ ResponseInv' = ResponseInv
      /\ PrepareResponseInv' = PrepareResponseInv
      /\ ParameterInv' = ParameterInv
      /\ PrepareColumnInv' = PrepareColumnInv
      /\ ColumnInv' = ColumnInv /\ RowInv' = RowInv
  BY <1>1, <1>2
  DEF HandshakeInv, ResponseInv, PrepareResponseInv, ParameterInv,
      PrepareColumnInv, ColumnInv, RowInv
<1>10. NothingInv => NothingInv'
  BY <1>1, <1>2, <1>4 DEF NothingInv
<1>11. ReaderInv'
  BY <1>1, <1>2, <1>9, <1>10 DEF ReaderInv
<1> QED BY <1>5, <1>7, <1>8, <1>11 DEF WireReaderInv

(* Steps that only move the program counter and the returned value.          *)
LEMMA FrameStep ==
    ASSUME Inv, UNCHANGED core,
           status = "NOT_CONNECTED" => pc' \in {"app", "report"},
           pc' \in Processing => stream = "open",
           pc' \in {"connecting", "loop", "read", "check", "next"} =>
             ret' # "ROW_READY",
           pc' \in {"app", "report"} /\ ret' = "ROW_READY" =>
             status = "IDLE" /\ command_status = "ROW_IN_BUFFER",
           pc' \in {"next", "buffer"} => status = "IDLE"
    PROVE  StreamInv' /\ WireReaderInv'
<1>1. WireReaderInv'
  BY Frame DEF WireReaderInv
<1>2. StreamInv'
  BY DEF core, Inv, StreamInv
<1> QED BY <1>1, <1>2

-----------------------------------------------------------------------------
(* The invariant                                                             *)

LEMMA InvInit == Init => Inv
<1> SUFFICES ASSUME Init PROVE Inv
  OBVIOUS
<1>1. TypeOK
  BY TypeInit
<1>2. Peek = "NONE" /\ ~Together /\ Unread = FALSE /\ ~stale
  BY CountFacts, RepliesTyped DEF Init, Peek, Together, Unread, NoReply, Simple
<1>3. StreamInv
  BY DEF Init, StreamInv, Processing
<1>4. WireInv
  BY <1>2, RepliesTyped, CountFacts DEF Init, WireInv, NoReply, Simple
<1>5. ReaderInv /\ NumberInv /\ StaleInv
  BY <1>2 DEF Init, ReaderInv, NumberInv, StaleInv, RowInHandInv,
                 SentOverInv
<1> QED BY <1>1, <1>3, <1>4, <1>5 DEF Inv

LEMMA InvStep == NoRowErrors /\ Inv /\ [Next]_vars => Inv'
<1> SUFFICES ASSUME NoRowErrors, Inv, [Next]_vars
             PROVE  Inv'
  OBVIOUS
<1>t. TypeOK'
  BY TypeStep DEF Inv
<1> SUFFICES StreamInv' /\ WireReaderInv'
  BY <1>t DEF Inv, WireReaderInv
<1> USE <1>t
<1>f. /\ pc \in {"connecting", "loop", "read", "check", "next"} =>
           ret # "ROW_READY"
      /\ pc \in {"app", "report"} /\ ret = "ROW_READY" =>
           status = "IDLE" /\ command_status = "ROW_IN_BUFFER"
      /\ pc \in Processing => stream = "open"
      /\ status = "NOT_CONNECTED" => pc \in {"app", "report"}
      /\ pc \in {"next", "buffer"} => status = "IDLE"
  BY DEF Inv, StreamInv
<1>1. CASE Connect \/ QueryConnect \/ StatementPrepareConnect
  BY <1>1, StartConnectStep
  DEF Connect, QueryConnect, StatementPrepareConnect, Call
<1>2. CASE Poll
  <2>1. UNCHANGED core
    BY <1>2
    DEF Poll, core, conVars, resultVars, netVars, wireVars, history
  <2> QED BY <1>2, <1>f, <2>1, FrameStep DEF Poll, Settled, Processing
<1>3. CASE Query
  BY <1>3, CommandStep DEF Query, Commands
<1>4. CASE QueryRefused
  <2>1. UNCHANGED core
    BY <1>4
    DEF QueryRefused, core, conVars, resultVars, netVars, wireVars, history
  <2> QED BY <1>4, <1>f, <2>1, FrameStep DEF QueryRefused, Call, Processing
<1>5. CASE QueryClose
  <2>1. UNCHANGED core
    BY <1>5
    DEF QueryClose, core, conVars, resultVars, netVars, wireVars, history
  <2> QED BY <1>5, <1>f, <2>1, FrameStep DEF QueryClose, Processing
<1>6. CASE RowNext
  <2>1. status = "IDLE" /\ command_status = "ROW_IN_BUFFER"
    BY <1>6, <1>f DEF RowNext
  <2>2. WireReaderInv'
    BY <1>6, <2>1, GetNextRowStep DEF RowNext
  <2>3. stream = "open" /\ stream' = "open" /\ status' = "IDLE"
    BY <1>6, <2>1 DEF RowNext, GetNextRow, netVars, Inv, StreamInv
  <2>4. StreamInv'
    BY <1>6, <2>3 DEF RowNext, StreamInv
  <2> QED BY <2>2, <2>4
<1>7. CASE NextResult
  BY <1>7, NextResultStep
<1>8. CASE BufferRows
  <2>1. UNCHANGED core
    BY <1>8
    DEF BufferRows, core, conVars, resultVars, netVars, wireVars, history
  <2> QED BY <1>8, <1>f, <2>1, FrameStep DEF BufferRows, Processing
<1>9. CASE StatementPrepare
  BY <1>9, CommandStep DEF StatementPrepare, Commands
<1>10. CASE StatementExecute
  BY <1>10, CommandStep DEF StatementExecute, Commands
<1>11. CASE StatementExecuteBad
  BY <1>11, StatementExecuteBadStep
<1>12. CASE StatementClose
  BY <1>12, CommandStep DEF StatementClose, Commands
<1>13. CASE OnResolved
  BY <1>13, OnResolvedStep
<1>14. CASE OnConnect
  BY <1>14, OnConnectStep
<1>15. CASE ConnectReturn
  <2>1. UNCHANGED core
    BY <1>15
    DEF ConnectReturn, core, conVars, resultVars, netVars, wireVars, history
  <2> QED BY <1>15, <1>f, <2>1, FrameStep DEF ConnectReturn, Processing
<1>16. CASE OnWrite
  BY <1>16, OnWriteStep
<1>17. CASE OnWriteFail \/ ReadFail
  BY <1>17, NetErrorStep DEF OnWriteFail, ReadFail
<1>18. CASE ReadData
  BY <1>18, ReadDataStep
<1>19. CASE LoopEnd
  <2>1. UNCHANGED core
    BY <1>19
    DEF LoopEnd, core, conVars, resultVars, netVars, wireVars, history
  <2> QED BY <1>19, <1>f, <2>1, FrameStep DEF LoopEnd, Processing
<1>20. CASE PacketsDone
  <2>1. UNCHANGED core
    BY <1>20
    DEF PacketsDone, core, conVars, resultVars, netVars, wireVars, history
  <2> QED BY <1>20, <1>f, <2>1, FrameStep DEF PacketsDone, Return, Processing
<1>21. CASE \/ OutOfSequence \/ ReadHandshake \/ ReadBadHandshake \/ ReadOk
            \/ ReadErr \/ ReadResult \/ ReadColumn \/ ReadEof \/ ReadRow
  BY <1>21, OutOfSequenceStep, ReadHandshakeStep, ReadBadHandshakeStep,
     ReadOkStep, ReadErrStep, ReadResultStep, ReadColumnStep, ReadEofStep,
     ReadRowStep
<1>31. CASE Misread
  BY <1>31, MisreadStep
<1>22. CASE ReadPrepareOk \/ ReadPrepareParameter \/ ReadPrepareColumn
  BY <1>22, ReadPrepareOkStep, ReadPrepareParameterStep, ReadPrepareColumnStep
<1>23. CASE Report
  <2>1. UNCHANGED core
    BY <1>23
    DEF Report, core, conVars, resultVars, netVars, wireVars, history
  <2> QED BY <1>23, <1>f, <2>1, FrameStep DEF Report, Processing
<1>24. CASE ReportEof
  <2>1. UNCHANGED core
    BY <1>24
    DEF ReportEof, core, conVars, resultVars, netVars, wireVars, history
  <2> QED BY <1>24, <1>f, <2>1, FrameStep DEF ReportEof, Processing
<1>25. CASE ReportRow
  <2>1. UNCHANGED core
    BY <1>25
    DEF ReportRow, core, conVars, resultVars, netVars, wireVars, history
  <2> QED BY <1>25, <1>f, <2>1, FrameStep DEF ReportRow, ReportIdle, Processing
<1>26. CASE ReportBufferRow
  <2>1. status = "IDLE" /\ command_status = "ROW_IN_BUFFER"
    BY <1>26 DEF ReportBufferRow, ReportIdle
  <2>2. WireReaderInv'
    BY <1>26, <2>1, GetNextRowStep DEF ReportBufferRow
  <2>3. stream = "open" /\ stream' = "open" /\ status' = "IDLE"
    BY <1>26, <2>1 DEF ReportBufferRow, GetNextRow, netVars, Inv, StreamInv
  <2>4. StreamInv'
    BY <1>26, <2>3 DEF ReportBufferRow, StreamInv
  <2> QED BY <2>2, <2>4
<1>27. CASE ReportConnected
  <2>1. UNCHANGED core
    BY <1>27
    DEF ReportConnected, core, conVars, resultVars, netVars, wireVars, history
  <2> QED BY <1>27, <1>f, <2>1, FrameStep
          DEF ReportConnected, ReportIdle, Processing
<1>28. CASE ReportConnectedQuery
  BY <1>28, ReportConnectedQueryStep
<1>29. CASE ReportLost
  <2>1. UNCHANGED core
    BY <1>29
    DEF ReportLost, core, conVars, resultVars, netVars, wireVars, history
  <2>2. pc' \in {"app", "aborted"} /\ (pc' = "app" => ret' = "EOF")
    BY <1>29 DEF ReportLost
  <2> QED BY <1>29, <2>1, <2>2, FrameStep DEF ReportLost, Processing
<1>30. CASE Aborted \/ UNCHANGED vars
  <2>1. UNCHANGED core /\ pc' = pc /\ ret' = ret
    BY <1>30
    DEF Aborted, vars, core, conVars, resultVars, netVars, wireVars
  <2> QED BY <1>f, <2>1, FrameStep
<1> QED
  BY <1>1, <1>2, <1>3, <1>4, <1>5, <1>6, <1>7, <1>8, <1>9, <1>10, <1>11,
     <1>12, <1>13, <1>14, <1>15, <1>16, <1>17, <1>18, <1>19, <1>20, <1>21,
     <1>22, <1>23, <1>24, <1>25, <1>26, <1>27, <1>28, <1>29, <1>30, <1>31
  DEF Next, Application, Loop, ProcessPackets, Reports

(* Inv holds always, for every server that ends its result sets: the reader  *)
(* of net.cc is at the place of the answer that command_status, the expected *)
(* packet type and the counters of columns and parameters say.               *)
THEOREM InvCorrect ==
    ASSUME NoRowErrors
    PROVE  Spec => []Inv
<1>1. Inv /\ [Next]_vars => Inv'
  BY InvStep
<1> QED BY <1>1, InvInit, PTL DEF Spec

-----------------------------------------------------------------------------
(* The properties                                                            *)

(* A packet is expected only on an open stream.                              *)
LEMMA ExpectingIsTogether ==
    ASSUME Inv, ~stale, Peek # "NONE"
    PROVE  Together
<1>1. queue # << >>
  BY DEF Peek
<1>2. stream = "open"
  BY <1>1 DEF Inv, StreamInv
<1> QED BY <1>2 DEF Together

(* What comes next while an answer is being read.                            *)
LEMMA NextPacket ==
    ASSUME Inv, ~stale, Peek # "NONE"
    PROVE  Packet \in Contents /\ Unread
<1>1. Together
  BY ExpectingIsTogether
<1>2. /\ pos \in Nat /\ pos + 1 \in Nat /\ reply \in Reply
      /\ reply.cols \in Nat /\ reply.rows \in Nat /\ reply.params \in Nat
      /\ rows_taken \in Nat /\ PacketCount(reply) \in Nat
      /\ current_column \in Nat
      /\ stmt.current_param \in Nat /\ stmt.current_column \in Nat
      /\ Definitions(reply.params) \in Nat
  BY CountFacts DEF Inv, TypeOK, WireTypeOK, ResultTypeOK, Reply, Definitions
<1>3. Packet = PacketAt(reply, pos + 1)
  BY DEF Packet
<1>4. Peek \in PacketTypes
  BY QueueTyped DEF Inv, TypeOK, ConTypeOK
<1>5. CASE Peek = "HANDSHAKE"
  <2>1. reply.kind \in GreetingKinds /\ pos = 0
    BY <1>1, <1>5 DEF Inv, ReaderInv, HandshakeInv
  <2>2. Packet = reply.kind
    BY <1>2, <1>3, <2>1, OtherPackets DEF GreetingKinds
  <2>3. Unread
    BY <1>2, <2>1, CountFacts DEF Unread
  <2> QED BY <1>5, <2>1, <2>2, <2>3 DEF Contents
<1>6. CASE Peek = "RESPONSE"
  <2>1. ResponseInv
    BY <1>1, <1>6 DEF Inv, ReaderInv
  <2>2. Packet \in Contents
    <3>1. CASE command_status \in {"SEND", "READ_RESPONSE"}
      <4>1. Packet \in {"OK", "ERR", "RESULT"}
        BY <2>1, <3>1, ResponsePackets DEF Inv
      <4> QED BY <1>6, <3>1, <4>1 DEF Contents
    <3>2. CASE command_status \notin {"SEND", "READ_RESPONSE"}
      <4>1. /\ Packet = "EOF"
            /\ command_status \in {"READ_COLUMN", "READ_STMT_PARAM",
                                   "READ_STMT_COLUMN"}
        BY <2>1, <3>2, ResponsePackets DEF Inv
      <4> QED BY <1>6, <4>1 DEF Contents
    <3> QED BY <3>1, <3>2
  <2>3. pos < PacketCount(reply)
    BY <1>2, <2>1, CountFacts DEF ResponseInv, Definitions
  <2> QED BY <2>2, <2>3 DEF Unread
<1>7. CASE Peek = "PREPARE_RESPONSE"
  <2>1. reply.kind \in {"PREPARE", "ERR"} /\ pos = 0
    BY <1>1, <1>7 DEF Inv, ReaderInv, PrepareResponseInv
  <2>2. Packet \in {"PREPARE_OK", "ERR"}
    <3>1. CASE reply.kind = "PREPARE"
      BY <1>2, <1>3, <2>1, <3>1, PreparePackets
    <3>2. CASE reply.kind = "ERR"
      BY <1>2, <1>3, <2>1, <3>2, OtherPackets
    <3> QED BY <2>1, <3>1, <3>2
  <2>3. Unread
    BY <1>2, <2>1, CountFacts DEF Unread, Definitions
  <2> QED BY <1>7, <2>2, <2>3 DEF Contents
<1>8. CASE Peek = "PREPARE_PARAMETER"
  <2>1. ParameterInv
    BY <1>1, <1>8 DEF Inv, ReaderInv
  <2>2. Packet = "PARAM"
    BY <1>2, <1>3, <2>1, PreparePackets DEF ParameterInv
  <2>3. Unread
    BY <1>2, <2>1, CountFacts DEF Unread, Definitions, ParameterInv
  <2> QED BY <1>8, <2>2, <2>3 DEF Contents
<1>9. CASE Peek = "PREPARE_COLUMN"
  <2>1. PrepareColumnInv
    BY <1>1, <1>9 DEF Inv, ReaderInv
  <2>2. Packet = "COLUMN"
    BY <1>2, <1>3, <2>1, PreparePackets DEF PrepareColumnInv
  <2>3. PacketCount(reply) = 1 + Definitions(reply.params) + reply.cols + 1
    BY <1>2, <2>1, CountFacts DEF Definitions, PrepareColumnInv
  <2>4. Unread
    BY <1>2, <2>1, <2>3 DEF Unread, PrepareColumnInv
  <2> QED BY <1>9, <2>2, <2>4 DEF Contents
<1>10. CASE Peek = "COLUMN"
  <2>1. ColumnInv
    BY <1>1, <1>10 DEF Inv, ReaderInv
  <2>2. Packet = "COLUMN"
    BY <1>2, <1>3, <2>1, ResultPackets DEF ColumnInv
  <2>3. Unread
    BY <1>2, <2>1, CountFacts DEF Unread, ColumnInv
  <2> QED BY <1>10, <2>2, <2>3 DEF Contents
<1>11. CASE Peek = "ROW"
  <2>1. RowInv
    BY <1>1, <1>11 DEF Inv, ReaderInv
  <2>2. /\ reply.kind = "RESULT" /\ reply.end = "EOF"
        /\ pos + 1 = reply.cols + 3 + rows_taken /\ rows_taken <= reply.rows
    BY <1>2, <2>1 DEF RowInv, Inv, WireInv
  <2>3. Packet \in {"ROW", "EOF"}
    BY <1>2, <1>3, <2>2, ResultPackets
  <2>4. Unread
    BY <1>2, <2>2, CountFacts DEF Unread
  <2> QED BY <1>11, <2>3, <2>4 DEF Contents
<1> QED
  BY <1>4, <1>5, <1>6, <1>7, <1>8, <1>9, <1>10, <1>11 DEF PacketTypes

(* The reader and the server agree on where the answer is: whatever packet   *)
(* type attachsql_con_process_packets expects, the next packet is of a kind  *)
(* that its handler was written for.                                         *)
THEOREM LockStepCorrect ==
    ASSUME NoRowErrors
    PROVE  Spec => []LockStep
<1>1. Inv => LockStep
  BY NextPacket DEF LockStep
<1> QED BY <1>1, InvCorrect, PTL

(* No sequence of commands, results and rows makes the stack of net.cc       *)
(* outgrow its first allocation.                                             *)
THEOREM QueueFitsCorrect ==
    ASSUME NoRowErrors
    PROVE  Spec => []QueueFits
<1>1. Inv => QueueFits
  <2> SUFFICES ASSUME Inv PROVE Len(queue) <= 2
    BY ApplicationAssumption, LenProperties
    DEF QueueFits, Inv, TypeOK, ConTypeOK
  <2>1. CASE queue = << >>
    BY <2>1
  <2>2. CASE queue # << >> /\ stale
    BY <2>2 DEF Inv, StaleInv, SentOverInv
  <2>3. CASE queue # << >> /\ ~stale
    <3>1. Together
      BY <2>3 DEF Inv, StreamInv, Together
    <3> QED BY <3>1, LenProperties DEF Inv, ReaderInv, TypeOK, ConTypeOK
  <2> QED BY <2>1, <2>2, <2>3
<1> QED BY <1>1, InvCorrect, PTL

(* A busy connection with nothing left to write expects a packet the server  *)
(* does send, unless the reader gave the answer up.                          *)
THEOREM BusyAwaitsCorrect ==
    ASSUME NoRowErrors
    PROVE  Spec => []BusyAwaits
<1>1. Inv => BusyAwaits
  <2> SUFFICES ASSUME Inv, status = "BUSY", writes = 0, ~stale,
                      command_status # "READ_FAILED"
               PROVE  Peek # "NONE" /\ Unread
    BY DEF BusyAwaits
  <2>1. Together
    BY DEF Inv, StreamInv, Together
  <2>2. Peek # "NONE"
    BY <2>1 DEF Inv, ReaderInv, NothingInv
  <2> QED BY <2>2, NextPacket
<1> QED BY <1>1, InvCorrect, PTL

(* An idle connection at the end of an answer has read every packet of it    *)
(* and given away every row.                                                 *)
THEOREM EofIsCompleteCorrect ==
    ASSUME NoRowErrors
    PROVE  Spec => []EofIsComplete
<1>1. Inv => EofIsComplete
  <2> SUFFICES ASSUME Inv, status = "IDLE", command_status = "EOF", ~stale
               PROVE  /\ ~Unread
                      /\ reply.kind = "RESULT" => rows_taken = reply.rows
    BY DEF EofIsComplete
  <2>1. Together
    BY DEF Inv, StreamInv, Together
  <2>2. Peek = "NONE"
    BY <2>1 DEF Inv, ReaderInv, RowInv
  <2> QED BY <2>1, <2>2 DEF Inv, ReaderInv, NothingInv
<1> QED BY <1>1, InvCorrect, PTL

(* A packet is refused as out of sequence only if it belongs to an answer    *)
(* the application walked away from or its number does not fit a signed      *)
(* char.                                                                     *)
THEOREM RefusalExplainedCorrect ==
    ASSUME NoRowErrors
    PROVE  Spec => []RefusalExplained
<1>1. Inv => RefusalExplained
  BY DEF Inv, NumberInv, RefusalExplained
<1> QED BY <1>1, InvCorrect, PTL

(* Only Misread ends in the state it is named for, and only Aborted starts   *)
(* there.                                                                    *)
Going == pc # "misread" /\ pc' # "misread"

LEMMA OnlyMisread ==
    ASSUME Next, ~Misread
    PROVE  Going \/ Aborted
<1> USE DEF Going
<1>1. CASE Application
  BY <1>1
  DEF Application, Connect, Poll, QueryConnect, Query, QueryRefused,
      QueryClose, RowNext, NextResult, BufferRows, StatementPrepareConnect,
      StatementPrepare, StatementExecute, StatementExecuteBad,
      StatementClose, StartConnect, Command, Call
<1>2. CASE Loop
  BY <1>2
  DEF Loop, OnResolved, OnConnect, ConnectReturn, OnWrite, OnWriteFail,
      ReadFail, ReadData, LoopEnd
<1>3. CASE ProcessPackets
  BY <1>3
  DEF ProcessPackets, PacketsDone, OutOfSequence, ReadHandshake,
      ReadBadHandshake, ReadOk, ReadErr, ReadResult, ReadColumn, ReadEof,
      ReadRow, ReadPrepareOk, ReadPrepareParameter, ReadPrepareColumn, Accept,
      HavePacket, HaveRowBytes, Return, Processing
<1>4. CASE Reports
  BY <1>4
  DEF Reports, Report, ReportEof, ReportRow, ReportBufferRow,
      ReportConnected, ReportConnectedQuery, ReportLost, ReportIdle
<1> QED BY <1>1, <1>2, <1>3, <1>4 DEF Next

(* No packet of an answer the application walked away from is ever consumed  *)
(* as part of a later one, if the reader stands at its header.               *)
THEOREM NoStaleAnswerCorrect ==
    ASSUME NoRowErrors
    PROVE  Spec => NoStaleAnswer
<1>1. Inv /\ [Next]_vars => [stale /\ ~in_row => pos' = pos /\ pc' # "misread"]_vars
  <2> SUFFICES ASSUME Inv, Next, vars' # vars, stale, ~in_row
               PROVE  pos' = pos /\ pc' # "misread"
    BY DEF vars
  <2>1. Unread /\ stream \notin {"none", "resolving", "connecting"}
    BY DEF Inv, StaleInv, RowInHandInv, SentOverInv, StreamInv
  <2>2. ~(HavePacket /\ InSequence)
    BY AcceptedIsFresh DEF Together
  <2>8. Going
    BY OnlyMisread DEF Misread, HaveRowBytes, Aborted
  <2> SUFFICES pos' = pos
    BY <2>8 DEF Going
  <2> USE DEF wireVars
  <2>3. CASE Application
    BY <2>1, <2>3
    DEF Application, Connect, Poll, QueryConnect, Query, QueryRefused,
        QueryClose, RowNext, NextResult, BufferRows, StatementPrepareConnect,
        StatementPrepare, StatementExecute, StatementExecuteBad,
        StatementClose, StartConnect, Command, SendOk, SendFail
  <2>4. CASE Loop
    BY <2>1, <2>4
    DEF Loop, OnResolved, OnConnect, ConnectReturn, OnWrite, OnWriteFail,
        ReadFail, ReadData, LoopEnd, NetError
  <2>5. CASE ProcessPackets
    BY <2>2, <2>5
    DEF ProcessPackets, PacketsDone, OutOfSequence, Misread, ReadHandshake,
        ReadBadHandshake, ReadOk, ReadErr, ReadResult, ReadColumn, ReadEof,
        ReadRow, ReadPrepareOk, ReadPrepareParameter, ReadPrepareColumn, Accept
  <2>6. CASE Reports
    BY <2>1, <2>6
    DEF Reports, Report, ReportEof, ReportRow, ReportBufferRow,
        ReportConnected, ReportConnectedQuery, ReportLost, SendOk
  <2>7. CASE Aborted
    BY <2>7 DEF Aborted, vars
  <2> QED BY <2>3, <2>4, <2>5, <2>6, <2>7 DEF Next
<1> QED BY <1>1, InvCorrect, PTL DEF Spec, NoStaleAnswer
-----------------------------------------------------------------------------
(* A connection is a session: the refinement mapping of ConnectionSession    *)

(* What is true before the login and after it.  Inv does not need it; the    *)
(* mapping does, because a session tells the two apart.                      *)
LoginInv ==
    /\ ~logged_in => /\ reply.kind # "RESULT"
                     /\ ~more_results /\ ~stale
                     /\ command_status # "CONNECTED"
                     /\ status # "BUSY"
                     /\ stream = "open" => reply.kind # "NONE"
    /\ logged_in => status \notin {"NOT_CONNECTED", "CONNECTING"}

(* A step that keeps LoginInv and is a step of the session or none.          *)
Simulated == LoginInv' /\ [S!Next]_(S!vars)

-----------------------------------------------------------------------------
(* The mapping                                                               *)

LEMMA PhaseOf ==
    ASSUME Going
    PROVE
    /\ status = "NOT_CONNECTED" => SessionPhase = "new"
    /\ status = "CONNECTING" => SessionPhase = "opening"
    /\ status = "NET_ERROR" => SessionPhase = "lost"
    /\ status \in {"IDLE", "CONNECT_FAILED"} /\ ~logged_in =>
         SessionPhase = "refused"
    /\ status = "BUSY" => SessionPhase = "working"
    /\ status = "IDLE" /\ logged_in /\ command_status = "ROW_IN_BUFFER" =>
         SessionPhase = "row"
    /\ status = "IDLE" /\ logged_in /\ command_status = "READ_ROW" =>
         SessionPhase = "asking"
    /\ (/\ status = "IDLE" /\ logged_in
        /\ command_status \notin {"ROW_IN_BUFFER", "READ_ROW"}) =>
         SessionPhase = "ready"
    /\ status = "CONNECT_FAILED" /\ logged_in => SessionPhase = "ready"
  BY DEF SessionPhase, Going

LEMMA PhaseNext ==
    ASSUME Going
    PROVE
    /\ status' = "CONNECTING" => SessionPhase' = "opening"
    /\ status' = "NET_ERROR" => SessionPhase' = "lost"
    /\ status' \in {"IDLE", "CONNECT_FAILED"} /\ ~logged_in' =>
         SessionPhase' = "refused"
    /\ status' = "BUSY" => SessionPhase' = "working"
    /\ status' = "IDLE" /\ logged_in' /\ command_status' = "ROW_IN_BUFFER" =>
         SessionPhase' = "row"
    /\ status' = "IDLE" /\ logged_in' /\ command_status' = "READ_ROW" =>
         SessionPhase' = "asking"
    /\ (/\ status' = "IDLE" /\ logged_in'
        /\ command_status' \notin {"ROW_IN_BUFFER", "READ_ROW"}) =>
         SessionPhase' = "ready"
    /\ status' = "CONNECT_FAILED" /\ logged_in' => SessionPhase' = "ready"
  BY DEF SessionPhase, Going

LEMMA RowsNext ==
    /\ reply'.kind # "RESULT" => SessionRows' = 0
    /\ reply'.kind = "RESULT" => SessionRows' = reply'.rows - rows_taken'
    /\ reply' = reply /\ rows_taken' = rows_taken => SessionRows' = SessionRows
  BY DEF SessionRows

(* Steps that leave the answer where it is.                                  *)
LEMMA AnswerKept ==
    ASSUME UNCHANGED <<reply, pos, rows_taken, in_row, stale, logged_in>>
    PROVE  UNCHANGED <<SessionRows, (logged_in /\ Unread), in_row, stale>>
  BY DEF SessionRows, Unread

LEMMA NoStep ==
    ASSUME LoginInv, pc = "misread" <=> pc' = "misread",
           UNCHANGED <<status, command_status, more_results, stream, reply,
                       pos, rows_taken, in_row, stale, logged_in>>
    PROVE  Simulated
<1>1. LoginInv'
  BY DEF LoginInv
<1>2. UNCHANGED SessionPhase
  BY DEF SessionPhase
<1>3. UNCHANGED S!vars
  BY <1>2, AnswerKept DEF S!vars
<1> QED BY <1>1, <1>3 DEF Simulated

LEMMA EmptyReply ==
    ASSUME NEW r \in Reply, ~(0 < PacketCount(r))
    PROVE  r.kind = "NONE"
<1>1. r.kind \in ReplyKinds /\ r.params \in Nat /\ r.cols \in Nat
      /\ r.rows \in Nat
  BY DEF Reply
<1>2. Definitions(r.params) \in Nat /\ Definitions(r.cols) \in Nat
  BY <1>1 DEF Definitions
<1> QED BY <1>1, <1>2, CountFacts DEF ReplyKinds

LEMMA SessionInit == Init => LoginInv /\ S!Init
<1> SUFFICES ASSUME Init PROVE LoginInv /\ S!Init
  OBVIOUS
<1>1. reply.kind = "NONE"
  BY DEF Init, NoReply, Simple
<1>2. LoginInv
  BY <1>1 DEF Init, LoginInv
<1>3. S!Init
  BY <1>1, CountFacts, RepliesTyped
  DEF Init, S!Init, SessionPhase, SessionRows, Unread
<1> QED BY <1>2, <1>3

-----------------------------------------------------------------------------
(* Connecting                                                                *)

LEMMA ConnectIsOpen ==
    ASSUME Going, Inv, LoginInv, StartConnect
    PROVE  Simulated
<1>1. /\ status = "NOT_CONNECTED" /\ ~logged_in /\ ~logged_in'
      /\ status' \in {"CONNECTING", "CONNECT_FAILED"}
      /\ UNCHANGED <<reply, pos, rows_taken, in_row, stale, logged_in,
                     command_status, more_results>>
      /\ stream' # "open"
  BY DEF StartConnect, Inv, StreamInv, LoginInv, resultVars, wireVars,
         history
<1>2. LoginInv'
  BY <1>1 DEF LoginInv
<1>3. S!Open
  BY <1>1, PhaseOf, PhaseNext, AnswerKept DEF S!Open
<1> QED BY <1>2, <1>3 DEF Simulated, S!Next

LEMMA OnResolvedSimulated ==
    ASSUME Going, Inv, LoginInv, OnResolved
    PROVE  Simulated
<1>1. /\ status = "CONNECTING" /\ ~logged_in /\ ~logged_in'
      /\ UNCHANGED <<reply, pos, rows_taken, in_row, stale, logged_in,
                     command_status, more_results>>
      /\ stream' # "open"
  BY DEF OnResolved, Inv, StreamInv, resultVars, wireVars, history
<1>2. status' \in {"CONNECTING", "CONNECT_FAILED"}
  BY <1>1 DEF OnResolved
<1>3. LoginInv'
  BY <1>1, <1>2 DEF LoginInv
<1>4. CASE status' = "CONNECTING"
  BY <1>1, <1>3, <1>4, PhaseOf, PhaseNext, AnswerKept DEF Simulated, S!vars
<1>5. CASE status' = "CONNECT_FAILED"
  <2>1. S!Login
    BY <1>1, <1>5, PhaseOf, PhaseNext, AnswerKept DEF S!Login
  <2> QED BY <1>3, <2>1 DEF Simulated, S!Next
<1> QED BY <1>2, <1>4, <1>5

LEMMA OnConnectSimulated ==
    ASSUME Going, Inv, LoginInv, OnConnect
    PROVE  Simulated
<1>1. /\ status = "CONNECTING" /\ ~logged_in /\ ~logged_in'
      /\ reply.kind # "RESULT" /\ ~more_results
      /\ UNCHANGED <<in_row, stale, logged_in, command_status,
                     more_results>>
  BY DEF OnConnect, Inv, StreamInv, LoginInv, resultVars
<1>2. CASE stream' = "open"
  <2>1. status' = "CONNECTING" /\ reply' \in HandshakeReplies
    BY <1>1, <1>2 DEF OnConnect, Answer
  <2>2. reply'.kind \notin {"RESULT", "NONE"}
    BY <2>1, RepliesAssumption DEF Simple, GreetingKinds
  <2>3. LoginInv'
    BY <1>1, <2>1, <2>2 DEF LoginInv
  <2>4. SessionRows' = SessionRows
    BY <1>1, <2>2 DEF SessionRows
  <2>5. UNCHANGED S!vars
    BY <1>1, <2>1, <2>4, PhaseOf, PhaseNext DEF S!vars
  <2> QED BY <2>3, <2>5 DEF Simulated
<1>3. CASE stream' # "open"
  <2>1. /\ status' = "CONNECT_FAILED" /\ stream' = "none"
        /\ UNCHANGED <<reply, pos, rows_taken>>
    BY <1>3 DEF OnConnect, wireVars
  <2>2. LoginInv'
    BY <1>1, <2>1 DEF LoginInv
  <2>3. S!Login
    BY <1>1, <2>1, PhaseOf, PhaseNext, AnswerKept DEF S!Login
  <2> QED BY <2>2, <2>3 DEF Simulated, S!Next
<1> QED BY <1>2, <1>3

-----------------------------------------------------------------------------
(* The loop                                                                  *)

LEMMA NetErrorIsLose ==
    ASSUME Going, Inv, LoginInv, stream \in {"open", "closed"},
           \/ NetError("NET_WRITE_ERROR", "SEND_FAILED")
           \/ NetError("NET_READ_ERROR", "READ_FAILED")
    PROVE  Simulated
<1>1. /\ status # "NOT_CONNECTED" /\ status \in Statuses
      /\ status' = "NET_ERROR" /\ stream' = "closed"
      /\ command_status' # "CONNECTED"
      /\ UNCHANGED <<reply, pos, rows_taken, in_row, stale, logged_in, more_results>>
  BY DEF NetError, Inv, StreamInv, resultVars, wireVars, history, TypeOK,
         ConTypeOK
<1>2. LoginInv'
  BY <1>1 DEF LoginInv
<1>3. SessionPhase \notin {"new", "garbled"}
  BY <1>1, PhaseOf DEF Statuses, SessionPhase, Going
<1>4. S!Lose
  BY <1>1, <1>3, PhaseNext, AnswerKept DEF S!Lose
<1> QED BY <1>2, <1>4 DEF Simulated, S!Next

(* on_write settles a command that has no answer, or one whose answer lies   *)
(* behind an abandoned one and is never looked for.                          *)
LEMMA OnWriteSimulated ==
    ASSUME Going, Inv, LoginInv, OnWrite
    PROVE  Simulated
<1>1. /\ stream = "open" /\ writes > 0 /\ writes # 0
      /\ UNCHANGED <<reply, pos, rows_taken, in_row, stale, logged_in,
                     more_results, stream>>
  BY DEF OnWrite, resultVars, wireVars, history, Inv, TypeOK, WireTypeOK
<1>2. CASE Peek # "NONE"
  BY <1>1, <1>2, NoStep DEF OnWrite, WriteCompletes, Going
<1>3. CASE Peek = "NONE"
  <2>1. status' = "IDLE" /\ command_status' = "EOF"
    BY <1>3 DEF OnWrite, WriteCompletes
  <2>2. CASE stale
    <3>1. logged_in
      BY <2>2 DEF LoginInv
    <3>2. LoginInv' /\ SessionPhase' = "ready"
      BY <1>1, <2>1, <3>1, PhaseNext DEF LoginInv
    <3>3. CASE status = "BUSY"
      <4>1. S!NoAnswer
        BY <1>1, <2>2, <3>2, <3>3, PhaseOf, AnswerKept DEF S!NoAnswer
      <4> QED BY <3>2, <4>1 DEF Simulated, S!Next
    <3>4. CASE status = "IDLE" /\ command_status = "READ_ROW"
      <4>1. S!CommandRefused
        BY <1>1, <3>1, <3>2, <3>4, PhaseOf, AnswerKept DEF S!CommandRefused
      <4> QED BY <3>2, <4>1 DEF Simulated, S!Next
    <3>5. CASE \/ status = "IDLE" /\ command_status # "READ_ROW"
               \/ status = "CONNECT_FAILED"
      <4>1. command_status # "ROW_IN_BUFFER"
        BY <2>2 DEF Inv, StaleInv, RowInHandInv, SentOverInv
      <4>2. SessionPhase = "ready"
        BY <3>1, <3>5, <4>1, PhaseOf
      <4> QED BY <1>1, <3>2, <4>2, AnswerKept DEF Simulated, S!vars
    <3> QED BY <1>1, <3>1, <3>3, <3>4, <3>5
            DEF Inv, StreamInv, TypeOK, ConTypeOK, Statuses, LoginInv
  <2>3. CASE ~stale
    <3>1. Together
      BY <1>1, <2>3 DEF Together
    <3>2. arrived \in Nat /\ ~(arrived > 0)
      BY <1>1, <3>1 DEF Inv, WireInv, TypeOK, WireTypeOK
    <3>3. pos = 0 /\ arrived = 0
      BY <3>2 DEF Inv, WireInv, TypeOK, WireTypeOK
    <3>4. NothingInv /\ status \notin {"IDLE", "CONNECT_FAILED"}
      BY <1>1, <1>3, <3>1 DEF Inv, ReaderInv, WireInv
    <3>5. \/ /\ command_status \in {"EOF", "CONNECTED"}
             /\ ~Unread /\ status # "BUSY"
          \/ /\ command_status = "SEND"
             /\ reply.kind = "NONE" /\ status = "BUSY"
      BY <3>2, <3>4 DEF NothingInv
    <3>6. status # "BUSY" => reply.kind = "NONE"
      BY <3>3, <3>5, EmptyReply DEF Unread, Inv, TypeOK, WireTypeOK
    <3>7. reply.kind = "NONE" /\ logged_in
      BY <1>1, <3>5, <3>6 DEF LoginInv
    <3>8. status = "BUSY"
      BY <1>1, <3>4, <3>7
      DEF LoginInv, Inv, StreamInv, TypeOK, ConTypeOK, Statuses
    <3>9. ~Unread
      BY <3>3, <3>7 DEF Unread, PacketCount
    <3>10. LoginInv'
      BY <1>1, <2>1, <3>7 DEF LoginInv
    <3>11. S!NoAnswer
      BY <1>1, <2>1, <3>7, <3>8, <3>9, PhaseOf, PhaseNext, AnswerKept
      DEF S!NoAnswer
    <3> QED BY <3>10, <3>11 DEF Simulated, S!Next
  <2> QED BY <2>2, <2>3
<1> QED BY <1>2, <1>3

-----------------------------------------------------------------------------
(* The packet handlers                                                       *)

LEMMA AcceptFacts ==
    ASSUME Inv, NEW types, NEW contents, Accept(types, contents)
    PROVE  /\ HavePacket /\ InSequence /\ Peek \in types /\ Packet \in contents
           /\ Together /\ stream = "open" /\ ~stale /\ ~in_row
           /\ pos \in Nat /\ pos' = pos + 1 /\ rows_taken \in Nat
           /\ reply \in Reply /\ PacketCount(reply) \in Nat
           /\ reply' = reply /\ rows_taken' = rows_taken
           /\ stale' = stale /\ stream' = "open"
           /\ Unread
           /\ pos + 1 < PacketCount(reply) => Unread'
           /\ pos + 1 = PacketCount(reply) => ~Unread'
<1>1. HavePacket /\ InSequence /\ Peek \in types /\ Packet \in contents
  BY DEF Accept
<1>2. Together /\ pos + 1 <= PacketCount(reply)
  BY <1>1, AcceptedIsFresh
<1>3. /\ pos \in Nat /\ rows_taken \in Nat /\ reply \in Reply
      /\ PacketCount(reply) \in Nat
  BY CountFacts DEF Inv, TypeOK, WireTypeOK
<1>4. /\ pos' = pos + 1 /\ reply' = reply /\ rows_taken' = rows_taken
      /\ stale' = stale /\ stream' = stream
  BY DEF Accept, netVars
<1> QED BY <1>1, <1>2, <1>3, <1>4 DEF HavePacket, Together, Unread

(* A packet in the middle of an answer.                                      *)
LEMMA ReadsOn ==
    ASSUME Going, Inv, LoginInv, NEW types, NEW contents, Accept(types, contents),
           status = "BUSY", status' = "BUSY", in_row' = in_row,
           logged_in' = logged_in,
           pos + 1 < PacketCount(reply)
    PROVE  Simulated
<1>1. logged_in /\ logged_in'
  BY DEF LoginInv
<1>2. LoginInv'
  BY <1>1 DEF LoginInv
<1>3. UNCHANGED S!vars
  BY <1>1, AcceptFacts, PhaseOf, PhaseNext, RowsNext DEF S!vars
<1> QED BY <1>2, <1>3 DEF Simulated

(* The last packet of an answer.                                             *)
LEMMA ReadsLast ==
    ASSUME Going, Inv, LoginInv, NEW types, NEW contents, Accept(types, contents),
           status = "BUSY" \/ (status = "IDLE" /\ command_status = "READ_ROW"),
           logged_in, logged_in', in_row' = in_row,
           reply.kind = "RESULT" => rows_taken = reply.rows,
           status' \in {"IDLE", "CONNECT_FAILED"}, command_status' = "EOF",
           pos + 1 = PacketCount(reply)
    PROVE  Simulated
<1>1. LoginInv'
  BY DEF LoginInv
<1>2. SessionRows = 0
  BY AcceptFacts DEF SessionRows, Reply
<1>3. /\ SessionPhase \in {"working", "asking"} /\ SessionPhase' = "ready"
      /\ SessionRows' = SessionRows
  BY AcceptFacts, PhaseOf, PhaseNext, RowsNext
<1>4. Unread /\ ~Unread' /\ ~stale /\ stale' = stale /\ in_row' = in_row
  BY AcceptFacts
<1>5. S!End
  BY <1>2, <1>3, <1>4 DEF S!End
<1> QED BY <1>1, <1>5 DEF Simulated, S!Next

LEMMA ReadHandshakeSimulated ==
    ASSUME Going, Inv, LoginInv, ReadHandshake
    PROVE  Simulated
<1>1. HandshakeInv
  BY PhaseFacts DEF ReadHandshake
<1>2. /\ reply' \in LoginReplies /\ command_status' = "READ_RESPONSE"
      /\ ~more_results'
      /\ UNCHANGED <<status, stream, in_row, stale, logged_in>>
  BY DEF ReadHandshake, Answer, resultVars
<1>3. reply'.kind \in {"OK", "ERR"}
  BY <1>2, LoginKinds
<1>4. /\ status = "CONNECTING" /\ ~logged_in /\ ~stale
      /\ reply.kind # "RESULT"
  BY <1>1 DEF HandshakeInv, LoginInv
<1>5. LoginInv'
  BY <1>2, <1>3, <1>4 DEF LoginInv
<1>6. SessionRows' = SessionRows
  BY <1>3, <1>4 DEF SessionRows
<1>7. UNCHANGED S!vars
  BY <1>2, <1>4, <1>6, PhaseOf, PhaseNext DEF S!vars
<1> QED BY <1>5, <1>7 DEF Simulated

LEMMA ReadBadHandshakeSimulated ==
    ASSUME Going, Inv, LoginInv, ReadBadHandshake
    PROVE  Simulated
<1>1. Accept({"HANDSHAKE"}, {"BAD_HANDSHAKE", "NO_SCRAMBLE"})
  BY DEF ReadBadHandshake
<1>2. HandshakeInv
  BY <1>1, AcceptFacts, PhaseFacts
<1>3. status = "CONNECTING" /\ ~logged_in
  BY <1>2 DEF HandshakeInv
<1>4. UNCHANGED <<status, command_status, more_results, in_row, logged_in>>
  BY DEF ReadBadHandshake, resultVars
<1>5. LoginInv'
  BY <1>1, <1>3, <1>4, AcceptFacts DEF LoginInv
<1>6. UNCHANGED S!vars
  BY <1>1, <1>3, <1>4, AcceptFacts, PhaseOf, PhaseNext, RowsNext DEF S!vars
<1> QED BY <1>5, <1>6 DEF Simulated

LEMMA ReadOkSimulated ==
    ASSUME Going, Inv, LoginInv, ReadOk
    PROVE  Simulated
<1>1. /\ Accept({"RESPONSE"}, {"OK"}) /\ status' = "IDLE" /\ logged_in'
      /\ command_status' = IF status = "CONNECTING" THEN "CONNECTED" ELSE "EOF"
      /\ in_row' = in_row /\ ~in_row
  BY DEF ReadOk, resultVars, Accept, HavePacket
<1>2. /\ HavePacket /\ InSequence /\ Peek = "RESPONSE" /\ Packet = "OK"
  BY <1>1, AcceptFacts
<1>3. ResponseInv /\ status \in {"BUSY", "CONNECTING"}
  BY <1>2, PhaseFacts
<1>4. pos = 0 /\ reply.kind = "OK"
  BY <1>2, <1>3, ResponsePackets DEF Inv
<1>5. pos + 1 = PacketCount(reply)
  BY <1>1, <1>4, AcceptFacts, CountFacts
<1>6. CASE status = "CONNECTING"
  <2>1. ~logged_in
    BY <1>6 DEF LoginInv
  <2>2. LoginInv'
    BY <1>1 DEF LoginInv
  <2>3. ~Unread' /\ stale' = stale /\ SessionRows' = SessionRows
    BY <1>1, <1>5, AcceptFacts, RowsNext
  <2>4. S!Login
    BY <1>1, <1>6, <2>1, <2>3, PhaseOf, PhaseNext DEF S!Login
  <2> QED BY <2>2, <2>4 DEF Simulated, S!Next
<1>7. CASE status = "BUSY"
  <2>1. logged_in
    BY <1>7 DEF LoginInv
  <2> QED BY <1>1, <1>4, <1>5, <1>7, <2>1, ReadsLast
<1> QED BY <1>3, <1>6, <1>7

LEMMA ReadErrSimulated ==
    ASSUME Going, Inv, LoginInv, ReadErr
    PROVE  Simulated
<1>1. /\ Accept(Responses \union {"HANDSHAKE"}, {"ERR"})
      /\ status' \in {"IDLE", "CONNECT_FAILED"}
      /\ command_status' = "EOF"
      /\ UNCHANGED <<more_results, in_row, logged_in>> /\ ~in_row
  BY DEF ReadErr, resultVars, Accept, HavePacket
<1>2. /\ HavePacket /\ InSequence /\ Packet = "ERR"
      /\ Peek \in Responses \union {"HANDSHAKE"}
  BY <1>1, AcceptFacts
<1>3. pos = 0 /\ reply.kind = "ERR"
  BY <1>2, ErrPackets
<1>4. status \in {"BUSY", "CONNECTING"}
  BY <1>2, PhaseFacts DEF Responses
<1>5. pos + 1 = PacketCount(reply)
  BY <1>1, <1>3, AcceptFacts, CountFacts
<1>6. CASE status = "CONNECTING"
  <2>1. ~logged_in
    BY <1>6 DEF LoginInv
  <2>2. LoginInv'
    BY <1>1, <1>3, <2>1, AcceptFacts DEF LoginInv
  <2>3. stale' = stale /\ SessionRows' = SessionRows
    BY <1>1, AcceptFacts, RowsNext
  <2>4. S!Login
    BY <1>1, <1>6, <2>1, <2>3, PhaseOf, PhaseNext DEF S!Login
  <2> QED BY <2>2, <2>4 DEF Simulated, S!Next
<1>7. CASE status = "BUSY"
  <2>1. logged_in
    BY <1>7 DEF LoginInv
  <2> QED BY <1>1, <1>3, <1>5, <1>7, <2>1, ReadsLast
<1> QED BY <1>4, <1>6, <1>7

(* A result set and the description of a statement are answers to commands.  *)
LEMMA ReadingIsBusy ==
    ASSUME Inv, HavePacket, InSequence, Peek \notin {"ROW", "HANDSHAKE"},
           reply.kind \in {"RESULT", "PREPARE"}
    PROVE  status = "BUSY"
<1>1. status \in {"BUSY", "CONNECTING"}
  BY PhaseFacts
<1>2. status = "CONNECTING" => reply \in LoginReplies
  BY PhaseFacts
<1> QED BY <1>1, <1>2, LoginKinds

LEMMA ReadResultSimulated ==
    ASSUME Going, Inv, LoginInv, ReadResult
    PROVE  Simulated
<1>1. /\ Accept({"RESPONSE"}, {"RESULT"})
      /\ UNCHANGED <<status, in_row, logged_in>>
  BY DEF ReadResult, resultVars
<1>2. /\ HavePacket /\ InSequence /\ Peek = "RESPONSE" /\ Packet = "RESULT"
      /\ reply \in Reply
  BY <1>1, AcceptFacts
<1>3. ResponseInv
  BY <1>2, PhaseFacts
<1>4. pos = 0 /\ reply.kind = "RESULT"
  BY <1>2, <1>3, ResponsePackets DEF Inv
<1>5. pos + 1 < PacketCount(reply)
  BY <1>2, <1>4, CountFacts DEF Reply
<1>6. status = "BUSY"
  BY <1>2, <1>4, ReadingIsBusy
<1> QED BY <1>1, <1>5, <1>6, ReadsOn

LEMMA ReadColumnSimulated ==
    ASSUME Going, Inv, LoginInv, ReadColumn
    PROVE  Simulated
<1>1. /\ Accept({"COLUMN"}, {"COLUMN"})
      /\ UNCHANGED <<status, in_row, logged_in>>
  BY DEF ReadColumn, resultVars
<1>2. /\ HavePacket /\ InSequence /\ Peek = "COLUMN"
      /\ reply \in Reply /\ pos \in Nat
  BY <1>1, AcceptFacts
<1>3. pos <= reply.cols /\ reply.kind = "RESULT"
  BY <1>2, PhaseFacts DEF ColumnInv
<1>4. pos + 1 < PacketCount(reply)
  BY <1>2, <1>3, CountFacts DEF Reply
<1>5. status = "BUSY"
  BY <1>2, <1>3, ReadingIsBusy
<1> QED BY <1>1, <1>4, <1>5, ReadsOn

LEMMA ReadPrepareParameterSimulated ==
    ASSUME Going, Inv, LoginInv, ReadPrepareParameter
    PROVE  Simulated
<1>1. /\ Accept({"PREPARE_PARAMETER"}, {"PARAM"})
      /\ UNCHANGED <<status, in_row, logged_in>>
  BY DEF ReadPrepareParameter, resultVars
<1>2. /\ HavePacket /\ InSequence /\ Peek = "PREPARE_PARAMETER"
      /\ reply \in Reply /\ pos \in Nat
  BY <1>1, AcceptFacts
<1>3. ParameterInv
  BY <1>2, PhaseFacts
<1>4. /\ reply.kind = "PREPARE" /\ pos <= reply.params /\ pos > 0
      /\ reply.params \in Nat /\ reply.cols \in Nat
  BY <1>2, <1>3
  DEF ParameterInv, Reply, Inv, TypeOK, ResultTypeOK
<1>5. /\ Definitions(reply.params) = reply.params + 1
      /\ Definitions(reply.cols) \in Nat
  BY <1>2, <1>4 DEF Definitions
<1>6. pos + 1 < PacketCount(reply)
  BY <1>2, <1>4, <1>5, CountFacts
<1>7. status = "BUSY"
  BY <1>2, <1>4, ReadingIsBusy
<1> QED BY <1>1, <1>6, <1>7, ReadsOn

LEMMA ReadPrepareColumnSimulated ==
    ASSUME Going, Inv, LoginInv, ReadPrepareColumn
    PROVE  Simulated
<1>1. /\ Accept({"PREPARE_COLUMN"}, {"COLUMN"})
      /\ UNCHANGED <<status, in_row, logged_in>>
  BY DEF ReadPrepareColumn, resultVars
<1>2. /\ HavePacket /\ InSequence /\ Peek = "PREPARE_COLUMN"
      /\ reply \in Reply /\ pos \in Nat
  BY <1>1, AcceptFacts
<1>3. PrepareColumnInv
  BY <1>2, PhaseFacts
<1>4. /\ reply.kind = "PREPARE" /\ reply.params \in Nat /\ reply.cols \in Nat
      /\ stmt.current_column \in Nat /\ stmt.current_column < reply.cols
      /\ pos = 1 + Definitions(reply.params) + stmt.current_column
  BY <1>2, <1>3
  DEF PrepareColumnInv, Reply, Inv, TypeOK, ResultTypeOK
<1>5. /\ Definitions(reply.params) \in Nat
      /\ Definitions(reply.cols) = reply.cols + 1
  BY <1>4 DEF Definitions
<1>6. pos + 1 < PacketCount(reply)
  BY <1>2, <1>4, <1>5, CountFacts
<1>7. status = "BUSY"
  BY <1>2, <1>4, ReadingIsBusy
<1> QED BY <1>1, <1>6, <1>7, ReadsOn

LEMMA ReadPrepareOkSimulated ==
    ASSUME Going, Inv, LoginInv, ReadPrepareOk
    PROVE  Simulated
<1>1. /\ Accept({"PREPARE_RESPONSE"}, {"PREPARE_OK"})
      /\ UNCHANGED <<in_row, logged_in>> /\ ~in_row
  BY DEF ReadPrepareOk, resultVars, Accept, HavePacket
<1>2. /\ HavePacket /\ InSequence /\ Peek = "PREPARE_RESPONSE"
      /\ Packet = "PREPARE_OK" /\ reply \in Reply /\ pos \in Nat
  BY <1>1, AcceptFacts
<1>3. PrepareResponseInv
  BY <1>2, PhaseFacts
<1>4. reply.kind = "PREPARE" /\ pos = 0
  BY <1>2, <1>3, PhaseFacts, OtherPackets DEF PrepareResponseInv
<1>5. status = "BUSY" /\ logged_in
  BY <1>2, <1>4, ReadingIsBusy DEF LoginInv
<1>6. reply.params \in Nat /\ reply.cols \in Nat
  BY <1>2 DEF Reply
<1>7. PacketCount(reply) = 1 + Definitions(reply.params)
                             + Definitions(reply.cols)
  BY <1>2, <1>4, CountFacts
<1>8. CASE reply.params + reply.cols = 0
  <2>1. status' = "IDLE" /\ command_status' = "EOF"
    BY <1>8 DEF ReadPrepareOk
  <2>2. pos + 1 = PacketCount(reply)
    BY <1>4, <1>6, <1>7, <1>8 DEF Definitions
  <2> QED BY <1>1, <1>4, <1>5, <2>1, <2>2, ReadsLast
<1>9. CASE reply.params + reply.cols # 0
  <2>1. status' = status
    BY <1>9 DEF ReadPrepareOk
  <2>2. pos + 1 < PacketCount(reply)
    BY <1>4, <1>6, <1>7, <1>9 DEF Definitions
  <2> QED BY <1>1, <1>5, <2>1, <2>2, ReadsOn
<1> QED BY <1>8, <1>9

LEMMA ReadEofSimulated ==
    ASSUME Going, Inv, LoginInv, ReadEof
    PROVE  Simulated
<1>1. /\ Accept({"RESPONSE"}, {"EOF"})
      /\ UNCHANGED <<in_row, logged_in>> /\ ~in_row
  BY DEF ReadEof, resultVars, Accept, HavePacket
<1>2. /\ HavePacket /\ InSequence /\ Peek = "RESPONSE" /\ Packet = "EOF"
      /\ reply \in Reply /\ pos \in Nat
  BY <1>1, AcceptFacts
<1>3. /\ ResponseInv
      /\ command_status \in {"READ_COLUMN", "READ_STMT_PARAM",
                             "READ_STMT_COLUMN"}
  BY <1>2, PhaseFacts, ResponsePackets DEF Inv
<1>4. reply.params \in Nat /\ reply.cols \in Nat /\ reply.rows \in Nat
  BY <1>2 DEF Reply
<1>5. reply.kind \in {"RESULT", "PREPARE"}
  BY <1>3 DEF ResponseInv
<1>6. status = "BUSY" /\ logged_in
  BY <1>2, <1>5, ReadingIsBusy DEF LoginInv
<1>7. CASE command_status = "READ_COLUMN"
  <2>1. status' = status
    BY <1>7 DEF ReadEof, EofResponse, AfterEof
  <2>2. pos + 1 < PacketCount(reply)
    BY <1>2, <1>3, <1>4, <1>7, CountFacts DEF ResponseInv
  <2> QED BY <1>1, <1>6, <2>1, <2>2, ReadsOn
<1>8. CASE command_status = "READ_STMT_PARAM" /\ stmt.cols > 0
  <2>1. status' = status
    BY <1>8 DEF ReadEof, EofResponse, AfterEof
  <2>2. pos + 1 < PacketCount(reply)
    BY <1>2, <1>3, <1>4, <1>8, CountFacts DEF ResponseInv, Definitions
  <2> QED BY <1>1, <1>6, <2>1, <2>2, ReadsOn
<1>9. CASE \/ command_status = "READ_STMT_PARAM" /\ ~(stmt.cols > 0)
           \/ command_status = "READ_STMT_COLUMN"
  <2>1. status' = "IDLE" /\ command_status' = "EOF"
    BY <1>9 DEF ReadEof, EofResponse, AfterEof
  <2>2. pos + 1 = PacketCount(reply) /\ reply.kind = "PREPARE"
    BY <1>2, <1>3, <1>4, <1>9, CountFacts DEF ResponseInv, Definitions
  <2> QED BY <1>1, <1>6, <2>1, <2>2, ReadsLast
<1> QED BY <1>3, <1>7, <1>8, <1>9

(* A row is given, or the end after the last one.                            *)
LEMMA ReadRowSimulated ==
    ASSUME Going, Inv, LoginInv, ReadRow
    PROVE  Simulated
<1>1. /\ Accept({"ROW"}, {"ROW", "EOF", "ERR"})
      /\ UNCHANGED logged_in
  BY DEF ReadRow
<1>2. /\ HavePacket /\ InSequence /\ Peek = "ROW"
      /\ reply \in Reply /\ pos \in Nat /\ rows_taken \in Nat
  BY <1>1, AcceptFacts
<1>3. /\ Packet = PacketAt(reply, pos + 1)
      /\ RowInv /\ status \in {"BUSY", "IDLE"}
  BY <1>2, PhaseFacts
<1>4. /\ reply.cols \in Nat /\ reply.rows \in Nat
      /\ reply.kind = "RESULT" /\ reply.end = "EOF"
      /\ command_status = "READ_ROW"
      /\ pos = reply.cols + 2 + rows_taken /\ rows_taken <= reply.rows
  BY <1>2, <1>3 DEF Reply, RowInv, Inv, WireInv
<1>5. logged_in
  BY <1>4 DEF LoginInv
<1>6. PacketCount(reply) = reply.cols + reply.rows + 3
  BY <1>2, <1>4, CountFacts
<1>7. CASE rows_taken < reply.rows
  <2>1. Packet = "ROW"
    BY <1>2, <1>3, <1>4, <1>7, ResultPackets
  <2>2. status' = "IDLE" /\ command_status' = "ROW_IN_BUFFER" /\ in_row' = TRUE
    BY <2>1 DEF ReadRow
  <2>3. LoginInv'
    BY <1>1, <1>5, <2>2 DEF LoginInv
  <2>4. pos + 1 < PacketCount(reply)
    BY <1>2, <1>4, <1>6, <1>7
  <2>5. /\ Unread /\ Unread' /\ ~stale /\ stale' = stale
        /\ SessionRows' = SessionRows
    BY <1>1, <2>4, AcceptFacts, RowsNext
  <2>6. SessionRows > 0
    BY <1>2, <1>4, <1>7 DEF SessionRows
  <2>7. SessionPhase \in {"working", "asking"} /\ SessionPhase' = "row"
    BY <1>1, <1>3, <1>4, <1>5, <2>2, PhaseOf, PhaseNext
  <2>8. S!GiveRow
    BY <1>1, <1>5, <2>2, <2>5, <2>6, <2>7 DEF S!GiveRow
  <2> QED BY <2>3, <2>8 DEF Simulated, S!Next
<1>8. CASE rows_taken = reply.rows
  <2>1. Packet = "EOF"
    BY <1>2, <1>3, <1>4, <1>8, ResultPackets
  <2>2. status' = "IDLE" /\ command_status' = "EOF" /\ in_row' = FALSE
    BY <1>4, <2>1 DEF ReadRow, EofResponse, AfterEof
  <2>4. in_row = FALSE
    BY <1>1, AcceptFacts, Zenon DEF Inv, TypeOK, ResultTypeOK
  <2>3. pos + 1 = PacketCount(reply)
    BY <1>2, <1>4, <1>6, <1>8
  <2> QED BY <1>1, <1>3, <1>4, <1>5, <1>8, <2>2, <2>3, <2>4, ReadsLast
<1> QED BY <1>2, <1>4, <1>7, <1>8

(* A refused packet ends the answer as far as the application sees, but it   *)
(* stays at the head of the stream.                                          *)
LEMMA GivesUp ==
    ASSUME Going, Inv, LoginInv,
           command_status' \in {"READ_FAILED", "SEND_FAILED"},
           UNCHANGED <<status, more_results, stream, reply, pos, rows_taken,
                       in_row, stale, logged_in>>
    PROVE  Simulated
<1>1. LoginInv'
  BY DEF LoginInv
<1>2. CASE /\ status = "IDLE" /\ logged_in
           /\ command_status \in {"ROW_IN_BUFFER", "READ_ROW"}
  <2>1. S!CommandRefused
    BY <1>2, PhaseOf, PhaseNext, AnswerKept DEF S!CommandRefused
  <2> QED BY <1>1, <2>1 DEF Simulated, S!Next
<1>3. CASE ~(/\ status = "IDLE" /\ logged_in
             /\ command_status \in {"ROW_IN_BUFFER", "READ_ROW"})
  <2>1. status \in Statuses
    BY DEF Inv, TypeOK, ConTypeOK
  <2>2. SessionPhase' = SessionPhase
    BY <1>3, <2>1 DEF SessionPhase, Going
  <2> QED BY <1>1, <2>2, AnswerKept DEF Simulated, S!vars
<1> QED BY <1>2, <1>3

-----------------------------------------------------------------------------
(* The application's calls                                                   *)

LEMMA GetNextRowIsTakeRow ==
    ASSUME Going, Inv, LoginInv, GetNextRow,
           status = "IDLE", command_status = "ROW_IN_BUFFER",
           UNCHANGED <<netVars, wireVars, stale, logged_in>>
    PROVE  Simulated
<1>1. Together
  BY DEF Inv, StreamInv, StaleInv, RowInHandInv, SentOverInv, Together
<1>2. Peek = "NONE"
  BY <1>1 DEF Inv, ReaderInv, RowInv
<1>3. reply.kind = "RESULT" /\ rows_taken < reply.rows
  BY <1>1, <1>2 DEF Inv, ReaderInv, NothingInv
<1>4. reply \in Reply /\ reply.rows \in Nat /\ rows_taken \in Nat
  BY DEF Inv, TypeOK, WireTypeOK, Reply
<1>5. logged_in /\ logged_in'
  BY <1>3 DEF LoginInv
<1>6. /\ status' = "IDLE" /\ command_status' = "READ_ROW"
      /\ rows_taken' = rows_taken + 1 /\ in_row' = FALSE
      /\ UNCHANGED <<reply, pos, stale>>
  BY DEF GetNextRow, wireVars
<1>7. LoginInv'
  BY <1>5, <1>6 DEF LoginInv
<1>8. SessionRows > 0 /\ SessionRows' = SessionRows - 1
  BY <1>3, <1>4, <1>6 DEF SessionRows
<1>9. Unread' = Unread
  BY <1>6 DEF Unread
<1>10. SessionPhase = "row" /\ SessionPhase' = "asking"
  BY <1>5, <1>6, PhaseOf, PhaseNext
<1>11. S!TakeRow
  BY <1>5, <1>6, <1>8, <1>9, <1>10 DEF S!TakeRow
<1> QED BY <1>7, <1>11 DEF Simulated, S!Next

(* A new answer takes the place of one that was read to its end.             *)
LEMMA AnswersIsCommand ==
    ASSUME Going, Inv, LoginInv, NoRowErrors,
           status \in {"IDLE", "CONNECT_FAILED"}, ~Unread, logged_in,
           NEW command \in Commands, NEW r \in Answers(command), NEW b,
           Answer(r, b), status' = "BUSY",
           UNCHANGED <<in_row, stale, logged_in>>
    PROVE  Simulated
<1>1. r \in Reply /\ reply' = r /\ rows_taken' = 0
  BY AnswerKinds DEF Answer
<1>2. LoginInv'
  BY DEF LoginInv
<1>3. SessionRows' \in Nat
  BY <1>1 DEF SessionRows, Reply
<1>4. SessionPhase \in {"ready", "row", "asking"} /\ SessionPhase' = "working"
  BY PhaseOf, PhaseNext
<1>5. (logged_in /\ Unread)' \in BOOLEAN
  OBVIOUS
<1>6. S!Command
  BY <1>3, <1>4, <1>5 DEF S!Command
<1> QED BY <1>2, <1>6 DEF Simulated, S!Next

LEMMA SendOkIsCommand ==
    ASSUME Going, Inv, LoginInv, NoRowErrors, NEW command \in Commands,
           SendOk(command), UNCHANGED logged_in,
           status \in {"IDLE", "CONNECT_FAILED"}, logged_in
    PROVE  Simulated
<1>1. status' = "BUSY" /\ in_row' = in_row /\ (in_row => Unread)
  BY DEF SendOk, ResetResult, Inv, StaleInv, RowInHandInv
<1>2. CASE Unread
  <2>1. stale' = TRUE /\ UNCHANGED <<reply, pos, rows_taken>>
    BY <1>2 DEF SendOk, wireVars
  <2>2. LoginInv'
    BY <1>1 DEF LoginInv
  <2>3. SessionRows' = SessionRows /\ Unread'
    BY <1>2, <2>1 DEF SessionRows, Unread
  <2>4. SessionPhase \in {"ready", "row", "asking"} /\ SessionPhase' = "working"
    BY <1>1, PhaseOf, PhaseNext
  <2>5. S!Command
    BY <1>1, <1>2, <2>1, <2>3, <2>4 DEF S!Command
  <2> QED BY <2>2, <2>5 DEF Simulated, S!Next
<1>3. CASE ~Unread
  <2>1. PICK r \in Answers(command) : Answer(r, 0)
    BY <1>1, <1>3 DEF SendOk
  <2>2. UNCHANGED stale
    BY <1>1, <1>3 DEF SendOk
  <2> QED BY <1>1, <1>3, <2>1, <2>2, AnswersIsCommand
<1> QED BY <1>2, <1>3

LEMMA CommandSimulated ==
    ASSUME Going, Inv, LoginInv, NoRowErrors, NEW command \in Commands,
           NEW failed, Command(command, failed)
    PROVE  Simulated
<1>1. logged_in /\ logged_in' = logged_in
      /\ status \in {"IDLE", "CONNECT_FAILED", "NET_ERROR"}
  BY DEF Command
<1>2. CASE SendOk(command)
  <2>1. status \in {"IDLE", "CONNECT_FAILED"}
    BY <1>1, <1>2 DEF SendOk, Inv, StreamInv
  <2> QED BY <1>1, <1>2, <2>1, SendOkIsCommand
<1>3. CASE SendFail
  <2>1. status = "NET_ERROR" /\ UNCHANGED <<status, reply, pos, rows_taken,
                                            in_row, stale>>
    BY <1>3 DEF SendFail, ResetResult, Inv, StreamInv, wireVars
  <2>2. LoginInv'
    BY <1>1, <2>1 DEF LoginInv
  <2>3. UNCHANGED S!vars
    BY <1>1, <2>1, PhaseOf, PhaseNext, AnswerKept DEF S!vars
  <2> QED BY <2>2, <2>3 DEF Simulated
<1> QED BY <1>2, <1>3 DEF Command

LEMMA NextResultIsCommand ==
    ASSUME Going, Inv, LoginInv, NoRowErrors, NextResult
    PROVE  Simulated
<1>1. PICK r \in QueryReplies :
        Answer(r, (base + PacketCount(reply)) % 256)
  BY DEF NextResult
<1>2. r \in Answers("QUERY") /\ "QUERY" \in Commands
  BY DEF Answers, Commands
<1>3. logged_in /\ UNCHANGED <<in_row, stale, logged_in>>
  BY DEF NextResult, ResetResult, LoginInv
<1> QED BY <1>1, <1>2, <1>3, AnswersIsCommand DEF NextResult

LEMMA ReportConnectedQueryIsCommand ==
    ASSUME Going, Inv, LoginInv, NoRowErrors, ReportConnectedQuery
    PROVE  Simulated
<1>1. status = "IDLE" /\ logged_in /\ UNCHANGED logged_in
  BY DEF ReportConnectedQuery, ReportIdle, LoginInv
<1>2. PICK c \in Commands : SendOk(c)
  BY DEF ReportConnectedQuery, Commands
<1> QED BY <1>1, <1>2, SendOkIsCommand

-----------------------------------------------------------------------------
(* Every step                                                                *)

(* A row that was sent over is taken for an answer.                          *)
LEMMA MisreadIsGarble ==
    ASSUME Inv, LoginInv, Misread
    PROVE  Simulated
<1>1. /\ pc \in Processing /\ in_row /\ Peek # "NONE" /\ pc' = "misread"
      /\ UNCHANGED <<reply, pos, rows_taken, in_row, stale, logged_in, status,
                     command_status, more_results, stream>>
  BY DEF Misread, HaveRowBytes, resultVars, netVars, wireVars, history
<1>2. stale /\ status = "BUSY"
  BY <1>1 DEF Peek, Inv, StaleInv, RowInHandInv, SentOverInv
<1>3. SessionPhase = "working" /\ SessionPhase' = "garbled"
  <2>1. pc # "misread" /\ pc' = "misread" /\ status = "BUSY"
    BY <1>1, <1>2 DEF Processing
  <2>2. SessionPhase = "working"
    BY <2>1, Zenon DEF SessionPhase
  <2>3. SessionPhase' = "garbled"
    BY <2>1, Zenon DEF SessionPhase
  <2> QED BY <2>2, <2>3
<1>4. LoginInv'
  BY <1>1 DEF LoginInv
<1>5. S!Garble
  BY <1>1, <1>2, <1>3, AnswerKept DEF S!Garble
<1> QED BY <1>4, <1>5 DEF Simulated, S!Next

LEMMA StepSimulated ==
    ASSUME NoRowErrors, Inv, LoginInv, [Next]_vars
    PROVE  Simulated
<1>15. CASE Misread
  BY <1>15, MisreadIsGarble
<1>16. CASE Aborted \/ UNCHANGED vars
  <2>1. UNCHANGED <<status, command_status, more_results, stream, reply, pos,
                    rows_taken, in_row, stale, logged_in, pc>>
    BY <1>16 DEF Aborted, vars, conVars, resultVars, netVars, wireVars
  <2> QED BY <2>1, NoStep
<1> SUFFICES ASSUME Next, ~Misread, ~Aborted PROVE Simulated
  BY <1>15, <1>16
<1>g. Going
  BY OnlyMisread
<1> USE <1>g
<1>1. CASE Connect \/ QueryConnect \/ StatementPrepareConnect
  BY <1>1, ConnectIsOpen DEF Connect, QueryConnect, StatementPrepareConnect
<1>2. CASE \/ Poll \/ QueryRefused \/ QueryClose \/ BufferRows
           \/ ConnectReturn \/ ReadData \/ LoopEnd \/ PacketsDone
           \/ Report \/ ReportEof \/ ReportRow \/ ReportConnected
           \/ ReportLost
  <2>1. UNCHANGED <<status, command_status, more_results, stream, reply, pos,
                    rows_taken, in_row, stale, logged_in>>
    BY <1>2
    DEF Poll, QueryRefused, QueryClose, BufferRows, ConnectReturn, ReadData,
        LoopEnd, PacketsDone, Report, ReportEof, ReportRow, ReportConnected,
        ReportLost, conVars, resultVars, netVars, wireVars, history
  <2> QED BY <2>1, NoStep DEF Going
<1>3. CASE Query \/ StatementPrepare \/ StatementExecute \/ StatementClose
  BY <1>3, CommandSimulated
  DEF Query, StatementPrepare, StatementExecute, StatementClose, Commands
<1>4. CASE RowNext
  <2>1. status = "IDLE" /\ command_status = "ROW_IN_BUFFER"
    BY <1>4 DEF RowNext, Inv, StreamInv
  <2> QED BY <1>4, <2>1, GetNextRowIsTakeRow DEF RowNext
<1>5. CASE ReportBufferRow
  BY <1>5, GetNextRowIsTakeRow DEF ReportBufferRow, ReportIdle
<1>6. CASE NextResult
  BY <1>6, NextResultIsCommand
<1>7. CASE ReportConnectedQuery
  BY <1>7, ReportConnectedQueryIsCommand
<1>8. CASE StatementExecuteBad \/ OutOfSequence
  BY <1>8, GivesUp
  DEF StatementExecuteBad, OutOfSequence, resultVars, netVars, wireVars,
      history
<1>9. CASE OnResolved \/ OnConnect
  BY <1>9, OnResolvedSimulated, OnConnectSimulated
<1>10. CASE OnWrite
  BY <1>10, OnWriteSimulated
<1>11. CASE OnWriteFail \/ ReadFail
  <2>1. stream \in {"open", "closed"}
    BY <1>11
    DEF OnWriteFail, ReadFail, Inv, StreamInv, TypeOK, WireTypeOK
  <2> QED BY <1>11, <2>1, NetErrorIsLose DEF OnWriteFail, ReadFail
<1>12. CASE ReadHandshake \/ ReadBadHandshake \/ ReadOk \/ ReadErr
  BY <1>12, ReadHandshakeSimulated, ReadBadHandshakeSimulated,
     ReadOkSimulated, ReadErrSimulated
<1>13. CASE ReadResult \/ ReadColumn \/ ReadEof \/ ReadRow
  BY <1>13, ReadResultSimulated, ReadColumnSimulated, ReadEofSimulated,
     ReadRowSimulated
<1>14. CASE ReadPrepareOk \/ ReadPrepareParameter \/ ReadPrepareColumn
  BY <1>14, ReadPrepareOkSimulated, ReadPrepareParameterSimulated,
     ReadPrepareColumnSimulated
<1> QED
  BY <1>1, <1>2, <1>3, <1>4, <1>5, <1>6, <1>7, <1>8, <1>9, <1>10, <1>11,
     <1>12, <1>13, <1>14
  DEF Next, Application, Loop, ProcessPackets, Reports

(* A connection is a session, for every server that ends its result sets and *)
(* every application: the callbacks of net.cc, the commands and the calls    *)
(* between polls give the rows of an answer one by one and each once, the    *)
(* end after the last, and nothing of an answer that was walked away from.   *)
THEOREM IsSessionCorrect ==
    ASSUME NoRowErrors
    PROVE  Spec => IsSession
<1>1. Init => LoginInv /\ S!Init
  BY SessionInit
<1>2. Inv /\ LoginInv /\ [Next]_vars => LoginInv' /\ [S!Next]_(S!vars)
  BY StepSimulated DEF Simulated
<1> QED BY <1>1, <1>2, InvCorrect, PTL DEF Spec, IsSession, S!Spec


-----------------------------------------------------------------------------
(* What attachsql_connect_poll tells the application                         *)

(* The packet that was read last when a row is announced is a row.           *)
THEOREM RowReadyIsRowCorrect ==
    ASSUME NoRowErrors
    PROVE  Spec => []RowReadyIsRow
<1>1. Inv => RowReadyIsRow
  <2> SUFFICES ASSUME Inv, pc = "app", ret = "ROW_READY", ~stale
               PROVE  PacketAt(reply, pos) = "ROW"
    BY DEF RowReadyIsRow
  <2>1. status = "IDLE" /\ command_status = "ROW_IN_BUFFER" /\ Together
    BY DEF Inv, StreamInv, Together
  <2>2. Peek = "NONE"
    BY <2>1 DEF Inv, ReaderInv, RowInv
  <2>3. /\ reply.kind = "RESULT" /\ pos = reply.cols + 3 + rows_taken
        /\ rows_taken < reply.rows
    BY <2>1, <2>2 DEF Inv, ReaderInv, NothingInv
  <2>4. /\ reply \in Reply /\ pos \in Nat /\ rows_taken \in Nat
        /\ reply.cols \in Nat /\ reply.rows \in Nat
    BY DEF Inv, TypeOK, WireTypeOK, Reply
  <2> QED BY <2>3, <2>4, ResultPackets
<1> QED BY <1>1, InvCorrect, PTL

(* EofMeansNoMoreRows with what makes it inductive: the one caller of        *)
(* attachsql_con_process_packets that leaves the last return value alone has *)
(* cleared it.                                                               *)
ToldInv == (pc = "next" => ret # "EOF") /\ EofMeansNoMoreRows

LEMMA IdleToldEof ==
    ASSUME Inv, pc = "report", status = "IDLE", ~stale, reply.kind = "RESULT",
           command_status # "ROW_IN_BUFFER"
    PROVE  \/ rows_taken = reply.rows
           \/ command_status \in {"READ_ROW", "READ_FAILED", "SEND_FAILED"}
<1>1. Together
  BY DEF Inv, StreamInv, Together
<1>2. CASE Peek = "NONE"
  BY <1>1, <1>2 DEF Inv, ReaderInv, NothingInv
<1>3. CASE Peek # "NONE"
  BY <1>1, <1>3 DEF Inv, ReaderInv, RowInv
<1> QED BY <1>2, <1>3

LEMMA ToldStep ==
    ASSUME Inv, ToldInv, [Next]_vars
    PROVE  ToldInv'
<1> USE DEF ToldInv, EofMeansNoMoreRows
<1>1. CASE Application
  BY <1>1
  DEF Application, Connect, Poll, QueryConnect, Query, QueryRefused,
      QueryClose, RowNext, NextResult, BufferRows, StatementPrepareConnect,
      StatementPrepare, StatementExecute, StatementExecuteBad, StatementClose,
      StartConnect, Command, Call, Settled, conVars, wireVars, history
<1>2. CASE Loop
  BY <1>2
  DEF Loop, OnResolved, OnConnect, ConnectReturn, OnWrite, OnWriteFail,
      ReadFail, ReadData, LoopEnd, NetError
<1>3. CASE ProcessPackets
  <2>1. CASE PacketsDone \/ OutOfSequence \/ ReadRow
    BY <2>1
    DEF PacketsDone, OutOfSequence, ReadRow, Return, Accept, HavePacket,
        HaveRowBytes, Processing
  <2>3. CASE Misread
    BY <2>3 DEF Misread
  <2>2. CASE \/ ReadHandshake \/ ReadBadHandshake \/ ReadOk \/ ReadErr
             \/ ReadResult \/ ReadColumn \/ ReadEof \/ ReadPrepareOk
             \/ ReadPrepareParameter \/ ReadPrepareColumn
    <3>1. pc' = pc /\ ret' = ret /\ pc \in Processing
      BY <2>2
      DEF ReadHandshake, ReadBadHandshake, ReadOk, ReadErr, ReadResult,
          ReadColumn, ReadEof, ReadPrepareOk, ReadPrepareParameter,
          ReadPrepareColumn, Accept, HavePacket
    <3> QED BY <3>1 DEF Processing
  <2> QED BY <1>3, <2>1, <2>2, <2>3 DEF ProcessPackets
<1>4. CASE \/ Report \/ ReportRow \/ ReportBufferRow \/ ReportConnectedQuery
  BY <1>4 DEF Report, ReportRow, ReportBufferRow, ReportConnectedQuery
<1>5. CASE ReportEof \/ ReportConnected \/ ReportLost
  <2>1. /\ pc = "report" /\ status = "IDLE"
        /\ command_status # "ROW_IN_BUFFER"
        /\ command_status \notin {"EOF", "CONNECTED"} /\ pc' = "app" =>
             ~Assertions
        /\ UNCHANGED <<command_status, reply, rows_taken, stale>>
        /\ pc' # "next"
    BY <1>5
    DEF ReportEof, ReportConnected, ReportLost, ReportIdle, conVars, wireVars,
        history
  <2> QED BY <2>1, IdleToldEof
<1>6. CASE Aborted \/ UNCHANGED vars
  BY <1>6 DEF Aborted, vars, conVars, wireVars
<1> QED BY <1>1, <1>2, <1>3, <1>4, <1>5, <1>6 DEF Next, Reports

(* Poll says EOF only when every row of the result has been retrieved, save  *)
(* in the cases where a build with assertions stops at assert(0).            *)
THEOREM EofMeansNoMoreRowsCorrect ==
    ASSUME NoRowErrors
    PROVE  Spec => []EofMeansNoMoreRows
<1>1. Init => ToldInv
  BY DEF Init, ToldInv, EofMeansNoMoreRows
<1>2. Inv /\ ToldInv /\ [Next]_vars => ToldInv'
  BY ToldStep
<1>3. ToldInv => EofMeansNoMoreRows
  BY DEF ToldInv
<1> QED BY <1>1, <1>2, <1>3, InvCorrect, PTL DEF Spec
=============================================================================

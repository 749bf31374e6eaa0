------------------------- MODULE TransactionsProofs -------------------------
(***************************************************************************)
(* Theorems about Transactions: types, the immutability of a transaction   *)
(* that has ended, and what relates its tables, threads and robot: who     *)
(* owns a transaction, which answers are published, which cancels are sent *)
(* and who is answerable for a dispatched row; and that Transactions       *)
(* implements RequestLedger, call by call.                                 *)
(***************************************************************************)
EXTENDS Transactions, FiniteSetTheorems, TLAPS

(***************************************************************************)
(* Types                                                                   *)
(***************************************************************************)

LEMMA TypesInit == Init => TypeOK
BY RequestTypes DEF Init, Requests, TypeOK, TableTypes, ExecTypes, RobotTypes, WorkerTypes,
                    HistTypes, ActiveTx, ServiceActive, ActionActive, ActiveRow

\* What update_transaction and finish leave in the tables.
LEMMA SetStateTypes ==
    ASSUME TypeOK, NEW k \in Requests, NEW state \in ActiveTx \union TerminalTx,
           SetState(k, state)
    PROVE  tx' \in [Corrs -> {"none"} \union ActiveTx \union TerminalTx]
BY RequestTypes DEF TypeOK, TableTypes, SetState

LEMMA FinishTypes ==
    ASSUME TypeOK, NEW S, NEW outcome \in {"succeeded", "failed"}, FinishRows(S, outcome)
    PROVE  row' \in [Requests -> {"none", "succeeded", "failed", "unknown"} \union ActiveRow]
BY DEF TypeOK, TableTypes, FinishRows

LEMMA TellTypes ==
    ASSUME TypeOK, NEW k \in Requests, NEW outcome \in TerminalTx, Tell(k, outcome)
    PROVE  told' \in [Requests -> SUBSET TerminalTx]
BY DEF TypeOK, HistTypes, Tell

LEMMA EndInTypes ==
    ASSUME TypeOK, NEW k \in Requests, NEW state \in TerminalTx,
           NEW outcome \in {"succeeded", "failed"}, EndIn(k, state, outcome)
    PROVE  /\ tx' \in [Corrs -> {"none"} \union ActiveTx \union TerminalTx]
           /\ told' \in [Requests -> SUBSET TerminalTx]
           /\ ExecTypes'
BY SetStateTypes, TellTypes DEF EndIn, ExecTypes

LEMMA TypesStep == TypeOK /\ [Next]_vars => TypeOK'
<1> SUFFICES ASSUME TypeOK, [Next]_vars PROVE TypeOK'
  OBVIOUS
<1> USE RequestTypes DEF TypeOK, TableTypes, ExecTypes, RobotTypes, WorkerTypes, HistTypes,
                         execVars, robotVars, graphVars, termVars, serverVars, histVars,
                         boundVars, ActiveRow, Requests
<1>1. ASSUME NEW k \in Requests, Arrive(k) PROVE TypeOK'
  BY <1>1 DEF Arrive
<1>2. ASSUME NEW k \in Goals, Cancel(k) PROVE TypeOK'
  <2>1. "canceling" \in ActiveTx
    BY DEF ActiveTx, ActionActive
  <2> QED BY <1>2, <2>1, SetStateTypes DEF Cancel
<1>3. ASSUME NEW S \in SUBSET Bounded, TimeOut(S) PROVE TypeOK'
  BY <1>3 DEF TimeOut, TerminalTx
<1>4. ASSUME NEW k \in Requests, Claim(k) PROVE TypeOK'
  BY <1>4 DEF Claim
<1>5. ASSUME NEW k \in Requests, Refuse(k) PROVE TypeOK'
  BY <1>5 DEF Refuse
<1>6. ASSUME NEW k \in Requests, Begin(k) PROVE TypeOK'
  BY <1>6 DEF Begin, ActiveTx, ServiceActive, ActionActive
<1>7. ASSUME NEW k \in Requests, NoServer(k) PROVE TypeOK'
  <2>1. {"failed", "serverUnavailable"} \subseteq TerminalTx
    BY DEF TerminalTx
  <2> QED BY <1>7, <2>1, EndInTypes DEF NoServer
<1>8. ASSUME NEW k \in Requests, Misfit(k) PROVE TypeOK'
  BY <1>8 DEF Misfit
<1>9. ASSUME NEW k \in Requests, Prepare(k) PROVE TypeOK'
  <2>1. "accepted" \in ActiveTx
    BY DEF ActiveTx, ServiceActive
  <2> QED BY <1>9, <2>1, SetStateTypes DEF Prepare
<1>10. ASSUME NEW k \in Requests, Call(k) PROVE TypeOK'
  BY <1>10 DEF Call
<1>11. ASSUME NEW k \in Requests, CallFails(k) PROVE TypeOK'
  <2>1. {"rejected", "goalRejected", "failed"} \subseteq TerminalTx
    BY DEF TerminalTx
  <2> QED BY <1>11, <2>1, EndInTypes DEF CallFails
<1>12. ASSUME NEW k \in Requests, Record(k) PROVE TypeOK'
  <2>1. {"invoked", "goalSent"} \subseteq ActiveTx
    BY DEF ActiveTx, ServiceActive, ActionActive
  <2> QED BY <1>12, <2>1, SetStateTypes DEF Record
<1>13. ASSUME NEW k \in Requests, PublishAnswer(k) PROVE TypeOK'
  <2>1. {"responded", "resultReceived"} \subseteq TerminalTx
    BY DEF TerminalTx
  <2> QED BY <1>13, <2>1, TellTypes DEF PublishAnswer
<1>14. ASSUME NEW k \in Requests, Close(k) PROVE TypeOK'
  BY <1>14, FinishTypes DEF Close
<1>15. ASSUME NEW k \in Requests, NEW state \in TerminalTx, Answer(k, state)
       PROVE  /\ tx' \in [Corrs -> {"none"} \union ActiveTx \union TerminalTx]
              /\ ExecTypes'
  BY <1>15, SetStateTypes DEF Answer
<1>16. ASSUME NEW k \in Requests, NEW state \in TerminalTx, Negative(k, state)
       PROVE  /\ tx' \in [Corrs -> {"none"} \union ActiveTx \union TerminalTx]
              /\ ExecTypes'
              /\ told' \in [Requests -> SUBSET TerminalTx]
  BY <1>16, EndInTypes DEF Negative
<1>17. ASSUME NEW k \in Services, Respond(k) PROVE TypeOK'
  <2>1. {"responded", "failed"} \subseteq TerminalTx
    BY DEF TerminalTx
  <2> QED BY <1>17, <2>1, <1>15, <1>16 DEF Respond
<1>18. ASSUME NEW k \in Goals, AcceptGoal(k) PROVE TypeOK'
  <2>1. "goalAccepted" \in ActiveTx
    BY DEF ActiveTx, ActionActive
  <2> QED BY <1>18, <2>1, SetStateTypes DEF AcceptGoal
<1>19. ASSUME NEW k \in Goals, RejectGoal(k) PROVE TypeOK'
  <2>1. "goalRejected" \in TerminalTx
    BY DEF TerminalTx
  <2> QED BY <1>19, <2>1, <1>16 DEF RejectGoal
<1>20. ASSUME NEW k \in Goals, Result(k) PROVE TypeOK'
  <2>1. "resultReceived" \in TerminalTx
    BY DEF TerminalTx
  <2> QED BY <1>20, <2>1, <1>15 DEF Result
<1>21. CASE Graph
  BY <1>21 DEF Graph, Refresh, GoDown, ComeUp
<1>22. ASSUME NEW i \in Ifaces, Vanish(i) \/ Rejoin(i) PROVE TypeOK'
  BY <1>22 DEF Vanish, Rejoin
<1>23. ASSUME NEW k \in Requests, ReadTx(k) PROVE TypeOK'
  BY <1>23 DEF ReadTx
<1>24. CASE EndTx
  <2>1. {"failed", "serverUnavailable"} \subseteq TerminalTx
    BY DEF TerminalTx
  <2> QED BY <1>24, <2>1, SetStateTypes, TellTypes DEF EndTx
<1>25. CASE FinishTarget
  BY <1>25, FinishTypes DEF FinishTarget
<1>26. CASE SweepRows
  BY <1>26 DEF SweepRows
<1>27. ASSUME NEW k \in Requests, Orphan(k) PROVE TypeOK'
  <2>1. {"failed", "orphanedAtRestart"} \subseteq TerminalTx
    BY DEF TerminalTx
  <2> QED BY <1>27, <2>1, SetStateTypes, TellTypes DEF Orphan
<1>28. CASE StartSpinning
  BY <1>28 DEF StartSpinning
<1>29. CASE Stop
  BY <1>29, FinishTypes DEF Stop
<1>30. CASE Exit
  <2>1. tx' \in [Corrs -> {"none"} \union ActiveTx \union TerminalTx]
    BY <1>30, Zenon DEF Exit, TerminalTx
  <2>2. told' \in [Requests -> SUBSET TerminalTx]
    BY <1>30 DEF Exit, TerminalTx
  <2> QED BY <1>30, <2>1, <2>2 DEF Exit, LoseMemory
<1>31. CASE Crash
  BY <1>31 DEF Crash, LoseMemory
<1>32. CASE UNCHANGED vars
  BY <1>32 DEF vars
<1> QED
  BY <1>1, <1>2, <1>3, <1>4, <1>5, <1>6, <1>7, <1>8, <1>9, <1>10, <1>11, <1>12, <1>13,
     <1>14, <1>17, <1>18, <1>19, <1>20, <1>21, <1>22, <1>23, <1>24, <1>25, <1>26, <1>27,
     <1>28, <1>29, <1>30, <1>31, <1>32
     DEF Next, Dispatcher, Robot, Timer, Worker, Boot

\* Rows, transactions and the threads' positions keep to the vocabulary.
THEOREM TransactionTypes == Spec => []TypeOK
BY TypesInit, TypesStep, PTL DEF Spec
-----------------------------------------------------------------------------
(***************************************************************************)
(* A transaction that has ended stays as it is                             *)
(***************************************************************************)

Kept == \A c \in Corrs : tx[c] \in TerminalTx => tx'[c] = tx[c]

LEMMA EndedIsNotActive == ActiveTx \cap TerminalTx = {} /\ "none" \notin TerminalTx
BY DEF ActiveTx, ServiceActive, ActionActive, TerminalTx

LEMMA SetStateKeeps ==
    ASSUME TypeOK, NEW k \in Requests, NEW state, SetState(k, state)
    PROVE  Kept
BY RequestTypes, EndedIsNotActive DEF SetState, Kept, TypeOK, TableTypes

LEMMA EndedIsKept == TypeOK /\ [Next]_vars => Kept \/ UNCHANGED vars
<1> SUFFICES ASSUME TypeOK, Next PROVE Kept
  OBVIOUS
<1>1. ASSUME UNCHANGED tx PROVE Kept
  BY <1>1 DEF Kept
<1>2. ASSUME NEW k \in Requests, NEW state, NEW outcome, EndIn(k, state, outcome)
      PROVE  Kept
  BY <1>2, SetStateKeeps DEF EndIn
<1>3. ASSUME NEW k \in Requests, Arrive(k) \/ Cancel(k) PROVE Kept
  BY <1>3, <1>1, SetStateKeeps DEF Arrive, Cancel
<1>4. CASE Dispatcher
  <2> PICK k \in Requests :
           \/ Claim(k) \/ Refuse(k) \/ Begin(k) \/ NoServer(k) \/ Misfit(k)
           \/ Prepare(k) \/ Call(k) \/ CallFails(k) \/ Record(k)
           \/ PublishAnswer(k) \/ Close(k)
    BY <1>4 DEF Dispatcher
  <2>1. CASE Begin(k)
    BY <2>1, <1>1, RequestTypes, EndedIsNotActive DEF Begin, Kept, TypeOK, TableTypes
  <2>2. CASE NoServer(k) \/ CallFails(k)
    BY <2>2, <1>2 DEF NoServer, CallFails
  <2>3. CASE Prepare(k) \/ Record(k)
    BY <2>3, <1>1, SetStateKeeps DEF Prepare, Record
  <2> QED BY <2>1, <2>2, <2>3, <1>1
          DEF Claim, Refuse, Misfit, Call, PublishAnswer, Close
<1>5. CASE Robot
  <2>1. ASSUME NEW k \in Requests, NEW state, Answer(k, state) \/ Negative(k, state)
        PROVE  Kept
    BY <2>1, <1>1, <1>2, SetStateKeeps DEF Answer, Negative
  <2> QED BY <1>5, <2>1, SetStateKeeps
          DEF Robot, Respond, AcceptGoal, RejectGoal, Result, Requests
<1>6. CASE Timer
  <2> PICK S \in SUBSET Bounded : TimeOut(S)
    BY <1>6 DEF Timer
  <2> QED BY RequestTypes, EndedIsNotActive DEF TimeOut, Active, Kept
<1>7. CASE Graph
  BY <1>7, <1>1 DEF Graph, Refresh, GoDown, ComeUp
<1>8. CASE Worker
  <2>1. EndTx => Kept
    BY SetStateKeeps DEF EndTx, TypeOK, WorkerTypes
  <2> QED BY <1>8, <2>1, <1>1 DEF Worker, Vanish, Rejoin, ReadTx, FinishTarget
<1>9. CASE Boot
  BY <1>9, <1>1, SetStateKeeps DEF Boot, SweepRows, StartSpinning, Orphan
<1>10. CASE Stop \/ Crash
  BY <1>10, <1>1 DEF Stop, Crash
<1>11. CASE Exit
  <2>1. ASSUME NEW k \in Underway PROVE tx[CorrOf[k]] \notin TerminalTx
    BY <2>1 DEF Underway, TerminalTx
  <2>2. ASSUME NEW c \in Corrs, tx[c] \in TerminalTx PROVE tx'[c] = tx[c]
    <3>1. ~ \E k \in Underway : CorrOf[k] = c
      BY <2>1, <2>2
    <3> QED BY <1>11, <2>2, <3>1, Zenon DEF Exit
  <2> QED BY <2>2 DEF Kept
<1> QED
  BY <1>3, <1>4, <1>5, <1>6, <1>7, <1>8, <1>9, <1>10, <1>11 DEF Next, Requests

\* No late answer, second timeout, cancel, shutdown or boot changes a
\* transaction that has ended.
THEOREM TransactionsFinal == Spec => TerminalIsFinal
<1>1. TypeOK /\ [Next]_vars =>
          [\A c \in Corrs : tx[c] \in TerminalTx => tx'[c] = tx[c]]_vars
  BY EndedIsKept DEF Kept
<1> QED BY TransactionTypes, <1>1, PTL DEF Spec, TerminalIsFinal

(***************************************************************************)
(* Ownership                                                               *)
(***************************************************************************)

\* The requests with a transaction of their own.
Owners == {k \in Requests : Owns(k)}

\* Whoever waits for an answer, is in flight, is going to be terminated or
\* was reported about has a transaction of its own.
Ownership ==
    /\ \A k \in Owners : tx[CorrOf[k]] # "none"
    /\ sent \union handles \union inflight \union todo \subseteq Owners
    /\ asked \union answered \subseteq Owners
    /\ at \in {"begun", "ready", "called", "answering"} => job \subseteq Owners
    /\ IF termAt \in {"decided", "finishing"} THEN target \in Owners ELSE target = NoRequest

\* Only Begin gives a correlation id an owner, and a row stays a row.
Settled ==
    /\ \A c \in Corrs : tx[c] # "none" => tx'[c] # "none" /\ owner'[c] = owner[c]
    /\ \A c \in Corrs : owner'[c] # owner[c] => tx'[c] # "none"

LEMMA SetStateSettles ==
    ASSUME TypeOK, NEW k \in Requests, NEW state \in ActiveTx \union TerminalTx,
           SetState(k, state), UNCHANGED owner
    PROVE  Settled
BY RequestTypes, EndedIsNotActive
   DEF SetState, Settled, TypeOK, TableTypes, ActiveTx, ServiceActive, ActionActive

LEMMA RowsSettle == TypeOK /\ Next => Settled
<1> SUFFICES ASSUME TypeOK, Next PROVE Settled
  OBVIOUS
<1> DEFINE Words == ActiveTx \union TerminalTx
<1>w. /\ {"canceling", "accepted", "invoked", "goalSent", "goalAccepted"} \subseteq Words
      /\ {"failed", "serverUnavailable", "rejected", "goalRejected", "responded",
          "resultReceived", "orphanedAtRestart"} \subseteq Words
  BY DEF ActiveTx, ServiceActive, ActionActive, TerminalTx
<1> HIDE DEF Words
<1>1. ASSUME UNCHANGED <<tx, owner>> PROVE Settled
  BY <1>1 DEF Settled
<1>2. ASSUME NEW k \in Requests, NEW state \in Words, SetState(k, state), UNCHANGED owner
      PROVE  Settled
  BY <1>2, SetStateSettles DEF Words
<1>3. ASSUME NEW k \in Requests, Arrive(k) \/ Cancel(k) PROVE Settled
  BY <1>3, <1>1, <1>2, <1>w DEF Arrive, Cancel
<1>4. CASE Dispatcher
  <2> PICK k \in Requests :
           \/ Claim(k) \/ Refuse(k) \/ Begin(k) \/ NoServer(k) \/ Misfit(k)
           \/ Prepare(k) \/ Call(k) \/ CallFails(k) \/ Record(k)
           \/ PublishAnswer(k) \/ Close(k)
    BY <1>4 DEF Dispatcher
  <2>1. CASE Begin(k)
    BY <2>1, <1>1, RequestTypes DEF Begin, Settled, TypeOK, TableTypes
  <2>2. CASE NoServer(k) \/ CallFails(k)
    BY <2>2, <1>2, <1>w DEF NoServer, CallFails, EndIn
  <2>3. CASE Prepare(k) \/ Record(k)
    BY <2>3, <1>1, <1>2, <1>w DEF Prepare, Record
  <2> QED BY <2>1, <2>2, <2>3, <1>1
          DEF Claim, Refuse, Misfit, Call, PublishAnswer, Close
<1>5. CASE Robot
  <2>1. ASSUME NEW k \in Requests, NEW state \in Words, UNCHANGED owner,
               Answer(k, state) \/ Negative(k, state)
        PROVE  Settled
    BY <2>1, <1>1, <1>2 DEF Answer, Negative, EndIn
  <2> QED BY <1>5, <2>1, <1>2, <1>w
          DEF Robot, Respond, AcceptGoal, RejectGoal, Result, Requests
<1>6. CASE Timer
  BY <1>6 DEF Timer, TimeOut, Settled
<1>7. CASE Graph
  BY <1>7, <1>1 DEF Graph, Refresh, GoDown, ComeUp
<1>8. CASE Worker
  <2>1. EndTx => Settled
    BY <1>2, <1>w DEF EndTx, TypeOK, WorkerTypes
  <2> QED BY <1>8, <2>1, <1>1 DEF Worker, Vanish, Rejoin, ReadTx, FinishTarget
<1>9. CASE Boot
  BY <1>9, <1>1, <1>2, <1>w DEF Boot, SweepRows, StartSpinning, Orphan
<1>10. CASE Stop \/ Crash
  BY <1>10, <1>1 DEF Stop, Crash, LoseMemory
<1>11. CASE Exit
  <2>1. \A c \in Corrs : tx'[c] \in {tx[c], "failed", "shutdownAbandoned"}
    BY <1>11, Zenon DEF Exit
  <2> QED BY <1>11, <2>1 DEF Exit, LoseMemory, Settled
<1> QED
  BY <1>3, <1>4, <1>5, <1>6, <1>7, <1>8, <1>9, <1>10, <1>11 DEF Next, Requests

LEMMA OwnershipInit == Init => Ownership
BY RequestTypes DEF Init, Ownership, Owners, Owns, Requests

LEMMA OwnershipStep == TypeOK /\ Ownership /\ [Next]_vars => Ownership'
<1> SUFFICES ASSUME TypeOK, Ownership, Next PROVE Ownership'
  BY DEF vars, execVars, robotVars, graphVars, termVars, serverVars, histVars, Ownership,
         Owners, Owns
<1>1. Settled
  BY RowsSettle
<1>2. \A k \in Owners' : (tx[CorrOf[k]] # "none")'
  BY <1>1, RequestTypes DEF Settled, Ownership, Owners, Owns
<1>3. Owners \subseteq Owners'
  BY <1>1, RequestTypes DEF Settled, Ownership, Owners, Owns
<1> DEFINE Rest ==
      /\ sent \union handles \union inflight \union todo \subseteq Owners
      /\ asked \union answered \subseteq Owners
      /\ at \in {"begun", "ready", "called", "answering"} => job \subseteq Owners
      /\ IF termAt \in {"decided", "finishing"} THEN target \in Owners ELSE target = NoRequest
<1>4. Rest /\ (Rest' => Ownership')
  BY <1>2 DEF Ownership
<1> SUFFICES Rest'
  BY <1>4
<1> USE <1>3, <1>4 DEF execVars, robotVars, graphVars, termVars, serverVars, histVars
<1>6. ASSUME NEW k \in Requests, Arrive(k) \/ Cancel(k) PROVE Rest'
  BY <1>6 DEF Arrive, Cancel
<1>7. ASSUME NEW k \in Requests, Claim(k) \/ Refuse(k) \/ Misfit(k) PROVE Rest'
  BY <1>7 DEF Claim, Refuse, Misfit
<1>8. ASSUME NEW k \in Requests, Begin(k) PROVE Rest'
  <2>1. \A j \in job : j = k
    BY <1>8 DEF Begin, TypeOK, ExecTypes
  <2>2. tx[CorrOf[k]] = "none" => k \in Owners'
    BY <1>8, RequestTypes DEF Begin, TypeOK, TableTypes, Owners, Owns
  <2> QED BY <1>8, <2>1, <2>2 DEF Begin
<1>9. ASSUME NEW k \in Requests, NoServer(k) \/ CallFails(k) PROVE Rest'
  BY <1>9 DEF NoServer, CallFails, EndIn
<1>10. ASSUME NEW k \in Requests, Prepare(k) \/ Call(k) \/ Record(k) PROVE Rest'
  BY <1>10 DEF Prepare, Call, Record
<1>11. ASSUME NEW k \in Requests, PublishAnswer(k) \/ Close(k) PROVE Rest'
  BY <1>11 DEF PublishAnswer, Close
<1>12. ASSUME NEW k \in Requests, Respond(k) \/ AcceptGoal(k) \/ RejectGoal(k) \/ Result(k)
       PROVE  Rest'
  BY <1>12 DEF Respond, AcceptGoal, RejectGoal, Result, Answer, Negative, EndIn, Spinning
<1>13. ASSUME NEW S \in SUBSET Bounded, TimeOut(S) PROVE Rest'
  BY <1>13 DEF TimeOut
<1>14. CASE Graph
  BY <1>14 DEF Graph, Refresh, GoDown, ComeUp
<1>15. ASSUME NEW i \in Ifaces, Vanish(i) \/ Rejoin(i) PROVE Rest'
  BY <1>15 DEF Vanish, Rejoin, WorkerIdle
<1>16. ASSUME NEW k \in Requests, ReadTx(k) PROVE Rest'
  BY <1>16 DEF ReadTx
<1>17. CASE EndTx
  BY <1>17 DEF EndTx, TypeOK, WorkerTypes
<1>18. CASE FinishTarget
  BY <1>18 DEF FinishTarget
<1>19. CASE Boot
  BY <1>19 DEF Boot, SweepRows, StartSpinning, Orphan
<1>20. CASE Stop
  BY <1>20 DEF Stop
<1>21. CASE Exit \/ Crash
  BY <1>21 DEF Exit, Crash, LoseMemory
<1> QED
  BY <1>6, <1>7, <1>8, <1>9, <1>10, <1>11, <1>12, <1>13, <1>14, <1>15, <1>16, <1>17, <1>18,
     <1>19, <1>20, <1>21 DEF Next, Dispatcher, Robot, Timer, Worker, Requests

LEMMA Invariant == Spec => [](TypeOK /\ Ownership)
BY TypesInit, TypesStep, OwnershipInit, OwnershipStep, PTL DEF Spec
-----------------------------------------------------------------------------
(***************************************************************************)
(* Cancels                                                                 *)
(***************************************************************************)

\* A cancel that was taken is remembered until the handle is there, and a
\* goal that is only about to be sent cannot have been cancelled.
Cancels ==
    /\ asked \cap handles \subseteq cancelSent
    /\ asked \cap sent \subseteq pendingCancel
    /\ sent \cap handles = {}
    /\ at \in {"begun", "ready"} => job \cap (asked \union sent \union handles) = {}

LEMMA CancelsStep == TypeOK /\ Ownership /\ Cancels /\ [Next]_vars => Cancels'
<1> SUFFICES ASSUME TypeOK, Ownership, Cancels, Next PROVE Cancels'
  BY DEF vars, execVars, robotVars, graphVars, termVars, serverVars, histVars, Cancels
<1> USE DEF Cancels, execVars, robotVars, graphVars, termVars, serverVars, histVars
<1>1. ASSUME NEW k \in Requests, Arrive(k) PROVE Cancels'
  BY <1>1 DEF Arrive
<1>2. ASSUME NEW k \in Requests, Cancel(k) PROVE Cancels'
  BY <1>2 DEF Cancel, Spinning
<1>3. ASSUME NEW k \in Requests, Claim(k) \/ Refuse(k) \/ Misfit(k) PROVE Cancels'
  BY <1>3 DEF Claim, Refuse, Misfit
<1>4. ASSUME NEW k \in Requests, Begin(k) PROVE Cancels'
  <2>1. job = {k}
    BY <1>4 DEF Begin, TypeOK, ExecTypes
  <2>2. tx[CorrOf[k]] = "none" => k \notin asked \union sent \union handles
    BY DEF Ownership
  <2> QED BY <1>4, <2>1, <2>2 DEF Begin
<1>5. ASSUME NEW k \in Requests, NoServer(k) \/ CallFails(k) PROVE Cancels'
  BY <1>5 DEF NoServer, CallFails, EndIn
<1>6. ASSUME NEW k \in Requests, Prepare(k) \/ Call(k) \/ Record(k) PROVE Cancels'
  BY <1>6 DEF Prepare, Call, Record
<1>7. ASSUME NEW k \in Requests, PublishAnswer(k) \/ Close(k) PROVE Cancels'
  BY <1>7 DEF PublishAnswer, Close
<1>8. ASSUME NEW k \in Requests, Respond(k) \/ AcceptGoal(k) \/ RejectGoal(k) \/ Result(k)
      PROVE  Cancels'
  BY <1>8 DEF Respond, AcceptGoal, RejectGoal, Result, Answer, Negative, EndIn, Spinning
<1>9. ASSUME NEW S \in SUBSET Bounded, TimeOut(S) PROVE Cancels'
  BY <1>9 DEF TimeOut
<1>10. CASE Graph
  BY <1>10 DEF Graph, Refresh, GoDown, ComeUp
<1>11. CASE Worker
  BY <1>11 DEF Worker, Vanish, Rejoin, ReadTx, EndTx, FinishTarget
<1>12. CASE Boot
  BY <1>12 DEF Boot, SweepRows, StartSpinning, Orphan
<1>13. CASE Stop \/ Exit \/ Crash
  BY <1>13 DEF Stop, Exit, Crash, LoseMemory
<1> QED
  BY <1>1, <1>2, <1>3, <1>4, <1>5, <1>6, <1>7, <1>8, <1>9, <1>10, <1>11, <1>12, <1>13
     DEF Next, Dispatcher, Robot, Timer, Requests

\* A cancel that came before the goal's handle reaches the server with it.
THEOREM TransactionsCancels == Spec => []CancelNotLost
<1>1. Init => Cancels
  BY DEF Init, Cancels
<1>2. Cancels => CancelNotLost
  BY DEF Cancels, CancelNotLost
<1> QED BY Invariant, CancelsStep, <1>1, <1>2, PTL DEF Spec
-----------------------------------------------------------------------------
(***************************************************************************)
(* Answers                                                                 *)
(***************************************************************************)

Answering(k) == Owns(k) /\ tx[CorrOf[k]] \in AnsweredTx

\* The requests whose own transaction an answer has ended.
Settlers == {k \in Requests : Answering(k)}

\* AnswerMatchesTx and SuccessMeansAnswer over sets, and what the executor is
\* about to publish or to write.
Answers ==
    /\ answered \subseteq Settlers
    /\ crashes = 0 => Settlers \subseteq answered \union (IF at = "answering" THEN job ELSE {})
    /\ {k \in Requests : row[k] = "succeeded"} \subseteq answered
    /\ at = "answering" => verdict = "succeeded" /\ job \subseteq Settlers
    /\ at = "closing" /\ verdict = "succeeded" => job \subseteq answered

\* An answered transaction is one that Answer has just ended.
Fresh ==
    \A k \in Requests :
        Answering(k)' /\ ~Answering(k) => at' = "answering" /\ job' = {k}

LEMMA AnsweredIsFinal == AnsweredTx \subseteq TerminalTx
BY DEF AnsweredTx, TerminalTx

LEMMA SetStateFresh ==
    ASSUME TypeOK, Ownership, NEW k \in Requests, NEW state, SetState(k, state),
           UNCHANGED owner,
           state \in AnsweredTx => Owns(k) /\ at' = "answering" /\ job' = {k}
    PROVE  Fresh
BY RequestTypes DEF SetState, Fresh, Answering, Owns, TypeOK, TableTypes

LEMMA RobotFresh ==
    ASSUME TypeOK, Ownership, NEW k \in Owners, NEW state \in TerminalTx, UNCHANGED owner,
           \/ Answer(k, state)
           \/ Negative(k, state) /\ state \notin AnsweredTx
    PROVE  Fresh
<1>1. UNCHANGED tx => Fresh
  BY DEF Fresh, Answering, Owns
<1>2. Owns(k) /\ k \in Requests
  BY DEF Owners
<1> QED BY <1>1, <1>2, SetStateFresh DEF Answer, Negative, EndIn

LEMMA AnswersAreFresh == TypeOK /\ Ownership /\ Next => Fresh
<1> SUFFICES ASSUME TypeOK, Ownership, Next PROVE Fresh
  OBVIOUS
<1>1. ASSUME UNCHANGED <<tx, owner>> PROVE Fresh
  BY <1>1 DEF Fresh, Answering, Owns
<1>2. ASSUME NEW k \in Requests, NEW state, state \notin AnsweredTx, SetState(k, state),
             UNCHANGED owner
      PROVE  Fresh
  BY <1>2, SetStateFresh
<1>w. {"canceling", "accepted", "invoked", "goalSent", "goalAccepted", "failed",
       "serverUnavailable", "rejected", "goalRejected", "orphanedAtRestart", "timeout",
       "shutdownAbandoned", "pending", "goalPending"} \cap AnsweredTx = {}
  BY DEF AnsweredTx
<1>3. ASSUME NEW k \in Requests, Arrive(k) \/ Cancel(k) PROVE Fresh
  BY <1>3, <1>1, <1>2, <1>w DEF Arrive, Cancel
<1>4. CASE Dispatcher
  <2> PICK k \in Requests :
           \/ Claim(k) \/ Refuse(k) \/ Begin(k) \/ NoServer(k) \/ Misfit(k)
           \/ Prepare(k) \/ Call(k) \/ CallFails(k) \/ Record(k)
           \/ PublishAnswer(k) \/ Close(k)
    BY <1>4 DEF Dispatcher
  <2>1. CASE Begin(k)
    <3>1. CASE tx[CorrOf[k]] = "none"
      BY <2>1, <3>1, <1>w, RequestTypes DEF Begin, Fresh, Answering, Owns, TypeOK, TableTypes
    <3> QED BY <2>1, <3>1, <1>1 DEF Begin
  <2>2. CASE NoServer(k) \/ CallFails(k)
    BY <2>2, <1>2, <1>w DEF NoServer, CallFails, EndIn
  <2>3. CASE Prepare(k) \/ Record(k)
    BY <2>3, <1>1, <1>2, <1>w DEF Prepare, Record
  <2> QED BY <2>1, <2>2, <2>3, <1>1
          DEF Claim, Refuse, Misfit, Call, PublishAnswer, Close
<1>5. CASE Robot
  <2>1. sent \union handles \subseteq Owners
    BY DEF Ownership
  <2>2. {"responded", "resultReceived", "failed", "goalRejected"} \subseteq TerminalTx
    BY DEF TerminalTx
  <2> QED BY <1>5, <2>1, <2>2, RobotFresh, <1>2, <1>w
          DEF Robot, Respond, AcceptGoal, RejectGoal, Result, Requests
<1>6. CASE Timer
  BY <1>6, <1>w, RequestTypes DEF Timer, TimeOut, Fresh, Answering, Owns
<1>7. CASE Graph
  BY <1>7, <1>1 DEF Graph, Refresh, GoDown, ComeUp
<1>8. CASE Worker
  <2>1. EndTx => Fresh
    BY <1>2, <1>w DEF EndTx, TypeOK, WorkerTypes
  <2> QED BY <1>8, <2>1, <1>1 DEF Worker, Vanish, Rejoin, ReadTx, FinishTarget
<1>9. CASE Boot
  BY <1>9, <1>1, <1>2, <1>w DEF Boot, SweepRows, StartSpinning, Orphan
<1>10. CASE Stop \/ Crash
  BY <1>10, <1>1 DEF Stop, Crash, LoseMemory
<1>11. CASE Exit
  <2>1. \A c \in Corrs : tx'[c] \in {tx[c], "failed", "shutdownAbandoned"}
    BY <1>11, Zenon DEF Exit
  <2> QED BY <1>11, <2>1, <1>w, RequestTypes DEF Exit, LoseMemory, Fresh, Answering, Owns
<1> QED
  BY <1>3, <1>4, <1>5, <1>6, <1>7, <1>8, <1>9, <1>10, <1>11 DEF Next, Requests

LEMMA SettlersStep ==
    ASSUME TypeOK, Ownership, Next
    PROVE  /\ Settlers \subseteq Settlers'
           /\ \A k \in Settlers' : k \in Settlers \/ (at' = "answering" /\ job' = {k})
<1>1. Kept
  BY EndedIsKept DEF Kept, vars
<1> QED
  BY <1>1, RowsSettle, AnswersAreFresh, AnsweredIsFinal, RequestTypes
     DEF Settled, Kept, Fresh, Settlers, Answering, Owns, Ownership, Owners, AnsweredTx,
         TypeOK, TableTypes

LEMMA FinishSucceeds ==
    ASSUME TypeOK, NEW S, NEW outcome, FinishRows(S, outcome)
    PROVE  {k \in Requests : row'[k] = "succeeded"} \subseteq
               {k \in Requests : row[k] = "succeeded"} \union
               (IF outcome = "succeeded" THEN S ELSE {})
BY DEF FinishRows

LEMMA AnswersStep == TypeOK /\ Ownership /\ Answers /\ [Next]_vars => Answers'
<1> SUFFICES ASSUME TypeOK, Ownership, Answers, Next PROVE Answers'
  BY DEF vars, execVars, robotVars, graphVars, termVars, serverVars, histVars, boundVars,
         Answers, Settlers, Answering, Owns
<1>s. /\ Settlers \subseteq Settlers'
      /\ \A k \in Settlers' : k \in Settlers \/ (at' = "answering" /\ job' = {k})
  BY SettlersStep
<1>t. crashes \in Nat
  BY DEF TypeOK
<1>1. ASSUME UNCHANGED <<row, at, job, verdict, answered, crashes>> PROVE Answers'
  BY <1>1, <1>s DEF Answers
<1> USE <1>s DEF Answers, execVars, robotVars, graphVars, termVars, serverVars, histVars,
                 boundVars
<1>2. ASSUME NEW k \in Requests, Arrive(k) PROVE Answers'
  BY <1>2 DEF Arrive, TypeOK, TableTypes
<1>3. ASSUME NEW k \in Requests, Cancel(k) PROVE Answers'
  BY <1>3, <1>1 DEF Cancel
<1>4. ASSUME NEW k \in Requests, Claim(k) PROVE Answers'
  BY <1>4 DEF Claim, TypeOK, TableTypes
<1>5. ASSUME NEW k \in Requests, Refuse(k) \/ Misfit(k) \/ Begin(k) PROVE Answers'
  BY <1>5 DEF Refuse, Misfit, Begin
<1>6. ASSUME NEW k \in Requests, NoServer(k) \/ CallFails(k) PROVE Answers'
  BY <1>6 DEF NoServer, CallFails, EndIn
<1>7. ASSUME NEW k \in Requests, Prepare(k) \/ Call(k) \/ Record(k) PROVE Answers'
  BY <1>7 DEF Prepare, Call, Record
<1>8. ASSUME NEW k \in Requests, PublishAnswer(k) PROVE Answers'
  <2>1. job = {k}
    BY <1>8 DEF PublishAnswer, TypeOK, ExecTypes
  <2> QED BY <1>8, <2>1 DEF PublishAnswer
<1>9. ASSUME NEW k \in Requests, Close(k) PROVE Answers'
  BY <1>9, FinishSucceeds DEF Close
<1>10. ASSUME NEW k \in Owners, NEW state, at = "idle",
              UNCHANGED <<row, owner, answered, crashes>>,
              (Answer(k, state) /\ state \in AnsweredTx) \/ Negative(k, state)
       PROVE  Answers'
  <2>1. CASE UNCHANGED execVars
    BY <1>10, <2>1
  <2>2. CASE EndIn(k, state, "failed")
    BY <1>10, <2>2 DEF EndIn
  <2>3. CASE Answer(k, state) /\ Active(k) /\ state \in AnsweredTx
    <3>1. at' = "answering" /\ job' = {k} /\ verdict' = "succeeded"
      BY <2>3 DEF Answer
    <3>2. k \in Settlers'
      BY <1>10, <2>3, RequestTypes
         DEF Answer, SetState, Active, Settlers, Answering, Owns, Owners, TypeOK, TableTypes
    <3> QED BY <1>10, <3>1, <3>2
  <2> QED BY <1>10, <2>1, <2>2, <2>3 DEF Answer, Negative
<1>11. ASSUME NEW k \in Requests, Respond(k) \/ AcceptGoal(k) \/ RejectGoal(k) \/ Result(k)
       PROVE  Answers'
  <2>1. sent \union handles \subseteq Owners /\ {"responded", "resultReceived"} \subseteq AnsweredTx
    BY DEF Ownership, AnsweredTx
  <2> QED BY <1>11, <1>10, <1>1, <2>1 DEF Respond, AcceptGoal, RejectGoal, Result, Spinning
<1>12. ASSUME NEW S \in SUBSET Bounded, TimeOut(S) PROVE Answers'
  BY <1>12 DEF TimeOut, Spinning
<1>13. CASE Graph
  BY <1>13, <1>1 DEF Graph, Refresh, GoDown, ComeUp
<1>14. ASSUME NEW i \in Ifaces, Vanish(i) \/ Rejoin(i) PROVE Answers'
  BY <1>14, <1>1 DEF Vanish, Rejoin
<1>15. ASSUME NEW k \in Requests, ReadTx(k) PROVE Answers'
  BY <1>15, <1>1 DEF ReadTx
<1>16. CASE EndTx
  BY <1>16, <1>1 DEF EndTx
<1>17. CASE FinishTarget
  BY <1>17, FinishSucceeds DEF FinishTarget
<1>18. CASE SweepRows
  <2>1. {k \in Requests : row'[k] = "succeeded"} \subseteq {k \in Requests : row[k] = "succeeded"}
    BY <1>18, Zenon DEF SweepRows
  <2> QED BY <1>18, <2>1 DEF SweepRows
<1>19. ASSUME NEW k \in Requests, Orphan(k) PROVE Answers'
  BY <1>19, <1>1 DEF Orphan
<1>20. CASE StartSpinning
  BY <1>20, <1>1 DEF StartSpinning
<1>21. CASE Stop
  BY <1>21, FinishSucceeds DEF Stop
<1>22. CASE Exit
  BY <1>22 DEF Exit, LoseMemory
<1>23. CASE Crash
  BY <1>23, <1>t DEF Crash, LoseMemory
<1> QED
  BY <1>2, <1>3, <1>4, <1>5, <1>6, <1>7, <1>8, <1>9, <1>11, <1>12, <1>13, <1>14, <1>15,
     <1>16, <1>17, <1>18, <1>19, <1>20, <1>21, <1>22, <1>23
     DEF Next, Dispatcher, Robot, Timer, Worker, Boot, Requests

LEMMA AnswersInit == Init => Answers
BY RequestTypes DEF Init, Answers, Settlers, Answering, Owns, Requests

LEMMA AnswersHold == Spec => [](TypeOK /\ Answers)
BY TypesInit, TypesStep, OwnershipInit, OwnershipStep, AnswersInit, AnswersStep, PTL DEF Spec

\* An answer is published for a request if and only if it ended the request's
\* transaction, however the callbacks, the sweep and the worker interleave.
THEOREM TransactionsAnswers == Spec => []AnswerMatchesTx
<1>1. TypeOK /\ Answers => AnswerMatchesTx
  <2> SUFFICES ASSUME TypeOK, Answers, NEW k \in Requests
               PROVE  /\ k \in answered => Answering(k)
                      /\ Answering(k) /\ crashes = 0 =>
                            k \in answered \/ (at = "answering" /\ job = {k})
    BY DEF AnswerMatchesTx, Answering
  <2>1. at = "answering" => \E j \in Requests : job = {j}
    BY DEF TypeOK, ExecTypes
  <2> QED BY <2>1 DEF Answers, Settlers
<1> QED BY AnswersHold, <1>1, PTL

\* A row says succeeded only if the answer of its request was published.
THEOREM TransactionsSuccess == Spec => []SuccessMeansAnswer
<1>1. Answers => SuccessMeansAnswer
  BY DEF Answers, SuccessMeansAnswer
<1> QED BY AnswersHold, <1>1, PTL
-----------------------------------------------------------------------------
(***************************************************************************)
(* Dispatched rows                                                         *)
(***************************************************************************)

Dispatched == {k \in Requests : row[k] = "dispatched"}
Unrun      == {k \in Requests : row[k] \in {"none", "queued", "overflow"}}
Live       == {k \in inflight : Active(k)}
Strays     == {k \in Requests : ~Owns(k) /\ tx[CorrOf[k]] # "none"}

\* Where the callback itself is what closes the row.
InHand == IF at \in {"won", "answering", "closing"} THEN job ELSE {}

\* DispatchedOwned, made inductive: a callback between Begin and Record does
\* not count as answerable, because it leaves the row to whoever comes next.
Rows ==
    /\ phase = "running" => Dispatched \subseteq InHand \union {target} \union Live \union Strays
    /\ phase \in {"down", "sweeping"} => at = "idle"
    /\ phase = "sweeping" => Dispatched = {}
    /\ at = "idle" => job = {}
    /\ Unrun \cap Owners = {}
    /\ at = "won" => job \subseteq Dispatched \ Owners

LEMMA FinishDispatched ==
    ASSUME TypeOK, NEW S, NEW outcome \in {"succeeded", "failed"}, FinishRows(S, outcome)
    PROVE  Dispatched' = Dispatched \ S /\ Unrun' \subseteq Unrun
BY DEF FinishRows, Dispatched, Unrun, TypeOK, TableTypes, ActiveRow

LEMMA SetStateLive ==
    ASSUME TypeOK, Ownership, NEW k \in Owners, NEW state, SetState(k, state),
           UNCHANGED inflight
    PROVE  Live \ {k} \subseteq Live' /\ (state \in ActiveTx => Live \subseteq Live')
BY RequestTypes DEF SetState, Live, Active, Ownership, Owners, Owns, TypeOK, TableTypes

LEMMA SameLive ==
    ASSUME UNCHANGED tx
    PROVE  /\ Live \cap inflight' \subseteq Live'
           /\ UNCHANGED inflight => Live' = Live
BY DEF Live, Active

LEMMA TimeOutLive ==
    ASSUME TypeOK, Ownership, NEW S \in SUBSET Bounded, TimeOut(S)
    PROVE  Live \ S \subseteq Live' /\ Live \subseteq inflight
BY RequestTypes DEF TimeOut, Live, Active, Ownership, Owners, Owns, TypeOK, TableTypes

LEMMA StraysStay == TypeOK /\ Next => Strays \subseteq Strays'
BY RowsSettle, RequestTypes DEF Settled, Strays, Owns

LEMMA SameOwners == UNCHANGED owner => Owners' = Owners
BY DEF Owners, Owns

LEMMA SameRows == UNCHANGED row => Dispatched' = Dispatched /\ Unrun' = Unrun
BY DEF Dispatched, Unrun

LEMMA RowsInit == Init => Rows
BY RequestTypes DEF Init, Rows, Dispatched, Unrun, Owners, Owns, Requests

LEMMA RowsStep == TypeOK /\ Ownership /\ Rows /\ [Next]_vars => Rows'
<1> SUFFICES ASSUME TypeOK, Ownership, Rows, Next PROVE Rows'
  BY SameLive, SameOwners, SameRows
     DEF vars, execVars, robotVars, graphVars, termVars, serverVars, histVars, boundVars,
         Rows, InHand, Strays, Owns
<1>s. Strays \subseteq Strays'
  BY StraysStay
<1>t. Live \subseteq inflight /\ Dispatched \subseteq Requests /\ NoRequest \notin Requests
  BY RequestTypes DEF Live, Dispatched
<1>1. ASSUME UNCHANGED <<phase, row, owner, at, job, target>>, Live \subseteq Live'
      PROVE  Rows'
  BY <1>1, <1>s, SameOwners, SameRows DEF Rows, InHand
<1> USE <1>s, <1>t, SameLive, SameOwners, SameRows
    DEF Rows, InHand, execVars, robotVars, graphVars, termVars, serverVars, histVars, boundVars
<1>2. ASSUME NEW k \in Requests, Arrive(k) PROVE Rows'
  <2>1. Dispatched' = Dispatched /\ Unrun' \subseteq Unrun
    BY <1>2 DEF Arrive, Dispatched, Unrun, TypeOK, TableTypes
  <2> QED BY <1>2, <2>1 DEF Arrive
<1>3. ASSUME NEW k \in Requests, Cancel(k) PROVE Rows'
  <2>1. k \in Owners /\ "canceling" \in ActiveTx
    BY <1>3 DEF Cancel, Ownership, ActiveTx, ActionActive
  <2> QED BY <1>3, <2>1, <1>1, SetStateLive DEF Cancel
<1>4. ASSUME NEW k \in Requests, Claim(k) PROVE Rows'
  <2>1. Dispatched' = Dispatched \union {k} /\ Unrun' \subseteq Unrun /\ k \in Unrun
    BY <1>4 DEF Claim, Dispatched, Unrun, TypeOK, TableTypes
  <2> QED BY <1>4, <2>1 DEF Claim
<1>5. ASSUME NEW k \in Requests, Refuse(k) \/ Misfit(k) PROVE Rows'
  <2>1. job = {k}
    BY <1>5 DEF Refuse, Misfit, TypeOK, ExecTypes
  <2> QED BY <1>5, <2>1 DEF Refuse, Misfit
<1>6. ASSUME NEW k \in Requests, Begin(k) PROVE Rows'
  <2>1. job = {k}
    BY <1>6 DEF Begin, TypeOK, ExecTypes
  <2>2. CASE tx[CorrOf[k]] = "none"
    <3>1. k \in Live' /\ Live \subseteq Live'
      BY <1>6, <2>2, RequestTypes
         DEF Begin, Live, Active, ActiveTx, ServiceActive, ActionActive, TypeOK, TableTypes
    <3>2. Owners' \subseteq Owners \union {k}
      BY <1>6, <2>2, RequestTypes DEF Begin, Owners, Owns, TypeOK, TableTypes
    <3>3. k \notin Unrun
      BY <1>6, <2>1 DEF Begin, Dispatched, Unrun
    <3> QED BY <1>6, <2>1, <2>2, <3>1, <3>2, <3>3 DEF Begin
  <2>3. CASE tx[CorrOf[k]] # "none"
    <3>1. k \in Strays
      BY <1>6, <2>1, <2>3 DEF Begin, Strays, Owners
    <3> QED BY <1>6, <2>1, <2>3, <3>1 DEF Begin
  <2> QED BY <2>2, <2>3
<1>7. ASSUME NEW k \in Owners, NEW state, EndIn(k, state, "failed"),
             UNCHANGED <<phase, row, owner, inflight, target>>,
             job \subseteq {k}, at \in {"idle", "begun", "ready"},
             phase \notin {"down", "sweeping"}
      PROVE  Rows'
  <2>1. Live \ {k} \subseteq Live'
    BY <1>7, SetStateLive DEF EndIn
  <2> QED BY <1>7, <2>1 DEF EndIn
<1>8. ASSUME NEW k \in Requests, NoServer(k) \/ CallFails(k) PROVE Rows'
  <2>1. job = {k} /\ k \in Owners
    BY <1>8 DEF NoServer, CallFails, TypeOK, ExecTypes, Ownership
  <2> QED BY <1>8, <2>1, <1>7 DEF NoServer, CallFails
<1>9. ASSUME NEW k \in Requests, Prepare(k) \/ Call(k) \/ Record(k) PROVE Rows'
  <2>1. k \in Owners /\ {"accepted", "invoked", "goalSent"} \subseteq ActiveTx
    BY <1>9 DEF Prepare, Call, Record, Ownership, ActiveTx, ServiceActive, ActionActive
  <2>2. Live \subseteq Live'
    BY <1>9, <2>1, SetStateLive DEF Prepare, Call, Record
  <2> QED BY <1>9, <2>2 DEF Prepare, Call, Record
<1>10. ASSUME NEW k \in Requests, PublishAnswer(k) PROVE Rows'
  BY <1>10 DEF PublishAnswer
<1>11. ASSUME NEW k \in Requests, Close(k) PROVE Rows'
  <2>1. Dispatched' = Dispatched \ {k} /\ Unrun' \subseteq Unrun
    BY <1>11, FinishDispatched DEF Close, TypeOK, ExecTypes
  <2> QED BY <1>11, <2>1 DEF Close
<1>12. ASSUME NEW k \in Owners, NEW state, at = "idle", phase \in {"running", "closing"},
              UNCHANGED <<phase, row, owner, inflight, target>>,
              Answer(k, state) \/ Negative(k, state)
       PROVE  Rows'
  <2>1. CASE UNCHANGED <<tx, execVars>>
    BY <1>12, <2>1
  <2>2. CASE EndIn(k, state, "failed")
    BY <1>12, <2>2, <1>7
  <2>3. CASE Answer(k, state) /\ Active(k)
    <3>1. Live \ {k} \subseteq Live' /\ at' = "answering" /\ job' = {k}
      BY <2>3, <1>12, SetStateLive DEF Answer
    <3> QED BY <1>12, <3>1
  <2> QED BY <1>12, <2>1, <2>2, <2>3 DEF Answer, Negative
<1>13. ASSUME NEW k \in Requests, Respond(k) \/ AcceptGoal(k) \/ RejectGoal(k) \/ Result(k)
       PROVE  Rows'
  <2>1. k \in Owners /\ "goalAccepted" \in ActiveTx
    BY <1>13 DEF Respond, AcceptGoal, RejectGoal, Result, Ownership, ActiveTx, ActionActive
  <2>2. AcceptGoal(k) => Live \subseteq Live'
    BY <2>1, SetStateLive DEF AcceptGoal
  <2>3. CASE AcceptGoal(k)
    BY <2>2, <2>3, <1>1 DEF AcceptGoal
  <2> QED BY <1>13, <2>1, <2>3, <1>12 DEF Respond, RejectGoal, Result, Spinning
<1>14. ASSUME NEW S \in SUBSET Bounded, TimeOut(S) PROVE Rows'
  <2>1. Live \ S \subseteq Live'
    BY <1>14, TimeOutLive
  <2> QED BY <1>14, <2>1 DEF TimeOut, Spinning
<1>15. CASE Graph
  BY <1>15, <1>1 DEF Graph, Refresh, GoDown, ComeUp
<1>16. ASSUME NEW i \in Ifaces, Vanish(i) \/ Rejoin(i) PROVE Rows'
  BY <1>16, <1>1 DEF Vanish, Rejoin
<1>17. ASSUME NEW k \in Requests, ReadTx(k) PROVE Rows'
  <2>1. target = NoRequest
    BY <1>17 DEF ReadTx, Ownership
  <2> QED BY <1>17, <2>1 DEF ReadTx
<1>18. CASE EndTx
  <2>1. target \in Owners
    BY <1>18 DEF EndTx, Ownership
  <2>2. Live \ {target} \subseteq Live'
    BY <1>18, <2>1, SetStateLive DEF EndTx
  <2> QED BY <1>18, <2>2 DEF EndTx
<1>19. CASE FinishTarget
  <2>1. target \in Owners
    BY <1>19 DEF FinishTarget, Ownership
  <2>2. Dispatched' = Dispatched \ {target} /\ Unrun' \subseteq Unrun
    BY <1>19, FinishDispatched DEF FinishTarget
  <2> QED BY <1>19, <2>1, <2>2 DEF FinishTarget
<1>20. CASE SweepRows
  <2>1. \A k \in Requests : /\ row'[k] # "dispatched"
                            /\ row'[k] = "overflow" => row[k] \in {"queued", "overflow"}
                            /\ row'[k] \in {"none", "queued"} => row'[k] = row[k]
    BY <1>20, Zenon DEF SweepRows
  <2>2. Dispatched' = {} /\ Unrun' \subseteq Unrun
    BY <2>1 DEF Dispatched, Unrun
  <2> QED BY <1>20, <2>2 DEF SweepRows
<1>21. ASSUME NEW k \in Requests, Orphan(k) PROVE Rows'
  BY <1>21 DEF Orphan
<1>22. CASE StartSpinning
  BY <1>22 DEF StartSpinning
<1>23. CASE Stop
  <2>1. Unrun' \subseteq Unrun
    BY <1>23, FinishDispatched DEF Stop
  <2> QED BY <1>23, <2>1 DEF Stop
<1>24. CASE Exit \/ Crash
  BY <1>24 DEF Exit, Crash, LoseMemory
<1> QED
  BY <1>2, <1>3, <1>4, <1>5, <1>6, <1>8, <1>9, <1>10, <1>11, <1>13, <1>14, <1>15, <1>16,
     <1>17, <1>18, <1>19, <1>20, <1>21, <1>22, <1>23, <1>24
     DEF Next, Dispatcher, Robot, Timer, Worker, Boot, Requests

\* While the process runs, every dispatched row has somebody who will close it.
THEOREM TransactionsDispatched == Spec => []DispatchedOwned
<1>1. Rows => DispatchedOwned
  BY DEF Rows, InHand, Live, Strays, Dispatched, DispatchedOwned
<1> QED BY TypesInit, TypesStep, OwnershipInit, OwnershipStep, RowsInit, RowsStep, <1>1, PTL
        DEF Spec
-----------------------------------------------------------------------------
(***************************************************************************)
(* Reports                                                                 *)
(***************************************************************************)

Notice == "serverUnavailable"

\* The requests reported to have ended, the notice of a vanished server aside,
\* and the requests whose own transaction is over.
Reported == {k \in Requests : ~(told[k] \subseteq {Notice})}
Over     == {k \in Owners : ~Active(k)}

\* OneOutcome: only an ended transaction is reported about, and nothing was
\* reported yet where a callback is still going to report.
Outcomes ==
    /\ \A k \in Requests : \E x \in TerminalTx : told[k] \subseteq {x, Notice}
    /\ Reported \subseteq Over
    /\ at \in {"begun", "ready", "answering"} => job \cap Reported = {}

LEMMA OverStays == TypeOK /\ Ownership /\ Next => Over \subseteq Over'
<1> SUFFICES ASSUME TypeOK, Ownership, Next PROVE Over \subseteq Over'
  OBVIOUS
<1>1. Kept
  BY EndedIsKept DEF Kept, vars
<1> QED BY <1>1, RowsSettle, EndedIsNotActive, RequestTypes
        DEF Settled, Kept, Over, Ownership, Owners, Owns, Active, TypeOK, TableTypes

LEMMA SetStateOver ==
    ASSUME TypeOK, NEW k \in Owners, NEW state \in TerminalTx, SetState(k, state), UNCHANGED owner
    PROVE  k \in Over'
BY RequestTypes, EndedIsNotActive
   DEF SetState, Over, Owners, Owns, Active, TypeOK, TableTypes

\* Where a callback reports first, at most its own word is added.
LEMMA TellFirst ==
    ASSUME TypeOK, Outcomes, NEW k \in Requests \ Reported, NEW state \in TerminalTx, Tell(k, state)
    PROVE  /\ Reported' \subseteq Reported \union {k}
           /\ \A j \in Requests : \E x \in TerminalTx : told'[j] \subseteq {x, Notice}
BY DEF Outcomes, Tell, Reported, TypeOK, HistTypes

LEMMA TellNotice ==
    ASSUME TypeOK, Outcomes, NEW k \in Requests, Tell(k, Notice)
    PROVE  /\ Reported' = Reported
           /\ \A j \in Requests : \E x \in TerminalTx : told'[j] \subseteq {x, Notice}
BY DEF Outcomes, Tell, Reported, TypeOK, HistTypes

LEMMA SameReports == UNCHANGED told => Reported' = Reported
BY DEF Reported

LEMMA OutcomesStep == TypeOK /\ Ownership /\ Answers /\ Rows /\ Outcomes /\ [Next]_vars => Outcomes'
<1> SUFFICES ASSUME TypeOK, Ownership, Answers, Rows, Outcomes, Next PROVE Outcomes'
  BY SameReports, SameOwners
     DEF vars, execVars, robotVars, graphVars, termVars, serverVars, histVars, boundVars,
         Outcomes, Over, Active
<1>s. Over \subseteq Over' /\ Over \subseteq Owners /\ Owners \subseteq Requests
  BY OverStays DEF Over, Owners
<1>t. {"failed", "rejected", "goalRejected", "serverUnavailable", "responded", "resultReceived",
       "orphanedAtRestart", "timeout", "shutdownAbandoned"} = TerminalTx
  BY DEF TerminalTx
<1>u. ASSUME NEW k \in Reported PROVE k \in Owners /\ ~Active(k) /\ k \in Requests
  BY <1>u DEF Outcomes, Over, Reported
<1>1. ASSUME UNCHANGED <<at, job, told>> PROVE Outcomes'
  BY <1>1, <1>s, SameReports DEF Outcomes
<1> USE <1>s, SameReports
    DEF Outcomes, execVars, robotVars, graphVars, termVars, serverVars, histVars, boundVars
<1>2. ASSUME NEW k \in Requests, Arrive(k) \/ Cancel(k) PROVE Outcomes'
  BY <1>2, <1>1 DEF Arrive, Cancel
<1>3. ASSUME NEW k \in Requests, Claim(k) \/ Refuse(k) \/ Misfit(k) \/ Close(k) PROVE Outcomes'
  BY <1>3 DEF Claim, Refuse, Misfit, Close
<1>4. ASSUME NEW k \in Requests, Begin(k) PROVE Outcomes'
  <2>1. job = {k}
    BY <1>4 DEF Begin, TypeOK, ExecTypes
  <2>2. tx[CorrOf[k]] = "none" => k \notin Owners
    BY DEF Ownership
  <2> QED BY <1>4, <2>1, <2>2 DEF Begin
<1>5. ASSUME NEW k \in Owners \ Reported, NEW state \in TerminalTx, UNCHANGED owner,
             EndIn(k, state, "failed")
      PROVE  Outcomes'
  <2>1. k \in Over'
    BY <1>5, SetStateOver DEF EndIn
  <2> QED BY <1>5, <2>1, TellFirst DEF EndIn
<1>6. ASSUME NEW k \in Requests, NoServer(k) \/ CallFails(k) PROVE Outcomes'
  <2>1. k \in Owners \ Reported
    BY <1>6 DEF NoServer, CallFails, Ownership
  <2> QED BY <1>6, <2>1, <1>5, <1>t DEF NoServer, CallFails
<1>7. ASSUME NEW k \in Requests, Prepare(k) \/ Call(k) \/ Record(k) PROVE Outcomes'
  BY <1>7 DEF Prepare, Call, Record
<1>8. ASSUME NEW k \in Requests, PublishAnswer(k) PROVE Outcomes'
  <2>1. k \in Requests \ Reported
    BY <1>8 DEF PublishAnswer
  <2>2. Reported' \subseteq Reported \union {k}
        /\ \A j \in Requests : \E x \in TerminalTx : told'[j] \subseteq {x, Notice}
    BY <1>8, <2>1, <1>t, TellFirst DEF PublishAnswer
  <2>3. k \in Over
    BY <1>8, AnsweredIsFinal, EndedIsNotActive
       DEF PublishAnswer, Answers, Settlers, Answering, Over, Owners, Active
  <2> QED BY <1>8, <2>2, <2>3 DEF PublishAnswer
<1>9. ASSUME NEW k \in Owners, NEW state \in TerminalTx, UNCHANGED <<owner, told>>,
             Answer(k, state)
      PROVE  Outcomes'
  BY <1>9, <1>1, <1>u DEF Answer
<1>10. ASSUME NEW k \in Owners, NEW state \in TerminalTx, UNCHANGED owner, Negative(k, state)
       PROVE  Outcomes'
  BY <1>10, <1>1, <1>5, <1>u DEF Negative
<1>11. ASSUME NEW k \in Requests, Respond(k) \/ AcceptGoal(k) \/ RejectGoal(k) \/ Result(k)
       PROVE  Outcomes'
  <2>1. k \in Owners
    BY <1>11 DEF Respond, AcceptGoal, RejectGoal, Result, Ownership
  <2> QED BY <1>11, <2>1, <1>t, <1>9, <1>10, <1>1
          DEF Respond, AcceptGoal, RejectGoal, Result
<1>12. ASSUME NEW S \in SUBSET Bounded, TimeOut(S) PROVE Outcomes'
  <2>1. S \cap Reported = {}
    BY <1>12, <1>u DEF TimeOut
  <2>2. \A k \in S : k \in Over'
    BY <1>12, RequestTypes, EndedIsNotActive
       DEF TimeOut, Over, Owners, Owns, Active, TypeOK, TableTypes, TerminalTx
  <2>3. Reported' \subseteq Reported \union S
    BY <1>12 DEF TimeOut, Reported
  <2>4. \A k \in Requests : \E x \in TerminalTx : told'[k] \subseteq {x, Notice}
    BY <1>12, <2>1, <1>t, RequestTypes DEF TimeOut, Reported
  <2> QED BY <1>12, <2>2, <2>3, <2>4 DEF TimeOut
<1>13. CASE Graph
  BY <1>13, <1>1 DEF Graph, Refresh, GoDown, ComeUp
<1>14. ASSUME NEW i \in Ifaces, Vanish(i) \/ Rejoin(i) PROVE Outcomes'
  BY <1>14, <1>1 DEF Vanish, Rejoin
<1>15. ASSUME NEW k \in Requests, ReadTx(k) PROVE Outcomes'
  BY <1>15, <1>1 DEF ReadTx
<1>16. CASE EndTx
  <2>1. target \in Requests
    BY <1>16 DEF EndTx, TypeOK, WorkerTypes
  <2>2. Reported' = Reported
        /\ \A j \in Requests : \E x \in TerminalTx : told'[j] \subseteq {x, Notice}
    BY <1>16, <2>1, TellNotice DEF EndTx, Notice
  <2> QED BY <1>16, <2>2 DEF EndTx
<1>17. CASE FinishTarget
  BY <1>17, <1>1 DEF FinishTarget
<1>18. CASE SweepRows \/ StartSpinning \/ Stop
  BY <1>18, <1>1 DEF SweepRows, StartSpinning, Stop
<1>19. ASSUME NEW k \in Requests, Orphan(k) PROVE Outcomes'
  <2>1. k \in Owners \ Reported
    BY <1>19, <1>u DEF Orphan, Owners, Owns
  <2>2. k \in Over'
    BY <1>19, <2>1, <1>t, SetStateOver DEF Orphan
  <2>3. Reported' \subseteq Reported \union {k}
        /\ \A j \in Requests : \E x \in TerminalTx : told'[j] \subseteq {x, Notice}
    BY <1>19, <2>1, <1>t, TellFirst DEF Orphan
  <2>4. at = "idle"
    BY <1>19 DEF Orphan, Rows
  <2> QED BY <1>19, <2>2, <2>3, <2>4 DEF Orphan
<1>20. CASE Exit
  <2>1. Underway \subseteq Owners /\ Underway \cap Reported = {}
    BY <1>u DEF Underway, Owners, Owns, Active, ActiveTx, ServiceActive, ActionActive
  <2>2. \A k \in Underway : tx'[CorrOf[k]] \in {"failed", "shutdownAbandoned"}
    <3>1. \A k \in Underway : /\ CorrOf[k] \in Corrs
                              /\ k \in Services \/ k \in Goals
      BY RequestTypes DEF Underway, Requests
    <3> QED BY <1>20, <3>1, Zenon DEF Exit
  <2>3. Underway \subseteq Over'
    BY <1>20, <2>1, <2>2, EndedIsNotActive
       DEF Exit, LoseMemory, Over, Owners, Owns, Active, TerminalTx
  <2>4. Reported' \subseteq Reported \union Underway
    BY <1>20 DEF Exit, Reported
  <2>5. \A k \in Requests : \E x \in TerminalTx : told'[k] \subseteq {x, Notice}
    BY <1>20, <2>1, <1>t DEF Exit, Reported, Underway
  <2> QED BY <1>20, <2>3, <2>4, <2>5 DEF Exit, LoseMemory
<1>21. CASE Crash
  BY <1>21 DEF Crash, LoseMemory
<1> QED
  BY <1>2, <1>3, <1>4, <1>6, <1>7, <1>8, <1>11, <1>12, <1>13, <1>14, <1>15, <1>16,
     <1>17, <1>18, <1>19, <1>20, <1>21
     DEF Next, Dispatcher, Robot, Timer, Worker, Boot, Requests

LEMMA OutcomesInit == Init => Outcomes
BY DEF Init, Outcomes, Reported, TerminalTx

\* No request is reported to have ended in two ways, the notice aside.
THEOREM TransactionsOneOutcome == Spec => []OneOutcome
<1>1. Outcomes => OneOutcome
  <2> SUFFICES ASSUME Outcomes, NEW k \in Requests
               PROVE  Cardinality(told[k] \ {Notice}) <= 1
    BY DEF OneOutcome, Notice
  <2>1. PICK x \in TerminalTx : told[k] \subseteq {x, Notice}
    BY DEF Outcomes
  <2>2. told[k] \ {Notice} = {} \/ told[k] \ {Notice} = {x}
    BY <2>1
  <2> QED BY <2>2, FS_EmptySet, FS_Singleton
<1> QED BY TypesInit, TypesStep, OwnershipInit, OwnershipStep, AnswersInit, AnswersStep,
           RowsInit, RowsStep, OutcomesInit, OutcomesStep, <1>1, PTL DEF Spec
-----------------------------------------------------------------------------
(***************************************************************************)
(* The request ledger                                                      *)
(***************************************************************************)

Called == {k \in Requests : calls[k] # 0}

\* Only the dispatch that has begun the transaction sends the request, once.
Calls ==
    /\ Called \subseteq Owners
    /\ at \in {"begun", "ready"} => job \cap Called = {}

LEMMA CallsStep == TypeOK /\ Ownership /\ Rows /\ Calls /\ [Next]_vars => Calls'
<1> SUFFICES ASSUME TypeOK, Ownership, Rows, Calls, Next PROVE Calls'
  BY SameOwners DEF vars, execVars, histVars, serverVars, Calls, Called
<1>1. Owners \subseteq Owners'
  BY RowsSettle, RequestTypes DEF Settled, Ownership, Owners, Owns
<1>2. ASSUME UNCHANGED calls, at' \notin {"begun", "ready"} PROVE Calls'
  BY <1>1, <1>2 DEF Calls, Called
<1>3. ASSUME UNCHANGED <<calls, at, job>> PROVE Calls'
  BY <1>1, <1>3 DEF Calls, Called
<1> USE <1>2, <1>3 DEF execVars, robotVars, graphVars, termVars, serverVars, histVars
<1>4. ASSUME NEW k \in Requests, Arrive(k) PROVE Calls'
  BY <1>4 DEF Arrive
<1>5. ASSUME NEW k \in Goals, Cancel(k) PROVE Calls'
  BY <1>5 DEF Cancel
<1>6. ASSUME NEW k \in Requests,
             \/ Claim(k) \/ Refuse(k) \/ NoServer(k) \/ Misfit(k) \/ CallFails(k)
             \/ Record(k) \/ PublishAnswer(k) \/ Close(k)
      PROVE  Calls'
  BY <1>6 DEF Claim, Refuse, NoServer, Misfit, CallFails, Record, PublishAnswer, Close, EndIn
<1>7. ASSUME NEW k \in Requests, Begin(k) PROVE Calls'
  <2>1. job = {k} /\ k \notin Called /\ UNCHANGED calls
    BY <1>7 DEF Begin, TypeOK, ExecTypes, Rows, Calls
  <2> QED BY <1>1, <1>7, <2>1 DEF Begin, Calls, Called
<1>8. ASSUME NEW k \in Requests, Prepare(k) PROVE Calls'
  <2>1. at \in {"begun", "ready"} /\ UNCHANGED <<calls, job>>
    BY <1>8 DEF Prepare
  <2> QED BY <1>1, <2>1 DEF Calls, Called
<1>9. ASSUME NEW k \in Requests, Call(k) PROVE Calls'
  <2>1. k \in Owners /\ at' = "called" /\ Called' \subseteq Called \union {k}
    BY <1>9 DEF Call, Ownership, Called, TypeOK, HistTypes
  <2> QED BY <1>1, <2>1 DEF Calls
<1>10. CASE Robot
  BY <1>10 DEF Robot, Respond, AcceptGoal, RejectGoal, Result, Answer, Negative, EndIn
<1>11. CASE Timer
  BY <1>11 DEF Timer, TimeOut
<1>12. CASE Graph
  BY <1>12 DEF Graph, Refresh, GoDown, ComeUp
<1>13. CASE Worker
  BY <1>13 DEF Worker, Vanish, Rejoin, ReadTx, EndTx, FinishTarget
<1>14. CASE Boot
  BY <1>14 DEF Boot, SweepRows, StartSpinning, Orphan
<1>15. CASE Stop \/ Exit \/ Crash
  BY <1>15 DEF Stop, Exit, Crash, LoseMemory
<1> QED
  BY <1>4, <1>5, <1>6, <1>7, <1>8, <1>9, <1>10, <1>11, <1>12, <1>13, <1>14, <1>15
     DEF Next, Dispatcher

LEMMA CallsHold == Spec => [](TypeOK /\ Ownership /\ Rows /\ Calls)
<1>1. Init => Calls
  BY DEF Init, Calls, Called
<1> QED BY TypesInit, TypesStep, OwnershipInit, OwnershipStep, RowsInit, RowsStep, CallsStep,
           <1>1, PTL DEF Spec

LedgerRows == [k \in Requests |-> LedgerState(k)]
LedgerGoal == Ledger!Next \/ (LedgerRows' = LedgerRows /\ calls' = calls)

\* What the callback is about to send was dispatched.
LEMMA BeforeCallRuns ==
    ASSUME TypeOK, Ownership, Rows, NEW k \in Requests, BeforeCall(k)
    PROVE  row[k] \notin {"none", "queued", "overflow"} /\ LedgerState(k) = "started"
<1>1. k \in Owners
  BY DEF BeforeCall, Ownership
<1>2. row[k] \notin {"none", "queued", "overflow"}
  BY <1>1 DEF Rows, Unrun
<1> QED BY <1>2 DEF LedgerState

\* Any step that ends rows, or parts with a request before it is sent.
LEMMA LedgerCloses ==
    ASSUME TypeOK, Ownership, Rows, UNCHANGED calls,
           \A k \in Requests :
               \/ row'[k] = row[k]
               \/ row[k] \in ActiveRow /\ row'[k] \in {"succeeded", "failed", "unknown"}
               \/ row[k] = "queued" /\ row'[k] = "overflow",
           \A k \in Requests : BeforeCall(k)' => BeforeCall(k) \/ row[k] = "dispatched"
    PROVE  LedgerGoal
<1> DEFINE S == {k \in Requests : LedgerRows'[k] # LedgerRows[k]}
<1>1. ASSUME NEW k \in Requests, LedgerState(k)' # LedgerState(k)
      PROVE  LedgerState(k) \in {"pending", "started"} /\ LedgerState(k)' = "closed"
  <2>1. BeforeCall(k) => row[k] \notin {"none", "queued", "overflow"}
    BY BeforeCallRuns
  <2>2. row[k] \in {"none", "succeeded", "failed", "unknown"} \union ActiveRow
    BY DEF TypeOK, TableTypes
  <2>3. CASE row'[k] = row[k]
    BY <1>1, <2>1, <2>2, <2>3 DEF LedgerState, ActiveRow
  <2>4. CASE row[k] \in ActiveRow /\ row'[k] \in {"succeeded", "failed", "unknown"}
    BY <1>1, <2>1, <2>4 DEF LedgerState, ActiveRow
  <2>5. CASE row[k] = "queued" /\ row'[k] = "overflow"
    BY <1>1, <2>5 DEF LedgerState
  <2> QED BY <2>3, <2>4, <2>5
<1>2. \A k \in S : LedgerRows[k] \in {"pending", "started"} /\ LedgerRows'[k] = "closed"
  BY <1>1 DEF LedgerRows
<1>3. LedgerRows' = [k \in Requests |-> IF k \in S THEN "closed" ELSE LedgerRows[k]]
  <2>1. LedgerRows' = [k \in Requests |-> LedgerRows'[k]]
    BY DEF LedgerRows
  <2> QED BY <1>2, <2>1
<1>4. Ledger!Close(S)
  <2> HIDE DEF S
  <2> QED BY <1>2, <1>3 DEF Ledger!Close, LedgerRows
<1>5. S \in SUBSET Requests
  OBVIOUS
<1> QED BY <1>4, <1>5 DEF LedgerGoal, Ledger!Next

LEMMA FinishCloses ==
    ASSUME TypeOK, NEW S, NEW outcome \in {"succeeded", "failed"}, FinishRows(S, outcome)
    PROVE  \A k \in Requests :
               \/ row'[k] = row[k]
               \/ row[k] \in ActiveRow /\ row'[k] \in {"succeeded", "failed", "unknown"}
BY DEF FinishRows, TypeOK, TableTypes

\* One row moves on, and the ledger sees it.
LEMMA LedgerMoves ==
    ASSUME TypeOK, NEW k \in Requests,
           \A j \in Requests \ {k} : row'[j] = row[j],
           \A j \in Requests \ {k} : BeforeCall(j)' <=> BeforeCall(j)
    PROVE  LedgerRows' = [LedgerRows EXCEPT ![k] = LedgerState(k)']
<1>1. \A j \in Requests \ {k} : LedgerState(j)' = LedgerState(j)
  BY DEF LedgerState
<1>2. LedgerRows' = [j \in Requests |-> LedgerState(j)']
  BY DEF LedgerRows
<1> QED BY <1>1, <1>2 DEF LedgerRows

LEMMA LedgerStep ==
    TypeOK /\ Ownership /\ Rows /\ Calls /\ [Next]_vars => [Ledger!Next]_(Ledger!ledgerVars)
<1> SUFFICES ASSUME TypeOK, Ownership, Rows, Calls, [Next]_vars
             PROVE  [Ledger!Next]_(Ledger!ledgerVars)
  OBVIOUS
<1> SUFFICES LedgerGoal
  BY DEF LedgerGoal, Ledger!ledgerVars, LedgerRows
<1> USE DEF execVars, robotVars, graphVars, termVars, serverVars, histVars
<1>1. ASSUME UNCHANGED <<calls, row>>,
             \A k \in Requests : BeforeCall(k)' => BeforeCall(k) \/ row[k] = "dispatched"
      PROVE  LedgerGoal
  BY <1>1, LedgerCloses
<1>2. ASSUME UNCHANGED <<calls, row, at, job>> PROVE LedgerGoal
  BY <1>1, <1>2 DEF BeforeCall
<1>3. ASSUME UNCHANGED <<calls, row>>, at' \notin {"begun", "ready"} PROVE LedgerGoal
  BY <1>1, <1>3 DEF BeforeCall
<1>4. ASSUME NEW k \in Requests, Arrive(k) PROVE LedgerGoal
  <2>1. \A j \in Requests : BeforeCall(j)' <=> BeforeCall(j)
    BY <1>4 DEF Arrive, BeforeCall
  <2>2. row'[k] = "queued" /\ \A j \in Requests \ {k} : row'[j] = row[j]
    BY <1>4 DEF Arrive, TypeOK, TableTypes
  <2>3. LedgerRows' = [LedgerRows EXCEPT ![k] = "pending"]
    <3>1. LedgerState(k)' = "pending"
      BY <2>2 DEF LedgerState
    <3> QED BY <2>1, <2>2, <3>1, LedgerMoves
  <2>4. CASE row[k] = "none"
    <3>1. LedgerRows[k] = "new" /\ UNCHANGED calls
      BY <1>4, <2>4 DEF LedgerRows, LedgerState, Arrive
    <3>2. Ledger!Accept(k)
      BY <2>3, <3>1 DEF Ledger!Accept, LedgerRows
    <3> QED BY <3>2 DEF LedgerGoal, Ledger!Next
  <2>5. CASE row[k] = "overflow"
    <3>1. LedgerRows[k] = "pending" /\ UNCHANGED calls
      BY <1>4, <2>5 DEF LedgerRows, LedgerState, Arrive
    <3> QED BY <2>3, <3>1 DEF LedgerGoal, LedgerRows
  <2> QED BY <1>4, <2>4, <2>5 DEF Arrive
<1>5. ASSUME NEW k \in Requests, Claim(k) PROVE LedgerGoal
  <2>1. \A j \in Requests \ {k} : BeforeCall(j)' <=> BeforeCall(j)
    BY <1>5 DEF Claim, BeforeCall
  <2>2. row'[k] = "dispatched" /\ \A j \in Requests \ {k} : row'[j] = row[j]
    BY <1>5 DEF Claim, TypeOK, TableTypes
  <2>3. LedgerState(k)' = "started"
    BY <2>2 DEF LedgerState
  <2>4. LedgerRows' = [LedgerRows EXCEPT ![k] = "started"]
    BY <2>1, <2>2, <2>3, LedgerMoves
  <2>5. LedgerRows[k] = "pending" /\ UNCHANGED calls
    BY <1>5 DEF LedgerRows, LedgerState, Claim
  <2>6. Ledger!Start(k)
    BY <2>4, <2>5 DEF Ledger!Start, LedgerRows
  <2> QED BY <2>6 DEF LedgerGoal, Ledger!Next
<1>6. ASSUME NEW k \in Requests, Begin(k) PROVE LedgerGoal
  <2>1. \A j \in job' : j \in job /\ row[j] = "dispatched"
    BY <1>6 DEF Begin, Rows, Dispatched
  <2> QED BY <1>1, <1>6, <2>1 DEF Begin, BeforeCall
<1>7. ASSUME NEW k \in Requests, Call(k) PROVE LedgerGoal
  <2>1. job = {k} /\ at = "ready" /\ at' = "called" /\ UNCHANGED <<row, job>> /\ calls[k] = 0
    BY <1>7 DEF Call, TypeOK, ExecTypes, Calls, Called
  <2>2. calls' = [calls EXCEPT ![k] = 1]
    BY <1>7, <2>1 DEF Call
  <2>3. BeforeCall(k) /\ \A j \in Requests \ {k} : ~BeforeCall(j) /\ ~BeforeCall(j)'
    BY <2>1 DEF BeforeCall
  <2>4. LedgerRows[k] = "started" /\ LedgerState(k)' \in {"started", "closed"}
    BY <2>1, <2>3, BeforeCallRuns DEF LedgerRows, LedgerState
  <2>5. LedgerRows' = [LedgerRows EXCEPT ![k] = LedgerState(k)']
    BY <2>1, <2>3, LedgerMoves
  <2>6. Ledger!Run(k)
    BY <2>1, <2>2, <2>4, <2>5 DEF Ledger!Run, LedgerRows
  <2> QED BY <2>6 DEF LedgerGoal, Ledger!Next
<1>8. ASSUME NEW k \in Requests, Prepare(k) PROVE LedgerGoal
  BY <1>1, <1>8 DEF Prepare, BeforeCall
<1>9. ASSUME NEW k \in Requests,
             \/ Refuse(k) \/ NoServer(k) \/ Misfit(k) \/ CallFails(k) \/ Record(k)
             \/ PublishAnswer(k)
      PROVE  LedgerGoal
  BY <1>3, <1>9 DEF Refuse, NoServer, Misfit, CallFails, Record, PublishAnswer, EndIn
<1>10. ASSUME NEW S, NEW outcome \in {"succeeded", "failed"}, FinishRows(S, outcome),
              UNCHANGED calls,
              \A k \in Requests : BeforeCall(k)' => BeforeCall(k)
       PROVE  LedgerGoal
  BY <1>10, FinishCloses, LedgerCloses
<1>11. ASSUME NEW k \in Requests, Close(k) PROVE LedgerGoal
  <2>1. verdict \in {"succeeded", "failed"}
    BY DEF TypeOK, ExecTypes
  <2> QED BY <1>10, <1>11, <2>1 DEF Close, BeforeCall
<1>12. ASSUME NEW k \in Goals, Cancel(k) PROVE LedgerGoal
  BY <1>2, <1>12 DEF Cancel
<1>13. CASE Robot
  BY <1>13, <1>2, <1>3 DEF Robot, Respond, AcceptGoal, RejectGoal, Result, Answer, Negative, EndIn
<1>14. CASE Timer
  BY <1>14, <1>3 DEF Timer, TimeOut
<1>15. CASE Graph
  BY <1>15, <1>2 DEF Graph, Refresh, GoDown, ComeUp
<1>16. CASE FinishTarget
  BY <1>10, <1>16 DEF FinishTarget, BeforeCall
<1>17. CASE Worker
  BY <1>16, <1>17, <1>2 DEF Worker, Vanish, Rejoin, ReadTx, EndTx
<1>18. CASE SweepRows
  <2>1. UNCHANGED calls /\ \A k \in Requests : BeforeCall(k)' => BeforeCall(k)
    BY <1>18 DEF SweepRows, BeforeCall
  <2>2. \A k \in Requests :
            \/ row'[k] = row[k]
            \/ row[k] = "dispatched" /\ row'[k] = "unknown"
            \/ row[k] = "queued" /\ row'[k] = "overflow"
    BY <1>18 DEF SweepRows
  <2> QED BY <2>1, <2>2, LedgerCloses DEF ActiveRow
<1>19. CASE Boot
  BY <1>18, <1>19, <1>2 DEF Boot, StartSpinning, Orphan
<1>20. CASE Stop
  BY <1>10, <1>20 DEF Stop, BeforeCall
<1>21. CASE Exit \/ Crash
  BY <1>21, <1>3 DEF Exit, Crash, LoseMemory
<1>22. CASE UNCHANGED vars
  BY <1>22, <1>2 DEF vars
<1> QED
  BY <1>4, <1>5, <1>6, <1>7, <1>8, <1>9, <1>11, <1>12, <1>13, <1>14, <1>15, <1>17, <1>19,
     <1>20, <1>21, <1>22 DEF Next, Dispatcher

\* The two threads together keep the promises of the request ledger: a request
\* is sent to its server at most once, between its dispatch and the end of it,
\* across every termination, crash and boot.
THEOREM TransactionsImplementsLedger == Spec => LedgerSpec
<1>1. Init => Ledger!Init
  <2> SUFFICES ASSUME Init PROVE Ledger!Init
    OBVIOUS
  <2>1. LedgerRows = [k \in Requests |-> "new"]
    BY DEF Init, LedgerRows, LedgerState
  <2> QED BY <2>1 DEF Init, LedgerRows, Ledger!Init
<1> QED BY CallsHold, LedgerStep, <1>1, PTL DEF Spec, LedgerSpec, Ledger!Spec
=============================================================================

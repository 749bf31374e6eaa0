-------------------------- MODULE AdmissionProofs --------------------------
(***************************************************************************)
(* Proofs about Admission for every value of its constants: the type       *)
(* invariant, at-most-once execution, the refinement of RequestLedger, no  *)
(* lost wake-up, nothing queued without a carrier, a marker that passes    *)
(* only what needs no further delivery, and how long a request is kept     *)
(* from taking effect again.                                               *)
(***************************************************************************)
EXTENDS Admission, TLAPS

\* A group of variables a step leaves alone keeps its types.
LEMMA Frame ==
    ASSUME TypeOK
    PROVE  /\ UNCHANGED cseVars => CseTypes'
           /\ UNCHANGED <<row, closedAt>> => RowTypes'
           /\ UNCHANGED markVars => MarkTypes'
           /\ UNCHANGED laneVars => LaneTypes'
           /\ UNCHANGED drainVars => DrainTypes'
           /\ UNCHANGED lockVars => LockTypes'
           /\ UNCHANGED sweepVars => SweepTypes'
           /\ UNCHANGED historyVars => HistoryTypes'
<1> USE DEF TypeOK
<1>1. UNCHANGED cseVars => CseTypes'
  BY DEF cseVars, CseTypes
<1>2. UNCHANGED <<row, closedAt>> => RowTypes'
  BY DEF RowTypes
<1>3. UNCHANGED markVars => MarkTypes'
  BY DEF markVars, MarkTypes
<1>4. UNCHANGED laneVars => LaneTypes'
  BY DEF laneVars, LaneTypes
<1>5. UNCHANGED drainVars => DrainTypes'
  BY DEF drainVars, DrainTypes
<1>6. UNCHANGED lockVars => LockTypes'
  BY DEF lockVars, LockTypes
<1>7. UNCHANGED sweepVars => SweepTypes'
  BY DEF sweepVars, SweepTypes
<1>8. UNCHANGED historyVars => HistoryTypes'
  BY DEF historyVars, HistoryTypes
<1> QED BY <1>1, <1>2, <1>3, <1>4, <1>5, <1>6, <1>7, <1>8

LEMMA EmptyLane == <<>> \in Seq(CINs)
OBVIOUS

LEMMA TypesInit == Init => TypeOK
<1> SUFFICES ASSUME Init PROVE TypeOK
  OBVIOUS
<1> USE DEF Init
<1>1. CseTypes /\ RowTypes /\ MarkTypes
  BY DEF CseTypes, RowTypes, MarkTypes, Missing
<1>2. LaneTypes /\ DrainTypes
  BY EmptyLane DEF LaneTypes, DrainTypes
<1>3. LockTypes /\ SweepTypes /\ HistoryTypes /\ ThreadTypes
  BY DEF LockTypes, SweepTypes, HistoryTypes, ThreadTypes, Phases
<1> QED BY <1>1, <1>2, <1>3 DEF TypeOK

\* get_batch hands out and keeps events of the lanes, nothing else.
LEMMA GetBatchTypes ==
    ASSUME control \in Seq(CINs), normal \in Seq(CINs), NEW budget \in Nat,
           GetBatch(budget)
    PROVE  /\ batch' \in Seq(CINs)
           /\ control' \in Seq(CINs)
           /\ normal' \in Seq(CINs)
<1> DEFINE n == Taken(budget)
<1>1. Waiting \in Seq(CINs) /\ Len(Waiting) = Len(control) + Len(normal)
  BY DEF Waiting
<1>2. n \in Nat /\ n <= Len(Waiting)
  BY <1>1 DEF Taken
<1>3. batch' \in Seq(CINs)
  BY <1>1, <1>2 DEF GetBatch
<1>4. control' \in Seq(CINs)
  BY <1>2 DEF GetBatch, Drop
<1>5. normal' \in Seq(CINs)
  <2>1. Later(0, n - Len(control)) \in Nat
    BY <1>2 DEF Later
  <2> QED BY <2>1 DEF GetBatch, Drop
<1> QED BY <1>3, <1>4, <1>5

LEMMA TypesStep == TypeOK /\ [Next]_vars => TypeOK'
<1> SUFFICES ASSUME TypeOK, [Next]_vars PROVE TypeOK'
  OBVIOUS
<1>a. CseTypes /\ RowTypes /\ MarkTypes /\ LaneTypes /\ DrainTypes /\ LockTypes
      /\ SweepTypes /\ HistoryTypes /\ ThreadTypes
  BY DEF TypeOK
<1> USE <1>a, Frame, ConstantTypes DEF ThreadTypes, boundVars
<1> SUFFICES CseTypes' /\ RowTypes' /\ MarkTypes' /\ LaneTypes' /\ DrainTypes'
             /\ LockTypes' /\ SweepTypes' /\ HistoryTypes' /\ ThreadTypes'
  BY DEF TypeOK
<1> DEFINE Goal == CseTypes' /\ RowTypes' /\ MarkTypes' /\ LaneTypes' /\ DrainTypes'
             /\ LockTypes' /\ SweepTypes' /\ HistoryTypes' /\ ThreadTypes'
<1>1. CASE Tick BY <1>1 DEF Tick, CseTypes
<1>2. ASSUME NEW c \in CINs, Create(c) PROVE Goal BY <1>2 DEF Create, CseTypes
<1>3. ASSUME NEW c \in CINs, RefuseNotify(c) PROVE Goal
  BY <1>3 DEF RefuseNotify, TakeNote, CseTypes
<1>4. ASSUME NEW c \in CINs, ReceiveNotify(c) PROVE Goal
  BY <1>4 DEF ReceiveNotify, TakeNote, WriteRow, CseTypes, RowTypes, Active,
              LockTypes, lockVars
<1>5. CASE Enqueue
  <2>1. LaneTypes'
    <3>1. admitting \in CINs
      BY <1>5 DEF Enqueue, LockTypes, LockFree
    <3>2. CASE admitting \in Control
      <4>1. control' = Append(control, admitting) /\ normal' = normal
        BY <1>5, <3>2 DEF Enqueue, Put
      <4>2. Append(control, admitting) \in Seq(CINs)
        BY <3>1 DEF LaneTypes
      <4> QED BY <4>1, <4>2 DEF LaneTypes
    <3>3. CASE admitting \notin Control
      <4>1. normal' = Append(normal, admitting) /\ control' = control
        BY <1>5, <3>3 DEF Enqueue, Put
      <4>2. Append(normal, admitting) \in Seq(CINs)
        BY <3>1 DEF LaneTypes
      <4> QED BY <4>1, <4>2 DEF LaneTypes
    <3> QED BY <3>2, <3>3
  <2>2. MarkTypes'
    BY <1>5 DEF Enqueue, MarkProcessed, Later, MarkTypes, CseTypes, LockTypes, LockFree
  <2>3. SweepTypes'
    BY <1>5 DEF Enqueue, Swept, Later, SweepTypes, CseTypes, LockTypes, LockFree, Missing
  <2> QED BY <1>5, <2>1, <2>2, <2>3 DEF Enqueue, LockTypes
<1>6. CASE Overflow
  <2>1. RowTypes'
    BY <1>6 DEF Overflow, RowTypes, LockTypes, LockFree, Active
  <2>2. SweepTypes'
    BY <1>6 DEF Overflow, SweepTypes
  <2> QED BY <1>6, <2>1, <2>2 DEF Overflow, LockTypes
<1>7. CASE RequestCatchup BY <1>7 DEF RequestCatchup
<1>8. CASE StartSweep BY <1>8 DEF StartSweep, SweepTypes
<1>9. CASE FinishPath BY <1>9 DEF FinishPath, LeavePath, SweepTypes, MarkTypes
<1>10. CASE Cleanup BY <1>10 DEF Cleanup, RowTypes, HistoryTypes
<1>11. ASSUME NEW p \in Paths, ListPath(p) PROVE Goal
  BY <1>11 DEF ListPath, Listed, SweepTypes, MarkTypes
<1>12. ASSUME NEW p \in Paths, ListFails(p) PROVE Goal
  BY <1>12 DEF ListFails, SweepTypes
<1>13. ASSUME NEW c \in CINs, SweepAdmit(c) PROVE Goal
  <2>1. RowTypes' /\ LockTypes'
    BY <1>13 DEF SweepAdmit, WriteRow, RowTypes, LockTypes, lockVars, Active
  <2>2. MarkTypes'
    BY <1>13 DEF SweepAdmit, MarkProcessed, Later, MarkTypes, CseTypes
  <2>3. SweepTypes'
    BY <1>13 DEF SweepAdmit, Swept, Later, SweepTypes, sweepVars, CseTypes, Missing
  <2> QED BY <1>13, <2>1, <2>2, <2>3 DEF SweepAdmit
<1>14. ASSUME NEW c \in CINs, SweepRaises(c) PROVE Goal
  BY <1>14 DEF SweepRaises, LeavePath, SweepTypes
<1>15. CASE Drain
  <2>1. LaneTypes' /\ batch' \in Seq(CINs)
    BY <1>15, GetBatchTypes DEF Drain, LaneTypes
  <2> QED BY <1>15, <2>1 DEF Drain, DrainTypes
<1>16. CASE Dispatch
  <2>1. Head(batch) \in CINs /\ Tail(batch) \in Seq(CINs)
    BY <1>16 DEF Dispatch, DrainTypes
  <2>2. RowTypes'
    BY <1>16, <2>1 DEF Dispatch, Claim, RowTypes, Active
  <2>3. DrainTypes'
    BY <1>16, <2>1 DEF Dispatch, Claim, DrainTypes
  <2> QED BY <1>16, <2>2, <2>3 DEF Dispatch
<1>17. CASE Execute
  <2>1. KeyOf[executing] \in Keys
    BY <1>17 DEF Execute, DrainTypes
  <2>2. RowTypes'
    BY <1>17, <2>1 DEF Execute, Finish, RowTypes, CseTypes, Terminal
  <2>3. HistoryTypes'
    BY <1>17, <2>1 DEF Execute, Effect, HistoryTypes, historyVars
  <2> QED BY <1>17, <2>2, <2>3 DEF Execute, DrainTypes
<1>18. CASE EndDrain BY <1>18 DEF EndDrain, DrainTypes
<1>19. ASSUME NEW k \in Keys, Callback(k) PROVE Goal
  BY <1>19 DEF Callback, Finish, RowTypes, CseTypes, Terminal
<1>20. CASE Boot BY <1>20 DEF Boot, Phases
<1>21. CASE ActivateRoutes BY <1>21 DEF ActivateRoutes, Phases
<1>22. CASE InitMarkers BY <1>22 DEF InitMarkers, Phases, MarkTypes
<1>23. CASE BootSweep
  <2>1. RowTypes'
    BY <1>23 DEF BootSweep, RowTypes, CseTypes, Active, Terminal
  <2> QED BY <1>23, <2>1 DEF BootSweep, Phases
<1>24. CASE Stop BY <1>24 DEF Stop, Phases
<1>25. CASE JoinWorker BY <1>25 DEF JoinWorker, Phases, Waiting, LaneTypes, DrainTypes
<1>26. CASE ShutdownItem
  <2>1. Head(batch) \in CINs /\ Tail(batch) \in Seq(CINs)
    BY <1>26 DEF ShutdownItem, DrainTypes
  <2> DEFINE k == KeyOf[Head(batch)]
  <2>2. RowTypes'
    <3>1. k \in Keys
      BY <2>1
    <3>2. \/ UNCHANGED <<row, closedAt>>
          \/ row' = [row EXCEPT ![k] = "dispatched"] /\ UNCHANGED closedAt
          \/ Finish(k, "shuttingDown")
      BY <1>26 DEF ShutdownItem, Claim
    <3> QED BY <3>1, <3>2 DEF Finish, RowTypes, CseTypes, Active, Terminal
  <2>3. DrainTypes'
    BY <1>26, <2>1 DEF ShutdownItem, Claim, DrainTypes
  <2> QED BY <1>26, <2>2, <2>3 DEF ShutdownItem
<1>27. CASE ShutdownSpin BY <1>27 DEF ShutdownSpin, Phases
<1>28. ASSUME LoseMemory, UNCHANGED stops \/ stops' \in Nat, crashes' \in Nat PROVE Goal
  BY <1>28, EmptyLane DEF LoseMemory, Phases, LaneTypes, DrainTypes, LockTypes, SweepTypes
<1>29. CASE Exit BY <1>29, <1>28 DEF Exit
<1>30. CASE Crash BY <1>30, <1>28 DEF Crash
<1>31. CASE UNCHANGED vars BY <1>31 DEF vars
<1> QED
  BY <1>1, <1>2, <1>3, <1>4, <1>5, <1>6, <1>7, <1>8, <1>9, <1>10, <1>11, <1>12,
     <1>13, <1>14, <1>15, <1>16, <1>17, <1>18, <1>19, <1>20, <1>21, <1>22, <1>23,
     <1>24, <1>25, <1>26, <1>27, <1>29, <1>30, <1>31
     DEF Next, CSE, Listener, Lock, Worker, Executor, Main

\* Every variable stays in its type: rows keep to the vocabulary of
\* core/vocab.py and the lanes carry CINs only.
THEOREM AdmissionTypes == Spec => []TypeOK
BY TypesInit, TypesStep, PTL DEF Spec
-----------------------------------------------------------------------------
(***************************************************************************)
(* At most once.  Inv strengthens AtMostOnce to an inductive invariant:    *)
(* the compare-and-set hands each row to one execution.                    *)
(***************************************************************************)

Inv == TypeOK /\ ExecutorOwnsRow /\ AtMostOnce

\* Only these steps touch what ExecutorOwnsRow relates.
LEMMA ExecutionFrame ==
    ASSUME ExecutorOwnsRow, AtMostOnce, UNCHANGED <<row, runs>>,
           \/ UNCHANGED <<executing, draining, phase>>
           \/ executing' = NoCIN /\ (draining' => phase' \in {"running", "spinning"})
    PROVE  ExecutorOwnsRow' /\ AtMostOnce'
BY DEF ExecutorOwnsRow, AtMostOnce

LEMMA InvInit == Init => Inv
<1> SUFFICES ASSUME Init PROVE Inv
  OBVIOUS
<1>1. TypeOK
  BY TypesInit
<1>2. ExecutorOwnsRow /\ AtMostOnce
  BY DEF Init, ExecutorOwnsRow, AtMostOnce
<1> QED BY <1>1, <1>2 DEF Inv

LEMMA InvStep == Inv /\ [Next]_vars => Inv'
<1> SUFFICES ASSUME Inv, [Next]_vars PROVE Inv'
  OBVIOUS
<1>a. TypeOK /\ ExecutorOwnsRow /\ AtMostOnce
  BY DEF Inv
<1>b. TypeOK'
  BY <1>a, TypesStep
<1> DEFINE Goal == ExecutorOwnsRow' /\ AtMostOnce'
<1> SUFFICES Goal
  BY <1>b DEF Inv
<1>c. /\ row \in [Keys -> {"none"} \union Active \union Terminal]
      /\ runs \in [Keys -> Nat]
      /\ executing \in CINs \union {NoCIN}
      /\ holder # "free" => admitting \in CINs
      /\ batch \in Seq(CINs)
  BY <1>a DEF TypeOK, RowTypes, HistoryTypes, DrainTypes, LockTypes
<1> USE <1>a, <1>c, ConstantTypes
\* A row is written for admission: nothing has run since.
<1>1. ASSUME NEW c \in CINs, NEW who, WriteRow(c, who),
             UNCHANGED <<runs, executing, draining, phase>>
      PROVE  Goal
  BY <1>1 DEF WriteRow, Admissible, ExecutorOwnsRow, AtMostOnce
<1>2. ASSUME NEW c \in CINs, ReceiveNotify(c) PROVE Goal
  <2>1. CASE WriteRow(c, "notify")
    BY <1>2, <1>1, <2>1 DEF ReceiveNotify, drainVars, historyVars
  <2>2. CASE UNCHANGED row
    BY <1>2, <2>2, ExecutionFrame DEF ReceiveNotify, drainVars, historyVars
  <2> QED BY <1>2, <2>1, <2>2 DEF ReceiveNotify
<1>3. ASSUME NEW c \in CINs, SweepAdmit(c) PROVE Goal
  <2>1. CASE WriteRow(c, "sweep")
    BY <1>3, <1>1, <2>1 DEF SweepAdmit, drainVars, historyVars
  <2>2. CASE UNCHANGED row
    BY <1>3, <2>2, ExecutionFrame DEF SweepAdmit, drainVars, historyVars
  <2> QED BY <1>3, <2>1, <2>2 DEF SweepAdmit
<1>4. CASE Overflow
  BY <1>4 DEF Overflow, LockFree, drainVars, historyVars, ExecutorOwnsRow, AtMostOnce
<1>5. CASE Cleanup
  BY <1>5 DEF Cleanup, Expired, Terminal, drainVars, ExecutorOwnsRow, AtMostOnce
\* The compare-and-set: the queued row has not run, and now is dispatched.
<1>6. ASSUME NEW c \in CINs, Claim(c), executing = NoCIN, draining \/ phase = "closing",
             UNCHANGED <<runs, draining, phase>>
      PROVE  Goal
  BY <1>6 DEF Claim, ExecutorOwnsRow, AtMostOnce
\* An open row is closed while nobody executes.
<1>7. ASSUME NEW k \in Keys, NEW t \in Terminal, Finish(k, t),
             executing = NoCIN \/ k # KeyOf[executing],
             UNCHANGED <<runs, executing, draining, phase>>
      PROVE  Goal
  BY <1>7 DEF Finish, Terminal, ExecutorOwnsRow, AtMostOnce
<1>8. CASE Execute
  <2> DEFINE k == KeyOf[executing]
  <2>1. /\ executing # NoCIN /\ executing' = NoCIN /\ k \in Keys
        /\ row[k] = "dispatched" /\ runs[k] = 0
    BY <1>8 DEF Execute, ExecutorOwnsRow
  <2>2. /\ row' = row \/ row' = [row EXCEPT ![k] = "finished"]
        /\ UNCHANGED <<draining, phase>>
    BY <1>8 DEF Execute, Finish
  <2>3. runs' = runs \/ runs' = [runs EXCEPT ![k] = 1]
    BY <1>8, <2>1 DEF Execute, Effect, historyVars
  <2>4. AtMostOnce'
    BY <2>1, <2>3 DEF AtMostOnce
  <2>5. ExecutorOwnsRow'
    BY <2>1, <2>2, <2>3 DEF ExecutorOwnsRow
  <2> QED BY <2>4, <2>5
<1>9. ASSUME NEW k \in Keys, Callback(k) PROVE Goal
  BY <1>9, <1>7 DEF Callback, Terminal, drainVars, historyVars, ExecutorOwnsRow
<1>10. CASE BootSweep
  BY <1>10 DEF BootSweep, drainVars, historyVars, ExecutorOwnsRow, AtMostOnce,
               Active, Terminal
<1>11. CASE Dispatch
  <2>1. Head(batch) \in CINs
    BY <1>11 DEF Dispatch
  <2> QED BY <1>11, <1>6, <2>1 DEF Dispatch, historyVars
<1>12. CASE ShutdownItem
  <2> DEFINE k == KeyOf[Head(batch)]
  <2>1. Head(batch) \in CINs /\ k \in Keys
    BY <1>12 DEF ShutdownItem
  <2>2. executing = NoCIN /\ phase = "closing" /\ UNCHANGED <<runs, draining, phase>>
    BY <1>12 DEF ShutdownItem, historyVars
  <2>3. CASE Claim(Head(batch))
    BY <2>1, <2>2, <2>3, <1>6
  <2>4. CASE Finish(k, "shuttingDown") /\ UNCHANGED executing
    BY <2>1, <2>2, <2>4, <1>7 DEF Terminal
  <2>5. CASE UNCHANGED <<row, executing>>
    BY <2>2, <2>5, ExecutionFrame
  <2> QED BY <1>12, <2>3, <2>4, <2>5 DEF ShutdownItem
\* The other steps leave rows and runs alone.
<1>13. ASSUME UNCHANGED <<row, runs, executing, draining, phase>> PROVE Goal
  BY <1>13, ExecutionFrame
<1>14. CASE CSE
  BY <1>14, <1>13 DEF CSE, Tick, Create, drainVars, historyVars
<1>15. CASE Listener
  BY <1>15, <1>13, <1>2 DEF Listener, RefuseNotify, drainVars, historyVars
<1>16. CASE Lock
  BY <1>16, <1>13, <1>4 DEF Lock, Enqueue, drainVars, historyVars
<1>17. CASE Worker
  BY <1>17, <1>13, <1>3, <1>5
     DEF Worker, RequestCatchup, StartSweep, FinishPath, ListPath, ListFails,
         SweepRaises, drainVars, historyVars
<1>18. CASE Executor
  <2>1. CASE Drain \/ EndDrain
    BY <2>1 DEF Drain, EndDrain, drainVars, historyVars, ExecutorOwnsRow, AtMostOnce
  <2> QED BY <1>18, <2>1, <1>8, <1>9, <1>11 DEF Executor
<1>19. CASE Main
  <2>1. CASE Boot \/ ActivateRoutes \/ InitMarkers
    BY <2>1 DEF Boot, ActivateRoutes, InitMarkers, drainVars, historyVars,
                ExecutorOwnsRow, AtMostOnce
  <2>2. CASE Stop \/ JoinWorker \/ ShutdownSpin
    BY <2>2 DEF Stop, JoinWorker, ShutdownSpin, drainVars, historyVars,
                ExecutorOwnsRow, AtMostOnce
  <2>3. CASE Exit \/ Crash
    <3>1. LoseMemory
      BY <2>3 DEF Exit, Crash
    <3> QED BY <3>1, ExecutionFrame DEF LoseMemory, historyVars
  <2> QED BY <1>19, <2>1, <2>2, <2>3, <1>10, <1>12 DEF Main
<1>20. CASE UNCHANGED vars
  BY <1>20, <1>13 DEF vars, drainVars, historyVars
<1> QED BY <1>14, <1>15, <1>16, <1>17, <1>18, <1>19, <1>20 DEF Next

THEOREM AdmissionInv == Spec => []Inv
BY InvInit, InvStep, PTL DEF Spec

\* Whoever executes a request owns its row, which has not run before.
THEOREM AdmissionOwnership == Spec => []ExecutorOwnsRow
<1>1. Inv => ExecutorOwnsRow
  BY DEF Inv
<1> QED BY AdmissionInv, <1>1, PTL

\* A request takes effect at most once while its row exists.
THEOREM AdmissionAtMostOnce == Spec => []AtMostOnce
<1>1. Inv => AtMostOnce
  BY DEF Inv
<1> QED BY AdmissionInv, <1>1, PTL
-----------------------------------------------------------------------------
(***************************************************************************)
(* Refinement.  Every step is one step of the ledger, or a stutter of it.  *)
(***************************************************************************)

LedgerRow == [k \in Keys |-> LedgerState(row[k])]

LEMMA LedgerStates ==
    /\ LedgerState("none") = "new"
    /\ LedgerState("queued") = "pending"
    /\ LedgerState("overflow") = "pending"
    /\ LedgerState("dispatched") = "started"
    /\ \A t \in Terminal : LedgerState(t) = "closed"
BY DEF LedgerState, Terminal

LEMMA LedgerInit == Init => Ledger!Init
<1> SUFFICES ASSUME Init PROVE Ledger!Init
  OBVIOUS
<1>1. LedgerRow = [k \in Keys |-> "new"]
  BY LedgerStates DEF Init, LedgerRow
<1> QED BY <1>1 DEF Init, LedgerRow, Ledger!Init

\* A step of one row seen by the ledger.
LEMMA LedgerExcept ==
    ASSUME RowTypes, NEW k \in Keys, NEW s, row' = [row EXCEPT ![k] = s]
    PROVE  /\ LedgerRow' = [LedgerRow EXCEPT ![k] = LedgerState(s)]
           /\ LedgerState(s) = LedgerState(row[k]) => LedgerRow' = LedgerRow
BY DEF LedgerRow, RowTypes

LEMMA LedgerStep == Inv /\ [Next]_vars => [Ledger!Next]_(Ledger!ledgerVars)
<1> SUFFICES ASSUME Inv, [Next]_vars PROVE [Ledger!Next]_(Ledger!ledgerVars)
  OBVIOUS
<1>a. TypeOK /\ ExecutorOwnsRow /\ AtMostOnce
  BY DEF Inv
<1>c. /\ RowTypes
      /\ row \in [Keys -> {"none"} \union Active \union Terminal]
      /\ runs \in [Keys -> Nat]
      /\ executing \in CINs \union {NoCIN}
      /\ holder # "free" => admitting \in CINs
      /\ batch \in Seq(CINs)
  BY <1>a DEF TypeOK, RowTypes, HistoryTypes, DrainTypes, LockTypes
<1> USE <1>a, <1>c, ConstantTypes
<1> DEFINE Goal == Ledger!Next \/ (LedgerRow' = LedgerRow /\ runs' = runs)
<1> SUFFICES Goal
  BY DEF Ledger!ledgerVars, LedgerRow
<1>1. ASSUME UNCHANGED <<row, runs>> PROVE Goal
  BY <1>1 DEF LedgerRow
\* The steps of the ledger, in terms of rows.
<1>2. ASSUME NEW k \in Keys, Admissible(k), row' = [row EXCEPT ![k] = "queued"],
             UNCHANGED runs
      PROVE  Goal
  <2>1. CASE row[k] = "none"
    <3>1. LedgerRow[k] = "new" /\ LedgerRow' = [LedgerRow EXCEPT ![k] = "pending"]
      BY <1>2, <2>1, LedgerStates, LedgerExcept DEF LedgerRow
    <3>2. Ledger!Accept(k)
      BY <1>2, <3>1 DEF Ledger!Accept, LedgerRow
    <3> QED BY <3>2 DEF Ledger!Next
  <2>2. CASE row[k] = "overflow"
    BY <1>2, <2>2, LedgerStates, LedgerExcept
  <2> QED BY <1>2, <2>1, <2>2 DEF Admissible
<1>3. ASSUME NEW k \in Keys, row[k] = "queued",
             row' = [row EXCEPT ![k] = "dispatched"], UNCHANGED runs
      PROVE  Goal
  <2>1. LedgerRow[k] = "pending" /\ LedgerRow' = [LedgerRow EXCEPT ![k] = "started"]
    BY <1>3, LedgerStates, LedgerExcept DEF LedgerRow
  <2>2. Ledger!Start(k)
    BY <1>3, <2>1 DEF Ledger!Start, LedgerRow
  <2> QED BY <2>2 DEF Ledger!Next
<1>4. ASSUME NEW S \in SUBSET Keys,
             \A k \in S : row[k] \in Active,
             \A k \in S : row'[k] \in Terminal,
             \A k \in Keys \ S : LedgerState(row'[k]) = LedgerState(row[k]),
             UNCHANGED runs
      PROVE  Goal
  <2>1. \A k \in S : LedgerRow[k] \in {"pending", "started"}
    BY <1>4, LedgerStates DEF LedgerRow, Active
  <2>2. LedgerRow' = [k \in Keys |-> IF k \in S THEN "closed" ELSE LedgerRow[k]]
    BY <1>4, LedgerStates DEF LedgerRow
  <2>3. Ledger!Close(S)
    BY <1>4, <2>1, <2>2 DEF Ledger!Close, LedgerRow
  <2> QED BY <2>3 DEF Ledger!Next
<1>5. ASSUME NEW c \in CINs, Claim(c), UNCHANGED runs PROVE Goal
  BY <1>5, <1>1, <1>3 DEF Claim
<1>6. ASSUME NEW k \in Keys, NEW t \in Terminal, row[k] \in Active, Finish(k, t),
             UNCHANGED runs
      PROVE  Goal
  BY <1>6, <1>4, {k} \in SUBSET Keys DEF Finish
<1>7. CASE Execute
  <2> DEFINE k == KeyOf[executing]
  <2>1. k \in Keys /\ row[k] = "dispatched" /\ runs[k] = 0
    BY <1>7 DEF Execute, ExecutorOwnsRow
  <2>2. CASE Effect(k) /\ (Finish(k, "finished") \/ UNCHANGED row)
    <3>1. LedgerRow[k] = "started"
      BY <2>1, LedgerStates DEF LedgerRow
    <3>2. \E after \in {"started", "closed"} :
              LedgerRow' = [LedgerRow EXCEPT ![k] = after]
      <4>1. CASE Finish(k, "finished")
        <5>1. row' = [row EXCEPT ![k] = "finished"] /\ LedgerState("finished") = "closed"
          BY <4>1, LedgerStates DEF Finish, Terminal
        <5>2. LedgerRow' = [LedgerRow EXCEPT ![k] = "closed"]
          BY <2>1, <5>1, LedgerExcept
        <5> QED BY <5>2
      <4>2. CASE UNCHANGED row
        <5>1. LedgerRow' = [LedgerRow EXCEPT ![k] = "started"]
          BY <2>1, <3>1, <4>2 DEF LedgerRow
        <5> QED BY <5>1
      <4> QED BY <2>2, <4>1, <4>2
    <3>3. runs' = [runs EXCEPT ![k] = 1]
      BY <2>1, <2>2 DEF Effect
    <3>4. Ledger!Run(k)
      BY <2>1, <3>1, <3>2, <3>3 DEF Ledger!Run, LedgerRow
    <3> QED BY <2>1, <3>4 DEF Ledger!Next
  <2>3. CASE Finish(k, "finished") /\ UNCHANGED runs
    BY <2>1, <2>3, <1>6 DEF Active, Terminal
  <2>4. CASE UNCHANGED <<row, runs>>
    BY <2>4, <1>1
  <2> QED BY <1>7, <2>2, <2>3, <2>4 DEF Execute, historyVars
<1>8. ASSUME NEW k \in Keys, Callback(k) PROVE Goal
  BY <1>8, <1>6 DEF Callback, Active, Terminal, historyVars
<1>9. CASE Overflow
  <2> DEFINE k == KeyOf[admitting]
  <2>1. k \in Keys /\ UNCHANGED runs
    BY <1>9 DEF Overflow, LockFree, historyVars
  <2>2. CASE row[k] = "queued"
    BY <1>9, <2>1, <2>2, LedgerStates, LedgerExcept DEF Overflow
  <2>3. CASE row[k] # "queued"
    BY <1>9, <2>1, <2>3, <1>1 DEF Overflow
  <2> QED BY <2>2, <2>3
<1>10. CASE Cleanup
  <2>1. \A k \in Expired : LedgerRow[k] = "closed"
    BY LedgerStates DEF LedgerRow, Expired
  <2>2. LedgerRow' = [k \in Keys |-> IF k \in Expired THEN "new" ELSE LedgerRow[k]]
    BY <1>10, LedgerStates DEF Cleanup, LedgerRow
  <2>3. Expired \in SUBSET Keys
    BY DEF Expired
  <2>4. Ledger!Forget(Expired)
    BY <1>10, <2>1, <2>2, <2>3 DEF Cleanup, Ledger!Forget, LedgerRow
  <2> QED BY <2>3, <2>4 DEF Ledger!Next
\* The boot sweep closes whatever was dispatched; queued and overflow rows
\* are both pending.
<1>11. CASE BootSweep
  <2> DEFINE S == {k \in Keys : row[k] = "dispatched"}
  <2>1. \A k \in S : row'[k] = "unknown"
    BY <1>11 DEF BootSweep
  <2>2. \A k \in Keys \ S : \/ row'[k] = row[k]
                            \/ row[k] = "queued" /\ row'[k] = "overflow"
    BY <1>11 DEF BootSweep
  <2>3. UNCHANGED runs
    BY <1>11 DEF BootSweep, historyVars
  <2> QED BY <2>1, <2>2, <2>3, <1>4, LedgerStates, S \in SUBSET Keys DEF Active, Terminal
<1>12. CASE ShutdownItem
  <2> DEFINE k == KeyOf[Head(batch)]
  <2>1. Head(batch) \in CINs /\ k \in Keys /\ UNCHANGED runs
    BY <1>12 DEF ShutdownItem, historyVars
  <2>2. CASE Claim(Head(batch))
    BY <2>1, <2>2, <1>5
  <2>3. CASE row[k] \in Active /\ Finish(k, "shuttingDown")
    BY <2>1, <2>3, <1>6 DEF Terminal
  <2>4. CASE UNCHANGED row
    BY <2>1, <2>4, <1>1
  <2> QED BY <1>12, <2>2, <2>3, <2>4 DEF ShutdownItem
<1>13. CASE CSE
  BY <1>13, <1>1 DEF CSE, Tick, Create, historyVars
<1>14. CASE Listener
  BY <1>14, <1>1, <1>2
     DEF Listener, RefuseNotify, ReceiveNotify, WriteRow, historyVars
<1>15. CASE Lock
  BY <1>15, <1>1, <1>9 DEF Lock, Enqueue, historyVars
<1>16. CASE Worker
  <2>1. ASSUME NEW c \in CINs, SweepAdmit(c) PROVE Goal
    BY <2>1, <1>1, <1>2 DEF SweepAdmit, WriteRow, historyVars
  <2> QED BY <1>16, <2>1, <1>1, <1>10
     DEF Worker, RequestCatchup, StartSweep, FinishPath, ListPath, ListFails,
         SweepRaises, historyVars
<1>17. CASE Executor
  <2>1. CASE Drain \/ EndDrain
    BY <2>1, <1>1 DEF Drain, EndDrain, historyVars
  <2>2. CASE Dispatch
    BY <2>2, <1>5 DEF Dispatch, historyVars
  <2> QED BY <1>17, <2>1, <2>2, <1>7, <1>8 DEF Executor
<1>18. CASE Main
  <2>1. CASE Boot \/ ActivateRoutes \/ InitMarkers \/ Stop \/ JoinWorker \/ ShutdownSpin
    BY <2>1, <1>1 DEF Boot, ActivateRoutes, InitMarkers, Stop, JoinWorker,
                      ShutdownSpin, historyVars
  <2>2. CASE Exit \/ Crash
    BY <2>2, <1>1 DEF Exit, Crash, LoseMemory, historyVars
  <2> QED BY <1>18, <2>1, <2>2, <1>11, <1>12 DEF Main
<1>19. CASE UNCHANGED vars
  BY <1>19, <1>1 DEF vars, historyVars
<1> QED BY <1>13, <1>14, <1>15, <1>16, <1>17, <1>18, <1>19 DEF Next

\* The processed table implements the request ledger: at most one effect per
\* acceptance, closed requests stay closed until they are forgotten.
THEOREM AdmissionImplementsLedger == Spec => LedgerSpec
<1>1. Init => Ledger!Init
  BY LedgerInit
<1>2. Inv /\ [Next]_vars => [Ledger!Next]_(Ledger!ledgerVars)
  BY LedgerStep
<1> QED BY <1>1, <1>2, AdmissionInv, PTL DEF Spec, LedgerSpec, Ledger!Spec
-----------------------------------------------------------------------------
(***************************************************************************)
(* No lost wake-up.  WakeInv says the same of the lanes one by one, and    *)
(* for every phase: what is put in before the executor spins counts too.   *)
(***************************************************************************)

WakeInv == control # <<>> \/ normal # <<>> => woken \/ draining

LEMMA WaitingLanes ==
    ASSUME LaneTypes
    PROVE  Waiting # <<>> <=> control # <<>> \/ normal # <<>>
BY DEF LaneTypes, Waiting

LEMMA WakeStep ==
    ASSUME TypeOK, WakeInv, [Next]_vars
    PROVE  WakeInv'
<1> USE DEF WakeInv
<1>1. CASE UNCHANGED <<laneVars, woken, draining>>
  BY <1>1 DEF laneVars
<1>2. CASE CSE
  BY <1>2, <1>1 DEF CSE, Tick, Create, drainVars
<1>3. CASE Listener
  BY <1>3, <1>1 DEF Listener, RefuseNotify, ReceiveNotify, drainVars
<1>4. CASE Lock
  BY <1>4, <1>1 DEF Lock, Enqueue, Overflow, drainVars
<1>5. CASE Worker
  BY <1>5, <1>1 DEF Worker, RequestCatchup, StartSweep, FinishPath, Cleanup,
                    ListPath, ListFails, SweepAdmit, SweepRaises, drainVars
<1>6. CASE Executor
  <2>1. CASE Drain
    BY <2>1 DEF Drain
  <2>2. CASE EndDrain
    BY <2>2, WaitingLanes DEF EndDrain, laneVars, TypeOK
  <2>3. ASSUME Dispatch \/ Execute \/ \E k \in Keys : Callback(k)
        PROVE  UNCHANGED <<laneVars, woken, draining>>
    BY <2>3 DEF Dispatch, Execute, Callback, drainVars
  <2> QED BY <1>6, <1>1, <2>1, <2>2, <2>3 DEF Executor
<1>7. CASE Main
  <2>1. ASSUME Boot \/ ActivateRoutes \/ InitMarkers \/ BootSweep \/ Stop
               \/ ShutdownItem \/ ShutdownSpin
        PROVE  UNCHANGED <<laneVars, woken, draining>>
    BY <2>1 DEF Boot, ActivateRoutes, InitMarkers, BootSweep, Stop, ShutdownItem,
                ShutdownSpin, drainVars
  <2>2. CASE JoinWorker \/ Exit \/ Crash
    BY <2>2 DEF JoinWorker, Exit, Crash, LoseMemory
  <2> QED BY <1>7, <1>1, <2>1, <2>2 DEF Main
<1>8. CASE UNCHANGED vars
  BY <1>8, <1>1 DEF vars, drainVars
<1> QED BY <1>2, <1>3, <1>4, <1>5, <1>6, <1>7, <1>8 DEF Next

\* No lost wake-up: whoever puts an event into a lane wakes the executor, and
\* the end of drain() looks again, so that nothing waits unnoticed.
THEOREM AdmissionWakes == Spec => []WaitingWakes
<1>1. Init => WakeInv
  BY DEF Init, WakeInv
<1>2. TypeOK /\ WakeInv /\ [Next]_vars => WakeInv'
  BY WakeStep
<1>3. TypeOK /\ WakeInv => WaitingWakes
  BY WaitingLanes DEF TypeOK, WakeInv, WaitingWakes
<1> QED BY <1>1, <1>2, <1>3, AdmissionTypes, PTL DEF Spec
-----------------------------------------------------------------------------
(***************************************************************************)
(* Queued rows are carried.  CarrierInv adds that the batch is empty       *)
(* whenever nobody works on it, so that no step overwrites what it carries.*)
(***************************************************************************)

Lies(lane, k) == \E i \in DOMAIN lane : KeyOf[lane[i]] = k
InHand(k) == holder # "free" /\ KeyOf[admitting] = k
CarriedBy(k) == InHand(k) \/ Lies(control, k) \/ Lies(normal, k) \/ Lies(batch, k)
Started == {"running", "stopping", "closing", "spinning"}

BatchInUse == draining \/ phase = "closing"

CarrierInv ==
    /\ phase \in Started => \A k \in Keys : row[k] = "queued" => CarriedBy(k)
    /\ ~BatchInUse => batch = <<>>

\* Where the events of a lane go: put at its end, taken from its head, joined
\* to another lane, or cut off at n.
LEMMA LiesAppended ==
    ASSUME NEW s \in Seq(CINs), NEW c \in CINs, NEW k, Lies(s, k) \/ KeyOf[c] = k
    PROVE  Lies(Append(s, c), k)
<1>1. DOMAIN Append(s, c) = 1 .. Len(s) + 1 /\ DOMAIN s = 1 .. Len(s)
  OBVIOUS
<1>2. /\ \A i \in 1 .. Len(s) : Append(s, c)[i] = s[i]
      /\ Append(s, c)[Len(s) + 1] = c
  OBVIOUS
<1> QED BY <1>1, <1>2 DEF Lies

LEMMA LiesTaken ==
    ASSUME NEW s \in Seq(CINs), s # <<>>, NEW k, Lies(s, k)
    PROVE  KeyOf[Head(s)] = k \/ Lies(Tail(s), k)
<1>1. PICK i \in 1 .. Len(s) : KeyOf[s[i]] = k
  BY DEF Lies
<1>2. CASE i = 1
  BY <1>1, <1>2
<1>3. CASE i # 1
  <2>1. i - 1 \in DOMAIN Tail(s) /\ Tail(s)[i - 1] = s[i]
    BY <1>3
  <2> QED BY <1>1, <2>1 DEF Lies
<1> QED BY <1>2, <1>3

LEMMA LiesJoined ==
    ASSUME NEW s \in Seq(CINs), NEW t \in Seq(CINs), NEW k, Lies(s, k) \/ Lies(t, k)
    PROVE  Lies(s \o t, k)
<1>1. /\ DOMAIN s = 1 .. Len(s) /\ DOMAIN t = 1 .. Len(t)
      /\ DOMAIN (s \o t) = 1 .. Len(s) + Len(t)
  OBVIOUS
<1>2. CASE Lies(s, k)
  <2>1. PICK i \in 1 .. Len(s) : KeyOf[s[i]] = k
    BY <1>1, <1>2 DEF Lies
  <2>2. (s \o t)[i] = s[i]
    OBVIOUS
  <2> QED BY <1>1, <2>1, <2>2 DEF Lies
<1>3. CASE Lies(t, k)
  <2>1. PICK i \in 1 .. Len(t) : KeyOf[t[i]] = k
    BY <1>1, <1>3 DEF Lies
  <2>2. (s \o t)[Len(s) + i] = t[i]
    OBVIOUS
  <2> QED BY <1>1, <2>1, <2>2 DEF Lies
<1> QED BY <1>2, <1>3

LEMMA LiesDropped ==
    ASSUME NEW s \in Seq(CINs), NEW n \in Nat, NEW i \in 1 .. Len(s), i > n
    PROVE  Lies(Drop(s, n), KeyOf[s[i]])
<1>1. /\ DOMAIN Drop(s, n) = 1 .. Len(s) - n
      /\ Drop(s, n)[i - n] = s[i]
  BY DEF Drop
<1> QED BY <1>1 DEF Lies

\* get_batch loses nothing: what it does not hand out stays in its lane.
LEMMA GetBatchKeeps ==
    ASSUME control \in Seq(CINs), normal \in Seq(CINs), NEW budget \in Nat,
           GetBatch(budget), NEW k, Lies(control, k) \/ Lies(normal, k)
    PROVE  Lies(batch', k) \/ Lies(control', k) \/ Lies(normal', k)
<1> DEFINE n == Taken(budget)
<1>1. /\ Waiting \in Seq(CINs) /\ Len(Waiting) = Len(control) + Len(normal)
      /\ \A i \in 1 .. Len(control) : Waiting[i] = control[i]
      /\ \A i \in 1 .. Len(normal) : Waiting[Len(control) + i] = normal[i]
  BY DEF Waiting
<1>2. n \in Nat /\ n <= Len(Waiting)
  BY <1>1 DEF Taken
<1>3. ASSUME NEW j \in 1 .. n PROVE Lies(batch', KeyOf[Waiting[j]])
  <2>1. batch' = SubSeq(Waiting, 1, n)
    BY DEF GetBatch
  <2>2. DOMAIN batch' = 1 .. n /\ batch'[j] = Waiting[j]
    BY <1>1, <1>2, <2>1
  <2> QED BY <2>2 DEF Lies
<1>4. CASE Lies(control, k)
  <2>1. PICK i \in 1 .. Len(control) : KeyOf[control[i]] = k
    BY <1>4 DEF Lies
  <2>2. CASE i <= n
    BY <1>1, <1>3, <2>1, <2>2
  <2>3. CASE i > n
    BY <1>2, <2>1, <2>3, LiesDropped DEF GetBatch
  <2> QED BY <1>2, <2>2, <2>3
<1>5. CASE Lies(normal, k)
  <2> DEFINE m == Later(0, n - Len(control))
  <2>1. PICK i \in 1 .. Len(normal) : KeyOf[normal[i]] = k
    BY <1>5 DEF Lies
  <2>2. m \in Nat /\ (i <= m => Len(control) + i <= n)
    BY <1>2 DEF Later
  <2>3. CASE i <= m
    BY <1>1, <1>2, <1>3, <2>1, <2>2, <2>3
  <2>4. CASE i > m
    <3>1. normal' = Drop(normal, m)
      BY DEF GetBatch
    <3> QED BY <2>1, <2>2, <2>4, <3>1, LiesDropped
  <2> QED BY <2>2, <2>3, <2>4
<1> QED BY <1>4, <1>5

LEMMA CarriedLanes == \A k : Carried(k) <=> CarriedBy(k)
BY DEF Carried, CarriedBy, InHand, Lies, LockFree

\* A step that moves no event carries every row it leaves or makes queued.
LEMMA CarrierFrame ==
    ASSUME CarrierInv, UNCHANGED <<lockVars, laneVars, batch>>,
           phase' \in Started => phase \in Started,
           BatchInUse => BatchInUse' \/ batch = <<>>,
           \A k \in Keys : row'[k] = "queued" => row[k] = "queued"
    PROVE  CarrierInv'
BY DEF CarrierInv, CarriedBy, InHand, Lies, lockVars, laneVars

LEMMA CarrierStep ==
    ASSUME TypeOK, CarrierInv, ExecutorOwnsRow, [Next]_vars
    PROVE  CarrierInv'
<1>a. /\ row \in [Keys -> {"none"} \union Active \union Terminal]
      /\ control \in Seq(CINs) /\ normal \in Seq(CINs) /\ batch \in Seq(CINs)
      /\ holder # "free" => admitting \in CINs
  BY DEF TypeOK, RowTypes, LaneTypes, DrainTypes, LockTypes
<1>b. <<>> \in Seq(CINs) /\ \A k : ~Lies(<<>>, k)
  BY DEF Lies
<1> USE <1>a, ConstantTypes
\* The lock: the row is written, the lane takes the event, or has no room.
<1>1. ASSUME NEW c \in CINs, NEW who \in {"notify", "sweep"}, WriteRow(c, who),
             UNCHANGED <<laneVars, batch, draining, phase>>, LockFree
      PROVE  CarrierInv'
  <2>1. /\ row' = [row EXCEPT ![KeyOf[c]] = "queued"] /\ holder' # "free"
        /\ admitting' = c /\ ~InHand(KeyOf[c]) /\ \A k : ~InHand(k)
    BY <1>1 DEF WriteRow, LockFree, InHand
  <2> QED BY <1>1, <2>1 DEF CarrierInv, CarriedBy, InHand, Lies, laneVars, BatchInUse
<1>2. CASE Listener
  BY <1>2, <1>1, CarrierFrame
     DEF Listener, RefuseNotify, ReceiveNotify, drainVars, BatchInUse
<1>3. CASE Enqueue
  <2>1. /\ admitting \in CINs /\ holder # "free" /\ holder' = "free"
        /\ UNCHANGED <<row, phase, draining, batch>>
    BY <1>3 DEF Enqueue, LockFree, drainVars
  <2>2. \/ control' = Append(control, admitting) /\ normal' = normal
        \/ normal' = Append(normal, admitting) /\ control' = control
    BY <1>3 DEF Enqueue, Put
  <2>3. ASSUME NEW k, CarriedBy(k) PROVE CarriedBy(k)'
    <3>1. InHand(k) => KeyOf[admitting] = k
      BY DEF InHand
    <3>2. CASE control' = Append(control, admitting) /\ normal' = normal
      BY <2>1, <2>3, <3>1, <3>2, LiesAppended DEF CarriedBy
    <3>3. CASE normal' = Append(normal, admitting) /\ control' = control
      BY <2>1, <2>3, <3>1, <3>3, LiesAppended DEF CarriedBy
    <3> QED BY <2>2, <3>2, <3>3
  <2> QED BY <2>1, <2>3 DEF CarrierInv, BatchInUse
<1>4. CASE Overflow
  <2>1. /\ \A k \in Keys : row'[k] = "queued" => row[k] = "queued" /\ ~InHand(k)
        /\ UNCHANGED <<laneVars, batch, draining, phase>>
    BY <1>4 DEF Overflow, drainVars, InHand
  <2> QED BY <2>1 DEF CarrierInv, CarriedBy, Lies, laneVars, BatchInUse
<1>5. CASE Worker
  <2>1. ASSUME NEW c \in CINs, SweepAdmit(c) PROVE CarrierInv'
    BY <2>1, <1>1, CarrierFrame DEF SweepAdmit, drainVars, BatchInUse
  <2>2. CASE Cleanup
    BY <2>2, CarrierFrame DEF Cleanup, drainVars, BatchInUse
  <2> QED
    BY <1>5, <2>1, <2>2, CarrierFrame
       DEF Worker, RequestCatchup, StartSweep, FinishPath, ListPath, ListFails,
           SweepRaises, drainVars, BatchInUse
\* The executor: a batch is taken from the lanes and emptied from its head.
<1>6. CASE Drain
  <2>1. /\ batch = <<>> /\ GetBatch(DrainBudget) /\ draining'
        /\ UNCHANGED <<row, lockVars, phase>>
    BY <1>6 DEF Drain, CarrierInv, BatchInUse, ExecutorOwnsRow
  <2>2. ASSUME NEW k, CarriedBy(k) PROVE CarriedBy(k)'
    BY <1>b, <2>1, <2>2, GetBatchKeeps DEF CarriedBy, InHand, lockVars
  <2> QED BY <2>1, <2>2 DEF CarrierInv, BatchInUse
<1>7. ASSUME batch # <<>>, batch' = Tail(batch), row'[KeyOf[Head(batch)]] # "queued",
             \A k \in Keys : row'[k] = "queued" => row[k] = "queued",
             UNCHANGED <<lockVars, laneVars, draining, phase>>
      PROVE  CarrierInv'
  <2>1. ASSUME NEW k \in Keys, row'[k] = "queued", CarriedBy(k) PROVE CarriedBy(k)'
    <3>1. KeyOf[Head(batch)] # k
      BY <1>7, <2>1
    <3>2. CASE Lies(batch, k)
      <4>1. Lies(Tail(batch), k)
        BY <1>7, <3>1, <3>2, LiesTaken
      <4> QED BY <1>7, <4>1 DEF CarriedBy, Lies
    <3>3. CASE InHand(k)
      BY <1>7, <3>3 DEF CarriedBy, InHand, lockVars
    <3>4. CASE Lies(control, k) \/ Lies(normal, k)
      BY <1>7, <3>4 DEF CarriedBy, Lies, laneVars
    <3> QED BY <2>1, <3>2, <3>3, <3>4 DEF CarriedBy
  <2> QED BY <1>7, <2>1 DEF CarrierInv, BatchInUse
<1>8. CASE Dispatch
  <2>1. Head(batch) \in CINs
    BY <1>8 DEF Dispatch
  <2> QED BY <1>8, <1>7, <2>1 DEF Dispatch, Claim
<1>9. CASE ShutdownItem
  <2> DEFINE k == KeyOf[Head(batch)]
  <2>1. Head(batch) \in CINs /\ k \in Keys
    BY <1>9 DEF ShutdownItem
  <2>2. \/ UNCHANGED row /\ row[k] # "queued"
        \/ row' = [row EXCEPT ![k] = "dispatched"]
        \/ row' = [row EXCEPT ![k] = "shuttingDown"]
    BY <1>9 DEF ShutdownItem, Claim, Finish, Active
  <2> QED BY <1>9, <1>7, <2>1, <2>2 DEF ShutdownItem
<1>10. CASE Execute
  BY <1>10, CarrierFrame DEF Execute, Finish, BatchInUse
<1>11. ASSUME NEW k \in Keys, Callback(k) PROVE CarrierInv'
  BY <1>11, CarrierFrame DEF Callback, Finish, drainVars, BatchInUse
<1>12. CASE EndDrain
  BY <1>12, CarrierFrame DEF EndDrain, BatchInUse
\* The main thread: the boot sweep leaves no row queued; shutdown() takes what
\* is in the lanes.
<1>13. CASE BootSweep
  <2>1. \A k \in Keys : row'[k] # "queued"
    BY <1>13, Zenon DEF BootSweep
  <2> QED BY <1>13, <2>1 DEF BootSweep, drainVars, CarrierInv, BatchInUse
<1>14. CASE JoinWorker
  <2>1. batch = <<>> /\ batch' = control \o normal /\ phase' = "closing"
        /\ phase = "stopping" /\ UNCHANGED <<row, lockVars>>
    BY <1>14 DEF JoinWorker, Waiting, CarrierInv, BatchInUse, ExecutorOwnsRow
  <2>2. ASSUME NEW k, CarriedBy(k) PROVE CarriedBy(k)'
    BY <1>b, <2>1, <2>2, LiesJoined DEF CarriedBy, InHand, lockVars
  <2> QED BY <2>1, <2>2 DEF CarrierInv, BatchInUse, Started
<1>15. CASE Boot \/ ActivateRoutes \/ InitMarkers \/ Stop \/ ShutdownSpin
  BY <1>15, CarrierFrame
     DEF Boot, ActivateRoutes, InitMarkers, Stop, ShutdownSpin, drainVars,
         BatchInUse, Started
<1>16. CASE Exit \/ Crash
  BY <1>16 DEF Exit, Crash, LoseMemory, CarrierInv, Started
<1>17. CASE CSE
  BY <1>17, CarrierFrame DEF CSE, Tick, Create, drainVars, BatchInUse
<1>18. CASE UNCHANGED vars
  BY <1>18, CarrierFrame DEF vars, drainVars, BatchInUse
<1> QED
  BY <1>2, <1>3, <1>4, <1>5, <1>6, <1>8, <1>9, <1>10, <1>11, <1>12, <1>13, <1>14,
     <1>15, <1>16, <1>17, <1>18 DEF Next, Lock, Executor, Main

\* Once the boot sweep is done, every queued row has somebody who brings it to
\* the executor, or it would be refused as a duplicate for ever.
THEOREM AdmissionCarries == Spec => []QueuedHasCarrier
<1>1. Init => CarrierInv
  BY DEF Init, CarrierInv, Started
<1>2. Inv /\ CarrierInv /\ [Next]_vars => CarrierInv'
  BY CarrierStep DEF Inv
<1>3. CarrierInv => QueuedHasCarrier
  BY CarriedLanes DEF CarrierInv, QueuedHasCarrier, Started
<1> QED BY <1>1, <1>2, <1>3, AdmissionInv, PTL DEF Spec
-----------------------------------------------------------------------------
(***************************************************************************)
(* The marker.  SweepInv says what a running sweep knows of the CINs of    *)
(* its container: each is still to come, or needs no further delivery and  *)
(* is in nobody's hands, or is too new for the sweep to count it as done.  *)
(***************************************************************************)

\* Nothing has happened after now.
PastInv ==
    /\ \A c \in CINs : ct[c] <= clock
    /\ \A p \in Paths : lastCt[p] <= clock /\ marker[p] <= clock
    /\ completed <= clock

\* What is left to admit is of the container and not older than what is done.
ListInv ==
    /\ sweeping = NoPath => left = {}
    /\ sweeping # NoPath => phase \in Started
    /\ toSweep # {} => phase \in Started
    /\ \A d \in left : PathOf[d] = sweeping /\ ct[d] # 0 /\ completed <= ct[d]
    /\ holder = "sweep" => admitting \in Earliest /\ ~Admissible(KeyOf[admitting])

NoMoreToDo(e) == ~Admissible(KeyOf[e]) /\ (holder = "free" \/ KeyOf[admitting] # KeyOf[e])
TooNew(e) == completed <= ct[e] /\ \A d \in left : ct[d] <= ct[e]
InSweep(e) == PathOf[e] = sweeping /\ ct[e] # 0 /\ marker[sweeping] <= ct[e]

SweepInv ==
    sweeping # NoPath =>
        \A e \in CINs : InSweep(e) => e \in left \/ NoMoreToDo(e) \/ TooNew(e)

MarkerInv == PastInv /\ ListInv /\ SweepInv

\* A step that leaves the sweep alone, and takes no row from anybody.
LEMMA MarkerFrame ==
    ASSUME TypeOK, MarkerInv, UNCHANGED <<clock, ct, markVars, sweepVars, lockVars>>,
           phase \in Started => phase' \in Started,
           sweeping # NoPath =>
               \A k \in Keys : ~Admissible(k) => ~Admissible(k)'
    PROVE  MarkerInv'
<1>a. /\ left \subseteq CINs /\ (holder # "free" => admitting \in CINs)
      /\ KeyOf \in [CINs -> Keys]
  BY ConstantTypes DEF TypeOK, SweepTypes, LockTypes
<1>1. PastInv'
  BY DEF MarkerInv, PastInv, markVars, sweepVars
<1>2. Earliest' = Earliest
  BY DEF Earliest, sweepVars
<1>3. ListInv'
  BY <1>a, <1>2 DEF MarkerInv, ListInv, sweepVars, lockVars, Earliest
<1>4. SweepInv'
  BY <1>a DEF MarkerInv, SweepInv, InSweep, NoMoreToDo, TooNew, sweepVars, lockVars,
              markVars
<1> QED BY <1>1, <1>3, <1>4 DEF MarkerInv

\* The sweep counts the earliest CIN that is left as done, which needs nothing
\* more and is let go of.
LEMMA SweptKeeps ==
    ASSUME TypeOK, MarkerInv, NEW c \in Earliest, Swept(c), MarkProcessed(c),
           ~Admissible(KeyOf[c]), holder' = "free", UNCHANGED <<cseVars, row, marker, phase>>
    PROVE  MarkerInv'
<1>a. /\ clock \in Nat /\ ct \in [CINs -> Nat] /\ lastCt \in [Paths -> Nat]
      /\ marker \in [Paths -> Nat \union {Missing}]
      /\ left \subseteq CINs /\ completed \in Nat \union {Missing} /\ Missing \in Int
      /\ c \in CINs /\ c \in left /\ \A d \in left : ct[c] <= ct[d]
  BY DEF TypeOK, CseTypes, MarkTypes, SweepTypes, Missing, Earliest
<1>b. completed' = ct[c] /\ left' = left \ {c} /\ UNCHANGED <<toSweep, sweeping, ct, clock>>
  BY <1>a DEF Swept, Later, MarkerInv, ListInv, cseVars
<1> USE <1>a, <1>b, ConstantTypes DEF MarkerInv
<1>1. PastInv'
  BY DEF PastInv, MarkProcessed, Later
<1>2. ListInv'
  BY DEF ListInv
<1>3. SweepInv'
  BY DEF SweepInv, InSweep, NoMoreToDo, TooNew, Admissible
<1> QED BY <1>1, <1>2, <1>3

\* Whoever takes the lock takes it for a request that may be admitted.
LEMMA WriteRowKeeps ==
    ASSUME TypeOK, MarkerInv, NEW c \in CINs, NEW who \in {"notify", "sweep"},
           WriteRow(c, who), who = "sweep" => c \in Earliest,
           UNCHANGED <<clock, ct, markVars, sweepVars, phase>>
    PROVE  MarkerInv'
<1>a. /\ KeyOf[c] \in Keys /\ Admissible(KeyOf[c])
      /\ row' = [row EXCEPT ![KeyOf[c]] = "queued"] /\ holder' = who /\ admitting' = c
      /\ row \in [Keys -> {"none"} \union Active \union Terminal]
      /\ left \subseteq CINs
  BY ConstantTypes DEF WriteRow, TypeOK, RowTypes, SweepTypes
<1> USE <1>a, ConstantTypes DEF MarkerInv
<1>1. PastInv'
  BY DEF PastInv, markVars, sweepVars
<1>2. ListInv'
  BY DEF ListInv, sweepVars, Admissible, Earliest
<1>3. SweepInv'
  BY DEF SweepInv, InSweep, NoMoreToDo, TooNew, sweepVars, markVars, Admissible
<1> QED BY <1>1, <1>2, <1>3

LEMMA MarkerStep ==
    ASSUME TypeOK, MarkerInv, [Next]_vars
    PROVE  MarkerInv'
<1>a. /\ clock \in Nat /\ ct \in [CINs -> Nat] /\ lastCt \in [Paths -> Nat]
      /\ marker \in [Paths -> Nat \union {Missing}]
      /\ left \subseteq CINs /\ completed \in Nat \union {Missing} /\ Missing \in Int
      /\ row \in [Keys -> {"none"} \union Active \union Terminal]
      /\ toSweep \subseteq Paths /\ sweeping \in Paths \union {NoPath}
      /\ batch \in Seq(CINs) /\ executing \in CINs \union {NoCIN}
      /\ holder \in {"free", "notify", "sweep"} /\ (holder # "free" => admitting \in CINs)
  BY DEF TypeOK, CseTypes, MarkTypes, SweepTypes, Missing, RowTypes, DrainTypes, LockTypes
<1>b. PastInv /\ ListInv /\ SweepInv
  BY DEF MarkerInv
<1>c. sweeping = NoPath => left = {} /\ holder # "sweep"
  BY <1>b DEF ListInv, Earliest
<1> USE <1>a, <1>b, <1>c, ConstantTypes
<1>1. CASE Tick
  <2>1. PastInv'
    <3>1. clock' = clock + 1 /\ UNCHANGED <<ct, lastCt, marker, completed>>
      BY <1>1 DEF Tick, markVars, sweepVars
    <3>2. \A n \in Int : n <= clock => n <= clock + 1
      OBVIOUS
    <3>3. /\ \A c \in CINs : ct[c] \in Int
          /\ \A p \in Paths : lastCt[p] \in Int /\ marker[p] \in Int
          /\ completed \in Int
      OBVIOUS
    <3> QED BY <3>1, <3>2, <3>3 DEF PastInv
  <2>2. ListInv' /\ SweepInv'
    BY <1>1 DEF Tick, ListInv, SweepInv, Earliest, InSweep, NoMoreToDo, TooNew,
                Admissible, markVars, sweepVars, lockVars
  <2> QED BY <2>1, <2>2 DEF MarkerInv
\* A new CIN is too new for the sweep that is running.
<1>2. ASSUME NEW c \in CINs, Create(c) PROVE MarkerInv'
  <2>1. /\ ct' = [ct EXCEPT ![c] = clock] /\ c \notin left
        /\ UNCHANGED <<clock, markVars, sweepVars, lockVars, row, phase>>
    BY <1>2 DEF Create, ListInv
  <2>2. PastInv'
    BY <2>1 DEF PastInv, markVars, sweepVars
  <2>3. ListInv'
    BY <2>1 DEF ListInv, Earliest, Admissible, sweepVars, lockVars
  <2>4. TooNew(c)'
    BY <2>1 DEF TooNew, PastInv, sweepVars
  <2>5. SweepInv'
    BY <2>1, <2>4 DEF SweepInv, InSweep, NoMoreToDo, TooNew, Admissible, markVars,
                      sweepVars, lockVars
  <2> QED BY <2>2, <2>3, <2>5 DEF MarkerInv
<1>3. CASE Listener
  BY <1>3, MarkerFrame, WriteRowKeeps
     DEF Listener, RefuseNotify, ReceiveNotify, TakeNote, Admissible
<1>4. CASE Enqueue
  <2>1. CASE holder = "sweep"
    BY <1>4, <2>1, SweptKeeps DEF Enqueue, ListInv
  <2>2. CASE holder # "sweep"
    <3>1. /\ MarkProcessed(admitting) /\ admitting \in CINs /\ holder' = "free"
          /\ UNCHANGED <<cseVars, row, marker, phase, sweepVars>>
      BY <1>4, <2>2 DEF Enqueue, LockFree
    <3>2. PastInv'
      BY <3>1 DEF PastInv, MarkProcessed, Later, cseVars, sweepVars
    <3>3. ListInv' /\ SweepInv'
      BY <3>1 DEF ListInv, SweepInv, InSweep, NoMoreToDo, TooNew, Admissible, cseVars,
                  sweepVars
    <3> QED BY <3>2, <3>3 DEF MarkerInv
  <2> QED BY <2>1, <2>2
\* A full lane: the sweep forgets what is left, all of it too new to be done.
<1>5. CASE Overflow
  <2>1. /\ holder # "free" /\ holder' = "free"
        /\ \A k \in Keys : k # KeyOf[admitting] => row'[k] = row[k]
        /\ UNCHANGED <<cseVars, markVars, phase, toSweep, sweeping, completed>>
        /\ left' = left \/ left' = {}
    BY <1>5 DEF Overflow, LockFree, sweepVars
  <2>2. PastInv' /\ ListInv'
    BY <2>1 DEF PastInv, ListInv, cseVars, markVars
  <2>3. holder # "sweep" => left' = left
    BY <1>5 DEF Overflow, sweepVars
  <2>4. ASSUME NEW e \in CINs, InSweep(e)', sweeping # NoPath
        PROVE  (e \in left \/ NoMoreToDo(e) \/ TooNew(e))'
    <3>1. e \in left \/ NoMoreToDo(e) \/ TooNew(e)
      BY <2>1, <2>4 DEF SweepInv, InSweep, cseVars, markVars
    <3>2. CASE NoMoreToDo(e)
      BY <2>1, <3>2 DEF NoMoreToDo, Admissible
    <3>3. CASE TooNew(e)
      BY <2>1, <3>3 DEF TooNew, cseVars
    <3>4. CASE e \in left
      BY <2>1, <2>3, <3>4 DEF TooNew, ListInv, cseVars
    <3> QED BY <3>1, <3>2, <3>3, <3>4
  <2> QED BY <2>1, <2>2, <2>4 DEF MarkerInv, SweepInv
\* The worker.
<1>6. CASE StartSweep
  <2>1. /\ sweeping = NoPath /\ phase \in Started
        /\ UNCHANGED <<clock, ct, markVars, phase, sweeping, left, completed, row, lockVars>>
    BY <1>6 DEF StartSweep, SweepIdle, cseVars, Started
  <2> QED BY <2>1 DEF MarkerInv, PastInv, ListInv, SweepInv, markVars, lockVars
<1>7. ASSUME NEW p \in Paths, ListPath(p) PROVE MarkerInv'
  <2>1. /\ sweeping = NoPath /\ sweeping' = p /\ left' = Listed(p) /\ completed' = marker[p]
        /\ phase \in Started /\ holder # "sweep"
        /\ UNCHANGED <<cseVars, markVars, phase, toSweep, row, lockVars>>
    BY <1>7 DEF ListPath, ListInv
  <2>2. PastInv' /\ ListInv'
    BY <2>1 DEF PastInv, ListInv, Listed, cseVars, markVars, lockVars
  <2>3. SweepInv'
    BY <2>1 DEF SweepInv, InSweep, Listed, cseVars, markVars
  <2> QED BY <2>2, <2>3 DEF MarkerInv
<1>8. ASSUME NEW p \in Paths, ListFails(p) PROVE MarkerInv'
  <2>1. /\ sweeping = NoPath /\ toSweep # {}
        /\ UNCHANGED <<cseVars, markVars, phase, sweeping, left, completed, row, lockVars>>
    BY <1>8 DEF ListFails
  <2> QED BY <2>1 DEF MarkerInv, PastInv, ListInv, SweepInv, cseVars, markVars, lockVars
<1>9. ASSUME NEW c \in CINs, SweepAdmit(c) PROVE MarkerInv'
  <2>1. CASE WriteRow(c, "sweep") /\ UNCHANGED <<lastCt, sweepVars>>
    BY <1>9, <2>1, WriteRowKeeps DEF SweepAdmit, cseVars, markVars
  <2>2. CASE ~Admissible(KeyOf[c]) /\ MarkProcessed(c) /\ Swept(c)
             /\ UNCHANGED <<row, lockVars>>
    BY <1>9, <2>2, SweptKeeps DEF SweepAdmit, LockFree, lockVars
  <2> QED BY <1>9, <2>1, <2>2 DEF SweepAdmit
<1>10. ASSUME LeavePath, holder # "sweep", UNCHANGED <<cseVars, lastCt, phase, row, lockVars>>,
              marker' = marker \/ marker' = [marker EXCEPT ![sweeping] = completed]
       PROVE  MarkerInv'
  <2>1. /\ \A p \in Paths : marker'[p] \in {marker[p], completed}
        /\ sweeping' = NoPath /\ left' = {} /\ (toSweep' # {} => toSweep # {})
        /\ UNCHANGED <<completed, clock, ct, lastCt, phase, holder>>
    BY <1>10 DEF LeavePath, cseVars, lockVars
  <2>2. PastInv'
    BY <2>1 DEF PastInv
  <2>3. ListInv' /\ SweepInv'
    BY <1>10, <2>1 DEF ListInv, SweepInv
  <2> QED BY <2>2, <2>3 DEF MarkerInv
<1>11. CASE FinishPath
  BY <1>11, <1>10 DEF FinishPath
<1>12. ASSUME NEW c \in CINs, SweepRaises(c) PROVE MarkerInv'
  BY <1>12, <1>10 DEF SweepRaises, LockFree, markVars
<1>13. CASE RequestCatchup \/ Cleanup
  BY <1>13, MarkerFrame DEF RequestCatchup, Cleanup, SweepIdle, cseVars, Admissible
\* The executor and the main thread leave no row admissible.
<1>14. CASE Drain \/ EndDrain
  BY <1>14, MarkerFrame DEF Drain, EndDrain, cseVars, Admissible
<1>15. ASSUME NEW c \in CINs, Claim(c),
              UNCHANGED <<clock, ct, markVars, sweepVars, lockVars, phase>>
       PROVE  MarkerInv'
  BY <1>15, MarkerFrame DEF Claim, Admissible
<1>16. ASSUME NEW k \in Keys, NEW t \in Terminal, Finish(k, t),
              UNCHANGED <<clock, ct, markVars, sweepVars, lockVars, phase>>
       PROVE  MarkerInv'
  BY <1>16, MarkerFrame DEF Finish, Terminal, Admissible
<1>17. CASE Dispatch
  <2>1. Head(batch) \in CINs
    BY <1>17 DEF Dispatch
  <2> QED BY <1>17, <1>15, <2>1 DEF Dispatch, cseVars
<1>18. CASE Execute
  <2> DEFINE k == KeyOf[executing]
  <2>1. k \in Keys /\ (Finish(k, "finished") \/ UNCHANGED row)
        /\ UNCHANGED <<clock, ct, markVars, sweepVars, lockVars, phase>>
    BY <1>18 DEF Execute, cseVars
  <2>2. CASE Finish(k, "finished")
    BY <1>16, <2>1, <2>2 DEF Terminal
  <2>3. CASE UNCHANGED row
    BY <2>1, <2>3, MarkerFrame DEF Admissible
  <2> QED BY <2>1, <2>2, <2>3
<1>19. ASSUME NEW k \in Keys, Callback(k) PROVE MarkerInv'
  BY <1>19, <1>16 DEF Callback, Terminal, cseVars
<1>20. CASE ShutdownItem
  <2> DEFINE k == KeyOf[Head(batch)]
  <2>1. Head(batch) \in CINs /\ k \in Keys
    BY <1>20 DEF ShutdownItem
  <2>2. /\ Claim(Head(batch)) \/ Finish(k, "shuttingDown") \/ UNCHANGED row
        /\ UNCHANGED <<clock, ct, markVars, sweepVars, lockVars, phase>>
    BY <1>20 DEF ShutdownItem, cseVars
  <2>3. CASE UNCHANGED row
    BY <2>2, <2>3, MarkerFrame DEF Admissible
  <2> QED BY <1>15, <1>16, <2>1, <2>2, <2>3 DEF Terminal
<1>21. CASE Boot \/ ActivateRoutes \/ Stop \/ JoinWorker \/ ShutdownSpin
  BY <1>21, MarkerFrame
     DEF Boot, ActivateRoutes, Stop, JoinWorker, ShutdownSpin, cseVars, Admissible, Started
<1>22. CASE InitMarkers
  <2>1. /\ sweeping = NoPath /\ toSweep = {} /\ left = {}
        /\ UNCHANGED <<cseVars, lastCt, sweepVars, row, lockVars>>
        /\ \A p \in Paths : marker'[p] \in {lastCt[p], marker[p]}
    BY <1>22 DEF InitMarkers, ListInv, Started
  <2> QED BY <1>22, <2>1 DEF MarkerInv, PastInv, ListInv, SweepInv, cseVars, lockVars,
                             sweepVars
<1>23. CASE BootSweep
  <2>1. sweeping = NoPath /\ phase' \in Started
    BY <1>23 DEF BootSweep, ListInv, Started
  <2> QED BY <1>23, <2>1, MarkerFrame DEF BootSweep, cseVars
<1>24. CASE Exit \/ Crash
  <2>1. /\ sweeping' = NoPath /\ left' = {} /\ toSweep' = {} /\ completed' = 0
        /\ holder' = "free" /\ UNCHANGED <<cseVars, markVars>>
    BY <1>24 DEF Exit, Crash, LoseMemory
  <2> QED BY <2>1 DEF MarkerInv, PastInv, ListInv, SweepInv, cseVars, markVars
<1>25. CASE UNCHANGED vars
  BY <1>25, MarkerFrame DEF vars, cseVars, Admissible
<1> QED
  BY <1>1, <1>2, <1>3, <1>4, <1>5, <1>6, <1>7, <1>8, <1>9, <1>11, <1>12, <1>13, <1>14,
     <1>17, <1>18, <1>19, <1>20, <1>21, <1>22, <1>23, <1>24, <1>25
     DEF Next, CSE, Lock, Worker, Executor, Main

\* Where the marker moves, everything it passes is done.
LEMMA MarkerPasses ==
    ASSUME TypeOK, MarkerInv, Next, NEW c \in CINs,
           marker[PathOf[c]] # Missing, ~Passed(c), Passed(c)'
    PROVE  ~Admissible(KeyOf[c])
<1>a. /\ clock \in Nat /\ ct \in [CINs -> Nat]
      /\ marker \in [Paths -> Nat \union {Missing}] /\ Missing \in Int
      /\ PathOf[c] \in Paths
  BY ConstantTypes DEF TypeOK, CseTypes, MarkTypes, Missing
<1>1. CASE FinishPath
  <2>1. /\ sweeping # NoPath /\ left = {} /\ UNCHANGED ct
        /\ marker' = [marker EXCEPT ![sweeping] = completed]
    BY <1>1 DEF FinishPath, cseVars
  <2>2. /\ PathOf[c] = sweeping /\ ct[c] # 0
        /\ marker[sweeping] <= ct[c] /\ ct[c] < completed
    BY <1>a, <2>1 DEF Passed
  <2>3. completed \in Int
    BY <1>a DEF TypeOK, SweepTypes
  <2> QED BY <1>a, <2>1, <2>2, <2>3 DEF MarkerInv, SweepInv, InSweep, NoMoreToDo, TooNew
<1>2. ASSUME NEW d \in CINs, Create(d) PROVE FALSE
  <2>1. ct' = [ct EXCEPT ![d] = clock] /\ marker' = marker
    BY <1>2 DEF Create, markVars
  <2> QED BY <1>a, <2>1 DEF Passed, MarkerInv, PastInv
<1>3. CASE InitMarkers
  BY <1>a, <1>3 DEF InitMarkers, Passed, cseVars
<1>4. ASSUME UNCHANGED <<ct, marker>> PROVE FALSE
  BY <1>4 DEF Passed
<1>5. CASE Tick \/ Listener \/ Lock
  BY <1>4, <1>5 DEF Tick, Listener, RefuseNotify, ReceiveNotify, TakeNote, Lock, Enqueue,
                    Overflow, cseVars, markVars
<1>6. CASE Worker
  BY <1>1, <1>4, <1>6
     DEF Worker, RequestCatchup, StartSweep, Cleanup, ListPath, ListFails, SweepAdmit,
         SweepRaises, cseVars, markVars
<1>7. CASE Executor
  BY <1>4, <1>7 DEF Executor, Drain, Dispatch, Execute, EndDrain, Callback, cseVars,
                    markVars
<1>8. CASE Main
  BY <1>3, <1>4, <1>8
     DEF Main, Boot, ActivateRoutes, BootSweep, Stop, JoinWorker, ShutdownItem,
         ShutdownSpin, Exit, Crash, LoseMemory, cseVars, markVars
<1> QED BY <1>2, <1>5, <1>6, <1>7, <1>8 DEF Next, CSE

LEMMA MarkerInit == Init => MarkerInv
<1>1. ASSUME Init PROVE MarkerInv
  <2>1. /\ \A p \in Paths : marker[p] \in {0, Missing}
        /\ \A p \in Paths : lastCt[p] = 0
        /\ \A c \in CINs : ct[c] = 0
    BY <1>1 DEF Init
  <2> QED BY <1>1, <2>1 DEF Init, MarkerInv, PastInv, ListInv, SweepInv, Missing
<1> QED BY <1>1

\* The marker passes only requests that need no further delivery, however many
\* NOTIFYs were lost or late and however many requests share a second.
THEOREM AdmissionMarker == Spec => MarkerCoversAdmitted
<1>1. Init => MarkerInv
  BY MarkerInit
<1>2. TypeOK /\ MarkerInv /\ [Next]_vars => MarkerInv'
  BY MarkerStep
<1>3. TypeOK /\ MarkerInv /\ [Next]_vars =>
          [ \A c \in CINs :
                marker[PathOf[c]] # Missing /\ ~Passed(c) /\ Passed(c)'
                    => ~Admissible(KeyOf[c]) ]_vars
  BY MarkerPasses
<1> QED BY <1>1, <1>2, <1>3, AdmissionTypes, PTL DEF Spec, MarkerCoversAdmitted
-----------------------------------------------------------------------------
(***************************************************************************)
(* Repeated requests.  What NeverReplayed asks for, the code keeps for as  *)
(* long as it keeps its rows: an open row of a request that has already    *)
(* taken effect stands where one has been closed for the whole retention.  *)
(***************************************************************************)

Forgotten(k) == earlier[k] > 0 /\ row[k] \notin Terminal /\ runs[k] = 0

ReplayInv == \A k \in Keys : Forgotten(k) => closedAt[k] + Retention <= clock

\* The types of what a step of admission or of the executor reads.
LEMMA RunTypes ==
    ASSUME TypeOK
    PROVE  /\ clock \in Nat /\ ct \in [CINs -> Nat] /\ notes \subseteq CINs
           /\ row \in [Keys -> {"none"} \union Active \union Terminal]
           /\ closedAt \in [Keys -> Nat]
           /\ marker \in [Paths -> Nat \union {Missing}] /\ Missing \in Int
           /\ left \subseteq CINs /\ completed \in Nat \union {Missing}
           /\ toSweep \subseteq Paths /\ sweeping \in Paths \union {NoPath}
           /\ batch \in Seq(CINs) /\ executing \in CINs \union {NoCIN}
           /\ holder \in {"free", "notify", "sweep"}
           /\ holder # "free" => admitting \in CINs
BY DEF TypeOK, CseTypes, RowTypes, MarkTypes, SweepTypes, Missing, DrainTypes, LockTypes

\* An effect is an effect of the request that is being executed.
LEMMA EffectOfOwner ==
    ASSUME Inv, [Next]_vars, NEW k \in Keys, runs'[k] > runs[k]
    PROVE  Execute /\ k = KeyOf[executing] /\ row[k] = "dispatched" /\ runs[k] = 0
<1>1. runs \in [Keys -> Nat] /\ executing \in CINs \union {NoCIN} /\ ExecutorOwnsRow
  BY DEF Inv, TypeOK, HistoryTypes, DrainTypes
<1>2. CASE Execute
  <2>1. /\ executing # NoCIN /\ KeyOf[executing] \in Keys
        /\ runs' = runs \/ runs' = [runs EXCEPT ![KeyOf[executing]] = @ + 1]
    BY <1>1, <1>2, ConstantTypes DEF Execute, Effect, historyVars
  <2> QED BY <1>1, <1>2, <2>1 DEF ExecutorOwnsRow
<1>3. CASE Cleanup
  BY <1>1, <1>3 DEF Cleanup
<1>4. CASE UNCHANGED runs
  BY <1>1, <1>4
<1> QED BY <1>2, <1>3, <1>4 DEF Next, CSE, Tick, Create, Listener, RefuseNotify,
       ReceiveNotify, Lock, Enqueue, Overflow, Worker, RequestCatchup, StartSweep, ListPath,
       ListFails, SweepAdmit, SweepRaises, FinishPath, Executor, Drain, Dispatch, Callback,
       EndDrain, Main, Boot, ActivateRoutes, InitMarkers, BootSweep, Stop, JoinWorker,
       ShutdownItem, ShutdownSpin, Exit, Crash, LoseMemory, vars, historyVars

LEMMA ReplayStep == Inv /\ ReplayInv /\ [Next]_vars => ReplayInv'
<1> SUFFICES ASSUME Inv, ReplayInv, [Next]_vars PROVE ReplayInv'
  OBVIOUS
<1>a. /\ TypeOK /\ ExecutorOwnsRow
      /\ row \in [Keys -> {"none"} \union Active \union Terminal]
      /\ runs \in [Keys -> Nat] /\ earlier \in [Keys -> Nat]
      /\ closedAt \in [Keys -> Nat] /\ clock \in Nat /\ Retention \in Nat
      /\ executing \in CINs \union {NoCIN} /\ batch \in Seq(CINs)
  BY RunTypes, ConstantTypes DEF Inv, TypeOK, HistoryTypes
<1> DEFINE Kept(k) == Forgotten(k)' => closedAt'[k] + Retention <= clock'
<1> SUFFICES ASSUME NEW k \in Keys PROVE Kept(k)
  BY DEF ReplayInv, Forgotten
<1> USE <1>a DEF ReplayInv, Forgotten
\* A row that stays, or is opened again, was open before.
<1>1. ASSUME clock' = clock, UNCHANGED <<closedAt, runs, earlier>>,
             row[k] \in Terminal => row'[k] \in Terminal
      PROVE  Kept(k)
  BY <1>1
<1>2. CASE Tick
  <2>1. clock' = clock + 1 /\ UNCHANGED <<row, closedAt, runs, earlier>>
    BY <1>2 DEF Tick, historyVars
  <2> QED BY <2>1
<1>3. ASSUME NEW c \in CINs, NEW who, WriteRow(c, who), clock' = clock,
             UNCHANGED <<closedAt, runs, earlier>>
      PROVE  Kept(k)
  <2>1. KeyOf[c] \in Keys /\ row[KeyOf[c]] \notin Terminal
    BY <1>3, ConstantTypes DEF WriteRow, Admissible, Terminal
  <2> QED BY <1>1, <1>3, <2>1 DEF WriteRow
<1>4. ASSUME NEW o \in Keys, NEW t \in Terminal, Finish(o, t), clock' = clock,
             UNCHANGED earlier, \A j \in Keys \ {o} : runs'[j] = runs[j]
      PROVE  Kept(k)
  <2>1. CASE k = o
    BY <1>4, <2>1 DEF Finish
  <2>2. CASE k # o
    BY <1>4, <2>2 DEF Finish
  <2> QED BY <2>1, <2>2
<1>5. ASSUME NEW c \in CINs, Claim(c), clock' = clock, UNCHANGED <<closedAt, runs, earlier>>
      PROVE  Kept(k)
  <2>1. /\ KeyOf[c] \in Keys
        /\ \/ UNCHANGED row
           \/ row[KeyOf[c]] = "queued" /\ row' = [row EXCEPT ![KeyOf[c]] = "dispatched"]
    BY <1>5, ConstantTypes DEF Claim
  <2> QED BY <1>1, <1>5, <2>1 DEF Terminal
<1>6. CASE Cleanup
  <2>1. /\ row'[k] = IF k \in Expired THEN "none" ELSE row[k]
        /\ runs'[k] = IF k \in Expired THEN 0 ELSE runs[k]
        /\ earlier'[k] = earlier[k] + IF k \in Expired THEN runs[k] ELSE 0
        /\ UNCHANGED <<closedAt, clock>>
    BY <1>6 DEF Cleanup, cseVars
  <2> QED BY <2>1 DEF Expired
<1>7. CASE Execute
  <2> DEFINE o == KeyOf[executing]
  <2>1. o \in Keys /\ row[o] = "dispatched" /\ clock' = clock
    BY <1>7, ConstantTypes DEF Execute, ExecutorOwnsRow, cseVars
  <2>2. UNCHANGED earlier /\ (UNCHANGED runs \/ runs' = [runs EXCEPT ![o] = @ + 1])
    BY <1>7 DEF Execute, Effect, historyVars
  <2> HIDE DEF o
  <2>3. CASE Finish(o, "finished")
    BY <1>4, <2>1, <2>2, <2>3 DEF Terminal
  <2>4. CASE UNCHANGED <<row, closedAt>>
    <3>1. runs'[k] = runs[k] \/ runs'[k] = runs[k] + 1
      BY <2>1, <2>2
    <3> QED BY <2>1, <2>2, <2>4, <3>1
  <2> QED BY <1>7, <2>3, <2>4 DEF Execute, o
<1>8. ASSUME NEW o \in Keys, Callback(o) PROVE Kept(k)
  BY <1>4, <1>8 DEF Callback, Terminal, cseVars, historyVars
<1>9. CASE BootSweep
  <2>1. /\ row'[k] = CASE row[k] = "queued" -> "overflow"
                       [] row[k] = "dispatched" -> "unknown"
                       [] OTHER -> row[k]
        /\ closedAt'[k] = IF row[k] = "dispatched" THEN clock ELSE closedAt[k]
        /\ UNCHANGED <<clock, runs, earlier>>
    BY <1>9 DEF BootSweep, cseVars, historyVars
  <2>2. row[k] = "dispatched" => row'[k] = "unknown"
    BY <2>1, Zenon
  <2>3. row[k] \in Terminal => row'[k] = row[k]
    BY <2>1 DEF Terminal
  <2> QED BY <2>1, <2>2, <2>3 DEF Terminal
<1>10. CASE Overflow
  <2>1. /\ KeyOf[admitting] \in Keys /\ UNCHANGED <<clock, closedAt, runs, earlier>>
        /\ row' = [row EXCEPT ![KeyOf[admitting]] =
                        IF row[KeyOf[admitting]] = "queued" THEN "overflow" ELSE row[KeyOf[admitting]]]
    BY <1>10, ConstantTypes, RunTypes DEF Overflow, LockFree, cseVars, historyVars
  <2> QED BY <1>1, <2>1 DEF Terminal
<1>11. ASSUME UNCHANGED <<clock, row, closedAt, runs, earlier>> PROVE Kept(k)
  BY <1>1, <1>11
<1>12. ASSUME NEW c \in CINs, ReceiveNotify(c) \/ SweepAdmit(c) PROVE Kept(k)
  <2>1. UNCHANGED <<clock, closedAt, runs, earlier>>
    BY <1>12 DEF ReceiveNotify, SweepAdmit, TakeNote, cseVars, historyVars
  <2>2. WriteRow(c, "notify") \/ WriteRow(c, "sweep") \/ UNCHANGED row
    BY <1>12 DEF ReceiveNotify, SweepAdmit
  <2> QED BY <1>3, <1>11, <2>1, <2>2
<1>13. CASE Dispatch
  <2>1. Head(batch) \in CINs
    BY <1>13 DEF Dispatch
  <2> QED BY <1>5, <1>11, <1>13, <2>1 DEF Dispatch, cseVars, historyVars
<1>14. CASE ShutdownItem
  <2>1. Head(batch) \in CINs /\ KeyOf[Head(batch)] \in Keys /\ UNCHANGED <<clock, runs, earlier>>
    BY <1>14, ConstantTypes DEF ShutdownItem, cseVars, historyVars
  <2>2. \/ Claim(Head(batch)) /\ UNCHANGED closedAt
        \/ Finish(KeyOf[Head(batch)], "shuttingDown")
        \/ UNCHANGED <<row, closedAt>>
    BY <1>14 DEF ShutdownItem
  <2> QED BY <1>4, <1>5, <1>11, <2>1, <2>2 DEF Terminal
<1> QED BY <1>2, <1>6, <1>7, <1>8, <1>9, <1>10, <1>11, <1>12, <1>13, <1>14
       DEF Next, CSE, Create, Listener, RefuseNotify, TakeNote, Lock, Enqueue, Worker,
           RequestCatchup, StartSweep, ListPath, ListFails, SweepRaises, FinishPath, Executor,
           Drain, EndDrain, Main, Boot, ActivateRoutes, InitMarkers, Stop, JoinWorker,
           ShutdownSpin, Exit, Crash, LoseMemory, vars, cseVars, historyVars

\* A request that took effect takes effect again only when its row has been
\* closed for the whole retention: over crashes and restarts, however often
\* it is notified, listed and retried (state.py, cleanup and admit).
THEOREM AdmissionReplays == Spec => ReplaysAfterRetention
<1>1. Init => ReplayInv
  BY DEF Init, ReplayInv, Forgotten
<1>2. Inv /\ ReplayInv /\ [Next]_vars =>
          [\A k \in Keys : earlier[k] > 0 /\ runs'[k] > runs[k]
                           => closedAt[k] + Retention <= clock]_vars
  BY EffectOfOwner DEF ReplayInv, Forgotten, Terminal
<1> QED BY <1>1, <1>2, ReplayStep, AdmissionInv, PTL DEF Spec, ReplaysAfterRetention
=============================================================================

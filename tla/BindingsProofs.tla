---------------------------- MODULE BindingsProofs ----------------------------
(***************************************************************************)
(* Proofs about Bindings, for every value of its constants: the types, the *)
(* staging flag, endpoints that follow the configuration, and the grace of *)
(* an interface that vanishes.                                             *)
(***************************************************************************)
EXTENDS Bindings, TLAPS

Kinds == {"discovery", "remove", "recover"}

(***************************************************************************)
(* Types.                                                                  *)
(***************************************************************************)

ConfigTypes ==
    /\ graph \in Configs /\ snapshot \in Configs /\ seen \in Configs /\ previous \in Configs
    /\ rc \in Configs /\ provRc \in Configs /\ bound \in Configs /\ routes \in Configs

WorkerTypes ==
    /\ jobs \in Seq(Kinds) /\ job \in {"none"} \cup Kinds
    /\ at \in {"idle", "removing", "resolve", "provision", "enqueue", "absorb"}
    /\ todo \in SUBSET Ifaces /\ unwanted \in SUBSET Ifaces
    /\ retry \in SUBSET Ifaces /\ resources \in SUBSET Ifaces

PlanTypes == plan \in Plans /\ lane \in Seq(Plans)

RestTypes ==
    /\ misses \in [Ifaces -> 0..Grace] /\ absent \in [Ifaces -> 0..Grace]
    /\ removed \in SUBSET Ifaces /\ left \in SUBSET Ifaces /\ staging \in BOOLEAN /\ prompt \in BOOLEAN
    /\ generation \in Nat /\ flaps \in Nat /\ failures \in Nat /\ recovers \in Nat

TypeInv == ConfigTypes /\ WorkerTypes /\ PlanTypes /\ RestTypes

LEMMA TypesDef == TypeInv => TypeOK
BY DEF TypeInv, ConfigTypes, WorkerTypes, PlanTypes, RestTypes, TypeOK, Kinds

LEMMA QueuedTypes ==
    ASSUME jobs \in Seq(Kinds), NEW kind \in Kinds
    PROVE  Queued(kind) \in Seq(Kinds)
BY DEF Queued

(* What the first step of each job does. *)
LEMMA StartJobCases ==
    ASSUME StartJob, jobs \in Seq(Kinds)
    PROVE  /\ at = "idle" /\ jobs # <<>> /\ (prompt => lane = <<>>)
           /\ job' = Head(jobs) /\ jobs' = Tail(jobs)
           /\ \/ /\ job' = "discovery" /\ at' = "removing" /\ todo' = retry /\ seen' = snapshot
                 /\ UNCHANGED <<unwanted, staging, plan>>
              \/ /\ job' = "remove" /\ at' = "removing" /\ todo' = unwanted /\ unwanted' = {}
                 /\ UNCHANGED <<seen, staging, plan>>
              \/ /\ job' = "recover" /\ at' = "provision" /\ staging' = TRUE
                 /\ plan' = [NoPlan EXCEPT !.rc = provRc]
                 /\ UNCHANGED <<todo, seen, unwanted>>
<1>1. /\ at = "idle" /\ jobs # <<>> /\ (prompt => lane = <<>>)
      /\ job' = Head(jobs) /\ jobs' = Tail(jobs)
  BY DEF StartJob
<1>2. Head(jobs) \in Kinds
  BY <1>1
<1>3. ASSUME Head(jobs) = "discovery"
      PROVE  /\ at' = "removing" /\ todo' = retry /\ seen' = snapshot
             /\ UNCHANGED <<unwanted, staging, plan>>
  BY <1>3, Zenon DEF StartJob
<1>4. ASSUME Head(jobs) = "remove"
      PROVE  /\ at' = "removing" /\ todo' = unwanted /\ unwanted' = {}
             /\ UNCHANGED <<seen, staging, plan>>
  BY <1>4, Zenon DEF StartJob
<1>5. ASSUME Head(jobs) = "recover"
      PROVE  /\ at' = "provision" /\ staging' = TRUE
             /\ plan' = [NoPlan EXCEPT !.rc = provRc]
             /\ UNCHANGED <<todo, seen, unwanted>>
  BY <1>5, Zenon DEF StartJob
<1> QED BY <1>1, <1>2, <1>3, <1>4, <1>5 DEF Kinds

LEMMA PlanRecords ==
    /\ NoPlan \in Plans
    /\ \A c \in Configs : /\ [NoPlan EXCEPT !.rc = c] \in Plans
                          /\ [NoPlan EXCEPT !.rc = c].rc = c
BY DEF NoPlan, Plans, Configs

LEMMA PlanFields ==
    ASSUME NEW p \in Plans
    PROVE  /\ p.rc \in Configs /\ p.add \in SUBSET Ifaces
           /\ p.remove \in SUBSET Ifaces /\ p.base \in Nat /\ p.basis \in Nat
BY DEF Plans

LEMMA PlanBase ==
    ASSUME NEW p \in Plans, NEW n \in Nat, NEW q, q = [p EXCEPT !.base = n]
    PROVE  /\ q \in Plans
           /\ q.rc = p.rc /\ q.add = p.add /\ q.remove = p.remove
           /\ q.basis = p.basis /\ q.base = n
BY DEF Plans

LEMMA ConfigFacts ==
    /\ \A c \in Configs : Bound(c) \in SUBSET Ifaces
    /\ \A c \in Configs, p \in Plans : \A S : With(c, S, p) \in Configs
    /\ \A c \in Configs : \A S : Without(c, S) \in Configs
BY PlanFields DEF Configs, Bound, With, Without

(* What the worker prepares from its snapshot. *)
NewPlan == [rc |-> Desired, add |-> Additions, remove |-> Removable,
            basis |-> generation, base |-> 0]

LEMMA DesiredTypes ==
    ASSUME TypeInv
    PROVE  /\ Desired \in Configs /\ Additions \in SUBSET Ifaces
           /\ Removable \in SUBSET Ifaces /\ Away \in SUBSET Ifaces
<1>1. Away \in SUBSET Ifaces /\ Removable \in SUBSET Ifaces
  BY ConfigFacts DEF Away, Removable, TypeInv, ConfigTypes
<1>2. Desired \in Configs
  BY DEF Desired, Configs, TypeInv, ConfigTypes
<1>3. Additions \in SUBSET Ifaces
  BY <1>2, ConfigFacts DEF Additions
<1> QED BY <1>1, <1>2, <1>3

LEMMA ConfigStep ==
    ASSUME TypeInv, [Next]_vars
    PROVE  ConfigTypes'
<1> USE DEF TypeInv, ConfigTypes
<1>1. CASE UNCHANGED <<snapshot, seen, graph, previous, rc, provRc, bound, routes>>
  BY <1>1
<1>2. CASE Poll \/ RequestRecovery
  BY <1>2 DEF Poll, RequestRecovery, workerVars, activeVars
<1>3. CASE StartJob
  BY <1>3, StartJobCases DEF StartJob, WorkerTypes, activeVars
<1>4. ASSUME NEW i \in Ifaces, Remove(i) \/ Flap(i) PROVE ConfigTypes'
  BY <1>4 DEF Remove, Flap, Configs, queueVars, workerVars, activeVars
<1>5. CASE EndRemoving \/ EnqueuePlan \/ LaneFull
  BY <1>5 DEF EndRemoving, EnqueuePlan, LaneFull, DropPlan, queueVars, activeVars
<1>6. CASE Resolve
  BY <1>6, DesiredTypes DEF Resolve, queueVars, activeVars
<1>7. CASE Provision
  BY <1>7 DEF Provision, queueVars, activeVars
<1>8. CASE AbsorbRecovered
  BY <1>8, PlanFields DEF AbsorbRecovered, PlanTypes, queueVars
<1>9. CASE lane # <<>> /\ (Superseded \/ Rollback \/ Activate)
  <2>1. Head(lane) \in Plans
    BY <1>9 DEF PlanTypes
  <2>2. CASE Superseded
    BY <2>2 DEF Superseded, queueVars, workerVars, activeVars
  <2>3. CASE Rollback
    <3>1. PICK i \in Head(lane).add : \E before \in SUBSET (Head(lane).add \ {i}) :
              bound' = Without(With(bound, before, Head(lane)), before)
      BY <2>3 DEF Rollback
    <3>2. \A S : Without(With(bound, S, Head(lane)), S) \in Configs
      BY <2>1, ConfigFacts
    <3>3. bound' \in Configs
      BY <3>1, <3>2
    <3> QED BY <2>3, <3>3 DEF Rollback, queueVars, workerVars
  <2>4. CASE Activate
    <3>1. bound' = Without(With(bound, Head(lane).add, Head(lane)), Head(lane).remove)
          /\ rc' = Head(lane).rc /\ provRc' = Head(lane).rc /\ routes' = Head(lane).rc
          /\ UNCHANGED <<graph, snapshot, seen, previous>>
      BY <2>4 DEF Activate, workerVars
    <3>2. With(bound, Head(lane).add, Head(lane)) \in Configs /\ Head(lane).rc \in Configs
      BY <2>1, ConfigFacts, PlanFields
    <3>3. bound' \in Configs
      BY <3>1, <3>2, ConfigFacts
    <3> QED BY <3>1, <3>2, <3>3
  <2> QED BY <1>9, <2>2, <2>3, <2>4
<1>10. CASE UNCHANGED vars
  BY <1>10 DEF vars, queueVars, workerVars, activeVars
<1> QED BY <1>2, <1>3, <1>4, <1>5, <1>6, <1>7, <1>8, <1>9, <1>10
        DEF Next, Work, Execute, Superseded, Rollback, Activate

LEMMA WorkerStep ==
    ASSUME TypeInv, [Next]_vars
    PROVE  WorkerTypes'
<1> USE DEF TypeInv, WorkerTypes
<1>0. \A kind \in Kinds : Queued(kind) \in Seq(Kinds)
  BY QueuedTypes
<1>1. CASE Poll \/ RequestRecovery
  BY <1>0, <1>1 DEF Poll, RequestRecovery, workerVars, activeVars, Kinds
<1>2. CASE StartJob
  <2>1. Tail(jobs) \in Seq(Kinds) /\ Head(jobs) \in Kinds
    BY <1>2, StartJobCases
  <2> QED BY <1>2, <2>1, StartJobCases DEF StartJob
<1>3. ASSUME NEW i \in Ifaces, Remove(i) \/ Flap(i) PROVE WorkerTypes'
  BY <1>3 DEF Remove, Flap, queueVars, workerVars
<1>4. CASE EndRemoving \/ EnqueuePlan \/ LaneFull \/ AbsorbRecovered \/ Resolve
  BY <1>4 DEF EndRemoving, EnqueuePlan, LaneFull, DropPlan, AbsorbRecovered, Resolve, queueVars
<1>5. CASE Provision
  <2>1. Bound(plan.rc) \in SUBSET Ifaces
    BY PlanFields, ConfigFacts DEF PlanTypes
  <2> QED BY <1>5, <2>1 DEF Provision, queueVars
<1>6. CASE Superseded \/ Rollback
  BY <1>6 DEF Superseded, Rollback, queueVars, workerVars
<1>7. CASE Activate
  <2>1. Head(lane) \in Plans
    BY <1>7 DEF Activate, PlanTypes
  <2>2. /\ jobs' = jobs \/ jobs' = Queued("remove")
        /\ unwanted' = unwanted \/ unwanted' = unwanted \cup Head(lane).remove
        /\ UNCHANGED <<job, at, todo, retry, resources>>
    BY <1>7 DEF Activate, workerVars
  <2> QED BY <1>0, <2>1, <2>2, PlanFields DEF Kinds
<1>8. CASE UNCHANGED vars
  BY <1>8 DEF vars, queueVars, workerVars
<1> QED BY <1>1, <1>2, <1>3, <1>4, <1>5, <1>6, <1>7, <1>8 DEF Next, Work, Execute

LEMMA PlanStep ==
    ASSUME TypeInv, [Next]_vars
    PROVE  PlanTypes'
<1> USE DEF TypeInv, PlanTypes
<1>1. CASE UNCHANGED <<plan, lane>>
  BY <1>1
<1>2. CASE StartJob
  BY <1>2, StartJobCases, PlanRecords DEF StartJob, WorkerTypes, ConfigTypes
<1>3. CASE Resolve
  <2>1. \/ plan' = plan
        \/ plan' = NewPlan
    BY <1>3 DEF Resolve, NewPlan
  <2>2. NewPlan \in Plans
    BY DesiredTypes DEF Plans, NewPlan, RestTypes
  <2> QED BY <1>3, <2>1, <2>2 DEF Resolve
<1>4. CASE EnqueuePlan
  <2>1. [plan EXCEPT !.base = generation] \in Plans
    BY PlanBase DEF RestTypes
  <2> QED BY <1>4, <2>1 DEF EnqueuePlan
<1>5. CASE Superseded \/ Rollback \/ Activate
  BY <1>5 DEF Superseded, Rollback, Activate, workerVars
<1>6. ASSUME NEW i \in Ifaces, Remove(i) \/ Flap(i) PROVE UNCHANGED <<plan, lane>>
  BY <1>6 DEF Remove, Flap, workerVars
<1>7. CASE Poll \/ RequestRecovery \/ EndRemoving \/ Provision \/ LaneFull \/ AbsorbRecovered
  BY <1>7 DEF Poll, RequestRecovery, EndRemoving, Provision, LaneFull, DropPlan,
              AbsorbRecovered, workerVars
<1>8. CASE UNCHANGED vars
  BY <1>8 DEF vars, workerVars
<1> QED BY <1>1, <1>2, <1>3, <1>4, <1>5, <1>6, <1>7, <1>8 DEF Next, Work, Execute

LEMMA RestStep ==
    ASSUME TypeInv, [Next]_vars
    PROVE  RestTypes'
<1> USE DEF TypeInv, RestTypes
<1>1. CASE Poll \/ RequestRecovery
  BY <1>1 DEF Poll, RequestRecovery, workerVars, activeVars, bounds
<1>2. CASE StartJob
  <2>1. staging' \in BOOLEAN
    BY <1>2, StartJobCases DEF WorkerTypes
  <2> QED BY <1>2, <2>1 DEF StartJob, activeVars, bounds
<1>3. ASSUME NEW i \in Ifaces, Remove(i) \/ Flap(i) PROVE RestTypes'
  BY <1>3 DEF Remove, Flap, workerVars, activeVars
<1>4. CASE EndRemoving \/ EnqueuePlan \/ AbsorbRecovered
  BY <1>4 DEF EndRemoving, EnqueuePlan, AbsorbRecovered, activeVars, bounds
<1>5. CASE LaneFull \/ Provision
  <2>1. /\ staging' \in BOOLEAN
        /\ failures' = failures \/ failures' = failures + 1
        /\ UNCHANGED <<misses, absent, removed, left, prompt, generation, flaps, recovers>>
    BY <1>5 DEF LaneFull, DropPlan, Provision, activeVars
  <2> QED BY <2>1
<1>6. CASE Resolve
  <2>1. Grace \in Nat /\ \A i \in Ifaces : Counted(i) \in Nat
    BY ConstantTypes DEF Counted
  <2>2. misses' \in [Ifaces -> 0..Grace] /\ absent' \in [Ifaces -> 0..Grace]
    BY <1>6, <2>1 DEF Resolve
  <2>3. staging' = staging \/ staging' = TRUE
    BY <1>6 DEF Resolve
  <2> QED BY <1>6, <2>2, <2>3 DEF Resolve, activeVars, bounds
<1>7. CASE Superseded \/ Rollback
  <2>1. /\ staging' \in BOOLEAN /\ (failures' = failures \/ failures' = failures + 1)
        /\ UNCHANGED <<misses, absent, removed, left, prompt, generation, flaps, recovers>>
    BY <1>7 DEF Superseded, Rollback, workerVars, activeVars, bounds
  <2> QED BY <2>1
<1>8. CASE Activate
  <2>1. Head(lane).remove \in SUBSET Ifaces /\ Bound(rc) \in SUBSET Ifaces
    BY <1>8, PlanFields, ConfigFacts DEF Activate, PlanTypes, ConfigTypes
  <2>2. /\ staging' \in BOOLEAN /\ generation' = generation + 1
        /\ removed' = removed \cup Head(lane).remove
        /\ left' = left \cup (Bound(rc) \ Bound(Head(lane).rc))
        /\ UNCHANGED <<misses, absent, prompt, flaps, failures, recovers>>
    BY <1>8 DEF Activate, workerVars
  <2> QED BY <2>1, <2>2
<1>9. CASE UNCHANGED vars
  BY <1>9 DEF vars, workerVars, activeVars, bounds
<1> QED BY <1>1, <1>2, <1>3, <1>4, <1>5, <1>6, <1>7, <1>8, <1>9 DEF Next, Work, Execute

LEMMA TypesInit == Init => TypeInv
<1> SUFFICES ASSUME Init PROVE TypeInv
  OBVIOUS
<1>1. ConfigTypes
  BY DEF Init, ConfigTypes
<1>2. resources \in SUBSET Ifaces
  BY ConfigFacts DEF Init
<1>3. <<>> \in Seq(Kinds) /\ <<>> \in Seq(Plans)
  OBVIOUS
<1>4. WorkerTypes /\ PlanTypes
  BY <1>2, <1>3, PlanRecords DEF Init, WorkerTypes, PlanTypes
<1>5. RestTypes
  <2>1. Grace \in Nat /\ prompt \in BOOLEAN
    BY ConstantTypes DEF Init
  <2>2. misses \in [Ifaces -> 0..Grace] /\ absent \in [Ifaces -> 0..Grace]
    BY <2>1 DEF Init
  <2>3. removed = {} /\ left = {} /\ staging \in BOOLEAN /\ generation = 1 /\ flaps = 0 /\ failures = 0 /\ recovers = 0
    BY DEF Init
  <2> QED BY <2>1, <2>2, <2>3 DEF RestTypes
<1> QED BY <1>1, <1>4, <1>5 DEF TypeInv

LEMMA TypesStep == TypeInv /\ [Next]_vars => TypeInv'
BY ConfigStep, WorkerStep, PlanStep, RestStep DEF TypeInv

(* The state of the bindings keeps its types. *)
THEOREM BindingTypes == Spec => []TypeOK
BY TypesInit, TypesStep, TypesDef, PTL DEF Spec

-----------------------------------------------------------------------------
(***************************************************************************)
(* The staging flag has somebody who will clear it.  While plans are       *)
(* activated before the worker's next job, the lane and the worker are     *)
(* never busy at the same time, and the flag is set while either has a     *)
(* plan.                                                                   *)
(***************************************************************************)

Staged == at \in {"provision", "enqueue", "absorb"}

StagingCleared == staging => Staged \/ lane # <<>>

OnePlan ==
    prompt => /\ at # "idle" => lane = <<>>
              /\ Len(lane) <= 1
              /\ Staged => staging
              /\ lane # <<>> => staging

(* The place of the worker says which job it does. *)
JobPlaces ==
    /\ at \in {"resolve", "enqueue"} => job = "discovery"
    /\ at = "absorb" => job = "recover"
    /\ at = "provision" => job \in {"discovery", "recover"}
    /\ at = "removing" => job \in {"discovery", "remove"}

LEMMA PromptStays == [Next]_vars => prompt' = prompt
BY DEF Next, Work, Execute, Poll, RequestRecovery, StartJob, Remove, EndRemoving, Resolve,
       Provision, EnqueuePlan, LaneFull, DropPlan, AbsorbRecovered, Superseded, Rollback,
       Activate, Flap, vars, bounds

(* What a step does to the lane. *)
LEMMA TailLane ==
    ASSUME NEW S, NEW s \in Seq(S), s # <<>>
    PROVE  /\ Len(s) <= 1 => Tail(s) = <<>>
           /\ Len(Tail(s)) = Len(s) - 1
  OBVIOUS

LEMMA AppendLane ==
    ASSUME NEW S, NEW s \in Seq(S), NEW e \in S
    PROVE  /\ Append(s, e) # <<>> /\ Len(Append(s, e)) = Len(s) + 1
           /\ s = <<>> => Head(Append(s, e)) = e /\ Len(s) = 0
  OBVIOUS

LEMMA StagingStep ==
    ASSUME TypeInv, StagingCleared, OnePlan, JobPlaces, [Next]_vars
    PROVE  StagingCleared' /\ OnePlan' /\ JobPlaces'
<1> USE DEF Staged, StagingCleared, OnePlan, JobPlaces
<1>0. prompt' = prompt
  BY PromptStays
<1>1. CASE UNCHANGED <<at, job, staging, lane>>
  BY <1>0, <1>1
<1>2. CASE Poll \/ RequestRecovery
  BY <1>1, <1>2 DEF Poll, RequestRecovery, workerVars
<1>3. ASSUME NEW i \in Ifaces, Remove(i) \/ Flap(i) PROVE UNCHANGED <<at, job, staging, lane>>
  BY <1>3 DEF Remove, Flap, workerVars
<1>4. CASE UNCHANGED vars
  BY <1>1, <1>4 DEF vars, workerVars
<1>5. CASE StartJob
  <2>1. UNCHANGED lane
    BY <1>5 DEF StartJob
  <2>2. /\ at = "idle" /\ (prompt => lane = <<>>)
        /\ \/ job' \in {"discovery", "remove"} /\ at' = "removing" /\ UNCHANGED staging
           \/ job' = "recover" /\ at' = "provision" /\ staging' = TRUE
    BY <1>5, StartJobCases DEF TypeInv, WorkerTypes
  <2> QED BY <1>0, <2>1, <2>2
<1>6. CASE EndRemoving
  BY <1>0, <1>6 DEF EndRemoving
<1>7. CASE Resolve
  <2>1. /\ at = "resolve" /\ UNCHANGED <<job, lane>>
        /\ \/ at' = "idle" /\ UNCHANGED staging
           \/ at' = "provision" /\ staging' = TRUE
    BY <1>7 DEF Resolve
  <2> QED BY <1>0, <2>1
<1>8. CASE Provision
  <2>1. /\ at = "provision" /\ UNCHANGED <<job, lane>>
        /\ \/ /\ at' = IF job = "discovery" THEN "enqueue" ELSE "absorb"
              /\ UNCHANGED staging
           \/ at' = "idle" /\ staging' = FALSE
    BY <1>8 DEF Provision
  <2> QED BY <1>0, <2>1
<1>9. CASE EnqueuePlan
  <2>1. /\ at = "enqueue" /\ at' = "idle" /\ UNCHANGED <<job, staging>>
        /\ lane' = Append(lane, [plan EXCEPT !.base = generation])
    BY <1>9 DEF EnqueuePlan
  <2>2. [plan EXCEPT !.base = generation] \in Plans
    BY PlanBase DEF TypeInv, PlanTypes, RestTypes
  <2>3. lane' # <<>> /\ Len(lane') = Len(lane) + 1 /\ (lane = <<>> => Len(lane) = 0)
    BY <2>1, <2>2, AppendLane DEF TypeInv, PlanTypes
  <2> QED BY <1>0, <2>1, <2>3
<1>10. CASE LaneFull
  BY <1>0, <1>10 DEF LaneFull, DropPlan
<1>11. CASE AbsorbRecovered
  BY <1>0, <1>11 DEF AbsorbRecovered
<1>12. CASE Superseded \/ Rollback \/ Activate
  <2>1. lane # <<>> /\ lane' = Tail(lane) /\ staging' = FALSE /\ UNCHANGED <<at, job>>
    BY <1>12 DEF Superseded, Rollback, Activate, workerVars
  <2>2. /\ Len(lane) <= 1 => lane' = <<>>
        /\ Len(lane') = Len(lane) - 1 /\ Len(lane) \in Nat
    BY <2>1, TailLane DEF TypeInv, PlanTypes
  <2> QED BY <1>0, <2>1, <2>2
<1> QED BY <1>1, <1>2, <1>3, <1>4, <1>5, <1>6, <1>7, <1>8, <1>9, <1>10, <1>11, <1>12
        DEF Next, Work, Execute

StagingInv == StagingCleared /\ OnePlan /\ JobPlaces

LEMMA StagingInit == Init => StagingInv
<1> SUFFICES ASSUME Init PROVE StagingInv
  OBVIOUS
<1>1. at = "idle" /\ lane = <<>> /\ staging = FALSE /\ Len(lane) = 0
  BY DEF Init
<1> QED BY <1>1 DEF StagingInv, StagingCleared, OnePlan, JobPlaces, Staged

LEMMA Stages == Spec => [](TypeInv /\ StagingInv)
<1>1. TypeInv /\ StagingInv /\ [Next]_vars => StagingInv'
  BY StagingStep DEF StagingInv
<1> QED BY <1>1, TypesInit, TypesStep, StagingInit, PTL DEF Spec

(* The staging flag, under which the listener turns unknown routes away    *)
(* for the time being (provision_staged, finish_staging), always has       *)
(* somebody who will clear it, and it is set while a plan waits in its     *)
(* turn.                                                                   *)
THEOREM BindingStaging == Spec => []StagingFollowsPlans
<1>1. StagingInv => StagingFollowsPlans
  BY DEF StagingInv, StagingCleared, OnePlan, Staged, StagingFollowsPlans
<1> QED BY <1>1, Stages, PTL

-----------------------------------------------------------------------------
(***************************************************************************)
(* Generations.  The number of a generation stands for one configuration:  *)
(* a plan whose snapshot was compared with the active generation says      *)
(* exactly how it differs from the active configuration, however long it   *)
(* has been on its way.                                                    *)
(***************************************************************************)

Fits(p) == /\ p.add = Bound(p.rc) \ Bound(rc) /\ p.remove = Bound(rc) \ Bound(p.rc)
           /\ \A i \in Ifaces \ (p.add \cup p.remove) : p.rc[i] = rc[i]

Planning == at \in {"provision", "enqueue"} /\ job = "discovery"

Based(p) == p.basis <= generation /\ (p.basis = generation => Fits(p))

GenerationInv ==
    /\ Planning => Based(plan)
    /\ \A n \in DOMAIN lane : Based(lane[n])

LEMMA FirstPlace ==
    ASSUME NEW S, NEW s \in Seq(S), s # <<>>
    PROVE  1 \in DOMAIN s /\ s[1] = Head(s)
  OBVIOUS

LEMMA TailPlaces ==
    ASSUME NEW S, NEW s \in Seq(S), s # <<>>, NEW n \in DOMAIN Tail(s)
    PROVE  n + 1 \in DOMAIN s /\ Tail(s)[n] = s[n + 1]
  OBVIOUS

LEMMA AppendPlaces ==
    ASSUME NEW S, NEW s \in Seq(S), NEW e \in S, NEW n \in DOMAIN Append(s, e)
    PROVE  Append(s, e)[n] = e \/ (n \in DOMAIN s /\ Append(s, e)[n] = s[n])
  OBVIOUS

LEMMA DesiredFits ==
    ASSUME TypeInv, NEW p, p = NewPlan
    PROVE  Fits(p)
<1>1. p.rc = Desired /\ p.add = Additions /\ p.remove = Removable
  BY DEF NewPlan
<1>2. ASSUME NEW i \in Ifaces
      PROVE  Desired[i] = IF i \in Removable THEN None ELSE IF rc[i] # None THEN rc[i] ELSE seen[i]
  BY DEF Desired
<1>3. \A i : i \in Removable => i \in Ifaces /\ rc[i] # None
  BY DEF Removable, Away, Bound
<1>4. Removable = Bound(rc) \ Bound(Desired)
  BY <1>2, <1>3 DEF Bound
<1>5. ASSUME NEW i \in Ifaces \ (Additions \cup Removable) PROVE Desired[i] = rc[i]
  BY <1>2 DEF Additions, Bound
<1> QED BY <1>1, <1>4, <1>5 DEF Fits, Additions

(* What the executor binds is what the plan says. *)
LEMMA BoundByPlan ==
    ASSUME NEW p \in Plans, rc \in Configs, Fits(p)
    PROVE  /\ Without(With(rc, p.add, p), p.remove) = p.rc
           /\ \A before \in SUBSET p.add : Without(With(rc, before, p), before) = rc
<1>0. p.rc \in Configs
  BY PlanFields
<1>1. \A i \in Ifaces : /\ i \in p.add <=> p.rc[i] # None /\ rc[i] = None
                        /\ i \in p.remove <=> p.rc[i] = None /\ rc[i] # None
  BY DEF Fits, Bound
<1>2. ASSUME NEW S, NEW R, NEW i \in Ifaces
      PROVE  Without(With(rc, S, p), R)[i] =
                 IF i \in R THEN None ELSE IF i \in S /\ rc[i] = None THEN p.rc[i] ELSE rc[i]
  BY DEF Without, With
<1>3. ASSUME NEW S, NEW R
      PROVE  Without(With(rc, S, p), R) = [i \in Ifaces |-> Without(With(rc, S, p), R)[i]]
  BY DEF Without
<1>4. rc = [i \in Ifaces |-> rc[i]] /\ p.rc = [i \in Ifaces |-> p.rc[i]]
  BY <1>0 DEF Configs
<1>5. ASSUME NEW i \in Ifaces PROVE Without(With(rc, p.add, p), p.remove)[i] = p.rc[i]
  <2>1. i \notin p.add /\ i \notin p.remove => p.rc[i] = rc[i]
    BY DEF Fits
  <2> QED BY <1>1, <1>2, <2>1
<1>6. Without(With(rc, p.add, p), p.remove) = p.rc
  BY <1>3, <1>4, <1>5
<1>7. ASSUME NEW before \in SUBSET p.add PROVE Without(With(rc, before, p), before) = rc
  <2>1. \A i \in Ifaces : Without(With(rc, before, p), before)[i] = rc[i]
    BY <1>1, <1>2
  <2> QED BY <1>3, <1>4, <2>1
<1> QED BY <1>6, <1>7

(* A step that leaves the configuration and its number alone leaves what   *)
(* was based on it alone.                                                  *)
LEMMA BasedStays ==
    ASSUME UNCHANGED <<rc, generation>>, NEW p, Based(p)
    PROVE  p.basis <= generation' /\ (p.basis = generation' =>
               /\ p.add = Bound(p.rc) \ Bound(rc') /\ p.remove = Bound(rc') \ Bound(p.rc)
               /\ \A i \in Ifaces \ (p.add \cup p.remove) : p.rc[i] = rc'[i])
BY DEF Based, Fits

LEMMA GenerationStep ==
    ASSUME TypeInv, JobPlaces, GenerationInv, [Next]_vars
    PROVE  GenerationInv'
<1> USE DEF Planning
<1>0. /\ generation \in Nat /\ plan \in Plans /\ lane \in Seq(Plans)
      /\ \A n \in DOMAIN lane : lane[n] \in Plans /\ Based(lane[n])
      /\ Planning => Based(plan)
  BY DEF TypeInv, RestTypes, PlanTypes, GenerationInv
<1> DEFINE Lane == \A n \in DOMAIN lane : Based(lane[n])
<1>1. ASSUME UNCHANGED <<rc, generation>>, lane' = lane PROVE Lane'
  BY <1>0, <1>1, BasedStays DEF Based, Fits, Bound
<1>2. ASSUME UNCHANGED <<rc, generation>>, lane # <<>>, lane' = Tail(lane) PROVE Lane'
  <2>1. ASSUME NEW n \in DOMAIN Tail(lane) PROVE n + 1 \in DOMAIN lane /\ lane'[n] = lane[n + 1]
    BY <1>0, <1>2, <2>1, TailPlaces
  <2> QED BY <1>0, <1>2, <2>1, BasedStays DEF Based, Fits, Bound
<1>3. ASSUME UNCHANGED <<rc, generation, plan>>, Planning' => Planning PROVE (Planning => Based(plan))'
  BY <1>0, <1>3, BasedStays DEF Based, Fits, Bound
<1> HIDE DEF Lane
<1>4. CASE UNCHANGED <<rc, generation, plan, lane, at, job>>
  BY <1>1, <1>3, <1>4 DEF GenerationInv, Lane
<1>5. CASE Poll \/ RequestRecovery \/ (\E i \in Ifaces : Remove(i) \/ Flap(i)) \/ UNCHANGED vars
  <2>1. UNCHANGED <<rc, generation, plan, lane, at, job>>
    BY <1>5 DEF Poll, RequestRecovery, Remove, Flap, vars, workerVars, activeVars
  <2> QED BY <1>4, <2>1
<1>6. CASE StartJob
  <2>1. UNCHANGED <<rc, generation, lane>> /\ ~ Planning'
    BY <1>6, StartJobCases DEF StartJob, TypeInv, WorkerTypes, activeVars
  <2> QED BY <1>1, <2>1 DEF GenerationInv, Lane
<1>7. CASE EndRemoving \/ LaneFull \/ AbsorbRecovered
  <2>1. UNCHANGED <<rc, generation, lane>> /\ ~ Planning'
    BY <1>7 DEF EndRemoving, LaneFull, DropPlan, AbsorbRecovered, activeVars
  <2> QED BY <1>1, <2>1 DEF GenerationInv, Lane
<1>8. CASE Resolve
  <2>1. UNCHANGED <<rc, generation, lane>>
    BY <1>8 DEF Resolve, activeVars
  <2>2. CASE at' = "idle"
    BY <1>1, <2>1, <2>2 DEF GenerationInv, Lane
  <2>3. CASE plan' = NewPlan
    <3>1. plan'.basis = generation
      BY <2>3 DEF NewPlan
    <3>2. Fits(plan')
      BY <2>3, DesiredFits
    <3>3. Based(plan)'
      BY <1>0, <2>1, <3>1, <3>2 DEF Based, Fits, Bound
    <3> QED BY <1>1, <2>1, <3>3 DEF GenerationInv, Lane
  <2> QED BY <1>8, <2>2, <2>3 DEF Resolve, NewPlan
<1>9. CASE Provision
  <2>1. UNCHANGED <<rc, generation, plan, lane>> /\ (Planning' => Planning)
    BY <1>9 DEF Provision, activeVars
  <2> QED BY <1>1, <1>3, <2>1 DEF GenerationInv, Lane
<1>10. CASE EnqueuePlan
  <2> DEFINE q == [plan EXCEPT !.base = generation]
  <2>1. /\ q \in Plans /\ q.rc = plan.rc /\ q.add = plan.add /\ q.remove = plan.remove
        /\ q.basis = plan.basis
    BY <1>0, PlanBase
  <2>2. /\ Planning /\ ~ Planning' /\ UNCHANGED <<rc, generation>>
        /\ lane' = Append(lane, q)
    BY <1>10 DEF EnqueuePlan, activeVars, JobPlaces
  <2> HIDE DEF q
  <2>3. Based(q)
    BY <1>0, <2>1, <2>2 DEF Based, Fits
  <2>4. ASSUME NEW n \in DOMAIN lane' PROVE Based(lane'[n])
    BY <1>0, <2>1, <2>2, <2>3, <2>4, AppendPlaces
  <2>5. Lane'
    BY <2>2, <2>4, BasedStays DEF Lane, Based, Fits, Bound
  <2> QED BY <2>2, <2>5 DEF GenerationInv, Lane
<1>11. CASE Superseded \/ Rollback
  <2>1. /\ UNCHANGED <<rc, generation, plan, at, job>>
        /\ lane # <<>> /\ lane' = Tail(lane)
    BY <1>11 DEF Superseded, Rollback, workerVars, activeVars
  <2> QED BY <1>2, <1>3, <2>1 DEF GenerationInv, Lane
<1>12. CASE Activate
  <2>1. /\ generation' = generation + 1 /\ UNCHANGED <<plan, at, job>>
        /\ lane # <<>> /\ lane' = Tail(lane)
    BY <1>12 DEF Activate, workerVars
  <2>2. \A p \in Plans : Based(p) => p.basis <= generation' /\ p.basis # generation'
    BY <1>0, <2>1, PlanFields DEF Based
  <2>3. ASSUME NEW n \in DOMAIN Tail(lane) PROVE n + 1 \in DOMAIN lane /\ lane'[n] = lane[n + 1]
    BY <1>0, <2>1, <2>3, TailPlaces
  <2>4. Lane'
    BY <1>0, <2>1, <2>2, <2>3 DEF Lane, Based
  <2>5. (Planning => Based(plan))'
    BY <1>0, <2>1, <2>2 DEF Based
  <2> QED BY <2>4, <2>5 DEF GenerationInv, Lane
<1> QED BY <1>5, <1>6, <1>7, <1>8, <1>9, <1>10, <1>11, <1>12 DEF Next, Work, Execute

LEMMA Generations == Spec => [](TypeInv /\ GenerationInv)
<1>1. Init => GenerationInv
  BY DEF Init, GenerationInv, Planning
<1>2. StagingInv => JobPlaces
  BY DEF StagingInv
<1> QED BY <1>1, <1>2, GenerationStep, Stages, PTL DEF Spec

(* _activate_plan, _rollback: however late plans are activated, fail half- *)
(* way, are dropped or superseded, no step takes the endpoints and the     *)
(* active configuration apart but the activation of a plan that a newer    *)
(* one overtook between its snapshot and the reading of its generation.    *)
THEOREM BindingEndpoints == Spec => EndpointsFollow
<1>1. ASSUME TypeInv, GenerationInv, [Next]_vars, bound = rc, bound' # rc'
      PROVE  lane # <<>> /\ Overtaken(Head(lane))
  <2>1. ~ UNCHANGED <<rc, bound>>
    BY <1>1
  <2>2. /\ Rollback \/ Activate
        /\ lane # <<>>
    BY <1>1, <2>1 DEF Next, Work, Execute, Poll, RequestRecovery, StartJob, Remove, EndRemoving,
         Resolve, Provision, EnqueuePlan, LaneFull, DropPlan, AbsorbRecovered, Superseded,
         Flap, vars, activeVars, Rollback, Activate
  <2> DEFINE p == Head(lane)
  <2>3. p \in Plans /\ Based(p)
    BY <1>1, <2>2, FirstPlace DEF TypeInv, PlanTypes, GenerationInv
  <2>4. rc \in Configs /\ generation \in Nat
    BY <1>1 DEF TypeInv, ConfigTypes, RestTypes
  <2>5. CASE p.basis = generation /\ Rollback
    <3>1. UNCHANGED rc /\ \E i \in p.add : \E before \in SUBSET (p.add \ {i}) :
              bound' = Without(With(bound, before, p), before)
      BY <2>5 DEF Rollback
    <3> HIDE DEF p
    <3>2. PICK before \in SUBSET p.add : bound' = Without(With(rc, before, p), before)
      BY <1>1, <3>1
    <3>3. bound' = rc
      BY <2>3, <2>4, <2>5, <3>2, BoundByPlan DEF Based
    <3> QED BY <1>1, <3>1, <3>3
  <2>6. CASE p.basis = generation /\ Activate
    <3>1. bound' = Without(With(bound, p.add, p), p.remove) /\ rc' = p.rc
      BY <2>6 DEF Activate
    <3> HIDE DEF p
    <3>2. bound' = p.rc
      BY <1>1, <2>3, <2>4, <2>6, <3>1, BoundByPlan DEF Based
    <3> QED BY <1>1, <3>1, <3>2
  <2>7. p.base = generation
    BY <2>2 DEF Rollback, Activate
  <2> QED BY <2>2, <2>5, <2>6, <2>7 DEF Overtaken
<1>2. TypeInv /\ GenerationInv /\ [Next]_vars =>
          [bound = rc => bound' = rc' \/ (lane # <<>> /\ Overtaken(Head(lane)))]_vars
  BY <1>1
<1> QED BY <1>2, Generations, PTL DEF Spec, EndpointsFollow

-----------------------------------------------------------------------------
(***************************************************************************)
(* Grace.  For an interface that has been active without a break, the      *)
(* code's count is never ahead of the snapshots that missed it; for one    *)
(* that was never active it is 0.                                          *)
(***************************************************************************)

CountsRight ==
    /\ \A i \in Ifaces \ left : misses[i] <= absent[i]
    /\ \A i \in Ifaces \ (left \cup Bound(rc)) : misses[i] = 0

LEMMA GraceStep ==
    ASSUME TypeInv, JobPlaces, CountsRight, GraceRespected, [Next]_vars
    PROVE  CountsRight' /\ GraceRespected'
<1>1. ASSUME UNCHANGED <<rc, misses, absent, left>> PROVE CountsRight'
  BY <1>1 DEF CountsRight, Bound
<1>2. ASSUME UNCHANGED <<plan, absent, left>>, Planning' => Planning PROVE GraceRespected'
  BY <1>2 DEF GraceRespected, Planning
<1>3. ASSUME ~ Planning' PROVE GraceRespected'
  BY <1>3 DEF GraceRespected, Planning
<1>4. CASE Poll \/ RequestRecovery \/ (\E i \in Ifaces : Remove(i) \/ Flap(i)) \/ UNCHANGED vars
           \/ Superseded \/ Rollback
  <2>1. UNCHANGED <<rc, misses, absent, left, plan, at, job>>
    BY <1>4 DEF Poll, RequestRecovery, Remove, Flap, Superseded, Rollback, vars, workerVars,
                activeVars, bounds
  <2> QED BY <1>1, <1>2, <2>1 DEF Planning
<1>5. CASE StartJob
  <2>1. UNCHANGED <<rc, misses, absent, left>> /\ ~ Planning'
    BY <1>5, StartJobCases DEF StartJob, TypeInv, WorkerTypes, activeVars, bounds, Planning
  <2> QED BY <1>1, <1>3, <2>1
<1>6. CASE EndRemoving \/ LaneFull \/ AbsorbRecovered \/ EnqueuePlan
  <2>1. UNCHANGED <<rc, misses, absent, left>> /\ ~ Planning'
    BY <1>6 DEF EndRemoving, LaneFull, DropPlan, AbsorbRecovered, EnqueuePlan, activeVars, bounds,
                Planning
  <2> QED BY <1>1, <1>3, <2>1
<1>7. CASE Provision
  <2>1. UNCHANGED <<rc, misses, absent, left, plan>> /\ (Planning' => Planning)
    BY <1>7 DEF Provision, activeVars, Planning
  <2> QED BY <1>1, <1>2, <2>1
<1>8. CASE Resolve
  <2>1. /\ UNCHANGED <<rc, left>> /\ Grace \in Nat /\ Grace >= 1
        /\ misses \in [Ifaces -> 0..Grace] /\ absent \in [Ifaces -> 0..Grace]
    BY <1>8, ConstantTypes DEF Resolve, activeVars, bounds, TypeInv, RestTypes
  <2>2. \A i \in Ifaces :
            /\ misses'[i] = IF Counted(i) > Grace THEN Grace ELSE Counted(i)
            /\ absent'[i] = IF i \notin Away THEN 0
                            ELSE IF absent[i] = Grace THEN Grace ELSE absent[i] + 1
    BY <1>8 DEF Resolve
  <2>3. \A i \in Ifaces : i \in Away => i \in Bound(rc)
    BY DEF Away
  <2>4. ASSUME NEW i \in Ifaces \ left PROVE misses'[i] <= absent'[i]
    BY <2>1, <2>2, <2>3, <2>4 DEF CountsRight, Counted
  <2>5. ASSUME NEW i \in Ifaces \ (left \cup Bound(rc)) PROVE misses'[i] = 0
    BY <2>1, <2>2, <2>3, <2>5 DEF CountsRight, Counted
  <2>6. CountsRight'
    BY <2>1, <2>4, <2>5 DEF CountsRight, Bound
  <2>7. ASSUME NEW i \in Removable \ left PROVE absent'[i] >= Grace
    <3>1. i \in Ifaces /\ i \in Away /\ Counted(i) = misses[i] + 1 /\ misses[i] + 1 >= Grace
      BY DesiredTypes DEF Removable, Counted
    <3>2. misses[i] <= absent[i]
      BY <3>1 DEF CountsRight
    <3> QED BY <2>1, <2>2, <3>1, <3>2
  <2>8. CASE at' = "idle"
    BY <1>3, <2>6, <2>8 DEF Planning
  <2>9. CASE plan' = NewPlan
    <3>1. plan'.remove = Removable
      BY <2>9 DEF NewPlan
    <3> QED BY <2>1, <2>6, <2>7, <3>1 DEF GraceRespected
  <2> QED BY <1>8, <2>8, <2>9 DEF Resolve, NewPlan
<1>9. CASE Activate
  <2>1. /\ UNCHANGED <<at, job, plan, misses, absent>> /\ rc' = Head(lane).rc
        /\ left' = left \cup (Bound(rc) \ Bound(Head(lane).rc))
    BY <1>9 DEF Activate, workerVars
  <2>2. CountsRight'
    BY <2>1 DEF CountsRight, Bound
  <2>3. GraceRespected'
    BY <2>1 DEF GraceRespected
  <2> QED BY <2>2, <2>3
<1> QED BY <1>4, <1>5, <1>6, <1>7, <1>8, <1>9 DEF Next, Work, Execute

LEMMA GraceInit == Init => CountsRight /\ GraceRespected
<1> SUFFICES ASSUME Init PROVE CountsRight /\ GraceRespected
  OBVIOUS
<1>1. /\ at = "idle"
      /\ \A i \in Ifaces : misses[i] = 0 /\ absent[i] = 0
  BY DEF Init
<1> QED BY <1>1 DEF CountsRight, GraceRespected

(* _plan_misses: no plan is made that removes an interface, active without *)
(* a break until then, before Grace snapshots in a row have missed it, at  *)
(* whatever pace plans are activated.                                      *)
THEOREM BindingGrace == Spec => []GraceRespected
<1>1. StagingInv => JobPlaces
  BY DEF StagingInv
<1> QED BY <1>1, GraceInit, GraceStep, Stages, PTL DEF Spec

-----------------------------------------------------------------------------
(***************************************************************************)
(* Resources.  The worker removes resources only of interfaces that a plan *)
(* has removed, and every plan in the lane was provisioned.                *)
(***************************************************************************)

Provisioned(c) == Bound(c) \ removed \subseteq resources

OnlyRemoved ==
    todo \subseteq removed /\ unwanted \subseteq removed /\ retry \subseteq removed

ResourcesInv ==
    /\ OnlyRemoved
    /\ Provisioned(rc)
    /\ at \in {"enqueue", "absorb"} => Provisioned(plan.rc)
    /\ \A n \in DOMAIN lane : Provisioned(lane[n].rc)

(* No step takes away resources of an interface that no plan has removed.  *)
LEMMA ResourcesStay ==
    ASSUME TypeInv, ResourcesInv, [Next]_vars
    PROVE  /\ removed \subseteq removed'
           /\ \A c \in Configs : Provisioned(c) => Provisioned(c)'
<1>1. removed \subseteq removed'
  BY DEF Next, Work, Execute, Poll, RequestRecovery, StartJob, Remove, EndRemoving, Resolve,
         Provision, EnqueuePlan, LaneFull, DropPlan, AbsorbRecovered, Superseded, Rollback,
         Activate, Flap, vars, bounds
<1>2. resources \ removed \subseteq resources'
  <2>1. CASE \E i \in Ifaces : Remove(i)
    BY <2>1 DEF Remove, ResourcesInv, OnlyRemoved
  <2>2. CASE Provision
    BY <2>2 DEF Provision
  <2>3. CASE UNCHANGED resources
    BY <2>3
  <2> QED BY <2>1, <2>2, <2>3 DEF Next, Work, Execute, Poll, RequestRecovery, StartJob,
         EndRemoving, Resolve, EnqueuePlan, LaneFull, DropPlan, AbsorbRecovered, Superseded,
         Rollback, Activate, Flap, vars
<1>3. ASSUME NEW c \in Configs, Provisioned(c) PROVE Provisioned(c)'
  <2>1. Bound(c)' = Bound(c)
    BY DEF Bound
  <2> QED BY <1>1, <1>2, <1>3, <2>1 DEF Provisioned
<1> QED BY <1>1, <1>3

LEMMA OnlyRemovedStep ==
    ASSUME TypeInv, ResourcesInv, [Next]_vars
    PROVE  OnlyRemoved'
<1> USE DEF OnlyRemoved
<1>0. OnlyRemoved /\ removed \subseteq removed'
  BY ResourcesStay DEF ResourcesInv
<1>1. CASE UNCHANGED <<todo, unwanted, retry>>
  BY <1>0, <1>1
<1>2. CASE StartJob
  BY <1>0, <1>2, StartJobCases DEF StartJob, TypeInv, WorkerTypes
<1>3. CASE \E i \in Ifaces : Remove(i)
  BY <1>0, <1>3 DEF Remove, queueVars
<1>4. CASE Activate
  <2>1. /\ unwanted' = unwanted \/ unwanted' = unwanted \cup Head(lane).remove
        /\ removed' = removed \cup Head(lane).remove
        /\ UNCHANGED <<todo, retry>>
    BY <1>4 DEF Activate, workerVars
  <2> QED BY <1>0, <2>1
<1> QED BY <1>1, <1>2, <1>3, <1>4 DEF Next, Work, Execute, Poll, RequestRecovery,
       EndRemoving, Resolve, Provision, EnqueuePlan, LaneFull, DropPlan, AbsorbRecovered,
       Superseded, Rollback, Flap, vars, queueVars, workerVars

LEMMA ResourcesStep == TypeInv /\ ResourcesInv /\ [Next]_vars => ResourcesInv'
<1> SUFFICES ASSUME TypeInv, ResourcesInv, [Next]_vars PROVE ResourcesInv'
  OBVIOUS
<1>1. \A c \in Configs : Provisioned(c) => Bound(c) \ removed' \subseteq resources'
  <2>1. \A c : Bound(c)' = Bound(c)
    BY DEF Bound
  <2> QED BY <2>1, ResourcesStay DEF Provisioned
<1>2. /\ rc \in Configs /\ plan \in Plans /\ plan.rc \in Configs /\ lane \in Seq(Plans)
      /\ \A n \in DOMAIN lane : lane[n].rc \in Configs
  BY PlanFields DEF TypeInv, ConfigTypes, PlanTypes
<1>3. ASSUME rc' = rc PROVE Provisioned(rc)'
  BY <1>1, <1>2, <1>3 DEF ResourcesInv, Provisioned, Bound
<1>4. ASSUME plan' = plan, Provisioned(plan.rc) PROVE Provisioned(plan.rc)'
  BY <1>1, <1>2, <1>4 DEF Provisioned, Bound
<1> DEFINE Lane == \A n \in DOMAIN lane : Provisioned(lane[n].rc)
<1>5. ASSUME lane' = lane PROVE Lane'
  <2>1. \A n \in DOMAIN lane : Bound(lane[n].rc) \ removed' \subseteq resources'
    BY <1>1, <1>2 DEF ResourcesInv
  <2> QED BY <1>5, <2>1 DEF Provisioned, Bound
<1>6. ASSUME lane # <<>>, lane' = Tail(lane) PROVE Lane'
  <2>1. ASSUME NEW n \in DOMAIN Tail(lane) PROVE Bound(lane'[n].rc) \ removed' \subseteq resources'
    <3>1. n + 1 \in DOMAIN lane /\ lane'[n] = lane[n + 1]
      BY <1>2, <1>6, TailPlaces
    <3>2. Provisioned(lane[n + 1].rc)
      BY <3>1 DEF ResourcesInv
    <3> QED BY <1>1, <1>2, <3>1, <3>2
  <2> QED BY <1>6, <2>1 DEF Provisioned, Bound
<1>7. CASE EnqueuePlan
  <2> DEFINE q == [plan EXCEPT !.base = generation]
  <2>1. q \in Plans /\ q.rc = plan.rc
    BY <1>2, PlanBase DEF TypeInv, RestTypes
  <2>2. /\ lane' = Append(lane, q) /\ at = "enqueue" /\ at' = "idle"
        /\ UNCHANGED <<rc, plan>>
    BY <1>7 DEF EnqueuePlan, activeVars
  <2> HIDE DEF q
  <2>3. ASSUME NEW n \in DOMAIN lane' PROVE Bound(lane'[n].rc) \ removed' \subseteq resources'
    <3>1. CASE lane'[n] = q
      BY <1>1, <1>2, <2>1, <2>2, <3>1 DEF ResourcesInv
    <3>2. CASE n \in DOMAIN lane /\ lane'[n] = lane[n]
      BY <1>1, <1>2, <3>2 DEF ResourcesInv
    <3> QED BY <1>2, <2>1, <2>2, <3>1, <3>2, AppendPlaces
  <2>4. Lane'
    BY <2>3 DEF Provisioned, Bound
  <2> QED BY <1>3, <2>2, <2>4, OnlyRemovedStep DEF ResourcesInv
<1>8. CASE Provision
  <2>1. /\ UNCHANGED <<rc, plan, lane, removed>>
        /\ at' \in {"enqueue", "absorb"} => resources' = resources \cup Bound(plan.rc)
    BY <1>8 DEF Provision, activeVars
  <2>2. at' \in {"enqueue", "absorb"} => Provisioned(plan.rc)'
    BY <2>1 DEF Provisioned, Bound
  <2> QED BY <1>3, <1>5, <2>1, <2>2, OnlyRemovedStep DEF ResourcesInv
<1>9. CASE Activate
  <2>1. /\ lane # <<>> /\ lane' = Tail(lane) /\ rc' = Head(lane).rc
        /\ UNCHANGED <<at, plan>>
    BY <1>9 DEF Activate, workerVars
  <2>2. Provisioned(lane[1].rc) /\ lane[1].rc \in Configs /\ rc' = lane[1].rc
    BY <1>2, <2>1, FirstPlace DEF ResourcesInv
  <2>3. Provisioned(rc)'
    BY <1>1, <2>2 DEF Provisioned, Bound
  <2> QED BY <1>4, <1>6, <2>1, <2>3, OnlyRemovedStep DEF ResourcesInv
<1>10. CASE Superseded \/ Rollback
  <2>1. lane # <<>> /\ lane' = Tail(lane) /\ UNCHANGED <<at, plan, rc>>
    BY <1>10 DEF Superseded, Rollback, workerVars, activeVars
  <2> QED BY <1>3, <1>4, <1>6, <2>1, OnlyRemovedStep DEF ResourcesInv
<1>11. ASSUME UNCHANGED <<rc, lane>>, at' \in {"enqueue", "absorb"} => UNCHANGED <<at, plan>>
       PROVE  ResourcesInv'
  BY <1>3, <1>4, <1>5, <1>11, OnlyRemovedStep DEF ResourcesInv
<1>12. CASE Resolve
  <2>1. UNCHANGED <<rc, lane>> /\ at' \in {"idle", "provision"}
    BY <1>12 DEF Resolve, activeVars
  <2> QED BY <1>11, <2>1
<1>13. CASE StartJob
  <2>1. UNCHANGED <<rc, lane>> /\ at' \in {"removing", "provision"}
    BY <1>13, StartJobCases DEF StartJob, activeVars, TypeInv, WorkerTypes
  <2> QED BY <1>11, <2>1
<1>14. CASE EndRemoving \/ LaneFull \/ AbsorbRecovered
  <2>1. UNCHANGED <<rc, lane>> /\ at' \notin {"enqueue", "absorb"}
    BY <1>14 DEF EndRemoving, LaneFull, DropPlan, AbsorbRecovered, activeVars
  <2> QED BY <1>11, <2>1
<1>15. CASE Poll \/ RequestRecovery \/ (\E i \in Ifaces : Remove(i) \/ Flap(i)) \/ UNCHANGED vars
  <2>1. UNCHANGED <<rc, lane, at, plan>>
    BY <1>15 DEF Poll, RequestRecovery, Remove, Flap, workerVars, activeVars, vars
  <2> QED BY <1>11, <2>1
<1> QED BY <1>7, <1>8, <1>9, <1>10, <1>12, <1>13, <1>14, <1>15 DEF Next, Work, Execute

(* provision_all before a plan is queued, remove_interface only of what a  *)
(* plan has removed: whatever fails and in whatever order jobs and plans   *)
(* run, a bound interface that no plan has removed has its resources.      *)
THEOREM BindingResources == Spec => []FirstKeepsResources
<1>1. Init => ResourcesInv
  BY DEF Init, ResourcesInv, OnlyRemoved, Provisioned
<1>2. ResourcesInv => FirstKeepsResources
  BY DEF ResourcesInv, Provisioned, FirstKeepsResources
<1> QED BY <1>1, <1>2, ResourcesStep, TypesInit, TypesStep, PTL DEF Spec
=============================================================================

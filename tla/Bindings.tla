------------------------------- MODULE Bindings -------------------------------
(***************************************************************************)
(* How the bindings follow the ROS graph: BindingManager of                *)
(* runtime/bindings.py with ProvisioningQueue of runtime/queues.py, the    *)
(* Provisioner of runtime/provisioning.py and the generation counter of    *)
(* runtime/lifecycle.py.                                                   *)
(*                                                                         *)
(* The executor takes a snapshot of the graph; the provisioning worker     *)
(* compares it with the active configuration, creates the resources and    *)
(* puts a plan in the control lane; the executor activates the plan in one *)
(* callback: bind the additions, swap the generation, unbind the removals. *)
(* The worker's calls of the CSE take time, and the executor goes on.      *)
(*                                                                         *)
(* A configuration is a function from interfaces to ROS types, None where  *)
(* the interface is not bound.  The resolution of a snapshot is the        *)
(* snapshot itself; which interfaces the rules select is in Planning.      *)
(***************************************************************************)
EXTENDS Naturals, FiniteSets, Sequences

CONSTANTS
    Ifaces, Types, None,
    Grace,        \* vanish_grace_polls
    LaneMax,      \* room in the control lane
    Promptness,   \* whether a plan is activated before the worker's next job
    MaxFlaps, MaxFailures, MaxRecovers    \* bounds of the exploration

ASSUME ConstantTypes ==
    /\ None \notin Types
    /\ {Grace, LaneMax} \subseteq Nat \ {0}
    /\ Promptness \subseteq BOOLEAN
    /\ {MaxFlaps, MaxFailures, MaxRecovers} \subseteq Nat

Configs == [Ifaces -> Types \cup {None}]
Bound(c) == {i \in Ifaces : c[i] # None}

VARIABLES
    prompt,      \* of Promptness: chosen at the start
    graph,       \* the ROS graph, a configuration
    jobs,        \* the pending kinds of jobs, in the order of their first put
    snapshot, unwanted,    \* the arguments of reconcile_discovery and remove_interfaces
    at,          \* where the worker is: "idle", "removing", "resolve", ...
    job,         \* the job it is doing
    seen,        \* the snapshot it is looking at
    todo,        \* the interfaces whose resources it has still to remove
    plan,        \* the plan it is preparing
    previous,    \* the provisioner's configuration to put back afterwards
    misses,      \* _plan_misses
    retry,       \* _resource_removal_pending
    lane,        \* the plans in the control lane
    rc,          \* registry.rc, the active configuration
    provRc,      \* provisioner.rc
    bound,       \* the endpoints of the adapter, specs_by_key
    routes,      \* the active routes and paths
    generation, staging,
    resources,   \* the interfaces whose resources the CSE has
    absent,      \* history: snapshots in a row that lack an active interface
    removed,     \* history: interfaces that a plan has removed before
    left,        \* history: interfaces that have left the active configuration
    flaps, failures, recovers

queueVars  == <<jobs, snapshot, unwanted>>
workerVars == <<at, job, seen, todo, plan, previous, misses, retry>>
activeVars == <<rc, bound, routes, generation>>
bounds     == <<removed, left, prompt, flaps, failures, recovers>>
vars == <<graph, queueVars, workerVars, lane, activeVars, provRc, staging, resources,
          absent, bounds>>

(* A plan has the configuration it leads to, what it adds and removes, the *)
(* generation it names as the one it changes (base) and, which the code    *)
(* does not keep, the one its snapshot was compared with (basis).          *)
NoPlan == [rc |-> [i \in Ifaces |-> None], add |-> {}, remove |-> {}, basis |-> 0, base |-> 0]

Init ==
    /\ prompt \in Promptness
    /\ graph \in Configs
    /\ jobs = <<>> /\ snapshot = graph /\ unwanted = {}
    /\ at = "idle" /\ job = "none" /\ seen = graph /\ todo = {}
    /\ plan = NoPlan /\ previous = graph
    /\ misses = [i \in Ifaces |-> 0] /\ retry = {}
    /\ lane = <<>>
    /\ rc = graph /\ provRc = graph /\ bound = graph /\ routes = graph
    /\ generation = 1 /\ staging = FALSE
    /\ resources = Bound(graph)
    /\ absent = [i \in Ifaces |-> 0] /\ removed = {} /\ left = {}
    /\ flaps = 0 /\ failures = 0 /\ recovers = 0

-----------------------------------------------------------------------------
(* The queue of jobs                                                       *)

(* A newer job of a kind takes the place of the one that waits. *)
Queued(kind) ==
    IF \E n \in DOMAIN jobs : jobs[n] = kind THEN jobs ELSE Append(jobs, kind)

(* refresh, on a timer of the executor.  *)
Poll ==
    /\ snapshot # graph \/ ~\E n \in DOMAIN jobs : jobs[n] = "discovery"
    /\ jobs' = Queued("discovery") /\ snapshot' = graph
    /\ UNCHANGED <<graph, unwanted, workerVars, lane, activeVars, provRc, staging,
                   resources, absent, bounds>>

(* A delivery meets a lost resource or a CSE that is back. *)
RequestRecovery ==
    /\ recovers < MaxRecovers /\ recovers' = recovers + 1
    /\ jobs' = Queued("recover")
    /\ UNCHANGED <<graph, snapshot, unwanted, workerVars, lane, activeVars, provRc,
                   staging, resources, absent, removed, left, prompt, flaps, failures>>

StartJob ==
    /\ at = "idle" /\ jobs # <<>>
    /\ prompt => lane = <<>>
    /\ job' = Head(jobs) /\ jobs' = Tail(jobs)
    /\ CASE Head(jobs) = "discovery" ->
              /\ at' = "removing" /\ todo' = retry /\ seen' = snapshot
              /\ UNCHANGED <<unwanted, staging, plan>>
         [] Head(jobs) = "remove" ->
              /\ at' = "removing" /\ todo' = unwanted /\ unwanted' = {}
              /\ UNCHANGED <<seen, staging, plan>>
         [] Head(jobs) = "recover" ->
              /\ at' = "provision" /\ staging' = TRUE
              /\ plan' = [NoPlan EXCEPT !.rc = provRc]
              /\ UNCHANGED <<todo, seen, unwanted>>
    /\ UNCHANGED <<graph, snapshot, previous, misses, retry, lane, activeVars, provRc,
                   resources, absent, bounds>>

-----------------------------------------------------------------------------
(* The jobs                                                                *)

(* _remove_interfaces: what could not be removed is kept for the next      *)
(* poll.                                                                   *)
Remove(i) ==
    /\ at = "removing" /\ i \in todo
    /\ todo' = todo \ {i}
    /\ \/ /\ resources' = resources \ {i} /\ retry' = retry \ {i}
          /\ UNCHANGED failures
       \/ /\ failures < MaxFailures /\ failures' = failures + 1
          /\ retry' = retry \cup {i} /\ UNCHANGED resources
    /\ UNCHANGED <<graph, queueVars, at, job, seen, plan, previous, misses, lane,
                   activeVars, provRc, staging, absent, removed, left, prompt, flaps, recovers>>

EndRemoving ==
    /\ at = "removing" /\ todo = {}
    /\ at' = IF job = "discovery" THEN "resolve" ELSE "idle"
    /\ UNCHANGED <<graph, queueVars, job, seen, todo, plan, previous, misses, retry,
                   lane, activeVars, provRc, staging, resources, absent, bounds>>

(* The interfaces of the active plan that the snapshot lacks, and those of *)
(* them that have been away long enough.                                   *)
Away == Bound(rc) \ Bound(seen)
(* Mutant: the count starts again with every snapshot.  *)
CountedAfresh(i) == IF i \in Away THEN 1 ELSE 0

Counted(i) == IF i \in Away THEN misses[i] + 1 ELSE IF i \in Bound(rc) THEN 0 ELSE misses[i]
(* Mutant: the grace is one snapshot short.  *)
RemovableEarly == {i \in Away : Counted(i) + 1 >= Grace}

Removable == {i \in Away : Counted(i) >= Grace}

(* A type that changed under a bound interface waits until it rejoins. *)
Desired == [i \in Ifaces |-> IF i \in Removable THEN None
                             ELSE IF rc[i] # None THEN rc[i] ELSE seen[i]]
Additions == Bound(Desired) \ Bound(rc)

(* _reconcile_discovery up to the first call of the provisioner.  *)
Resolve ==
    /\ at = "resolve"
    /\ misses' = [i \in Ifaces |-> IF Counted(i) > Grace THEN Grace ELSE Counted(i)]
    /\ absent' = [i \in Ifaces |-> IF i \notin Away THEN 0
                                   ELSE IF absent[i] = Grace THEN Grace ELSE absent[i] + 1]
    /\ IF Additions = {} /\ Removable = {}
       THEN at' = "idle" /\ UNCHANGED <<plan, previous, provRc, staging>>
       ELSE /\ at' = "provision" /\ staging' = TRUE
            /\ plan' = [rc |-> Desired, add |-> Additions, remove |-> Removable,
                       basis |-> generation, base |-> 0]
            /\ previous' = provRc /\ provRc' = Desired
    /\ UNCHANGED <<graph, queueVars, job, seen, todo, retry, lane, activeVars, resources,
                   bounds>>

(* provision_all creates what is missing; it may fail half-way.  *)
Provision ==
    /\ at = "provision"
    /\ provRc' = IF job = "discovery" THEN previous ELSE provRc
    /\ \/ /\ resources' = resources \cup Bound(plan.rc)
          /\ at' = IF job = "discovery" THEN "enqueue" ELSE "absorb"
          /\ UNCHANGED <<staging, failures>>
       \/ /\ failures < MaxFailures /\ failures' = failures + 1
          /\ \E some \in SUBSET Bound(plan.rc) : resources' = resources \cup some
          /\ at' = "idle" /\ staging' = FALSE
    /\ UNCHANGED <<graph, queueVars, job, seen, todo, plan, previous, misses, retry,
                   lane, activeVars, absent, removed, left, prompt, flaps, recovers>>

(* The generation is read only now.  *)
EnqueuePlan ==
    /\ at = "enqueue" /\ at' = "idle"
    /\ Len(lane) < LaneMax
    /\ lane' = Append(lane, [plan EXCEPT !.base = generation])
    /\ UNCHANGED <<graph, queueVars, job, seen, todo, plan, previous, misses, retry,
                   activeVars, provRc, staging, resources, absent, bounds>>

(* The lane is full, of plans or of the events of the listeners, and the   *)
(* plan is dropped.                                                        *)
DropPlan(flag) ==
    /\ at = "enqueue" /\ at' = "idle"
    /\ \/ Len(lane) = LaneMax /\ UNCHANGED failures
       \/ failures < MaxFailures /\ failures' = failures + 1
    /\ staging' = flag
    /\ UNCHANGED <<graph, queueVars, job, seen, todo, plan, previous, misses, retry, lane,
                   activeVars, provRc, resources, absent, removed, left, prompt, flaps, recovers>>

(* Mutant: the dropped plan leaves the staging flag set.  *)
LaneFullForgets == DropPlan(staging)

LaneFull == DropPlan(FALSE)

(* absorb_provision on the worker: recover, reconcile.  *)
AbsorbRecovered ==
    /\ at = "absorb" /\ at' = "idle"
    /\ routes' = plan.rc /\ staging' = FALSE
    /\ UNCHANGED <<graph, queueVars, job, seen, todo, plan, previous, misses, retry, lane,
                   rc, bound, generation, provRc, resources, absent, bounds>>

-----------------------------------------------------------------------------
(* The executor activates a plan                                           *)

(* Mutant: the interfaces that a superseded plan removes lose their        *)
(* resources all the same.                                                 *)
SupersededRemoves ==
    /\ lane # <<>> /\ Head(lane).base # generation
    /\ jobs' = Queued("remove") /\ unwanted' = unwanted \cup Head(lane).remove
    /\ lane' = Tail(lane) /\ staging' = FALSE
    /\ UNCHANGED <<graph, snapshot, workerVars, activeVars, provRc, resources, absent,
                   bounds>>

Superseded ==
    /\ lane # <<>> /\ Head(lane).base # generation
    /\ lane' = Tail(lane) /\ staging' = FALSE
    /\ UNCHANGED <<graph, queueVars, workerVars, activeVars, provRc, resources, absent,
                   bounds>>

(* An endpoint that exists is left as it is.  *)
With(c, S, p) == [i \in Ifaces |-> IF i \in S /\ c[i] = None THEN p.rc[i] ELSE c[i]]
Without(c, S) == [i \in Ifaces |-> IF i \in S THEN None ELSE c[i]]

(* Mutant: the additions bound before the failure stay bound.  *)
RollbackNothing ==
    /\ lane # <<>> /\ Head(lane).base = generation
    /\ failures < MaxFailures /\ failures' = failures + 1
    /\ \E i \in Head(lane).add : \E before \in SUBSET (Head(lane).add \ {i}) :
            bound' = With(bound, before, Head(lane))
    /\ lane' = Tail(lane) /\ staging' = FALSE
    /\ UNCHANGED <<graph, queueVars, workerVars, rc, routes, generation, provRc,
                   resources, absent, removed, left, prompt, flaps, recovers>>

(* One addition cannot be bound: those bound before it are unbound.  *)
Rollback ==
    /\ lane # <<>> /\ Head(lane).base = generation
    /\ failures < MaxFailures /\ failures' = failures + 1
    /\ \E i \in Head(lane).add : \E before \in SUBSET (Head(lane).add \ {i}) :
            bound' = Without(With(bound, before, Head(lane)), before)
    /\ lane' = Tail(lane) /\ staging' = FALSE
    /\ UNCHANGED <<graph, queueVars, workerVars, rc, routes, generation, provRc,
                   resources, absent, removed, left, prompt, flaps, recovers>>

Activate ==
    LET p == Head(lane) IN
    /\ lane # <<>> /\ p.base = generation
    /\ bound' = Without(With(bound, p.add, p), p.remove)
    /\ rc' = p.rc /\ provRc' = p.rc /\ routes' = p.rc
    /\ generation' = generation + 1
    /\ lane' = Tail(lane) /\ staging' = FALSE
    /\ IF p.remove = {} THEN UNCHANGED <<jobs, unwanted>>
       ELSE jobs' = Queued("remove") /\ unwanted' = unwanted \cup p.remove
    /\ removed' = removed \cup p.remove /\ left' = left \cup (Bound(rc) \ Bound(p.rc))
    /\ UNCHANGED <<graph, snapshot, workerVars, resources, absent, prompt, flaps, failures,
                   recovers>>

(* An interface appears, goes away or comes back with another type.  *)
Flap(i) ==
    /\ flaps < MaxFlaps /\ flaps' = flaps + 1
    /\ \E t \in (Types \cup {None}) \ {graph[i]} : graph' = [graph EXCEPT ![i] = t]
    /\ UNCHANGED <<queueVars, workerVars, lane, activeVars, provRc, staging, resources,
                   absent, removed, left, prompt, failures, recovers>>

Work == \/ StartJob \/ (\E i \in Ifaces : Remove(i)) \/ EndRemoving \/ Resolve
        \/ Provision \/ EnqueuePlan \/ LaneFull \/ AbsorbRecovered
Execute == Superseded \/ Rollback \/ Activate

Next == \/ Poll \/ RequestRecovery \/ Work \/ Execute
        \/ \E i \in Ifaces : Flap(i)

Spec == Init /\ [][Next]_vars

(* The timer of the poll, the worker and the executor go on.  *)
FairSpec == Spec /\ WF_vars(Poll) /\ WF_vars(Work) /\ WF_vars(Execute)

-----------------------------------------------------------------------------
(* Properties                                                              *)

Plans == [rc : Configs, add : SUBSET Ifaces, remove : SUBSET Ifaces, basis : Nat, base : Nat]

(* Every variable has its type. *)
TypeOK ==
    /\ {graph, snapshot, seen, previous, rc, provRc, bound, routes} \subseteq Configs
    /\ jobs \in Seq({"discovery", "remove", "recover"})
    /\ at \in {"idle", "removing", "resolve", "provision", "enqueue", "absorb"}
    /\ job \in {"none", "discovery", "remove", "recover"}
    /\ plan \in Plans /\ lane \in Seq(Plans)
    /\ misses \in [Ifaces -> 0..Grace] /\ absent \in [Ifaces -> 0..Grace]
    /\ {todo, unwanted, retry, resources} \subseteq SUBSET Ifaces
    /\ {removed, left} \subseteq SUBSET Ifaces /\ {staging, prompt} \subseteq BOOLEAN
    /\ {generation, flaps, failures, recovers} \subseteq Nat

(* _activate_plan: endpoints, routes and configuration are of one          *)
(* generation, however plans fail, are dropped or rolled back, and the     *)
(* provisioner works on that generation between its jobs.                  *)
OneGeneration ==
    /\ bound = rc /\ routes = rc
    /\ at = "idle" => provRc = rc

(* A newer plan was activated between the snapshot and the reading of the  *)
(* generation.                                                             *)
Overtaken(p) == p.basis # p.base

(* _activate_plan, _rollback: a plan is bound as a whole or not at all.    *)
(* However late plans are activated, fail half-way, are dropped or         *)
(* superseded, no step takes the endpoints and the active configuration    *)
(* apart but the activation of an overtaken plan.                          *)
EndpointsFollow ==
    [][bound = rc => bound' = rc' \/ (lane # <<>> /\ Overtaken(Head(lane)))]_vars

(* _plan_misses: no plan is made that removes an interface before Grace    *)
(* snapshots in a row have missed it, if it has been active without a      *)
(* break until then, at whatever pace plans are activated.                 *)
GraceRespected ==
    at \in {"provision", "enqueue"} /\ job = "discovery" =>
        \A i \in plan.remove \ left : absent[i] >= Grace

(* vanish_grace_polls is the same for an interface that has rejoined, with *)
(* plans that are activated at once.                                       *)
GraceEveryTime == [][prompt => \A i \in Bound(rc) \ Bound(rc)' : absent[i] >= Grace]_vars

(* provision_staged, finish_staging: the staging flag, under which the     *)
(* listener turns unknown routes away for the time being, has somebody     *)
(* who will clear it, dropped, superseded and failed plans included, and   *)
(* stays set until a plan in the lane is activated in its turn.            *)
StagingFollowsPlans ==
    /\ staging => at \in {"provision", "enqueue", "absorb"} \/ lane # <<>>
    /\ prompt /\ lane # <<>> => staging

(* remove_interface takes the resources of interfaces that the active      *)
(* generation does not have: what is bound keeps its resources.            *)
ActiveHasResources == prompt => Bound(rc) \subseteq resources

(* It does so of an interface that no plan has removed before: what was    *)
(* provisioned stays until the first removal, whatever fails.              *)
FirstKeepsResources == Bound(rc) \ removed \subseteq resources

(* The polls: when the graph and the CSE are quiet, the bindings are those *)
(* of the graph.                                                           *)
Converges == prompt => <>[](Bound(bound) = Bound(graph))
=============================================================================

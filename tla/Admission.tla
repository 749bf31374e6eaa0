----------------------------- MODULE Admission -----------------------------
(***************************************************************************)
(* How a oneM2M request reaches the robot: runtime/inbound.py, with the    *)
(* processed table and the cursors of runtime/state.py, the two lanes of   *)
(* runtime/queues.py and the catch-up sweep of onem2m/catchup.py.          *)
(*                                                                         *)
(* A client creates a content instance (CIN) in an input container of the  *)
(* CSE.  The CSE notifies the IPE once and forgets; the listener thread    *)
(* admits the notification: a row of the processed table is the lock       *)
(* against running a request twice, a bounded in-memory lane carries the   *)
(* request to the executor thread.  The provisioning worker re-reads the   *)
(* containers from a persisted marker and admits what it finds the same    *)
(* way.  The process may crash or be stopped between any two steps; rows,  *)
(* cursors and markers survive, lanes and thread states do not.            *)
(*                                                                         *)
(* Left to other modules: what a dispatch does (Transactions), routes that *)
(* change while the process runs (Bindings).                               *)
(***************************************************************************)
EXTENDS Integers, Sequences

CONSTANTS
    CINs,        \* the content instances clients may create
    Paths,       \* routed input containers (path keys)
    Keys,        \* processed primary keys (robot, interface, correlation)
    PathOf,      \* [CINs -> Paths]
    KeyOf,       \* [CINs -> Keys]; a client's retry shares its key
    Control,     \* the CINs that are cancels: control lane
    Malformed,   \* the CINs whose content is not a JSON object
    NoCIN, NoPath,
    NormalMax, ControlMax, DrainBudget,
    Redelivery,  \* TRUE: the transport may deliver a NOTIFY again (MQTT QoS 1)
    Periodic,    \* TRUE: catch_up_sec > 0, a timer requests sweeps
    KnownPaths,  \* TRUE: the database already holds a marker for every path
    Retention,   \* clock units a closed row is kept
    MaxClock, MaxCrashes, MaxStops   \* bounds of the exploration

ASSUME ConstantTypes ==
    /\ PathOf \in [CINs -> Paths]
    /\ KeyOf \in [CINs -> Keys]
    /\ Control \subseteq CINs
    /\ Malformed \subseteq CINs
    /\ NoCIN \notin CINs
    /\ NoPath \notin Paths
    /\ NormalMax \in Nat \ {0}
    /\ ControlMax \in Nat \ {0}
    /\ DrainBudget \in Nat \ {0}
    /\ {Redelivery, Periodic, KnownPaths} \subseteq BOOLEAN
    /\ {Retention, MaxClock, MaxCrashes, MaxStops} \subseteq Nat

VARIABLES
    clock,      \* the CSE's clock, whose ticks are the seconds of ct
    ct,         \* creation time of each CIN, 0 while it does not exist
    notes,      \* CINs whose NOTIFY may still arrive
    row,        \* processed.state, "none" when there is no row
    closedAt,   \* processed.ts of a terminal row (no other ts is ever read)
    lastCt,     \* kv last_cin_ct:<path>, 0 for None
    marker,     \* kv catchup_cin_ct:<path>, 0 for None, Missing for no key
    phase,      \* where the main thread is
    control,    \* the control lane
    normal,     \* the normal lane
    woken,      \* the guard condition is triggered
    draining,   \* the executor is inside drain()
    batch,      \* the events drain() or shutdown() has still to handle
    executing,  \* the event whose compare-and-set was won, not yet carried out
    holder,     \* who holds _admission_lock after writing its row
    admitting,  \* the CIN that holder admits
    sweepDue,   \* a catchup job is pending for the provisioning worker
    toSweep,    \* the containers the running sweep has still to visit
    sweeping,   \* the container being swept
    left,       \* its listed CINs that are still to be admitted
    completed,  \* the creation time the sweep has completed up to
    runs,       \* history: effects of the request since its row was inserted
    earlier,    \* history: effects before the row was last cleaned up
    crashes,    \* bound: how often the process was killed
    stops       \* bound: how often it was asked to stop

cseVars      == <<clock, ct, notes>>
markVars     == <<lastCt, marker>>
laneVars     == <<control, normal>>
drainVars    == <<draining, batch, executing>>
lockVars     == <<holder, admitting>>
sweepVars    == <<toSweep, sweeping, left, completed>>
historyVars  == <<runs, earlier>>
boundVars    == <<crashes, stops>>
vars == <<cseVars, row, closedAt, markVars, phase, laneVars, woken, drainVars,
          lockVars, sweepDue, sweepVars, historyVars, boundVars>>

Missing  == -1
Active   == {"queued", "dispatched", "overflow"}
Terminal == {"finished", "unknown", "shuttingDown"}
Phases   == {"down", "booting", "routed", "starting", "running",
             "stopping", "closing", "spinning"}

\* Phases in which the route table is filled.
Routed == Phases \ {"down", "booting"}

Later(a, b) == IF a < b THEN b ELSE a

CseTypes ==
    /\ clock \in Nat
    /\ ct \in [CINs -> Nat]
    /\ notes \subseteq CINs

RowTypes ==
    /\ row \in [Keys -> {"none"} \union Active \union Terminal]
    /\ closedAt \in [Keys -> Nat]

MarkTypes ==
    /\ lastCt \in [Paths -> Nat]
    /\ marker \in [Paths -> Nat \union {Missing}]

LaneTypes ==
    /\ control \in Seq(CINs)
    /\ normal \in Seq(CINs)

DrainTypes ==
    /\ draining \in BOOLEAN
    /\ batch \in Seq(CINs)
    /\ executing \in CINs \union {NoCIN}

LockTypes ==
    /\ holder \in {"free", "notify", "sweep"}
    /\ admitting \in CINs \union {NoCIN}
    /\ holder # "free" => admitting \in CINs

SweepTypes ==
    /\ toSweep \subseteq Paths
    /\ sweeping \in Paths \union {NoPath}
    /\ left \subseteq CINs
    /\ completed \in Nat \union {Missing}

HistoryTypes ==
    /\ runs \in [Keys -> Nat]
    /\ earlier \in [Keys -> Nat]

ThreadTypes ==
    /\ phase \in Phases
    /\ woken \in BOOLEAN
    /\ sweepDue \in BOOLEAN
    /\ crashes \in Nat
    /\ stops \in Nat

TypeOK ==
    /\ CseTypes /\ RowTypes /\ MarkTypes /\ LaneTypes /\ DrainTypes
    /\ LockTypes /\ SweepTypes /\ HistoryTypes /\ ThreadTypes

Init ==
    /\ clock = 1
    /\ ct = [c \in CINs |-> 0]
    /\ notes = {}
    /\ row = [k \in Keys |-> "none"]
    /\ closedAt = [k \in Keys |-> 0]
    /\ lastCt = [p \in Paths |-> 0]
    /\ marker = [p \in Paths |-> IF KnownPaths THEN 0 ELSE Missing]
    /\ phase = "down"
    /\ control = <<>>
    /\ normal = <<>>
    /\ woken = FALSE
    /\ draining = FALSE
    /\ batch = <<>>
    /\ executing = NoCIN
    /\ holder = "free"
    /\ admitting = NoCIN
    /\ sweepDue = FALSE
    /\ toSweep = {}
    /\ sweeping = NoPath
    /\ left = {}
    /\ completed = 0
    /\ runs = [k \in Keys |-> 0]
    /\ earlier = [k \in Keys |-> 0]
    /\ crashes = 0
    /\ stops = 0
-----------------------------------------------------------------------------
(***************************************************************************)
(* The CSE and its clients                                                 *)
(***************************************************************************)

Tick ==
    /\ clock < MaxClock
    /\ clock' = clock + 1
    /\ UNCHANGED <<ct, notes, row, closedAt, markVars, phase, laneVars, woken,
                   drainVars, lockVars, sweepDue, sweepVars, historyVars,
                   boundVars>>

\* The NOTIFY is sent once; it is lost when no later step takes it from notes.
Create(c) ==
    /\ ct[c] = 0
    /\ ct' = [ct EXCEPT ![c] = clock]
    /\ notes' = notes \union {c}
    /\ UNCHANGED <<clock, row, closedAt, markVars, phase, laneVars, woken,
                   drainVars, lockVars, sweepDue, sweepVars, historyVars,
                   boundVars>>

TakeNote(c) ==
    /\ c \in notes
    /\ notes' = notes \ {c} \/ (Redelivery /\ notes' = notes)
    /\ UNCHANGED <<clock, ct>>
-----------------------------------------------------------------------------
(***************************************************************************)
(* _admit, in two steps under _admission_lock: the row, then the lane.     *)
(* WriteRow is state.admit(): INSERT, or overflow -> queued.  Anything     *)
(* else is a duplicate and ends the call without a further effect.         *)
(***************************************************************************)

LockFree == holder = "free"

\* Mutant: INSERT OR REPLACE forgets an interrupted request.
AdmissibleAgain(k) == row[k] \in {"none", "overflow", "unknown"}

\* Mutant: no re-acceptance of overflowed requests.
AdmissibleOnce(k) == row[k] = "none"

Admissible(k) == row[k] \in {"none", "overflow"}

WriteRow(c, who) ==
    /\ Admissible(KeyOf[c])
    /\ row' = [row EXCEPT ![KeyOf[c]] = "queued"]
    /\ holder' = who
    /\ admitting' = c

\* Nothing is routed yet: the notification is refused and forgotten.
RefuseNotify(c) ==
    /\ phase = "booting"
    /\ LockFree
    /\ TakeNote(c)
    /\ UNCHANGED <<row, closedAt, markVars, phase, laneVars, woken, drainVars,
                   lockVars, sweepDue, sweepVars, historyVars, boundVars>>

\* The listener stays reachable until the process exits: stopping the HTTP
\* server does not join the handler threads that are already running.
ReceiveNotify(c) ==
    /\ phase \in Routed
    /\ LockFree
    /\ TakeNote(c)
    /\ \/ WriteRow(c, "notify")
       \/ ~Admissible(KeyOf[c]) /\ UNCHANGED <<row, lockVars>>
    /\ UNCHANGED <<closedAt, markVars, phase, laneVars, woken, drainVars,
                   sweepDue, sweepVars, historyVars, boundVars>>

Room(c) == IF c \in Control THEN Len(control) < ControlMax
                            ELSE Len(normal) < NormalMax

Put(c) ==
    IF c \in Control
    THEN control' = Append(control, c) /\ UNCHANGED normal
    ELSE normal' = Append(normal, c) /\ UNCHANGED control

\* mark_processed: the newest accepted creation time, never the marker.
MarkProcessed(c) ==
    lastCt' = [lastCt EXCEPT ![PathOf[c]] = Later(lastCt[PathOf[c]], ct[c])]

\* What the sweep does with a verdict other than overflow.
Swept(c) ==
    /\ left' = left \ {c}
    /\ completed' = Later(completed, ct[c])
    /\ UNCHANGED <<toSweep, sweeping>>

\* The lane takes the event: the executor is woken and the lock released.
Enqueue ==
    LET c == admitting IN
    /\ ~LockFree
    /\ Room(c)
    /\ Put(c)
    /\ MarkProcessed(c)
    /\ woken' = TRUE
    /\ holder' = "free"
    /\ admitting' = NoCIN
    /\ IF holder = "sweep" THEN Swept(c) ELSE UNCHANGED sweepVars
    /\ UNCHANGED <<cseVars, row, closedAt, marker, phase, drainVars, sweepDue,
                   historyVars, boundVars>>

\* The lane is full: mark_overflow, and a sweep gives up on its container.
Overflow ==
    LET k == KeyOf[admitting] IN
    /\ ~LockFree
    /\ ~Room(admitting)
    /\ row' = [row EXCEPT ![k] = IF @ = "queued" THEN "overflow" ELSE @]
    /\ holder' = "free"
    /\ admitting' = NoCIN
    /\ IF holder = "sweep"
       THEN left' = {} /\ UNCHANGED <<toSweep, sweeping, completed>>
       ELSE UNCHANGED sweepVars
    /\ UNCHANGED <<cseVars, closedAt, markVars, phase, laneVars, woken,
                   drainVars, sweepDue, historyVars, boundVars>>
-----------------------------------------------------------------------------
(***************************************************************************)
(* The provisioning worker: catch-up sweeps and cleanup                    *)
(***************************************************************************)

SweepIdle == toSweep = {} /\ sweeping = NoPath

\* At most one catchup job is pending, whoever asks for it.
RequestCatchup ==
    /\ Periodic
    /\ phase = "running"
    /\ sweepDue' = TRUE
    /\ UNCHANGED <<cseVars, row, closedAt, markVars, phase, laneVars, woken,
                   drainVars, lockVars, sweepVars, historyVars, boundVars>>

StartSweep ==
    /\ phase = "running"
    /\ sweepDue
    /\ SweepIdle
    /\ sweepDue' = FALSE
    /\ toSweep' = Paths
    /\ UNCHANGED <<cseVars, row, closedAt, markVars, phase, laneVars, woken,
                   drainVars, lockVars, sweeping, left, completed, historyVars,
                   boundVars>>

\* The CINs of a container that exist and are not older than its marker.
Listed(p) == {c \in CINs : /\ PathOf[c] = p
                           /\ ct[c] # 0
                           /\ marker[p] <= ct[c]}

ListPath(p) ==
    /\ p \in toSweep
    /\ sweeping = NoPath
    /\ sweeping' = p
    /\ left' = Listed(p)
    /\ completed' = marker[p]
    /\ UNCHANGED <<cseVars, row, closedAt, markVars, phase, laneVars, woken,
                   drainVars, lockVars, sweepDue, toSweep, historyVars,
                   boundVars>>

\* The container is left for the next sweep: its marker stays as it is.
LeavePath ==
    /\ toSweep' = toSweep \ {sweeping}
    /\ sweeping' = NoPath
    /\ left' = {}
    /\ UNCHANGED completed

\* The CSE does not answer: sweep() isolates the exception per container.
ListFails(p) ==
    /\ p \in toSweep
    /\ sweeping = NoPath
    /\ toSweep' = toSweep \ {p}
    /\ UNCHANGED <<cseVars, row, closedAt, markVars, phase, laneVars, woken,
                   drainVars, lockVars, sweepDue, sweeping, left, completed,
                   historyVars, boundVars>>

\* Listed CINs are admitted by creation time; ri, an opaque name, breaks ties.
Earliest == {c \in left : \A d \in left : ct[c] <= ct[d]}

SweepAdmit(c) ==
    /\ c \in Earliest \ Malformed
    /\ LockFree
    /\ \/ WriteRow(c, "sweep") /\ UNCHANGED <<lastCt, sweepVars>>
       \/ /\ ~Admissible(KeyOf[c])
          /\ MarkProcessed(c)
          /\ Swept(c)
          /\ UNCHANGED <<row, lockVars>>
    /\ UNCHANGED <<cseVars, closedAt, marker, phase, laneVars, woken, drainVars,
                   sweepDue, historyVars, boundVars>>

\* Routing reads con.get(...): content that is no object raises there, and
\* the exception leaves _sweep_one before the marker is written.
SweepRaises(c) ==
    /\ c \in Earliest \cap Malformed
    /\ LockFree
    /\ LeavePath
    /\ UNCHANGED <<cseVars, row, closedAt, markVars, phase, laneVars, woken,
                   drainVars, lockVars, sweepDue, historyVars, boundVars>>

\* Mutant: one cursor for both, the marker jumps to what NOTIFY has seen.
FinishPathByCursor ==
    /\ sweeping # NoPath
    /\ left = {}
    /\ holder # "sweep"
    /\ marker' = [marker EXCEPT ![sweeping] = Later(completed, lastCt[sweeping])]
    /\ LeavePath
    /\ UNCHANGED <<cseVars, row, closedAt, lastCt, phase, laneVars, woken,
                   drainVars, lockVars, sweepDue, historyVars, boundVars>>

FinishPath ==
    /\ sweeping # NoPath
    /\ left = {}
    /\ holder # "sweep"
    /\ marker' = [marker EXCEPT ![sweeping] = completed]
    /\ LeavePath
    /\ UNCHANGED <<cseVars, row, closedAt, lastCt, phase, laneVars, woken,
                   drainVars, lockVars, sweepDue, historyVars, boundVars>>

\* Mutant: the age of a row is not looked at.
ExpiredAtOnce == {k \in Keys : row[k] \in Terminal}

\* Terminal rows older than the retention are deleted by one statement.
Expired == {k \in Keys : row[k] \in Terminal /\ closedAt[k] + Retention <= clock}

Cleanup ==
    /\ phase = "running"
    /\ SweepIdle
    /\ Expired # {}
    /\ row' = [k \in Keys |-> IF k \in Expired THEN "none" ELSE row[k]]
    /\ earlier' = [k \in Keys |-> earlier[k] + IF k \in Expired THEN runs[k] ELSE 0]
    /\ runs' = [k \in Keys |-> IF k \in Expired THEN 0 ELSE runs[k]]
    /\ UNCHANGED <<cseVars, closedAt, markVars, phase, laneVars, woken,
                   drainVars, lockVars, sweepDue, sweepVars, boundVars>>
-----------------------------------------------------------------------------
(***************************************************************************)
(* The executor thread: drain, dispatch, late callbacks                    *)
(***************************************************************************)

\* get_batch: the control lane first, then the normal lane.
Waiting == control \o normal
Drop(s, n) == SubSeq(s, n + 1, Len(s))
Taken(budget) == IF Len(Waiting) < budget THEN Len(Waiting) ELSE budget

GetBatch(budget) ==
    LET n == Taken(budget) IN
    /\ batch' = SubSeq(Waiting, 1, n)
    /\ control' = Drop(control, n)
    /\ normal' = Drop(normal, Later(0, n - Len(control)))

Drain ==
    /\ phase \in {"running", "spinning"}
    /\ woken
    /\ ~draining
    /\ woken' = FALSE
    /\ draining' = TRUE
    /\ GetBatch(DrainBudget)
    /\ UNCHANGED <<cseVars, row, closedAt, markVars, phase, executing, lockVars,
                   sweepDue, sweepVars, historyVars, boundVars>>

\* Mutant: an UPDATE without the comparison.
ClaimAnyRow(c) == row' = [row EXCEPT ![KeyOf[c]] = "dispatched"] /\ executing' = c

\* cas_dispatch: only a queued row is won, and only its winner goes on.
Claim(c) ==
    IF row[KeyOf[c]] = "queued"
    THEN row' = [row EXCEPT ![KeyOf[c]] = "dispatched"] /\ executing' = c
    ELSE UNCHANGED <<row, executing>>

Dispatch ==
    /\ draining
    /\ executing = NoCIN
    /\ batch # <<>>
    /\ batch' = Tail(batch)
    /\ Claim(Head(batch))
    /\ UNCHANGED <<cseVars, closedAt, markVars, phase, laneVars, woken, draining,
                   lockVars, sweepDue, sweepVars, historyVars, boundVars>>

Finish(k, terminal) ==
    /\ row' = [row EXCEPT ![k] = terminal]
    /\ closedAt' = [closedAt EXCEPT ![k] = clock]

Effect(k) == runs' = [runs EXCEPT ![k] = @ + 1] /\ UNCHANGED earlier

\* The dispatch itself: refused or failed before anything reached the robot;
\* carried out and closed; or sent, to be closed by a callback.  shutdown()
\* swallows what a cancel raises, and leaves its row as it is.
Execute ==
    LET k == KeyOf[executing] IN
    /\ executing # NoCIN
    /\ executing' = NoCIN
    /\ \/ Finish(k, "finished") /\ UNCHANGED historyVars
       \/ Finish(k, "finished") /\ Effect(k)
       \/ Effect(k) /\ UNCHANGED <<row, closedAt>>
       \/ phase = "closing" /\ UNCHANGED <<row, closedAt, historyVars>>
    /\ UNCHANGED <<cseVars, markVars, phase, laneVars, woken, draining, batch,
                   lockVars, sweepDue, sweepVars, boundVars>>

\* A response, a result or a timeout of a request this process has sent.
Callback(k) ==
    /\ phase \in {"running", "spinning"}
    /\ ~draining
    /\ row[k] = "dispatched"
    /\ runs[k] > 0
    /\ Finish(k, "finished")
    /\ UNCHANGED <<cseVars, markVars, phase, laneVars, woken, drainVars, lockVars,
                   sweepDue, sweepVars, historyVars, boundVars>>

\* Mutant: the budget is spent and nobody wakes the executor again.
EndDrainSilently ==
    /\ draining
    /\ batch = <<>>
    /\ executing = NoCIN
    /\ draining' = FALSE
    /\ UNCHANGED <<cseVars, row, closedAt, markVars, phase, laneVars, woken, batch,
                   executing, lockVars, sweepDue, sweepVars, historyVars,
                   boundVars>>

\* The end of drain(): whatever is still in the lanes wakes it again.
EndDrain ==
    /\ draining
    /\ batch = <<>>
    /\ executing = NoCIN
    /\ draining' = FALSE
    /\ woken' = (woken \/ Waiting # <<>>)
    /\ UNCHANGED <<cseVars, row, closedAt, markVars, phase, laneVars, batch,
                   executing, lockVars, sweepDue, sweepVars, historyVars,
                   boundVars>>
-----------------------------------------------------------------------------
(***************************************************************************)
(* The main thread: boot, shutdown, crash                                  *)
(***************************************************************************)

Boot ==
    /\ phase = "down"
    /\ phase' = "booting"
    /\ UNCHANGED <<cseVars, row, closedAt, markVars, laneVars, woken, drainVars,
                   lockVars, sweepDue, sweepVars, historyVars, boundVars>>

\* absorb_provision, first half: routes.replace.
ActivateRoutes ==
    /\ phase = "booting"
    /\ phase' = "routed"
    /\ UNCHANGED <<cseVars, row, closedAt, markVars, laneVars, woken, drainVars,
                   lockVars, sweepDue, sweepVars, historyVars, boundVars>>

\* absorb_provision, second half: catchup.replace gives a path that has no
\* marker the newest accepted creation time as its marker.
InitMarkers ==
    /\ phase = "routed"
    /\ phase' = "starting"
    /\ marker' = [p \in Paths |-> IF marker[p] = Missing THEN lastCt[p]
                                                         ELSE marker[p]]
    /\ UNCHANGED <<cseVars, row, closedAt, lastCt, laneVars, woken, drainVars,
                   lockVars, sweepDue, sweepVars, historyVars, boundVars>>

\* Mutant: the boot sweep looks at dispatched rows only.
BootSweepDispatched ==
    /\ phase = "starting"
    /\ phase' = "running"
    /\ row' = [k \in Keys |-> IF row[k] = "dispatched" THEN "unknown" ELSE row[k]]
    /\ closedAt' = [k \in Keys |-> IF row[k] = "dispatched" THEN clock
                                                            ELSE closedAt[k]]
    /\ sweepDue' = TRUE
    /\ UNCHANGED <<cseVars, markVars, laneVars, woken, drainVars, lockVars,
                   sweepVars, historyVars, boundVars>>

\* boot_sweep, then the first catchup job; the executor starts spinning.
BootSweep ==
    /\ phase = "starting"
    /\ phase' = "running"
    /\ row' = [k \in Keys |-> CASE row[k] = "queued" -> "overflow"
                                [] row[k] = "dispatched" -> "unknown"
                                [] OTHER -> row[k]]
    /\ closedAt' = [k \in Keys |-> IF row[k] = "dispatched" THEN clock
                                                            ELSE closedAt[k]]
    /\ sweepDue' = TRUE
    /\ UNCHANGED <<cseVars, markVars, laneVars, woken, drainVars, lockVars,
                   sweepVars, historyVars, boundVars>>

\* Everything that lives in memory only is gone.
LoseMemory ==
    /\ phase' = "down"
    /\ control' = <<>> /\ normal' = <<>> /\ woken' = FALSE
    /\ draining' = FALSE /\ batch' = <<>> /\ executing' = NoCIN
    /\ holder' = "free" /\ admitting' = NoCIN
    /\ sweepDue' = FALSE
    /\ toSweep' = {} /\ sweeping' = NoPath /\ left' = {} /\ completed' = 0
    /\ UNCHANGED <<cseVars, row, closedAt, markVars, historyVars>>

Crash ==
    /\ phase # "down"
    /\ crashes < MaxCrashes
    /\ crashes' = crashes + 1
    /\ LoseMemory
    /\ UNCHANGED stops

\* SIGTERM: the spin loop is left between two callbacks.
Stop ==
    /\ phase = "running"
    /\ ~draining
    /\ stops < MaxStops
    /\ stops' = stops + 1
    /\ phase' = "stopping"
    /\ UNCHANGED <<cseVars, row, closedAt, markVars, laneVars, woken, drainVars,
                   lockVars, sweepDue, sweepVars, historyVars, crashes>>

\* The worker has finished its current job; shutdown() empties the lanes.
JoinWorker ==
    /\ phase = "stopping"
    /\ SweepIdle
    /\ phase' = "closing"
    /\ batch' = Waiting
    /\ control' = <<>> /\ normal' = <<>>
    /\ UNCHANGED <<cseVars, row, closedAt, markVars, woken, draining, executing,
                   lockVars, sweepDue, sweepVars, historyVars, boundVars>>

\* Cancels are still carried out; anything else is closed unexecuted.
ShutdownItem ==
    LET c == Head(batch)  k == KeyOf[c] IN
    /\ phase = "closing"
    /\ executing = NoCIN
    /\ batch # <<>>
    /\ batch' = Tail(batch)
    /\ IF c \in Control
       THEN Claim(c) /\ UNCHANGED closedAt
       ELSE /\ IF row[k] \in Active THEN Finish(k, "shuttingDown")
                                    ELSE UNCHANGED <<row, closedAt>>
            /\ UNCHANGED executing
    /\ UNCHANGED <<cseVars, markVars, phase, laneVars, woken, draining, lockVars,
                   sweepDue, sweepVars, historyVars, boundVars>>

\* The executor spins for the results of what is in flight ...
ShutdownSpin ==
    /\ phase = "closing"
    /\ batch = <<>>
    /\ executing = NoCIN
    /\ phase' = "spinning"
    /\ UNCHANGED <<cseVars, row, closedAt, markVars, laneVars, woken, drainVars,
                   lockVars, sweepDue, sweepVars, historyVars, boundVars>>

\* ... for five seconds at most; then the process ends.
Exit ==
    /\ phase = "spinning"
    /\ ~draining
    /\ LoseMemory
    /\ UNCHANGED boundVars

CSE == Tick \/ \E c \in CINs : Create(c)

Listener == \E c \in CINs : RefuseNotify(c) \/ ReceiveNotify(c)

Lock == Enqueue \/ Overflow

Worker ==
    \/ RequestCatchup \/ StartSweep \/ FinishPath \/ Cleanup
    \/ \E p \in Paths : ListPath(p) \/ ListFails(p)
    \/ \E c \in CINs : SweepAdmit(c) \/ SweepRaises(c)

Executor ==
    \/ Drain \/ Dispatch \/ Execute \/ EndDrain
    \/ \E k \in Keys : Callback(k)

Main ==
    \/ Boot \/ ActivateRoutes \/ InitMarkers \/ BootSweep
    \/ Stop \/ JoinWorker \/ ShutdownItem \/ ShutdownSpin \/ Exit
    \/ Crash

Next == CSE \/ Listener \/ Lock \/ Worker \/ Executor \/ Main

Spec == Init /\ [][Next]_vars
-----------------------------------------------------------------------------
(***************************************************************************)
(* Safety                                                                  *)
(***************************************************************************)

\* However often a request is notified, swept, queued twice, or interrupted
\* by a restart, it takes effect at most once while its row exists.
AtMostOnce == \A k \in Keys : runs[k] <= 1

\* Why it does: whoever executes holds the one dispatched row, which has not
\* run yet; an open row that is not dispatched has not run either; and no
\* execution survives into a new process, whose boot sweep would close it.
ExecutorOwnsRow ==
    /\ executing # NoCIN => /\ row[KeyOf[executing]] = "dispatched"
                           /\ runs[KeyOf[executing]] = 0
    /\ \A k \in Keys :
           row[k] \in {"none", "queued", "overflow"} => runs[k] = 0
    /\ executing # NoCIN => draining \/ phase = "closing"
    /\ draining => phase \in {"running", "spinning"}

\* The processed table keeps the promises of the request ledger.
LedgerState(state) ==
    CASE state = "none" -> "new"
      [] state \in {"queued", "overflow"} -> "pending"
      [] state = "dispatched" -> "started"
      [] OTHER -> "closed"

Ledger == INSTANCE RequestLedger WITH
              Requests <- Keys,
              st <- [k \in Keys |-> LedgerState(row[k])]

LedgerSpec == Ledger!Spec

\* Once the boot sweep is done, a queued row has somebody who will bring it
\* to the executor: a lane, the batch being drained, or the lock holder.
\* Otherwise the request is stuck: every later delivery is a duplicate.
Carried(k) ==
    \/ ~LockFree /\ KeyOf[admitting] = k
    \/ \E lane \in {control, normal, batch} :
           \E i \in DOMAIN lane : KeyOf[lane[i]] = k

QueuedHasCarrier ==
    phase \in {"running", "stopping", "closing", "spinning"} =>
        \A k \in Keys : row[k] = "queued" => Carried(k)

\* No lost wake-up: while events wait in a lane the executor has been woken
\* or is inside drain(), whose end looks again.
WaitingWakes ==
    phase = "running" /\ Waiting # <<>> => woken \/ draining

\* The marker never passes a request that is still to be admitted or has to
\* be admitted again, although NOTIFYs arrive late, doubled, out of order or
\* not at all, and ct counts seconds.  (A path without a marker is given one
\* that leaves its past alone.)
Passed(c) == ct[c] # 0 /\ ct[c] < marker[PathOf[c]]

MarkerCoversAdmitted ==
    [][ \A c \in CINs :
            marker[PathOf[c]] # Missing /\ ~Passed(c) /\ Passed(c)'
                => ~Admissible(KeyOf[c]) ]_vars

\* An overflowed request can still be re-accepted: some CIN that carries it
\* lies where the next sweep looks (state.py:343, "so that the catch-up
\* sweep can re-accept it").  Violated with the constants of
\* AdmissionCrash.cfg: the marker passed the request when it was queued, a
\* crash loses the lane, and the boot sweep reopens a row whose CIN no sweep
\* looks at any more.
OverflowRecoverable ==
    \A k \in Keys : row[k] = "overflow" =>
        \E c \in CINs : KeyOf[c] = k /\ ct[c] # 0 /\ ~Passed(c)

\* A request that took effect is not executed again after its row was
\* cleaned up: catchup.py:5 leaves duplicates to the admission.
NeverReplayed == \A k \in Keys : earlier[k] + runs[k] <= 1

\* cleanup keeps terminal rows for the retention: a request that took effect
\* takes effect again only when its row has been closed for all that time.
ReplaysAfterRetention ==
    [][\A k \in Keys : earlier[k] > 0 /\ runs'[k] > runs[k]
                      => closedAt[k] + Retention <= clock]_vars
-----------------------------------------------------------------------------
(***************************************************************************)
(* Liveness.  Every thread of the process keeps running; the CSE answers a *)
(* listing again and again; a NOTIFY may be lost, so nothing is assumed of *)
(* the listener.                                                           *)
(***************************************************************************)

Fairness ==
    /\ WF_vars(Boot \/ ActivateRoutes \/ InitMarkers \/ BootSweep)
    /\ WF_vars(Lock)
    /\ WF_vars(Drain \/ Dispatch \/ Execute \/ EndDrain)
    /\ WF_vars(RequestCatchup)
    /\ WF_vars(StartSweep)
    /\ WF_vars(FinishPath)
    /\ WF_vars(\E c \in CINs : SweepAdmit(c) \/ SweepRaises(c))
    /\ \A p \in Paths : SF_vars(ListPath(p))

FairSpec == Spec /\ Fairness

\* With periodic sweeps, a well-formed request reaches the executor even if
\* its NOTIFY was lost or found the lane full.
EveryRequestServed ==
    \A c \in CINs \ Malformed :
        ct[c] # 0 ~> row[KeyOf[c]] \in {"dispatched"} \union Terminal
=============================================================================

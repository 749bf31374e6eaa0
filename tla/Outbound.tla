------------------------------- MODULE Outbound -------------------------------
(***************************************************************************)
(* The way of an operation from the IPE to the CSE: OutboundQueue of       *)
(* runtime/queues.py, OutboundProcessor of runtime/outbound.py and the     *)
(* spool table of runtime/state.py.                                        *)
(*                                                                         *)
(* Several workers claim operations; an interface belongs to one worker at *)
(* a time.  Worker Drainer also replays the spool, in place: a row is      *)
(* deleted after its delivery.  A delivery is a request, an answer and     *)
(* what the answer leads to, with the steps of other threads in between.   *)
(*                                                                         *)
(* Operations are numbered in the order in which they are produced; the    *)
(* numbers above Produced are the ipeHealth events that report a rejected  *)
(* operation.  The byte limit of the spool is part of its row limit, and   *)
(* the rate limits decide before Put.                                      *)
(***************************************************************************)
EXTENDS Naturals, FiniteSets, Sequences, SequencesExt, FiniteSetsExt

CONSTANTS
    Produced,     \* the operations 1..Produced are put in this order
    ClassOf,      \* [Ops -> Classes]
    KeyOf,        \* [Ops -> Keys], the order key (robot, interface)
    Keys,
    OldRows,      \* the operations 1..OldRows are in the spool at first
    Unreadable,   \* old rows that decode_operation refuses
    Rejected,     \* operations that the CSE refuses for good
    Oversize,     \* operations refused before they are sent
    Expiring,     \* operations with expires_at
    ReportOf,     \* [Rejected \cup Oversize -> Ops]: the event about each
    Workers, Drainer,
    TerminalMax, LatestMax, BulkMax, SpoolMax, DrainBatch, Retries,
    MaxOutages, MaxLosses, MaxCrashes, MaxStops    \* bounds of the exploration

Classes  == {"TERMINAL", "LATEST", "BULK"}
Reports  == Range(ReportOf)
Ops      == 1..Produced \cup Reports
Terminal == {o \in Ops : ClassOf[o] = "TERMINAL"}
Nothing  == 0                    \* an idle worker holds this
Stream(o) == <<KeyOf[o], ClassOf[o]>>

ASSUME ConstantTypes ==
    /\ Produced \in Nat /\ OldRows \in 0..Produced
    /\ ClassOf \in [Ops -> Classes] /\ KeyOf \in [Ops -> Keys]
    /\ Unreadable \subseteq 1..OldRows
    /\ Rejected \cup Oversize \subseteq 1..Produced
    /\ ReportOf \in [Rejected \cup Oversize -> Nat \ 0..Produced]
    /\ Reports \cup 1..OldRows \subseteq Terminal
    /\ Expiring \subseteq Ops
    /\ Drainer \in Workers
    /\ {TerminalMax, LatestMax, BulkMax, SpoolMax, DrainBatch} \subseteq Nat \ {0}
    /\ {Retries, MaxOutages, MaxLosses, MaxCrashes, MaxStops} \subseteq Nat

VARIABLES
    phase,       \* "running", "flushing", "joining", "saving" or "down"
    produced,    \* the operations put so far
    terminal, latest, bulk,      \* the three lanes of the queue
    active,      \* _active_keys
    spool,       \* the rows of the spool, oldest first
    pending,     \* _spool_pending
    unmarked,    \* producers between spool_put and the setting of pending
    pc, held, fromSpool, tries,  \* [Workers -> ...], where a worker is
    rows,        \* the rows the drainer has listed and not yet looked at
    cse,         \* whether the CSE answers
    missing,     \* the interfaces whose resources the CSE does not have
    transportDown,    \* _cse_transport_down
    jobs,        \* provisioning jobs requested
    expired,     \* the operations past expires_at
    settled,     \* history: stored, refused, expired or unreadable
    lost,        \* history: TERMINAL operations that nobody holds any more
    direct,      \* history: what of each stream was last stored from the queue (no reports)
    outages, losses, crashes, stops

lanes   == <<terminal, latest, bulk>>
drain   == <<spool, pending, unmarked, rows>>
threads == <<pc, held, fromSpool, tries>>
remote  == <<cse, missing, transportDown, jobs>>
counted == <<outages, losses, crashes, stops>>
history == <<settled, lost, direct>>
vars == <<phase, produced, lanes, active, drain, threads, remote, expired,
          history, counted>>

Stopping == phase \in {"joining", "saving", "down"}     \* _stop.is_set()
Up       == phase # "down"
Queued   == ToSet(terminal) \cup ToSet(latest) \cup ToSet(bulk)

Init ==
    /\ phase = "running"
    /\ produced = 1..OldRows
    /\ terminal = <<>> /\ latest = <<>> /\ bulk = <<>>
    /\ active = {}
    /\ spool = [i \in 1..OldRows |-> i]
    /\ pending = (OldRows > 0) /\ unmarked = FALSE
    /\ pc = [w \in Workers |-> "top"]
    /\ held = [w \in Workers |-> Nothing]
    /\ fromSpool = [w \in Workers |-> FALSE]
    /\ tries = [w \in Workers |-> 0]
    /\ rows = <<>>
    /\ cse = TRUE /\ missing = {} /\ transportDown = FALSE /\ jobs = {}
    /\ expired = {} /\ settled = {} /\ lost = {}
    /\ direct = [s \in Keys \X Classes |-> Nothing]
    /\ outages = 0 /\ losses = 0 /\ crashes = 0 /\ stops = 0

-----------------------------------------------------------------------------
(* The queue and the spool                                                 *)

(* Newest first out of room: the oldest of a full lane makes place. *)
Dropping(lane, o, max) ==
    Append(IF Len(lane) >= max THEN Tail(lane) ELSE lane, o)

(* A newer value of an interface takes the place of the one that waits. *)
Coalesced(lane, o) ==
    LET same == {i \in DOMAIN lane : KeyOf[lane[i]] = KeyOf[o]}
    IN  IF same # {} THEN [i \in DOMAIN lane |-> IF i \in same THEN o ELSE lane[i]]
        ELSE Dropping(lane, o, LatestMax)

(* put, where a TERMINAL operation has room. *)
Enqueue(o) ==
    /\ ClassOf[o] = "TERMINAL" => Len(terminal) < TerminalMax
    /\ terminal' = IF ClassOf[o] = "TERMINAL" THEN Append(terminal, o) ELSE terminal
    /\ latest' = IF ClassOf[o] = "LATEST" THEN Coalesced(latest, o) ELSE latest
    /\ bulk' = IF ClassOf[o] = "BULK" THEN Dropping(bulk, o, BulkMax) ELSE bulk

(* Mutant: the reservations are not looked at.  *)
ClaimableAnyway(lane) == DOMAIN lane

Claimable(lane) == {i \in DOMAIN lane : KeyOf[lane[i]] \notin active}
First(lane) == Min(Claimable(lane))

(* Insert a row; the oldest rows over the limit go, whatever their class.  *)
Excess(o) == IF Len(spool) < SpoolMax THEN {} ELSE {Head(spool)}
SpoolPut(o) ==
    /\ spool' = Append(IF Excess(o) = {} THEN spool ELSE Tail(spool), o)
    /\ lost' = lost \cup (Excess(o) \ settled)

(* A producer puts its operation; a TERMINAL one that finds no room goes   *)
(* to the spool, and the drainer is told in a second step.                 *)
NextOp == Min(1..Produced \ produced)
Produce ==
    /\ phase \in {"running", "flushing"} /\ ~unmarked
    /\ 1..Produced \ produced # {}
    /\ produced' = produced \cup {NextOp}
    /\ \/ Enqueue(NextOp) /\ UNCHANGED <<drain, lost>>
       \/ /\ ClassOf[NextOp] = "TERMINAL" /\ Len(terminal) >= TerminalMax
          /\ SpoolPut(NextOp) /\ unmarked' = TRUE
          /\ UNCHANGED <<lanes, pending, rows>>
    /\ UNCHANGED <<phase, active, threads, remote, expired, settled, direct, counted>>

MarkSpooled ==
    /\ unmarked /\ unmarked' = FALSE /\ pending' = TRUE
    /\ UNCHANGED <<phase, produced, lanes, active, spool, rows, threads, remote,
                   expired, history, counted>>

-----------------------------------------------------------------------------
(* A worker                                                                *)

Goto(w, l) == pc' = [pc EXCEPT ![w] = l]

Hold(w, o, spooled) ==
    /\ held' = [held EXCEPT ![w] = o]
    /\ fromSpool' = [fromSpool EXCEPT ![w] = spooled]
    /\ tries' = [tries EXCEPT ![w] = 0]
    /\ active' = active \cup {KeyOf[o]}

Release(w) ==
    /\ active' = active \ {KeyOf[held[w]]}
    /\ held' = [held EXCEPT ![w] = Nothing]
    /\ UNCHANGED <<fromSpool, tries>>

(* The head of the loop: stop, replay the spool or claim. *)
Loop(w) ==
    /\ pc[w] = "top"
    /\ \/ Stopping /\ Goto(w, "exit") /\ UNCHANGED <<pending, rows>>
       \/ /\ ~Stopping /\ w = Drainer /\ pending
          /\ pending' = FALSE
          /\ Goto(w, "list") /\ UNCHANGED rows
       \/ ~Stopping /\ Goto(w, "claim") /\ UNCHANGED <<pending, rows>>
    /\ UNCHANGED <<phase, produced, lanes, active, spool, unmarked, held, fromSpool,
                   tries, remote, expired, history, counted>>

(* claim: the first operation of the first lane whose interface is free;   *)
(* nothing within half a second is another turn of the loop.               *)
TakeFrom(w, lane) ==
    Goto(w, "send") /\ Hold(w, lane[First(lane)], FALSE)

Claim(w) ==
    /\ pc[w] = "claim"
    /\ \/ /\ Claimable(terminal) # {}
          /\ TakeFrom(w, terminal)
          /\ terminal' = RemoveAt(terminal, First(terminal))
          /\ UNCHANGED <<latest, bulk>>
       \/ /\ Claimable(terminal) = {} /\ Claimable(latest) # {}
          /\ TakeFrom(w, latest)
          /\ latest' = RemoveAt(latest, First(latest))
          /\ UNCHANGED <<terminal, bulk>>
       \/ /\ Claimable(terminal) = {} /\ Claimable(latest) = {} /\ Claimable(bulk) # {}
          /\ TakeFrom(w, bulk)
          /\ bulk' = RemoveAt(bulk, First(bulk))
          /\ UNCHANGED <<terminal, latest>>
       \/ /\ Claimable(terminal) = {} /\ Claimable(latest) = {} /\ Claimable(bulk) = {}
          /\ Goto(w, "top")
          /\ UNCHANGED <<lanes, active, held, fromSpool, tries>>
    /\ UNCHANGED <<phase, produced, drain, remote, expired, history, counted>>

(* What a consumed operation leads to: a row is deleted before the release. *)
Consume(w) ==
    /\ settled' = settled \cup {held[w]}
    /\ IF fromSpool[w] THEN Goto(w, "delete") /\ UNCHANGED <<active, held, fromSpool, tries>>
       ELSE Goto(w, "top") /\ Release(w)

(* Mutant: the replay goes on after a row it could not deliver.  *)
RetainAndGoOn(w) ==
    /\ IF ~fromSpool[w] /\ held[w] \in Terminal
       THEN Goto(w, "spool") /\ UNCHANGED <<active, held, fromSpool, tries>>
       ELSE Goto(w, IF fromSpool[w] THEN "replay" ELSE "top") /\ Release(w)
    /\ UNCHANGED settled

(* A retained one: only a TERMINAL operation of the queue is spooled, and  *)
(* a row that cannot be delivered ends the replay.                         *)
Retain(w) ==
    /\ IF ~fromSpool[w] /\ held[w] \in Terminal
       THEN Goto(w, "spool") /\ UNCHANGED <<active, held, fromSpool, tries>>
       ELSE Goto(w, IF fromSpool[w] THEN "listed" ELSE "top") /\ Release(w)
    /\ UNCHANGED settled

(* The tests at the head of an attempt. *)
Send(w) ==
    /\ pc[w] = "send"
    /\ IF Stopping THEN Retain(w)
       ELSE IF held[w] \in expired THEN Consume(w)
       ELSE Goto(w, "sent") /\ UNCHANGED <<active, held, fromSpool, tries, settled>>
    /\ UNCHANGED <<phase, produced, lanes, drain, remote, expired, lost, direct, counted>>

(* Mutant: recovery is left to somebody else.  *)
RequestNothing(job) == UNCHANGED jobs

Request(job) == jobs' = jobs \cup {job}

(* _mark_cse_available: the first answer after an outage asks for recovery. *)
Available == transportDown' = FALSE /\ IF transportDown THEN Request("recover") ELSE UNCHANGED jobs

Refused(o) == o \in Oversize \/ (cse /\ o \in Rejected)
Stored(w) ==
    IF fromSpool[w] \/ held[w] \in Reports THEN direct
    ELSE [direct EXCEPT ![Stream(held[w])] = held[w]]

LastTry(w) == fromSpool[w] \/ tries[w] = Retries

Answer(w) ==
    /\ pc[w] = "sent"
    /\ \/ /\ cse /\ ~Refused(held[w]) /\ KeyOf[held[w]] \notin missing
          /\ direct' = Stored(w) /\ Consume(w) /\ Available
       \/ /\ Refused(held[w])
          /\ IF held[w] \in Oversize THEN UNCHANGED <<transportDown, jobs>> ELSE Available
          /\ Goto(w, "report")
          /\ UNCHANGED <<active, held, fromSpool, tries, settled, direct>>
       \/ /\ cse /\ ~Refused(held[w]) /\ KeyOf[held[w]] \in missing
          /\ IF transportDown THEN Available
             ELSE Request("reconcile") /\ UNCHANGED transportDown
          /\ Retain(w) /\ UNCHANGED direct
       \/ /\ ~cse /\ held[w] \notin Oversize
          /\ direct' \in {direct, Stored(w)}      \* the answer may be what is lost
          /\ IF LastTry(w)
             THEN transportDown' = TRUE /\ Retain(w)
             ELSE /\ tries' = [tries EXCEPT ![w] = @ + 1]
                  /\ Goto(w, "send")
                  /\ UNCHANGED <<transportDown, active, held, fromSpool, settled>>
          /\ UNCHANGED jobs
    /\ UNCHANGED <<phase, produced, lanes, drain, cse, missing, expired, lost, counted>>

(* _report_dropped_op: an event about the operation, unless it is an       *)
(* ipeHealth event itself, its category has no resource, or (not modelled) *)
(* it was reported before a crash.                                         *)
Report(w) ==
    LET event == ReportOf[held[w]] IN
    /\ pc[w] = "report" /\ Goto(w, "reported")
    /\ \/ UNCHANGED <<produced, lanes, spool, pending, lost>>
       \/ /\ event \notin produced /\ produced' = produced \cup {event}
          /\ \/ Enqueue(event) /\ UNCHANGED <<spool, pending, lost>>
             \/ /\ Len(terminal) >= TerminalMax
                /\ SpoolPut(event) /\ pending' = TRUE /\ UNCHANGED lanes
    /\ UNCHANGED <<phase, active, unmarked, rows, held, fromSpool, tries, remote, expired,
                   settled, direct, counted>>

Reported(w) ==
    /\ pc[w] = "reported" /\ Consume(w)
    /\ UNCHANGED <<phase, produced, lanes, drain, remote, expired, lost, direct, counted>>

(* _spool_op, in the order of the code: the row, then the wake-up.  *)
SpoolHeld(w) ==
    /\ pc[w] = "spool"
    /\ SpoolPut(held[w]) /\ Goto(w, "mark")
    /\ UNCHANGED <<phase, produced, lanes, active, pending, unmarked, rows, held,
                   fromSpool, tries, remote, expired, settled, direct, counted>>

WakeDrainer(w) ==
    /\ pc[w] = "mark"
    /\ pending' = TRUE
    /\ Goto(w, "top") /\ Release(w)
    /\ UNCHANGED <<phase, produced, lanes, spool, unmarked, rows, remote, expired,
                   history, counted>>

-----------------------------------------------------------------------------
(* The replay of the spool                                                 *)

List(w) ==
    /\ pc[w] = "list"
    /\ rows' = SubSeq(spool, 1, IF Len(spool) < DrainBatch THEN Len(spool) ELSE DrainBatch)
    /\ Goto(w, "replay")
    /\ UNCHANGED <<phase, produced, lanes, active, spool, pending, unmarked, held,
                   fromSpool, tries, remote, expired, history, counted>>

(* One row, by its id. *)
Deleted(o) == RemoveFirst(spool, o)

Replay(w) ==
    /\ pc[w] = "replay"
    /\ \/ /\ rows = <<>> \/ Stopping
          /\ Goto(w, "listed")
          /\ UNCHANGED <<active, spool, rows, held, fromSpool, tries, settled>>
       \/ /\ rows # <<>> /\ ~Stopping /\ Head(rows) \in Unreadable
          /\ spool' = Deleted(Head(rows))
          /\ settled' = settled \cup {Head(rows)}
          /\ rows' = Tail(rows)
          /\ UNCHANGED <<active, pc, held, fromSpool, tries>>
       \/ /\ rows # <<>> /\ ~Stopping /\ Head(rows) \notin Unreadable
          /\ KeyOf[Head(rows)] \in active
          /\ Goto(w, "listed")
          /\ UNCHANGED <<active, spool, rows, held, fromSpool, tries, settled>>
       \/ /\ rows # <<>> /\ ~Stopping /\ Head(rows) \notin Unreadable
          /\ KeyOf[Head(rows)] \notin active
          /\ Hold(w, Head(rows), TRUE)
          /\ rows' = Tail(rows)
          /\ Goto(w, "send")
          /\ UNCHANGED <<spool, settled>>
    /\ UNCHANGED <<phase, produced, lanes, pending, unmarked, remote, expired, lost,
                   direct, counted>>

Delete(w) ==
    /\ pc[w] = "delete"
    /\ spool' = Deleted(held[w])
    /\ Goto(w, "replay") /\ Release(w)
    /\ UNCHANGED <<phase, produced, lanes, pending, unmarked, rows, remote, expired,
                   history, counted>>

(* Mutant: no finally clause.  *)
EndReplaySilently(w) ==
    /\ pc[w] = "listed"
    /\ rows' = <<>>
    /\ Goto(w, "claim")
    /\ UNCHANGED <<phase, produced, lanes, active, spool, pending, unmarked, held,
                   fromSpool, tries, remote, expired, history, counted>>

(* The finally clause: rows that are left keep the drainer awake.  *)
EndReplay(w) ==
    /\ pc[w] = "listed"
    /\ pending' = (pending \/ spool # <<>>)
    /\ rows' = <<>>
    /\ Goto(w, "claim")
    /\ UNCHANGED <<phase, produced, lanes, active, spool, unmarked, held, fromSpool,
                   tries, remote, expired, history, counted>>

-----------------------------------------------------------------------------
(* Shutdown, crash and start                                               *)

Stop ==
    /\ phase = "running" /\ stops < MaxStops
    /\ phase' = "flushing" /\ stops' = stops + 1
    /\ UNCHANGED <<produced, lanes, active, drain, threads, remote, expired, history,
                   outages, losses, crashes>>

(* The queue is idle or five seconds have passed; no producer is left.  *)
RequestStop ==
    /\ phase = "flushing" /\ ~unmarked
    /\ phase' = "joining"
    /\ UNCHANGED <<produced, lanes, active, drain, threads, remote, expired, history,
                   counted>>

Join ==
    /\ phase = "joining" /\ \A w \in Workers : pc[w] = "exit"
    /\ phase' = "saving"
    /\ UNCHANGED <<produced, lanes, active, drain, threads, remote, expired, history,
                   counted>>

(* Mutant: what is queued at the end is dropped, whatever its class.  *)
PersistNothing ==
    /\ phase = "saving"
    /\ terminal' = <<>> /\ latest' = <<>> /\ bulk' = <<>> /\ phase' = "down"
    /\ UNCHANGED <<produced, active, drain, threads, remote, expired, history, counted>>

(* persist_pending: TERMINAL operations to the spool, the others go.  *)
Persist ==
    /\ phase = "saving"
    /\ IF terminal # <<>>
       THEN /\ SpoolPut(Head(terminal)) /\ pending' = TRUE
            /\ terminal' = Tail(terminal)
            /\ UNCHANGED <<phase, latest, bulk, stops>>
       ELSE /\ latest' = <<>> /\ bulk' = <<>> /\ phase' = "down"
            /\ UNCHANGED <<terminal, spool, pending, lost, stops>>
    /\ UNCHANGED <<produced, active, unmarked, rows, threads, remote, expired, settled,
                   direct, outages, losses, crashes>>

Volatile == ToSet(terminal) \cup ({held[w] : w \in Workers} \ {Nothing})
Gone == ((Volatile \cap Terminal) \ ToSet(spool)) \ settled

Crash ==
    /\ Up /\ crashes < MaxCrashes
    /\ phase' = "down" /\ crashes' = crashes + 1
    /\ lost' = lost \cup Gone
    /\ terminal' = <<>> /\ latest' = <<>> /\ bulk' = <<>>
    /\ UNCHANGED <<produced, active, drain, threads, remote, expired, settled, direct,
                   outages, losses, stops>>

Boot ==
    /\ phase = "down"
    /\ phase' = "running"
    /\ active' = {} /\ rows' = <<>> /\ unmarked' = FALSE
    /\ pending' = (spool # <<>>)
    /\ pc' = [w \in Workers |-> "top"]
    /\ held' = [w \in Workers |-> Nothing]
    /\ transportDown' = FALSE /\ jobs' = {}
    /\ UNCHANGED <<produced, lanes, spool, fromSpool, tries, cse, missing, expired,
                   history, counted>>

-----------------------------------------------------------------------------
(* The CSE, the provisioning worker and time                               *)

GoDown ==
    /\ cse /\ outages < MaxOutages
    /\ cse' = FALSE /\ outages' = outages + 1
    /\ UNCHANGED <<phase, produced, lanes, active, drain, threads, missing,
                   transportDown, jobs, expired, history, losses, crashes, stops>>

ComeBack ==
    /\ ~cse /\ cse' = TRUE
    /\ UNCHANGED <<phase, produced, lanes, active, drain, threads, missing,
                   transportDown, jobs, expired, history, counted>>

LoseResources(k) ==
    /\ losses < MaxLosses /\ losses' = losses + 1
    /\ missing' = missing \cup {k}
    /\ UNCHANGED <<phase, produced, lanes, active, drain, threads, cse, transportDown,
                   jobs, expired, history, outages, crashes, stops>>

(* A recover or a reconcile job provisions everything; it fails, and is    *)
(* forgotten, while the CSE does not answer.                               *)
Provision(job) ==
    /\ job \in jobs /\ phase = "running"
    /\ jobs' = jobs \ {job}
    /\ missing' = IF cse THEN {} ELSE missing
    /\ UNCHANGED <<phase, produced, lanes, active, drain, threads, cse, transportDown,
                   expired, history, counted>>

Expire(o) ==
    /\ o \in Expiring \ expired
    /\ expired' = expired \cup {o}
    /\ UNCHANGED <<phase, produced, lanes, active, drain, threads, remote, history,
                   counted>>

Work(w) ==
    /\ Up
    /\ \/ Loop(w) \/ Claim(w) \/ Send(w) \/ Answer(w) \/ Report(w) \/ Reported(w)
       \/ SpoolHeld(w) \/ WakeDrainer(w) \/ List(w) \/ Replay(w) \/ Delete(w) \/ EndReplay(w)

Next ==
    \/ Produce \/ MarkSpooled
    \/ \E w \in Workers : Work(w)
    \/ Stop \/ RequestStop \/ Join \/ Persist \/ Crash \/ Boot
    \/ GoDown \/ ComeBack
    \/ \E k \in Keys : LoseResources(k)
    \/ \E job \in {"recover", "reconcile"} : Provision(job)
    \/ \E o \in Ops : Expire(o)

Spec == Init /\ [][Next]_vars

(* Threads go on, an outage ends, and the service is started again.  *)
Fairness ==
    /\ WF_vars(Produce) /\ WF_vars(MarkSpooled)
    /\ \A w \in Workers : WF_vars(Work(w)) /\ SF_vars(Work(w) /\ pc'[w] = "list")
    /\ WF_vars(RequestStop) /\ WF_vars(Join) /\ WF_vars(Persist) /\ WF_vars(Boot)
    /\ WF_vars(ComeBack)
    /\ \A job \in {"recover", "reconcile"} : WF_vars(Provision(job))
FairSpec == Spec /\ Fairness

-----------------------------------------------------------------------------
(* Properties                                                              *)

Places == {"top", "claim", "send", "sent", "report", "reported", "spool", "mark", "list",
           "replay", "delete", "listed", "exit"}

(* Every variable has its type; only the drainer replays.  *)
TypeOK ==
    /\ phase \in {"running", "flushing", "joining", "saving", "down"}
    /\ produced \subseteq Ops
    /\ {terminal, latest, bulk, spool, rows} \subseteq Seq(Ops)
    /\ active \subseteq Keys /\ missing \subseteq Keys
    /\ {pending, unmarked, cse, transportDown} \subseteq BOOLEAN
    /\ pc \in [Workers -> Places]
    /\ held \in [Workers -> Ops \cup {Nothing}]
    /\ fromSpool \in [Workers -> BOOLEAN] /\ tries \in [Workers -> 0..Retries]
    /\ jobs \subseteq {"recover", "reconcile"}
    /\ {expired, settled, lost} \subseteq SUBSET Ops
    /\ direct \in [Keys \X Classes -> Ops \cup {Nothing}]
    /\ {outages, losses, crashes, stops} \subseteq Nat

(* claim and try_claim: no two workers deliver for one interface at a      *)
(* time, and an interface is reserved exactly while a worker delivers for  *)
(* it, so that none stays reserved for ever.                               *)
Holders == {w \in Workers : held[w] # Nothing}
InterfaceSerialized ==
    Up => /\ active = {KeyOf[held[w]] : w \in Holders}
          /\ \A v, w \in Holders : KeyOf[held[v]] = KeyOf[held[w]] => v = w

(* _spool_op and the finally clause of _drain_spool: while the process     *)
(* works on, rows in the spool are never left without somebody who will    *)
(* see them: the drainer is told, is looking, or is about to be told.      *)
SpoolWakes ==
    Up /\ spool # <<>> =>
        \/ pending \/ unmarked
        \/ pc[Drainer] \in {"list", "replay", "delete", "listed"}
        \/ held[Drainer] # Nothing /\ fromSpool[Drainer]
        \/ \E w \in Workers : pc[w] = "mark"

(* _drain_spool: rows are replayed in the order in which they were stored: *)
(* what the drainer delivers is older than every row of the spool.         *)
ReplayFromHead ==
    Up /\ held[Drainer] # Nothing /\ fromSpool[Drainer] /\ held[Drainer] \in ToSet(spool)
        => Head(spool) = held[Drainer]

(* claim, put and the coalescing of LATEST: what goes from the queue to    *)
(* the CSE never overwrites something newer of its interface and class,    *)
(* although several workers deliver, requests are repeated, and a newer    *)
(* value can arrive while an older one is on its way.                      *)
DirectInOrder == [][\A s \in DOMAIN direct : direct'[s] >= direct[s]]_vars

(* What became of an operation, for the abstract specification.  *)
Fate(o) ==
    IF o \in settled THEN "settled"
    ELSE IF o \in lost THEN "lost"
    ELSE IF o \in ToSet(spool) THEN "spooled"
    ELSE IF o \in Volatile THEN "memory"
    ELSE "new"

Promise == INSTANCE Delivery WITH Records <- Terminal, SpoolRows <- SpoolMax,
                                  fate <- [o \in Terminal |-> Fate(o)]

(* put, _send_with_retry, _drain_spool, persist_pending: an accepted       *)
(* TERMINAL operation is settled or kept; only a crash loses what is in    *)
(* memory and only a full spool gives up rows.                             *)
DeliverySpec == Promise!Spec

(* The drainer, the recovery requests and the restart: every TERMINAL      *)
(* operation is settled in the end, or lost as DeliverySpec allows.        *)
EverythingSettles ==
    \A o \in Terminal : (o \in produced) ~> (o \in settled \cup lost)
=============================================================================

--------------------------- MODULE RequestLedger ---------------------------
(***************************************************************************)
(* What the IPE promises about a request, whatever queues, sweeps, crashes *)
(* and restarts do underneath: a request is accepted, started at most once *)
(* per acceptance, run at most once after it was started, and closed; a    *)
(* closed request stays closed until the ledger forgets it (retention).    *)
(* The ledger is the processed table of runtime/state.py seen from outside.*)
(***************************************************************************)
EXTENDS Naturals

CONSTANT Requests

VARIABLES st,     \* the ledger's word on each request
          runs    \* how often the request took effect since it was accepted

ledgerVars == <<st, runs>>

States == {"new", "pending", "started", "closed"}

LedgerTypeOK ==
    /\ st \in [Requests -> States]
    /\ runs \in [Requests -> Nat]

Init ==
    /\ st = [r \in Requests |-> "new"]
    /\ runs = [r \in Requests |-> 0]

Accept(r) ==
    /\ st[r] = "new"
    /\ st' = [st EXCEPT ![r] = "pending"]
    /\ UNCHANGED runs

Start(r) ==
    /\ st[r] = "pending"
    /\ st' = [st EXCEPT ![r] = "started"]
    /\ UNCHANGED runs

\* The effect on the robot: only a started request has one, and only once.
\* A command is closed by the same step, a service or a goal later.
Run(r) ==
    /\ st[r] = "started"
    /\ runs[r] = 0
    /\ runs' = [runs EXCEPT ![r] = 1]
    /\ \E after \in {"started", "closed"} : st' = [st EXCEPT ![r] = after]

\* Outcomes are recorded, or given up: any set of open requests at once,
\* because a restart closes everything that was started.
Close(S) ==
    /\ \A r \in S : st[r] \in {"pending", "started"}
    /\ st' = [r \in Requests |-> IF r \in S THEN "closed" ELSE st[r]]
    /\ UNCHANGED runs

Forget(S) ==
    /\ \A r \in S : st[r] = "closed"
    /\ st' = [r \in Requests |-> IF r \in S THEN "new" ELSE st[r]]
    /\ runs' = [r \in Requests |-> IF r \in S THEN 0 ELSE runs[r]]

Next ==
    \/ \E r \in Requests : Accept(r) \/ Start(r) \/ Run(r)
    \/ \E S \in SUBSET Requests : Close(S) \/ Forget(S)

Spec == Init /\ [][Next]_ledgerVars
=============================================================================

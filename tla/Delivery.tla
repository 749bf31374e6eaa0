------------------------------- MODULE Delivery -------------------------------
(***************************************************************************)
(* What the outbound half of the IPE promises for a TERMINAL operation (an *)
(* event, a result, a QoS record), without queues, workers or retries:     *)
(* once accepted it is settled - stored by the CSE, refused by it, or past *)
(* its expiry - or it is kept.  Memory may be lost in a crash, the spool   *)
(* gives up rows only when it is full, and what is settled stays settled.  *)
(***************************************************************************)
EXTENDS Naturals, FiniteSets

CONSTANTS
    Records,      \* the TERMINAL operations
    SpoolRows     \* rows the spool can hold

VARIABLE fate     \* [Records -> Fates]

Fates == {"new", "memory", "spooled", "settled", "lost"}
In(f) == {r \in Records : fate[r] = f}

Init == fate \in [Records -> {"new", "spooled"}]

Change(S, f) == fate' = [r \in Records |-> IF r \in S THEN f ELSE fate[r]]

Accept == \E r \in In("new") : Change({r}, "memory")

(* A row is stored; with a full spool other rows make room for it. *)
Spool ==
    \E r \in In("new") \cup In("memory"), old \in SUBSET In("spooled") :
        /\ old # {} => Cardinality(In("spooled")) >= SpoolRows
        /\ fate' = [q \in Records |-> IF q = r THEN "spooled"
                                      ELSE IF q \in old THEN "lost" ELSE fate[q]]

(* A row can be given up while its delivery is on the way.  *)
Settle == \E r \in Records \ (In("new") \cup In("settled")) : Change({r}, "settled")

Crash == Change(In("memory"), "lost")

Next == Accept \/ Spool \/ Settle \/ Crash
Spec == Init /\ [][Next]_fate
=============================================================================

---------------------------- MODULE OutboundProofs ----------------------------
(***************************************************************************)
(* Proofs about Outbound for every value of its constants: the types, the  *)
(* interfaces that are served one at a time, the spool that is never left  *)
(* without somebody to replay it, and the order of direct deliveries.      *)
(***************************************************************************)
EXTENDS Outbound, WellFoundedInduction, SequenceTheorems, TLAPS

(* A set of numbers that is not empty has a least one. *)
LEMMA MinNat ==
    ASSUME NEW S, S \subseteq Nat, S # {}
    PROVE  Min(S) \in S /\ \A n \in S : Min(S) <= n
<1> DEFINE R == {ss \in Nat \X Nat : ss[1] < ss[2]}
<1>0. IsWellFoundedOn(R, Nat)
  BY NatLessThanWellFounded DEF OpToRel
<1> HIDE DEF R
<1>1. PICK m \in S : \A n \in S : ~ (<<n, m>> \in R)
  BY <1>0, WFMin
<1>2. ASSUME NEW n \in S PROVE m <= n
  <2>1. n < m => <<n, m>> \in R
    BY DEF R
  <2> QED BY <1>1, <2>1
<1> QED BY <1>2 DEF Min

(***************************************************************************)
(* The operators on sequences.                                             *)
(***************************************************************************)

LEMMA RemoveAtSeq ==
    ASSUME NEW S, NEW s \in Seq(S), NEW i \in 1..Len(s)
    PROVE  /\ RemoveAt(s, i) \in Seq(S)
           /\ Len(RemoveAt(s, i)) = Len(s) - 1
           /\ \A j \in 1..(Len(s) - 1) :
                  RemoveAt(s, i)[j] = IF j < i THEN s[j] ELSE s[j + 1]
<1> DEFINE a == SubSeq(s, 1, i - 1)
           b == SubSeq(s, i + 1, Len(s))
<1>1. a \in Seq(S) /\ Len(a) = i - 1 /\ \A j \in 1..(i - 1) : a[j] = s[j]
  OBVIOUS
<1>2. b \in Seq(S) /\ Len(b) = Len(s) - i /\ \A j \in 1..(Len(s) - i) : b[j] = s[i + j]
  OBVIOUS
<1>3. RemoveAt(s, i) = a \o b
  BY DEF RemoveAt
<1>n. Len(s) \in Nat /\ i \in Int /\ 1 <= i /\ i <= Len(s)
  OBVIOUS
<1> HIDE DEF a, b
<1>4. /\ a \o b \in Seq(S)
      /\ Len(a \o b) = Len(a) + Len(b)
      /\ \A j \in 1..(Len(a) + Len(b)) :
             (a \o b)[j] = IF j <= Len(a) THEN a[j] ELSE b[j - Len(a)]
  BY <1>1, <1>2, ConcatProperties
<1>5. ASSUME NEW j \in 1..(Len(s) - 1)
      PROVE  (a \o b)[j] = IF j < i THEN s[j] ELSE s[j + 1]
  <2>1. CASE j < i
    BY <1>n, <1>1, <1>2, <1>4, <2>1
  <2>2. CASE ~ (j < i)
    <3>1. (a \o b)[j] = b[j - (i - 1)]
      BY <1>n, <1>1, <1>2, <1>4, <2>2
    <3>2. b[j - (i - 1)] = s[i + (j - (i - 1))] /\ i + (j - (i - 1)) = j + 1
      BY <1>n, <1>2, <2>2
    <3> QED BY <2>2, <3>1, <3>2
  <2> QED BY <2>1, <2>2
<1> QED BY <1>n, <1>1, <1>2, <1>3, <1>4, <1>5

LEMMA RemoveFirstSeq ==
    ASSUME NEW S, NEW s \in Seq(S), NEW e
    PROVE  \/ e \notin ToSet(s) /\ RemoveFirst(s, e) = s
           \/ \E i \in 1..Len(s) : s[i] = e /\ RemoveFirst(s, e) = RemoveAt(s, i)
<1> DEFINE I == {i \in 1..Len(s) : s[i] = e}
<1>1. CASE I = {}
  <2>1. ~ \E i \in 1..Len(s) : s[i] = e
    BY <1>1
  <2>2. DOMAIN s = 1..Len(s)
    OBVIOUS
  <2> QED BY <2>1, <2>2 DEF ToSet, RemoveFirst
<1>2. CASE I # {}
  <2>0. I \subseteq Nat
    OBVIOUS
  <2>1. Min(I) \in I
    BY <1>2, <2>0, MinNat
  <2>2. SelectInSeq(s, LAMBDA v : v = e) = Min(I)
    BY <1>2 DEF SelectInSeq
  <2> QED BY <1>2, <2>1, <2>2 DEF RemoveFirst
<1> QED BY <1>1, <1>2

(* A function on 1..n is a sequence of length n. *)
LEMMA FunctionSeq ==
    ASSUME NEW S, NEW n \in Nat, NEW f \in [1..n -> S]
    PROVE  f \in Seq(S) /\ Len(f) = n
<1>1. f \in UNION {[1..k -> S] : k \in Nat}
  OBVIOUS
<1>2. Seq(S) = UNION {[1..k -> S] : k \in Nat}
  BY SeqDef, Zenon
<1>3. f \in Seq(S)
  BY <1>1, <1>2, Zenon
<1> QED BY <1>3

(* The first operation of a lane whose interface is free is one of them.  *)
LEMMA FirstClaimable ==
    ASSUME NEW S, NEW lane \in Seq(S), Claimable(lane) # {}
    PROVE  /\ First(lane) \in 1..Len(lane)
           /\ lane[First(lane)] \in S
           /\ KeyOf[lane[First(lane)]] \notin active
           /\ \A j \in 1..(First(lane) - 1) : KeyOf[lane[j]] \in active
<1>1. Claimable(lane) \subseteq 1..Len(lane)
  BY DEF Claimable
<1>2. First(lane) \in Claimable(lane) /\ \A j \in Claimable(lane) : First(lane) <= j
  BY <1>1, MinNat DEF First
<1> QED BY <1>1, <1>2 DEF Claimable

-----------------------------------------------------------------------------
(***************************************************************************)
(* Types.  A lane holds the operations of its class, the spool TERMINAL    *)
(* ones, and a worker holds an operation where its place in the loop says  *)
(* so.                                                                     *)
(***************************************************************************)

OfClass(class) == {o \in Ops : ClassOf[o] = class}

QueueTypes ==
    /\ produced \subseteq Ops
    /\ terminal \in Seq(Terminal)
    /\ latest \in Seq(OfClass("LATEST"))
    /\ bulk \in Seq(OfClass("BULK"))

SpoolTypes ==
    /\ spool \in Seq(Terminal) /\ rows \in Seq(Terminal)
    /\ pending \in BOOLEAN /\ unmarked \in BOOLEAN

Busy      == {"send", "sent", "report", "reported", "spool", "mark", "delete"}
Replaying == {"list", "replay", "delete", "listed"}

ThreadTypes ==
    /\ pc \in [Workers -> Places]
    /\ held \in [Workers -> Ops \cup {Nothing}]
    /\ fromSpool \in [Workers -> BOOLEAN] /\ tries \in [Workers -> 0..Retries]
    /\ active \subseteq Keys

(* What a worker's place says about the operation it holds. *)
PlaceType(w) ==
    /\ held[w] # Nothing <=> pc[w] \in Busy
    /\ pc[w] \in Replaying \/ (held[w] # Nothing /\ fromSpool[w]) => w = Drainer
    /\ pc[w] = "delete" => fromSpool[w]
    /\ pc[w] \in {"spool", "mark"} => ~fromSpool[w] /\ held[w] \in Terminal
    /\ pc[w] \in {"report", "reported"} => held[w] \in Rejected \cup Oversize
PlaceTypes == \A w \in Workers : PlaceType(w)

RestTypes ==
    /\ phase \in {"running", "flushing", "joining", "saving", "down"}
    /\ missing \subseteq Keys /\ cse \in BOOLEAN /\ transportDown \in BOOLEAN
    /\ jobs \subseteq {"recover", "reconcile"}
    /\ expired \subseteq Ops /\ settled \subseteq Ops /\ lost \subseteq Ops
    /\ direct \in [Keys \X Classes -> Ops \cup {Nothing}]
    /\ outages \in Nat /\ losses \in Nat /\ crashes \in Nat /\ stops \in Nat

TypeInv == QueueTypes /\ SpoolTypes /\ ThreadTypes /\ PlaceTypes /\ RestTypes

LEMMA OpsFacts ==
    /\ Nothing \notin Ops /\ Ops \subseteq Nat
    /\ 1..Produced \subseteq Ops
    /\ Terminal \subseteq Ops
    /\ \A o \in Ops : KeyOf[o] \in Keys /\ ClassOf[o] \in Classes
    /\ \A o \in Rejected \cup Oversize : o \in Ops /\ ReportOf[o] \in Reports
    /\ Reports \subseteq Ops /\ Reports \subseteq Terminal
    /\ \A o \in Reports : o > Produced
BY ConstantTypes DEF Ops, Reports, Range, Nothing, Terminal

LEMMA TypesInit == Init => TypeInv
<1> SUFFICES ASSUME Init PROVE TypeInv
  OBVIOUS
<1> USE ConstantTypes, OpsFacts DEF Init
<1>1. QueueTypes
  BY DEF QueueTypes
<1>2. SpoolTypes
  <2>1. OldRows \in Nat /\ \A i \in 1..OldRows : i \in Terminal
    OBVIOUS
  <2>2. spool \in [1..OldRows -> Terminal]
    BY <2>1
  <2>3. spool \in Seq(Terminal)
    BY <2>1, <2>2, FunctionSeq, Zenon
  <2>4. (OldRows > 0) = TRUE \/ (OldRows > 0) = FALSE
    BY <2>1
  <2>5. pending \in BOOLEAN
    BY <2>4, Zenon
  <2>6. <<>> \in Seq(Terminal)
    OBVIOUS
  <2> QED BY <2>3, <2>5, <2>6, Zenon DEF SpoolTypes
<1>3. ThreadTypes
  BY DEF ThreadTypes, Places
<1>4. PlaceTypes
  BY DEF PlaceTypes, PlaceType, Busy, Replaying
<1>5. RestTypes
  BY DEF RestTypes
<1> QED BY <1>1, <1>2, <1>3, <1>4, <1>5 DEF TypeInv

-----------------------------------------------------------------------------
(* The operators keep the types of a lane and of the spool. *)

LEMMA DroppingSeq ==
    ASSUME NEW S, NEW lane \in Seq(S), NEW o \in S, NEW max \in Nat \ {0}
    PROVE  Dropping(lane, o, max) \in Seq(S)
<1>1. CASE Len(lane) >= max
  <2>1. lane # <<>>
    BY <1>1
  <2>2. Tail(lane) \in Seq(S)
    BY <2>1
  <2>3. Append(Tail(lane), o) \in Seq(S)
    BY <2>2
  <2> QED BY <1>1, <2>3 DEF Dropping
<1>2. CASE ~ (Len(lane) >= max)
  <2>1. Append(lane, o) \in Seq(S)
    OBVIOUS
  <2> QED BY <1>2, <2>1 DEF Dropping
<1> QED BY <1>1, <1>2

LEMMA CoalescedSeq ==
    ASSUME NEW S, NEW lane \in Seq(S), NEW o \in S
    PROVE  Coalesced(lane, o) \in Seq(S)
<1> DEFINE same == {i \in DOMAIN lane : KeyOf[lane[i]] = KeyOf[o]}
           f == [i \in DOMAIN lane |-> IF i \in same THEN o ELSE lane[i]]
<1>1. CASE same # {}
  <2>1. DOMAIN lane = 1..Len(lane) /\ Len(lane) \in Nat
    OBVIOUS
  <2>2. f \in [1..Len(lane) -> S]
    BY <2>1
  <2> HIDE DEF f
  <2>3. f \in Seq(S)
    BY <2>1, <2>2, FunctionSeq
  <2> QED BY <1>1, <2>3 DEF Coalesced, f
<1>2. CASE same = {}
  <2>1. Dropping(lane, o, LatestMax) \in Seq(S)
    BY ConstantTypes, DroppingSeq
  <2> QED BY <1>2, <2>1 DEF Coalesced
<1> QED BY <1>1, <1>2

LEMMA EnqueueTypes ==
    ASSUME QueueTypes, NEW o \in Ops, Enqueue(o)
    PROVE  /\ terminal' \in Seq(Terminal)
           /\ latest' \in Seq(OfClass("LATEST"))
           /\ bulk' \in Seq(OfClass("BULK"))
<1> USE DEF QueueTypes
<1>1. terminal' \in Seq(Terminal)
  <2>1. CASE ClassOf[o] = "TERMINAL"
    <3>1. o \in Terminal /\ terminal' = Append(terminal, o)
      BY <2>1 DEF Enqueue, Terminal
    <3> QED BY <3>1
  <2> QED BY <2>1 DEF Enqueue
<1>2. latest' \in Seq(OfClass("LATEST"))
  <2>1. CASE ClassOf[o] = "LATEST"
    <3>1. o \in OfClass("LATEST") /\ latest' = Coalesced(latest, o)
      BY <2>1 DEF Enqueue, OfClass
    <3> QED BY <3>1, CoalescedSeq
  <2> QED BY <2>1 DEF Enqueue
<1>3. bulk' \in Seq(OfClass("BULK"))
  <2>1. CASE ClassOf[o] = "BULK"
    <3>1. o \in OfClass("BULK") /\ bulk' = Dropping(bulk, o, BulkMax)
      BY <2>1 DEF Enqueue, OfClass
    <3> QED BY <3>1, DroppingSeq, ConstantTypes
  <2> QED BY <2>1 DEF Enqueue
<1> QED BY <1>1, <1>2, <1>3

LEMMA SpoolPutTypes ==
    ASSUME SpoolTypes, lost \subseteq Ops, NEW o \in Terminal, SpoolPut(o)
    PROVE  spool' \in Seq(Terminal) /\ lost' \subseteq Ops
<1> USE DEF SpoolTypes
<1>1. CASE Len(spool) < SpoolMax
  <2>1. spool' = Append(spool, o) /\ lost' = lost
    BY <1>1 DEF SpoolPut, Excess
  <2> QED BY <2>1
<1>2. CASE ~ (Len(spool) < SpoolMax)
  <2>1. spool # <<>>
    BY <1>2, ConstantTypes
  <2>2. spool' = Append(Tail(spool), o) /\ lost' = lost \cup ({Head(spool)} \ settled)
    BY <1>2 DEF SpoolPut, Excess
  <2>3. Tail(spool) \in Seq(Terminal) /\ Head(spool) \in Terminal
    BY <2>1
  <2>4. spool' \in Seq(Terminal)
    BY <2>2, <2>3
  <2>5. Head(spool) \in Ops
    BY <2>3, OpsFacts
  <2>6. lost' \subseteq Ops
    BY <2>2, <2>5, Zenon
  <2> QED BY <2>4, <2>6
<1> QED BY <1>1, <1>2

LEMMA DeletedSeq ==
    ASSUME SpoolTypes, NEW o
    PROVE  Deleted(o) \in Seq(Terminal)
BY RemoveFirstSeq, RemoveAtSeq DEF Deleted, SpoolTypes

(* The operation a producer puts next. *)
LEMMA NextOpIn ==
    ASSUME 1..Produced \ produced # {}
    PROVE  /\ NextOp \in (1..Produced) \ produced
           /\ \A n \in (1..Produced) \ produced : NextOp <= n
<1>1. 1..Produced \ produced \subseteq Nat
  BY ConstantTypes
<1> QED BY <1>1, MinNat DEF NextOp

-----------------------------------------------------------------------------
(* Every step keeps the types, group by group. *)

LEMMA QueueStep ==
    ASSUME TypeInv, [Next]_vars
    PROVE  QueueTypes'
<1> USE DEF TypeInv
<1>1. CASE UNCHANGED <<produced, lanes>>
  BY <1>1 DEF QueueTypes, lanes
<1>2. CASE Produce
  <2>1. NextOp \in Ops /\ produced' \subseteq Ops
    BY <1>2, NextOpIn, OpsFacts DEF Produce, QueueTypes
  <2>2. CASE Enqueue(NextOp)
    BY <2>1, <2>2, EnqueueTypes DEF QueueTypes
  <2>3. CASE UNCHANGED lanes
    BY <2>1, <2>3 DEF QueueTypes, lanes
  <2> QED BY <1>2, <2>2, <2>3 DEF Produce
<1>3. ASSUME NEW w \in Workers, Claim(w) PROVE QueueTypes'
  <2> USE <1>3 DEF Claim, QueueTypes
  <2>0. /\ Claimable(terminal) # {} => First(terminal) \in 1..Len(terminal)
        /\ Claimable(latest) # {} => First(latest) \in 1..Len(latest)
        /\ Claimable(bulk) # {} => First(bulk) \in 1..Len(bulk)
    BY FirstClaimable
  <2>1. terminal' \in Seq(Terminal)
    BY <2>0, RemoveAtSeq DEF lanes
  <2>2. latest' \in Seq(OfClass("LATEST"))
    BY <2>0, RemoveAtSeq DEF lanes
  <2>3. bulk' \in Seq(OfClass("BULK"))
    BY <2>0, RemoveAtSeq DEF lanes
  <2> QED BY <2>1, <2>2, <2>3
<1>4. ASSUME NEW w \in Workers, Report(w) PROVE QueueTypes'
  <2> DEFINE event == ReportOf[held[w]]
  <2>1. event \in Ops
    BY <1>4, OpsFacts DEF Report, PlaceTypes, PlaceType
  <2>2. CASE UNCHANGED <<produced, lanes>>
    BY <2>2 DEF QueueTypes, lanes
  <2>3. CASE produced' = produced \cup {event} /\ Enqueue(event)
    BY <2>1, <2>3, EnqueueTypes DEF QueueTypes
  <2>4. CASE produced' = produced \cup {event} /\ UNCHANGED lanes
    BY <2>1, <2>4 DEF QueueTypes, lanes
  <2> QED BY <1>4, <2>2, <2>3, <2>4 DEF Report
<1>5. CASE Persist
  <2>1. <<>> \in Seq(OfClass("LATEST")) /\ <<>> \in Seq(OfClass("BULK"))
    OBVIOUS
  <2>2. terminal # <<>> => Tail(terminal) \in Seq(Terminal)
    BY DEF QueueTypes
  <2> QED BY <1>5, <2>1, <2>2 DEF Persist, QueueTypes
<1>6. CASE Crash
  BY <1>6 DEF Crash, QueueTypes
<1>7. ASSUME NEW w \in Workers, Work(w) PROVE QueueTypes'
  <2>1. CASE Claim(w)
    BY <2>1, <1>3
  <2>2. CASE Report(w)
    BY <2>2, <1>4
  <2>3. CASE ~ Claim(w) /\ ~ Report(w)
    <3>1. UNCHANGED <<produced, lanes>>
      BY <1>7, <2>3 DEF Work, Loop, Send, Answer, Reported, SpoolHeld, WakeDrainer, List,
                        Replay, Delete, EndReplay
    <3> QED BY <1>1, <3>1
  <2> QED BY <2>1, <2>2, <2>3
<1>8. CASE MarkSpooled \/ Stop \/ RequestStop \/ Join \/ Boot \/ GoDown \/ ComeBack
  BY <1>1, <1>8 DEF MarkSpooled, Stop, RequestStop, Join, Boot, GoDown, ComeBack
<1>9. CASE \/ \E k \in Keys : LoseResources(k)
           \/ \E job \in {"recover", "reconcile"} : Provision(job)
           \/ \E o \in Ops : Expire(o)
  BY <1>1, <1>9 DEF LoseResources, Provision, Expire
<1>10. CASE UNCHANGED vars
  BY <1>1, <1>10 DEF vars
<1> QED BY <1>2, <1>5, <1>6, <1>7, <1>8, <1>9, <1>10 DEF Next

LEMMA SpoolStep ==
    ASSUME TypeInv, [Next]_vars
    PROVE  SpoolTypes' /\ lost' \subseteq Ops
<1> USE DEF TypeInv, RestTypes
<1>1. CASE UNCHANGED <<drain, lost>>
  BY <1>1 DEF SpoolTypes, drain
<1>2. CASE Produce
  <2>1. CASE UNCHANGED <<drain, lost>>
    BY <1>1, <2>1
  <2>2. CASE /\ ClassOf[NextOp] = "TERMINAL"
             /\ SpoolPut(NextOp) /\ unmarked' = TRUE /\ UNCHANGED <<pending, rows>>
    <3>1. NextOp \in Terminal
      BY <1>2, <2>2, NextOpIn, OpsFacts DEF Produce, Terminal
    <3> QED BY <2>2, <3>1, SpoolPutTypes DEF SpoolTypes
  <2> QED BY <1>2, <2>1, <2>2 DEF Produce
<1>3. CASE MarkSpooled
  BY <1>3 DEF MarkSpooled, SpoolTypes, history
<1>4. ASSUME NEW w \in Workers, Report(w) PROVE SpoolTypes' /\ lost' \subseteq Ops
  <2> DEFINE event == ReportOf[held[w]]
  <2>1. event \in Terminal
    BY <1>4, OpsFacts DEF Report, PlaceTypes, PlaceType
  <2>2. UNCHANGED <<unmarked, rows>>
    BY <1>4 DEF Report
  <2>3. CASE UNCHANGED <<spool, pending, lost>>
    BY <2>2, <2>3 DEF SpoolTypes
  <2>4. CASE SpoolPut(event) /\ pending' = TRUE
    BY <2>1, <2>2, <2>4, SpoolPutTypes DEF SpoolTypes
  <2> QED BY <1>4, <2>3, <2>4 DEF Report
<1>5. ASSUME NEW w \in Workers, SpoolHeld(w) PROVE SpoolTypes' /\ lost' \subseteq Ops
  <2>1. held[w] \in Terminal
    BY <1>5 DEF SpoolHeld, PlaceTypes, PlaceType
  <2>2. SpoolPut(held[w]) /\ UNCHANGED <<pending, unmarked, rows>>
    BY <1>5 DEF SpoolHeld
  <2> QED BY <2>1, <2>2, SpoolPutTypes DEF SpoolTypes
<1>6. ASSUME NEW w \in Workers, Loop(w) \/ WakeDrainer(w) \/ EndReplay(w)
      PROVE SpoolTypes' /\ lost' \subseteq Ops
  <2>1. UNCHANGED <<spool, unmarked, lost>>
    BY <1>6 DEF Loop, WakeDrainer, EndReplay, history
  <2>2. rows' \in Seq(Terminal)
    <3>1. rows' = rows \/ rows' = <<>>
      BY <1>6 DEF Loop, WakeDrainer, EndReplay
    <3>2. <<>> \in Seq(Terminal)
      OBVIOUS
    <3> QED BY <3>1, <3>2, Zenon DEF SpoolTypes
  <2>3. CASE Loop(w) \/ WakeDrainer(w)
    BY <2>1, <2>2, <2>3 DEF Loop, WakeDrainer, SpoolTypes
  <2>4. CASE EndReplay(w)
    <3>1. pending' = (pending \/ spool # <<>>)
      BY <2>4 DEF EndReplay
    <3>2. pending' = TRUE \/ pending' = FALSE
      BY <3>1, Zenon
    <3>3. pending' \in BOOLEAN
      BY <3>2, Zenon
    <3> QED BY <2>1, <2>2, <3>3 DEF SpoolTypes
  <2> QED BY <1>6, <2>3, <2>4
<1>7. ASSUME NEW w \in Workers, List(w) PROVE SpoolTypes' /\ lost' \subseteq Ops
  <2> DEFINE n == IF Len(spool) < DrainBatch THEN Len(spool) ELSE DrainBatch
  <2>1. rows' = SubSeq(spool, 1, n) /\ UNCHANGED <<spool, pending, unmarked, lost>>
    BY <1>7 DEF List, history
  <2>2. spool \in Seq(Terminal) /\ n \in Int /\ n <= Len(spool)
    BY ConstantTypes DEF SpoolTypes
  <2> HIDE DEF n
  <2>3. SubSeq(spool, 1, n) \in Seq(Terminal)
    BY <2>2
  <2> QED BY <2>1, <2>3 DEF SpoolTypes
<1>8. ASSUME NEW w \in Workers, Replay(w) PROVE SpoolTypes' /\ lost' \subseteq Ops
  <2>1. UNCHANGED <<pending, unmarked, lost>>
    BY <1>8 DEF Replay
  <2>2. rows # <<>> => Tail(rows) \in Seq(Terminal)
    BY DEF SpoolTypes
  <2>3. Deleted(Head(rows)) \in Seq(Terminal)
    BY DeletedSeq
  <2> QED BY <1>8, <2>1, <2>2, <2>3 DEF Replay, SpoolTypes
<1>9. ASSUME NEW w \in Workers, Delete(w) PROVE SpoolTypes' /\ lost' \subseteq Ops
  BY <1>9, DeletedSeq DEF Delete, SpoolTypes, history
<1>10. CASE Persist
  <2>1. CASE terminal # <<>>
    <3>1. Head(terminal) \in Terminal
      BY <2>1 DEF QueueTypes
    <3> QED BY <1>10, <2>1, <3>1, SpoolPutTypes DEF Persist, SpoolTypes
  <2>2. CASE terminal = <<>>
    BY <1>10, <2>2 DEF Persist, SpoolTypes
  <2> QED BY <2>1, <2>2
<1>11. CASE Crash
  <2>1. \A o \in Gone : o \in Ops
    BY OpsFacts DEF Gone
  <2>2. lost' = lost \cup Gone /\ UNCHANGED drain
    BY <1>11 DEF Crash
  <2>3. lost' \subseteq Ops
    BY <2>1, <2>2, Zenon
  <2> QED BY <2>2, <2>3 DEF SpoolTypes, drain
<1>12. CASE Boot
  <2>1. pending' = (spool # <<>>) /\ rows' = <<>> /\ unmarked' = FALSE
        /\ UNCHANGED <<spool, lost>>
    BY <1>12 DEF Boot, history
  <2>2. pending' = TRUE \/ pending' = FALSE
    BY <2>1, Zenon
  <2>3. pending' \in BOOLEAN
    BY <2>2, Zenon
  <2>4. <<>> \in Seq(Terminal)
    OBVIOUS
  <2> QED BY <2>1, <2>3, <2>4, Zenon DEF SpoolTypes
<1>13. ASSUME NEW w \in Workers, Work(w) PROVE SpoolTypes' /\ lost' \subseteq Ops
  <2>1. CASE Claim(w) \/ Send(w) \/ Answer(w) \/ Reported(w)
    BY <1>1, <2>1 DEF Claim, Send, Answer, Reported, history
  <2> QED BY <1>4, <1>5, <1>6, <1>7, <1>8, <1>9, <1>13, <2>1 DEF Work
<1>14. CASE Stop \/ RequestStop \/ Join \/ GoDown \/ ComeBack
  BY <1>1, <1>14 DEF Stop, RequestStop, Join, GoDown, ComeBack, history
<1>15. CASE \/ \E k \in Keys : LoseResources(k)
            \/ \E job \in {"recover", "reconcile"} : Provision(job)
            \/ \E o \in Ops : Expire(o)
  BY <1>1, <1>15 DEF LoseResources, Provision, Expire, history
<1>16. CASE UNCHANGED vars
  BY <1>1, <1>16 DEF vars, history
<1> QED BY <1>2, <1>3, <1>10, <1>11, <1>12, <1>13, <1>14, <1>15, <1>16 DEF Next

(* What the helpers of a worker do to the variables of the workers.  *)
LEMMA HelperTypes ==
    ASSUME TypeInv, NEW w \in Workers
    PROVE  /\ \A l \in Places : Goto(w, l) => pc' \in [Workers -> Places]
           /\ \A o \in Ops, b \in BOOLEAN : Hold(w, o, b) =>
                  /\ held' \in [Workers -> Ops \cup {Nothing}]
                  /\ fromSpool' \in [Workers -> BOOLEAN]
                  /\ tries' \in [Workers -> 0..Retries]
                  /\ active' \subseteq Keys
           /\ Release(w) =>
                  /\ held' \in [Workers -> Ops \cup {Nothing}]
                  /\ fromSpool' \in [Workers -> BOOLEAN]
                  /\ tries' \in [Workers -> 0..Retries]
                  /\ active' \subseteq Keys
<1> USE DEF TypeInv, ThreadTypes
<1>1. ASSUME NEW l \in Places, Goto(w, l) PROVE pc' \in [Workers -> Places]
  BY <1>1 DEF Goto
<1>2. ASSUME NEW o \in Ops, NEW b \in BOOLEAN, Hold(w, o, b)
      PROVE  /\ held' \in [Workers -> Ops \cup {Nothing}]
             /\ fromSpool' \in [Workers -> BOOLEAN]
             /\ tries' \in [Workers -> 0..Retries]
             /\ active' \subseteq Keys
  <2>1. active' \subseteq Keys
    BY <1>2, OpsFacts DEF Hold
  <2>2. held' \in [Workers -> Ops \cup {Nothing}]
    BY <1>2 DEF Hold
  <2>3. fromSpool' \in [Workers -> BOOLEAN]
    BY <1>2 DEF Hold
  <2>4. tries' \in [Workers -> 0..Retries]
    BY <1>2, ConstantTypes DEF Hold
  <2> QED BY <2>1, <2>2, <2>3, <2>4
<1>3. ASSUME Release(w)
      PROVE  /\ held' \in [Workers -> Ops \cup {Nothing}]
             /\ fromSpool' \in [Workers -> BOOLEAN]
             /\ tries' \in [Workers -> 0..Retries]
             /\ active' \subseteq Keys
  BY <1>3 DEF Release
<1> QED BY <1>1, <1>2, <1>3

LEMMA ThreadStep ==
    ASSUME TypeInv, [Next]_vars
    PROVE  ThreadTypes'
<1> USE DEF TypeInv
<1>1. CASE UNCHANGED <<active, threads>>
  BY <1>1 DEF ThreadTypes, threads
<1>2. ASSUME NEW w \in Workers, Work(w) PROVE ThreadTypes'
  <2> DEFINE OwnTypes == /\ held' \in [Workers -> Ops \cup {Nothing}]
                         /\ fromSpool' \in [Workers -> BOOLEAN]
                         /\ tries' \in [Workers -> 0..Retries]
                         /\ active' \subseteq Keys
  <2>a. UNCHANGED <<active, held, fromSpool, tries>> => OwnTypes
    BY DEF ThreadTypes
  <2>b. Release(w) => OwnTypes
    BY HelperTypes
  <2>c. \A l \in Places : Goto(w, l) => pc' \in [Workers -> Places]
    BY HelperTypes
  <2>d. \A o \in Ops, b \in BOOLEAN : Hold(w, o, b) => OwnTypes
    BY HelperTypes
  <2>e. OwnTypes /\ pc' \in [Workers -> Places] => ThreadTypes'
    BY DEF ThreadTypes
  <2>f. Consume(w) => OwnTypes /\ pc' \in [Workers -> Places]
    BY <2>a, <2>b, <2>c DEF Consume, Places
  <2>g. Retain(w) => OwnTypes /\ pc' \in [Workers -> Places]
    BY <2>a, <2>b, <2>c DEF Retain, Places
  <2> HIDE DEF OwnTypes
  <2>1. CASE Loop(w)
    BY <2>1, <2>a, <2>c, <2>e DEF Loop, Places
  <2>2. CASE Claim(w)
    <3>0. \A lane \in {terminal, latest, bulk} : TakeFrom(w, lane) /\ Claimable(lane) # {} =>
             OwnTypes /\ pc' \in [Workers -> Places]
      <4>1. ASSUME NEW lane \in {terminal, latest, bulk}, TakeFrom(w, lane),
                   Claimable(lane) # {}
            PROVE  OwnTypes /\ pc' \in [Workers -> Places]
        <5>1. lane \in Seq(Ops)
          <6>1. Seq(Terminal) \subseteq Seq(Ops) /\ Seq(OfClass("LATEST")) \subseteq Seq(Ops)
                /\ Seq(OfClass("BULK")) \subseteq Seq(Ops)
            BY DEF OfClass, Terminal
          <6> QED BY <6>1 DEF QueueTypes
        <5>2. lane[First(lane)] \in Ops
          BY <4>1, <5>1, FirstClaimable
        <5> QED BY <4>1, <5>2, <2>c, <2>d DEF TakeFrom, Places
      <4> QED BY <4>1
    <3> QED BY <2>2, <2>a, <2>c, <2>e, <3>0 DEF Claim, Places
  <2>3. CASE Send(w)
    BY <2>3, <2>a, <2>c, <2>e, <2>f, <2>g DEF Send, Places
  <2>4. CASE Answer(w)
    <3>1. CASE Consume(w) \/ Retain(w)
      BY <3>1, <2>e, <2>f, <2>g
    <3>2. CASE Goto(w, "report") /\ UNCHANGED <<active, held, fromSpool, tries>>
      BY <3>2, <2>a, <2>c, <2>e DEF Places
    <3>3. CASE /\ ~LastTry(w) /\ tries' = [tries EXCEPT ![w] = @ + 1]
               /\ Goto(w, "send") /\ UNCHANGED <<active, held, fromSpool>>
      <4>1. tries[w] + 1 \in 0..Retries
        BY <3>3, ConstantTypes DEF LastTry, ThreadTypes
      <4>2. tries' \in [Workers -> 0..Retries]
        BY <3>3, <4>1 DEF ThreadTypes
      <4>3. OwnTypes
        BY <3>3, <4>2 DEF OwnTypes, ThreadTypes
      <4> QED BY <3>3, <4>3, <2>c, <2>e DEF Places
    <3> QED BY <2>4, <3>1, <3>2, <3>3 DEF Answer
  <2>5. CASE Report(w)
    BY <2>5, <2>a, <2>c, <2>e DEF Report, Places
  <2>6. CASE Reported(w)
    BY <2>6, <2>e, <2>f DEF Reported
  <2>7. CASE SpoolHeld(w)
    BY <2>7, <2>a, <2>c, <2>e DEF SpoolHeld, Places
  <2>8. CASE WakeDrainer(w)
    BY <2>8, <2>b, <2>c, <2>e DEF WakeDrainer, Places
  <2>9. CASE List(w)
    BY <2>9, <2>a, <2>c, <2>e DEF List, Places
  <2>10. CASE Replay(w)
    <3>1. rows # <<>> => Head(rows) \in Ops
      <4>1. rows # <<>> => Head(rows) \in Terminal
        BY DEF SpoolTypes
      <4> QED BY <4>1, OpsFacts
    <3>2. CASE Goto(w, "listed") /\ UNCHANGED <<active, held, fromSpool, tries>>
      BY <3>2, <2>a, <2>c, <2>e DEF Places
    <3>3. CASE UNCHANGED <<active, pc, held, fromSpool, tries>>
      BY <1>1, <3>3 DEF threads
    <3>4. CASE rows # <<>> /\ Hold(w, Head(rows), TRUE) /\ Goto(w, "send")
      BY <3>1, <3>4, <2>c, <2>d, <2>e DEF Places
    <3> QED BY <2>10, <3>2, <3>3, <3>4 DEF Replay
  <2>11. CASE Delete(w)
    BY <2>11, <2>b, <2>c, <2>e DEF Delete, Places
  <2>12. CASE EndReplay(w)
    BY <2>12, <2>a, <2>c, <2>e DEF EndReplay, Places
  <2> QED BY <1>2, <2>1, <2>2, <2>3, <2>4, <2>5, <2>6, <2>7, <2>8, <2>9, <2>10, <2>11, <2>12
          DEF Work
<1>3. CASE Boot
  BY <1>3 DEF Boot, ThreadTypes, Places
<1>4. CASE Produce \/ MarkSpooled \/ Stop \/ RequestStop \/ Join \/ Persist \/ Crash
           \/ GoDown \/ ComeBack
  BY <1>1, <1>4 DEF Produce, MarkSpooled, Stop, RequestStop, Join, Persist, Crash, GoDown,
                    ComeBack
<1>5. CASE \/ \E k \in Keys : LoseResources(k)
           \/ \E job \in {"recover", "reconcile"} : Provision(job)
           \/ \E o \in Ops : Expire(o)
  BY <1>1, <1>5 DEF LoseResources, Provision, Expire
<1>6. CASE UNCHANGED vars
  BY <1>1, <1>6 DEF vars
<1> QED BY <1>2, <1>3, <1>4, <1>5, <1>6 DEF Next

(* A step of a worker leaves the other workers alone. *)
LEMMA WorkFrame ==
    ASSUME TypeInv, NEW w \in Workers, Work(w), NEW v \in Workers, v # w
    PROVE  /\ pc'[v] = pc[v] /\ held'[v] = held[v]
           /\ fromSpool'[v] = fromSpool[v] /\ tries'[v] = tries[v]
<1> USE DEF TypeInv, ThreadTypes
<1>1. \A l : Goto(w, l) => pc'[v] = pc[v]
  BY DEF Goto
<1>2. \A o, b : Hold(w, o, b) =>
          held'[v] = held[v] /\ fromSpool'[v] = fromSpool[v] /\ tries'[v] = tries[v]
  BY DEF Hold
<1>3. Release(w) =>
          held'[v] = held[v] /\ fromSpool'[v] = fromSpool[v] /\ tries'[v] = tries[v]
  BY DEF Release
<1>4. CASE Loop(w) \/ Claim(w)
  BY <1>1, <1>2, <1>3, <1>4 DEF Loop, Claim, TakeFrom
<1>5. Consume(w) \/ Retain(w) => /\ pc'[v] = pc[v] /\ held'[v] = held[v]
                                 /\ fromSpool'[v] = fromSpool[v] /\ tries'[v] = tries[v]
  BY <1>1, <1>3 DEF Consume, Retain
<1>6. CASE Send(w) \/ Reported(w)
  BY <1>1, <1>5, <1>6 DEF Send, Reported
<1>7. CASE Answer(w)
  BY <1>1, <1>5, <1>7 DEF Answer
<1>8. CASE Report(w) \/ SpoolHeld(w) \/ WakeDrainer(w) \/ List(w) \/ Delete(w) \/ EndReplay(w)
  BY <1>1, <1>3, <1>8 DEF Report, SpoolHeld, WakeDrainer, List, Delete, EndReplay
<1>9. CASE Replay(w)
  BY <1>1, <1>2, <1>9 DEF Replay
<1> QED BY <1>4, <1>6, <1>7, <1>8, <1>9 DEF Work

(* What a worker does to its reservation: it moves on with what it has, it *)
(* takes an operation of a free interface, or it lets go of what it holds. *)
MovesOn(w) ==
    /\ UNCHANGED <<active, held, fromSpool>>
    /\ \/ held[w] = Nothing /\ pc'[w] \notin Busy
       \/ held[w] # Nothing /\ pc'[w] \in Busy
Takes(w) ==
    \E o \in Ops, b \in BOOLEAN :
        /\ held[w] = Nothing /\ KeyOf[o] \notin active
        /\ b => w = Drainer
        /\ Hold(w, o, b) /\ pc'[w] = "send"
LetsGo(w) == held[w] # Nothing /\ Release(w) /\ pc'[w] \notin Busy

LEMMA WorkSteps ==
    ASSUME TypeInv, NEW w \in Workers, Work(w)
    PROVE  MovesOn(w) \/ Takes(w) \/ LetsGo(w)
<1> USE DEF TypeInv
<1>0. PlaceType(w)
  BY DEF PlaceTypes
<1>1. \A l : Goto(w, l) => pc'[w] = l
  BY DEF Goto, ThreadTypes
<1>2. pc[w] \in Busy <=> held[w] # Nothing
  BY <1>0 DEF PlaceType
<1>3. CASE Loop(w) \/ Report(w) \/ SpoolHeld(w) \/ List(w) \/ EndReplay(w)
  BY <1>1, <1>2, <1>3 DEF Loop, Report, SpoolHeld, List, EndReplay, MovesOn, Busy
<1>4. CASE WakeDrainer(w) \/ Delete(w)
  BY <1>1, <1>2, <1>4 DEF WakeDrainer, Delete, LetsGo, Busy
<1>5. pc[w] \in Busy /\ (Consume(w) \/ Retain(w)) => MovesOn(w) \/ LetsGo(w)
  BY <1>1, <1>2 DEF Consume, Retain, MovesOn, LetsGo, Busy
<1>6. CASE Send(w) \/ Reported(w)
  BY <1>1, <1>2, <1>5, <1>6 DEF Send, Reported, MovesOn, Busy
<1>7. CASE Answer(w)
  BY <1>1, <1>2, <1>5, <1>7 DEF Answer, MovesOn, Busy
<1>8. CASE Claim(w)
  <2>1. ASSUME NEW lane \in {terminal, latest, bulk}, Claimable(lane) # {}, TakeFrom(w, lane),
               pc[w] = "claim"
        PROVE  Takes(w)
    <3>1. lane \in Seq(Ops)
      <4>1. Seq(Terminal) \subseteq Seq(Ops) /\ Seq(OfClass("LATEST")) \subseteq Seq(Ops)
            /\ Seq(OfClass("BULK")) \subseteq Seq(Ops)
        BY DEF OfClass, Terminal
      <4> QED BY <4>1 DEF QueueTypes
    <3>2. lane[First(lane)] \in Ops /\ KeyOf[lane[First(lane)]] \notin active
      BY <2>1, <3>1, FirstClaimable
    <3>3. held[w] = Nothing
      BY <1>2, <2>1 DEF Busy
    <3> QED BY <1>1, <2>1, <3>2, <3>3 DEF TakeFrom, Takes
  <2> QED BY <1>1, <1>2, <1>8, <2>1 DEF Claim, MovesOn, Busy
<1>9. CASE Replay(w)
  <2>1. rows # <<>> => Head(rows) \in Terminal
    BY DEF SpoolTypes
  <2>2. pc[w] = "replay" /\ held[w] = Nothing /\ w = Drainer
    BY <1>0, <1>9 DEF Replay, PlaceType, Busy, Replaying
  <2> QED BY <1>1, <1>9, <2>1, <2>2, OpsFacts DEF Replay, MovesOn, Takes, Busy
<1> QED BY <1>3, <1>4, <1>6, <1>7, <1>8, <1>9 DEF Work

LEMMA PlaceStep ==
    ASSUME TypeInv, [Next]_vars
    PROVE  PlaceTypes'
<1> USE DEF TypeInv
<1>1. CASE UNCHANGED threads
  BY <1>1 DEF PlaceTypes, PlaceType, threads
<1>2. ASSUME NEW w \in Workers, Work(w) PROVE PlaceTypes'
  <2>1. ASSUME NEW v \in Workers, v # w PROVE PlaceType(v)'
    <3>1. /\ pc'[v] = pc[v] /\ held'[v] = held[v]
          /\ fromSpool'[v] = fromSpool[v]
      BY <1>2, <2>1, WorkFrame
    <3>2. PlaceType(v)
      BY DEF PlaceTypes
    <3> QED BY <3>1, <3>2 DEF PlaceType
  <2>2. PlaceType(w)'
    <3>0. PlaceType(w)
      BY DEF PlaceTypes
    <3>1. \A l : Goto(w, l) => pc'[w] = l
      BY DEF Goto, ThreadTypes
    <3>2. Release(w) => held'[w] = Nothing /\ fromSpool'[w] = fromSpool[w]
      BY DEF Release, ThreadTypes
    <3>3. \A o, b : Hold(w, o, b) => held'[w] = o /\ fromSpool'[w] = b
      BY DEF Hold, ThreadTypes
    <3>4. held'[w] # Nothing <=> pc'[w] \in Busy
      <4>1. CASE MovesOn(w)
        BY <4>1 DEF MovesOn
      <4>2. CASE Takes(w)
        BY <3>3, <4>2, OpsFacts DEF Takes, Busy
      <4>3. CASE LetsGo(w)
        BY <3>2, <4>3 DEF LetsGo
      <4> QED BY <1>2, <4>1, <4>2, <4>3, WorkSteps
    <3>5. held'[w] # Nothing /\ fromSpool'[w] => w = Drainer
      <4>1. CASE MovesOn(w)
        BY <3>0, <4>1 DEF MovesOn, PlaceType
      <4>2. CASE Takes(w)
        BY <3>3, <4>2 DEF Takes
      <4>3. CASE LetsGo(w)
        BY <3>2, <4>3 DEF LetsGo
      <4> QED BY <1>2, <4>1, <4>2, <4>3, WorkSteps
    <3>6. /\ pc'[w] \in Replaying => w = Drainer
          /\ pc'[w] = "delete" => fromSpool'[w]
          /\ pc'[w] \in {"spool", "mark"} => ~fromSpool'[w] /\ held'[w] \in Terminal
          /\ pc'[w] \in {"report", "reported"} => held'[w] \in Rejected \cup Oversize
      <4> DEFINE Done == /\ pc'[w] \in Replaying => w = Drainer
                         /\ pc'[w] = "delete" => fromSpool'[w]
                         /\ pc'[w] \in {"spool", "mark"} => ~fromSpool'[w] /\ held'[w] \in Terminal
                         /\ pc'[w] \in {"report", "reported"} =>
                                held'[w] \in Rejected \cup Oversize
      <4>1. CASE Loop(w) \/ Report(w) \/ SpoolHeld(w) \/ List(w) \/ EndReplay(w)
        BY <3>0, <3>1, <4>1 DEF Loop, Report, SpoolHeld, List, EndReplay, PlaceType, Replaying
      <4>2. CASE WakeDrainer(w) \/ Delete(w)
        BY <3>0, <3>1, <4>2 DEF WakeDrainer, Delete, PlaceType, Replaying, Busy
      <4>3. held[w] # Nothing /\ Consume(w) => Done
        BY <3>0, <3>1 DEF Consume, PlaceType, Replaying
      <4>4. held[w] # Nothing /\ Retain(w) => Done
        BY <3>0, <3>1 DEF Retain, PlaceType, Replaying
      <4>5. CASE Send(w) \/ Reported(w)
        BY <3>0, <3>1, <4>3, <4>4, <4>5 DEF Send, Reported, PlaceType, Replaying, Busy
      <4>6. CASE Answer(w)
        BY <3>0, <3>1, <4>3, <4>4, <4>6 DEF Answer, Refused, PlaceType, Replaying, Busy
      <4>7. CASE Claim(w)
        BY <3>1, <4>7 DEF Claim, TakeFrom, Replaying
      <4>8. CASE Replay(w)
        BY <3>0, <3>1, <4>8 DEF Replay, PlaceType, Replaying
      <4> QED BY <1>2, <4>1, <4>2, <4>5, <4>6, <4>7, <4>8 DEF Work
    <3> QED BY <3>4, <3>5, <3>6 DEF PlaceType
  <2> QED BY <2>1, <2>2 DEF PlaceTypes
<1>3. CASE Boot
  BY <1>3, OpsFacts DEF Boot, PlaceTypes, PlaceType, Busy, Replaying
<1>4. CASE Produce \/ MarkSpooled \/ Stop \/ RequestStop \/ Join \/ Persist \/ Crash
           \/ GoDown \/ ComeBack
  BY <1>1, <1>4 DEF Produce, MarkSpooled, Stop, RequestStop, Join, Persist, Crash, GoDown,
                    ComeBack
<1>5. CASE \/ \E k \in Keys : LoseResources(k)
           \/ \E job \in {"recover", "reconcile"} : Provision(job)
           \/ \E o \in Ops : Expire(o)
  BY <1>1, <1>5 DEF LoseResources, Provision, Expire
<1>6. CASE UNCHANGED vars
  BY <1>1, <1>6 DEF vars
<1> QED BY <1>2, <1>3, <1>4, <1>5, <1>6 DEF Next

LEMMA RestStep ==
    ASSUME TypeInv, [Next]_vars, lost' \subseteq Ops
    PROVE  RestTypes'
<1> USE DEF TypeInv
<1>1. ASSUME NEW w \in Workers, Work(w)
      PROVE  /\ UNCHANGED <<phase, cse, missing, expired, counted>>
             /\ transportDown' \in BOOLEAN /\ jobs' \subseteq {"recover", "reconcile"}
             /\ settled' \subseteq Ops
             /\ direct' \in [Keys \X Classes -> Ops \cup {Nothing}]
  <2> DEFINE Done == /\ UNCHANGED <<phase, cse, missing, expired, counted>>
                     /\ transportDown' \in BOOLEAN /\ jobs' \subseteq {"recover", "reconcile"}
                     /\ settled' \subseteq Ops
                     /\ direct' \in [Keys \X Classes -> Ops \cup {Nothing}]
  <2>1. UNCHANGED <<phase, remote, expired, settled, direct, counted>> => Done
    BY DEF RestTypes, remote, counted
  <2>2. CASE \/ Loop(w) \/ Claim(w) \/ Report(w) \/ SpoolHeld(w) \/ WakeDrainer(w)
             \/ List(w) \/ Delete(w) \/ EndReplay(w)
    BY <2>1, <2>2 DEF Loop, Claim, Report, SpoolHeld, WakeDrainer, List, Delete, EndReplay,
                      history
  <2>3. held[w] \in Ops \cup {Nothing} /\ (pc[w] \in Busy => held[w] \in Ops)
    BY DEF ThreadTypes, PlaceTypes, PlaceType
  <2>4. pc[w] \in Busy /\ (Consume(w) \/ Retain(w)) => settled' \subseteq Ops
    <3>1. CASE pc[w] \in Busy /\ Consume(w)
      <4>1. settled' = settled \cup {held[w]} /\ held[w] \in Ops
        BY <2>3, <3>1 DEF Consume
      <4> QED BY <4>1, Zenon DEF RestTypes
    <3>2. CASE Retain(w)
      BY <3>2 DEF Retain, RestTypes
    <3> QED BY <3>1, <3>2
  <2>5. CASE Send(w) \/ Reported(w)
    <3>1. UNCHANGED <<phase, remote, expired, direct, counted>>
      BY <2>5 DEF Send, Reported
    <3>2. settled' \subseteq Ops
      BY <2>4, <2>5 DEF Send, Reported, Busy, RestTypes
    <3> QED BY <3>1, <3>2 DEF RestTypes, remote, counted
  <2>6. CASE Answer(w)
    <3>1. UNCHANGED <<phase, cse, missing, expired, counted>>
      BY <2>6 DEF Answer
    <3>2. settled' \subseteq Ops
      BY <2>4, <2>6 DEF Answer, Busy, RestTypes
    <3>3. direct' = direct \/ direct' = Stored(w)
      BY <2>6 DEF Answer
    <3>4. held[w] \in Ops
      BY <2>3, <2>6 DEF Answer, Busy
    <3>5. Stream(held[w]) \in Keys \X Classes
      BY <3>4, OpsFacts DEF Stream
    <3>6. Stored(w) \in [Keys \X Classes -> Ops \cup {Nothing}]
      <4>1. [direct EXCEPT ![Stream(held[w])] = held[w]] \in
               [Keys \X Classes -> Ops \cup {Nothing}]
        BY <3>4, <3>5 DEF RestTypes
      <4> QED BY <4>1 DEF Stored, RestTypes
    <3>7. transportDown' \in BOOLEAN /\ jobs' \subseteq {"recover", "reconcile"}
      BY <2>6 DEF Answer, Available, Request, RestTypes
    <3>8. direct' \in [Keys \X Classes -> Ops \cup {Nothing}]
      BY <3>3, <3>6 DEF RestTypes
    <3> QED BY <3>1, <3>2, <3>7, <3>8
  <2>7. CASE Replay(w)
    <3>1. rows # <<>> => Head(rows) \in Ops
      <4>1. rows # <<>> => Head(rows) \in Terminal
        BY DEF SpoolTypes
      <4> QED BY <4>1, OpsFacts
    <3>2. settled' = settled \/ (rows # <<>> /\ settled' = settled \cup {Head(rows)})
      BY <2>7 DEF Replay
    <3>3. settled' \subseteq Ops
      BY <3>1, <3>2, Zenon DEF RestTypes
    <3>4. UNCHANGED <<phase, remote, expired, direct, counted>>
      BY <2>7 DEF Replay
    <3> QED BY <3>3, <3>4 DEF RestTypes, remote, counted
  <2> QED BY <1>1, <2>2, <2>5, <2>6, <2>7 DEF Work
<1>2. ASSUME NEW w \in Workers, Work(w) PROVE RestTypes'
  BY <1>1, <1>2 DEF RestTypes, counted
<1>3. CASE Produce \/ MarkSpooled \/ Boot
  BY <1>3 DEF Produce, MarkSpooled, Boot, RestTypes, remote, counted, history
<1>4. CASE Stop \/ RequestStop \/ Join \/ Persist
  <2>1. CASE Stop
    BY <2>1 DEF Stop, RestTypes, remote, counted, history
  <2>2. CASE RequestStop \/ Join
    BY <2>2 DEF RequestStop, Join, RestTypes, remote, counted, history
  <2>3. CASE Persist
    BY <2>3 DEF Persist, RestTypes, remote
  <2> QED BY <1>4, <2>1, <2>2, <2>3
<1>5. CASE Crash \/ GoDown \/ ComeBack
  <2>1. CASE Crash
    BY <2>1 DEF Crash, RestTypes, remote
  <2>2. CASE GoDown
    <3>1. /\ cse' = FALSE /\ outages' = outages + 1
          /\ UNCHANGED <<phase, missing, transportDown, jobs, expired, settled, lost, direct,
                         losses, crashes, stops>>
      BY <2>2 DEF GoDown, history
    <3>2. cse' \in BOOLEAN
      BY <3>1, Zenon
    <3>3. outages' \in Nat
      <4>1. outages \in Nat
        BY DEF RestTypes
      <4> QED BY <3>1, <4>1
    <3> QED BY <3>1, <3>2, <3>3, Zenon DEF RestTypes
  <2>3. CASE ComeBack
    BY <2>3 DEF ComeBack, RestTypes, counted, history
  <2> QED BY <1>5, <2>1, <2>2, <2>3
<1>6. ASSUME NEW k \in Keys, LoseResources(k) PROVE RestTypes'
  BY <1>6 DEF LoseResources, RestTypes, history
<1>7. ASSUME NEW job \in {"recover", "reconcile"}, Provision(job) PROVE RestTypes'
  BY <1>7 DEF Provision, RestTypes, history, counted
<1>8. ASSUME NEW o \in Ops, Expire(o) PROVE RestTypes'
  BY <1>8 DEF Expire, RestTypes, history, counted, remote
<1>9. CASE UNCHANGED vars
  BY <1>9 DEF vars, RestTypes, history, counted, remote
<1> QED BY <1>2, <1>3, <1>4, <1>5, <1>6, <1>7, <1>8, <1>9 DEF Next

(* A step of the system keeps the types. *)
LEMMA TypesStep ==
    ASSUME TypeInv, [Next]_vars
    PROVE  TypeInv'
BY QueueStep, SpoolStep, ThreadStep, PlaceStep, RestStep DEF TypeInv

(* Every variable has its type, and only the drainer replays the spool.  *)
THEOREM OutboundTypes == Spec => []TypeOK
<1>1. TypeInv => TypeOK
  <2> SUFFICES ASSUME TypeInv PROVE TypeOK
    OBVIOUS
  <2> USE DEF TypeInv
  <2>1. {terminal, latest, bulk, spool, rows} \subseteq Seq(Ops)
    <3>1. Seq(Terminal) \subseteq Seq(Ops) /\ Seq(OfClass("LATEST")) \subseteq Seq(Ops)
          /\ Seq(OfClass("BULK")) \subseteq Seq(Ops)
      BY DEF OfClass, Terminal
    <3> QED BY <3>1 DEF QueueTypes, SpoolTypes
  <2>2. pending \in BOOLEAN /\ unmarked \in BOOLEAN /\ cse \in BOOLEAN /\ transportDown \in BOOLEAN
    BY DEF SpoolTypes, RestTypes
  <2>3. {pending, unmarked, cse, transportDown} \subseteq BOOLEAN
    BY <2>2, Zenon
  <2>4. {expired, settled, lost} \subseteq SUBSET Ops
    BY DEF RestTypes
  <2> QED BY <2>1, <2>3, <2>4 DEF TypeOK, QueueTypes, ThreadTypes, RestTypes
<1> QED BY <1>1, TypesInit, TypesStep, PTL DEF Spec

-----------------------------------------------------------------------------
(***************************************************************************)
(* An interface belongs to one worker at a time.                           *)
(***************************************************************************)

SerialInv ==
    /\ active = {KeyOf[held[w]] : w \in Holders}
    /\ \A v, w \in Holders : KeyOf[held[v]] = KeyOf[held[w]] => v = w

LEMMA SerialStep ==
    ASSUME TypeInv, SerialInv, [Next]_vars
    PROVE  SerialInv'
<1> USE DEF TypeInv
<1>1. CASE UNCHANGED <<active, held>>
  BY <1>1 DEF SerialInv, Holders
<1>2. ASSUME NEW w \in Workers, Work(w) PROVE SerialInv'
  <2>1. \A v \in Workers : v # w => held'[v] = held[v]
    BY <1>2, WorkFrame
  <2>2. CASE MovesOn(w)
    BY <1>1, <2>2 DEF MovesOn
  <2>3. CASE Takes(w)
    <3>1. PICK o \in Ops, b \in BOOLEAN :
             held[w] = Nothing /\ KeyOf[o] \notin active /\ Hold(w, o, b)
      BY <2>3 DEF Takes
    <3>2. held'[w] = o /\ active' = active \cup {KeyOf[o]} /\ o # Nothing
      BY <3>1, OpsFacts DEF Hold, ThreadTypes
    <3>3. Holders' = Holders \cup {w} /\ w \notin Holders
      BY <2>1, <3>1, <3>2 DEF Holders
    <3>4. \A v \in Holders : held'[v] = held[v] /\ KeyOf[held[v]] \in active
      BY <2>1, <3>3 DEF Holders, SerialInv
    <3>5. active' = {KeyOf[held'[v]] : v \in Holders'}
      BY <3>2, <3>3, <3>4 DEF SerialInv
    <3>6. \A v, u \in Holders' : KeyOf[held'[v]] = KeyOf[held'[u]] => v = u
      BY <3>1, <3>2, <3>3, <3>4 DEF SerialInv
    <3> QED BY <3>5, <3>6 DEF SerialInv
  <2>4. CASE LetsGo(w)
    <3>1. held'[w] = Nothing /\ active' = active \ {KeyOf[held[w]]} /\ w \in Holders
      BY <2>4 DEF LetsGo, Release, ThreadTypes, Holders
    <3>2. Holders' = Holders \ {w}
      BY <2>1, <3>1 DEF Holders
    <3>3. \A v \in Holders' : held'[v] = held[v] /\ KeyOf[held[v]] # KeyOf[held[w]]
      BY <2>1, <3>1, <3>2 DEF Holders, SerialInv
    <3>4. active' = {KeyOf[held'[v]] : v \in Holders'}
      BY <3>1, <3>2, <3>3 DEF SerialInv
    <3>5. \A v, u \in Holders' : KeyOf[held'[v]] = KeyOf[held'[u]] => v = u
      BY <3>2, <3>3 DEF SerialInv
    <3> QED BY <3>4, <3>5 DEF SerialInv
  <2> QED BY <1>2, <2>2, <2>3, <2>4, WorkSteps
<1>3. CASE Boot
  BY <1>3 DEF Boot, SerialInv, Holders
<1>4. CASE Produce \/ MarkSpooled \/ Stop \/ RequestStop \/ Join \/ Persist \/ Crash
           \/ GoDown \/ ComeBack
  BY <1>1, <1>4 DEF Produce, MarkSpooled, Stop, RequestStop, Join, Persist, Crash, GoDown,
                    ComeBack, threads
<1>5. CASE \/ \E k \in Keys : LoseResources(k)
           \/ \E job \in {"recover", "reconcile"} : Provision(job)
           \/ \E o \in Ops : Expire(o)
  BY <1>1, <1>5 DEF LoseResources, Provision, Expire, threads
<1>6. CASE UNCHANGED vars
  BY <1>1, <1>6 DEF vars, threads
<1> QED BY <1>2, <1>3, <1>4, <1>5, <1>6 DEF Next

(* No two workers deliver for one interface at a time, and an interface is *)
(* reserved exactly while a worker delivers for it (claim, try_claim,      *)
(* release).                                                               *)
THEOREM OutboundSerialized == Spec => []InterfaceSerialized
<1>1. Init => SerialInv
  BY DEF Init, SerialInv, Holders
<1>2. TypeInv /\ SerialInv /\ [Next]_vars => SerialInv'
  BY SerialStep
<1>3. SerialInv => InterfaceSerialized
  BY DEF SerialInv, InterfaceSerialized
<1> QED BY <1>1, <1>2, <1>3, TypesInit, TypesStep, PTL DEF Spec

-----------------------------------------------------------------------------
(***************************************************************************)
(* The drainer is told of every row.  SpoolWakes is inductive, given the   *)
(* types: what ends a replay leaves through "listed", and a row is stored  *)
(* by someone who wakes the drainer afterwards.                            *)
(***************************************************************************)

Awake ==
    \/ pending \/ unmarked
    \/ pc[Drainer] \in Replaying
    \/ held[Drainer] # Nothing /\ fromSpool[Drainer]
    \/ \E w \in Workers : pc[w] = "mark"

LEMMA WakesDef == SpoolWakes <=> (Up /\ spool # <<>> => Awake)
BY DEF SpoolWakes, Awake, Replaying

(* A step of a worker that stores no row keeps the drainer awake.  *)
LEMMA WorkWakes ==
    ASSUME TypeInv, NEW w \in Workers, Work(w), UNCHANGED unmarked,
           spool # <<>> => Awake
    PROVE  spool' # <<>> => Awake'
<1> USE DEF TypeInv
<1>0. \A v \in Workers : PlaceType(v)
  BY DEF PlaceTypes
<1>1. Drainer \in Workers
  BY ConstantTypes
<1>2. \A l : Goto(w, l) => pc'[w] = l
  BY DEF Goto, ThreadTypes
<1>3. \A v \in Workers \ {w} : pc'[v] = pc[v] /\ held'[v] = held[v] /\ fromSpool'[v] = fromSpool[v]
  BY WorkFrame
<1>4. ASSUME /\ pending => pending' \/ pc'[Drainer] \in Replaying
             /\ pc[w] # "mark"
             /\ w = Drainer /\ (pc[w] \in Replaying \/ (held[w] # Nothing /\ fromSpool[w])) =>
                    pending' \/ pc'[w] \in Replaying \/ (held'[w] # Nothing /\ fromSpool'[w]),
             spool # <<>>
      PROVE  Awake'
  <2>0. Awake
    BY <1>4
  <2>1. CASE pending \/ unmarked
    BY <1>4, <2>1 DEF Awake
  <2>2. CASE pc[Drainer] \in Replaying \/ (held[Drainer] # Nothing /\ fromSpool[Drainer])
    <3>1. CASE w = Drainer
      BY <1>4, <2>2, <3>1 DEF Awake
    <3>2. CASE w # Drainer
      BY <1>1, <1>3, <2>2, <3>2 DEF Awake
    <3> QED BY <3>1, <3>2
  <2>3. ASSUME NEW v \in Workers, pc[v] = "mark" PROVE Awake'
    BY <1>3, <1>4, <2>3 DEF Awake
  <2> QED BY <2>0, <2>1, <2>2, <2>3 DEF Awake
<1>5. CASE Loop(w)
  <2>1. spool' = spool /\ pc[w] = "top" /\ held[w] = Nothing
    BY <1>0, <1>5 DEF Loop, PlaceType, Busy
  <2>2. pending => pending' \/ pc'[Drainer] \in Replaying
    BY <1>1, <1>2, <1>5 DEF Loop, Replaying
  <2> QED BY <1>4, <2>1, <2>2 DEF Replaying
<1>6. CASE Claim(w)
  <2>1. spool' = spool /\ pending' = pending /\ pc[w] = "claim" /\ held[w] = Nothing
    BY <1>0, <1>6 DEF Claim, drain, PlaceType, Busy
  <2> QED BY <1>4, <2>1 DEF Replaying
<1>7. Consume(w) => IF fromSpool[w] THEN pc'[w] = "delete" ELSE TRUE
  BY <1>2 DEF Consume
<1>8. pc[w] \in Busy /\ Retain(w) => IF fromSpool[w] THEN pc'[w] = "listed" ELSE TRUE
  BY <1>2 DEF Retain
<1>9. CASE Send(w) \/ Answer(w) \/ Reported(w)
  <2>1. spool' = spool /\ pending' = pending /\ pc[w] \in {"send", "sent", "reported"}
    BY <1>9 DEF Send, Answer, Reported, drain
  <2>2. held[w] # Nothing
    BY <1>0, <2>1 DEF PlaceType, Busy
  <2>3. fromSpool[w] => pc'[w] \in Replaying \/ (held'[w] # Nothing /\ fromSpool'[w])
    BY <1>7, <1>8, <1>9, <2>1, <2>2 DEF Send, Answer, Reported, Replaying, Busy
  <2> QED BY <1>4, <2>1, <2>2, <2>3 DEF Replaying
<1>10. CASE Report(w)
  <2>1. /\ pc[w] = "report" /\ UNCHANGED <<held, fromSpool>>
        /\ pending' = TRUE \/ (pending' = pending /\ spool' = spool)
    BY <1>10 DEF Report
  <2>2. CASE pending' = TRUE
    BY <2>2 DEF Awake
  <2> QED BY <1>4, <2>1, <2>2 DEF Replaying
<1>11. CASE SpoolHeld(w)
  BY <1>2, <1>11 DEF SpoolHeld, Awake
<1>12. CASE WakeDrainer(w)
  BY <1>12 DEF WakeDrainer, Awake
<1>13. CASE List(w) \/ Delete(w) \/ Replay(w)
  <2>1. w = Drainer
    BY <1>0, <1>13 DEF List, Delete, Replay, PlaceType, Replaying
  <2>2. pc'[w] \in Replaying \/ (held'[w] # Nothing /\ fromSpool'[w])
    <3>1. \A o : Hold(w, o, TRUE) => held'[w] = o /\ fromSpool'[w] = TRUE
      BY DEF Hold, ThreadTypes
    <3>2. rows # <<>> => Head(rows) # Nothing
      <4>1. rows # <<>> => Head(rows) \in Terminal
        BY DEF SpoolTypes
      <4> QED BY <4>1, OpsFacts
    <3> QED BY <1>2, <1>13, <3>1, <3>2 DEF List, Delete, Replay, Replaying
  <2> QED BY <2>1, <2>2 DEF Awake
<1>14. CASE EndReplay(w)
  <2>1. spool' = spool /\ pending' = (pending \/ spool # <<>>)
    BY <1>14 DEF EndReplay
  <2> QED BY <2>1 DEF Awake
<1> QED BY <1>5, <1>6, <1>9, <1>10, <1>11, <1>12, <1>13, <1>14 DEF Work

LEMMA WakesStep ==
    ASSUME TypeInv, SpoolWakes, [Next]_vars
    PROVE  SpoolWakes'
<1> SUFFICES ASSUME Up', (spool # <<>>)' PROVE Awake'
  BY WakesDef, PTL
<1>0. Up /\ spool # <<>> => Awake
  BY WakesDef
<1>1. CASE UNCHANGED <<phase, spool, pending, unmarked, pc, held, fromSpool>>
  BY <1>0, <1>1 DEF Up, Awake
<1>2. ASSUME NEW w \in Workers, Work(w) PROVE Awake'
  <2>1. UNCHANGED unmarked
    BY <1>2 DEF Work, Loop, Claim, Send, Answer, Report, Reported, SpoolHeld, WakeDrainer,
                List, Replay, Delete, EndReplay, drain
  <2>2. Up
    BY <1>2 DEF Work
  <2> QED BY <1>0, <1>2, <2>1, <2>2, WorkWakes
<1>3. CASE Produce
  BY <1>0, <1>1, <1>3 DEF Produce, Up, Awake, drain, threads
<1>4. CASE MarkSpooled
  BY <1>4 DEF MarkSpooled, Awake
<1>5. CASE Persist
  BY <1>5 DEF Persist, Up, Awake
<1>6. CASE Crash
  BY <1>6 DEF Crash, Up
<1>7. CASE Boot
  BY <1>7 DEF Boot, Awake
<1>8. CASE Stop \/ RequestStop \/ Join
  BY <1>0, <1>8 DEF Stop, RequestStop, Join, Up, Awake, drain, threads
<1>9. CASE GoDown \/ ComeBack
  BY <1>1, <1>9 DEF GoDown, ComeBack, drain, threads
<1>10. CASE \/ \E k \in Keys : LoseResources(k)
            \/ \E job \in {"recover", "reconcile"} : Provision(job)
            \/ \E o \in Ops : Expire(o)
  BY <1>1, <1>10 DEF LoseResources, Provision, Expire, drain, threads
<1>11. CASE UNCHANGED vars
  BY <1>1, <1>11 DEF vars, drain, threads
<1> QED BY <1>2, <1>3, <1>4, <1>5, <1>6, <1>7, <1>8, <1>9, <1>10, <1>11 DEF Next

(* While the process works on, rows in the spool are never left without    *)
(* somebody who will see them (_spool_op and the finally clause of         *)
(* _drain_spool).                                                          *)
THEOREM OutboundWakes == Spec => []SpoolWakes
<1>1. Init => SpoolWakes
  <2> SUFFICES ASSUME Init, spool # <<>> PROVE Awake
    BY WakesDef
  <2>1. OldRows \in Nat /\ pending = (OldRows > 0) /\ spool = [i \in 1..OldRows |-> i]
    BY ConstantTypes DEF Init
  <2>2. CASE OldRows > 0
    BY <2>1, <2>2 DEF Awake
  <2>3. CASE ~ (OldRows > 0)
    BY <2>1, <2>3
  <2> QED BY <2>2, <2>3
<1>2. TypeInv /\ SpoolWakes /\ [Next]_vars => SpoolWakes'
  BY WakesStep
<1> QED BY <1>1, <1>2, TypesInit, TypesStep, PTL DEF Spec

-----------------------------------------------------------------------------
(***************************************************************************)
(* What goes from the queue to the CSE does not overwrite something newer  *)
(* of its stream.  The order of the numbers is kept from the producer      *)
(* through the lane and the worker to the CSE.                             *)
(***************************************************************************)

(* a waits at the place of b or before it. *)
InLane(lane, a, b) == \E i, j \in DOMAIN lane : i <= j /\ lane[i] = a /\ lane[j] = b

LEMMA TailIn ==
    ASSUME NEW S, NEW lane \in Seq(S), lane # <<>>, NEW a, NEW b, InLane(Tail(lane), a, b)
    PROVE  InLane(lane, a, b)
<1>1. DOMAIN Tail(lane) = 1..(Len(lane) - 1) /\ Len(lane) \in Nat \ {0} /\ DOMAIN lane = 1..Len(lane)
  OBVIOUS
<1>2. PICK i, j \in 1..(Len(lane) - 1) : i <= j /\ Tail(lane)[i] = a /\ Tail(lane)[j] = b
  BY <1>1 DEF InLane
<1>3. lane[i + 1] = a /\ lane[j + 1] = b
  BY <1>1, <1>2
<1> QED BY <1>1, <1>2, <1>3 DEF InLane

LEMMA AppendIn ==
    ASSUME NEW S, NEW lane \in Seq(S), NEW o \in S, NEW a, NEW b, InLane(Append(lane, o), a, b)
    PROVE  InLane(lane, a, b) \/ (b = o /\ (a = o \/ InLane(lane, a, a)))
<1> DEFINE longer == Append(lane, o)
<1>1. /\ DOMAIN longer = 1..(Len(lane) + 1) /\ Len(lane) \in Nat /\ DOMAIN lane = 1..Len(lane)
      /\ \A i \in 1..Len(lane) : longer[i] = lane[i]
      /\ longer[Len(lane) + 1] = o
  OBVIOUS
<1> HIDE DEF longer
<1>2. PICK i, j \in 1..(Len(lane) + 1) : i <= j /\ longer[i] = a /\ longer[j] = b
  BY <1>1 DEF InLane, longer
<1> QED BY <1>1, <1>2 DEF InLane

LEMMA RemoveAtIn ==
    ASSUME NEW S, NEW lane \in Seq(S), NEW n \in 1..Len(lane), NEW a, NEW b,
           InLane(RemoveAt(lane, n), a, b)
    PROVE  /\ InLane(lane, a, b)
           /\ \E i \in 1..Len(lane) : i # n /\ lane[i] = a
<1> DEFINE shorter == RemoveAt(lane, n)
<1>1. /\ shorter \in Seq(S) /\ Len(shorter) = Len(lane) - 1
      /\ \A i \in 1..(Len(lane) - 1) : shorter[i] = IF i < n THEN lane[i] ELSE lane[i + 1]
  BY RemoveAtSeq
<1> HIDE DEF shorter
<1>2. /\ DOMAIN shorter = 1..(Len(lane) - 1) /\ DOMAIN lane = 1..Len(lane)
      /\ Len(lane) \in Nat /\ n \in Nat /\ 1 <= n /\ n <= Len(lane)
  BY <1>1
<1>3. PICK i, j \in 1..(Len(lane) - 1) : i <= j /\ shorter[i] = a /\ shorter[j] = b
  BY <1>2 DEF InLane, shorter
<1>4. CASE j < n
  <2>1. i \in 1..Len(lane) /\ j \in 1..Len(lane) /\ i # n /\ lane[i] = a /\ lane[j] = b
    BY <1>1, <1>2, <1>3, <1>4
  <2> QED BY <1>2, <1>3, <2>1 DEF InLane
<1>5. CASE ~ (i < n)
  <2>1. /\ i + 1 \in 1..Len(lane) /\ j + 1 \in 1..Len(lane) /\ i + 1 # n /\ i + 1 <= j + 1
        /\ lane[i + 1] = a /\ lane[j + 1] = b
    BY <1>1, <1>2, <1>3, <1>5
  <2> QED BY <1>2, <2>1 DEF InLane
<1>6. CASE i < n /\ ~ (j < n)
  <2>1. /\ i \in 1..Len(lane) /\ j + 1 \in 1..Len(lane) /\ i # n /\ i <= j + 1
        /\ lane[i] = a /\ lane[j + 1] = b
    BY <1>1, <1>2, <1>3, <1>6
  <2> QED BY <1>2, <2>1 DEF InLane
<1> QED BY <1>2, <1>3, <1>4, <1>5, <1>6

LEMMA DroppingIn ==
    ASSUME NEW S, NEW lane \in Seq(S), NEW o \in S, NEW max \in Nat \ {0}, NEW a, NEW b,
           InLane(Dropping(lane, o, max), a, b)
    PROVE  InLane(lane, a, b) \/ (b = o /\ (a = o \/ InLane(lane, a, a)))
<1>1. CASE Len(lane) >= max
  <2>1. lane # <<>>
    BY <1>1
  <2>2. Tail(lane) \in Seq(S)
    BY <2>1
  <2>3. InLane(Tail(lane), a, b) \/ (b = o /\ (a = o \/ InLane(Tail(lane), a, a)))
    BY <1>1, <2>2, AppendIn DEF Dropping
  <2> QED BY <2>1, <2>3, TailIn
<1>2. CASE ~ (Len(lane) >= max)
  BY <1>2, AppendIn DEF Dropping
<1> QED BY <1>1, <1>2

LEMMA CoalescedIn ==
    ASSUME NEW S, NEW lane \in Seq(S), NEW o \in S, NEW a, NEW b,
           InLane(Coalesced(lane, o), a, b), KeyOf[a] = KeyOf[b]
    PROVE  InLane(lane, a, b) \/ (b = o /\ (a = o \/ InLane(lane, a, a)))
<1> DEFINE same == {i \in DOMAIN lane : KeyOf[lane[i]] = KeyOf[o]}
           f == [i \in DOMAIN lane |-> IF i \in same THEN o ELSE lane[i]]
<1>1. CASE same # {}
  <2>1. Coalesced(lane, o) = f
    BY <1>1 DEF Coalesced
  <2>2. DOMAIN lane = 1..Len(lane) /\ Len(lane) \in Nat /\ DOMAIN f = DOMAIN lane
    OBVIOUS
  <2>3. PICK i, j \in 1..Len(lane) : i <= j /\ f[i] = a /\ f[j] = b
    BY <2>1, <2>2 DEF InLane
  <2>4. CASE j \in same
    BY <2>2, <2>3, <2>4 DEF InLane
  <2>5. CASE j \notin same
    BY <2>2, <2>3, <2>5 DEF InLane
  <2> QED BY <2>4, <2>5
<1>2. CASE same = {}
  <2>1. Coalesced(lane, o) = Dropping(lane, o, LatestMax)
    BY <1>2 DEF Coalesced
  <2> QED BY <2>1, DroppingIn, ConstantTypes
<1> QED BY <1>1, <1>2

LEMMA InLaneEnds ==
    ASSUME NEW lane, NEW a, NEW b, InLane(lane, a, b),
           \A i \in DOMAIN lane : i \in Nat
    PROVE  InLane(lane, a, a) /\ InLane(lane, b, b)
BY DEF InLane

(* a waits in a lane that b waits in, and not behind it. *)
Ahead(a, b) ==
    InLane(terminal, a, b) \/ InLane(latest, a, b) \/ InLane(bulk, a, b)
Waits(a) == Ahead(a, a)

(* The workers that deliver a numbered operation of the queue.  *)
Movers == {w \in Workers : held[w] \in 1..Produced /\ ~fromSpool[w]}

ProducedInv ==
    /\ \A m, n \in 1..Produced : m <= n /\ n \in produced => m \in produced
    /\ \A s \in Keys \X Classes : direct[s] # Nothing => direct[s] \in produced \cap 1..Produced
LaneInv ==
    \A a, b \in 1..Produced : Ahead(a, b) /\ Stream(a) = Stream(b) =>
        a <= b /\ b \in produced /\ direct[Stream(a)] <= a
MoverInv ==
    \A w \in Movers :
        /\ held[w] \in produced /\ direct[Stream(held[w])] <= held[w]
        /\ \A a \in 1..Produced : Waits(a) /\ Stream(a) = Stream(held[w]) => held[w] <= a
OrderInv == ProducedInv /\ LaneInv /\ MoverInv

(* What a step does to the lanes: nothing new, or o behind all the others. *)
Shrinks == \A a, b : Ahead(a, b)' => Ahead(a, b)
Gains(o) ==
    \A a, b : Ahead(a, b)' /\ KeyOf[a] = KeyOf[b] =>
        Ahead(a, b) \/ (b = o /\ (a = o \/ Waits(a)))

LEMMA EnqueueGains ==
    ASSUME QueueTypes, NEW o \in Ops, Enqueue(o)
    PROVE  Gains(o)
<1> SUFFICES ASSUME NEW a, NEW b, Ahead(a, b)', KeyOf[a] = KeyOf[b]
             PROVE  Ahead(a, b) \/ (b = o /\ (a = o \/ Waits(a)))
  BY DEF Gains
<1> USE DEF QueueTypes, Enqueue
<1>1. CASE InLane(terminal', a, b)
  <2>1. CASE ClassOf[o] = "TERMINAL"
    <3>1. o \in Terminal /\ terminal' = Append(terminal, o)
      BY <2>1 DEF Terminal
    <3>2. InLane(terminal, a, b) \/ (b = o /\ (a = o \/ InLane(terminal, a, a)))
      BY <1>1, <3>1, AppendIn
    <3> QED BY <3>2 DEF Ahead, Waits
  <2> QED BY <1>1, <2>1 DEF Ahead
<1>2. CASE InLane(latest', a, b)
  <2>1. CASE ClassOf[o] = "LATEST"
    <3>1. o \in OfClass("LATEST") /\ latest' = Coalesced(latest, o)
      BY <2>1 DEF OfClass
    <3>2. InLane(latest, a, b) \/ (b = o /\ (a = o \/ InLane(latest, a, a)))
      BY <1>2, <3>1, CoalescedIn
    <3> QED BY <3>2 DEF Ahead, Waits
  <2> QED BY <1>2, <2>1 DEF Ahead
<1>3. CASE InLane(bulk', a, b)
  <2>1. CASE ClassOf[o] = "BULK"
    <3>1. o \in OfClass("BULK") /\ bulk' = Dropping(bulk, o, BulkMax)
      BY <2>1 DEF OfClass
    <3>2. BulkMax \in Nat \ {0}
      BY ConstantTypes
    <3>3. InLane(bulk, a, b) \/ (b = o /\ (a = o \/ InLane(bulk, a, a)))
      BY <1>3, <3>1, <3>2, DroppingIn
    <3> QED BY <3>3 DEF Ahead, Waits
  <2> QED BY <1>3, <2>1 DEF Ahead
<1> QED BY <1>1, <1>2, <1>3 DEF Ahead

LEMMA UnchangedShrinks == UNCHANGED lanes => Shrinks
BY DEF lanes, Shrinks, Ahead

(* Persist and Crash take operations away. *)
LEMMA EmptyingShrinks ==
    ASSUME TypeInv, Persist \/ Crash
    PROVE  Shrinks
<1>1. ASSUME NEW a, NEW b PROVE ~ InLane(<<>>, a, b)
  BY DEF InLane
<1>2. CASE Crash
  BY <1>1, <1>2 DEF Crash, Shrinks, Ahead
<1>3. CASE Persist /\ terminal = <<>>
  BY <1>1, <1>3 DEF Persist, Shrinks, Ahead
<1>4. CASE Persist /\ terminal # <<>>
  <2>1. terminal' = Tail(terminal) /\ UNCHANGED <<latest, bulk>> /\ terminal \in Seq(Terminal)
    BY <1>4 DEF Persist, TypeInv, QueueTypes
  <2>2. \A a, b : InLane(Tail(terminal), a, b) => InLane(terminal, a, b)
    BY <1>4, <2>1, TailIn
  <2> QED BY <2>1, <2>2 DEF Shrinks, Ahead
<1> QED BY <1>2, <1>3, <1>4

(* The lane of an operation is that of its class. *)
LEMMA LaneClass ==
    ASSUME QueueTypes, NEW a
    PROVE  /\ InLane(terminal, a, a) => ClassOf[a] = "TERMINAL"
           /\ InLane(latest, a, a) => ClassOf[a] = "LATEST"
           /\ InLane(bulk, a, a) => ClassOf[a] = "BULK"
BY DEF QueueTypes, InLane, Terminal, OfClass

(* What is claimed from a lane has nothing of its interface ahead of it.  *)
LEMMA ClaimedFirst ==
    ASSUME NEW S, NEW lane \in Seq(S), Claimable(lane) # {}
    PROVE  LET o == lane[First(lane)] IN
           /\ o \in S /\ InLane(lane, o, o)
           /\ \A a, b : InLane(RemoveAt(lane, First(lane)), a, b) => InLane(lane, a, b)
           /\ \A a : InLane(lane, a, a) /\ KeyOf[a] = KeyOf[o] => InLane(lane, o, a)
<1> DEFINE n == First(lane)
<1>1. /\ n \in 1..Len(lane) /\ lane[n] \in S /\ KeyOf[lane[n]] \notin active
      /\ \A j \in 1..(n - 1) : KeyOf[lane[j]] \in active
  BY FirstClaimable
<1> HIDE DEF n
<1>2. DOMAIN lane = 1..Len(lane) /\ Len(lane) \in Nat /\ n \in Nat
  BY <1>1
<1>3. \A a, b : InLane(RemoveAt(lane, n), a, b) => InLane(lane, a, b)
  BY <1>1, RemoveAtIn
<1>4. InLane(lane, lane[n], lane[n])
  BY <1>1, <1>2 DEF InLane
<1>5. ASSUME NEW a, InLane(lane, a, a), KeyOf[a] = KeyOf[lane[n]]
      PROVE  InLane(lane, lane[n], a)
  <2>1. PICK j \in 1..Len(lane) : lane[j] = a
    BY <1>2, <1>5 DEF InLane
  <2>2. ~ (j < n)
    BY <1>1, <1>2, <1>5, <2>1
  <2> QED BY <1>1, <1>2, <2>1, <2>2 DEF InLane
<1> QED BY <1>1, <1>3, <1>4, <1>5 DEF n

LEMMA ClaimShrinks ==
    ASSUME TypeInv, NEW w \in Workers, Claim(w)
    PROVE  /\ Shrinks
           /\ \/ UNCHANGED <<held, fromSpool>>
              \/ \E o \in Ops :
                     /\ Hold(w, o, FALSE) /\ Waits(o)
                     /\ \A a : Waits(a) /\ Stream(a) = Stream(o) => Ahead(o, a)
<1> USE DEF TypeInv, QueueTypes
<1>1. \A a : /\ InLane(terminal, a, a) => ClassOf[a] = "TERMINAL"
             /\ InLane(latest, a, a) => ClassOf[a] = "LATEST"
             /\ InLane(bulk, a, a) => ClassOf[a] = "BULK"
  BY LaneClass
<1>2. \A a, o : Stream(a) = Stream(o) => KeyOf[a] = KeyOf[o] /\ ClassOf[a] = ClassOf[o]
  BY DEF Stream
<1>3. CASE Claimable(terminal) # {} /\ TakeFrom(w, terminal)
           /\ terminal' = RemoveAt(terminal, First(terminal)) /\ UNCHANGED <<latest, bulk>>
  <2> DEFINE o == terminal[First(terminal)]
  <2>1. /\ o \in Terminal /\ InLane(terminal, o, o)
        /\ \A a, b : InLane(terminal', a, b) => InLane(terminal, a, b)
        /\ \A a : InLane(terminal, a, a) /\ KeyOf[a] = KeyOf[o] => InLane(terminal, o, a)
    BY <1>3, ClaimedFirst
  <2>2. Hold(w, o, FALSE)
    BY <1>3 DEF TakeFrom
  <2> HIDE DEF o
  <2>3. Shrinks
    BY <1>3, <2>1 DEF Shrinks, Ahead
  <2>4. o \in Ops /\ Waits(o)
    BY <2>1, OpsFacts DEF Waits, Ahead
  <2>5. \A a : Waits(a) /\ Stream(a) = Stream(o) => Ahead(o, a)
    BY <1>1, <1>2, <2>1 DEF Waits, Ahead
  <2> QED BY <2>2, <2>3, <2>4, <2>5
<1>4. CASE Claimable(latest) # {} /\ TakeFrom(w, latest)
           /\ latest' = RemoveAt(latest, First(latest)) /\ UNCHANGED <<terminal, bulk>>
  <2> DEFINE o == latest[First(latest)]
  <2>1. /\ o \in OfClass("LATEST") /\ InLane(latest, o, o)
        /\ \A a, b : InLane(latest', a, b) => InLane(latest, a, b)
        /\ \A a : InLane(latest, a, a) /\ KeyOf[a] = KeyOf[o] => InLane(latest, o, a)
    BY <1>4, ClaimedFirst
  <2>2. Hold(w, o, FALSE)
    BY <1>4 DEF TakeFrom
  <2> HIDE DEF o
  <2>3. Shrinks
    BY <1>4, <2>1 DEF Shrinks, Ahead
  <2>4. o \in Ops /\ Waits(o)
    BY <2>1 DEF Waits, Ahead, OfClass
  <2>5. \A a : Waits(a) /\ Stream(a) = Stream(o) => Ahead(o, a)
    BY <1>1, <1>2, <2>1 DEF Waits, Ahead
  <2> QED BY <2>2, <2>3, <2>4, <2>5
<1>5. CASE Claimable(bulk) # {} /\ TakeFrom(w, bulk)
           /\ bulk' = RemoveAt(bulk, First(bulk)) /\ UNCHANGED <<terminal, latest>>
  <2> DEFINE o == bulk[First(bulk)]
  <2>1. /\ o \in OfClass("BULK") /\ InLane(bulk, o, o)
        /\ \A a, b : InLane(bulk', a, b) => InLane(bulk, a, b)
        /\ \A a : InLane(bulk, a, a) /\ KeyOf[a] = KeyOf[o] => InLane(bulk, o, a)
    BY <1>5, ClaimedFirst
  <2>2. Hold(w, o, FALSE)
    BY <1>5 DEF TakeFrom
  <2> HIDE DEF o
  <2>3. Shrinks
    BY <1>5, <2>1 DEF Shrinks, Ahead
  <2>4. o \in Ops /\ Waits(o)
    BY <2>1 DEF Waits, Ahead, OfClass
  <2>5. \A a : Waits(a) /\ Stream(a) = Stream(o) => Ahead(o, a)
    BY <1>1, <1>2, <2>1 DEF Waits, Ahead
  <2> QED BY <2>2, <2>3, <2>4, <2>5
<1>6. CASE UNCHANGED <<lanes, held, fromSpool>>
  BY <1>6, UnchangedShrinks
<1> QED BY <1>3, <1>4, <1>5, <1>6 DEF Claim

LEMMA AheadWaits ==
    ASSUME QueueTypes, NEW a, NEW b, Ahead(a, b)
    PROVE  Waits(a) /\ Waits(b)
<1>1. /\ \A i \in DOMAIN terminal : i \in Nat
      /\ \A i \in DOMAIN latest : i \in Nat
      /\ \A i \in DOMAIN bulk : i \in Nat
  BY DEF QueueTypes
<1> QED BY <1>1, InLaneEnds DEF Ahead, Waits

(* A step that adds nothing to the order keeps it. *)
LEMMA OrderFrame ==
    ASSUME TypeInv, OrderInv, Shrinks, UNCHANGED <<produced, direct>>,
           \A w \in Movers' : w \in Movers /\ held'[w] = held[w]
    PROVE  OrderInv'
<1>1. ProducedInv'
  BY DEF OrderInv, ProducedInv
<1>2. LaneInv'
  BY DEF OrderInv, LaneInv, Shrinks
<1>3. MoverInv'
  BY DEF OrderInv, MoverInv, Shrinks, Waits
<1> QED BY <1>1, <1>2, <1>3 DEF OrderInv

LEMMA StreamFacts ==
    /\ \A o \in Ops : Stream(o) \in Keys \X Classes
    /\ \A a, b : Stream(a) = Stream(b) => KeyOf[a] = KeyOf[b]
    /\ 1..Produced \subseteq Ops /\ 1..Produced \subseteq Nat
BY OpsFacts DEF Stream

LEMMA DirectNat ==
    ASSUME TypeInv
    PROVE  direct \in [Keys \X Classes -> Nat]
<1>1. direct \in [Keys \X Classes -> Ops \cup {Nothing}]
  BY DEF TypeInv, RestTypes
<1>2. Ops \cup {Nothing} \subseteq Nat
  BY OpsFacts DEF Nothing
<1> QED BY <1>1, <1>2

(* An operation that is put is newer than those before it.  *)
LEMMA OrderGain ==
    ASSUME TypeInv, OrderInv, NEW o \in Ops, Gains(o), produced' = produced \cup {o},
           o \in 1..Produced => /\ o \notin produced
                               /\ \A n \in (1..Produced) \ produced : o <= n,
           UNCHANGED <<direct, held, fromSpool>>
    PROVE  OrderInv'
<1> DEFINE Own == 1..Produced
<1>0. Own \subseteq Nat /\ Own \subseteq Ops
  BY StreamFacts
<1> HIDE DEF Own
<1>a. \A s \in Keys \X Classes : direct[s] \in Nat
  BY DirectNat
<1>1. o \in Own => \A m \in Own : m \in produced => m <= o
  <2> SUFFICES ASSUME o \in Own, NEW m \in Own, m \in produced, ~ (m <= o) PROVE FALSE
    OBVIOUS
  <2>1. o <= m /\ o \notin produced
    BY <1>0 DEF Own
  <2> QED BY <2>1 DEF OrderInv, ProducedInv, Own
<1>2. ProducedInv'
  <2>1. ASSUME NEW m \in Own, NEW n \in Own, m <= n, n \in produced' PROVE m \in produced'
    <3>1. CASE n \in produced
      BY <2>1, <3>1 DEF OrderInv, ProducedInv, Own
    <3>2. CASE n = o /\ m \notin produced
      <4>1. o <= m
        BY <2>1, <3>2 DEF Own
      <4>2. m = o
        BY <1>0, <2>1, <3>2, <4>1
      <4> QED BY <4>2
    <3> QED BY <2>1, <3>1, <3>2
  <2> QED BY <2>1 DEF OrderInv, ProducedInv, Own
<1>3. LaneInv'
  <2> SUFFICES ASSUME NEW a \in Own, NEW b \in Own, Ahead(a, b)', Stream(a) = Stream(b)
               PROVE  a <= b /\ b \in produced' /\ direct[Stream(a)] <= a
    BY DEF LaneInv, Own
  <2>1. Ahead(a, b) \/ (b = o /\ (a = o \/ Waits(a)))
    BY StreamFacts DEF Gains
  <2>2. CASE Ahead(a, b)
    BY <2>2 DEF OrderInv, LaneInv, Own
  <2>3. CASE b = o /\ Waits(a)
    <3>1. a \in produced /\ direct[Stream(a)] <= a
      BY <2>3 DEF OrderInv, LaneInv, Own, Waits
    <3> QED BY <1>1, <2>3, <3>1
  <2>4. CASE b = o /\ a = o
    <3>0. Stream(o) \in Keys \X Classes
      BY StreamFacts
    <3>1. direct[Stream(o)] = Nothing \/ direct[Stream(o)] \in produced \cap Own
      BY <3>0 DEF OrderInv, ProducedInv, Own
    <3>2. direct[Stream(o)] <= o
      <4>1. o \in Own /\ o \in Nat
        BY <1>0, <2>4
      <4>2. CASE direct[Stream(o)] = Nothing
        BY <4>1, <4>2 DEF Nothing
      <4>3. CASE direct[Stream(o)] \in produced \cap Own
        BY <1>1, <4>1, <4>3
      <4> QED BY <3>1, <4>2, <4>3
    <3> QED BY <1>0, <2>4, <3>2
  <2> QED BY <2>1, <2>2, <2>3, <2>4
<1>4. MoverInv'
  <2> SUFFICES ASSUME NEW w \in Movers
               PROVE  /\ held[w] \in produced' /\ direct[Stream(held[w])] <= held[w]
                      /\ \A a \in Own : Waits(a)' /\ Stream(a) = Stream(held[w]) => held[w] <= a
    BY DEF MoverInv, Own, Movers
  <2>1. /\ held[w] \in produced /\ direct[Stream(held[w])] <= held[w] /\ held[w] \in Own
        /\ \A a \in Own : Waits(a) /\ Stream(a) = Stream(held[w]) => held[w] <= a
    BY DEF OrderInv, MoverInv, Movers, Own
  <2>2. ASSUME NEW a \in Own, Waits(a)', Stream(a) = Stream(held[w]) PROVE held[w] <= a
    <3>1. Waits(a) \/ a = o
      BY <2>2 DEF Gains, Waits
    <3> QED BY <1>1, <2>1, <2>2, <3>1
  <2> QED BY <2>1, <2>2
<1> QED BY <1>2, <1>3, <1>4 DEF OrderInv

(* The first operation of its stream is taken. *)
LEMMA OrderTaken ==
    ASSUME TypeInv, OrderInv, NEW w \in Workers, NEW o \in Ops, Hold(w, o, FALSE), Waits(o),
           \A a : Waits(a) /\ Stream(a) = Stream(o) => Ahead(o, a),
           Shrinks, UNCHANGED <<produced, direct>>
    PROVE  OrderInv'
<1>1. ProducedInv'
  BY DEF OrderInv, ProducedInv
<1>2. LaneInv'
  BY DEF OrderInv, LaneInv, Shrinks
<1>3. MoverInv'
  <2> SUFFICES ASSUME NEW v \in Workers, v \in Movers'
               PROVE  /\ held'[v] \in produced /\ direct[Stream(held'[v])] <= held'[v]
                      /\ \A a \in 1..Produced :
                            Waits(a)' /\ Stream(a) = Stream(held'[v]) => held'[v] <= a
    BY DEF MoverInv, Movers
  <2>1. \A a : Waits(a)' => Waits(a)
    BY DEF Shrinks, Waits
  <2>2. CASE v = w
    <3>1. held'[v] = o /\ o \in 1..Produced
      BY <2>2 DEF Hold, Movers, TypeInv, ThreadTypes
    <3>2. o \in produced /\ direct[Stream(o)] <= o
      BY <3>1 DEF OrderInv, LaneInv, Waits
    <3>3. ASSUME NEW a \in 1..Produced, Waits(a), Stream(a) = Stream(o) PROVE o <= a
      BY <3>1, <3>3 DEF OrderInv, LaneInv
    <3> QED BY <2>1, <3>1, <3>2, <3>3
  <2>3. CASE v # w
    <3>1. v \in Movers /\ held'[v] = held[v]
      BY <2>3 DEF Hold, Movers, TypeInv, ThreadTypes
    <3> QED BY <2>1, <3>1 DEF OrderInv, MoverInv
  <2> QED BY <2>2, <2>3
<1> QED BY <1>1, <1>2, <1>3 DEF OrderInv

(* The CSE stores what a worker delivers. *)
LEMMA OrderStored ==
    ASSUME TypeInv, SerialInv, OrderInv, NEW w \in Workers, held[w] # Nothing,
           direct' = Stored(w), UNCHANGED <<produced, lanes>>,
           \A v \in Movers' : v \in Movers /\ held'[v] = held[v]
    PROVE  OrderInv' /\ \A s \in Keys \X Classes : direct'[s] >= direct[s]
<1> USE DEF TypeInv
<1>a. direct \in [Keys \X Classes -> Nat]
  BY DirectNat
<1>1. CASE fromSpool[w] \/ held[w] \in Reports
  <2>1. direct' = direct
    BY <1>1 DEF Stored
  <2> QED BY <1>a, <2>1, UnchangedShrinks, OrderFrame
<1>2. CASE ~fromSpool[w] /\ held[w] \notin Reports
  <2> DEFINE o == held[w]
             t == Stream(o)
  <2>0. o \in 1..Produced /\ w \in Movers /\ o \in Nat /\ t \in Keys \X Classes
    <3>1. o \in Ops
      BY DEF ThreadTypes
    <3> QED BY <1>2, <3>1, StreamFacts DEF Ops, Movers
  <2>1. direct' = [direct EXCEPT ![t] = o]
    BY <1>2 DEF Stored
  <2>2. /\ o \in produced /\ direct[t] <= o
        /\ \A a \in 1..Produced : Waits(a) /\ Stream(a) = t => o <= a
    BY <2>0 DEF OrderInv, MoverInv
  <2>3. \A v \in Movers : v # w => Stream(held[v]) # t
    BY <2>0, StreamFacts DEF SerialInv, Movers, Holders, Nothing
  <2>4. \A a, b : Ahead(a, b)' <=> Ahead(a, b)
    BY DEF lanes, Ahead
  <2> HIDE DEF o, t
  <2>5. direct'[t] = o /\ \A s \in Keys \X Classes : s # t => direct'[s] = direct[s]
    BY <1>a, <2>0, <2>1
  <2>6. ProducedInv'
    BY <2>0, <2>2, <2>5 DEF OrderInv, ProducedInv
  <2>7. LaneInv'
    <3> SUFFICES ASSUME NEW a \in 1..Produced, NEW b \in 1..Produced, Ahead(a, b),
                        Stream(a) = Stream(b)
                 PROVE  a <= b /\ b \in produced /\ direct'[Stream(a)] <= a
      BY <2>4 DEF LaneInv
    <3>1. a <= b /\ b \in produced /\ direct[Stream(a)] <= a
      BY DEF OrderInv, LaneInv
    <3>2. Waits(a)
      BY AheadWaits
    <3>3. Stream(a) \in Keys \X Classes
      BY StreamFacts
    <3> QED BY <2>2, <2>5, <3>1, <3>2, <3>3
  <2>8. MoverInv'
    <3> SUFFICES ASSUME NEW v \in Movers
                 PROVE  /\ held[v] \in produced /\ direct'[Stream(held[v])] <= held[v]
                        /\ \A a \in 1..Produced :
                              Waits(a) /\ Stream(a) = Stream(held[v]) => held[v] <= a
      BY <2>4 DEF MoverInv, Waits
    <3>1. /\ held[v] \in produced /\ direct[Stream(held[v])] <= held[v]
          /\ \A a \in 1..Produced : Waits(a) /\ Stream(a) = Stream(held[v]) => held[v] <= a
      BY DEF OrderInv, MoverInv
    <3>2. Stream(held[v]) \in Keys \X Classes
      BY StreamFacts DEF Movers
    <3>3. direct'[Stream(held[v])] <= held[v]
      BY <2>0, <2>3, <2>5, <3>1, <3>2 DEF o, t
    <3> QED BY <3>1, <3>3
  <2>9. ASSUME NEW s \in Keys \X Classes PROVE direct'[s] >= direct[s]
    <3>1. direct[s] \in Nat
      BY <1>a
    <3> QED BY <2>0, <2>2, <2>5, <3>1
  <2> QED BY <2>6, <2>7, <2>8, <2>9 DEF OrderInv
<1> QED BY <1>1, <1>2

(* Most steps of a worker add nothing to the order. *)
LEMMA QuietWork ==
    ASSUME TypeInv, OrderInv, NEW w \in Workers, UNCHANGED <<produced, lanes, direct>>,
           \/ UNCHANGED <<held, fromSpool>> \/ Release(w)
           \/ \E o \in Ops : Hold(w, o, TRUE)
    PROVE  OrderInv'
<1>1. \A v \in Movers' : v \in Movers /\ held'[v] = held[v]
  BY DEF Movers, Release, Hold, TypeInv, ThreadTypes, Nothing
<1> QED BY <1>1, UnchangedShrinks, OrderFrame

LEMMA OrderStep ==
    ASSUME TypeInv, SerialInv, OrderInv, [Next]_vars
    PROVE  OrderInv' /\ \A s \in DOMAIN direct : direct'[s] >= direct[s]
<1> DEFINE Kept == \A s \in Keys \X Classes : direct'[s] >= direct[s]
<1>0. DOMAIN direct = Keys \X Classes
  BY DirectNat
<1>a. direct' = direct => Kept
  BY DirectNat
<1> SUFFICES OrderInv' /\ Kept
  BY <1>0
<1> HIDE DEF Kept
<1>1. CASE UNCHANGED <<produced, lanes, direct, held, fromSpool>>
  <2>1. \A v \in Movers' : v \in Movers /\ held'[v] = held[v]
    BY <1>1 DEF Movers
  <2> QED BY <1>1, <1>a, <2>1, UnchangedShrinks, OrderFrame
<1>2. CASE Produce
  <2>1. NextOp \in Ops /\ NextOp \notin produced /\ \A n \in (1..Produced) \ produced : NextOp <= n
    BY <1>2, NextOpIn, OpsFacts DEF Produce
  <2>2. produced' = produced \cup {NextOp} /\ UNCHANGED <<direct, held, fromSpool>>
    BY <1>2 DEF Produce, threads
  <2>3. Gains(NextOp)
    <3>1. CASE Enqueue(NextOp)
      BY <2>1, <3>1, EnqueueGains DEF TypeInv
    <3>2. CASE UNCHANGED lanes
      BY <3>2, UnchangedShrinks DEF Shrinks, Gains
    <3> QED BY <1>2, <3>1, <3>2 DEF Produce
  <2> QED BY <1>a, <2>1, <2>2, <2>3, OrderGain
<1>3. ASSUME NEW w \in Workers, Work(w) PROVE OrderInv' /\ Kept
  <2>a. Consume(w) \/ Retain(w) => UNCHANGED <<held, fromSpool>> \/ Release(w)
    BY DEF Consume, Retain
  <2>b. PlaceType(w)
    BY DEF TypeInv, PlaceTypes
  <2>1. CASE Loop(w) \/ SpoolHeld(w) \/ List(w) \/ EndReplay(w)
    <3>1. UNCHANGED <<produced, lanes, direct, held, fromSpool>>
      BY <2>1 DEF Loop, SpoolHeld, List, EndReplay, history
    <3> QED BY <1>1, <3>1
  <2>2. CASE WakeDrainer(w) \/ Delete(w)
    <3>1. UNCHANGED <<produced, lanes, direct>> /\ Release(w)
      BY <2>2 DEF WakeDrainer, Delete, history
    <3> QED BY <1>a, <3>1, QuietWork
  <2>3. CASE Send(w) \/ Reported(w)
    <3>1. UNCHANGED <<produced, lanes, direct>>
      BY <2>3 DEF Send, Reported
    <3>2. UNCHANGED <<held, fromSpool>> \/ Release(w)
      BY <2>3, <2>a DEF Send, Reported
    <3> QED BY <1>a, <3>1, <3>2, QuietWork
  <2>4. CASE Replay(w)
    <3>1. UNCHANGED <<produced, lanes, direct>>
      BY <2>4 DEF Replay
    <3>2. rows # <<>> => Head(rows) \in Ops
      <4>1. rows # <<>> => Head(rows) \in Terminal
        BY DEF TypeInv, SpoolTypes
      <4> QED BY <4>1, OpsFacts
    <3>3. UNCHANGED <<held, fromSpool>> \/ \E o \in Ops : Hold(w, o, TRUE)
      BY <2>4, <3>2 DEF Replay
    <3> QED BY <1>a, <3>1, <3>3, QuietWork
  <2>5. CASE Claim(w)
    <3>1. UNCHANGED <<produced, direct>>
      BY <2>5 DEF Claim, history
    <3>2. Shrinks
      BY <2>5, ClaimShrinks
    <3>3. CASE UNCHANGED <<held, fromSpool>>
      <4>1. \A v \in Movers' : v \in Movers /\ held'[v] = held[v]
        BY <3>3 DEF Movers
      <4> QED BY <1>a, <3>1, <3>2, <4>1, OrderFrame
    <3>4. ASSUME NEW o \in Ops, Hold(w, o, FALSE), Waits(o),
                 \A a : Waits(a) /\ Stream(a) = Stream(o) => Ahead(o, a)
          PROVE  OrderInv' /\ Kept
      BY <1>a, <3>1, <3>2, <3>4, OrderTaken
    <3> QED BY <2>5, <3>3, <3>4, ClaimShrinks
  <2>6. CASE Answer(w)
    <3>1. UNCHANGED <<produced, lanes>>
      BY <2>6 DEF Answer
    <3>2. UNCHANGED <<held, fromSpool>> \/ Release(w)
      BY <2>6, <2>a DEF Answer
    <3>3. \A v \in Movers' : v \in Movers /\ held'[v] = held[v]
      BY <3>2 DEF Movers, Release, TypeInv, ThreadTypes, Nothing
    <3>4. held[w] # Nothing
      BY <2>6, <2>b DEF Answer, PlaceType, Busy
    <3>5. direct' = direct \/ direct' = Stored(w)
      BY <2>6 DEF Answer
    <3>6. CASE direct' = direct
      BY <1>a, <3>1, <3>2, <3>6, QuietWork
    <3>7. CASE direct' = Stored(w)
      BY <3>1, <3>3, <3>4, <3>7, OrderStored DEF Kept
    <3> QED BY <3>5, <3>6, <3>7
  <2>7. CASE Report(w)
    <3> DEFINE event == ReportOf[held[w]]
    <3>1. event \in Ops /\ event \notin 1..Produced
      <4>1. event \in Reports
        BY <2>7, <2>b, OpsFacts DEF Report, PlaceType
      <4>2. event > Produced /\ event \in Nat /\ Produced \in Nat /\ event \in Ops
        BY <4>1, OpsFacts, ConstantTypes
      <4> QED BY <4>2
    <3>2. UNCHANGED <<direct, held, fromSpool>>
      BY <2>7 DEF Report
    <3>3. CASE UNCHANGED <<produced, lanes>>
      BY <1>1, <3>2, <3>3
    <3>4. CASE produced' = produced \cup {event} /\ Enqueue(event)
      <4>1. Gains(event)
        BY <3>1, <3>4, EnqueueGains DEF TypeInv
      <4> QED BY <1>a, <3>1, <3>2, <3>4, <4>1, OrderGain
    <3>5. CASE produced' = produced \cup {event} /\ UNCHANGED lanes
      <4>1. Gains(event)
        BY <3>5, UnchangedShrinks DEF Shrinks, Gains
      <4> QED BY <1>a, <3>1, <3>2, <3>5, <4>1, OrderGain
    <3> QED BY <2>7, <3>3, <3>4, <3>5 DEF Report
  <2> QED BY <1>3, <2>1, <2>2, <2>3, <2>4, <2>5, <2>6, <2>7 DEF Work
<1>4. CASE Persist \/ Crash
  <2>1. UNCHANGED <<produced, direct, held, fromSpool>>
    BY <1>4 DEF Persist, Crash, threads
  <2>2. \A v \in Movers' : v \in Movers /\ held'[v] = held[v]
    BY <2>1 DEF Movers
  <2> QED BY <1>4, <1>a, <2>1, <2>2, EmptyingShrinks, OrderFrame
<1>5. CASE Boot
  <2>1. UNCHANGED <<produced, lanes, direct>>
    BY <1>5 DEF Boot, history
  <2>2. Movers' = {}
    BY <1>5 DEF Boot, Movers, Nothing
  <2> QED BY <1>a, <2>1, <2>2, UnchangedShrinks, OrderFrame
<1>6. CASE MarkSpooled \/ Stop \/ RequestStop \/ Join \/ GoDown \/ ComeBack
  BY <1>1, <1>6 DEF MarkSpooled, Stop, RequestStop, Join, GoDown, ComeBack, threads, history
<1>7. CASE \/ \E k \in Keys : LoseResources(k)
           \/ \E job \in {"recover", "reconcile"} : Provision(job)
           \/ \E o \in Ops : Expire(o)
  BY <1>1, <1>7 DEF LoseResources, Provision, Expire, threads, history
<1>8. CASE UNCHANGED vars
  BY <1>1, <1>8 DEF vars, threads, history
<1> QED BY <1>2, <1>3, <1>4, <1>5, <1>6, <1>7, <1>8 DEF Next

(* What goes from the queue to the CSE never overwrites something newer of *)
(* its interface and class (claim, put, the coalescing of LATEST, the      *)
(* retries of _send_with_retry).                                           *)
THEOREM OutboundInOrder == Spec => DirectInOrder
<1>1. Init => SerialInv
  BY DEF Init, SerialInv, Holders
<1>2. Init => OrderInv
  <2> SUFFICES ASSUME Init PROVE OrderInv
    OBVIOUS
  <2>0. OldRows \in Nat /\ OldRows <= Produced /\ Produced \in Nat
    BY ConstantTypes
  <2>1. ProducedInv
    <3>1. produced = 1..OldRows /\ \A s \in Keys \X Classes : direct[s] = Nothing
      BY DEF Init
    <3>2. \A m, n \in 1..Produced : m <= n /\ n \in produced => m \in produced
      BY <2>0, <3>1
    <3> QED BY <3>1, <3>2, Zenon DEF ProducedInv
  <2>2. LaneInv
    BY DEF Init, LaneInv, Ahead, InLane
  <2>3. Movers = {}
    BY DEF Init, Movers, Nothing
  <2> QED BY <2>1, <2>2, <2>3 DEF OrderInv, MoverInv
<1>3. TypeInv /\ SerialInv /\ [Next]_vars => SerialInv'
  BY SerialStep
<1>4. TypeInv /\ SerialInv /\ OrderInv /\ [Next]_vars => OrderInv'
  BY OrderStep
<1>5. TypeInv /\ SerialInv /\ OrderInv /\ [Next]_vars =>
          [\A s \in DOMAIN direct : direct'[s] >= direct[s]]_vars
  BY OrderStep
<1> QED BY <1>1, <1>2, <1>3, <1>4, <1>5, TypesInit, TypesStep, PTL DEF Spec, DirectInOrder
=============================================================================

------------------------ MODULE OutboundDeliveryProofs ------------------------
(***************************************************************************)
(* Proofs about where a TERMINAL operation is, for every value of the      *)
(* constants of Outbound: the spool is replayed from its head, and the     *)
(* queue, the workers and the spool together implement Delivery.           *)
(***************************************************************************)
EXTENDS OutboundProofs, FiniteSetTheorems

(***************************************************************************)
(* What the operators on sequences do to the members, to their order and   *)
(* to a sequence without repetitions.                                      *)
(***************************************************************************)

In(s, a) == InLane(s, a, a)
Distinct(s) == \A i, j \in DOMAIN s : s[i] = s[j] => i = j

LEMMA InMember ==
    ASSUME NEW S, NEW s \in Seq(S), NEW a
    PROVE  /\ In(s, a) <=> a \in ToSet(s)
           /\ In(s, a) <=> \E i \in 1..Len(s) : s[i] = a
           /\ In(s, a) => a \in S
<1>1. DOMAIN s = 1..Len(s) /\ Len(s) \in Nat
  OBVIOUS
<1>2. In(s, a) <=> \E i \in 1..Len(s) : s[i] = a
  BY <1>1 DEF In, InLane
<1> QED BY <1>1, <1>2 DEF ToSet

LEMMA InEnds ==
    ASSUME NEW S, NEW s \in Seq(S), NEW a, NEW b, InLane(s, a, b)
    PROVE  In(s, a) /\ In(s, b)
<1>1. \A i \in DOMAIN s : i \in Nat
  OBVIOUS
<1> QED BY <1>1, InLaneEnds DEF In

LEMMA EmptyFacts ==
    Distinct(<<>>) /\ \A a, b : ~ InLane(<<>>, a, b)
BY DEF Distinct, InLane

LEMMA AppendFacts ==
    ASSUME NEW S, NEW s \in Seq(S), NEW o \in S, Distinct(s), ~ In(s, o)
    PROVE  /\ Distinct(Append(s, o))
           /\ \A a : In(Append(s, o), a) <=> In(s, a) \/ a = o
           /\ \A a, b : InLane(Append(s, o), a, b) =>
                  InLane(s, a, b) \/ (b = o /\ (a = o \/ In(s, a)))
<1> DEFINE t == Append(s, o)
<1>1. /\ t \in Seq(S) /\ Len(t) = Len(s) + 1 /\ Len(s) \in Nat
      /\ \A i \in 1..Len(s) : t[i] = s[i]
      /\ t[Len(s) + 1] = o
  OBVIOUS
<1>2. DOMAIN t = 1..(Len(s) + 1) /\ DOMAIN s = 1..Len(s)
  OBVIOUS
<1> HIDE DEF t
<1>3. \A i \in 1..Len(s) : s[i] # o
  BY InMember
<1>4. Distinct(t)
  <2> SUFFICES ASSUME NEW i \in 1..(Len(s) + 1), NEW j \in 1..(Len(s) + 1), t[i] = t[j]
               PROVE  i = j
    BY <1>2 DEF Distinct
  <2>1. CASE i \in 1..Len(s) /\ j \in 1..Len(s)
    BY <1>1, <1>2, <2>1 DEF Distinct
  <2>2. CASE i = Len(s) + 1 \/ j = Len(s) + 1
    <3>1. i \in 1..Len(s) => i # Len(s) + 1 /\ t[i] # o
      BY <1>1, <1>3
    <3>2. j \in 1..Len(s) => j # Len(s) + 1 /\ t[j] # o
      BY <1>1, <1>3
    <3> QED BY <1>1, <2>2, <3>1, <3>2
  <2> QED BY <1>1, <2>1, <2>2
<1>5. ASSUME NEW a PROVE In(t, a) <=> In(s, a) \/ a = o
  <2>1. In(t, a) <=> \E i \in 1..(Len(s) + 1) : t[i] = a
    BY <1>1, InMember
  <2>2. In(s, a) <=> \E i \in 1..Len(s) : s[i] = a
    BY InMember
  <2> QED BY <1>1, <2>1, <2>2
<1>6. \A a, b : InLane(t, a, b) => InLane(s, a, b) \/ (b = o /\ (a = o \/ In(s, a)))
  BY AppendIn DEF t, In
<1> QED BY <1>4, <1>5, <1>6 DEF t

LEMMA TailFacts ==
    ASSUME NEW S, NEW s \in Seq(S), s # <<>>, Distinct(s)
    PROVE  /\ Distinct(Tail(s)) /\ In(s, Head(s))
           /\ \A a : In(Tail(s), a) <=> In(s, a) /\ a # Head(s)
           /\ \A a, b : InLane(Tail(s), a, b) => InLane(s, a, b)
           /\ \A a, b : InLane(s, a, b) => a = Head(s) \/ InLane(Tail(s), a, b)
           /\ \A a : InLane(s, a, Head(s)) => a = Head(s)
<1> DEFINE t == Tail(s)
           n == Len(s)
<1>1. /\ t \in Seq(S) /\ Len(t) = n - 1 /\ n \in Nat /\ n >= 1 /\ Head(s) = s[1]
      /\ \A i \in 1..(n - 1) : t[i] = s[i + 1]
  OBVIOUS
<1>2. DOMAIN t = 1..(n - 1) /\ DOMAIN s = 1..n
  OBVIOUS
<1> HIDE DEF t, n
<1>3. Distinct(t)
  <2> SUFFICES ASSUME NEW i \in 1..(n - 1), NEW j \in 1..(n - 1), t[i] = t[j]
               PROVE  i = j
    BY <1>2 DEF Distinct
  <2>1. i + 1 \in 1..n /\ j + 1 \in 1..n /\ s[i + 1] = s[j + 1]
    BY <1>1
  <2>2. i + 1 = j + 1
    BY <1>2, <2>1 DEF Distinct
  <2> QED BY <2>2
<1>4. \A a, b : InLane(t, a, b) => InLane(s, a, b)
  BY TailIn DEF t
<1>5. ASSUME NEW a, NEW b, InLane(s, a, b), a # Head(s) PROVE InLane(t, a, b)
  <2>1. PICK i \in 1..n, j \in 1..n : i <= j /\ s[i] = a /\ s[j] = b
    BY <1>2, <1>5 DEF InLane
  <2>2. i # 1
    BY <1>1, <1>5, <2>1
  <2>3. /\ i - 1 \in 1..(n - 1) /\ j - 1 \in 1..(n - 1) /\ i - 1 <= j - 1
        /\ (i - 1) + 1 = i /\ (j - 1) + 1 = j
    BY <1>1, <2>1, <2>2
  <2>4. t[i - 1] = a /\ t[j - 1] = b
    BY <1>1, <2>1, <2>3
  <2> QED BY <1>2, <2>3, <2>4 DEF InLane
<1>6. ASSUME NEW a, InLane(s, a, Head(s)) PROVE a = Head(s)
  <2>1. PICK i \in 1..n, j \in 1..n : i <= j /\ s[i] = a /\ s[j] = s[1]
    BY <1>1, <1>2, <1>6 DEF InLane
  <2>2. j = 1
    BY <1>1, <1>2, <2>1 DEF Distinct
  <2> QED BY <1>1, <2>1, <2>2
<1>7. In(s, Head(s))
  BY <1>1, <1>2 DEF In, InLane
<1>8. ASSUME NEW a, In(t, a) PROVE a # Head(s)
  <2>1. PICK i \in 1..(n - 1) : t[i] = a
    BY <1>1, <1>8, InMember
  <2>2. s[i + 1] = a /\ i + 1 \in 1..n /\ i + 1 # 1
    BY <1>1, <2>1
  <2> QED BY <1>1, <1>2, <2>2 DEF Distinct
<1>9. \A a : In(t, a) <=> In(s, a) /\ a # Head(s)
  BY <1>4, <1>5, <1>8 DEF In
<1> QED BY <1>3, <1>4, <1>5, <1>6, <1>7, <1>9 DEF t

LEMMA RemoveAtFacts ==
    ASSUME NEW S, NEW s \in Seq(S), NEW n \in 1..Len(s), Distinct(s)
    PROVE  /\ Distinct(RemoveAt(s, n))
           /\ \A a : In(RemoveAt(s, n), a) <=> In(s, a) /\ a # s[n]
           /\ \A a, b : InLane(RemoveAt(s, n), a, b) => InLane(s, a, b)
<1> DEFINE t == RemoveAt(s, n)
<1>1. /\ t \in Seq(S) /\ Len(t) = Len(s) - 1
      /\ \A i \in 1..(Len(s) - 1) : t[i] = IF i < n THEN s[i] ELSE s[i + 1]
  BY RemoveAtSeq
<1> HIDE DEF t
<1>2. /\ DOMAIN t = 1..(Len(s) - 1) /\ DOMAIN s = 1..Len(s)
      /\ Len(s) \in Nat /\ n \in Nat /\ 1 <= n /\ n <= Len(s)
  BY <1>1
<1>3. Distinct(t)
  <2> SUFFICES ASSUME NEW i \in 1..(Len(s) - 1), NEW j \in 1..(Len(s) - 1), t[i] = t[j]
               PROVE  i = j
    BY <1>2 DEF Distinct
  <2> DEFINE at(k) == IF k < n THEN k ELSE k + 1
  <2>1. \A k \in 1..(Len(s) - 1) : at(k) \in 1..Len(s) /\ t[k] = s[at(k)]
    BY <1>1, <1>2
  <2>2. at(i) = at(j)
    BY <1>2, <2>1 DEF Distinct
  <2> QED BY <1>2, <2>2
<1>4. \A a, b : InLane(t, a, b) => InLane(s, a, b)
  BY RemoveAtIn DEF t
<1>5. ASSUME NEW a, In(t, a) PROVE a # s[n]
  <2>1. \E i \in 1..Len(s) : i # n /\ s[i] = a
    BY <1>5, RemoveAtIn DEF t, In
  <2> QED BY <1>2, <2>1 DEF Distinct
<1>6. ASSUME NEW a, In(s, a), a # s[n] PROVE In(t, a)
  <2>1. PICK i \in 1..Len(s) : s[i] = a /\ i # n
    BY <1>6, InMember
  <2>2. CASE i < n
    <3>1. i \in 1..(Len(s) - 1) /\ t[i] = a
      BY <1>1, <1>2, <2>1, <2>2
    <3> QED BY <1>1, <3>1, InMember
  <2>3. CASE ~ (i < n)
    <3>1. i - 1 \in 1..(Len(s) - 1) /\ ~ (i - 1 < n) /\ (i - 1) + 1 = i
      BY <1>2, <2>1, <2>3
    <3>2. t[i - 1] = a
      BY <1>1, <2>1, <3>1
    <3> QED BY <1>1, <3>1, <3>2, InMember
  <2> QED BY <2>2, <2>3
<1>7. \A a : In(t, a) <=> In(s, a) /\ a # s[n]
  BY <1>4, <1>5, <1>6 DEF In
<1> QED BY <1>3, <1>4, <1>7 DEF t

(* A row is stored behind the others; at most the head gives way, and it   *)
(* is settled or counted as lost.                                          *)
LEMMA SpoolPutFacts ==
    ASSUME SpoolTypes, NEW o \in Terminal, SpoolPut(o), Distinct(spool), ~ In(spool, o)
    PROVE  /\ Distinct(spool') /\ In(spool', o)
           /\ \A a, b : InLane(spool', a, b) =>
                  InLane(spool, a, b) \/ (b = o /\ (a = o \/ In(spool, a)))
           /\ \A a : In(spool', a) => In(spool, a) \/ a = o
           /\ \A a : In(spool, a) /\ ~ In(spool', a) =>
                  a = Head(spool) /\ spool # <<>> /\ Len(spool) >= SpoolMax /\ a \in settled \cup lost'
           /\ lost \subseteq lost'
           /\ \A a \in lost' : a \in lost \/ (In(spool, a) /\ ~ In(spool', a) /\ a \notin settled)
<1> USE DEF SpoolTypes
<1>1. CASE Len(spool) < SpoolMax
  <2>1. spool' = Append(spool, o) /\ lost' = lost
    BY <1>1 DEF SpoolPut, Excess
  <2>2. /\ Distinct(spool')
        /\ \A a : In(spool', a) <=> In(spool, a) \/ a = o
        /\ \A a, b : InLane(spool', a, b) =>
               InLane(spool, a, b) \/ (b = o /\ (a = o \/ In(spool, a)))
    BY <2>1, AppendFacts
  <2> QED BY <2>1, <2>2
<1>2. CASE ~ (Len(spool) < SpoolMax)
  <2>1. spool # <<>> /\ Len(spool) >= SpoolMax
    BY <1>2, ConstantTypes
  <2>2. spool' = Append(Tail(spool), o) /\ lost' = lost \cup ({Head(spool)} \ settled)
    BY <1>2 DEF SpoolPut, Excess
  <2>3. /\ Distinct(Tail(spool)) /\ In(spool, Head(spool))
        /\ \A a : In(Tail(spool), a) <=> In(spool, a) /\ a # Head(spool)
        /\ \A a, b : InLane(Tail(spool), a, b) => InLane(spool, a, b)
    BY <2>1, TailFacts
  <2>4. Tail(spool) \in Seq(Terminal)
    BY <2>1
  <2>5. /\ Distinct(spool')
        /\ \A a : In(spool', a) <=> In(Tail(spool), a) \/ a = o
        /\ \A a, b : InLane(spool', a, b) =>
               InLane(Tail(spool), a, b) \/ (b = o /\ (a = o \/ In(Tail(spool), a)))
    BY <2>2, <2>3, <2>4, AppendFacts
  <2>6. /\ \A a, b : InLane(spool', a, b) =>
               InLane(spool, a, b) \/ (b = o /\ (a = o \/ In(spool, a)))
        /\ \A a : In(spool', a) => In(spool, a) \/ a = o
        /\ In(spool', o)
    BY <2>3, <2>5
  <2>7. \A a : In(spool, a) /\ ~ In(spool', a) => a = Head(spool) /\ a \in settled \cup lost'
    BY <2>2, <2>3, <2>5
  <2>8. ~ In(spool', Head(spool))
    BY <2>3, <2>5
  <2>9. \A a \in lost' : a \in lost \/ (In(spool, a) /\ ~ In(spool', a) /\ a \notin settled)
    BY <2>2, <2>3, <2>8
  <2> QED BY <2>1, <2>2, <2>5, <2>6, <2>7, <2>9
<1> QED BY <1>1, <1>2

LEMMA DeletedFacts ==
    ASSUME SpoolTypes, NEW o, spool' = Deleted(o), Distinct(spool)
    PROVE  /\ Distinct(spool')
           /\ \A a : In(spool', a) <=> In(spool, a) /\ a # o
           /\ \A a, b : InLane(spool', a, b) => InLane(spool, a, b)
<1> USE DEF SpoolTypes
<1>1. CASE o \notin ToSet(spool) /\ RemoveFirst(spool, o) = spool
  <2>1. ~ In(spool, o) /\ spool' = spool
    BY <1>1, InMember DEF Deleted
  <2> QED BY <2>1
<1>2. ASSUME NEW i \in 1..Len(spool), spool[i] = o, RemoveFirst(spool, o) = RemoveAt(spool, i)
      PROVE  /\ Distinct(spool')
             /\ \A a : In(spool', a) <=> In(spool, a) /\ a # o
             /\ \A a, b : InLane(spool', a, b) => InLane(spool, a, b)
  BY <1>2, RemoveAtFacts DEF Deleted
<1> QED BY <1>1, <1>2, RemoveFirstSeq

(* The list of a replay is the head of the spool. *)
LEMMA ListFacts ==
    ASSUME NEW S, NEW s \in Seq(S), NEW n \in Nat, n <= Len(s), Distinct(s)
    PROVE  /\ Distinct(SubSeq(s, 1, n))
           /\ \A a : In(SubSeq(s, 1, n), a) => In(s, a)
           /\ \A a, b : InLane(s, a, b) /\ In(SubSeq(s, 1, n), b) => InLane(SubSeq(s, 1, n), a, b)
<1> DEFINE t == SubSeq(s, 1, n)
<1>1. t \in Seq(S) /\ Len(t) = n /\ Len(s) \in Nat /\ \A i \in 1..n : t[i] = s[i]
  OBVIOUS
<1>2. DOMAIN t = 1..n /\ DOMAIN s = 1..Len(s) /\ 1..n \subseteq 1..Len(s)
  BY <1>1
<1> HIDE DEF t
<1>3. Distinct(t)
  BY <1>1, <1>2 DEF Distinct
<1>4. \A a : In(t, a) => In(s, a)
  <2>1. \A a : In(t, a) <=> \E i \in 1..n : t[i] = a
    BY <1>1, InMember
  <2>2. \A a : In(s, a) <=> \E i \in 1..Len(s) : s[i] = a
    BY InMember
  <2> QED BY <1>1, <1>2, <2>1, <2>2
<1>5. ASSUME NEW a, NEW b, InLane(s, a, b), In(t, b) PROVE InLane(t, a, b)
  <2>1. PICK i \in 1..Len(s), j \in 1..Len(s) : i <= j /\ s[i] = a /\ s[j] = b
    BY <1>2, <1>5 DEF InLane
  <2>2. PICK k \in 1..n : t[k] = b
    BY <1>1, <1>5, InMember
  <2>3. k \in 1..Len(s) /\ s[k] = b
    BY <1>1, <1>2, <2>2
  <2>4. j = k
    BY <1>2, <2>1, <2>3 DEF Distinct
  <2>5. i \in 1..n /\ j \in 1..n
    BY <2>1, <2>2, <2>4
  <2>6. t[i] = a /\ t[j] = b
    BY <1>1, <2>1, <2>5
  <2> QED BY <1>2, <2>1, <2>5, <2>6 DEF InLane
<1> QED BY <1>3, <1>4, <1>5 DEF t

-----------------------------------------------------------------------------
(***************************************************************************)
(* Where an operation is.                                                  *)
(***************************************************************************)

(* A row that is or was in the spool and is accounted for.  *)
Kept(a) == In(spool, a) \/ a \in settled \/ a \in lost

Delivering == held[Drainer] # Nothing /\ fromSpool[Drainer]

(* The worker has a TERMINAL operation that is nowhere else. *)
Carries(w) == held[w] \in Terminal /\ ~fromSpool[w] /\ pc[w] # "mark"

OneRow == Distinct(spool) /\ Distinct(terminal) /\ Distinct(rows)

FreshOps ==
    \A a \in Terminal \ produced :
        /\ ~ In(spool, a) /\ ~ In(terminal, a) /\ ~ In(rows, a)
        /\ a \notin settled /\ a \notin lost
        /\ \A w \in Workers : held[w] # a

QueuedOnce ==
    \A a : In(terminal, a) =>
        /\ ~ In(spool, a) /\ ~ In(rows, a) /\ a \notin settled /\ a \notin lost
        /\ \A w \in Workers : held[w] # a

CarriedOnce ==
    Up => \A w \in Workers : Carries(w) =>
        /\ ~ In(spool, held[w]) /\ ~ In(rows, held[w])
        /\ held[w] \notin settled /\ held[w] \notin lost

RowsKept ==
    /\ \A a : In(rows, a) => Kept(a)
    /\ \A w \in Workers : held[w] # Nothing /\ fromSpool[w] =>
           Kept(held[w]) /\ ~ In(rows, held[w])

PlacesKept ==
    \A w \in Workers : /\ pc[w] = "mark" => Kept(held[w])
                       /\ pc[w] = "delete" => held[w] \in settled

(* A settled row of the spool is its head: it is about to be deleted, or a *)
(* crash came first.                                                       *)
SpoolHeads ==
    /\ \A a : In(spool, a) => a \notin lost
    /\ \A a, b : InLane(spool, a, b) /\ b \in settled => a = b

(* The rows of a replay come in the order of the spool, and before them    *)
(* the one that is delivered.                                              *)
Aligned ==
    pc[Drainer] # "listed" =>
        /\ \A a, b : InLane(spool, a, b) /\ In(rows, b) =>
               InLane(rows, a, b) \/ (Delivering /\ a = held[Drainer])
        /\ \A a : Delivering /\ InLane(spool, a, held[Drainer]) => a = held[Drainer]

DownKept ==
    phase = "down" =>
        terminal = <<>> /\ \A w \in Workers : held[w] \in Terminal => Kept(held[w])

HomeInv ==
    /\ OneRow /\ FreshOps /\ QueuedOnce /\ CarriedOnce /\ RowsKept /\ PlacesKept
    /\ SpoolHeads /\ Aligned /\ DownKept

(* What a step does to the places of the workers when no operation changes *)
(* hands.                                                                  *)
SamePlaces ==
    /\ \A w \in Workers :
           /\ pc[w] = "mark" <=> pc'[w] = "mark"
           /\ pc'[w] = "delete" => pc[w] = "delete"
    /\ pc'[Drainer] # "listed" => pc[Drainer] # "listed"
SamePhase == Up' <=> Up

(* A step that moves no operation. *)
LEMMA HomeQuiet ==
    ASSUME TypeInv, HomeInv, SamePlaces, SamePhase,
           UNCHANGED <<spool, terminal, rows, held, fromSpool, settled, lost, produced>>
    PROVE  HomeInv'
<1> USE DEF HomeInv
<1>1. OneRow' /\ FreshOps' /\ QueuedOnce'
  BY DEF OneRow, FreshOps, QueuedOnce
<1>2. CarriedOnce'
  BY DEF CarriedOnce, Carries, SamePlaces, SamePhase
<1>3. RowsKept'
  BY DEF RowsKept, Kept
<1>4. PlacesKept'
  BY DEF PlacesKept, Kept, SamePlaces
<1>5. SpoolHeads' /\ Aligned'
  BY DEF SpoolHeads, Aligned, Delivering, SamePlaces
<1>6. DownKept'
  BY DEF DownKept, Kept, SamePhase, Up
<1> QED BY <1>1, <1>2, <1>3, <1>4, <1>5, <1>6

(* An operation that nobody has seen comes into the queue. *)
LEMMA HomeEnqueue ==
    ASSUME TypeInv, HomeInv, SamePlaces, Up, Up', NEW o \in Ops, o \notin produced,
           produced' = produced \cup {o}, Enqueue(o),
           UNCHANGED <<spool, rows, held, fromSpool, settled, lost>>
    PROVE  HomeInv'
<1> USE DEF HomeInv
<1>1. /\ Distinct(terminal')
      /\ \A a : In(terminal', a) => In(terminal, a) \/ (a = o /\ o \in Terminal)
  <2>1. CASE ClassOf[o] = "TERMINAL"
    <3>1. o \in Terminal /\ terminal' = Append(terminal, o)
      BY <2>1 DEF Enqueue, Terminal
    <3>2. ~ In(terminal, o) /\ Distinct(terminal) /\ terminal \in Seq(Terminal)
      BY <3>1 DEF FreshOps, OneRow, TypeInv, QueueTypes
    <3> QED BY <3>1, <3>2, AppendFacts
  <2>2. CASE ClassOf[o] # "TERMINAL"
    BY <2>2 DEF Enqueue, OneRow
  <2> QED BY <2>1, <2>2
<1>2. OneRow'
  BY <1>1 DEF OneRow
<1>3. FreshOps'
  BY <1>1 DEF FreshOps
<1>4. QueuedOnce'
  BY <1>1 DEF QueuedOnce, FreshOps
<1>5. CarriedOnce'
  BY DEF CarriedOnce, Carries, SamePlaces
<1>6. RowsKept'
  BY DEF RowsKept, Kept
<1>7. PlacesKept'
  BY DEF PlacesKept, Kept, SamePlaces
<1>8. SpoolHeads' /\ Aligned'
  BY DEF SpoolHeads, Aligned, Delivering, SamePlaces
<1>9. DownKept'
  BY DEF DownKept, Up
<1> QED BY <1>2, <1>3, <1>4, <1>5, <1>6, <1>7, <1>8, <1>9

(* What is kept stays kept, whatever happens to the spool. *)
LEMMA KeptStays ==
    ASSUME \A a : In(spool, a) /\ ~ In(spool', a) => a \in settled' \cup lost',
           settled \subseteq settled', lost \subseteq lost', NEW a, Kept(a)
    PROVE  Kept(a)'
BY DEF Kept

(* A row that is nowhere else is stored. *)
LEMMA HomePut ==
    ASSUME TypeInv, HomeInv, NEW o \in Terminal, SpoolPut(o),
           ~ In(spool, o), o \notin settled, o \notin lost, ~ In(rows, o),
           Delivering => held[Drainer] # o,
           pc'[Drainer] # "listed" => pc[Drainer] # "listed",
           UNCHANGED <<rows, held, fromSpool, settled>>
    PROVE  /\ Distinct(spool') /\ In(spool', o) /\ o \notin lost'
           /\ \A a : In(spool', a) => In(spool, a) \/ a = o
           /\ \A a \in lost' : a \in lost \/ In(spool, a)
           /\ SpoolHeads' /\ Aligned' /\ RowsKept'
           /\ \A a : Kept(a) => Kept(a)'
<1> USE DEF HomeInv
<1>1. /\ Distinct(spool') /\ In(spool', o)
      /\ \A a, b : InLane(spool', a, b) =>
             InLane(spool, a, b) \/ (b = o /\ (a = o \/ In(spool, a)))
      /\ \A a : In(spool', a) => In(spool, a) \/ a = o
      /\ \A a : In(spool, a) /\ ~ In(spool', a) => a \in settled \cup lost'
      /\ lost \subseteq lost'
      /\ \A a \in lost' : a \in lost \/ (In(spool, a) /\ ~ In(spool', a) /\ a \notin settled)
  BY SpoolPutFacts DEF OneRow, TypeInv
<1>2. o \notin lost'
  BY <1>1
<1>3. SpoolHeads'
  BY <1>1, <1>2 DEF SpoolHeads
<1>4. Aligned'
  BY <1>1 DEF Aligned, Delivering
<1>5. \A a : Kept(a) => Kept(a)'
  BY <1>1, KeptStays
<1>6. RowsKept'
  BY <1>5 DEF RowsKept
<1> QED BY <1>1, <1>2, <1>3, <1>4, <1>5, <1>6

LEMMA HomePutFresh ==
    ASSUME TypeInv, HomeInv, SamePlaces, Up, Up', NEW o \in Terminal, o \notin produced,
           produced' = produced \cup {o}, SpoolPut(o),
           UNCHANGED <<terminal, rows, held, fromSpool, settled>>
    PROVE  HomeInv'
<1> USE DEF HomeInv
<1>0. /\ ~ In(spool, o) /\ o \notin settled /\ o \notin lost /\ ~ In(rows, o) /\ ~ In(terminal, o)
      /\ \A w \in Workers : held[w] # o
  BY DEF FreshOps
<1>1. Delivering => held[Drainer] # o
  BY <1>0, ConstantTypes DEF Delivering
<1>2. /\ Distinct(spool') /\ o \notin lost'
      /\ \A a : In(spool', a) => In(spool, a) \/ a = o
      /\ \A a \in lost' : a \in lost \/ In(spool, a)
      /\ SpoolHeads' /\ Aligned' /\ RowsKept'
      /\ \A a : Kept(a) => Kept(a)'
  BY <1>0, <1>1, HomePut DEF SamePlaces
<1>3. OneRow' /\ FreshOps'
  BY <1>2 DEF OneRow, FreshOps
<1>4. QueuedOnce'
  BY <1>0, <1>2 DEF QueuedOnce
<1>5. CarriedOnce'
  BY <1>0, <1>2 DEF CarriedOnce, Carries, SamePlaces
<1>6. PlacesKept'
  BY <1>2 DEF PlacesKept, SamePlaces
<1>7. DownKept'
  BY DEF DownKept, Up
<1> QED BY <1>2, <1>3, <1>4, <1>5, <1>6, <1>7

LEMMA HomeSpoolHeld ==
    ASSUME TypeInv, SerialInv, HomeInv, Up, NEW w \in Workers, SpoolHeld(w)
    PROVE  HomeInv'
<1> USE DEF HomeInv
<1> DEFINE o == held[w]
<1>0. /\ pc[w] = "spool" /\ SpoolPut(o) /\ pc'[w] = "mark"
      /\ \A v \in Workers : v # w => pc'[v] = pc[v]
      /\ UNCHANGED <<phase, produced, terminal, rows, held, fromSpool, settled>>
  BY DEF SpoolHeld, Goto, TypeInv, ThreadTypes, lanes
<1>1. /\ o \in Terminal /\ ~fromSpool[w] /\ o # Nothing
  BY <1>0, OpsFacts DEF TypeInv, PlaceTypes, PlaceType
<1>2. Carries(w)
  BY <1>0, <1>1 DEF Carries
<1>3. \A v \in Workers : v # w => held[v] # o
  BY <1>1 DEF SerialInv, Holders
<1> HIDE DEF o
<1>4. ~ In(spool, o) /\ o \notin settled /\ o \notin lost /\ ~ In(rows, o) /\ ~ In(terminal, o)
  BY <1>2 DEF CarriedOnce, QueuedOnce, o
<1>5. Delivering => held[Drainer] # o
  BY <1>1, <1>3, ConstantTypes DEF Delivering
<1>6. pc'[Drainer] # "listed" => pc[Drainer] # "listed"
  BY <1>0, ConstantTypes
<1>7. /\ Distinct(spool') /\ o \notin lost' /\ In(spool', o)
      /\ \A a : In(spool', a) => In(spool, a) \/ a = o
      /\ \A a \in lost' : a \in lost \/ In(spool, a)
      /\ SpoolHeads' /\ Aligned' /\ RowsKept'
      /\ \A a : Kept(a) => Kept(a)'
  BY <1>0, <1>1, <1>4, <1>5, <1>6, HomePut
<1>8. OneRow' /\ QueuedOnce'
  BY <1>0, <1>4, <1>7 DEF OneRow, QueuedOnce
<1>9. FreshOps'
  BY <1>0, <1>7 DEF FreshOps, o
<1>10. CarriedOnce'
  <2> SUFFICES ASSUME NEW v \in Workers, Carries(v)'
               PROVE  /\ ~ In(spool', held[v]) /\ ~ In(rows, held[v])
                      /\ held[v] \notin settled /\ held[v] \notin lost'
    BY <1>0 DEF CarriedOnce
  <2>1. v # w /\ Carries(v) /\ held[v] # o
    BY <1>0, <1>3 DEF Carries
  <2> QED BY <1>7, <2>1 DEF CarriedOnce
<1>11. PlacesKept'
  BY <1>0, <1>7 DEF PlacesKept, Kept, o
<1>12. DownKept'
  BY <1>0 DEF DownKept, Up
<1> QED BY <1>7, <1>8, <1>9, <1>10, <1>11, <1>12

(* The rest is saved when every worker has gone. *)
Joined == phase = "saving" => \A w \in Workers : pc[w] = "exit"

LEMMA JoinedStep ==
    ASSUME TypeInv, Joined, [Next]_vars
    PROVE  Joined'
<1>1. CASE UNCHANGED <<phase, pc>>
  BY <1>1 DEF Joined
<1>2. ASSUME NEW w \in Workers, Work(w) PROVE Joined'
  <2>1. pc[w] # "exit"
    BY <1>2 DEF Work, Loop, Claim, Send, Answer, Report, Reported, SpoolHeld, WakeDrainer, List,
                Replay, Delete, EndReplay
  <2>2. phase' = phase
    BY <1>2 DEF Work, Loop, Claim, Send, Answer, Report, Reported, SpoolHeld, WakeDrainer, List,
                Replay, Delete, EndReplay
  <2> QED BY <2>1, <2>2 DEF Joined
<1>3. CASE Stop \/ RequestStop \/ Join \/ Persist \/ Crash \/ Boot
  BY <1>3 DEF Stop, RequestStop, Join, Persist, Crash, Boot, threads, Joined
<1>4. CASE Produce \/ MarkSpooled \/ GoDown \/ ComeBack
  BY <1>1, <1>4 DEF Produce, MarkSpooled, GoDown, ComeBack, threads
<1>5. CASE \/ \E k \in Keys : LoseResources(k)
           \/ \E job \in {"recover", "reconcile"} : Provision(job)
           \/ \E o \in Ops : Expire(o)
  BY <1>1, <1>5 DEF LoseResources, Provision, Expire, threads
<1>6. CASE UNCHANGED vars
  BY <1>1, <1>6 DEF vars, threads
<1> QED BY <1>2, <1>3, <1>4, <1>5, <1>6 DEF Next

LEMMA HomePersist ==
    ASSUME TypeInv, Joined, HomeInv, Persist
    PROVE  HomeInv'
<1> USE DEF HomeInv
<1>0. /\ phase = "saving" /\ Up
      /\ UNCHANGED <<produced, rows, pc, held, fromSpool, settled>>
  BY DEF Persist, Up, threads
<1>1. \A w \in Workers : held[w] = Nothing
  BY <1>0 DEF Joined, TypeInv, PlaceTypes, PlaceType, Busy
<1>2. CarriedOnce'
  BY <1>0, <1>1, OpsFacts DEF CarriedOnce, Carries
<1>3. CASE terminal = <<>>
  <2>1. UNCHANGED <<terminal, spool, lost>>
    BY <1>3 DEF Persist
  <2>2. OneRow' /\ FreshOps' /\ QueuedOnce' /\ RowsKept' /\ PlacesKept'
    BY <1>0, <2>1 DEF OneRow, FreshOps, QueuedOnce, RowsKept, PlacesKept, Kept
  <2>3. SpoolHeads' /\ Aligned'
    BY <1>0, <2>1 DEF SpoolHeads, Aligned, Delivering
  <2>4. DownKept'
    BY <1>0, <1>1, <1>3, <2>1, OpsFacts DEF DownKept
  <2> QED BY <1>2, <2>2, <2>3, <2>4
<1>4. CASE terminal # <<>>
  <2> DEFINE o == Head(terminal)
  <2>1. SpoolPut(o) /\ terminal' = Tail(terminal) /\ phase' = phase
    BY <1>4 DEF Persist
  <2>2. terminal \in Seq(Terminal) /\ o \in Terminal
    BY <1>4 DEF TypeInv, QueueTypes
  <2>3. /\ Distinct(terminal') /\ In(terminal, o)
        /\ \A a : In(terminal', a) <=> In(terminal, a) /\ a # o
    BY <1>4, <2>1, <2>2, TailFacts DEF OneRow
  <2> HIDE DEF o
  <2>4. ~ In(spool, o) /\ o \notin settled /\ o \notin lost /\ ~ In(rows, o)
    BY <2>3 DEF QueuedOnce
  <2>5. ~ Delivering
    BY <1>1, ConstantTypes DEF Delivering
  <2>6. pc'[Drainer] # "listed" => pc[Drainer] # "listed"
    BY <1>0
  <2>7. /\ Distinct(spool') /\ o \notin lost'
        /\ \A a : In(spool', a) => In(spool, a) \/ a = o
        /\ \A a \in lost' : a \in lost \/ In(spool, a)
        /\ SpoolHeads' /\ Aligned' /\ RowsKept'
        /\ \A a : Kept(a) => Kept(a)'
    BY <1>0, <2>1, <2>2, <2>4, <2>5, <2>6, HomePut
  <2>8. OneRow' /\ QueuedOnce'
    BY <1>0, <2>3, <2>7 DEF OneRow, QueuedOnce
  <2>9. FreshOps'
    BY <1>0, <2>3, <2>7 DEF FreshOps
  <2>10. PlacesKept'
    BY <1>0, <2>7 DEF PlacesKept
  <2>11. DownKept'
    BY <1>0, <2>1 DEF DownKept
  <2> QED BY <1>2, <2>7, <2>8, <2>9, <2>10, <2>11
<1> QED BY <1>3, <1>4

(* What a claim does to the TERMINAL lane. *)
LEMMA ClaimFacts ==
    ASSUME TypeInv, Distinct(terminal), NEW w \in Workers, Claim(w)
    PROVE  \/ UNCHANGED <<terminal, held, fromSpool>> /\ Goto(w, "top")
           \/ \E o \in Ops :
                 /\ Hold(w, o, FALSE) /\ Goto(w, "send") /\ Distinct(terminal')
                 /\ o \in Terminal => In(terminal, o)
                 /\ \A a : In(terminal', a) <=> In(terminal, a) /\ a # o
<1> USE DEF TypeInv, QueueTypes
<1>1. CASE Claimable(terminal) # {} /\ TakeFrom(w, terminal)
           /\ terminal' = RemoveAt(terminal, First(terminal))
  <2> DEFINE o == terminal[First(terminal)]
  <2>1. o \in Terminal /\ InLane(terminal, o, o) /\ First(terminal) \in 1..Len(terminal)
    BY <1>1, ClaimedFirst, FirstClaimable
  <2>2. /\ Distinct(terminal')
        /\ \A a : In(terminal', a) <=> In(terminal, a) /\ a # o
    BY <1>1, <2>1, RemoveAtFacts
  <2>3. Hold(w, o, FALSE) /\ Goto(w, "send")
    BY <1>1 DEF TakeFrom
  <2> HIDE DEF o
  <2> QED BY <2>1, <2>2, <2>3, OpsFacts DEF In
<1>2. ASSUME NEW class \in {"LATEST", "BULK"}, NEW lane \in Seq(OfClass(class)),
             Claimable(lane) # {}, TakeFrom(w, lane), UNCHANGED terminal
      PROVE  \E o \in Ops :
                 /\ Hold(w, o, FALSE) /\ Goto(w, "send") /\ Distinct(terminal')
                 /\ o \in Terminal => In(terminal, o)
                 /\ \A a : In(terminal', a) <=> In(terminal, a) /\ a # o
  <2> DEFINE o == lane[First(lane)]
  <2>1. o \in OfClass(class)
    BY <1>2, FirstClaimable
  <2>2. Hold(w, o, FALSE) /\ Goto(w, "send")
    BY <1>2 DEF TakeFrom
  <2> HIDE DEF o
  <2>3. o \in Ops /\ o \notin Terminal
    BY <2>1 DEF OfClass, Terminal
  <2>4. \A a : In(terminal, a) => a \in Terminal
    BY InMember
  <2> QED BY <1>2, <2>2, <2>3, <2>4
<1>3. CASE UNCHANGED <<lanes, held, fromSpool>> /\ Goto(w, "top")
  BY <1>3 DEF lanes
<1>4. CASE Claimable(latest) # {} /\ TakeFrom(w, latest) /\ UNCHANGED terminal
  BY <1>2, <1>4
<1>5. CASE Claimable(bulk) # {} /\ TakeFrom(w, bulk) /\ UNCHANGED terminal
  BY <1>2, <1>5
<1> QED BY <1>1, <1>3, <1>4, <1>5 DEF Claim

LEMMA HomeClaim ==
    ASSUME TypeInv, HomeInv, Up, NEW w \in Workers, Claim(w)
    PROVE  HomeInv'
<1> USE DEF HomeInv
<1>0. /\ pc[w] = "claim" /\ UNCHANGED <<phase, produced, spool, rows, settled, lost>> /\ Up'
      /\ held[w] = Nothing
  BY DEF Claim, drain, history, Up, TypeInv, PlaceTypes, PlaceType, Busy
<1>1. CASE UNCHANGED <<terminal, held, fromSpool>> /\ Goto(w, "top")
  <2>1. SamePlaces /\ SamePhase
    BY <1>0, <1>1 DEF SamePlaces, SamePhase, Goto, TypeInv, ThreadTypes
  <2> QED BY <1>0, <1>1, <2>1, HomeQuiet
<1>2. ASSUME NEW o \in Ops, Hold(w, o, FALSE), Goto(w, "send"), Distinct(terminal'),
             o \in Terminal => In(terminal, o),
             \A a : In(terminal', a) <=> In(terminal, a) /\ a # o
      PROVE  HomeInv'
  <2>1. /\ held'[w] = o /\ fromSpool'[w] = FALSE /\ pc'[w] = "send"
        /\ \A v \in Workers : v # w =>
               held'[v] = held[v] /\ fromSpool'[v] = fromSpool[v] /\ pc'[v] = pc[v]
    BY <1>2 DEF Hold, Goto, TypeInv, ThreadTypes
  <2>2. OneRow'
    BY <1>0, <1>2 DEF OneRow
  <2>3. FreshOps'
    BY <1>0, <1>2, <2>1 DEF FreshOps
  <2>4. QueuedOnce'
    BY <1>0, <1>2, <2>1 DEF QueuedOnce
  <2>5. CarriedOnce'
    BY <1>0, <1>2, <2>1 DEF CarriedOnce, Carries, QueuedOnce
  <2>6. RowsKept'
    BY <1>0, <2>1 DEF RowsKept, Kept
  <2>7. PlacesKept'
    BY <1>0, <2>1 DEF PlacesKept, Kept
  <2>8. SpoolHeads'
    BY <1>0 DEF SpoolHeads
  <2>9. Aligned'
    BY <1>0, <2>1, ConstantTypes DEF Aligned, Delivering
  <2>10. DownKept'
    BY <1>0 DEF DownKept, Up
  <2> QED BY <2>2, <2>3, <2>4, <2>5, <2>6, <2>7, <2>8, <2>9, <2>10
<1> QED BY <1>1, <1>2, ClaimFacts DEF OneRow

LEMMA HomeConsume ==
    ASSUME TypeInv, SerialInv, HomeInv, Up, NEW w \in Workers,
           pc[w] \in {"send", "sent", "reported"}, Consume(w),
           UNCHANGED <<phase, produced, spool, terminal, rows, lost>>
    PROVE  HomeInv'
<1> USE DEF HomeInv
<1> DEFINE o == held[w]
<1>0. o # Nothing /\ (fromSpool[w] => w = Drainer) /\ settled' = settled \cup {o} /\ Up' /\ o \in Ops
  BY DEF TypeInv, ThreadTypes, PlaceTypes, PlaceType, Busy, Consume, Up
<1>1. /\ fromSpool' = fromSpool
      /\ fromSpool[w] => held' = held /\ pc'[w] = "delete"
      /\ ~fromSpool[w] => held'[w] = Nothing /\ pc'[w] = "top"
      /\ \A v \in Workers : v # w => held'[v] = held[v] /\ pc'[v] = pc[v]
  BY DEF Consume, Release, Goto, TypeInv, ThreadTypes
<1>2. \A v \in Workers : v # w => held[v] # o
  BY <1>0 DEF SerialInv, Holders
<1>3. \A a : In(terminal, a) \/ In(spool, a) => a \in Terminal
  BY InMember DEF TypeInv, QueueTypes, SpoolTypes
<1>4. \A a, b : InLane(spool, a, b) => In(spool, a) /\ In(spool, b)
  BY InEnds DEF TypeInv, SpoolTypes
<1>5. \A a : Kept(a) => Kept(a)'
  BY <1>0 DEF Kept
<1>n. Nothing \notin Terminal
  BY OpsFacts
<1>6. OneRow' /\ FreshOps'
  BY <1>0, <1>1, <1>n DEF OneRow, FreshOps
<1>7. QueuedOnce'
  BY <1>0, <1>1, <1>3, <1>n DEF QueuedOnce
<1>8. CarriedOnce'
  BY <1>0, <1>1, <1>2, <1>n DEF CarriedOnce, Carries
<1>9. RowsKept'
  BY <1>1, <1>5 DEF RowsKept
<1>10. PlacesKept'
  BY <1>0, <1>1, <1>5 DEF PlacesKept
<1>11. SpoolHeads'
  <2>1. ASSUME NEW a, InLane(spool, a, o) PROVE a = o
    <3>1. CASE fromSpool[w]
      BY <1>0, <2>1, <3>1 DEF Aligned, Delivering
    <3>2. CASE ~fromSpool[w]
      <4>1. o \in Terminal /\ In(spool, o)
        BY <1>3, <1>4, <2>1
      <4> QED BY <3>2, <4>1 DEF CarriedOnce, Carries
    <3> QED BY <3>1, <3>2
  <2> QED BY <1>0, <2>1 DEF SpoolHeads
<1>12. Aligned'
  <2>1. Delivering' <=> Delivering
    BY <1>0, <1>1, ConstantTypes DEF Delivering
  <2>2. Delivering => held'[Drainer] = held[Drainer]
    BY <1>0, <1>1, ConstantTypes DEF Delivering
  <2>3. pc'[Drainer] # "listed" => pc[Drainer] # "listed"
    BY <1>1, ConstantTypes
  <2> QED BY <2>1, <2>2, <2>3 DEF Aligned
<1>13. DownKept'
  BY <1>0 DEF DownKept, Up
<1> QED BY <1>6, <1>7, <1>8, <1>9, <1>10, <1>11, <1>12, <1>13

(* A worker lets go of an operation that it need not keep. *)
LEMMA HomeRelease ==
    ASSUME TypeInv, HomeInv, Up, NEW w \in Workers, NEW place,
           Goto(w, place), Release(w), place \notin {"mark", "delete"},
           place = "listed" \/ ~fromSpool[w], pc[w] # "listed",
           UNCHANGED <<phase, produced, spool, terminal, rows, settled, lost>>
    PROVE  HomeInv'
<1> USE DEF HomeInv
<1>1. /\ fromSpool' = fromSpool /\ held'[w] = Nothing /\ pc'[w] = place
      /\ \A v \in Workers : v # w => held'[v] = held[v] /\ pc'[v] = pc[v]
  BY DEF Release, Goto, TypeInv, ThreadTypes
<1>2. \A a : In(terminal, a) => a # Nothing
  BY InMember, OpsFacts DEF TypeInv, QueueTypes
<1>3. Nothing \notin Terminal /\ Up'
  BY OpsFacts DEF Up
<1>4. OneRow' /\ FreshOps' /\ QueuedOnce'
  BY <1>1, <1>2, <1>3 DEF OneRow, FreshOps, QueuedOnce
<1>5. CarriedOnce'
  BY <1>1, <1>3 DEF CarriedOnce, Carries
<1>6. RowsKept' /\ PlacesKept'
  BY <1>1 DEF RowsKept, PlacesKept, Kept
<1>7. SpoolHeads'
  BY DEF SpoolHeads
<1>8. Aligned'
  BY <1>1, ConstantTypes DEF Aligned, Delivering
<1>9. DownKept'
  BY <1>3 DEF DownKept, Up
<1> QED BY <1>4, <1>5, <1>6, <1>7, <1>8, <1>9

LEMMA HomeRetain ==
    ASSUME TypeInv, HomeInv, Up, NEW w \in Workers, pc[w] \in {"send", "sent"}, Retain(w),
           UNCHANGED <<phase, produced, spool, terminal, rows, lost>>
    PROVE  HomeInv'
<1>1. CASE Goto(w, "spool") /\ UNCHANGED <<active, held, fromSpool, tries>>
  <2>1. SamePlaces /\ SamePhase
    BY <1>1 DEF SamePlaces, SamePhase, Up, Goto, TypeInv, ThreadTypes
  <2> QED BY <1>1, <2>1, HomeQuiet DEF Retain
<1>2. CASE fromSpool[w] /\ Goto(w, "listed") /\ Release(w)
  BY <1>2, HomeRelease DEF Retain
<1>3. CASE ~fromSpool[w] /\ Goto(w, "top") /\ Release(w)
  BY <1>3, HomeRelease DEF Retain
<1> QED BY <1>1, <1>2, <1>3 DEF Retain

LEMMA HomeDelete ==
    ASSUME TypeInv, HomeInv, Up, NEW w \in Workers, Delete(w)
    PROVE  HomeInv'
<1> USE DEF HomeInv
<1> DEFINE o == held[w]
<1>0. /\ pc[w] = "delete" /\ w = Drainer /\ fromSpool[w] /\ o # Nothing /\ o \in settled
      /\ spool' = Deleted(o) /\ Up'
      /\ UNCHANGED <<phase, produced, terminal, rows, settled, lost>>
  BY DEF Delete, TypeInv, PlaceTypes, PlaceType, Busy, Replaying, PlacesKept, Up, lanes, history
<1>1. /\ fromSpool' = fromSpool /\ held'[w] = Nothing /\ pc'[w] = "replay"
      /\ \A v \in Workers : v # w => held'[v] = held[v] /\ pc'[v] = pc[v]
  BY DEF Delete, Release, Goto, TypeInv, ThreadTypes
<1>2. /\ Distinct(spool')
      /\ \A a : In(spool', a) <=> In(spool, a) /\ a # o
      /\ \A a, b : InLane(spool', a, b) => InLane(spool, a, b)
  BY <1>0, DeletedFacts DEF OneRow, TypeInv
<1>3. \A a, b : InLane(spool', a, b) => In(spool', a)
  <2>1. spool' \in Seq(Terminal)
    BY <1>0, DeletedSeq DEF TypeInv
  <2> QED BY <2>1, InEnds
<1>4. \A a : Kept(a) => Kept(a)'
  BY <1>0, <1>2 DEF Kept
<1>5. \A a : In(terminal, a) => a # Nothing
  BY InMember, OpsFacts DEF TypeInv, QueueTypes
<1>6. Nothing \notin Terminal
  BY OpsFacts
<1> HIDE DEF o
<1>7. OneRow' /\ FreshOps' /\ QueuedOnce'
  BY <1>0, <1>1, <1>2, <1>5, <1>6 DEF OneRow, FreshOps, QueuedOnce
<1>8. CarriedOnce'
  BY <1>0, <1>1, <1>2, <1>6 DEF CarriedOnce, Carries
<1>9. RowsKept' /\ PlacesKept'
  BY <1>0, <1>1, <1>4 DEF RowsKept, PlacesKept
<1>10. SpoolHeads'
  BY <1>0, <1>2 DEF SpoolHeads
<1>11. Aligned'
  BY <1>0, <1>1, <1>2, <1>3 DEF Aligned, Delivering, o
<1>12. DownKept'
  BY <1>0 DEF DownKept, Up
<1> QED BY <1>7, <1>8, <1>9, <1>10, <1>11, <1>12

LEMMA HomeList ==
    ASSUME TypeInv, HomeInv, Up, NEW w \in Workers, List(w)
    PROVE  HomeInv'
<1> USE DEF HomeInv
<1> DEFINE n == IF Len(spool) < DrainBatch THEN Len(spool) ELSE DrainBatch
<1>0. /\ pc[w] = "list" /\ w = Drainer /\ held[w] = Nothing /\ Up'
      /\ rows' = SubSeq(spool, 1, n)
      /\ UNCHANGED <<phase, produced, terminal, spool, held, fromSpool, settled, lost>>
  BY DEF List, TypeInv, PlaceTypes, PlaceType, Busy, Replaying, Up, lanes, history
<1>1. pc'[w] = "replay" /\ \A v \in Workers : v # w => pc'[v] = pc[v]
  BY DEF List, Goto, TypeInv, ThreadTypes
<1>2. spool \in Seq(Terminal) /\ n \in Nat /\ n <= Len(spool)
  BY ConstantTypes DEF TypeInv, SpoolTypes
<1> HIDE DEF n
<1>3. /\ Distinct(rows')
      /\ \A a : In(rows', a) => In(spool, a)
      /\ \A a, b : InLane(spool, a, b) /\ In(rows', b) => InLane(rows', a, b)
  BY <1>0, <1>2, ListFacts DEF OneRow
<1>4. OneRow' /\ FreshOps' /\ QueuedOnce'
  BY <1>0, <1>3 DEF OneRow, FreshOps, QueuedOnce
<1>5. CarriedOnce'
  BY <1>0, <1>1, <1>3, OpsFacts DEF CarriedOnce, Carries
<1>6. \A v \in Workers : held[v] # Nothing => ~fromSpool[v]
  BY <1>0 DEF TypeInv, PlaceTypes, PlaceType
<1>7. RowsKept' /\ PlacesKept'
  BY <1>0, <1>1, <1>3, <1>6 DEF RowsKept, PlacesKept, Kept
<1>8. SpoolHeads'
  BY <1>0 DEF SpoolHeads
<1>9. Aligned'
  BY <1>0, <1>3 DEF Aligned, Delivering
<1>10. DownKept'
  BY <1>0 DEF DownKept, Up
<1> QED BY <1>4, <1>5, <1>7, <1>8, <1>9, <1>10

LEMMA HomeReplay ==
    ASSUME TypeInv, HomeInv, Up, NEW w \in Workers, Replay(w)
    PROVE  HomeInv'
<1> USE DEF HomeInv
<1> DEFINE h == Head(rows)
<1>0. /\ pc[w] = "replay" /\ w = Drainer /\ held[w] = Nothing /\ Up' /\ ~ Delivering
      /\ UNCHANGED <<phase, produced, terminal, lost>>
  BY DEF Replay, TypeInv, PlaceTypes, PlaceType, Busy, Replaying, Up, lanes, Delivering
<1>1. rows # <<>> =>
         /\ h \in Terminal /\ In(rows, h)
         /\ Distinct(Tail(rows))
         /\ \A a : In(Tail(rows), a) <=> In(rows, a) /\ a # h
         /\ \A a, b : InLane(rows, a, b) => a = h \/ InLane(Tail(rows), a, b)
         /\ \A a : InLane(rows, a, h) => a = h
  <2>1. rows \in Seq(Terminal) /\ Distinct(rows)
    BY DEF TypeInv, SpoolTypes, OneRow
  <2>2. rows # <<>> => h \in Terminal
    BY <2>1
  <2> QED BY <2>1, <2>2, TailFacts
<1>n. Nothing \notin Terminal
  BY OpsFacts
<1>2. CASE Goto(w, "listed") /\ UNCHANGED <<spool, rows, held, fromSpool, settled>>
  <2>1. SamePlaces /\ SamePhase
    BY <1>0, <1>2 DEF SamePlaces, SamePhase, Goto, TypeInv, ThreadTypes
  <2> QED BY <1>0, <1>2, <2>1, HomeQuiet
<1>3. CASE /\ rows # <<>> /\ spool' = Deleted(h) /\ settled' = settled \cup {h} /\ rows' = Tail(rows)
           /\ UNCHANGED <<pc, held, fromSpool>>
  <2>1. /\ Distinct(spool')
        /\ \A a : In(spool', a) <=> In(spool, a) /\ a # h
        /\ \A a, b : InLane(spool', a, b) => InLane(spool, a, b)
    BY <1>3, DeletedFacts DEF OneRow, TypeInv
  <2>2. \A a, b : InLane(spool', a, b) => In(spool', a) /\ In(spool', b)
    <3>1. spool' \in Seq(Terminal)
      BY <1>3, DeletedSeq DEF TypeInv
    <3> QED BY <3>1, InEnds
  <2>3. \A a : Kept(a) => Kept(a)'
    BY <1>0, <1>3, <2>1 DEF Kept
  <2>4. /\ In(rows, h) /\ h \in Terminal
        /\ \A a : In(rows', a) <=> In(rows, a) /\ a # h
        /\ \A a, b : InLane(rows, a, b) => a = h \/ InLane(rows', a, b)
        /\ Distinct(rows')
    BY <1>1, <1>3
  <2> HIDE DEF h
  <2>5. OneRow' /\ FreshOps' /\ QueuedOnce'
    BY <1>0, <1>3, <2>1, <2>4 DEF OneRow, FreshOps, QueuedOnce
  <2>6. CarriedOnce'
    BY <1>0, <1>3, <2>1, <2>4 DEF CarriedOnce, Carries
  <2>7. RowsKept' /\ PlacesKept'
    BY <1>3, <2>3, <2>4 DEF RowsKept, PlacesKept
  <2>8. SpoolHeads'
    BY <1>0, <1>3, <2>1, <2>2 DEF SpoolHeads
  <2>9. Aligned'
    BY <1>0, <1>3, <2>1, <2>2, <2>4 DEF Aligned, Delivering
  <2>10. DownKept'
    BY <1>0 DEF DownKept, Up
  <2> QED BY <2>5, <2>6, <2>7, <2>8, <2>9, <2>10
<1>4. CASE /\ rows # <<>> /\ Hold(w, h, TRUE) /\ rows' = Tail(rows) /\ Goto(w, "send")
           /\ UNCHANGED <<spool, settled>>
  <2>1. /\ In(rows, h) /\ h \in Terminal
        /\ \A a : In(rows', a) <=> In(rows, a) /\ a # h
        /\ \A a, b : InLane(rows, a, b) => a = h \/ InLane(rows', a, b)
        /\ \A a : InLane(rows, a, h) => a = h
        /\ Distinct(rows')
    BY <1>1, <1>4
  <2>2. /\ held'[w] = h /\ fromSpool'[w] = TRUE /\ pc'[w] = "send"
        /\ \A v \in Workers : v # w =>
               held'[v] = held[v] /\ fromSpool'[v] = fromSpool[v] /\ pc'[v] = pc[v]
    BY <1>4 DEF Hold, Goto, TypeInv, ThreadTypes
  <2>3. \A a : Kept(a) => Kept(a)'
    BY <1>0, <1>4 DEF Kept
  <2> HIDE DEF h
  <2>4. OneRow' /\ FreshOps' /\ QueuedOnce'
    BY <1>0, <1>4, <2>1, <2>2 DEF OneRow, FreshOps, QueuedOnce
  <2>5. CarriedOnce'
    BY <1>0, <1>4, <2>1, <2>2 DEF CarriedOnce, Carries
  <2>6. RowsKept' /\ PlacesKept'
    BY <1>0, <1>4, <2>1, <2>2, <2>3 DEF RowsKept, PlacesKept
  <2>7. SpoolHeads'
    BY <1>0, <1>4 DEF SpoolHeads
  <2>8. Aligned'
    <3>1. Delivering' /\ held'[Drainer] = h
      BY <1>0, <1>n, <2>1, <2>2 DEF Delivering
    <3>2. ASSUME NEW a, NEW b, InLane(spool, a, b), In(rows', b)
          PROVE  InLane(rows', a, b) \/ a = h
      BY <1>0, <2>1, <3>2 DEF Aligned
    <3>3. ASSUME NEW a, InLane(spool, a, h) PROVE a = h
      BY <1>0, <2>1, <3>3 DEF Aligned
    <3> QED BY <1>4, <3>1, <3>2, <3>3 DEF Aligned
  <2>9. DownKept'
    BY <1>0 DEF DownKept, Up
  <2> QED BY <2>4, <2>5, <2>6, <2>7, <2>8, <2>9
<1> QED BY <1>2, <1>3, <1>4 DEF Replay

LEMMA HomeEndReplay ==
    ASSUME TypeInv, HomeInv, Up, NEW w \in Workers, EndReplay(w)
    PROVE  HomeInv'
<1> USE DEF HomeInv
<1>0. /\ pc[w] = "listed" /\ w = Drainer /\ held[w] = Nothing /\ Up' /\ rows' = <<>>
      /\ UNCHANGED <<phase, produced, terminal, spool, held, fromSpool, settled, lost>>
  BY DEF EndReplay, TypeInv, PlaceTypes, PlaceType, Busy, Replaying, Up, lanes, history
<1>1. pc'[w] = "claim" /\ \A v \in Workers : v # w => pc'[v] = pc[v]
  BY DEF EndReplay, Goto, TypeInv, ThreadTypes
<1>2. Distinct(rows') /\ (\A a, b : ~ InLane(rows', a, b)) /\ (\A a : ~ In(rows', a))
  BY <1>0, EmptyFacts DEF In
<1>3. OneRow' /\ FreshOps' /\ QueuedOnce'
  BY <1>0, <1>2 DEF OneRow, FreshOps, QueuedOnce
<1>4. CarriedOnce'
  BY <1>0, <1>1, <1>2, OpsFacts DEF CarriedOnce, Carries
<1>5. RowsKept' /\ PlacesKept'
  BY <1>0, <1>1, <1>2 DEF RowsKept, PlacesKept, Kept
<1>6. SpoolHeads'
  BY <1>0 DEF SpoolHeads
<1>7. Aligned'
  BY <1>0, <1>2 DEF Aligned, Delivering
<1>8. DownKept'
  BY <1>0 DEF DownKept, Up
<1> QED BY <1>3, <1>4, <1>5, <1>6, <1>7, <1>8

LEMMA HomeCrash ==
    ASSUME TypeInv, HomeInv, Crash
    PROVE  HomeInv'
<1> USE DEF HomeInv
<1>0. /\ Up /\ phase' = "down" /\ ~ Up' /\ terminal' = <<>> /\ lost' = lost \cup Gone
      /\ UNCHANGED <<produced, spool, rows, pc, held, fromSpool, settled>>
  BY DEF Crash, Up, drain, threads
<1>1. Distinct(terminal') /\ \A a : ~ In(terminal', a)
  BY <1>0, EmptyFacts DEF In
<1>2. /\ \A a : In(spool, a) <=> a \in ToSet(spool)
      /\ \A a : In(terminal, a) <=> a \in ToSet(terminal)
  BY InMember DEF TypeInv, SpoolTypes, QueueTypes
<1>3. \A a : a \in Gone <=> /\ a \in Terminal /\ ~ In(spool, a) /\ a \notin settled
                            /\ In(terminal, a) \/ \E w \in Workers : held[w] = a
  BY <1>2, OpsFacts DEF Gone, Volatile
<1>4. \A a : Kept(a) => Kept(a)'
  BY <1>0 DEF Kept
<1>5. OneRow'
  BY <1>0, <1>1 DEF OneRow
<1>6. FreshOps'
  BY <1>0, <1>1, <1>3 DEF FreshOps
<1>7. QueuedOnce' /\ CarriedOnce'
  BY <1>0, <1>1 DEF QueuedOnce, CarriedOnce
<1>8. RowsKept' /\ PlacesKept'
  BY <1>0, <1>4 DEF RowsKept, PlacesKept
<1>9. SpoolHeads'
  BY <1>0, <1>3 DEF SpoolHeads
<1>10. Aligned'
  BY <1>0 DEF Aligned, Delivering
<1>11. DownKept'
  BY <1>0, <1>3 DEF DownKept, Kept
<1> QED BY <1>5, <1>6, <1>7, <1>8, <1>9, <1>10, <1>11

LEMMA HomeBoot ==
    ASSUME TypeInv, HomeInv, Boot
    PROVE  HomeInv'
<1> USE DEF HomeInv
<1>0. /\ phase' = "running" /\ rows' = <<>>
      /\ \A w \in Workers : held'[w] = Nothing /\ pc'[w] = "top"
      /\ UNCHANGED <<produced, terminal, spool, fromSpool, settled, lost>>
  BY DEF Boot, lanes, history
<1>1. Distinct(rows') /\ \A a : ~ In(rows', a)
  BY <1>0, EmptyFacts DEF In
<1>2. Nothing \notin Terminal
  BY OpsFacts
<1>3. \A a : In(terminal, a) => a # Nothing
  BY InMember, OpsFacts DEF TypeInv, QueueTypes
<1>4. OneRow' /\ FreshOps' /\ QueuedOnce'
  BY <1>0, <1>1, <1>2, <1>3 DEF OneRow, FreshOps, QueuedOnce
<1>5. CarriedOnce'
  BY <1>0, <1>2 DEF CarriedOnce, Carries
<1>6. RowsKept' /\ PlacesKept'
  BY <1>0, <1>1 DEF RowsKept, PlacesKept
<1>7. SpoolHeads'
  BY <1>0 DEF SpoolHeads
<1>8. Aligned'
  BY <1>0, <1>1, ConstantTypes DEF Aligned, Delivering
<1>9. DownKept'
  BY <1>0 DEF DownKept
<1> QED BY <1>4, <1>5, <1>6, <1>7, <1>8, <1>9

LEMMA QuietPlaces ==
    ASSUME NEW w \in Workers, UNCHANGED phase,
           pc[w] \notin {"mark", "listed"}, pc'[w] \notin {"mark", "delete"},
           \A v \in Workers : v # w => pc'[v] = pc[v]
    PROVE  SamePlaces /\ SamePhase
<1>1. \A v \in Workers :
        /\ pc[v] = "mark" <=> pc'[v] = "mark"
        /\ pc'[v] = "delete" => pc[v] = "delete"
        /\ pc'[v] # "listed" => pc[v] # "listed"
  OBVIOUS
<1> QED BY <1>1, ConstantTypes DEF SamePlaces, SamePhase, Up

LEMMA HomeWork ==
    ASSUME TypeInv, SerialInv, HomeInv, NEW w \in Workers, Work(w)
    PROVE  HomeInv'
<1>0. Up /\ PlaceType(w)
  BY DEF Work, TypeInv, PlaceTypes
<1>1. \A l : Goto(w, l) => pc'[w] = l /\ \A v \in Workers : v # w => pc'[v] = pc[v]
  BY DEF Goto, TypeInv, ThreadTypes
<1>2. CASE Loop(w)
  <2>1. UNCHANGED <<phase, spool, terminal, held, fromSpool, settled, lost, produced, rows>>
    BY <1>2 DEF Loop, lanes, history
  <2>2. SamePlaces /\ SamePhase
    <3>1. pc[w] = "top" /\ (Goto(w, "exit") \/ Goto(w, "list") \/ Goto(w, "claim"))
      BY <1>2 DEF Loop
    <3>2. pc'[w] \in {"exit", "list", "claim"} /\ \A v \in Workers : v # w => pc'[v] = pc[v]
      BY <1>1, <3>1
    <3> QED BY <2>1, <3>1, <3>2, QuietPlaces
  <2> QED BY <2>1, <2>2, HomeQuiet
<1>3. CASE Send(w) \/ Reported(w)
  <2>1. UNCHANGED <<phase, spool, terminal, lost, produced, rows>> /\ pc[w] \in {"send", "reported"}
    BY <1>3 DEF Send, Reported, lanes, drain
  <2>2. CASE Consume(w)
    BY <1>0, <2>1, <2>2, HomeConsume
  <2>3. CASE pc[w] = "send" /\ Retain(w)
    BY <1>0, <2>1, <2>3, HomeRetain
  <2>4. CASE Goto(w, "sent") /\ UNCHANGED <<held, fromSpool, settled>>
    <3>1. SamePlaces /\ SamePhase
      BY <1>1, <2>1, <2>4, QuietPlaces
    <3> QED BY <2>1, <2>4, <3>1, HomeQuiet
  <2> QED BY <1>3, <2>2, <2>3, <2>4 DEF Send, Reported
<1>4. CASE Answer(w)
  <2>1. UNCHANGED <<phase, spool, terminal, lost, produced, rows>> /\ pc[w] = "sent"
    BY <1>4 DEF Answer, lanes, drain
  <2>2. CASE Consume(w)
    BY <1>0, <2>1, <2>2, HomeConsume
  <2>3. CASE Retain(w)
    BY <1>0, <2>1, <2>3, HomeRetain
  <2>4. CASE (Goto(w, "report") \/ Goto(w, "send")) /\ UNCHANGED <<held, fromSpool, settled>>
    <3>1. SamePlaces /\ SamePhase
      BY <1>1, <2>1, <2>4, QuietPlaces
    <3> QED BY <2>1, <2>4, <3>1, HomeQuiet
  <2> QED BY <1>4, <2>2, <2>3, <2>4 DEF Answer
<1>5. CASE Report(w)
  <2> DEFINE event == ReportOf[held[w]]
  <2>1. event \in Terminal /\ event \in Ops
    BY <1>0, <1>5, OpsFacts DEF Report, PlaceType
  <2>2. /\ Goto(w, "reported") /\ pc[w] = "report"
        /\ UNCHANGED <<phase, rows, held, fromSpool, settled>>
    BY <1>5 DEF Report
  <2>3. SamePlaces /\ SamePhase /\ Up'
    BY <1>0, <1>1, <2>2, QuietPlaces DEF Up
  <2>4. CASE UNCHANGED <<produced, lanes, spool, lost>>
    BY <2>2, <2>3, <2>4, HomeQuiet DEF lanes
  <2>5. CASE /\ event \notin produced /\ produced' = produced \cup {event}
             /\ Enqueue(event) /\ UNCHANGED <<spool, lost>>
    BY <1>0, <2>1, <2>2, <2>3, <2>5, HomeEnqueue
  <2>6. CASE /\ event \notin produced /\ produced' = produced \cup {event}
             /\ SpoolPut(event) /\ UNCHANGED lanes
    BY <1>0, <2>1, <2>2, <2>3, <2>6, HomePutFresh DEF lanes
  <2> QED BY <1>5, <2>4, <2>5, <2>6 DEF Report
<1>6. CASE WakeDrainer(w)
  <2>1. /\ Goto(w, "top") /\ Release(w) /\ pc[w] = "mark" /\ ~fromSpool[w]
        /\ UNCHANGED <<phase, produced, spool, terminal, rows, settled, lost>>
    BY <1>0, <1>6 DEF WakeDrainer, lanes, history, PlaceType
  <2> QED BY <1>0, <2>1, HomeRelease
<1> QED BY <1>0, <1>2, <1>3, <1>4, <1>5, <1>6, HomeClaim, HomeSpoolHeld, HomeList, HomeReplay,
        HomeDelete, HomeEndReplay DEF Work

LEMMA HomeStep ==
    ASSUME TypeInv, SerialInv, Joined, HomeInv, [Next]_vars
    PROVE  HomeInv'
<1>1. CASE Produce
  <2>1. NextOp \in Ops /\ NextOp \notin produced
    BY <1>1, NextOpIn, OpsFacts DEF Produce
  <2>2. /\ Up /\ Up' /\ SamePlaces /\ produced' = produced \cup {NextOp}
        /\ UNCHANGED <<held, fromSpool, settled>>
    BY <1>1 DEF Produce, Up, SamePlaces, threads
  <2>3. CASE Enqueue(NextOp) /\ UNCHANGED <<drain, lost>>
    BY <2>1, <2>2, <2>3, HomeEnqueue DEF drain
  <2>4. CASE ClassOf[NextOp] = "TERMINAL" /\ SpoolPut(NextOp) /\ UNCHANGED <<lanes, rows>>
    <3>1. NextOp \in Terminal
      BY <2>1, <2>4 DEF Terminal
    <3> QED BY <2>1, <2>2, <2>4, <3>1, HomePutFresh DEF lanes
  <2> QED BY <1>1, <2>3, <2>4 DEF Produce
<1>2. CASE UNCHANGED <<pc, held, fromSpool, spool, rows, terminal, settled, lost, produced>> /\ SamePhase
  BY <1>2, HomeQuiet DEF SamePlaces
<1>3. CASE MarkSpooled \/ GoDown \/ ComeBack
  BY <1>2, <1>3 DEF MarkSpooled, GoDown, ComeBack, SamePhase, Up, threads, lanes, drain, history
<1>4. CASE Stop \/ RequestStop \/ Join
  BY <1>2, <1>4 DEF Stop, RequestStop, Join, SamePhase, Up, threads, lanes, drain, history
<1>5. CASE \/ \E k \in Keys : LoseResources(k)
           \/ \E job \in {"recover", "reconcile"} : Provision(job)
           \/ \E o \in Ops : Expire(o)
  BY <1>2, <1>5 DEF LoseResources, Provision, Expire, SamePhase, Up, threads, lanes, drain, history
<1>6. CASE UNCHANGED vars
  BY <1>2, <1>6 DEF vars, SamePhase, Up, threads, lanes, drain, history
<1>7. CASE Persist \/ Crash \/ Boot
  BY <1>7, HomePersist, HomeCrash, HomeBoot
<1> QED BY <1>1, <1>3, <1>4, <1>5, <1>6, <1>7, HomeWork DEF Next

LEMMA HomeInit == Init => Joined /\ HomeInv
<1> SUFFICES ASSUME Init PROVE Joined /\ HomeInv
  OBVIOUS
<1>0. /\ OldRows \in Nat /\ spool = [i \in 1..OldRows |-> i] /\ terminal = <<>> /\ rows = <<>>
      /\ settled = {} /\ lost = {} /\ produced = 1..OldRows /\ phase = "running"
      /\ \A w \in Workers : held[w] = Nothing /\ pc[w] = "top" /\ fromSpool[w] = FALSE
  BY ConstantTypes DEF Init
<1>1. \A a : ~ In(terminal, a) /\ ~ In(rows, a)
  BY <1>0, EmptyFacts DEF In
<1>2. Distinct(spool) /\ Distinct(terminal) /\ Distinct(rows)
  BY <1>0 DEF Distinct
<1>3. \A a : In(spool, a) => a \in produced
  BY <1>0 DEF In, InLane
<1>4. Nothing \notin Terminal
  BY OpsFacts
<1>5. OneRow /\ FreshOps /\ QueuedOnce
  BY <1>0, <1>1, <1>2, <1>3, <1>4 DEF OneRow, FreshOps, QueuedOnce
<1>6. CarriedOnce /\ RowsKept /\ PlacesKept
  BY <1>0, <1>1, <1>4 DEF CarriedOnce, Carries, RowsKept, PlacesKept
<1>7. SpoolHeads
  BY <1>0 DEF SpoolHeads
<1>8. Aligned
  BY <1>0, <1>1, ConstantTypes DEF Aligned, Delivering
<1>9. DownKept /\ Joined
  BY <1>0 DEF DownKept, Joined
<1> QED BY <1>5, <1>6, <1>7, <1>8, <1>9 DEF HomeInv

(* Rows are replayed in the order in which they were stored: what the      *)
(* drainer delivers, while it is in the spool, is the head of the spool    *)
(* (_drain_spool), although rows are appended and evicted meanwhile.       *)
THEOREM OutboundReplays == Spec => []ReplayFromHead
<1>1. TypeInv /\ HomeInv => ReplayFromHead
  <2> SUFFICES ASSUME TypeInv, HomeInv, Delivering, held[Drainer] \in ToSet(spool)
               PROVE  Head(spool) = held[Drainer]
    BY DEF ReplayFromHead, Delivering
  <2>1. spool \in Seq(Terminal) /\ In(spool, held[Drainer])
    BY InMember DEF TypeInv, SpoolTypes
  <2>2. pc[Drainer] # "listed"
    BY ConstantTypes DEF Delivering, TypeInv, PlaceTypes, PlaceType, Busy
  <2>3. PICK i \in 1..Len(spool) : spool[i] = held[Drainer]
    BY <2>1, InMember
  <2>4. Len(spool) \in Nat /\ 1 \in 1..Len(spool) /\ 1 <= i /\ DOMAIN spool = 1..Len(spool)
    BY <2>1, <2>3
  <2>5. InLane(spool, spool[1], held[Drainer])
    BY <2>3, <2>4 DEF InLane
  <2>6. spool[1] = held[Drainer]
    BY <2>2, <2>5 DEF HomeInv, Aligned
  <2> QED BY <2>1, <2>4, <2>6
<1>2. Init => SerialInv
  BY DEF Init, SerialInv, Holders
<1>3. TypeInv /\ SerialInv /\ [Next]_vars => SerialInv'
  BY SerialStep
<1>4. TypeInv /\ Joined /\ [Next]_vars => Joined'
  BY JoinedStep
<1>5. TypeInv /\ SerialInv /\ Joined /\ HomeInv /\ [Next]_vars => HomeInv'
  BY HomeStep
<1> QED BY <1>1, <1>2, <1>3, <1>4, <1>5, HomeInit, TypesInit, TypesStep, PTL DEF Spec

-----------------------------------------------------------------------------
(***************************************************************************)
(* The queue, the workers and the spool implement Delivery.                *)
(***************************************************************************)

FateOf == [o \in Terminal |-> Fate(o)]
InMemory(a) == In(terminal, a) \/ \E w \in Workers : held[w] = a

LEMMA FateDef ==
    ASSUME TypeInv, TypeInv', NEW a \in Terminal
    PROVE  /\ Fate(a) = IF a \in settled THEN "settled"
                        ELSE IF a \in lost THEN "lost"
                        ELSE IF In(spool, a) THEN "spooled"
                        ELSE IF InMemory(a) THEN "memory" ELSE "new"
           /\ Fate(a)' = IF a \in settled' THEN "settled"
                         ELSE IF a \in lost' THEN "lost"
                         ELSE IF In(spool', a) THEN "spooled"
                         ELSE IF InMemory(a)' THEN "memory" ELSE "new"
<1>1. a # Nothing
  BY OpsFacts
<1>2. /\ a \in ToSet(spool) <=> In(spool, a)
      /\ a \in ToSet(terminal) <=> In(terminal, a)
  BY InMember DEF TypeInv, SpoolTypes, QueueTypes
<1>3. /\ a \in ToSet(spool') <=> In(spool', a)
      /\ a \in ToSet(terminal') <=> In(terminal', a)
  BY InMember DEF TypeInv, SpoolTypes, QueueTypes
<1>4. a \in Volatile <=> InMemory(a)
  BY <1>1, <1>2 DEF Volatile, InMemory
<1>5. a \in Volatile' <=> InMemory(a)'
  BY <1>1, <1>3 DEF Volatile, InMemory
<1> QED BY <1>2, <1>3, <1>4, <1>5 DEF Fate

LEMMA FateFacts ==
    ASSUME TypeInv, HomeInv, TypeInv'
    PROVE  /\ FateOf \in [Terminal -> Promise!Fates]
           /\ \A a \in Terminal :
                 /\ FateOf[a] = "settled" <=> a \in settled
                 /\ FateOf[a] = "lost" <=> a \in lost /\ a \notin settled
                 /\ FateOf[a] = "spooled" <=> In(spool, a) /\ a \notin settled
                 /\ a \notin produced => FateOf[a] = "new"
                 /\ Kept(a) \/ InMemory(a) => FateOf[a] # "new"
                 /\ FateOf[a] = "memory" <=> InMemory(a) /\ ~ Kept(a)
<1>1. ASSUME NEW a \in Terminal
      PROVE  FateOf[a] = IF a \in settled THEN "settled"
                         ELSE IF a \in lost THEN "lost"
                         ELSE IF In(spool, a) THEN "spooled"
                         ELSE IF InMemory(a) THEN "memory" ELSE "new"
  BY FateDef DEF FateOf
<1>2. ASSUME NEW a \in Terminal, a \notin produced
      PROVE  a \notin settled /\ a \notin lost /\ ~ In(spool, a) /\ ~ InMemory(a)
  BY <1>2 DEF HomeInv, FreshOps, InMemory
<1>3. \A a \in Terminal : In(spool, a) => a \notin lost
  BY DEF HomeInv, SpoolHeads
<1>4. FateOf \in [Terminal -> Promise!Fates]
  BY <1>1 DEF FateOf, Promise!Fates
<1> QED BY <1>1, <1>2, <1>3, <1>4 DEF Kept

(* A step that changes nobody's fate. *)
SameMemory == \A a \in Terminal : Kept(a) \/ (InMemory(a)' <=> InMemory(a))

LEMMA FateSame ==
    ASSUME TypeInv, HomeInv, TypeInv', SameMemory, UNCHANGED <<settled, lost>>,
           \A a \in Terminal : a \in settled \/ (In(spool', a) <=> In(spool, a))
    PROVE  UNCHANGED FateOf
<1>1. ASSUME NEW a \in Terminal PROVE Fate(a)' = Fate(a)
  BY FateDef DEF SameMemory, Kept
<1> QED BY <1>1 DEF FateOf

(* An operation is settled, and may leave the spool and the memory. *)
LEMMA FateSettle ==
    ASSUME TypeInv, HomeInv, TypeInv', NEW o, Kept(o) \/ InMemory(o),
           settled' = settled \cup {o}, lost' = lost,
           \A a \in Terminal : a = o \/ (In(spool', a) <=> In(spool, a)),
           \A a \in Terminal : a = o \/ (InMemory(a)' <=> InMemory(a))
    PROVE  Promise!Settle \/ UNCHANGED FateOf
<1>1. ASSUME NEW a \in Terminal, a # o PROVE Fate(a)' = Fate(a)
  BY <1>1, FateDef
<1>2. ASSUME o \in Terminal PROVE Fate(o)' = "settled"
  BY <1>2, FateDef
<1>3. CASE o \notin Terminal
  BY <1>1, <1>3 DEF FateOf
<1>4. CASE o \in Terminal /\ o \in settled
  <2>1. Fate(o)' = Fate(o)
    BY <1>2, <1>4, FateDef
  <2> QED BY <1>1, <2>1 DEF FateOf
<1>5. CASE o \in Terminal /\ o \notin settled
  <2>1. FateOf[o] # "new" /\ FateOf[o] # "settled"
    BY <1>5, FateFacts
  <2>2. o \in Terminal \ (Promise!In("new") \cup Promise!In("settled"))
    BY <1>5, <2>1 DEF Promise!In, FateOf
  <2>3. Promise!Change({o}, "settled")
    BY <1>1, <1>2, <1>5 DEF Promise!Change
  <2> QED BY <2>2, <2>3 DEF Promise!Settle
<1> QED BY <1>3, <1>4, <1>5

(* An operation that nobody has seen comes into the queue. *)
LEMMA FateAccept ==
    ASSUME TypeInv, HomeInv, TypeInv', NEW o \in Ops, o \notin produced, Enqueue(o),
           UNCHANGED <<spool, held, settled, lost>>
    PROVE  Promise!Accept \/ UNCHANGED FateOf
<1>1. CASE o \notin Terminal
  <2>1. terminal' = terminal
    BY <1>1 DEF Enqueue, Terminal
  <2>2. SameMemory
    BY <2>1 DEF SameMemory, InMemory
  <2> QED BY <2>2, FateSame
<1>2. CASE o \in Terminal
  <2>1. terminal' = Append(terminal, o) /\ terminal \in Seq(Terminal) /\ Distinct(terminal)
    BY <1>2 DEF Enqueue, Terminal, TypeInv, QueueTypes, HomeInv, OneRow
  <2>2. o \notin settled /\ o \notin lost /\ ~ In(spool, o) /\ ~ In(terminal, o)
    BY <1>2 DEF HomeInv, FreshOps
  <2>3. \A a : In(terminal', a) <=> In(terminal, a) \/ a = o
    BY <1>2, <2>1, <2>2, AppendFacts
  <2>4. \A a : InMemory(a)' <=> InMemory(a) \/ a = o
    BY <2>3 DEF InMemory
  <2>5. ASSUME NEW a \in Terminal, a # o PROVE Fate(a)' = Fate(a)
    BY <2>4, <2>5, FateDef
  <2>6. Fate(o)' = "memory"
    BY <1>2, <2>2, <2>4, FateDef
  <2>7. o \in Promise!In("new")
    BY <1>2, FateFacts DEF Promise!In, FateOf
  <2>8. Promise!Change({o}, "memory")
    BY <1>2, <2>5, <2>6 DEF Promise!Change
  <2> QED BY <2>7, <2>8 DEF Promise!Accept
<1> QED BY <1>1, <1>2

(* When the head of the spool is not settled no row is, so that the spool  *)
(* is as long as the abstract one.                                         *)
LEMMA SpooledRows ==
    ASSUME TypeInv, HomeInv, TypeInv', spool # <<>>, Head(spool) \notin settled
    PROVE  Cardinality(Promise!In("spooled")) = Len(spool)
<1>1. /\ spool \in Seq(Terminal) /\ Distinct(spool) /\ DOMAIN spool = 1..Len(spool)
      /\ Len(spool) \in Nat /\ 1 \in 1..Len(spool) /\ Head(spool) = spool[1]
  BY DEF TypeInv, SpoolTypes, HomeInv, OneRow
<1>2. ASSUME NEW i \in 1..Len(spool) PROVE spool[i] \in Terminal /\ spool[i] \notin settled
  <2>1. InLane(spool, spool[1], spool[i])
    BY <1>1 DEF InLane
  <2> QED BY <1>1, <2>1 DEF HomeInv, SpoolHeads
<1>3. \A a \in Terminal : a \in Promise!In("spooled") <=> In(spool, a) /\ a \notin settled
  BY FateFacts DEF Promise!In, FateOf
<1>4. \A a : In(spool, a) <=> \E i \in 1..Len(spool) : spool[i] = a
  BY <1>1, InMember
<1>5. \A a : a \in Promise!In("spooled") <=> \E i \in 1..Len(spool) : spool[i] = a
  BY <1>2, <1>3, <1>4 DEF Promise!In
<1> DEFINE S == Promise!In("spooled")
<1> HIDE DEF S
<1>6. spool \in [1..Len(spool) -> S]
  <2>1. \A a : a \in S <=> \E i \in 1..Len(spool) : spool[i] = a
    BY <1>5 DEF S
  <2>2. spool = [i \in 1..Len(spool) |-> spool[i]]
    BY <1>1
  <2> QED BY <2>1, <2>2
<1>7. spool \in Bijection(1..Len(spool), S)
  <2>1. \A i, j \in 1..Len(spool) : spool[i] = spool[j] => i = j
    BY <1>1 DEF Distinct
  <2>2. \A a \in S : \E i \in 1..Len(spool) : spool[i] = a
    BY <1>5 DEF S
  <2> QED BY <1>6, <2>1, <2>2 DEF Bijection, Injection, Surjection, IsInjective
<1>8. Cardinality(S) = Len(spool)
  BY <1>1, <1>7, FS_CountingElements DEF ExistsBijection
<1> QED BY <1>8 DEF S

LEMMA SameCardinality == \A S : Promise!Cardinality(S) = Cardinality(S)
BY DEF Cardinality, Promise!Cardinality

(* A row is stored. *)
LEMMA FateSpool ==
    ASSUME TypeInv, HomeInv, TypeInv', NEW o \in Terminal, SpoolPut(o),
           ~ In(spool, o), o \notin settled, o \notin lost, settled' = settled,
           \A a \in Terminal : a = o \/ (InMemory(a)' <=> InMemory(a))
    PROVE  Promise!Spool
<1> DEFINE evicted == {a \in Terminal : In(spool, a) /\ ~ In(spool', a) /\ a \notin settled}
<1>1. /\ In(spool', o)
      /\ \A a : In(spool', a) => In(spool, a) \/ a = o
      /\ \A a : In(spool, a) /\ ~ In(spool', a) =>
             a = Head(spool) /\ spool # <<>> /\ Len(spool) >= SpoolMax /\ a \in settled \cup lost'
      /\ lost \subseteq lost'
      /\ \A a \in lost' : a \in lost \/ (In(spool, a) /\ ~ In(spool', a) /\ a \notin settled)
  BY SpoolPutFacts DEF TypeInv, HomeInv, OneRow
<1>2. \A a : In(spool, a) => a \notin lost
  BY DEF HomeInv, SpoolHeads
<1>3. Fate(o)' = "spooled"
  BY <1>1, FateDef
<1>4. ASSUME NEW a \in evicted PROVE Fate(a)' = "lost" /\ a # o
  BY <1>1, FateDef
<1>5. ASSUME NEW a \in Terminal, a \notin evicted, a # o PROVE Fate(a)' = Fate(a)
  BY <1>1, <1>2, <1>5, FateDef
<1>6. o \in Promise!In("new") \cup Promise!In("memory")
  <2>1. Fate(o) = "new" \/ Fate(o) = "memory"
    BY FateDef
  <2> QED BY <2>1 DEF Promise!In
<1>7. evicted \in SUBSET Promise!In("spooled")
  <2>1. ASSUME NEW a \in evicted PROVE a \in Promise!In("spooled")
    BY FateFacts DEF Promise!In, FateOf
  <2> QED BY <2>1
<1>8. evicted # {} => Cardinality(Promise!In("spooled")) >= SpoolMax
  <2> SUFFICES ASSUME NEW a \in evicted PROVE Cardinality(Promise!In("spooled")) >= SpoolMax
    OBVIOUS
  <2>1. spool # <<>> /\ Head(spool) \notin settled /\ Len(spool) >= SpoolMax
    BY <1>1
  <2>2. Cardinality(Promise!In("spooled")) = Len(spool)
    BY <2>1, SpooledRows
  <2> QED BY <2>1, <2>2
<1>9. FateOf' = [q \in Terminal |-> IF q = o THEN "spooled"
                                   ELSE IF q \in evicted THEN "lost" ELSE FateOf[q]]
  BY <1>3, <1>4, <1>5 DEF FateOf
<1> HIDE DEF evicted
<1>10. \E r \in Promise!In("new") \cup Promise!In("memory"), rest \in SUBSET Promise!In("spooled") :
           /\ rest # {} => Cardinality(Promise!In("spooled")) >= SpoolMax
           /\ FateOf' = [q \in Terminal |-> IF q = r THEN "spooled"
                                           ELSE IF q \in rest THEN "lost" ELSE FateOf[q]]
  <2> WITNESS o \in Promise!In("new") \cup Promise!In("memory"), evicted \in SUBSET Promise!In("spooled")
  <2> QED BY <1>8, <1>9
<1> QED BY <1>10, SameCardinality DEF Promise!Spool, FateOf

LEMMA FateCrash ==
    ASSUME TypeInv, HomeInv, TypeInv', Crash
    PROVE  Promise!Crash
<1>1. terminal' = <<>> /\ lost' = lost \cup Gone /\ UNCHANGED <<spool, held, settled>>
  BY DEF Crash, drain, threads
<1>2. ASSUME NEW a \in Terminal PROVE a \in Gone <=> InMemory(a) /\ ~ In(spool, a) /\ a \notin settled
  <2>1. /\ a \in ToSet(spool) <=> In(spool, a)
        /\ a \in ToSet(terminal) <=> In(terminal, a)
    BY InMember DEF TypeInv, SpoolTypes, QueueTypes
  <2>2. a # Nothing
    BY OpsFacts
  <2> QED BY <2>1, <2>2 DEF Gone, Volatile, InMemory
<1>3. \A a : ~ In(terminal', a)
  BY <1>1, EmptyFacts DEF In
<1>4. \A a : InMemory(a)' => InMemory(a)
  BY <1>1, <1>3 DEF InMemory
<1>5. ASSUME NEW a \in Terminal, FateOf[a] = "memory" PROVE Fate(a)' = "lost"
  <2>1. InMemory(a) /\ ~ Kept(a)
    BY <1>5, FateFacts
  <2> QED BY <1>1, <1>2, <2>1, FateDef DEF Kept
<1>6. ASSUME NEW a \in Terminal, FateOf[a] # "memory" PROVE Fate(a)' = Fate(a)
  <2>1. ~ InMemory(a) \/ Kept(a)
    BY <1>6, FateFacts
  <2>2. In(spool, a) => a \notin lost
    BY DEF HomeInv, SpoolHeads
  <2> QED BY <1>1, <1>2, <1>4, <2>1, <2>2, FateDef DEF Kept
<1>7. \A a \in Terminal : a \in Promise!In("memory") <=> FateOf[a] = "memory"
  BY DEF Promise!In, FateOf
<1> QED BY <1>5, <1>6, <1>7 DEF Promise!Crash, Promise!Change, FateOf

LEMMA FateBoot ==
    ASSUME TypeInv, HomeInv, TypeInv', Boot
    PROVE  UNCHANGED FateOf
<1>1. /\ terminal' = <<>> /\ terminal = <<>> /\ (\A w \in Workers : held'[w] = Nothing)
      /\ UNCHANGED <<spool, settled, lost>>
      /\ \A w \in Workers : held[w] \in Terminal => Kept(held[w])
  BY DEF Boot, lanes, history, HomeInv, DownKept
<1>2. Nothing \notin Terminal
  BY OpsFacts
<1>3. SameMemory
  BY <1>1, <1>2, EmptyFacts DEF SameMemory, InMemory, In
<1> QED BY <1>1, <1>3, FateSame

LEMMA FateQuiet ==
    ASSUME TypeInv, HomeInv, TypeInv', UNCHANGED <<terminal, held, spool, settled, lost>>
    PROVE  UNCHANGED FateOf
<1>1. SameMemory
  BY DEF SameMemory, InMemory
<1> QED BY <1>1, FateSame

(* The memory of a worker that lets go of what it holds. *)
LEMMA ReleasedMemory ==
    ASSUME TypeInv, NEW w \in Workers, Release(w), terminal' = terminal
    PROVE  \A a \in Terminal : a = held[w] \/ (InMemory(a)' <=> InMemory(a))
<1>1. held'[w] = Nothing /\ \A v \in Workers : v # w => held'[v] = held[v]
  BY DEF Release, TypeInv, ThreadTypes
<1>2. Nothing \notin Terminal
  BY OpsFacts
<1>3. ASSUME NEW a \in Terminal, a # held[w]
      PROVE  (\E v \in Workers : held'[v] = a) <=> (\E v \in Workers : held[v] = a)
  BY <1>1, <1>2, <1>3
<1> QED BY <1>3 DEF InMemory

LEMMA FateRelease ==
    ASSUME TypeInv, HomeInv, TypeInv', NEW w \in Workers, Release(w),
           held[w] \in Terminal => Kept(held[w]),
           UNCHANGED <<terminal, settled, lost>>,
           \A a \in Terminal : a \in settled \/ (In(spool', a) <=> In(spool, a))
    PROVE  UNCHANGED FateOf
<1>1. SameMemory
  BY ReleasedMemory DEF SameMemory
<1> QED BY <1>1, FateSame

LEMMA FateConsume ==
    ASSUME TypeInv, HomeInv, TypeInv', NEW w \in Workers, Consume(w),
           UNCHANGED <<terminal, spool, lost>>
    PROVE  Promise!Settle \/ UNCHANGED FateOf
<1>1. settled' = settled \cup {held[w]}
  BY DEF Consume
<1>2. \A a \in Terminal : a = held[w] \/ (InMemory(a)' <=> InMemory(a))
  <2>1. CASE held' = held
    BY <2>1 DEF InMemory
  <2>2. CASE Release(w)
    BY <2>2, ReleasedMemory
  <2> QED BY <2>1, <2>2 DEF Consume
<1>3. InMemory(held[w])
  BY DEF InMemory
<1> QED BY <1>1, <1>2, <1>3, FateSettle

LEMMA FateRetain ==
    ASSUME TypeInv, HomeInv, TypeInv', NEW w \in Workers, pc[w] \in {"send", "sent"}, Retain(w),
           UNCHANGED <<terminal, spool, lost>>
    PROVE  UNCHANGED FateOf
<1>1. settled' = settled
  BY DEF Retain
<1>2. CASE held' = held
  BY <1>1, <1>2, FateQuiet
<1>3. CASE Release(w) /\ (fromSpool[w] \/ held[w] \notin Terminal)
  <2>1. held[w] \in Terminal => Kept(held[w])
    BY <1>3, OpsFacts DEF HomeInv, RowsKept
  <2> QED BY <1>1, <1>3, <2>1, FateRelease
<1> QED BY <1>2, <1>3 DEF Retain

LEMMA FateClaim ==
    ASSUME TypeInv, HomeInv, TypeInv', NEW w \in Workers, Claim(w)
    PROVE  UNCHANGED FateOf
<1>0. /\ pc[w] = "claim" /\ UNCHANGED <<spool, settled, lost>> /\ held[w] = Nothing
  BY DEF Claim, drain, history, TypeInv, PlaceTypes, PlaceType, Busy
<1>1. CASE UNCHANGED <<terminal, held>>
  BY <1>0, <1>1, FateQuiet
<1>2. ASSUME NEW o \in Ops, Hold(w, o, FALSE), o \in Terminal => In(terminal, o),
             \A a : In(terminal', a) <=> In(terminal, a) /\ a # o
      PROVE  UNCHANGED FateOf
  <2>1. held'[w] = o /\ \A v \in Workers : v # w => held'[v] = held[v]
    BY <1>2 DEF Hold, TypeInv, ThreadTypes
  <2>2. ASSUME NEW a \in Terminal, a # o PROVE InMemory(a)' <=> InMemory(a)
    <3>1. a # Nothing
      BY OpsFacts
    <3> QED BY <1>0, <1>2, <2>1, <2>2, <3>1 DEF InMemory
  <2>3. o \in Terminal => InMemory(o) /\ InMemory(o)'
    BY <1>2, <2>1 DEF InMemory
  <2>4. SameMemory
    BY <2>2, <2>3 DEF SameMemory
  <2> QED BY <1>0, <2>4, FateSame
<1> QED BY <1>1, <1>2, ClaimFacts DEF HomeInv, OneRow

LEMMA FateReplay ==
    ASSUME TypeInv, HomeInv, TypeInv', NEW w \in Workers, Replay(w)
    PROVE  Promise!Settle \/ UNCHANGED FateOf
<1> DEFINE h == Head(rows)
<1>0. /\ pc[w] = "replay" /\ held[w] = Nothing /\ UNCHANGED <<terminal, lost>>
  BY DEF Replay, TypeInv, PlaceTypes, PlaceType, Busy, lanes
<1>1. rows # <<>> => Kept(h)
  <2>1. rows \in Seq(Terminal) /\ Distinct(rows)
    BY DEF TypeInv, SpoolTypes, HomeInv, OneRow
  <2>2. rows # <<>> => In(rows, h)
    BY <2>1, TailFacts
  <2> QED BY <2>2 DEF HomeInv, RowsKept
<1> HIDE DEF h
<1>2. CASE UNCHANGED <<spool, held, settled>>
  BY <1>0, <1>2, FateQuiet
<1>3. CASE /\ rows # <<>> /\ spool' = Deleted(h) /\ settled' = settled \cup {h}
           /\ held' = held
  <2>1. \A a : In(spool', a) <=> In(spool, a) /\ a # h
    BY <1>3, DeletedFacts DEF TypeInv, HomeInv, OneRow
  <2>2. \A a : InMemory(a)' <=> InMemory(a)
    BY <1>0, <1>3 DEF InMemory
  <2> QED BY <1>0, <1>1, <1>3, <2>1, <2>2, FateSettle
<1>4. CASE rows # <<>> /\ Hold(w, h, TRUE) /\ UNCHANGED <<spool, settled>>
  <2>1. held'[w] = h /\ \A v \in Workers : v # w => held'[v] = held[v]
    BY <1>4 DEF Hold, TypeInv, ThreadTypes
  <2>2. ASSUME NEW a \in Terminal, a # h PROVE InMemory(a)' <=> InMemory(a)
    <3>1. a # Nothing
      BY OpsFacts
    <3> QED BY <1>0, <2>1, <2>2, <3>1 DEF InMemory
  <2>3. SameMemory
    BY <1>1, <1>4, <2>2 DEF SameMemory
  <2> QED BY <1>0, <1>4, <2>3, FateSame
<1> QED BY <1>2, <1>3, <1>4 DEF Replay, h

LEMMA FateDelete ==
    ASSUME TypeInv, HomeInv, TypeInv', NEW w \in Workers, Delete(w)
    PROVE  UNCHANGED FateOf
<1>1. /\ spool' = Deleted(held[w]) /\ held[w] \in settled /\ Release(w)
      /\ UNCHANGED <<terminal, settled, lost>>
  BY DEF Delete, HomeInv, PlacesKept, lanes, history
<1>2. \A a : In(spool', a) <=> In(spool, a) /\ a # held[w]
  BY <1>1, DeletedFacts DEF TypeInv, HomeInv, OneRow
<1>3. Kept(held[w])
  BY <1>1 DEF Kept
<1> QED BY <1>1, <1>2, <1>3, FateRelease

(* What a worker does to the fates. *)
LEMMA FateWork ==
    ASSUME TypeInv, HomeInv, TypeInv', NEW w \in Workers, Work(w)
    PROVE  Promise!Next \/ UNCHANGED FateOf
<1>0. Up /\ PlaceType(w)
  BY DEF Work, TypeInv, PlaceTypes
<1>1. CASE Loop(w) \/ List(w) \/ EndReplay(w)
  <2>1. UNCHANGED <<terminal, held, spool, settled, lost>>
    BY <1>1 DEF Loop, List, EndReplay, lanes, history
  <2> QED BY <2>1, FateQuiet
<1>2. CASE Send(w) \/ Answer(w) \/ Reported(w)
  <2>1. /\ UNCHANGED <<terminal, spool, lost>>
        /\ \/ Consume(w)
           \/ Retain(w) /\ pc[w] \in {"send", "sent"}
           \/ UNCHANGED <<held, settled>>
    BY <1>2 DEF Send, Answer, Reported, lanes, drain
  <2>2. CASE Consume(w)
    BY <2>1, <2>2, FateConsume DEF Promise!Next
  <2>3. CASE Retain(w) /\ pc[w] \in {"send", "sent"}
    BY <2>1, <2>3, FateRetain
  <2>4. CASE UNCHANGED <<held, settled>>
    BY <2>1, <2>4, FateQuiet
  <2> QED BY <2>1, <2>2, <2>3, <2>4
<1>3. CASE Report(w)
  <2> DEFINE event == ReportOf[held[w]]
  <2>1. event \in Terminal /\ event \in Ops
    BY <1>0, <1>3, OpsFacts DEF Report, PlaceType
  <2>2. UNCHANGED <<held, settled>>
    BY <1>3 DEF Report
  <2> HIDE DEF event
  <2>3. CASE UNCHANGED <<lanes, spool, lost>>
    BY <2>2, <2>3, FateQuiet DEF lanes
  <2>4. CASE event \notin produced /\ Enqueue(event) /\ UNCHANGED <<spool, lost>>
    BY <2>1, <2>2, <2>4, FateAccept DEF Promise!Next
  <2>5. CASE event \notin produced /\ SpoolPut(event) /\ UNCHANGED lanes
    <3>1. ~ In(spool, event) /\ event \notin settled /\ event \notin lost
      BY <2>1, <2>5 DEF HomeInv, FreshOps
    <3>2. \A a : InMemory(a)' <=> InMemory(a)
      BY <2>2, <2>5 DEF InMemory, lanes
    <3> QED BY <2>1, <2>2, <2>5, <3>1, <3>2, FateSpool DEF Promise!Next
  <2> QED BY <1>3, <2>3, <2>4, <2>5 DEF Report, event
<1>4. CASE SpoolHeld(w)
  <2>1. /\ SpoolPut(held[w]) /\ held[w] \in Terminal /\ Carries(w)
        /\ UNCHANGED <<terminal, held, settled>>
    BY <1>0, <1>4 DEF SpoolHeld, PlaceType, Carries, lanes
  <2>2. ~ In(spool, held[w]) /\ held[w] \notin settled /\ held[w] \notin lost
    BY <1>0, <2>1 DEF HomeInv, CarriedOnce
  <2>3. \A a : InMemory(a)' <=> InMemory(a)
    BY <2>1 DEF InMemory
  <2> QED BY <2>1, <2>2, <2>3, FateSpool DEF Promise!Next
<1>5. CASE WakeDrainer(w)
  <2>1. Release(w) /\ Kept(held[w]) /\ UNCHANGED <<terminal, spool, settled, lost>>
    BY <1>5 DEF WakeDrainer, HomeInv, PlacesKept, lanes, history
  <2> QED BY <2>1, FateRelease
<1> QED BY <1>1, <1>2, <1>3, <1>4, <1>5, FateClaim, FateReplay, FateDelete DEF Work, Promise!Next

LEMMA FatePersist ==
    ASSUME TypeInv, HomeInv, TypeInv', Persist
    PROVE  Promise!Next \/ UNCHANGED FateOf
<1>0. UNCHANGED <<held, settled>>
  BY DEF Persist, threads
<1>1. CASE terminal = <<>>
  <2>1. UNCHANGED <<terminal, spool, lost>>
    BY <1>1 DEF Persist
  <2> QED BY <1>0, <2>1, FateQuiet
<1>2. CASE terminal # <<>>
  <2> DEFINE o == Head(terminal)
  <2>1. SpoolPut(o) /\ terminal' = Tail(terminal)
    BY <1>2 DEF Persist
  <2>2. terminal \in Seq(Terminal) /\ o \in Terminal /\ Distinct(terminal)
    BY <1>2 DEF TypeInv, QueueTypes, HomeInv, OneRow
  <2>3. In(terminal, o) /\ \A a : In(terminal', a) <=> In(terminal, a) /\ a # o
    BY <1>2, <2>1, <2>2, TailFacts
  <2> HIDE DEF o
  <2>4. ~ In(spool, o) /\ o \notin settled /\ o \notin lost
    BY <2>3 DEF HomeInv, QueuedOnce
  <2>5. \A a : a = o \/ (InMemory(a)' <=> InMemory(a))
    BY <1>0, <2>3 DEF InMemory
  <2> QED BY <1>0, <2>1, <2>2, <2>4, <2>5, FateSpool DEF Promise!Next
<1> QED BY <1>1, <1>2

LEMMA FateStep ==
    TypeInv /\ HomeInv /\ TypeInv' /\ [Next]_vars => [Promise!Next]_FateOf
<1> SUFFICES ASSUME TypeInv, HomeInv, TypeInv', [Next]_vars
             PROVE  Promise!Next \/ UNCHANGED FateOf
  OBVIOUS
<1>1. CASE Produce
  <2>1. NextOp \in Ops /\ NextOp \notin produced
    BY <1>1, NextOpIn, OpsFacts DEF Produce
  <2>2. UNCHANGED <<held, settled>>
    BY <1>1 DEF Produce, threads
  <2>3. CASE Enqueue(NextOp) /\ UNCHANGED <<drain, lost>>
    BY <2>1, <2>2, <2>3, FateAccept DEF drain, Promise!Next
  <2>4. CASE ClassOf[NextOp] = "TERMINAL" /\ SpoolPut(NextOp) /\ UNCHANGED lanes
    <3>1. NextOp \in Terminal
      BY <2>1, <2>4 DEF Terminal
    <3>2. ~ In(spool, NextOp) /\ NextOp \notin settled /\ NextOp \notin lost
      BY <2>1, <3>1 DEF HomeInv, FreshOps
    <3>3. \A a : InMemory(a)' <=> InMemory(a)
      BY <2>2, <2>4 DEF InMemory, lanes
    <3> QED BY <2>2, <2>4, <3>1, <3>2, <3>3, FateSpool DEF Promise!Next
  <2> QED BY <1>1, <2>3, <2>4 DEF Produce
<1>2. CASE UNCHANGED <<terminal, held, spool, settled, lost>>
  BY <1>2, FateQuiet
<1>3. CASE MarkSpooled \/ GoDown \/ ComeBack
  BY <1>2, <1>3 DEF MarkSpooled, GoDown, ComeBack, threads, lanes, drain, history
<1>4. CASE Stop \/ RequestStop \/ Join
  BY <1>2, <1>4 DEF Stop, RequestStop, Join, threads, lanes, drain, history
<1>5. CASE \/ \E k \in Keys : LoseResources(k)
           \/ \E job \in {"recover", "reconcile"} : Provision(job)
           \/ \E o \in Ops : Expire(o)
  BY <1>2, <1>5 DEF LoseResources, Provision, Expire, threads, lanes, drain, history
<1>6. CASE UNCHANGED vars
  BY <1>2, <1>6 DEF vars, threads, lanes, drain, history
<1>7. CASE Persist \/ Crash \/ Boot
  BY <1>7, FatePersist, FateCrash, FateBoot DEF Promise!Next
<1> QED BY <1>1, <1>3, <1>4, <1>5, <1>6, <1>7, FateWork DEF Next

LEMMA FateInit == Init => Promise!Init
<1> SUFFICES ASSUME Init PROVE Promise!Init
  OBVIOUS
<1>1. \A o : Fate(o) \in {"new", "spooled"}
  <2>1. /\ terminal = <<>> /\ settled = {} /\ lost = {}
        /\ \A w \in Workers : held[w] = Nothing
    BY DEF Init
  <2>2. Volatile = {}
    <3>1. ToSet(terminal) = {}
      BY <2>1 DEF ToSet
    <3> QED BY <2>1, <3>1 DEF Volatile
  <2> QED BY <2>1, <2>2 DEF Fate
<1> QED BY <1>1 DEF Promise!Init

(* The outbound half keeps what it promises for TERMINAL operations        *)
(* (put, _send_with_retry, _drain_spool, persist_pending): whatever the    *)
(* workers, the spool, crashes and restarts do, an accepted operation is   *)
(* settled or kept; only a crash loses what is in memory, and only a full  *)
(* spool gives up rows.                                                    *)
THEOREM OutboundImplementsDelivery == Spec => DeliverySpec
<1>1. Init => SerialInv
  BY DEF Init, SerialInv, Holders
<1>2. TypeInv /\ SerialInv /\ [Next]_vars => SerialInv'
  BY SerialStep
<1>3. TypeInv /\ Joined /\ [Next]_vars => Joined'
  BY JoinedStep
<1>4. TypeInv /\ SerialInv /\ Joined /\ HomeInv /\ [Next]_vars => HomeInv'
  BY HomeStep
<1> QED BY <1>1, <1>2, <1>3, <1>4, HomeInit, TypesInit, TypesStep, FateInit, FateStep, PTL
        DEF Spec, DeliverySpec, Promise!Spec, FateOf
=============================================================================

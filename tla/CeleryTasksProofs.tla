---------------------------- MODULE CeleryTasksProofs ----------------------------
(* Proofs about the Celery workers, for every backlog, any number of nodes *)
(* and children, and any number of deaths.                                 *)
EXTENDS CeleryTasks, FiniteSetTheorems, SequenceTheorems, TLAPS

-----------------------------------------------------------------------------
(* How many copies of a message a sequence holds.                          *)
Positions(seq, m) == {i \in DOMAIN seq : seq[i] = m}

LEMMA PositionsFinite ==
  ASSUME NEW S, NEW seq \in Seq(S), NEW m
  PROVE  /\ IsFiniteSet(Positions(seq, m))
         /\ Copies(seq, m) = Cardinality(Positions(seq, m))
         /\ Copies(seq, m) \in Nat
         /\ Copies(seq, m) > 0 <=> \E i \in DOMAIN seq : seq[i] = m
<1>1. IsFiniteSet(DOMAIN seq)
  BY FS_Interval
<1>2. IsFiniteSet(Positions(seq, m))
  BY <1>1, FS_Subset DEF Positions
<1>3. Copies(seq, m) = Cardinality(Positions(seq, m))
  BY DEF Copies, Positions
<1>4. Cardinality(Positions(seq, m)) \in Nat
  BY <1>2, FS_CardinalityType
<1>5. Cardinality(Positions(seq, m)) = 0 <=> Positions(seq, m) = {}
  BY <1>2, FS_EmptySet
<1>6. Copies(seq, m) > 0 <=> Positions(seq, m) # {}
  BY <1>3, <1>4, <1>5
<1>. QED  BY <1>2, <1>3, <1>4, <1>6 DEF Positions

LEMMA NoCopies ==
  ASSUME NEW m
  PROVE  Copies(<<>>, m) = 0
<1>1. {i \in DOMAIN <<>> : <<>>[i] = m} = {}
  OBVIOUS
<1>. QED  BY <1>1, FS_EmptySet DEF Copies

(* A set moved by one place has as many elements.                          *)
LEMMA ShiftedSize ==
  ASSUME NEW A \in SUBSET Nat, IsFiniteSet(A)
  PROVE  LET B == {i + 1 : i \in A}
         IN  IsFiniteSet(B) /\ Cardinality(B) = Cardinality(A)
<1>. DEFINE B == {i + 1 : i \in A}
            f == [i \in A |-> i + 1]
<1>1. f \in Bijection(A, B)
  BY DEF Bijection, Injection, Surjection, IsInjective
<1>2. ExistsBijection(A, B)
  BY <1>1 DEF ExistsBijection
<1>. QED  BY <1>2, FS_Bijection

LEMMA CopiesAppend ==
  ASSUME NEW S, NEW seq \in Seq(S), NEW x \in S, NEW m
  PROVE  Copies(Append(seq, x), m) = Copies(seq, m) + (IF x = m THEN 1 ELSE 0)
<1>. DEFINE P == Positions(seq, m)
            Q == Positions(Append(seq, x), m)
<1>1. Append(seq, x) \in Seq(S) /\ Len(Append(seq, x)) = Len(seq) + 1
      /\ (\A i \in 1..Len(seq) : Append(seq, x)[i] = seq[i])
      /\ Append(seq, x)[Len(seq) + 1] = x
  BY AppendProperties
<1>2. Q = IF x = m THEN P \cup {Len(seq) + 1} ELSE P
  BY <1>1 DEF Positions
<1>3. Len(seq) + 1 \notin P
  BY DEF Positions
<1>4. IsFiniteSet(P) /\ Copies(seq, m) = Cardinality(P)
      /\ Copies(Append(seq, x), m) = Cardinality(Q)
  BY <1>1, PositionsFinite
<1>5. Cardinality(P \cup {Len(seq) + 1}) = Cardinality(P) + 1
  BY <1>3, <1>4, FS_AddElement
<1>6. Cardinality(P) \in Nat
  BY <1>4, FS_CardinalityType
<1>. QED  BY <1>2, <1>4, <1>5, <1>6

LEMMA CopiesTail ==
  ASSUME NEW S, NEW seq \in Seq(S), seq # <<>>, NEW m
  PROVE  Copies(seq, m) = Copies(Tail(seq), m) + (IF Head(seq) = m THEN 1 ELSE 0)
<1>. DEFINE P == Positions(Tail(seq), m)
            B == {i + 1 : i \in P}
            Q == Positions(seq, m)
<1>1. Tail(seq) \in Seq(S) /\ Len(Tail(seq)) = Len(seq) - 1 /\ Head(seq) = seq[1]
      /\ \A i \in 1..Len(Tail(seq)) : Tail(seq)[i] = seq[i + 1]
  BY HeadTailProperties
<1>2. Len(seq) \in Nat \ {0}
  BY EmptySeq, LenProperties
<1>3. Q = IF Head(seq) = m THEN B \cup {1} ELSE B
  <2>1. ASSUME NEW i \in Q, i # 1
        PROVE  i \in B
    <3>1. i - 1 \in 1..Len(Tail(seq)) /\ i = (i - 1) + 1
      BY <1>1, <1>2, <2>1 DEF Positions
    <3>2. i - 1 \in P
      BY <1>1, <2>1, <3>1 DEF Positions
    <3>. QED  BY <3>1, <3>2
  <2>2. B \subseteq Q
    BY <1>1, <1>2 DEF Positions
  <2>3. 1 \in Q <=> Head(seq) = m
    BY <1>1, <1>2 DEF Positions
  <2>. QED  BY <2>1, <2>2, <2>3
<1>4. 1 \notin B
  BY DEF Positions
<1>5. IsFiniteSet(P) /\ Copies(Tail(seq), m) = Cardinality(P) /\ Copies(seq, m) = Cardinality(Q)
  BY <1>1, PositionsFinite
<1>6. P \in SUBSET Nat
  BY <1>1 DEF Positions
<1>7. IsFiniteSet(B) /\ Cardinality(B) = Cardinality(P)
  BY <1>5, <1>6, ShiftedSize
<1>8. Cardinality(B \cup {1}) = Cardinality(B) + 1 /\ Cardinality(B) \in Nat
  BY <1>4, <1>7, FS_AddElement, FS_CardinalityType
<1>. QED  BY <1>3, <1>5, <1>7, <1>8

LEMMA CopiesCons ==
  ASSUME NEW S, NEW seq \in Seq(S), NEW x \in S, NEW m
  PROVE  /\ <<x>> \o seq \in Seq(S)
         /\ Copies(<<x>> \o seq, m) = Copies(seq, m) + (IF x = m THEN 1 ELSE 0)
<1>1. <<x>> \in Seq(S) /\ Len(<<x>>) = 1 /\ <<x>>[1] = x
  OBVIOUS
<1>2. /\ <<x>> \o seq \in Seq(S) /\ Len(<<x>> \o seq) = 1 + Len(seq)
      /\ \A i \in 1..(1 + Len(seq)) : (<<x>> \o seq)[i] = IF i <= 1 THEN <<x>>[i] ELSE seq[i - 1]
  BY <1>1, ConcatProperties
<1>3. Len(seq) \in Nat
  BY LenProperties
<1>4. <<x>> \o seq # <<>> /\ Head(<<x>> \o seq) = x
  BY <1>1, <1>2, <1>3
<1>5. Tail(<<x>> \o seq) = seq
  <2>1. /\ Tail(<<x>> \o seq) \in Seq(S) /\ Len(Tail(<<x>> \o seq)) = Len(seq)
        /\ \A i \in 1..Len(seq) : Tail(<<x>> \o seq)[i] = (<<x>> \o seq)[i + 1]
    BY <1>2, <1>3, <1>4, HeadTailProperties
  <2>2. \A i \in 1..Len(seq) : Tail(<<x>> \o seq)[i] = seq[i]
    BY <1>2, <1>3, <2>1
  <2>. QED  BY <2>1, <2>2, SeqEqual
<1>. QED  BY <1>2, <1>4, <1>5, CopiesTail
-----------------------------------------------------------------------------
(* The bag of unacknowledged messages.                                     *)
Listed(bag, m) == IF m \in DOMAIN bag THEN bag[m] ELSE 0

LEMMA BagOfBoth ==
  ASSUME NEW A, NEW B, IsABag(A), IsABag(B)
  PROVE  /\ IsABag(A (+) B) /\ DOMAIN (A (+) B) = DOMAIN A \cup DOMAIN B
         /\ \A m : Listed(A (+) B, m) = Listed(A, m) + Listed(B, m)
<1>1. DOMAIN (A (+) B) = DOMAIN A \cup DOMAIN B
  BY DEF (+)
<1>2. \A m \in DOMAIN A : A[m] \in Nat /\ A[m] > 0
  BY DEF IsABag
<1>3. \A m \in DOMAIN B : B[m] \in Nat /\ B[m] > 0
  BY DEF IsABag
<1>4. IsABag(A (+) B)
  BY <1>2, <1>3 DEF IsABag, (+)
<1>5. ASSUME NEW m
      PROVE  Listed(A (+) B, m) = Listed(A, m) + Listed(B, m)
  BY <1>2, <1>3 DEF Listed, (+)
<1>. QED  BY <1>1, <1>4, <1>5

LEMMA BagWithoutOne ==
  ASSUME NEW A, IsABag(A), NEW x \in DOMAIN A
  PROVE  /\ IsABag(A (-) SetToBag({x})) /\ DOMAIN (A (-) SetToBag({x})) \subseteq DOMAIN A
         /\ \A m : Listed(A (-) SetToBag({x}), m) = Listed(A, m) - (IF x = m THEN 1 ELSE 0)
<1>. DEFINE rest == [m \in DOMAIN A |-> IF m = x THEN A[m] - 1 ELSE A[m]]
<1>1. \A m \in DOMAIN A : A[m] \in Nat /\ A[m] > 0
  BY DEF IsABag
<1>2. A (-) SetToBag({x}) = [m \in {k \in DOMAIN rest : rest[k] > 0} |-> rest[m]]
  BY <1>1 DEF (-), SetToBag
<1>3. \A m \in DOMAIN A : rest[m] \in Nat /\ (m # x => rest[m] > 0)
  BY <1>1
<1>4. IsABag(A (-) SetToBag({x})) /\ DOMAIN (A (-) SetToBag({x})) \subseteq DOMAIN A
  BY <1>2, <1>3 DEF IsABag
<1>5. ASSUME NEW m
      PROVE  Listed(A (-) SetToBag({x}), m) = Listed(A, m) - (IF x = m THEN 1 ELSE 0)
  <2>1. Listed(A (-) SetToBag({x}), m) = IF m \in DOMAIN A /\ rest[m] > 0 THEN rest[m] ELSE 0
    BY <1>2 DEF Listed
  <2>2. CASE m = x
    BY <1>1, <2>1, <2>2 DEF Listed
  <2>3. CASE m # x
    BY <1>1, <2>1, <2>3 DEF Listed
  <2>. QED  BY <2>2, <2>3
<1>. QED  BY <1>4, <1>5

-----------------------------------------------------------------------------
(* Typing, with Published for Messages: whatever is on its way has been    *)
(* published.                                                              *)
Taken == [phase : {"running", "written"}, message : Published, acked : BOOLEAN]

TypeInv ==
  /\ queue \in Seq(Published)
  /\ up \in [Nodes -> BOOLEAN]
  /\ reserved \in [Nodes -> Seq(Published)]
  /\ job \in [Children -> {Idle} \cup Taken]
  /\ IsABag(orphans) /\ DOMAIN orphans \subseteq Published
  /\ rows \in [Requests -> Nat]
  /\ docs \in [Requests -> Nat]
  /\ failures \subseteq Published
  /\ crashes \in 0..MaxCrashes

LEMMA PublishedType ==
  /\ Published \subseteq Messages /\ IsFiniteSet(Published) /\ Backlog \in Seq(Published)
  /\ \A m \in Published : m.task \in {"save", "log"} /\ m.id \in Requests
  /\ \A m, k \in Published : m.task = k.task /\ m.id = k.id => m = k
<1>1. Backlog \in [1..Len(Backlog) -> Messages] /\ Len(Backlog) \in Nat
      /\ DOMAIN Backlog = 1..Len(Backlog)
  BY CeleryAssumption, LenProperties
<1>2. Published \subseteq Messages
  BY <1>1 DEF Published
<1>3. Backlog \in Surjection(DOMAIN Backlog, Published)
  BY <1>1 DEF Published, Surjection
<1>4. IsFiniteSet(DOMAIN Backlog)
  BY <1>1, FS_Interval
<1>5. IsFiniteSet(Published)
  BY <1>3, <1>4, FS_Surjection
<1>6. Backlog \in Seq(Published)
  BY <1>1, IsASeq DEF Published
<1>7. \A m, k \in Published : m.task = k.task /\ m.id = k.id => m = k
  BY CeleryAssumption DEF Published
<1>. QED  BY <1>2, <1>5, <1>6, <1>7, CeleryAssumption

LEMMA ChildrenFinite == IsFiniteSet(Children) /\ \A c \in Children : NodeOf(c) \in Nodes
  BY CeleryAssumption, FS_Product DEF Children, NodeOf

LEMMA TypeInit == Init => TypeInv
<1>. SUFFICES ASSUME Init PROVE TypeInv
  OBVIOUS
<1>1. queue \in Seq(Published) /\ <<>> \in Seq(Published)
  BY PublishedType, EmptySeq DEF Init
<1>2. IsABag(orphans) /\ DOMAIN orphans = {}
  BY DEF Init, EmptyBag, SetToBag, IsABag
<1>3. 0 \in 0..MaxCrashes
  BY CeleryAssumption
<1>. QED  BY <1>1, <1>2, <1>3 DEF Init, TypeInv

LEMMA TypeImplies == TypeInv => TypeOK
<1>. SUFFICES ASSUME TypeInv PROVE TypeOK
  OBVIOUS
<1>1. Published \subseteq Messages
  BY PublishedType
<1>2. queue \in Seq(Messages) /\ reserved \in [Nodes -> Seq(Messages)]
  BY <1>1, SeqMonotonic DEF TypeInv
<1>3. job \in [Children -> {Idle} \cup Active]
  BY <1>1 DEF TypeInv, Taken, Active
<1>. QED  BY <1>1, <1>2, <1>3 DEF TypeInv, TypeOK, BagToSet

(* What Redis lists as unacknowledged for a node.                          *)
Begun(n, m) == {c \in UnackedOf(n) : job[c].message = m}

LEMMA UnackedBag ==
  ASSUME TypeInv, NEW n \in Nodes
  PROVE  /\ IsABag(UnackedMessages(n)) /\ DOMAIN UnackedMessages(n) \subseteq Published
         /\ \A m : Listed(UnackedMessages(n), m)
                     = Copies(reserved[n], m) + Cardinality(Begun(n, m))
<1>. DEFINE begun == {job[c].message : c \in UnackedOf(n)}
            held  == {reserved[n][i] : i \in DOMAIN reserved[n]}
            count(m) == Copies(reserved[n], m) + Cardinality(Begun(n, m))
<1>1. UnackedMessages(n) = [m \in begun \cup held |-> count(m)]
  BY DEF UnackedMessages, Begun
<1>2. reserved[n] \in Seq(Published)
  BY DEF TypeInv
<1>3. begun \cup held \subseteq Published
  <2>1. begun \subseteq Published
    BY DEF TypeInv, Taken, UnackedOf, Busy, Idle
  <2>2. held \subseteq Published
    BY <1>2, LenProperties
  <2>. QED  BY <2>1, <2>2
<1>4. ASSUME NEW m
      PROVE  /\ count(m) \in Nat
             /\ count(m) > 0 <=> m \in begun \cup held
  <2>1. Copies(reserved[n], m) \in Nat /\ (Copies(reserved[n], m) > 0 <=> m \in held)
    BY <1>2, PositionsFinite
  <2>2. IsFiniteSet(Begun(n, m))
    BY ChildrenFinite, FS_Subset DEF Begun, UnackedOf
  <2>3. Cardinality(Begun(n, m)) \in Nat /\ (Cardinality(Begun(n, m)) = 0 <=> Begun(n, m) = {})
    BY <2>2, FS_CardinalityType, FS_EmptySet
  <2>4. Begun(n, m) # {} <=> m \in begun
    BY DEF Begun
  <2>. QED  BY <2>1, <2>3, <2>4
<1>. HIDE DEF begun, held, count
<1>5. IsABag(UnackedMessages(n))
  BY <1>1, <1>4 DEF IsABag
<1>6. ASSUME NEW m
      PROVE  Listed(UnackedMessages(n), m) = count(m)
  BY <1>1, <1>4 DEF Listed
<1>. QED  BY <1>1, <1>3, <1>5, <1>6 DEF count
LEMMA TypeDeliver ==
  ASSUME TypeInv, NEW n \in Nodes, Deliver(n)
  PROVE  TypeInv'
<1>1. queue \in Seq(Published) /\ queue # <<>> /\ reserved[n] \in Seq(Published)
  BY DEF TypeInv, Deliver
<1>2. Head(queue) \in Published /\ Tail(queue) \in Seq(Published)
  BY <1>1, HeadTailProperties
<1>3. Append(reserved[n], Head(queue)) \in Seq(Published)
  BY <1>1, <1>2, AppendProperties
<1>. QED  BY <1>2, <1>3 DEF TypeInv, Deliver

LEMMA StartTakes ==
  ASSUME TypeInv, NEW c \in Children, Start(c)
  PROVE  /\ NodeOf(c) \in Nodes /\ reserved[NodeOf(c)] \in Seq(Published)
         /\ reserved[NodeOf(c)] # <<>>
         /\ Head(reserved[NodeOf(c)]) \in Published
         /\ Tail(reserved[NodeOf(c)]) \in Seq(Published)
<1>1. NodeOf(c) \in Nodes
  BY ChildrenFinite
<1>2. reserved[NodeOf(c)] \in Seq(Published) /\ reserved[NodeOf(c)] # <<>>
  BY <1>1 DEF TypeInv, Start
<1>. QED  BY <1>1, <1>2, HeadTailProperties

LEMMA BusyTakes ==
  ASSUME TypeInv, NEW c \in Children, Busy(c)
  PROVE  /\ job[c] \in Taken /\ job[c].message \in Published /\ job[c].message \in Messages
         /\ job[c].message.id \in Requests
<1>1. job[c] \in Taken
  BY DEF TypeInv, Busy, Idle
<1>2. job[c].message \in Published
  BY <1>1 DEF Taken
<1>. QED  BY <1>1, <1>2, PublishedType

LEMMA TypeWork ==
  ASSUME TypeInv, NEW c \in Children, Work(c) \/ ChildKilled(c)
  PROVE  TypeInv'
<1>1. CASE Start(c)
  <2>1. [phase |-> "running", message |-> Head(reserved[NodeOf(c)]), acked |-> FALSE] \in Taken
    BY <1>1, StartTakes DEF Taken
  <2>2. job' \in [Children -> {Idle} \cup Taken]
    BY <1>1, <2>1 DEF TypeInv, Start
  <2>3. reserved' \in [Nodes -> Seq(Published)]
    BY <1>1, StartTakes DEF TypeInv, Start
  <2>. QED  BY <1>1, <2>2, <2>3 DEF TypeInv, Start
<1>2. CASE Ack(c)
  <2>1. job[c] \in Taken
    BY <1>2, BusyTakes DEF Ack
  <2>2. [job[c] EXCEPT !.acked = TRUE] \in Taken
    BY <2>1, Zenon DEF Taken
  <2>3. job' = [job EXCEPT ![c] = [job[c] EXCEPT !.acked = TRUE]]
    BY <1>2 DEF Ack
  <2>. QED  BY <1>2, <2>2, <2>3 DEF TypeInv, Ack
<1>3. CASE Save(c) \/ Log(c)
  <2>1. Busy(c)
    BY <1>3 DEF Save, Log, Runs, Busy
  <2>2. job[c] \in Taken /\ job[c].message.id \in Requests
    BY <2>1, BusyTakes
  <2>3. [job[c] EXCEPT !.phase = "written"] \in Taken
    BY <2>2 DEF Taken
  <2>4. job' = [job EXCEPT ![c] = [job[c] EXCEPT !.phase = "written"]]
    BY <1>3 DEF Save, Log
  <2>5. job' \in [Children -> {Idle} \cup Taken]
    BY <2>3, <2>4 DEF TypeInv
  <2>6. rows' \in [Requests -> Nat] /\ docs' \in [Requests -> Nat]
    <3>1. CASE Save(c)
      BY <2>2, <3>1 DEF TypeInv, Save
    <3>2. CASE Log(c)
      BY <2>2, <3>2 DEF TypeInv, Log
    <3>. QED  BY <1>3, <3>1, <3>2
  <2>. QED  BY <1>3, <2>5, <2>6 DEF TypeInv, Save, Log
<1>4. CASE Finish(c)
  BY <1>4 DEF TypeInv, Finish
<1>5. CASE Fail(c)
  <2>1. Busy(c)
    BY <1>5 DEF Fail, Runs, Busy
  <2>2. job[c].message \in Published
    BY <2>1, BusyTakes
  <2>. QED  BY <1>5, <2>2 DEF TypeInv, Fail
<1>6. CASE ChildKilled(c)
  BY <1>6, CeleryAssumption DEF TypeInv, ChildKilled
<1>. QED  BY <1>1, <1>2, <1>3, <1>4, <1>5, <1>6 DEF Work

LEMMA TypeCrash ==
  ASSUME TypeInv, NEW n \in Nodes, NodeCrash(n)
  PROVE  TypeInv'
<1>1. IsABag(orphans') /\ DOMAIN orphans' \subseteq Published
  <2>1. IsABag(UnackedMessages(n)) /\ DOMAIN UnackedMessages(n) \subseteq Published
    BY UnackedBag
  <2>2. IsABag(orphans) /\ DOMAIN orphans \subseteq Published
    BY DEF TypeInv
  <2>3. orphans' = orphans (+) UnackedMessages(n)
    BY DEF NodeCrash
  <2>. QED  BY <2>1, <2>2, <2>3, BagOfBoth
<1>2. reserved' \in [Nodes -> Seq(Published)]
  BY EmptySeq DEF TypeInv, NodeCrash
<1>3. job' \in [Children -> {Idle} \cup Taken]
  BY DEF TypeInv, NodeCrash
<1>4. crashes' \in 0..MaxCrashes
  BY CeleryAssumption DEF TypeInv, NodeCrash
<1>. QED  BY <1>1, <1>2, <1>3, <1>4 DEF TypeInv, NodeCrash

LEMMA RedeliverTakes ==
  ASSUME TypeInv, Redeliver
  PROVE  \E m \in DOMAIN orphans :
           /\ queue' = <<m>> \o queue /\ queue' \in Seq(Published)
           /\ IsABag(orphans') /\ DOMAIN orphans' \subseteq DOMAIN orphans
           /\ \A k : /\ Copies(queue', k) = Copies(queue, k) + (IF m = k THEN 1 ELSE 0)
                     /\ Listed(orphans', k) = Listed(orphans, k) - (IF m = k THEN 1 ELSE 0)
<1>1. PICK m \in DOMAIN orphans :
        queue' = <<m>> \o queue /\ orphans' = orphans (-) SetToBag({m})
  BY DEF Redeliver, BagToSet
<1>2. m \in Published /\ queue \in Seq(Published) /\ IsABag(orphans)
  BY <1>1 DEF TypeInv
<1>3. queue' \in Seq(Published)
      /\ \A k : Copies(queue', k) = Copies(queue, k) + (IF m = k THEN 1 ELSE 0)
  BY <1>1, <1>2, CopiesCons
<1>4. /\ IsABag(orphans') /\ DOMAIN orphans' \subseteq DOMAIN orphans
      /\ \A k : Listed(orphans', k) = Listed(orphans, k) - (IF m = k THEN 1 ELSE 0)
  BY <1>1, <1>2, BagWithoutOne
<1>. QED  BY <1>1, <1>3, <1>4

LEMMA TypeStep ==
  ASSUME TypeInv, [CeleryNext]_vars
  PROVE  TypeInv'
<1>1. ASSUME NEW n \in Nodes, NodeStart(n)
      PROVE  TypeInv'
  BY <1>1 DEF TypeInv, NodeStart
<1>2. CASE Redeliver
  <2>1. queue' \in Seq(Published) /\ IsABag(orphans') /\ DOMAIN orphans' \subseteq DOMAIN orphans
    BY <1>2, RedeliverTakes
  <2>. QED  BY <1>2, <2>1 DEF TypeInv, Redeliver
<1>3. CASE UNCHANGED vars
  BY <1>3 DEF TypeInv, vars
<1>. QED  BY <1>1, <1>2, <1>3, TypeDeliver, TypeWork, TypeCrash DEF CeleryNext

(* Every reachable state of the workers is well typed.                     *)
THEOREM TypeCorrect == Spec => []TypeOK
<1>1. TypeInv /\ [CeleryNext]_vars => TypeInv'
  BY TypeStep
<1>. QED  BY <1>1, TypeInit, TypeImplies, PTL DEF Spec
-----------------------------------------------------------------------------
(* How the steps move copies of a message.                                 *)
One(k, m) == IF k = m THEN 1 ELSE 0

LEMMA CopiesAreCounted ==
  ASSUME TypeInv, NEW m
  PROVE  Copies(queue, m) \in Nat /\ \A n \in Nodes : Copies(reserved[n], m) \in Nat
<1>1. queue \in Seq(Published) /\ \A n \in Nodes : reserved[n] \in Seq(Published)
  BY DEF TypeInv
<1>. QED  BY <1>1, PositionsFinite

LEMMA DeliverMoves ==
  ASSUME TypeInv, NEW n \in Nodes, Deliver(n), NEW m
  PROVE  /\ Copies(queue, m) = Copies(queue', m) + One(Head(queue), m)
         /\ Copies(reserved'[n], m) = Copies(reserved[n], m) + One(Head(queue), m)
         /\ \A k \in Nodes \ {n} : reserved'[k] = reserved[k]
         /\ Copies(queue', m) \in Nat /\ Copies(reserved'[n], m) \in Nat
<1>1. queue \in Seq(Published) /\ queue # <<>> /\ reserved[n] \in Seq(Published)
  BY DEF TypeInv, Deliver
<1>2. Head(queue) \in Published /\ Tail(queue) \in Seq(Published)
  BY <1>1, HeadTailProperties
<1>3. queue' = Tail(queue) /\ reserved'[n] = Append(reserved[n], Head(queue))
      /\ \A k \in Nodes \ {n} : reserved'[k] = reserved[k]
  BY DEF TypeInv, Deliver
<1>4. Copies(queue, m) = Copies(queue', m) + One(Head(queue), m)
  BY <1>1, <1>3, CopiesTail DEF One
<1>5. Copies(reserved'[n], m) = Copies(reserved[n], m) + One(Head(queue), m)
  BY <1>1, <1>2, <1>3, CopiesAppend DEF One
<1>6. Copies(reserved[n], m) \in Nat /\ Copies(queue', m) \in Nat
  BY <1>1, <1>2, <1>3, PositionsFinite
<1>. QED  BY <1>3, <1>4, <1>5, <1>6 DEF One

LEMMA StartMoves ==
  ASSUME TypeInv, NEW c \in Children, Start(c), NEW m
  PROVE  /\ Copies(reserved[NodeOf(c)], m)
              = Copies(reserved'[NodeOf(c)], m) + One(job'[c].message, m)
         /\ \A k \in Nodes \ {NodeOf(c)} : reserved'[k] = reserved[k]
         /\ Copies(reserved'[NodeOf(c)], m) \in Nat
         /\ job'[c].phase = "running" /\ ~job'[c].acked
         /\ \A d \in Children \ {c} : job'[d] = job[d]
<1>1. /\ reserved'[NodeOf(c)] = Tail(reserved[NodeOf(c)])
      /\ \A k \in Nodes \ {NodeOf(c)} : reserved'[k] = reserved[k]
      /\ job'[c] = [phase |-> "running", message |-> Head(reserved[NodeOf(c)]), acked |-> FALSE]
      /\ \A d \in Children \ {c} : job'[d] = job[d]
  BY ChildrenFinite DEF TypeInv, Start
<1>2. job'[c].message = Head(reserved[NodeOf(c)]) /\ job'[c].phase = "running" /\ ~job'[c].acked
  BY <1>1
<1>3. Copies(reserved[NodeOf(c)], m)
        = Copies(Tail(reserved[NodeOf(c)]), m) + One(job'[c].message, m)
  BY <1>2, StartTakes, CopiesTail DEF One
<1>4. Copies(Tail(reserved[NodeOf(c)]), m) \in Nat
  BY StartTakes, PositionsFinite
<1>. QED  BY <1>1, <1>2, <1>3, <1>4

-----------------------------------------------------------------------------
(* Losses.  Where nobody dies, a task that is not lost is not lost by the  *)
(* step; the death of a child loses its task at most.                      *)
LostTasks == {m \in Published : Lost(m)}

(* Writes and failures are never taken back.                               *)
LEMMA EndsStay ==
  ASSUME TypeInv, NEW m \in Published, UNCHANGED <<rows, docs, failures>>,
         Pending(m) => Pending(m)'
  PROVE  ~Lost(m) => ~Lost(m)'
  BY DEF Lost, Written

LEMMA DeliverLosesNothing ==
  ASSUME TypeInv, NEW n \in Nodes, Deliver(n), NEW m \in Published
  PROVE  ~Lost(m) => ~Lost(m)'
<1>1. UNCHANGED <<rows, docs, failures, job, orphans>>
  BY DEF Deliver
<1>2. /\ Copies(queue, m) = Copies(queue', m) + One(Head(queue), m)
      /\ Copies(reserved'[n], m) = Copies(reserved[n], m) + One(Head(queue), m)
      /\ \A k \in Nodes \ {n} : reserved'[k] = reserved[k]
      /\ Copies(queue', m) \in Nat /\ Copies(reserved'[n], m) \in Nat
  BY DeliverMoves
<1>3. Copies(queue, m) \in Nat /\ \A k \in Nodes : Copies(reserved[k], m) \in Nat
  BY CopiesAreCounted
<1>4. Pending(m) => Pending(m)'
  <2>1. CASE Copies(queue, m) > 0
    BY <1>2, <1>3, <2>1 DEF Pending, HeldBy, One
  <2>2. CASE \E k \in Nodes : Copies(reserved[k], m) > 0
    BY <1>2, <1>3, <2>2 DEF Pending, HeldBy, One
  <2>3. CASE BagIn(m, orphans) \/ Executing(m) # {}
    BY <1>1, <2>3 DEF Pending, Executing
  <2>. QED  BY <2>1, <2>2, <2>3 DEF Pending, HeldBy
<1>. QED  BY <1>1, <1>4, EndsStay

LEMMA RedeliverLosesNothing ==
  ASSUME TypeInv, Redeliver, NEW m \in Published
  PROVE  ~Lost(m) => ~Lost(m)'
<1>1. UNCHANGED <<rows, docs, failures, job, reserved>>
  BY DEF Redeliver
<1>2. PICK k \in DOMAIN orphans :
        /\ Copies(queue', m) = Copies(queue, m) + One(k, m)
        /\ Listed(orphans', m) = Listed(orphans, m) - One(k, m)
  BY RedeliverTakes DEF One
<1>3. Copies(queue, m) \in Nat
  BY CopiesAreCounted
<1>4. m \in DOMAIN orphans => m \in DOMAIN orphans' \/ Copies(queue', m) > 0
  <2>1. m \in DOMAIN orphans => Listed(orphans, m) > 0 /\ Listed(orphans, m) \in Nat
    BY DEF TypeInv, IsABag, Listed
  <2>. QED  BY <1>2, <1>3, <2>1 DEF Listed, One
<1>5. Copies(queue, m) > 0 => Copies(queue', m) > 0
  BY <1>2, <1>3 DEF One
<1>6. Pending(m) => Pending(m)'
  BY <1>1, <1>4, <1>5 DEF Pending, HeldBy, BagIn, BagToSet, Executing
<1>. QED  BY <1>1, <1>6, EndsStay

LEMMA WorkLosesNothing ==
  ASSUME TypeInv, NEW c \in Children, Work(c), NEW m \in Published
  PROVE  ~Lost(m) => ~Lost(m)'
<1>1. CASE Start(c)
  <2>1. UNCHANGED <<rows, docs, failures, queue, orphans>>
    BY <1>1 DEF Start
  <2>2. /\ Copies(reserved[NodeOf(c)], m)
             = Copies(reserved'[NodeOf(c)], m) + One(job'[c].message, m)
        /\ \A k \in Nodes \ {NodeOf(c)} : reserved'[k] = reserved[k]
        /\ Copies(reserved'[NodeOf(c)], m) \in Nat
        /\ job'[c].phase = "running"
        /\ \A d \in Children \ {c} : job'[d] = job[d]
    BY <1>1, StartMoves
  <2>3. \A k \in Nodes : Copies(reserved[k], m) > 0
          => Copies(reserved'[k], m) > 0 \/ c \in Executing(m)'
    BY <2>2 DEF Executing, One
  <2>4. Executing(m) \subseteq Executing(m)'
    BY <1>1, <2>2 DEF Executing, Start, Busy
  <2>5. Pending(m) => Pending(m)'
    BY <2>1, <2>3, <2>4 DEF Pending, HeldBy
  <2>. QED  BY <2>1, <2>5, EndsStay
<1>2. CASE Ack(c)
  <2>1. UNCHANGED <<rows, docs, failures, queue, orphans, reserved>>
    BY <1>2 DEF Ack
  <2>2. job' = [job EXCEPT ![c] = [job[c] EXCEPT !.acked = TRUE]] /\ job[c] \in Taken
    BY <1>2, BusyTakes DEF Ack
  <2>3. \A d \in Children : job'[d].phase = job[d].phase /\ (d # c => job'[d] = job[d])
    BY <2>2 DEF TypeInv, Taken
  <2>4. job'[c].message = job[c].message
    BY <2>2 DEF TypeInv, Taken
  <2>5. Pending(m) => Pending(m)'
    BY <2>1, <2>3, <2>4 DEF Pending, HeldBy, Executing
  <2>. QED  BY <2>1, <2>5, EndsStay
<1>3. CASE Save(c) \/ Log(c)
  <2>1. Busy(c) /\ UNCHANGED <<failures, queue, orphans, reserved>>
    BY <1>3 DEF Save, Log, Runs, Busy
  <2>2. \A d \in Children \ {c} : job'[d] = job[d]
    BY <1>3 DEF TypeInv, Save, Log
  <2>3. Pending(m) => Pending(m)' \/ job[c].message = m
    BY <2>1, <2>2 DEF Pending, HeldBy, Executing
  <2>4. job[c].message.id \in Requests /\ m.id \in Requests
    BY <2>1, BusyTakes, PublishedType
  <2>5. Written(m) # 0 => Written(m)' # 0
    <3>1. CASE Save(c)
      BY <2>4, <3>1 DEF TypeInv, Written, Save
    <3>2. CASE Log(c)
      BY <2>4, <3>2 DEF TypeInv, Written, Log
    <3>. QED  BY <1>3, <3>1, <3>2
  <2>6. job[c].message = m => Written(m)' # 0
    <3>1. CASE Save(c)
      BY <2>4, <3>1 DEF TypeInv, Written, Save, Runs
    <3>2. CASE Log(c)
      BY <2>4, <3>2 DEF TypeInv, Written, Log, Runs
    <3>. QED  BY <1>3, <3>1, <3>2
  <2>. QED  BY <2>1, <2>3, <2>5, <2>6 DEF Lost
<1>4. CASE Finish(c)
  <2>1. UNCHANGED <<rows, docs, failures, queue, orphans, reserved>> /\ job[c].phase = "written"
        /\ \A d \in Children \ {c} : job'[d] = job[d]
    BY <1>4 DEF TypeInv, Finish
  <2>2. Pending(m) => Pending(m)'
    BY <2>1 DEF Pending, HeldBy, Executing
  <2>. QED  BY <2>1, <2>2, EndsStay
<1>5. CASE Fail(c)
  <2>1. UNCHANGED <<rows, docs, queue, orphans, reserved>>
        /\ failures' = failures \cup {job[c].message}
        /\ \A d \in Children \ {c} : job'[d] = job[d]
    BY <1>5 DEF TypeInv, Fail
  <2>2. Pending(m) => Pending(m)' \/ m \in failures'
    BY <2>1 DEF Pending, HeldBy, Executing
  <2>. QED  BY <2>1, <2>2 DEF Lost, Written
<1>. QED  BY <1>1, <1>2, <1>3, <1>4, <1>5 DEF Work
(* The tasks the children of a node are in, one for each slot at most.     *)
InHand(n) == {job[<<n, s>>].message : s \in Slots}

LEMMA InHandIsSmall ==
  ASSUME NEW n
  PROVE  /\ IsFiniteSet(InHand(n)) /\ Cardinality(InHand(n)) <= Cardinality(Slots)
         /\ Cardinality(InHand(n)) \in Nat /\ Cardinality(Slots) \in Nat
<1>. DEFINE f == [s \in Slots |-> job[<<n, s>>].message]
<1>1. f \in Surjection(Slots, InHand(n))
  BY DEF InHand, Surjection
<1>. QED  BY <1>1, CeleryAssumption, FS_Surjection, FS_CardinalityType

LEMMA ChildIsInHand ==
  ASSUME NEW c \in Children
  PROVE  job[c].message \in InHand(NodeOf(c))
  BY DEF Children, NodeOf, InHand

LEMMA CrashLosesWhatIsInHand ==
  ASSUME TypeInv, NEW n \in Nodes, NodeCrash(n), NEW m \in Published, m \notin InHand(n)
  PROVE  ~Lost(m) => ~Lost(m)'
<1>1. /\ UNCHANGED <<queue, rows, docs, failures>>
      /\ reserved' = [reserved EXCEPT ![n] = <<>>]
      /\ job' = [c \in Children |-> IF NodeOf(c) = n THEN Idle ELSE job[c]]
      /\ orphans' = orphans (+) UnackedMessages(n)
  BY DEF NodeCrash
<1>2. IsABag(UnackedMessages(n)) /\ IsABag(orphans)
      /\ Listed(UnackedMessages(n), m) = Copies(reserved[n], m) + Cardinality(Begun(n, m))
  BY UnackedBag DEF TypeInv
<1>3. DOMAIN orphans' = DOMAIN orphans \cup DOMAIN UnackedMessages(n)
  BY <1>1, <1>2, BagOfBoth
<1>4. Copies(reserved[n], m) > 0 => m \in DOMAIN orphans'
  <2>1. Cardinality(Begun(n, m)) \in Nat
    BY ChildrenFinite, FS_Subset, FS_CardinalityType DEF Begun, UnackedOf
  <2>2. Copies(reserved[n], m) \in Nat
    BY CopiesAreCounted
  <2>. QED  BY <1>2, <1>3, <2>1, <2>2 DEF Listed
<1>5. \A k \in Nodes \ {n} : reserved'[k] = reserved[k]
  BY <1>1 DEF TypeInv
<1>6. Executing(m) \subseteq Executing(m)'
  BY <1>1, ChildIsInHand DEF Executing
<1>7. Pending(m) => Pending(m)'
  BY <1>1, <1>3, <1>4, <1>5, <1>6 DEF Pending, HeldBy, BagIn, BagToSet
<1>. QED  BY <1>1, <1>7, EndsStay

LEMMA KillLosesWhatIsInHand ==
  ASSUME TypeInv, NEW c \in Children, ChildKilled(c), NEW m \in Published, m # job[c].message
  PROVE  ~Lost(m) => ~Lost(m)'
<1>1. UNCHANGED <<queue, rows, docs, failures, reserved, orphans>>
      /\ \A d \in Children \ {c} : job'[d] = job[d]
  BY DEF TypeInv, ChildKilled
<1>2. Pending(m) => Pending(m)'
  BY <1>1 DEF Pending, HeldBy, Executing
<1>. QED  BY <1>1, <1>2, EndsStay

(* One death and a few tasks more, or nothing of either.                   *)
LEMMA LossesAreFew ==
  ASSUME TypeInv, TypeInv', DeathsCostOnlyBegunTasks,
         \/ crashes' = crashes /\ \A m \in Published : ~Lost(m) => ~Lost(m)'
         \/ crashes' = crashes + 1
            /\ \E n \in Nodes : \A m \in Published \ InHand(n) : ~Lost(m) => ~Lost(m)'
  PROVE  DeathsCostOnlyBegunTasks'
<1>. DEFINE slots == Cardinality(Slots)
<1>1. IsFiniteSet(LostTasks) /\ Cardinality(LostTasks) \in Nat
      /\ IsFiniteSet(LostTasks') /\ Cardinality(LostTasks') \in Nat
  BY PublishedType, FS_Subset, FS_CardinalityType DEF LostTasks
<1>2. Cardinality(LostTasks) <= crashes * slots /\ crashes \in Nat
  BY CeleryAssumption DEF LostTasks, DeathsCostOnlyBegunTasks, TypeInv
<1>3. slots \in Nat
  BY CeleryAssumption, FS_CardinalityType
<1>4. CASE crashes' = crashes /\ \A m \in Published : ~Lost(m) => ~Lost(m)'
  <2>1. LostTasks' \subseteq LostTasks
    BY <1>4 DEF LostTasks
  <2>2. Cardinality(LostTasks') <= Cardinality(LostTasks)
    BY <1>1, <2>1, FS_Subset
  <2>3. Cardinality(LostTasks') <= crashes' * slots
    BY <1>1, <1>2, <1>3, <1>4, <2>2
  <2>. QED  BY <2>3 DEF LostTasks, DeathsCostOnlyBegunTasks
<1>5. CASE crashes' = crashes + 1
           /\ \E n \in Nodes : \A m \in Published \ InHand(n) : ~Lost(m) => ~Lost(m)'
  <2>1. PICK n \in Nodes : \A m \in Published \ InHand(n) : ~Lost(m) => ~Lost(m)'
    BY <1>5
  <2>2. LostTasks' \subseteq LostTasks \cup InHand(n)
    BY <2>1 DEF LostTasks
  <2>3. IsFiniteSet(InHand(n)) /\ Cardinality(InHand(n)) <= slots /\ Cardinality(InHand(n)) \in Nat
    BY InHandIsSmall
  <2>4. /\ IsFiniteSet(LostTasks \cup InHand(n))
        /\ Cardinality(LostTasks \cup InHand(n)) <= Cardinality(LostTasks) + slots
        /\ Cardinality(LostTasks \cup InHand(n)) \in Nat
    <3>1. IsFiniteSet(LostTasks \cap InHand(n))
      BY <1>1, FS_Intersection
    <3>2. Cardinality(LostTasks \cap InHand(n)) \in Nat
      BY <3>1, FS_CardinalityType
    <3>3. /\ IsFiniteSet(LostTasks \cup InHand(n))
          /\ Cardinality(LostTasks \cup InHand(n))
               = Cardinality(LostTasks) + Cardinality(InHand(n)) - Cardinality(LostTasks \cap InHand(n))
      BY <1>1, <2>3, FS_Union
    <3>4. Cardinality(LostTasks \cup InHand(n)) \in Nat
      BY <3>3, FS_CardinalityType
    <3>. QED  BY <1>1, <1>3, <2>3, <3>2, <3>3, <3>4
  <2>5. Cardinality(LostTasks') <= Cardinality(LostTasks \cup InHand(n))
    BY <2>2, <2>4, FS_Subset
  <2>6. Cardinality(LostTasks') <= crashes * slots + slots
    BY <1>1, <1>2, <1>3, <2>4, <2>5
  <2>7. crashes' * slots = crashes * slots + slots
    BY <1>2, <1>3, <1>5
  <2>8. Cardinality(LostTasks') <= crashes' * slots
    BY <2>6, <2>7
  <2>. QED  BY <2>8 DEF LostTasks, DeathsCostOnlyBegunTasks
<1>. QED  BY <1>4, <1>5

LEMMA DeathsInit == Init => DeathsCostOnlyBegunTasks
<1>. SUFFICES ASSUME Init PROVE DeathsCostOnlyBegunTasks
  OBVIOUS
<1>1. ASSUME NEW m \in Published
      PROVE  ~Lost(m)
  <2>1. Backlog \in Seq(Published) /\ \E i \in DOMAIN Backlog : Backlog[i] = m
    BY PublishedType DEF Published
  <2>2. Copies(queue, m) > 0
    BY <2>1, PositionsFinite DEF Init
  <2>. QED  BY <2>2 DEF Lost, Pending
<1>2. {m \in Published : Lost(m)} = {}
  BY <1>1
<1>3. 0 * Cardinality(Slots) = 0
  BY CeleryAssumption, FS_CardinalityType
<1>4. Cardinality({m \in Published : Lost(m)}) = 0 /\ crashes = 0
  BY <1>2, FS_EmptySet DEF Init
<1>. QED  BY <1>3, <1>4 DEF DeathsCostOnlyBegunTasks

LEMMA DeathsStep ==
  ASSUME TypeInv, DeathsCostOnlyBegunTasks, [CeleryNext]_vars
  PROVE  DeathsCostOnlyBegunTasks'
<1>1. TypeInv'
  BY TypeStep
<1>2. CASE UNCHANGED vars
  BY <1>2 DEF vars, DeathsCostOnlyBegunTasks, Lost, Written, Pending, HeldBy, Executing
<1>3. ASSUME NEW n \in Nodes, Deliver(n)
      PROVE  DeathsCostOnlyBegunTasks'
  <2>1. \A m \in Published : ~Lost(m) => ~Lost(m)'
    BY <1>3, DeliverLosesNothing
  <2>. QED  BY <1>1, <1>3, <2>1, LossesAreFew DEF Deliver
<1>4. CASE Redeliver
  <2>1. \A m \in Published : ~Lost(m) => ~Lost(m)'
    BY <1>4, RedeliverLosesNothing
  <2>. QED  BY <1>1, <1>4, <2>1, LossesAreFew DEF Redeliver
<1>5. ASSUME NEW n \in Nodes, NodeStart(n)
      PROVE  DeathsCostOnlyBegunTasks'
  <2>1. \A m \in Published : ~Lost(m) => ~Lost(m)'
    BY <1>5 DEF NodeStart, Lost, Written, Pending, HeldBy, Executing
  <2>. QED  BY <1>1, <1>5, <2>1, LossesAreFew DEF NodeStart
<1>6. ASSUME NEW c \in Children, Work(c)
      PROVE  DeathsCostOnlyBegunTasks'
  <2>1. \A m \in Published : ~Lost(m) => ~Lost(m)'
    BY <1>6, WorkLosesNothing
  <2>2. crashes' = crashes
    BY <1>6 DEF Work, Start, Ack, Save, Log, Finish, Fail
  <2>. QED  BY <1>1, <2>1, <2>2, LossesAreFew
<1>7. ASSUME NEW n \in Nodes, NodeCrash(n)
      PROVE  DeathsCostOnlyBegunTasks'
  <2>1. \A m \in Published \ InHand(n) : ~Lost(m) => ~Lost(m)'
    BY <1>7, CrashLosesWhatIsInHand
  <2>. QED  BY <1>1, <1>7, <2>1, LossesAreFew DEF NodeCrash
<1>8. ASSUME NEW c \in Children, ChildKilled(c)
      PROVE  DeathsCostOnlyBegunTasks'
  <2>1. job[c].message \in InHand(NodeOf(c)) /\ NodeOf(c) \in Nodes
    BY ChildIsInHand, ChildrenFinite
  <2>2. \A m \in Published \ InHand(NodeOf(c)) : ~Lost(m) => ~Lost(m)'
    BY <1>8, <2>1, KillLosesWhatIsInHand
  <2>. QED  BY <1>1, <1>8, <2>1, <2>2, LossesAreFew DEF ChildKilled
<1>. QED  BY <1>2, <1>3, <1>4, <1>5, <1>6, <1>7, <1>8 DEF CeleryNext

(* The deaths so far have cost at most one task per slot of a node, and    *)
(* never one that was only prefetched (early acknowledgement, visibility   *)
(* timeout).                                                               *)
THEOREM DeathsCostOnlyBegunTasksHolds == Spec => []DeathsCostOnlyBegunTasks
<1>1. TypeInv /\ DeathsCostOnlyBegunTasks /\ [CeleryNext]_vars
        => TypeInv' /\ DeathsCostOnlyBegunTasks'
  BY TypeStep, DeathsStep
<1>. QED  BY <1>1, TypeInit, DeathsInit, PTL DEF Spec
-----------------------------------------------------------------------------
(* Where the copies of a message are.  Those still listed as               *)
(* unacknowledged can be delivered again; those not yet written will be    *)
(* written once more.                                                      *)
Places(held, m) == {p \in Nodes \X Nat : p[2] \in DOMAIN held[p[1]] /\ held[p[1]][p[2]] = m}

UnackedWith(m) == {c \in Children : Busy(c) /\ ~job[c].acked /\ job[c].message = m}

Waiting(m) == Copies(queue, m) + Cardinality(Places(reserved, m)) + Listed(orphans, m)
Live(m)    == Waiting(m) + Cardinality(UnackedWith(m))
ToWrite(m) == Waiting(m) + Cardinality(Executing(m))

WritesInv ==
  \A m \in Published :
    /\ Live(m) <= Copies(Backlog, m)
    /\ Written(m) + ToWrite(m) <= Copies(Backlog, m) * (crashes + 1)

(* The places on one node are as many as its copies.                       *)
LEMMA PlacesOnNode ==
  ASSUME NEW held \in [Nodes -> Seq(Published)], NEW n \in Nodes, NEW m
  PROVE  LET here == {p \in Places(held, m) : p[1] = n}
         IN  IsFiniteSet(here) /\ Cardinality(here) = Copies(held[n], m)
<1>. DEFINE here == {p \in Places(held, m) : p[1] = n}
            P == Positions(held[n], m)
            f == [i \in P |-> <<n, i>>]
<1>1. held[n] \in Seq(Published) /\ P \subseteq Nat
  BY LenProperties DEF Positions
<1>2. IsFiniteSet(P) /\ Copies(held[n], m) = Cardinality(P)
  BY <1>1, PositionsFinite
<1>3. f \in Bijection(P, here)
  <2>1. \A i \in P : <<n, i>> \in here
    BY <1>1 DEF Places, Positions
  <2>2. ASSUME NEW p \in here
        PROVE  \E i \in P : f[i] = p
    <3>1. p[2] \in P /\ p = <<n, p[2]>>
      BY DEF Places, Positions
    <3>. QED  BY <3>1
  <2>. QED  BY <2>1, <2>2 DEF Bijection, Injection, Surjection, IsInjective
<1>4. ExistsBijection(P, here)
  BY <1>3 DEF ExistsBijection
<1>. QED  BY <1>2, <1>4, FS_Bijection

LEMMA PlacesFinite ==
  ASSUME NEW held \in [Nodes -> Seq(Published)], NEW m
  PROVE  IsFiniteSet(Places(held, m)) /\ Cardinality(Places(held, m)) \in Nat
<1>. DEFINE At(n) == {p \in Places(held, m) : p[1] = n}
            f == [n \in Nodes |-> At(n)]
            parts == {At(n) : n \in Nodes}
<1>1. f \in Surjection(Nodes, parts)
  BY DEF Surjection
<1>2. IsFiniteSet(parts)
  BY <1>1, CeleryAssumption, FS_Surjection
<1>3. \A part \in parts : IsFiniteSet(part)
  BY PlacesOnNode
<1>4. IsFiniteSet(UNION parts)
  BY <1>2, <1>3, FS_UNION
<1>5. Places(held, m) = UNION parts
  BY DEF Places
<1>. QED  BY <1>4, <1>5, FS_CardinalityType

(* When one node's messages change, the places change with its copies.     *)
LEMMA PlacesChange ==
  ASSUME NEW old \in [Nodes -> Seq(Published)], NEW new \in [Nodes -> Seq(Published)],
         NEW n \in Nodes, \A k \in Nodes \ {n} : new[k] = old[k], NEW m
  PROVE  Cardinality(Places(new, m)) + Copies(old[n], m)
           = Cardinality(Places(old, m)) + Copies(new[n], m)
<1>. DEFINE Here(held) == {p \in Places(held, m) : p[1] = n}
            Else(held) == Places(held, m) \ Here(held)
<1>1. ASSUME NEW held \in [Nodes -> Seq(Published)]
      PROVE  /\ Cardinality(Places(held, m)) = Cardinality(Else(held)) + Copies(held[n], m)
             /\ Cardinality(Else(held)) \in Nat
  <2>1. IsFiniteSet(Places(held, m)) /\ Cardinality(Places(held, m)) \in Nat
    BY PlacesFinite
  <2>2. IsFiniteSet(Here(held)) /\ Cardinality(Here(held)) = Copies(held[n], m)
    BY PlacesOnNode
  <2>3. Places(held, m) \cap Here(held) = Here(held)
    OBVIOUS
  <2>4. /\ IsFiniteSet(Else(held))
        /\ Cardinality(Else(held)) = Cardinality(Places(held, m)) - Cardinality(Here(held))
    BY <2>1, <2>3, FS_Difference
  <2>5. Cardinality(Else(held)) \in Nat /\ Cardinality(Here(held)) \in Nat
    BY <2>2, <2>4, FS_CardinalityType
  <2>. QED  BY <2>1, <2>2, <2>4, <2>5
<1>2. Else(new) = Else(old)
  BY DEF Places
<1>3. Copies(old[n], m) \in Nat /\ Copies(new[n], m) \in Nat
  BY PositionsFinite
<1>4. /\ Cardinality(Places(new, m)) = Cardinality(Else(new)) + Copies(new[n], m)
      /\ Cardinality(Places(old, m)) = Cardinality(Else(old)) + Copies(old[n], m)
      /\ Cardinality(Else(old)) \in Nat
  BY <1>1
<1>. HIDE DEF Else
<1>. QED  BY <1>2, <1>3, <1>4

LEMMA CountsAreNumbers ==
  ASSUME TypeInv, NEW m
  PROVE  /\ Copies(queue, m) \in Nat
         /\ Cardinality(Places(reserved, m)) \in Nat
         /\ Listed(orphans, m) \in Nat
         /\ IsFiniteSet(UnackedWith(m)) /\ Cardinality(UnackedWith(m)) \in Nat
         /\ IsFiniteSet(Executing(m)) /\ Cardinality(Executing(m)) \in Nat
         /\ Copies(Backlog, m) \in Nat
         /\ crashes \in Nat
<1>1. Copies(queue, m) \in Nat /\ Copies(Backlog, m) \in Nat
  BY CeleryAssumption, PositionsFinite DEF TypeInv
<1>2. Cardinality(Places(reserved, m)) \in Nat
  BY PlacesFinite DEF TypeInv
<1>3. Listed(orphans, m) \in Nat
  BY DEF TypeInv, IsABag, Listed
<1>4. IsFiniteSet(UnackedWith(m)) /\ IsFiniteSet(Executing(m))
  BY ChildrenFinite, FS_Subset DEF UnackedWith, Executing
<1>5. crashes \in Nat
  BY CeleryAssumption DEF TypeInv
<1>. QED  BY <1>1, <1>2, <1>3, <1>4, <1>5, FS_CardinalityType

LEMMA WrittenIsNumber ==
  ASSUME TypeInv, NEW m \in Published
  PROVE  Written(m) \in Nat
  BY PublishedType DEF TypeInv, Written

-----------------------------------------------------------------------------
(* The steps, for one message.                                             *)
WritesOf(m) ==
  /\ Live(m) <= Copies(Backlog, m)
  /\ Written(m) + ToWrite(m) <= Copies(Backlog, m) * (crashes + 1)

LEMMA DeliverWrites ==
  ASSUME TypeInv, TypeInv', NEW m \in Published, WritesOf(m), NEW n \in Nodes, Deliver(n)
  PROVE  WritesOf(m)'
<1>1. UNCHANGED <<rows, docs, job, orphans, crashes>>
  BY DEF Deliver
<1>2. /\ Copies(queue, m) = Copies(queue', m) + One(Head(queue), m)
      /\ Copies(reserved'[n], m) = Copies(reserved[n], m) + One(Head(queue), m)
      /\ \A k \in Nodes \ {n} : reserved'[k] = reserved[k]
      /\ Copies(queue', m) \in Nat /\ Copies(reserved'[n], m) \in Nat
  BY DeliverMoves
<1>3. Cardinality(Places(reserved', m)) + Copies(reserved[n], m)
        = Cardinality(Places(reserved, m)) + Copies(reserved'[n], m)
  BY <1>2, PlacesChange DEF TypeInv
<1>4. Cardinality(Places(reserved', m)) \in Nat /\ Copies(reserved[n], m) \in Nat
  BY PlacesFinite, CopiesAreCounted DEF TypeInv
<1>5. Waiting(m)' = Waiting(m)
  BY <1>1, <1>2, <1>3, <1>4, CountsAreNumbers DEF Waiting, One
<1>6. UnackedWith(m)' = UnackedWith(m) /\ Executing(m)' = Executing(m) /\ Written(m)' = Written(m)
  BY <1>1 DEF UnackedWith, Busy, Executing, Written
<1>. QED  BY <1>1, <1>5, <1>6 DEF WritesOf, Live, ToWrite

LEMMA RedeliverWrites ==
  ASSUME TypeInv, NEW m \in Published, WritesOf(m), Redeliver
  PROVE  WritesOf(m)'
<1>1. UNCHANGED <<rows, docs, job, reserved, crashes>>
  BY DEF Redeliver
<1>2. Copies(queue', m) + Listed(orphans', m) = Copies(queue, m) + Listed(orphans, m)
  <2>1. PICK k \in DOMAIN orphans :
          /\ Copies(queue', m) = Copies(queue, m) + One(k, m)
          /\ Listed(orphans', m) = Listed(orphans, m) - One(k, m)
    BY RedeliverTakes DEF One
  <2>2. Copies(queue, m) \in Nat /\ Listed(orphans, m) \in Nat
    BY CountsAreNumbers
  <2>. QED  BY <2>1, <2>2 DEF One
<1>3. Copies(queue', m) \in Nat /\ Listed(orphans', m) \in Nat
  <2>1. queue' \in Seq(Published) /\ IsABag(orphans')
    BY RedeliverTakes
  <2>. QED  BY <2>1, PositionsFinite DEF IsABag, Listed
<1>4. Waiting(m)' = Waiting(m)
  BY <1>1, <1>2, <1>3, CountsAreNumbers DEF Waiting
<1>5. UnackedWith(m)' = UnackedWith(m) /\ Executing(m)' = Executing(m) /\ Written(m)' = Written(m)
  BY <1>1 DEF UnackedWith, Busy, Executing, Written
<1>. QED  BY <1>1, <1>4, <1>5 DEF WritesOf, Live, ToWrite
LEMMA SizeWithOne ==
  ASSUME NEW S, IsFiniteSet(S), NEW c, c \notin S, NEW k, NEW m,
         NEW T, T = IF k = m THEN S \cup {c} ELSE S
  PROVE  Cardinality(T) = Cardinality(S) + One(k, m)
<1>1. Cardinality(S) \in Nat /\ Cardinality(S \cup {c}) = Cardinality(S) + 1
  BY FS_CardinalityType, FS_AddElement
<1>. QED  BY <1>1 DEF One

LEMMA SizeWithoutOne ==
  ASSUME NEW S, IsFiniteSet(S), NEW c, NEW k, NEW m, c \in S <=> k = m, NEW T, T = S \ {c}
  PROVE  Cardinality(T) = Cardinality(S) - One(k, m)
<1>1. Cardinality(S) \in Nat
  BY FS_CardinalityType
<1>2. Cardinality(T) = IF c \in S THEN Cardinality(S) - 1 ELSE Cardinality(S)
  BY FS_RemoveElement
<1>. QED  BY <1>1, <1>2 DEF One

LEMMA StartWrites ==
  ASSUME TypeInv, TypeInv', NEW m \in Published, WritesOf(m), NEW c \in Children, Start(c)
  PROVE  WritesOf(m)'
<1>. DEFINE n == NodeOf(c)
            d == One(job'[c].message, m)
<1>1. UNCHANGED <<rows, docs, queue, orphans, crashes>> /\ ~Busy(c) /\ n \in Nodes
  BY ChildrenFinite DEF Start
<1>2. /\ Copies(reserved[n], m) = Copies(reserved'[n], m) + d
      /\ \A k \in Nodes \ {n} : reserved'[k] = reserved[k]
      /\ Copies(reserved'[n], m) \in Nat
      /\ job'[c].phase = "running" /\ ~job'[c].acked
      /\ \A k \in Children \ {c} : job'[k] = job[k]
  BY StartMoves
<1>3. Cardinality(Places(reserved', m)) + Copies(reserved[n], m)
        = Cardinality(Places(reserved, m)) + Copies(reserved'[n], m)
  BY <1>1, <1>2, PlacesChange DEF TypeInv
<1>4. Cardinality(Places(reserved', m)) \in Nat
  BY PlacesFinite DEF TypeInv
<1>5. d \in {0, 1}
  BY DEF One
<1>6. Cardinality(Places(reserved', m)) + d = Cardinality(Places(reserved, m))
  BY <1>2, <1>3, <1>4, <1>5, CountsAreNumbers
<1>7. Cardinality(UnackedWith(m)') = Cardinality(UnackedWith(m)) + d
  <2>1. c \notin UnackedWith(m)
    BY <1>1 DEF UnackedWith
  <2>2. UnackedWith(m)' = IF job'[c].message = m THEN UnackedWith(m) \cup {c} ELSE UnackedWith(m)
    BY <1>1, <1>2 DEF UnackedWith, Busy
  <2>. QED  BY <2>1, <2>2, CountsAreNumbers, SizeWithOne
<1>8. Cardinality(Executing(m)') = Cardinality(Executing(m)) + d
  <2>1. c \notin Executing(m)
    BY <1>1 DEF Executing, Busy
  <2>2. Executing(m)' = IF job'[c].message = m THEN Executing(m) \cup {c} ELSE Executing(m)
    BY <1>1, <1>2 DEF Executing, Busy
  <2>. QED  BY <2>1, <2>2, CountsAreNumbers, SizeWithOne
<1>. HIDE DEF d
<1>9. Live(m)' = Live(m) /\ ToWrite(m)' = ToWrite(m)
  BY <1>1, <1>4, <1>5, <1>6, <1>7, <1>8, CountsAreNumbers DEF Live, ToWrite, Waiting
<1>10. Written(m)' = Written(m)
  BY <1>1 DEF Written
<1>. QED  BY <1>1, <1>9, <1>10 DEF WritesOf

(* Steps of a child that leave the messages outside it alone, and only     *)
(* take it away from the children that are still to acknowledge or write.  *)
LEMMA ChildWrites ==
  ASSUME TypeInv, NEW m \in Published, WritesOf(m), UNCHANGED <<queue, reserved, orphans>>,
         crashes' \in Nat, crashes' >= crashes,
         UnackedWith(m)' \subseteq UnackedWith(m), Executing(m)' \subseteq Executing(m),
         Written(m)' + Cardinality(Executing(m)') <= Written(m) + Cardinality(Executing(m)),
         Written(m)' \in Nat
  PROVE  WritesOf(m)'
<1>1. /\ Cardinality(UnackedWith(m)') <= Cardinality(UnackedWith(m))
      /\ Cardinality(UnackedWith(m)') \in Nat /\ Cardinality(Executing(m)') \in Nat
  BY CountsAreNumbers, FS_Subset, FS_CardinalityType
<1>2. Waiting(m)' = Waiting(m) /\ Waiting(m) \in Nat
  BY CountsAreNumbers DEF Waiting
<1>3. Live(m)' <= Copies(Backlog, m)
  BY <1>1, <1>2, CountsAreNumbers DEF WritesOf, Live
<1>4. Copies(Backlog, m) * (crashes + 1) <= Copies(Backlog, m) * (crashes' + 1)
  BY CountsAreNumbers
<1>5. Copies(Backlog, m) * (crashes + 1) \in Nat /\ Copies(Backlog, m) * (crashes' + 1) \in Nat
  BY CountsAreNumbers
<1>6. Written(m)' + ToWrite(m)' <= Written(m) + ToWrite(m)
  BY <1>1, <1>2, CountsAreNumbers, WrittenIsNumber DEF ToWrite
<1>7. Written(m)' + ToWrite(m)' \in Nat /\ Written(m) + ToWrite(m) \in Nat
  BY <1>1, <1>2, CountsAreNumbers, WrittenIsNumber DEF ToWrite
<1>8. Written(m)' + ToWrite(m)' <= Copies(Backlog, m) * (crashes' + 1)
  BY <1>4, <1>5, <1>6, <1>7 DEF WritesOf
<1>. QED  BY <1>3, <1>8 DEF WritesOf

LEMMA WorkWrites ==
  ASSUME TypeInv, TypeInv', NEW m \in Published, WritesOf(m), NEW c \in Children,
         Work(c) \/ ChildKilled(c)
  PROVE  WritesOf(m)'
<1>1. Written(m)' \in Nat /\ Written(m) \in Nat /\ crashes \in Nat
  BY PublishedType, CountsAreNumbers DEF TypeInv, Written
<1>2. CASE Ack(c)
  <2>1. UNCHANGED <<queue, reserved, orphans, rows, docs, crashes>>
    BY <1>2 DEF Ack
  <2>2. job' = [job EXCEPT ![c] = [job[c] EXCEPT !.acked = TRUE]] /\ job[c] \in Taken
    BY <1>2, BusyTakes DEF Ack
  <2>3. \A k \in Children : job'[k].phase = job[k].phase /\ (k # c => job'[k] = job[k])
    BY <2>2 DEF TypeInv, Taken
  <2>4. job'[c].message = job[c].message /\ job'[c].acked
    BY <2>2 DEF TypeInv, Taken
  <2>5. Executing(m)' = Executing(m) /\ UnackedWith(m)' \subseteq UnackedWith(m)
    BY <2>3, <2>4 DEF Executing, UnackedWith, Busy
  <2>6. Written(m)' = Written(m)
    BY <2>1 DEF Written
  <2>. QED  BY <1>1, <2>1, <2>5, <2>6, CountsAreNumbers, ChildWrites
<1>3. CASE Save(c) \/ Log(c)
  <2>1. UNCHANGED <<queue, reserved, orphans, crashes>> /\ Busy(c) /\ job[c].phase = "running"
        /\ job' = [job EXCEPT ![c] = [job[c] EXCEPT !.phase = "written"]]
    BY <1>3 DEF Save, Log, Runs, Busy
  <2>2. job[c] \in Taken /\ job[c].message \in Published /\ job[c].message.id \in Requests
    BY <2>1, BusyTakes
  <2>3. /\ job'[c].phase = "written" /\ job'[c].acked = job[c].acked
        /\ job'[c].message = job[c].message
        /\ \A k \in Children \ {c} : job'[k] = job[k]
    BY <2>1, <2>2 DEF TypeInv, Taken
  <2>4. UnackedWith(m)' = UnackedWith(m)
    BY <2>1, <2>3 DEF UnackedWith, Busy
  <2>5. Executing(m)' = Executing(m) \ {c} /\ (c \in Executing(m) <=> job[c].message = m)
    BY <2>1, <2>3 DEF Executing
  <2>6. Cardinality(Executing(m)') = Cardinality(Executing(m)) - One(job[c].message, m)
    BY <2>5, CountsAreNumbers, SizeWithoutOne
  <2>7. Written(m)' = Written(m) + One(job[c].message, m)
    <3>1. m.id \in Requests /\ m.task \in {"save", "log"}
          /\ (m.task = job[c].message.task /\ m.id = job[c].message.id => m = job[c].message)
      BY <2>2, PublishedType
    <3>2. CASE Save(c)
      BY <2>2, <3>1, <3>2 DEF TypeInv, Written, Save, Runs, One
    <3>3. CASE Log(c)
      BY <2>2, <3>1, <3>3 DEF TypeInv, Written, Log, Runs, One
    <3>. QED  BY <1>3, <3>2, <3>3
  <2>8. Written(m)' + Cardinality(Executing(m)') = Written(m) + Cardinality(Executing(m))
    BY <1>1, <2>6, <2>7, CountsAreNumbers DEF One
  <2>9. Written(m)' + Cardinality(Executing(m)') <= Written(m) + Cardinality(Executing(m))
    BY <1>1, <2>8, CountsAreNumbers
  <2>. QED  BY <1>1, <2>1, <2>4, <2>5, <2>9, ChildWrites
<1>4. CASE Finish(c) \/ Fail(c) \/ ChildKilled(c)
  <2>1. /\ UNCHANGED <<queue, reserved, orphans, rows, docs>> /\ job[c].acked
        /\ job' = [job EXCEPT ![c] = Idle]
        /\ crashes' \in Nat /\ crashes' >= crashes
    BY <1>1, <1>4 DEF Finish, Fail, ChildKilled
  <2>2. job'[c] = Idle /\ \A k \in Children \ {c} : job'[k] = job[k]
    BY <2>1 DEF TypeInv
  <2>3. UnackedWith(m)' \subseteq UnackedWith(m) /\ Executing(m)' \subseteq Executing(m)
    BY <2>2 DEF UnackedWith, Executing, Busy, Idle
  <2>4. Cardinality(Executing(m)') <= Cardinality(Executing(m)) /\ Cardinality(Executing(m)') \in Nat
    BY <2>3, CountsAreNumbers, FS_Subset, FS_CardinalityType
  <2>5. Written(m)' = Written(m)
    BY <2>1 DEF Written
  <2>6. Written(m)' + Cardinality(Executing(m)') <= Written(m) + Cardinality(Executing(m))
    BY <1>1, <2>4, <2>5, CountsAreNumbers
  <2>. QED  BY <1>1, <2>1, <2>3, <2>6, ChildWrites
<1>. QED  BY <1>2, <1>3, <1>4, StartWrites DEF Work

(* The death of a node lists again what its children have written and not  *)
(* acknowledged: no more copies than are live.                             *)
LEMMA CrashWrites ==
  ASSUME TypeInv, TypeInv', NEW m \in Published, WritesOf(m), NEW n \in Nodes, NodeCrash(n)
  PROVE  WritesOf(m)'
<1>. DEFINE r == Copies(reserved[n], m)
            b == Cardinality(Begun(n, m))
            backlog == Copies(Backlog, m)
<1>1. /\ UNCHANGED <<queue, rows, docs>> /\ crashes' = crashes + 1
      /\ reserved'[n] = <<>> /\ \A k \in Nodes \ {n} : reserved'[k] = reserved[k]
      /\ job' = [c \in Children |-> IF NodeOf(c) = n THEN Idle ELSE job[c]]
      /\ orphans' = orphans (+) UnackedMessages(n)
  BY DEF TypeInv, NodeCrash
<1>2. Begun(n, m) \subseteq UnackedWith(m) /\ UnackedWith(m)' = UnackedWith(m) \ Begun(n, m)
  BY <1>1 DEF Begun, UnackedOf, UnackedWith, Busy, Idle
<1>3. /\ IsFiniteSet(Begun(n, m)) /\ b \in Nat /\ b <= Cardinality(UnackedWith(m))
      /\ Cardinality(UnackedWith(m)') = Cardinality(UnackedWith(m)) - b
  <2>1. UnackedWith(m) \cap Begun(n, m) = Begun(n, m)
    BY <1>2
  <2>. QED  BY <1>2, <2>1, CountsAreNumbers, FS_Subset, FS_CardinalityType, FS_Difference
<1>4. r \in Nat /\ Cardinality(Places(reserved', m)) \in Nat
      /\ Cardinality(Places(reserved', m)) + r = Cardinality(Places(reserved, m))
  <2>1. Cardinality(Places(reserved', m)) + r
          = Cardinality(Places(reserved, m)) + Copies(reserved'[n], m)
    BY <1>1, PlacesChange DEF TypeInv
  <2>2. Copies(reserved'[n], m) = 0
    BY <1>1, NoCopies
  <2>3. Cardinality(Places(reserved', m)) \in Nat
    BY PlacesFinite DEF TypeInv
  <2>. QED  BY <2>1, <2>2, <2>3, CountsAreNumbers, CopiesAreCounted
<1>5. Listed(orphans', m) = Listed(orphans, m) + r + b
  <2>1. IsABag(UnackedMessages(n)) /\ IsABag(orphans) /\ Listed(UnackedMessages(n), m) = r + b
    BY UnackedBag DEF TypeInv
  <2>2. Listed(orphans', m) = Listed(orphans, m) + Listed(UnackedMessages(n), m)
    BY <1>1, <2>1, BagOfBoth
  <2>. QED  BY <1>3, <1>4, <2>1, <2>2, CountsAreNumbers
<1>6. Cardinality(Executing(m)') <= Cardinality(Executing(m)) /\ Cardinality(Executing(m)') \in Nat
  <2>1. Executing(m)' \subseteq Executing(m)
    BY <1>1 DEF Executing, Idle
  <2>. QED  BY <2>1, CountsAreNumbers, FS_Subset, FS_CardinalityType
<1>7. Written(m)' = Written(m)
  BY <1>1 DEF Written
<1>. HIDE DEF r, b
<1>8. Waiting(m)' = Waiting(m) + b /\ Waiting(m) \in Nat
  BY <1>1, <1>3, <1>4, <1>5, CountsAreNumbers DEF Waiting
<1>9. Live(m)' = Live(m) /\ b <= backlog
  BY <1>3, <1>8, CountsAreNumbers DEF Live, WritesOf
<1>10. Written(m)' + ToWrite(m)' <= backlog * (crashes + 1) + backlog
  <2>1. ToWrite(m)' <= ToWrite(m) + b /\ ToWrite(m)' \in Nat /\ ToWrite(m) \in Nat
    BY <1>3, <1>6, <1>8, CountsAreNumbers DEF ToWrite
  <2>2. backlog * (crashes + 1) \in Nat /\ backlog \in Nat
    BY CountsAreNumbers
  <2>3. Written(m) + ToWrite(m) <= backlog * (crashes + 1) /\ Written(m) \in Nat
    BY WrittenIsNumber DEF WritesOf
  <2>. QED  BY <1>3, <1>7, <1>9, <2>1, <2>2, <2>3
<1>11. backlog * (crashes + 1) + backlog = backlog * (crashes' + 1)
  BY <1>1, CountsAreNumbers
<1>. QED  BY <1>9, <1>10, <1>11 DEF WritesOf

LEMMA WritesInit == Init => WritesInv
<1>. SUFFICES ASSUME Init, NEW m \in Published
              PROVE  WritesOf(m)
  BY DEF WritesInv, WritesOf
<1>1. TypeInv
  BY TypeInit
<1>2. Places(reserved, m) = {} /\ UnackedWith(m) = {} /\ Executing(m) = {}
  BY DEF Init, Places, UnackedWith, Executing, Busy, Idle
<1>3. Listed(orphans, m) = 0
  BY DEF Init, Listed, EmptyBag, SetToBag
<1>4. Copies(queue, m) = Copies(Backlog, m) /\ crashes = 0
  BY DEF Init
<1>5. Written(m) = 0
  BY PublishedType DEF Init, Written
<1>6. Live(m) = Copies(Backlog, m) /\ Written(m) + ToWrite(m) = Copies(Backlog, m)
  BY <1>1, <1>2, <1>3, <1>4, <1>5, CountsAreNumbers, FS_EmptySet DEF Live, ToWrite, Waiting
<1>. QED  BY <1>1, <1>4, <1>6, CountsAreNumbers DEF WritesOf

LEMMA WritesStep ==
  ASSUME TypeInv, WritesInv, [CeleryNext]_vars
  PROVE  WritesInv'
<1>. SUFFICES ASSUME NEW m \in Published
              PROVE  WritesOf(m)'
  BY DEF WritesInv, WritesOf
<1>1. TypeInv' /\ WritesOf(m)
  BY TypeStep DEF WritesInv, WritesOf
<1>2. CASE UNCHANGED vars
  BY <1>1, <1>2 DEF vars, WritesOf, Live, ToWrite, Waiting, UnackedWith, Busy, Executing, Written
<1>3. ASSUME NEW n \in Nodes, NodeStart(n)
      PROVE  WritesOf(m)'
  BY <1>1, <1>3 DEF NodeStart, WritesOf, Live, ToWrite, Waiting, UnackedWith, Busy, Executing, Written
<1>. QED
  BY <1>1, <1>2, <1>3, DeliverWrites, RedeliverWrites, WorkWrites, CrashWrites DEF CeleryNext

(* However often nodes and children die, each published copy of a task     *)
(* makes at most one write more than there were deaths (redelivery of what *)
(* was written and not acknowledged).                                      *)
THEOREM OneMoreWritePerDeathHolds == Spec => []OneMoreWritePerDeath
<1>1. TypeInv /\ WritesInv /\ [CeleryNext]_vars => TypeInv' /\ WritesInv'
  BY TypeStep, WritesStep
<1>2. TypeInv /\ WritesInv => OneMoreWritePerDeath
  <2>. SUFFICES ASSUME TypeInv, WritesInv, NEW m \in Published
                PROVE  Written(m) <= Copies(Backlog, m) * (crashes + 1)
    BY DEF OneMoreWritePerDeath
  <2>1. Written(m) + ToWrite(m) <= Copies(Backlog, m) * (crashes + 1)
    BY DEF WritesInv
  <2>2. Written(m) \in Nat /\ ToWrite(m) \in Nat /\ Copies(Backlog, m) * (crashes + 1) \in Nat
    BY CountsAreNumbers, WrittenIsNumber DEF ToWrite, Waiting
  <2>. QED  BY <2>1, <2>2
<1>. QED  BY <1>1, <1>2, TypeInit, WritesInit, PTL DEF Spec
=============================================================================

----------------------- MODULE PermanentLinkFlowProofs -----------------------
(***************************************************************************)
(* Proofs about PermanentLinkFlow and the cache it is composed of, for     *)
(* every cap and lifetime and any number of requests, results and reports: *)
(* first the cache alone, then that what holds of it holds of the          *)
(* composition, then that the links answered lead to what was asked for.   *)
(***************************************************************************)
EXTENDS PermanentLinkFlow, FiniteSetTheorems, TLAPS

-----------------------------------------------------------------------------
(***************************************************************************)
(* The cache alone (EphemeralCache), under its own specification Spec.     *)
(***************************************************************************)
LEMMA TypeInit == Init => TypeOK
  <1> SUFFICES ASSUME Init PROVE TypeOK
    OBVIOUS
  <1>1. age \in [Id -> 0 .. TTL + 1] /\ since \in [Id -> 0 .. MaxSize]
    BY TTLAssumption, MaxSizeAssumption DEF Init
  <1>2. sweeping \in BOOLEAN
    BY DEF Init
  <1> QED  BY <1>1, <1>2 DEF Init, TypeOK

\* A subset of the ids is finite, and no larger than any set it is part of.
LEMMA SubsetCard ==
  ASSUME NEW S \in SUBSET Id, NEW T \in SUBSET S
  PROVE  /\ IsFiniteSet(S) /\ IsFiniteSet(T)
         /\ Cardinality(S) \in Nat /\ Cardinality(T) \in Nat
         /\ Cardinality(T) <= Cardinality(S)
  BY FiniteAssumption, FS_Subset, FS_CardinalityType

\* Leaving one member out.
LEMMA WithoutOne ==
  ASSUME NEW S \in SUBSET Id, NEW x \in S
  PROVE  Cardinality(S \ {x}) = Cardinality(S) - 1
  BY SubsetCard, FS_RemoveElement

LEMMA PutType == ASSUME TypeOK, NEW i \in Id, Put(i) PROVE TypeOK'
  <1> USE DEF TypeOK
  <1>1. PICK out \in SUBSET entries :
          /\ entries' = (entries \ out) \cup {i}
          /\ lost' = lost \cup {o \in out : Young(o)}
    BY DEF Put, Oldest
  <1>2. age' \in [Id -> 0 .. TTL + 1]
    BY TTLAssumption DEF Put, Stamp
  <1>3. since' \in [Id -> 0 .. MaxSize]
    <2>1. Cardinality({k \in Id \ {i} : age[k] = 0}) \in Nat
      BY SubsetCard
    <2>2. since' = [j \in Id |->
            IF j = i THEN AtMost(Cardinality({k \in Id \ {i} : age[k] = 0}), MaxSize)
            ELSE IF Young(j) THEN AtMost(since[j] + 1, MaxSize) ELSE 0]
      BY DEF Put
    <2>3. AtMost(Cardinality({k \in Id \ {i} : age[k] = 0}), MaxSize) \in 0 .. MaxSize
      BY <2>1, MaxSizeAssumption DEF AtMost
    <2>4. \A j \in Id : AtMost(since[j] + 1, MaxSize) \in 0 .. MaxSize /\ 0 \in 0 .. MaxSize
      BY MaxSizeAssumption DEF AtMost
    <2> HIDE DEF TypeOK
    <2> QED  BY <2>2, <2>3, <2>4
  <1> QED  BY <1>1, <1>2, <1>3 DEF Put

LEMMA TypeStep == TypeOK /\ [Next]_vars => TypeOK'
  <1> SUFFICES ASSUME TypeOK, [Next]_vars PROVE TypeOK'
    OBVIOUS
  <1>1. ASSUME NEW i \in Id, Put(i) PROVE TypeOK'
    BY <1>1, PutType
  <1>2. CASE SweepCut
    BY <1>2 DEF SweepCut, TypeOK
  <1>3. CASE SweepDelete
    BY <1>3 DEF SweepDelete, TypeOK
  <1>4. CASE Tick
    <2>1. age' \in [Id -> 0 .. TTL + 1]
      BY <1>4, TTLAssumption DEF Tick, TypeOK, AtMost
    <2>2. since' \in [Id -> 0 .. MaxSize]
      BY <1>4, MaxSizeAssumption DEF Tick, TypeOK
    <2> QED  BY <1>4, <2>1, <2>2 DEF Tick, TypeOK
  <1>5. CASE UNCHANGED vars
    BY <1>5 DEF vars, TypeOK
  <1> QED  BY <1>1, <1>2, <1>3, <1>4, <1>5 DEF Next

-----------------------------------------------------------------------------
(***************************************************************************)
(* The crowd that a lost result was lost to.                               *)
(***************************************************************************)
\* The entries not older than i, other than i.
Rivals(i) == {j \in entries \ {i} : age[j] <= age[i]}

LEMMA CrowdInit == Init => CrowdInv
  <1> SUFFICES ASSUME Init PROVE CrowdInv
    OBVIOUS
  <1>1. Cardinality(entries) = 0
    BY FS_EmptySet DEF Init
  <1> QED  BY <1>1, MaxSizeAssumption DEF Init, CrowdInv, SizeBounded, LostOnlyToACrowd

LEMMA PutCrowd == ASSUME TypeOK, CrowdInv, NEW i \in Id, Put(i) PROVE CrowdInv'
  <1> USE DEF TypeOK
  <1>1. PICK out \in SUBSET entries :
          /\ out \in IF Full THEN {{o} : o \in Oldest} ELSE {{}}
          /\ entries' = (entries \ out) \cup {i}
          /\ lost' = lost \cup {o \in out : Young(o)}
    BY DEF Put, Oldest
  <1>2. i \notin entries /\ i \notin cutoff /\ ~Young(i) /\ cutoff' = cutoff
    BY DEF Put
  <1>3. \A j \in Id : j # i =>
          /\ age'[j] = age[j]
          /\ Young(j) => since'[j] = AtMost(since[j] + 1, MaxSize)
    BY DEF Put
  <1>4. age'[i] = 0
    BY DEF Put, Stamp
  <1>5. Cardinality(entries) \in Nat /\ Cardinality(entries) <= MaxSize
    BY SubsetCard DEF CrowdInv, SizeBounded
  <1>6. Cardinality(entries \ out) <= MaxSize - 1 /\ Cardinality(entries \ out) \in Nat
    <2>1. CASE Full
      <3>1. PICK o \in entries : out = {o}
        BY <1>1, <2>1 DEF Oldest
      <3> QED  BY <3>1, <1>5, WithoutOne, SubsetCard, MaxSizeAssumption
    <2>2. CASE ~Full
      <3>1. out = {}
        BY <1>1, <2>2
      <3> QED  BY <3>1, <2>2, <1>5, MaxSizeAssumption DEF Full
    <2> QED  BY <2>1, <2>2
  <1>7. SizeBounded'
    <2>1. IsFiniteSet(entries \ out)
      BY SubsetCard
    <2>2. Cardinality(entries') = Cardinality(entries \ out) + 1
      BY <1>1, <1>2, <2>1, FS_AddElement
    <2> QED  BY <1>6, <2>2, MaxSizeAssumption DEF SizeBounded
  <1>8. \A j \in Id : j # i => Young(j)' = Young(j)
    BY <1>3 DEF Young
  <1>9. i \notin lost
    BY <1>2 DEF CrowdInv
  <1>10. ASSUME NEW j \in lost' PROVE since'[j] >= MaxSize /\ Young(j)'
    <2>1. CASE j \in lost
      <3>1. j # i /\ Young(j) /\ since[j] >= MaxSize
        BY <2>1, <1>9 DEF CrowdInv, LostOnlyToACrowd
      <3> QED  BY <2>1, <3>1, <1>3, <1>8, MaxSizeAssumption DEF AtMost
    <2>2. CASE j \in out /\ Young(j)
      <3>1. Full /\ out = {j} /\ j \in Oldest /\ j \in entries
        BY <2>2, <1>1 DEF Oldest
      <3>2. Rivals(j) = entries \ {j}
        BY <3>1 DEF Oldest, Rivals
      <3>3. Cardinality(entries \ {j}) = MaxSize - 1
        BY <3>1, <1>5, WithoutOne, MaxSizeAssumption DEF Full
      <3>4. since[j] >= MaxSize - 1
        BY <2>2, <3>1, <3>2, <3>3 DEF CrowdInv, Rivals
      <3>5. j # i
        BY <3>1, <1>2
      <3> QED  BY <3>1, <3>4, <3>5, <2>2, <1>3, <1>8, MaxSizeAssumption DEF AtMost
    <2> QED  BY <1>1, <2>1, <2>2
  <1>11. ASSUME NEW j \in entries', Young(j)'
         PROVE  Cardinality(Rivals(j)') <= since'[j]
    <2>1. Rivals(j)' \in SUBSET Id
      BY <1>1 DEF Rivals
    <2>2. CASE j = i
      <3>1. Rivals(j)' \subseteq entries \ out
        BY <2>2, <1>1 DEF Rivals
      <3>2. Rivals(j)' \subseteq {k \in Id \ {i} : age[k] = 0}
        BY <2>2, <1>1, <1>2, <1>3, <1>4 DEF Rivals
      <3>3. Cardinality(Rivals(j)') <= MaxSize - 1
        BY <3>1, <1>6, SubsetCard, MaxSizeAssumption
      <3>4. /\ Cardinality(Rivals(j)') <= Cardinality({k \in Id \ {i} : age[k] = 0})
            /\ Cardinality({k \in Id \ {i} : age[k] = 0}) \in Nat
            /\ Cardinality(Rivals(j)') \in Nat
        BY <3>2, SubsetCard
      <3>5. since'[i] = AtMost(Cardinality({k \in Id \ {i} : age[k] = 0}), MaxSize)
        BY DEF Put
      <3> QED  BY <2>2, <3>3, <3>4, <3>5, MaxSizeAssumption DEF AtMost
    <2>3. CASE j # i
      <3>1. j \in entries \ out /\ Young(j)
        BY <2>3, <1>1, <1>8, <1>11
      <3>2. Rivals(j)' \subseteq Rivals(j) \cup {i}
        BY <2>3, <3>1, <1>1, <1>3 DEF Rivals
      <3>3. Rivals(j) \in SUBSET Id /\ i \notin Rivals(j)
        BY <1>2 DEF Rivals
      <3>4. /\ Cardinality(Rivals(j) \cup {i}) = Cardinality(Rivals(j)) + 1
            /\ Cardinality(Rivals(j)) \in Nat
        BY <3>3, SubsetCard, FS_AddElement
      <3>5. Cardinality(Rivals(j)') <= Cardinality(Rivals(j)) + 1
        BY <3>2, <3>3, <3>4, SubsetCard
      <3>6. Cardinality(Rivals(j)) <= since[j]
        BY <3>1 DEF CrowdInv, Rivals
      <3>7. Cardinality(Rivals(j)') <= MaxSize - 1 /\ Cardinality(Rivals(j)') \in Nat
        <4>1. Rivals(j)' \subseteq ((entries \ out) \ {j}) \cup {i}
          BY <1>1 DEF Rivals
        <4>2. /\ Cardinality((entries \ out) \ {j}) = Cardinality(entries \ out) - 1
              /\ IsFiniteSet((entries \ out) \ {j})
          BY <3>1, WithoutOne, SubsetCard
        <4>3. i \notin (entries \ out) \ {j}
          BY <1>2
        <4> DEFINE rest == (entries \ out) \ {j}
        <4>4. Cardinality(rest \cup {i}) = Cardinality(rest) + 1
          <5> HIDE DEF rest
          <5>1. IsFiniteSet(rest) /\ i \notin rest
            BY <4>2, <4>3 DEF rest
          <5> QED  BY <5>1, FS_AddElement
        <4>5. Cardinality(rest \cup {i}) <= MaxSize - 1
          BY <4>2, <4>4, <1>6, MaxSizeAssumption
        <4>6. rest \cup {i} \in SUBSET Id
          OBVIOUS
        <4>7. /\ Cardinality(Rivals(j)') <= Cardinality(rest \cup {i})
              /\ Cardinality(Rivals(j)') \in Nat /\ Cardinality(rest \cup {i}) \in Nat
          BY <4>1, <4>6, SubsetCard
        <4> HIDE DEF rest
        <4> QED  BY <4>5, <4>7, MaxSizeAssumption
      <3>8. since'[j] = AtMost(since[j] + 1, MaxSize) /\ since[j] \in Nat
        BY <2>3, <3>1, <1>3
      <3>9. Cardinality(Rivals(j)') <= AtMost(since[j] + 1, MaxSize)
        BY <3>4, <3>5, <3>6, <3>7, <3>8, MaxSizeAssumption DEF AtMost
      <3> QED  BY <3>8, <3>9
    <2> QED  BY <2>2, <2>3
  <1>12. cutoff' \subseteq {j \in Id : ~Young(j)}'
    BY <1>2, <1>8 DEF CrowdInv
  <1>13. lost' \subseteq Id
    BY <1>1
  <1> QED
    BY <1>7, <1>10, <1>11, <1>12, <1>13 DEF CrowdInv, LostOnlyToACrowd, Rivals

LEMMA TickCrowd == ASSUME TypeOK, CrowdInv, Tick PROVE CrowdInv'
  <1> USE DEF TypeOK, Tick
  <1>1. \A j \in Id : age'[j] = AtMost(age[j] + 1, TTL + 1)
    OBVIOUS
  <1>2. \A j \in Id : Young(j)' <=> age[j] < TTL
    BY <1>1, TTLAssumption DEF Young, AtMost
  <1>3. ASSUME NEW j \in entries', Young(j)'
        PROVE  Cardinality(Rivals(j)') <= since'[j]
    <2>1. age'[j] = age[j] + 1 /\ age[j] < TTL /\ Young(j)
      BY <1>1, <1>2, <1>3, TTLAssumption DEF AtMost, Young
    <2>2. \A k \in entries : age'[k] <= age'[j] <=> age[k] <= age[j]
      BY <1>1, <2>1, TTLAssumption DEF AtMost
    <2>3. Rivals(j)' = Rivals(j)
      BY <2>2 DEF Rivals
    <2>4. since'[j] = since[j]
      BY <2>1
    <2> QED  BY <2>1, <2>3, <2>4 DEF CrowdInv, Rivals
  <1>4. cutoff' \subseteq {j \in Id : ~Young(j)}'
    BY <1>2, TTLAssumption DEF CrowdInv, Young
  <1>5. /\ lost' \subseteq {j \in Id : Young(j)}' /\ lost' \subseteq lost
        /\ \A j \in lost' : since'[j] = since[j]
    BY <1>2
  <1> QED
    BY <1>3, <1>4, <1>5 DEF CrowdInv, LostOnlyToACrowd, SizeBounded, Rivals

LEMMA DeleteCrowd == ASSUME TypeOK, CrowdInv, SweepDelete PROVE CrowdInv'
  <1> USE DEF TypeOK, SweepDelete
  <1>1. lost' = lost
    BY DEF CrowdInv
  <1>2. Cardinality(entries') <= Cardinality(entries) /\ Cardinality(entries') \in Nat
        /\ Cardinality(entries) \in Nat
    BY SubsetCard
  <1>3. ASSUME NEW j \in entries', Young(j)'
        PROVE  Cardinality(Rivals(j)') <= since'[j]
    <2>1. Young(j) /\ j \in entries
      BY <1>3 DEF Young
    <2>2. Rivals(j)' \subseteq Rivals(j) /\ Rivals(j) \in SUBSET Id
      BY DEF Rivals
    <2>3. Cardinality(Rivals(j)') <= Cardinality(Rivals(j))
          /\ Cardinality(Rivals(j)') \in Nat /\ Cardinality(Rivals(j)) \in Nat
      BY <2>2, SubsetCard
    <2>4. Cardinality(Rivals(j)) <= since[j]
      BY <2>1 DEF CrowdInv, Rivals
    <2> QED  BY <2>3, <2>4
  <1>4. SizeBounded'
    BY <1>2, MaxSizeAssumption DEF CrowdInv, SizeBounded
  <1> QED
    BY <1>1, <1>3, <1>4 DEF CrowdInv, LostOnlyToACrowd, Rivals, Young

LEMMA CrowdStep == TypeOK /\ CrowdInv /\ [Next]_vars => CrowdInv'
  <1> SUFFICES ASSUME TypeOK, CrowdInv, [Next]_vars PROVE CrowdInv'
    OBVIOUS
  <1>1. ASSUME NEW i \in Id, Put(i) PROVE CrowdInv'
    BY <1>1, PutCrowd
  <1>2. CASE SweepCut
    BY <1>2 DEF SweepCut, TypeOK, CrowdInv, SizeBounded, LostOnlyToACrowd, Young
  <1>3. CASE SweepDelete
    BY <1>3, DeleteCrowd
  <1>4. CASE Tick
    BY <1>4, TickCrowd
  <1>5. CASE UNCHANGED vars
    BY <1>5 DEF vars, CrowdInv, SizeBounded, LostOnlyToACrowd, Young
  <1> QED  BY <1>1, <1>2, <1>3, <1>4, <1>5 DEF Next

\* The two invariants together: the cap, and what a young result can be lost to.
THEOREM CrowdCorrect == Spec => [](TypeOK /\ CrowdInv)
  <1>1. Init => TypeOK /\ CrowdInv
    BY TypeInit, CrowdInit
  <1>2. TypeOK /\ CrowdInv /\ [Next]_vars => (TypeOK /\ CrowdInv)'
    BY TypeStep, CrowdStep
  <1> QED  BY <1>1, <1>2, PTL DEF Spec

\* Ids, ages and counts stay in range, at any cap and lifetime.
THEOREM CacheTypes == Spec => []TypeOK
  BY CrowdCorrect, PTL

\* The cap on entries holds between any puts and sweeps.
THEOREM CacheBounded == Spec => []SizeBounded
  <1>1. CrowdInv => SizeBounded
    BY DEF CrowdInv
  <1> QED  BY <1>1, CrowdCorrect, PTL

\* A result younger than half an hour is lost only to a full cache of results
\* not older than it, whatever the sweeper does and however ties are broken.
THEOREM YoungLostOnlyToACrowd == Spec => []LostOnlyToACrowd
  <1>1. CrowdInv => LostOnlyToACrowd
    BY DEF CrowdInv
  <1> QED  BY <1>1, CrowdCorrect, PTL

-----------------------------------------------------------------------------
(***************************************************************************)
(* The cache in the composition.                                           *)
(***************************************************************************)
LEMMA CacheStep == [FlowNext]_flowVars => [Next]_vars
  <1> SUFFICES ASSUME [FlowNext]_flowVars PROVE [Next]_vars
    OBVIOUS
  <1>1. ASSUME NEW i \in Id, Capture(i) PROVE Next
    BY <1>1 DEF Capture, Next
  <1>2. ASSUME NEW c \in Client, NEW i \in Id, Ask(c, i) PROVE UNCHANGED vars
    BY <1>2 DEF Ask
  <1>3. ASSUME NEW c \in Client, NEW l \in Link, Reserve(c, l) PROVE UNCHANGED vars
    BY <1>3 DEF Reserve
  <1>4. ASSUME NEW c \in Client,
               Refuse(c) \/ Find(c) \/ NotFound(c) \/ PromoteFails(c) \/ Publish(c) \/ Return(c)
        PROVE  UNCHANGED vars
    BY <1>4 DEF Refuse, Find, NotFound, PromoteFails, Publish, Return
  <1>5. ASSUME NEW l \in Link, ExpireLink(l) PROVE UNCHANGED vars
    BY <1>5 DEF ExpireLink
  <1>6. CASE CacheSweep
    BY <1>6 DEF CacheSweep, Next
  <1>7. CASE FlowTick
    BY <1>7 DEF FlowTick, Next
  <1>8. CASE UNCHANGED flowVars
    BY <1>8 DEF flowVars
  <1> QED  BY <1>1, <1>2, <1>3, <1>4, <1>5, <1>6, <1>7, <1>8 DEF FlowNext

\* Promote (report.go:16-57) reads the cache and leaves it as it was.
THEOREM PromoteIsAStutter == FlowSpec => CacheUndisturbed
  <1>1. FlowInit => Init
    BY DEF FlowInit
  <1> QED  BY <1>1, CacheStep, PTL DEF FlowSpec, CacheUndisturbed, Spec

\* So what is proved of the cache alone is true here: a young result is lost to
\* a crowd of newer ones and to nothing else.
THEOREM FlowLosesOnlyToACrowd == FlowSpec => []LostOnlyToACrowd
  BY PromoteIsAStutter, YoungLostOnlyToACrowd, PTL DEF CacheUndisturbed

\* A young result is in the cache, or was evicted from it.
Remembered == \A i \in Id : Young(i) => i \in entries \/ i \in lost

LEMMA RememberedStep == TypeOK /\ Remembered /\ [Next]_vars => Remembered'
  <1> SUFFICES ASSUME TypeOK, Remembered, [Next]_vars, NEW j \in Id, Young(j)'
               PROVE  (j \in entries \/ j \in lost)'
    BY DEF Remembered
  <1>1. ASSUME NEW i \in Id, Put(i) PROVE (j \in entries \/ j \in lost)'
    <2>1. PICK out : /\ entries' = (entries \ out) \cup {i}
                     /\ lost' = lost \cup {o \in out : Young(o)}
      BY <1>1 DEF Put
    <2>2. j # i => Young(j)
      BY <1>1 DEF Put, Young, TypeOK
    <2> QED  BY <2>1, <2>2 DEF Remembered
  <1>2. CASE SweepCut \/ UNCHANGED vars
    BY <1>2 DEF SweepCut, vars, Remembered, Young
  <1>3. CASE SweepDelete
    BY <1>3 DEF SweepDelete, Remembered, Young
  <1>4. CASE Tick
    <2>1. age[j] < TTL
      BY <1>4, TTLAssumption DEF Tick, Young, AtMost, TypeOK
    <2> QED  BY <1>4, <2>1, TTLAssumption DEF Tick, Remembered, Young, TypeOK
  <1> QED  BY <1>1, <1>2, <1>3, <1>4 DEF Next

-----------------------------------------------------------------------------
(***************************************************************************)
(* The links.                                                              *)
(***************************************************************************)
FlowTypes ==
    /\ pc \in [Client -> {"idle", "asked", "found", "writing", "answered", "failed"}]
    /\ asked \in [Client -> Id \cup {None}]
    /\ entry \in [Client -> Id \cup {None}]
    /\ made \in [Client -> Link \cup {None}]
    /\ report \in [Link -> Id \cup {None}]
    /\ shown \in SUBSET Link
    /\ linkAge \in [Link -> 0 .. LinkTTL + 1]

\* What request c has in hand is what it asked for.
InHand(c) ==
    /\ pc[c] \in {"asked", "found", "writing", "answered"} => asked[c] \in Id
    /\ pc[c] \in {"found", "writing", "answered"} => entry[c] = asked[c]
    /\ made[c] # None <=> pc[c] \in {"writing", "answered"}
    /\ pc[c] = "writing" => report[made[c]] = asked[c] /\ made[c] \notin shown
    /\ pc[c] = "answered" =>
          IF made[c] \in shown THEN report[made[c]] = asked[c]
                               ELSE linkAge[made[c]] >= LinkTTL

\* A report is made by one request.
OwnReport == \A c, d \in Client : made[c] = made[d] /\ made[c] # None => c = d

FlowInv == FlowTypes /\ (\A c \in Client : InHand(c)) /\ OwnReport

LEMMA FlowInvInit == FlowInit => FlowInv
  <1> SUFFICES ASSUME FlowInit PROVE FlowInv
    OBVIOUS
  <1>1. linkAge \in [Link -> 0 .. LinkTTL + 1]
    BY LinkTTLAssumption DEF FlowInit, Store!Init
  <1>2. FlowTypes
    BY <1>1 DEF FlowInit, Store!Init, FlowTypes
  <1> QED  BY <1>2 DEF FlowInit, FlowInv, InHand, OwnReport

\* A step of another request, which leaves the reports of d alone.
LEMMA OthersStep ==
    ASSUME FlowInv, NEW d \in Client,
           /\ pc'[d] = pc[d] /\ asked'[d] = asked[d]
           /\ entry'[d] = entry[d] /\ made'[d] = made[d],
           made[d] \in Link =>
              /\ report'[made[d]] = report[made[d]]
              /\ made[d] \in shown' <=> made[d] \in shown
              /\ linkAge'[made[d]] = linkAge[made[d]]
    PROVE  InHand(d)'
  BY NoneAssumption DEF FlowInv, FlowTypes, InHand

LEMMA GotoStep ==
    ASSUME FlowTypes, NEW c \in Client, NEW to \in {"idle", "asked", "found", "writing", "answered", "failed"},
           pc' = [pc EXCEPT ![c] = to]
    PROVE  /\ pc' \in [Client -> {"idle", "asked", "found", "writing", "answered", "failed"}]
           /\ pc'[c] = to /\ \A d \in Client \ {c} : pc'[d] = pc[d]
  BY DEF FlowTypes

\* A step of request c that touches no report.
LEMMA RequestStep ==
    ASSUME FlowInv, NEW c \in Client,
           \/ \E i \in Id : Ask(c, i)
           \/ Refuse(c) \/ Find(c) \/ NotFound(c) \/ Return(c)
    PROVE  FlowInv'
  <1> USE DEF FlowInv
  <1>1. UNCHANGED <<report, shown, linkAge>>
    BY DEF Ask, Refuse, Find, NotFound, Return, linkVars
  <1>2. \A d \in Client \ {c} : /\ pc'[d] = pc[d] /\ asked'[d] = asked[d]
                                /\ entry'[d] = entry[d] /\ made'[d] = made[d]
    BY DEF Ask, Refuse, Find, NotFound, Return, Goto, FlowTypes
  <1>3. FlowTypes'
    BY <1>1 DEF Ask, Refuse, Find, NotFound, Return, Goto, FlowTypes
  <1>4. ASSUME NEW d \in Client, d # c PROVE InHand(d)'
    BY <1>1, <1>2, <1>4, OthersStep
  <1>5. InHand(c)
    OBVIOUS
  <1>6. InHand(c)'
    <2>1. ASSUME NEW i \in Id, Ask(c, i) PROVE InHand(c)'
      BY <2>1, <1>5 DEF Ask, Goto, InHand, FlowTypes
    <2>2. CASE Refuse(c) \/ NotFound(c)
      BY <2>2, <1>5 DEF Refuse, NotFound, Goto, InHand, FlowTypes
    <2>3. CASE Find(c)
      BY <2>3, <1>5 DEF Find, Goto, InHand, FlowTypes
    <2>4. CASE Return(c)
      BY <2>4 DEF Return, Goto, InHand, FlowTypes
    <2> QED  BY <2>1, <2>2, <2>3, <2>4
  <1>7. made'[c] \in {made[c], None}
    BY DEF Ask, Refuse, Find, NotFound, Return, FlowTypes
  <1>8. OwnReport'
    BY <1>2, <1>7 DEF OwnReport
  <1> QED  BY <1>3, <1>4, <1>6, <1>8

LEMMA ReserveStep ==
    ASSUME FlowInv, NEW c \in Client, NEW l \in Link, Reserve(c, l) PROVE FlowInv'
  <1> USE DEF FlowInv
  <1>1. /\ pc[c] = "found" /\ pc' = [pc EXCEPT ![c] = "writing"]
        /\ made' = [made EXCEPT ![c] = l] /\ report' = [report EXCEPT ![l] = entry[c]]
        /\ linkAge' = [linkAge EXCEPT ![l] = 0] /\ l \notin shown
        /\ UNCHANGED <<asked, entry, shown>>
        /\ \A d \in Client : made[d] # l
    BY DEF Reserve, Goto, Copied, Store!Capture
  <1>2. FlowTypes'
    BY <1>1, LinkTTLAssumption DEF FlowTypes
  <1>3. ASSUME NEW d \in Client, d # c PROVE InHand(d)'
    BY <1>1, <1>3, OthersStep DEF FlowTypes
  <1>4. InHand(c)'
    BY <1>1, NoneAssumption DEF InHand, FlowTypes
  <1>5. OwnReport'
    BY <1>1 DEF OwnReport, FlowTypes
  <1> QED  BY <1>2, <1>3, <1>4, <1>5

LEMMA PromoteFailsStep ==
    ASSUME FlowInv, NEW c \in Client, PromoteFails(c) PROVE FlowInv'
  <1> USE DEF FlowInv
  <1>1. /\ pc' = [pc EXCEPT ![c] = "failed"] /\ made' = [made EXCEPT ![c] = None]
        /\ report' = [l \in Link |-> IF l = made[c] THEN None ELSE report[l]]
        /\ UNCHANGED <<asked, entry, shown, linkAge>>
    BY DEF PromoteFails, Goto
  <1>2. FlowTypes'
    BY <1>1 DEF FlowTypes
  <1>3. ASSUME NEW d \in Client, d # c PROVE InHand(d)'
    <2>1. made[d] \in Link => made[d] # made[c]
      BY <1>3, NoneAssumption DEF OwnReport
    <2> QED  BY <1>1, <1>3, <2>1, OthersStep DEF FlowTypes
  <1>4. InHand(c)'
    BY <1>1 DEF InHand, FlowTypes
  <1>5. OwnReport'
    BY <1>1 DEF OwnReport, FlowTypes
  <1> QED  BY <1>2, <1>3, <1>4, <1>5

LEMMA PublishStep ==
    ASSUME FlowInv, NEW c \in Client, Publish(c) PROVE FlowInv'
  <1> USE DEF FlowInv
  <1>1. /\ pc[c] = "writing" /\ pc' = [pc EXCEPT ![c] = "answered"]
        /\ UNCHANGED <<asked, entry, made, linkAge>>
    BY DEF Publish, Goto, Store!Publish
  <1>2. /\ made[c] \in Link /\ report[made[c]] = asked[c] /\ linkAge[made[c]] \in Nat
    BY <1>1 DEF InHand, FlowTypes
  <1>3. ASSUME NEW d \in Client, d # c, made[d] \in Link PROVE made[d] # made[c]
    BY <1>3, NoneAssumption DEF OwnReport
  <1>4. OwnReport'
    BY <1>1 DEF OwnReport
  <1>5. CASE linkAge[made[c]] <= LinkTTL
    <2>1. shown' = shown \cup {made[c]} /\ report' = report
      BY <1>5 DEF Publish, Store!Publish
    <2>2. FlowTypes'
      BY <1>1, <1>2, <2>1 DEF FlowTypes
    <2>3. ASSUME NEW d \in Client, d # c PROVE InHand(d)'
      BY <1>1, <1>3, <2>1, <2>3, OthersStep DEF FlowTypes
    <2>4. InHand(c)'
      BY <1>1, <1>2, <2>1 DEF InHand, FlowTypes
    <2> QED  BY <1>4, <2>2, <2>3, <2>4
  <1>6. CASE ~(linkAge[made[c]] <= LinkTTL)
    <2>1. shown' = shown /\ report' = [report EXCEPT ![made[c]] = None]
      BY <1>6 DEF Publish
    <2>2. FlowTypes'
      BY <1>1, <1>2, <2>1 DEF FlowTypes
    <2>3. ASSUME NEW d \in Client, d # c PROVE InHand(d)'
      BY <1>1, <1>3, <2>1, <2>3, OthersStep DEF FlowTypes
    <2>4. made[c] \notin shown
      BY <1>1 DEF InHand
    <2>5. linkAge[made[c]] >= LinkTTL
      BY <1>2, <1>6, LinkTTLAssumption
    <2>6. InHand(c)'
      BY <1>1, <1>2, <2>1, <2>4, <2>5 DEF InHand, FlowTypes
    <2> QED  BY <1>4, <2>2, <2>3, <2>6
  <1> QED  BY <1>5, <1>6

\* Time, and the end of a report's life: reports vanish only when they are old.
LEMMA AgeStep ==
    ASSUME FlowInv, \/ FlowTick
                    \/ \E l \in Link : ExpireLink(l)
    PROVE  FlowInv'
  <1> USE DEF FlowInv
  <1>1. UNCHANGED <<pc, asked, entry, made>> /\ Expired
    BY DEF FlowTick, ExpireLink, promoteVars
  <1>2. /\ linkAge' \in [Link -> 0 .. LinkTTL + 1]
        /\ \A l \in Link : linkAge'[l] >= linkAge[l]
    <2>1. CASE FlowTick
      BY <2>1, LinkTTLAssumption DEF FlowTick, Store!Tick, Store!Older, FlowTypes
    <2>2. ASSUME NEW l \in Link, ExpireLink(l) PROVE linkAge' = linkAge
      BY <2>2 DEF ExpireLink, Store!Expire
    <2> QED  BY <2>1, <2>2 DEF FlowTypes
  <1>3. /\ shown' \subseteq shown
        /\ \A l \in shown \ shown' : linkAge'[l] >= LinkTTL
    <2>1. CASE FlowTick
      BY <2>1, LinkTTLAssumption DEF FlowTick, Store!Tick, Store!Older, FlowTypes
    <2>2. ASSUME NEW l \in Link, ExpireLink(l) PROVE /\ shown' \subseteq shown
                                                          /\ \A k \in shown \ shown' : linkAge'[k] >= LinkTTL
      BY <2>2 DEF ExpireLink, Store!Expire, FlowTypes
    <2> QED  BY <2>1, <2>2
  <1>4. FlowTypes'
    BY <1>1, <1>2, <1>3 DEF FlowTypes, Expired
  <1>5. ASSUME NEW c \in Client PROVE InHand(c)'
    <2>1. CASE made[c] \in Link
      <3>1. /\ made[c] \notin shown => report'[made[c]] = report[made[c]]
            /\ made[c] \in shown' => report'[made[c]] = report[made[c]]
        BY <2>1, <1>1 DEF Expired
      <3>2. linkAge[made[c]] \in Nat /\ linkAge'[made[c]] \in Nat
            /\ linkAge'[made[c]] >= linkAge[made[c]]
        BY <2>1, <1>2 DEF FlowTypes
      <3> QED  BY <1>1, <1>3, <2>1, <3>1, <3>2, LinkTTLAssumption DEF InHand
    <2>2. CASE made[c] = None
      BY <1>1, <2>2 DEF InHand
    <2> QED  BY <2>1, <2>2 DEF FlowTypes
  <1>6. OwnReport'
    BY <1>1 DEF OwnReport
  <1> QED  BY <1>4, <1>5, <1>6

LEMMA FlowStep == FlowInv /\ [FlowNext]_flowVars => FlowInv'
  <1> SUFFICES ASSUME FlowInv, [FlowNext]_flowVars PROVE FlowInv'
    OBVIOUS
  <1>1. ASSUME NEW c \in Client,
               \/ \E i \in Id : Ask(c, i)
               \/ Refuse(c) \/ Find(c) \/ NotFound(c) \/ Return(c)
               \/ \E l \in Link : Reserve(c, l)
               \/ PromoteFails(c) \/ Publish(c)
        PROVE  FlowInv'
    BY <1>1, RequestStep, ReserveStep, PromoteFailsStep, PublishStep
  <1>2. CASE FlowTick \/ \E l \in Link : ExpireLink(l)
    BY <1>2, AgeStep
  <1>3. CASE (\E i \in Id : Capture(i)) \/ CacheSweep \/ UNCHANGED flowVars
    <2>1. UNCHANGED <<pc, asked, entry, made, report, shown, linkAge>>
      BY <1>3 DEF Capture, CacheSweep, flowVars, promoteVars, linkVars
    <2> QED  BY <2>1 DEF FlowInv, FlowTypes, InHand, OwnReport
  <1> QED  BY <1>1, <1>2, <1>3 DEF FlowNext

THEOREM FlowCorrect == FlowSpec => []FlowInv
  BY FlowInvInit, FlowStep, PTL DEF FlowSpec

\* Types of the cache, the requests and the reports.
THEOREM FlowTypesCorrect == FlowSpec => []FlowTypeOK
  <1>1. TypeOK /\ FlowInv => FlowTypeOK
    BY DEF FlowInv, FlowTypes, FlowTypeOK
  <1> QED  BY <1>1, FlowCorrect, PromoteIsAStutter, CrowdCorrect, PTL DEF CacheUndisturbed

\* The id in Promote's answer (report.go:56) opens the result asked for until
\* the report is old, whatever becomes of the cache entry meanwhile.
THEOREM LinksOpen == FlowSpec => []LinkOpensResult
  <1>1. FlowInv => LinkOpensResult
    BY DEF FlowInv, InHand, LinkOpensResult, ReportRead
  <1> QED  BY <1>1, FlowCorrect, PTL

\* "No longer available" (report.go:42) is never said of a young result that
\* was not crowded out.
THEOREM NotFoundIsTrue == FlowSpec => MissingForAReason
  <1> DEFINE P == \A c \in Client : NotFound(c) => ~Young(asked[c]) \/ asked[c] \in lost
  <1>1. Init => Remembered
    BY TTLAssumption DEF Init, Remembered, Young
  <1>2. FlowInv /\ Remembered /\ [FlowNext]_flowVars => [P]_flowVars
    BY DEF FlowInv, InHand, Remembered, NotFound, Goto
  <1>3. FlowInit => Init
    BY DEF FlowInit
  <1>4. FlowSpec => []TypeOK
    BY PromoteIsAStutter, CrowdCorrect, PTL DEF CacheUndisturbed
  <1>5. FlowSpec => []Remembered
    BY <1>1, <1>3, <1>4, RememberedStep, CacheStep, PTL DEF FlowSpec
  <1> QED  BY <1>2, <1>5, FlowCorrect, PTL DEF FlowSpec, MissingForAReason
=============================================================================

--------------------------- MODULE AdmissionProofs ---------------------------
(***************************************************************************)
(* Proofs about Admission, for every number of requests, addresses,        *)
(* entries and slots.                                                      *)
(***************************************************************************)
EXTENDS Admission, FiniteSetTheorems, TLAPS

Busy == {r \in Request : pc[r] # "idle"}

\* The number of requests inside a handler goes up by one, down by one or stays.
LEMMA BusyEnter ==
    ASSUME TypeOK, NEW r \in Request, pc[r] = "idle", NEW s \in Stage, s # "idle",
           pc' = [pc EXCEPT ![r] = s]
    PROVE  Cardinality(Busy') = Cardinality(Busy) + 1
  <1>1. Busy' = Busy \cup {r} /\ r \notin Busy
    BY DEF Busy, TypeOK
  <1>2. IsFiniteSet(Busy)
    BY FiniteAssumption, FS_Subset DEF Busy
  <1> QED  BY <1>1, <1>2, FS_AddElement

LEMMA BusyLeave ==
    ASSUME TypeOK, NEW r \in Request, pc[r] # "idle", pc' = [pc EXCEPT ![r] = "idle"]
    PROVE  /\ Cardinality(Busy') = Cardinality(Busy) - 1
           /\ Cardinality(Busy) \in Nat \ {0}
  <1>1. Busy' = Busy \ {r} /\ r \in Busy
    BY DEF Busy, TypeOK
  <1>2. IsFiniteSet(Busy)
    BY FiniteAssumption, FS_Subset DEF Busy
  <1>3. Cardinality(Busy) \in Nat /\ Cardinality(Busy) # 0
    BY <1>1, <1>2, FS_CardinalityType, FS_EmptySet
  <1> QED  BY <1>1, <1>2, <1>3, FS_RemoveElement

LEMMA BusyStay ==
    ASSUME TypeOK, NEW r \in Request, pc[r] # "idle", NEW s \in Stage, s # "idle",
           pc' = [pc EXCEPT ![r] = s]
    PROVE  Busy' = Busy
  BY DEF Busy, TypeOK

TypeInv == TypeOK /\ SlotsMatchRequests

-----------------------------------------------------------------------------
(***************************************************************************)
(* Types, and the tokens of the global semaphore.                          *)
(***************************************************************************)
LEMMA TypeInit == Init => TypeInv
  <1> SUFFICES ASSUME Init PROVE TypeInv
    OBVIOUS
  <1>1. {r \in Request : pc[r] # "idle"} = {}
    BY DEF Init
  <1>2. SlotsMatchRequests
    BY <1>1, FS_EmptySet DEF Init, SlotsMatchRequests
  <1>3. slots \in 0 .. MaxSlots
    BY MaxSlotsAssumption DEF Init
  <1>4. cleaning \in BOOLEAN
    BY DEF Init
  <1>5. \A r \in Request : pc[r] = "idle" /\ ip[r] = None /\ ent[r] = None
    BY DEF Init
  <1> QED
    BY <1>2, <1>3, <1>4, <1>5, NoneAssumption DEF Init, TypeInv, TypeOK, Stage, HasEntry

LEMMA TypeStep == TypeInv /\ [Next]_vars => TypeInv'
  <1> SUFFICES ASSUME TypeInv, [Next]_vars PROVE TypeInv'
    OBVIOUS
  <1> USE NoneAssumption, MaxSlotsAssumption
        DEF reqVars, entryVars, sweepVars
  <1>0. TypeOK /\ slots = Cardinality(Busy)
    BY DEF TypeInv, SlotsMatchRequests, Busy
  <1>1. ASSUME NEW r \in Request, NEW a \in IP, TakeSlot(r, a) PROVE TypeInv'
    <2>1. TypeOK'
      BY <1>0, <1>1 DEF TakeSlot, SlotFree, Goto, TypeOK, Stage, HasEntry
    <2>2. Cardinality(Busy') = Cardinality(Busy) + 1
      BY <1>0, <1>1, BusyEnter DEF TakeSlot, Goto, Stage
    <2> QED
      BY <1>0, <1>1, <2>1, <2>2 DEF TakeSlot, TypeInv, SlotsMatchRequests, Busy
  <1>2. ASSUME NEW r \in Request, FreeSlot(r) PROVE TypeInv'
    <2>1. /\ Cardinality(Busy') = Cardinality(Busy) - 1
          /\ Cardinality(Busy) \in Nat \ {0}
      BY <1>0, <1>2, BusyLeave DEF FreeSlot, Goto
    <2>2. TypeOK'
      BY <1>0, <1>2, <2>1 DEF FreeSlot, Goto, TypeOK, Stage, HasEntry
    <2> QED
      BY <1>0, <1>2, <2>1, <2>2 DEF FreeSlot, TypeInv, SlotsMatchRequests, Busy
  <1>3. ASSUME NEW r \in Request, Advance(r), ~FreeSlot(r) PROVE TypeInv'
    <2> USE DEF Goto, TypeOK, Stage, HasEntry
    <2>1. TypeOK'
      <3>1. CASE LoadEntry(r)
        BY <1>0, <3>1 DEF LoadEntry
      <3>2. CASE StoreEntry(r)
        BY <1>0, <3>2 DEF StoreEntry
      <3>3. CASE Touch(r)
        BY <1>0, <3>3 DEF Touch
      <3>4. CASE Acquire(r)
        BY <1>0, <3>4 DEF Acquire
      <3>5. CASE Refuse(r)
        BY <1>0, <3>5 DEF Refuse, StillRaced
      <3>6. CASE Release(r)
        BY <1>0, <3>6 DEF Release
      <3>7. CASE Drain(r)
        BY <1>0, <3>7 DEF Drain, StillRaced
      <3> QED  BY <1>3, <3>1, <3>2, <3>3, <3>4, <3>5, <3>6, <3>7 DEF Advance
    <2>2. PICK s \in Stage : s # "idle" /\ pc' = [pc EXCEPT ![r] = s]
      BY <1>3 DEF Advance, LoadEntry, StoreEntry, Touch, Acquire, Refuse, Release,
                  Drain
    <2>3. pc[r] # "idle" /\ slots' = slots
      BY <1>3 DEF Advance, LoadEntry, StoreEntry, Touch, Acquire, Refuse, Release,
                  Drain
    <2>4. Busy' = Busy
      BY <1>0, <2>2, <2>3, BusyStay
    <2> QED  BY <1>0, <2>1, <2>3, <2>4 DEF TypeInv, SlotsMatchRequests, Busy
  <1>4. CASE Clean
    <2>1. TypeOK' /\ pc' = pc /\ slots' = slots
      BY <1>0, <1>4 DEF Clean, CleanBegin, CleanPass, CleanTest, CleanDelete,
                        CleanEnd, TypeOK
    <2> QED  BY <1>0, <2>1 DEF TypeInv, SlotsMatchRequests, Busy
  <1>5. ASSUME NEW a \in IP, NEW g \in Gen, GoStale(a, g) PROVE TypeInv'
    <2>1. TypeOK' /\ pc' = pc /\ slots' = slots
      BY <1>0, <1>5 DEF GoStale, TypeOK
    <2> QED  BY <1>0, <2>1 DEF TypeInv, SlotsMatchRequests, Busy
  <1>6. CASE UNCHANGED vars
    BY <1>6 DEF vars, TypeInv, TypeOK, SlotsMatchRequests
  <1> QED
    BY <1>1, <1>2, <1>3, <1>4, <1>5, <1>6 DEF Next

THEOREM TypeCorrect == Spec => []TypeInv
  BY TypeInit, TypeStep, PTL DEF Spec

\* Every request is somewhere in a handler, with an entry when it has passed
\* LoadOrStore, whatever the cleaner deletes meanwhile.
THEOREM TypesCorrect == Spec => []TypeOK
  BY TypeCorrect, PTL DEF TypeInv

\* No path through a handler loses or invents a token of h.semaphore.
THEOREM SlotsCorrect == Spec => []SlotsMatchRequests
  BY TypeCorrect, PTL DEF TypeInv
-----------------------------------------------------------------------------
(***************************************************************************)
(* The per-IP semaphore.  A drained or replaced entry leaves the map for   *)
(* good before anything could go wrong with it.                            *)
(***************************************************************************)
LEMMA TokenInit == Init => NoStrandedToken /\ RaceInv
  BY NoneAssumption
     DEF Init, NoStrandedToken, RaceInv, SameEntry, ExclusiveUnlessRaced,
         RunningIsBusy, Holders

LEMMA TokenStep ==
    TypeOK /\ NoStrandedToken /\ [Next]_vars => NoStrandedToken'
  <1> SUFFICES ASSUME TypeOK, NoStrandedToken, [Next]_vars PROVE NoStrandedToken'
    OBVIOUS
  <1> USE NoneAssumption
        DEF NoStrandedToken, Holders, TypeOK, HasEntry, reqVars, entryVars, sweepVars
  <1>1. ASSUME NEW r \in Request, Advance(r) PROVE NoStrandedToken'
    <2> USE DEF Goto
    <2>1. CASE LoadEntry(r)
      BY <2>1 DEF LoadEntry
    <2>2. CASE StoreEntry(r)
      BY <2>2 DEF StoreEntry
    <2>3. CASE Touch(r)
      BY <2>3 DEF Touch
    <2>4. CASE Acquire(r)
      BY <2>4 DEF Acquire
    <2>5. CASE Refuse(r)
      BY <2>5 DEF Refuse
    <2>6. CASE Release(r)
      BY <2>6 DEF Release
    <2>7. CASE Drain(r)
      BY <2>7 DEF Drain
    <2>8. CASE FreeSlot(r)
      BY <2>8 DEF FreeSlot
    <2> QED
      BY <1>1, <2>1, <2>2, <2>3, <2>4, <2>5, <2>6, <2>7, <2>8 DEF Advance
  <1>2. ASSUME NEW r \in Request, NEW a \in IP, TakeSlot(r, a) PROVE NoStrandedToken'
    BY <1>2 DEF TakeSlot, Goto
  <1>3. CASE Clean
    BY <1>3 DEF Clean, CleanBegin, CleanPass, CleanTest, CleanDelete, CleanEnd
  <1>4. ASSUME NEW a \in IP, NEW g \in Gen, GoStale(a, g) PROVE NoStrandedToken'
    BY <1>4 DEF GoStale
  <1>5. CASE UNCHANGED vars
    BY <1>5 DEF vars
  <1> QED
    BY <1>1, <1>2, <1>3, <1>4, <1>5 DEF Next

\* The cases of RaceInv: an address where a race is on owes nothing.
LEMMA RaceStep == TypeOK /\ RaceInv /\ [Next]_vars => RaceInv'
  <1> SUFFICES ASSUME TypeOK, RaceInv, [Next]_vars PROVE RaceInv'
    OBVIOUS
  <1> USE NoneAssumption
        DEF RaceInv, SameEntry, ExclusiveUnlessRaced, RunningIsBusy, Holders,
            TypeOK, HasEntry, reqVars, entryVars, sweepVars
  <1>1. ASSUME NEW r \in Request, Advance(r) PROVE RaceInv'
    <2> USE DEF Goto
    <2>1. CASE LoadEntry(r)
      BY <2>1 DEF LoadEntry
    <2>2. CASE StoreEntry(r)
      BY <2>2 DEF StoreEntry
    <2>3. CASE Touch(r)
      BY <2>3 DEF Touch
    <2>4. CASE Acquire(r)
      BY <2>4 DEF Acquire
    <2>5. CASE Refuse(r)
      BY <2>5 DEF Refuse, StillRaced, Users
    <2>6. CASE Release(r)
      BY <2>6 DEF Release
    <2>7. CASE Drain(r)
      BY <2>7 DEF Drain, StillRaced, Users
    <2>8. CASE FreeSlot(r)
      BY <2>8 DEF FreeSlot
    <2> QED
      BY <1>1, <2>1, <2>2, <2>3, <2>4, <2>5, <2>6, <2>7, <2>8 DEF Advance
  <1>2. ASSUME NEW r \in Request, NEW a \in IP, TakeSlot(r, a) PROVE RaceInv'
    BY <1>2 DEF TakeSlot, Goto
  <1>3. CASE CleanDelete
    BY <1>3 DEF CleanDelete, Users
  <1>4. CASE Clean /\ ~CleanDelete
    BY <1>4 DEF Clean, CleanBegin, CleanPass, CleanTest, CleanEnd
  <1>5. ASSUME NEW a \in IP, NEW g \in Gen, GoStale(a, g) PROVE RaceInv'
    BY <1>5 DEF GoStale
  <1>6. CASE UNCHANGED vars
    BY <1>6 DEF vars
  <1> QED
    BY <1>1, <1>2, <1>3, <1>4, <1>5, <1>6 DEF Next

\* No address is ever locked out: a full channel has a request that will drain
\* it, whatever the cleaner deleted and whoever released through whose entry.
THEOREM NeverLockedOut == Spec => []NoStrandedToken
  <1>1. Init => NoStrandedToken
    BY TokenInit
  <1>2. TypeInv => TypeOK
    BY DEF TypeInv
  <1> QED  BY <1>1, <1>2, TypeCorrect, TokenStep, PTL DEF Spec

THEOREM RaceCorrect == Spec => []RaceInv
  <1>1. Init => RaceInv
    BY TokenInit
  <1>2. TypeInv => TypeOK
    BY DEF TypeInv
  <1> QED  BY <1>1, <1>2, TypeCorrect, RaceStep, PTL DEF Spec

\* Two requests of one address run together only after the cleaner deleted an
\* entry in use, and not once the requests of that race are gone.
THEOREM OneAtATimeUnlessRaced == Spec => []ExclusiveUnlessRaced
  BY RaceCorrect, PTL DEF RaceInv

\* Until then a running request makes the next one of its address be refused.
THEOREM RunningRefuses == Spec => []RunningIsBusy
  BY RaceCorrect, PTL DEF RaceInv
-----------------------------------------------------------------------------
(***************************************************************************)
(* The bound on the number of entries takes no behaviour away: a request   *)
(* that has to store an entry always finds one that nothing refers to.     *)
(***************************************************************************)
\* The entries a request of the set S got or loaded.
Got(S) == {ent[q] : q \in S}
Loaded(S) == {rel[q] : q \in S}

EntryLeft ==
    \A r \in Request :
        pc[r] = "admitted" /\ cur[ip[r]] = None => \E g \in Gen : NewEntry(ip[r], g)

OnlyReleasing == \A r \in Request : pc[r] # "draining" => rel[r] = None

LEMMA ReleasingStep == TypeOK /\ OnlyReleasing /\ [Next]_vars => OnlyReleasing'
  <1> SUFFICES ASSUME TypeOK, OnlyReleasing, [Next]_vars PROVE OnlyReleasing'
    OBVIOUS
  <1> USE DEF OnlyReleasing, TypeOK, Goto, reqVars, entryVars, sweepVars
  <1>1. ASSUME NEW r \in Request, Advance(r) PROVE OnlyReleasing'
    BY <1>1 DEF Advance, LoadEntry, StoreEntry, Touch, Acquire, Refuse, Release,
                Drain, FreeSlot
  <1>2. ASSUME NEW r \in Request, NEW a \in IP, TakeSlot(r, a) PROVE OnlyReleasing'
    BY <1>2 DEF TakeSlot
  <1>3. CASE Clean
    BY <1>3 DEF Clean, CleanBegin, CleanPass, CleanTest, CleanDelete, CleanEnd
  <1>4. ASSUME NEW a \in IP, NEW g \in Gen, GoStale(a, g) PROVE OnlyReleasing'
    BY <1>4 DEF GoStale
  <1>5. CASE UNCHANGED vars
    BY <1>5 DEF vars
  <1> QED  BY <1>1, <1>2, <1>3, <1>4, <1>5 DEF Next

\* The entries of a set of requests are no more than those requests.
LEMMA FewEntries ==
    ASSUME NEW S, IsFiniteSet(S)
    PROVE  /\ IsFiniteSet(Got(S)) /\ Cardinality(Got(S)) <= Cardinality(S)
           /\ IsFiniteSet(Loaded(S)) /\ Cardinality(Loaded(S)) <= Cardinality(S)
  <1>1. [q \in S |-> ent[q]] \in Surjection(S, Got(S))
    BY DEF Surjection, Got
  <1>2. [q \in S |-> rel[q]] \in Surjection(S, Loaded(S))
    BY DEF Surjection, Loaded
  <1>3. IsFiniteSet(Got(S)) /\ Cardinality(Got(S)) <= Cardinality(S)
    BY <1>1, FS_Surjection
  <1>4. IsFiniteSet(Loaded(S)) /\ Cardinality(Loaded(S)) <= Cardinality(S)
    BY <1>2, FS_Surjection
  <1> QED  BY <1>3, <1>4

LEMMA AlwaysLeft == TypeInv /\ OnlyReleasing => EntryLeft
  <1> SUFFICES ASSUME TypeInv, OnlyReleasing, NEW r \in Request,
                      pc[r] = "admitted", cur[ip[r]] = None
               PROVE  \E g \in Gen : NewEntry(ip[r], g)
    BY DEF EntryLeft
  <1> DEFINE Others == Busy \ {r}
             Taken == Got(Others) \cup Loaded(Others)
  <1>1. IsFiniteSet(Busy) /\ r \in Busy
    BY FiniteAssumption, FS_Subset DEF Busy
  <1>2. Cardinality(Busy) \in 0 .. MaxSlots
    BY DEF TypeInv, TypeOK, SlotsMatchRequests, Busy
  <1>3. IsFiniteSet(Others) /\ Cardinality(Others) = Cardinality(Busy) - 1
    BY <1>1, FS_RemoveElement
  <1>4. IsFiniteSet(Taken) /\ Cardinality(Taken) <= 2 * MaxSlots - 2
    <2> HIDE DEF Others
    <2>1. /\ IsFiniteSet(Got(Others)) /\ Cardinality(Got(Others)) <= Cardinality(Others)
          /\ IsFiniteSet(Loaded(Others))
          /\ Cardinality(Loaded(Others)) <= Cardinality(Others)
      BY <1>3, FewEntries
    <2>2. /\ IsFiniteSet(Taken)
          /\ Cardinality(Taken) = Cardinality(Got(Others)) + Cardinality(Loaded(Others))
                                  - Cardinality(Got(Others) \cap Loaded(Others))
      BY <2>1, FS_Union
    <2>3. IsFiniteSet(Got(Others) \cap Loaded(Others))
      BY <2>1, FS_Intersection
    <2>4. /\ Cardinality(Got(Others)) \in Nat /\ Cardinality(Loaded(Others)) \in Nat
          /\ Cardinality(Got(Others) \cap Loaded(Others)) \in Nat
      BY <2>1, <2>3, FS_CardinalityType
    <2> HIDE DEF Taken
    <2> QED  BY <1>2, <1>3, <2>1, <2>2, <2>4, MaxSlotsAssumption
  <1>5. PICK g \in Gen : g \notin Taken
    <2> HIDE DEF Taken
    <2>1. SUFFICES ASSUME Gen \subseteq Taken PROVE FALSE
      OBVIOUS
    <2>2. IsFiniteSet(Gen) /\ Cardinality(Gen) <= Cardinality(Taken)
      BY <1>4, <2>1, FS_Subset
    <2>3. Cardinality(Gen) \in Nat /\ Cardinality(Taken) \in Nat
      BY <1>4, <2>2, FS_CardinalityType
    <2> QED  BY <1>4, <2>2, <2>3, GenAssumption, MaxSlotsAssumption
  <1>6. ASSUME NEW q \in Request, ip[q] = ip[r] PROVE ent[q] # g /\ rel[q] # g
    <2>1. pc[q] # "idle"
      BY <1>6 DEF TypeInv, TypeOK
    <2>2. CASE q = r
      BY <2>2, NoneAssumption DEF TypeInv, TypeOK, HasEntry, OnlyReleasing
    <2>3. CASE q # r
      BY <1>5, <2>1, <2>3 DEF Busy, Got, Loaded
    <2> QED  BY <2>2, <2>3
  <1> QED  BY <1>6, NoneAssumption DEF NewEntry

\* acquireIP never fails to make an entry: the model has as many of them as the
\* requests inside can refer to, and one more.
THEOREM NeverShortOfEntries == Spec => []EntryLeft
  <1>1. Init => OnlyReleasing
    BY DEF Init, OnlyReleasing
  <1>2. TypeInv => TypeOK
    BY DEF TypeInv
  <1> QED  BY <1>1, <1>2, TypeCorrect, ReleasingStep, AlwaysLeft, PTL DEF Spec
=============================================================================

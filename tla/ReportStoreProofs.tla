-------------------------- MODULE ReportStoreProofs --------------------------
(***************************************************************************)
(* Proofs about ReportStore, for every number of promoters and ids, every  *)
(* cap and every lifetime.                                                 *)
(***************************************************************************)
EXTENDS ReportStore, FiniteSetTheorems, TLAPS

-----------------------------------------------------------------------------
(***************************************************************************)
(* Types, and the lock's owner.                                            *)
(***************************************************************************)
LEMMA TypeInit == Init => TypeOK
  <1> SUFFICES ASSUME Init PROVE TypeOK
    OBVIOUS
  <1>1. /\ up \in BOOLEAN /\ sweeping \in BOOLEAN
        /\ blurred \in BOOLEAN /\ drifted \in BOOLEAN
    BY DEF Init
  <1>2. age \in [Id -> 0 .. TTL + 1]
    BY TTLAssumption DEF Init
  <1>3. \A p \in Promoter : (mu = p <=> pc[p] = "checked") /\ pc[p] \notin Named
    BY NoneAssumption DEF Init, Named
  <1> QED  BY <1>1, <1>2, <1>3 DEF Init, TypeOK, Stage, Reserved, Content

LEMMA TypeStep == TypeOK /\ [Next]_vars => TypeOK'
  <1> SUFFICES ASSUME TypeOK, [Next]_vars PROVE TypeOK'
    OBVIOUS
  <1> USE NoneAssumption, TTLAssumption
        DEF TypeOK, Stage, Named, Reserved, Content, procVars, diskVars, sweepVars
  <1>1. ASSUME NEW p \in Promoter, Promote(p) PROVE TypeOK'
    <2>1. CASE CheckCap(p)
      BY <2>1 DEF CheckCap, Goto
    <2>2. CASE Reserve(p)
      BY <2>2 DEF Reserve, Goto
    <2>3. CASE NameReport(p)
      BY <2>3 DEF NameReport, Goto
    <2>4. CASE NameFails(p)
      BY <2>4 DEF NameFails, Goto
    <2>5. CASE BeginWrite(p)
      BY <2>5 DEF BeginWrite, Goto
    <2>6. CASE EndWrite(p)
      BY <2>6 DEF EndWrite, Goto
    <2>7. CASE WriteFails(p)
      BY <2>7 DEF WriteFails, Goto
    <2>8. CASE Rename(p)
      BY <2>8 DEF Rename, Goto
    <2>9. CASE RenameFails(p)
      BY <2>9 DEF RenameFails, Goto
    <2>10. CASE Return(p)
      <3>1. acked' \in SUBSET Id
        <4>1. rid[p] \in Id
          BY <2>10 DEF Return, Goto
        <4> QED  BY <2>10, <4>1 DEF Return
      <3> QED  BY <2>10, <3>1 DEF Return, Goto
    <2>11. CASE Undo(p)
      <3>1. active' \in Int
        BY <2>11 DEF Undo
      <3>2. \A q \in Promoter : mu' = q <=> pc'[q] = "checked"
        BY <2>11 DEF Undo, Goto
      <3> QED  BY <2>11, <3>1, <3>2 DEF Undo, Goto
    <2> QED
      BY <1>1, <2>1, <2>2, <2>3, <2>4, <2>5, <2>6, <2>7, <2>8, <2>9, <2>10, <2>11
         DEF Promote
  <1>2. CASE SweepBegin
    BY <1>2 DEF SweepBegin, Files, Expired
  <1>3. ASSUME NEW i \in Id, SweepFile(i) PROVE TypeOK'
    BY <1>3 DEF SweepFile, SweepKeep, SweepRemove, SweepSkip
  <1>4. CASE SweepStore
    <2>1. active' \in Int
      BY <1>4, FiniteAssumption, FS_Subset, FS_CardinalityType DEF SweepStore
    <2> QED  BY <1>4, <2>1 DEF SweepStore
  <1>5. CASE Tick
    <2>1. age' \in [Id -> 0 .. TTL + 1]
      BY <1>5 DEF Tick, Older
    <2> QED  BY <1>5, <2>1 DEF Tick
  <1>6. CASE Crash
    <2>1. up' \in BOOLEAN /\ sweeping' \in BOOLEAN
          /\ blurred' \in BOOLEAN /\ drifted' \in BOOLEAN
      BY <1>6 DEF Crash
    <2>2. /\ mu' = None
          /\ pc' = [p \in Promoter |-> "idle"]
          /\ rid' = [p \in Promoter |-> None]
      BY <1>6 DEF Crash
    <2>3. \A p \in Promoter : (mu' = p <=> pc'[p] = "checked") /\ pc'[p] \notin Named
      BY <2>2
    <2> QED  BY <1>6, <2>1, <2>2, <2>3 DEF Crash
  <1>7. CASE Restart
    <2>1. active' \in Int
      <3>1. PICK unread \in IF ReadsFail THEN SUBSET Live ELSE {{}} :
                   active' = Cardinality(Live \ unread)
        BY <1>7 DEF Restart
      <3>2. Live \ unread \subseteq Id
        BY DEF Live, Files
      <3> QED  BY <3>1, <3>2, FiniteAssumption, FS_Subset, FS_CardinalityType
    <2> QED  BY <1>7, <2>1 DEF Restart
  <1>8. CASE UNCHANGED vars
    BY <1>8 DEF vars
  <1> QED
    BY <1>1, <1>2, <1>3, <1>4, <1>5, <1>6, <1>7, <1>8 DEF Next, Sweep

\* Every reachable state is well typed and s.mu is held exactly between
\* Promote's cap test and its increment.
THEOREM TypeCorrect == Spec => []TypeOK
  BY TypeInit, TypeStep, PTL DEF Spec
-----------------------------------------------------------------------------
(***************************************************************************)
(* Reports on disk.                                                        *)
(***************************************************************************)
LEMMA FileInit == Init => FileInv
  BY NoneAssumption
     DEF Init, FileInv, PromoterFiles, DistinctIds, NoTornReport, AckedFresh,
         SweepFiles

LEMMA FileStep == TypeOK /\ FileInv /\ [Next]_vars => FileInv'
  <1> SUFFICES ASSUME TypeOK, FileInv, [Next]_vars PROVE FileInv'
    OBVIOUS
  <1> USE NoneAssumption, TTLAssumption
        DEF FileInv, PromoterFiles, DistinctIds, NoTornReport, AckedFresh,
            SweepFiles, Files, Fresh, Expired, procVars, diskVars, sweepVars
  <1>1. ASSUME NEW p \in Promoter, Promote(p) PROVE FileInv'
    <2> USE DEF Goto, TypeOK, Named
    <2>1. CASE CheckCap(p)
      BY <2>1 DEF CheckCap
    <2>2. CASE Reserve(p)
      BY <2>2 DEF Reserve
    <2>3. CASE NameReport(p)
      BY <2>3 DEF NameReport, Unused
    <2>4. CASE NameFails(p)
      BY <2>4 DEF NameFails
    <2>5. CASE BeginWrite(p)
      BY <2>5 DEF BeginWrite
    <2>6. CASE EndWrite(p)
      BY <2>6 DEF EndWrite
    <2>7. CASE WriteFails(p)
      BY <2>7 DEF WriteFails
    <2>8. CASE Rename(p)
      BY <2>8 DEF Rename
    <2>9. CASE RenameFails(p)
      BY <2>9 DEF RenameFails
    <2>10. CASE Return(p)
      BY <2>10 DEF Return
    <2>11. CASE Undo(p)
      BY <2>11 DEF Undo
    <2> QED
      BY <1>1, <2>1, <2>2, <2>3, <2>4, <2>5, <2>6, <2>7, <2>8, <2>9, <2>10, <2>11
         DEF Promote
  <1>2. CASE SweepBegin
    BY <1>2 DEF SweepBegin
  <1>3. ASSUME NEW i \in Id, SweepFile(i) PROVE FileInv'
    <2>1. CASE SweepKeep(i)
      BY <2>1 DEF SweepKeep
    <2>2. CASE SweepRemove(i)
      BY <2>2 DEF SweepRemove, TypeOK, Named
    <2>3. CASE SweepSkip(i)
      BY <2>3 DEF SweepSkip
    <2> QED  BY <1>3, <2>1, <2>2, <2>3 DEF SweepFile
  <1>4. CASE SweepStore
    BY <1>4 DEF SweepStore
  <1>5. CASE Tick
    BY <1>5 DEF Tick, Older, TypeOK, Named
  <1>6. CASE Crash
    BY <1>6 DEF Crash
  <1>7. CASE Restart
    BY <1>7 DEF Restart
  <1>8. CASE UNCHANGED vars
    BY <1>8 DEF vars
  <1> QED
    BY <1>1, <1>2, <1>3, <1>4, <1>5, <1>6, <1>7, <1>8 DEF Next, Sweep

THEOREM FilesCorrect == Spec => []FileInv
  BY TypeCorrect, FileInit, FileStep, PTL DEF Spec
\* No crash, write error or interleaving leaves a half-written <id>.json.
THEOREM NeverTorn == Spec => []NoTornReport
  BY FilesCorrect, PTL DEF FileInv

\* A link handed to a client opens until its report is reportTTL old.
THEOREM AckedStaysReadable == Spec => []AckedReadable
  <1>1. TypeOK /\ FileInv => AckedReadable
    BY TTLAssumption DEF TypeOK, FileInv, AckedFresh, AckedReadable, Get, Fresh
  <1> QED  BY <1>1, TypeCorrect, FilesCorrect, PTL

-----------------------------------------------------------------------------
(***************************************************************************)
(* The store implements PermanentLinks.                                    *)
(***************************************************************************)
LEMMA LinksInit == Init => Links!Init
  BY DEF Init, Links!Init, Get

LEMMA LinksStep ==
    TypeOK /\ FileInv /\ [Next]_vars => [Links!Next]_<<{i \in Id : Get(i)}, age>>
  <1> SUFFICES ASSUME TypeOK, FileInv, [Next]_vars
               PROVE  [Links!Next]_<<{i \in Id : Get(i)}, age>>
    OBVIOUS
  <1> DEFINE shown == {i \in Id : Get(i)}
  <1> USE DEF procVars, diskVars, sweepVars
  <1>1. ASSUME UNCHANGED <<json, age>> PROVE UNCHANGED <<shown, age>>
    BY <1>1 DEF Get
  <1>2. ASSUME NEW p \in Promoter, NameReport(p) PROVE Links!Next
    <2>1. PICK i \in Id : Unused(i) /\ age' = [age EXCEPT ![i] = 0]
      BY <1>2 DEF NameReport
    <2>2. i \notin shown /\ json' = json
      BY <1>2, <2>1 DEF NameReport, Unused, Get
    <2>3. shown' = shown
      BY <2>1, <2>2 DEF Get, TypeOK, Unused
    <2>4. Links!Capture(i)
      BY <2>1, <2>2, <2>3 DEF Links!Capture
    <2> QED  BY <2>4 DEF Links!Next
  <1>3. ASSUME NEW p \in Promoter, Rename(p)
        PROVE  Links!Next \/ UNCHANGED <<shown, age>>
    <2>1. /\ rid[p] \in Id /\ json[rid[p]] = "none" /\ tmp[rid[p]] = "whole"
          /\ json' = [json EXCEPT ![rid[p]] = "whole"] /\ age' = age
      BY <1>3 DEF Rename, Goto, TypeOK, Named, FileInv, PromoterFiles
    <2>2. CASE age[rid[p]] <= TTL
      <3>1. shown' = shown \cup {rid[p]}
        BY <2>1, <2>2 DEF Get, TypeOK
      <3> QED  BY <2>1, <2>2, <3>1 DEF Links!Next, Links!Publish
    <2>3. CASE ~(age[rid[p]] <= TTL)
      <3>1. shown' = shown
        BY <2>1, <2>3 DEF Get, TypeOK
      <3> QED  BY <2>1, <3>1
    <2> QED  BY <2>2, <2>3
  <1>4. ASSUME NEW i \in Id, SweepRemove(i) PROVE Links!Next
    <2>1. age[i] >= TTL /\ json' = [json EXCEPT ![i] = "none"] /\ age' = age
      BY <1>4, TTLAssumption
         DEF SweepRemove, FileInv, SweepFiles, Expired, Fresh, TypeOK
    <2>2. shown' = shown \ {i}
      BY <2>1 DEF Get, TypeOK
    <2> QED  BY <2>1, <2>2 DEF Links!Next, Links!Expire
  <1>5. ASSUME Tick PROVE Links!Next
    <2>1. /\ age' = [i \in Id |-> Links!Older(i)] /\ json' = json
      BY <1>5 DEF Tick, Older, Links!Older
    <2>2. shown' = {i \in shown : Links!Older(i) <= TTL}
      BY <2>1, TTLAssumption DEF Get, Links!Older, TypeOK
    <2> QED  BY <2>1, <2>2 DEF Links!Next, Links!Tick
  <1>6. ASSUME NEW p \in Promoter, Promote(p), ~NameReport(p), ~Rename(p)
        PROVE  UNCHANGED <<json, age>>
    BY <1>6 DEF Promote, CheckCap, Reserve, NameFails, BeginWrite, EndWrite,
                WriteFails, RenameFails, Return, Undo
  <1>7. ASSUME NEW i \in Id, SweepFile(i), ~SweepRemove(i)
        PROVE  UNCHANGED <<json, age>>
    BY <1>7 DEF SweepFile, SweepKeep, SweepSkip
  <1>8. ASSUME SweepBegin \/ SweepStore \/ Crash \/ Restart \/ UNCHANGED vars
        PROVE  UNCHANGED <<json, age>>
    BY <1>8 DEF SweepBegin, SweepStore, Crash, Restart, vars
  <1> QED
    BY <1>1, <1>2, <1>3, <1>4, <1>5, <1>6, <1>7, <1>8 DEF Next, Sweep

\* Writers, sweeps, crashes and restarts are invisible to a reader: reports
\* appear whole, last TTL ticks and then go.
THEOREM StoreImplementsLinks == Spec => LinksImplemented
  BY LinksInit, LinksStep, TypeCorrect, FilesCorrect, PTL
     DEF Spec, LinksImplemented, Links!Spec
-----------------------------------------------------------------------------
(***************************************************************************)
(* The counter.                                                            *)
(***************************************************************************)
LEMMA Sizes ==
    /\ IsFiniteSet(InFlight) /\ IsFiniteSet(Files) /\ IsFiniteSet(Live)
    /\ Cardinality(InFlight) \in Nat
    /\ Cardinality(Files) \in Nat
    /\ Cardinality(Live) \in Nat
    /\ Cardinality(Live) <= Cardinality(Files)
  <1>1. InFlight \subseteq Promoter /\ Files \subseteq Id /\ Live \subseteq Files
    BY DEF InFlight, Files, Live
  <1>2. IsFiniteSet(InFlight) /\ IsFiniteSet(Files)
    BY <1>1, FiniteAssumption, FS_Subset
  <1> QED  BY <1>1, <1>2, FS_Subset, FS_CardinalityType

LEMMA CountInit == Init => CountInv
  <1> SUFFICES ASSUME Init PROVE CountInv
    OBVIOUS
  <1>1. /\ InFlight = {} /\ ~up /\ ~sweeping /\ todo = {}
        /\ \A p \in Promoter : pc[p] = "idle"
    BY DEF Init, InFlight, Reserved
  <1> QED
    BY <1>1 DEF CountInv, CounterCoversReports, NoGrantAtCapacity, NoLeakedSlot,
                DownIsQuiet, SweepCount

\* A step that leaves the slots in use, the files, the counter, the lock and
\* the sweep alone preserves CountInv; live reports may have expired.
LEMMA CountFrame ==
    ASSUME TypeOK, CountInv, InFlight' = InFlight, Files' = Files,
           pc' = pc \/ up, Live' \subseteq Live, up' = up, active' = active,
           mu' = mu \/ mu' = None, sweepVars' = sweepVars, blurred' = blurred,
           drifted' = drifted
    PROVE  CountInv'
  <1>1. Cardinality(Live') <= Cardinality(Live) /\ Cardinality(Live') \in Nat
    BY Sizes, FS_Subset, FS_CardinalityType
  <1> QED
    BY <1>1, Sizes, MaxActiveAssumption
       DEF CountInv, CounterCoversReports, NoGrantAtCapacity, NoLeakedSlot,
           DownIsQuiet, SweepCount, sweepVars, TypeOK

LEMMA CountPromote ==
    ASSUME TypeOK, FileInv, CountInv, NEW p \in Promoter, Promote(p)
    PROVE  CountInv'
  <1> USE DEF procVars, diskVars, sweepVars
  <1>0. up
    <2>1. CheckCap(p) \/ pc[p] # "idle"
      BY DEF Promote, Reserve, NameReport, NameFails, BeginWrite, EndWrite,
             WriteFails, Rename, RenameFails, Return, Undo, Goto
    <2> QED  BY <2>1 DEF CheckCap, CountInv, DownIsQuiet
  <1>1. CASE CheckCap(p)
    <2>1. InFlight' = InFlight /\ Files' = Files /\ Live' = Live
      BY <1>1 DEF CheckCap, Goto, InFlight, Reserved, Files, Live, Fresh, TypeOK
    <2> QED
      BY <1>0, <1>1, <2>1, Sizes, MaxActiveAssumption
         DEF CheckCap, HasRoom, CountInv, CounterCoversReports,
             NoGrantAtCapacity, NoLeakedSlot, DownIsQuiet, SweepCount, TypeOK
  <1>2. CASE Reserve(p)
    <2>1. /\ InFlight' = InFlight \cup {p} /\ p \notin InFlight
          /\ Files' = Files /\ Live' = Live
      BY <1>2 DEF Reserve, Goto, InFlight, Reserved, Files, Live, Fresh, TypeOK
    <2>2. Cardinality(InFlight') = Cardinality(InFlight) + 1
      BY <2>1, Sizes, FS_AddElement
    <2>3. mu # None /\ mu' = None
      BY <1>2, NoneAssumption DEF Reserve, Goto, TypeOK
    <2> QED
      BY <1>0, <1>2, <2>1, <2>2, <2>3, Sizes
         DEF Reserve, CountInv, CounterCoversReports, NoGrantAtCapacity,
             NoLeakedSlot, DownIsQuiet, SweepCount, TypeOK
  <1>3. CASE NameReport(p)
    <2>1. InFlight' = InFlight
      BY <1>3 DEF NameReport, Goto, InFlight, Reserved, TypeOK
    <2>2. Files' = Files /\ Live' = Live
      BY <1>3 DEF NameReport, Unused, Files, Live, Fresh, TypeOK
    <2> QED  BY <1>0, <1>3, <2>1, <2>2, CountFrame DEF NameReport
  <1>4. ASSUME NameFails(p) \/ BeginWrite(p) \/ EndWrite(p) \/ WriteFails(p)
               \/ RenameFails(p)
        PROVE  CountInv'
    <2>1. InFlight' = InFlight
      BY <1>4 DEF NameFails, BeginWrite, EndWrite, WriteFails, RenameFails, Goto,
                  InFlight, Reserved, TypeOK
    <2>2. UNCHANGED <<up, active, mu, json, age, sweepVars, blurred, drifted>>
      BY <1>4 DEF NameFails, BeginWrite, EndWrite, WriteFails, RenameFails
    <2>3. Files' = Files /\ Live' = Live
      BY <2>2 DEF Files, Live, Fresh
    <2> QED  BY <1>0, <2>1, <2>2, <2>3, CountFrame
  <1>5. CASE Rename(p)
    <2> DEFINE i == rid[p]
    <2>1. /\ i \in Id /\ json[i] = "none"
          /\ json' = [json EXCEPT ![i] = "whole"] /\ age' = age
      BY <1>5 DEF Rename, Goto, TypeOK, Named, FileInv, PromoterFiles
    <2>2. InFlight' = InFlight \ {p} /\ p \in InFlight
      BY <1>5 DEF Rename, Goto, InFlight, Reserved, TypeOK
    <2>3. Files' = Files \cup {i} /\ i \notin Files /\ Live' \subseteq Live \cup {i}
      BY <2>1 DEF Files, Live, Fresh, TypeOK
    <2>4. Cardinality(InFlight') = Cardinality(InFlight) - 1
      BY <2>2, Sizes, FS_RemoveElement
    <2>5. Cardinality(Files') = Cardinality(Files) + 1
      BY <2>3, Sizes, FS_AddElement
    <2>6. /\ Cardinality(Live') <= Cardinality(Live) + 1
          /\ Cardinality(Live') \in Nat
      <3>1. /\ IsFiniteSet(Live \cup {i})
            /\ Cardinality(Live \cup {i}) =
                  IF i \in Live THEN Cardinality(Live) ELSE Cardinality(Live) + 1
        BY Sizes, FS_AddElement, Zenon
      <3>2. Cardinality(Live \cup {i}) <= Cardinality(Live) + 1
        BY <3>1, Sizes
      <3>3. /\ Cardinality(Live') <= Cardinality(Live \cup {i})
            /\ Cardinality(Live') \in Nat
        BY <3>1, <2>3, FS_Subset, FS_CardinalityType
      <3>4. Cardinality(Live \cup {i}) \in Nat
        BY <3>1, FS_CardinalityType
      <3> QED  BY <3>2, <3>3, <3>4, Sizes
    <2>7. sweeping => blurred
      BY <2>2 DEF CountInv, SweepCount
    <2> QED
      BY <1>0, <1>5, <2>2, <2>3, <2>4, <2>5, <2>6, <2>7, Sizes, MaxActiveAssumption
         DEF Rename, CountInv, CounterCoversReports, NoGrantAtCapacity,
             NoLeakedSlot, DownIsQuiet, SweepCount, TypeOK
  <1>6. CASE Return(p)
    <2>1. InFlight' = InFlight /\ Files' = Files /\ Live' = Live
      BY <1>6 DEF Return, Goto, InFlight, Reserved, Files, Live, Fresh, TypeOK
    <2> QED  BY <1>0, <1>6, <2>1, CountFrame DEF Return
  <1>7. CASE Undo(p)
    <2>1. /\ InFlight' = InFlight \ {p} /\ p \in InFlight
          /\ Files' = Files /\ Live' = Live
      BY <1>7 DEF Undo, Goto, InFlight, Reserved, Files, Live, Fresh, TypeOK
    <2>2. Cardinality(InFlight') = Cardinality(InFlight) - 1
      BY <2>1, Sizes, FS_RemoveElement
    <2>3. sweeping => blurred
      BY <2>1 DEF CountInv, SweepCount
    <2> QED
      BY <1>0, <1>7, <2>1, <2>2, <2>3, Sizes, MaxActiveAssumption
         DEF Undo, CountInv, CounterCoversReports, NoGrantAtCapacity,
             NoLeakedSlot, DownIsQuiet, SweepCount, TypeOK
  <1> QED
    BY <1>1, <1>2, <1>3, <1>4, <1>5, <1>6, <1>7 DEF Promote

LEMMA CountSweep ==
    ASSUME TypeOK, FileInv, CountInv, Sweep PROVE CountInv'
  <1> USE DEF procVars, diskVars, sweepVars
  <1>1. CASE SweepBegin
    <2>1. /\ InFlight' = InFlight /\ Files' = Files /\ Live' = Live
          /\ Live \subseteq Files /\ pc' = pc
      BY <1>1 DEF SweepBegin, InFlight, Files, Live, Fresh
    <2> QED
      BY <1>1, <2>1
         DEF SweepBegin, CountInv, CounterCoversReports, NoGrantAtCapacity,
             NoLeakedSlot, DownIsQuiet, SweepCount
  <1>2. ASSUME NEW i \in Id, SweepFile(i) PROVE CountInv'
    <2>1. i \in todo /\ i \in Files /\ (i \in stale => i \notin Live)
      BY <1>2 DEF SweepFile, SweepKeep, SweepRemove, SweepSkip, FileInv,
                  SweepFiles, Expired, Live
    <2>2. sweeping
      BY <2>1 DEF CountInv, SweepCount
    <2>3. InFlight' = InFlight /\ UNCHANGED <<up, active, mu, pc, age, sweeping, drifted>>
      BY <1>2 DEF SweepFile, SweepKeep, SweepRemove, SweepSkip, InFlight
    <2>4. Live' = Live
      BY <1>2, <2>1 DEF SweepFile, SweepKeep, SweepRemove, SweepSkip, Live, Files,
                        Fresh, TypeOK
    <2>5. SweepCount'
      <3>1. CASE SweepKeep(i)
        <4>1. Files' = Files
          BY <3>1 DEF SweepKeep, Files
        <4> QED  BY <3>1, <4>1, <2>1, <2>3, <2>4 DEF SweepKeep, CountInv, SweepCount
      <3>2. CASE SweepRemove(i)
        <4>1. Files' = Files \ {i}
          BY <3>2 DEF SweepRemove, Files, TypeOK
        <4> QED  BY <3>2, <4>1, <2>1, <2>3, <2>4 DEF SweepRemove, CountInv, SweepCount
      <3>3. CASE SweepSkip(i)
        <4>1. Files' = Files
          BY <3>3 DEF SweepSkip, Files
        <4>2. ~blurred' => ~blurred /\ i \notin Live
          BY <3>3, <2>1 DEF SweepSkip
        <4> QED
          BY <3>3, <4>1, <4>2, <2>1, <2>3, <2>4 DEF SweepSkip, CountInv, SweepCount
      <3> QED  BY <1>2, <3>1, <3>2, <3>3 DEF SweepFile
    <2> QED
      BY <2>2, <2>3, <2>4, <2>5
         DEF CountInv, CounterCoversReports, NoGrantAtCapacity, NoLeakedSlot,
             DownIsQuiet
  <1>3. CASE SweepStore
    <2>1. InFlight' = InFlight /\ Files' = Files /\ Live' = Live
      BY <1>3 DEF SweepStore, InFlight, Files, Live, Fresh
    <2>2. /\ seen \subseteq Files
          /\ ~blurred => InFlight = {} /\ Live \subseteq seen
      BY <1>3 DEF SweepStore, CountInv, SweepCount
    <2>3. Cardinality(seen) \in Nat /\ Cardinality(seen) <= Cardinality(Files)
      BY <2>2, Sizes, FS_Subset, FS_CardinalityType
    <2>4. ~blurred => Cardinality(InFlight) + Cardinality(Live) <= Cardinality(seen)
      <3>1. IsFiniteSet(seen)
        BY <2>2, Sizes, FS_Subset
      <3>2. ~blurred => Cardinality(InFlight) = 0 /\ Cardinality(Live) <= Cardinality(seen)
        BY <2>2, <3>1, FS_Subset, FS_EmptySet
      <3> QED  BY <3>2, <2>3, Sizes
    <2> QED
      BY <1>3, <2>1, <2>2, <2>3, <2>4, Sizes
         DEF SweepStore, CountInv, CounterCoversReports, NoGrantAtCapacity,
             NoLeakedSlot, DownIsQuiet, SweepCount, TypeOK
  <1> QED  BY <1>1, <1>2, <1>3 DEF Sweep

LEMMA CountStep == TypeOK /\ FileInv /\ CountInv /\ [Next]_vars => CountInv'
  <1> SUFFICES ASSUME TypeOK, FileInv, CountInv, [Next]_vars PROVE CountInv'
    OBVIOUS
  <1> USE DEF procVars, diskVars, sweepVars
  <1>1. CASE Tick
    <2>1. InFlight' = InFlight /\ Files' = Files /\ Live' \subseteq Live
      BY <1>1, TTLAssumption
         DEF Tick, Older, InFlight, Files, Live, Fresh, TypeOK
    <2> QED  BY <1>1, <2>1, CountFrame DEF Tick
  <1>2. CASE Crash
    <2>1. InFlight' = {}
      BY <1>2 DEF Crash, InFlight, Reserved
    <2> QED
      BY <1>2, <2>1
         DEF Crash, CountInv, CounterCoversReports, NoGrantAtCapacity,
             NoLeakedSlot, DownIsQuiet, SweepCount
  <1>3. CASE Restart
    <2>1. /\ InFlight' = {} /\ InFlight = {} /\ Files' = Files /\ Live' = Live
          /\ ~sweeping' /\ mu' = mu /\ up' /\ todo' = {}
      BY <1>3 DEF Restart, CountInv, DownIsQuiet, SweepCount, InFlight, Reserved,
                  Files, Live, Fresh
    <2>2. PICK unread \in IF ReadsFail THEN SUBSET Live ELSE {{}} :
                 /\ active' = Cardinality(Live \ unread)
                 /\ drifted' = (unread # {})
      BY <1>3 DEF Restart
    <2>3. /\ Cardinality(Live \ unread) \in Nat
          /\ Cardinality(Live \ unread) <= Cardinality(Live)
      <3>1. Live \ unread \in SUBSET Live
        OBVIOUS
      <3> QED  BY <3>1, Sizes, FS_Subset, FS_CardinalityType
    <2>4. Cardinality(InFlight) = 0
      BY <2>1, FS_EmptySet
    <2>5. mu = None
      BY <1>3 DEF Restart, CountInv, DownIsQuiet, TypeOK
    <2>6. ~drifted' => active' = Cardinality(Live)
      <3>1. unread = {} => Live \ unread = Live
        OBVIOUS
      <3> QED  BY <2>2, <3>1
    <2>7. active' \in Nat /\ active' <= Cardinality(Live)
      BY <2>2, <2>3
    <2> QED
      BY <2>1, <2>4, <2>5, <2>6, <2>7, Sizes
         DEF CountInv, CounterCoversReports, NoGrantAtCapacity, NoLeakedSlot,
             DownIsQuiet, SweepCount
  <1>4. CASE UNCHANGED vars
    BY <1>4 DEF vars, CountInv, CounterCoversReports, NoGrantAtCapacity,
                NoLeakedSlot, DownIsQuiet, SweepCount, InFlight, Files, Live, Fresh
  <1> QED
    BY <1>1, <1>2, <1>3, <1>4, CountPromote, CountSweep DEF Next

THEOREM CountCorrect == Spec => []CountInv
  BY TypeCorrect, FilesCorrect, CountInit, CountStep, PTL DEF Spec

\* A counter no interrupted count has spoilt covers every slot in use.
THEOREM CounterCovers == Spec => []CounterCoversReports
  BY CountCorrect, PTL DEF CountInv

\* With such a counter a promotion is let in only when there is room.
THEOREM GrantsHaveRoom == Spec => []NoGrantAtCapacity
  BY CountCorrect, PTL DEF CountInv

\* No failure, race or crash makes the counter leak a slot for good.
THEOREM SlotsNeverLeak == Spec => []NoLeakedSlot
  BY CountCorrect, PTL DEF CountInv
=============================================================================

---------------------------- MODULE ReportStore ----------------------------
(***************************************************************************)
(* The persisted "Permanent Link" store, internal/report/store.go.         *)
(*                                                                         *)
(* HTTP goroutines run Store.Promote concurrently: check the cap under     *)
(* s.mu, reserve a slot in the atomic counter s.active, write <id>.json.tmp*)
(* and rename it to <id>.json; every error path gives the slot back.  One  *)
(* background goroutine, sweepLoop, lists the directory, removes expired   *)
(* reports and then overwrites s.active with what it counted, without      *)
(* taking s.mu.  The process may crash between any two steps; NewStore     *)
(* recounts the directory when it comes back.                              *)
(*                                                                         *)
(* Time is counted in ticks.  age[i] is the time since the CapturedAt kept *)
(* inside report i and stops at TTL + 1, beyond which no test in the code  *)
(* can tell two ages apart.                                                *)
(***************************************************************************)
EXTENDS Integers, FiniteSets

CONSTANTS
    Promoter,    \* goroutines that may be inside Store.Promote at once
    Id,          \* the report ids NewID may return; bounds the files on disk
    MaxActive,   \* maxActiveTotal
    TTL,         \* reportTTL, in ticks
    ReadsFail,   \* whether reading or removing a report may fail
    None         \* no promoter, no id

ASSUME MaxActiveAssumption == MaxActive \in Nat \ {0}
ASSUME TTLAssumption == TTL \in Nat \ {0}
ASSUME ReadsFailAssumption == ReadsFail \in BOOLEAN
ASSUME NoneAssumption == None \notin Promoter /\ None \notin Id
ASSUME FiniteAssumption == IsFiniteSet(Promoter) /\ IsFiniteSet(Id)

VARIABLES
    up,        \* the process is running
    active,    \* s.active, the in-memory counter
    mu,        \* the promoter holding s.mu, or None
    pc,        \* where each promoter is inside Promote
    rid,       \* the id a promoter got from NewID, or None
    tmp,       \* what <id>.json.tmp holds
    json,      \* what <id>.json holds
    age,       \* ticks since the report's CapturedAt
    sweeping,  \* sweepLoop is between its ReadDir and its active.Store
    todo,      \* listed by ReadDir and not yet read by this sweep
    stale,     \* listed, and CapturedAt not after this sweep's cutoff
    seen,      \* the reports this sweep counted as active
    acked,     \* history: ids returned to a client and not yet expired
    blurred,   \* history: this sweep's count may miss a report or reservation
    drifted    \* history: the last count stored may have missed one

procVars  == <<mu, pc, rid>>
diskVars  == <<tmp, json, age>>
sweepVars == <<sweeping, todo, stale, seen>>
vars == <<up, active, procVars, diskVars, sweepVars, acked, blurred, drifted>>

Content == {"none", "partial", "whole"}

Files == {i \in Id : json[i] # "none"}

\* A CapturedAt after the cutoff: what countActive and the sweeper count.
Fresh(i) == age[i] < TTL

\* The reports that are active on disk.
Live == {i \in Files : json[i] = "whole" /\ Fresh(i)}

\* Promotions that hold a reserved slot and have no file yet.
Reserved == {"reserved", "named", "writing", "written", "undo"}
InFlight == {p \in Promoter : pc[p] \in Reserved}

\* Store.Get finds the file, can parse it, and it is not older than reportTTL.
Get(i) == json[i] = "whole" /\ age[i] <= TTL

Unused(i) == json[i] = "none" /\ i \notin acked /\ \A p \in Promoter : rid[p] # i

Init ==
    /\ up = FALSE
    /\ active = 0
    /\ mu = None
    /\ pc = [p \in Promoter |-> "idle"]
    /\ rid = [p \in Promoter |-> None]
    /\ tmp = [i \in Id |-> "none"]
    /\ json = [i \in Id |-> "none"]
    /\ age = [i \in Id |-> TTL + 1]
    /\ sweeping = FALSE
    /\ todo = {} /\ stale = {} /\ seen = {}
    /\ acked = {}
    /\ blurred = FALSE
    /\ drifted = FALSE

-----------------------------------------------------------------------------
(***************************************************************************)
(* Store.Promote                                                           *)
(***************************************************************************)
Goto(p, from, to) == pc[p] = from /\ pc' = [pc EXCEPT ![p] = to]

\* The cap test.  A call that finds the store full returns ErrAtCapacity and
\* changes nothing.
HasRoom == active < MaxActive

CheckCap(p) ==
    /\ up
    /\ mu = None
    /\ HasRoom
    /\ Goto(p, "idle", "checked")
    /\ mu' = p
    /\ UNCHANGED <<up, active, rid, diskVars, sweepVars, acked, blurred, drifted>>

\* active.Add(1), then s.mu.Unlock.  The sweeper's Store may have come between
\* the test and the increment.
ReserveNoUnlock(p) ==                      \* fault: no s.mu.Unlock
    /\ Goto(p, "checked", "reserved")
    /\ active' = active + 1
    /\ blurred' = (blurred \/ sweeping)
    /\ UNCHANGED <<up, mu, rid, diskVars, sweepVars, acked, drifted>>

Reserve(p) ==
    /\ Goto(p, "checked", "reserved")
    /\ active' = active + 1
    /\ mu' = None
    /\ blurred' = (blurred \/ sweeping)
    /\ UNCHANGED <<up, rid, diskVars, sweepVars, acked, drifted>>

\* NewID, CapturedAt: time.Now(), json.Marshal.
NameReport(p) ==
    /\ Goto(p, "reserved", "named")
    /\ \E i \in Id :
          /\ Unused(i)
          /\ rid' = [rid EXCEPT ![p] = i]
          /\ age' = [age EXCEPT ![i] = 0]
    /\ UNCHANGED <<up, active, mu, tmp, json, sweepVars, acked, blurred, drifted>>

NameFailsKeepsSlot(p) ==                   \* fault: no active.Add(-1)
    /\ Goto(p, "reserved", "idle")
    /\ UNCHANGED <<up, active, mu, rid, diskVars, sweepVars, acked, blurred, drifted>>

NameFails(p) ==
    /\ Goto(p, "reserved", "undo")
    /\ UNCHANGED <<up, active, mu, rid, diskVars, sweepVars, acked, blurred, drifted>>

\* os.WriteFile creates or truncates the .tmp and then fills it.
BeginWrite(p) ==
    /\ Goto(p, "named", "writing")
    /\ tmp' = [tmp EXCEPT ![rid[p]] = "partial"]
    /\ UNCHANGED <<up, active, mu, rid, json, age, sweepVars, acked, blurred, drifted>>

EndWrite(p) ==
    /\ Goto(p, "writing", "written")
    /\ tmp' = [tmp EXCEPT ![rid[p]] = "whole"]
    /\ UNCHANGED <<up, active, mu, rid, json, age, sweepVars, acked, blurred, drifted>>

\* WriteFile fails at once or part of the way; whatever it left stays there.

WriteFails(p) ==
    /\ Goto(p, "named", "undo") \/ Goto(p, "writing", "undo")
    /\ UNCHANGED <<up, active, mu, rid, diskVars, sweepVars, acked, blurred, drifted>>

\* os.Rename publishes the report.
Rename(p) ==
    /\ Goto(p, "written", "renamed")
    /\ json' = [json EXCEPT ![rid[p]] = tmp[rid[p]]]
    /\ tmp' = [tmp EXCEPT ![rid[p]] = "none"]
    /\ UNCHANGED <<up, active, mu, rid, age, sweepVars, acked, blurred, drifted>>

\* os.Rename fails: the .tmp is removed, unless that fails too.
RenameFails(p) ==
    /\ Goto(p, "written", "undo")
    /\ \/ tmp' = [tmp EXCEPT ![rid[p]] = "none"]
       \/ tmp' = tmp
    /\ UNCHANGED <<up, active, mu, rid, json, age, sweepVars, acked, blurred, drifted>>

\* The id goes back to the client.
ReturnFreesSlot(p) ==                      \* fault: a deferred active.Add(-1)
    /\ Goto(p, "renamed", "idle")
    /\ rid' = [rid EXCEPT ![p] = None]
    /\ acked' = IF Fresh(rid[p]) THEN acked \cup {rid[p]} ELSE acked
    /\ active' = active - 1
    /\ UNCHANGED <<up, mu, diskVars, sweepVars, blurred, drifted>>

Return(p) ==
    /\ Goto(p, "renamed", "idle")
    /\ rid' = [rid EXCEPT ![p] = None]
    /\ acked' = IF Fresh(rid[p]) THEN acked \cup {rid[p]} ELSE acked
    /\ UNCHANGED <<up, active, mu, diskVars, sweepVars, blurred, drifted>>

\* active.Add(-1) of an error path, outside s.mu.
Undo(p) ==
    /\ Goto(p, "undo", "idle")
    /\ active' = active - 1
    /\ rid' = [rid EXCEPT ![p] = None]
    /\ UNCHANGED <<up, mu, diskVars, sweepVars, acked, blurred, drifted>>

Promote(p) ==
    \/ CheckCap(p) \/ Reserve(p)
    \/ NameReport(p) \/ NameFails(p)
    \/ BeginWrite(p) \/ EndWrite(p) \/ WriteFails(p)
    \/ Rename(p) \/ RenameFails(p)
    \/ Return(p) \/ Undo(p)

-----------------------------------------------------------------------------
(***************************************************************************)
(* sweepLoop.  A tick whose ReadDir fails is skipped and changes nothing.  *)
(***************************************************************************)
ExpiredTooSoon(i) == age[i] + 1 >= TTL     \* fault: the cutoff is a tick late
Expired(i) == ~Fresh(i)

SweepBegin ==
    /\ up
    /\ ~sweeping
    /\ sweeping' = TRUE
    /\ todo' = Files
    /\ stale' = {i \in Files : Expired(i)}
    /\ seen' = {}
    /\ blurred' = (InFlight # {})
    /\ UNCHANGED <<up, active, procVars, diskVars, acked, drifted>>

SweepKeep(i) ==
    /\ i \in todo \ stale
    /\ json[i] = "whole"
    /\ todo' = todo \ {i}
    /\ seen' = seen \cup {i}
    /\ UNCHANGED <<up, active, procVars, diskVars, sweeping, stale, acked, blurred, drifted>>

SweepRemove(i) ==
    /\ i \in todo \cap stale
    /\ json[i] = "whole"
    /\ todo' = todo \ {i}
    /\ json' = [json EXCEPT ![i] = "none"]
    /\ UNCHANGED <<up, active, procVars, tmp, age, sweeping, stale, seen, acked, blurred, drifted>>

\* ReadFile or Unmarshal fails, or os.Remove does: the file is neither counted
\* nor removed.
SweepSkipRemoves(i) ==                     \* fault: unreadable files are deleted
    /\ ReadsFail
    /\ i \in todo
    /\ todo' = todo \ {i}
    /\ json' = [json EXCEPT ![i] = "none"]
    /\ blurred' = TRUE
    /\ UNCHANGED <<up, active, procVars, tmp, age, sweeping, stale, seen, acked, drifted>>

SweepSkip(i) ==
    /\ ReadsFail
    /\ i \in todo
    /\ todo' = todo \ {i}
    /\ blurred' = (blurred \/ i \notin stale)
    /\ UNCHANGED <<up, active, procVars, diskVars, sweeping, stale, seen, acked, drifted>>

\* s.active.Store(active): a blind overwrite of what Promote added meanwhile.
SweepNoStore ==                            \* fault: the count is not stored
    /\ sweeping
    /\ todo = {}
    /\ sweeping' = FALSE
    /\ stale' = {} /\ seen' = {}
    /\ blurred' = FALSE
    /\ UNCHANGED <<up, active, procVars, diskVars, todo, acked, drifted>>

SweepStore ==
    /\ sweeping
    /\ todo = {}
    /\ active' = Cardinality(seen)
    /\ sweeping' = FALSE
    /\ stale' = {} /\ seen' = {}
    /\ blurred' = FALSE
    /\ drifted' = (blurred \/ (drifted /\ mu # None))
    /\ UNCHANGED <<up, procVars, diskVars, todo, acked>>

SweepFile(i) == SweepKeep(i) \/ SweepRemove(i) \/ SweepSkip(i)

Sweep == SweepBegin \/ SweepStore \/ \E i \in Id : SweepFile(i)

-----------------------------------------------------------------------------
(***************************************************************************)
(* The environment: time, crashes, restarts.                               *)
(***************************************************************************)
Older(i) == IF age[i] > TTL THEN age[i] ELSE age[i] + 1

Tick ==
    /\ age' = [i \in Id |-> Older(i)]
    /\ acked' = {i \in acked : Older(i) < TTL}
    /\ UNCHANGED <<up, active, procVars, tmp, json, sweepVars, blurred, drifted>>

\* The process dies: memory is lost, the directory stays.
Crash ==
    /\ up
    /\ up' = FALSE
    /\ active' = 0
    /\ mu' = None
    /\ pc' = [p \in Promoter |-> "idle"]
    /\ rid' = [p \in Promoter |-> None]
    /\ sweeping' = FALSE
    /\ todo' = {} /\ stale' = {} /\ seen' = {}
    /\ blurred' = FALSE
    /\ drifted' = FALSE
    /\ UNCHANGED <<diskVars, acked>>

\* NewStore: s.active.Store(countActive()).  Files it cannot read are not
\* counted.
Restart ==
    /\ ~up
    /\ up' = TRUE
    /\ \E unread \in IF ReadsFail THEN SUBSET Live ELSE {{}} :
          /\ active' = Cardinality(Live \ unread)
          /\ drifted' = (unread # {})
    /\ UNCHANGED <<procVars, diskVars, sweepVars, acked, blurred>>

Next ==
    \/ \E p \in Promoter : Promote(p)
    \/ Sweep
    \/ Tick
    \/ Crash
    \/ Restart

Spec == Init /\ [][Next]_vars

(***************************************************************************)
(* Fairness.  A goroutine that has entered Promote runs on (its disk calls *)
(* return, with a result or an error), the sweeper's ticker keeps firing   *)
(* and its ReadDir sometimes succeeds, time passes, a service manager      *)
(* restarts the process.  Clients owe nothing: CheckCap is not fair.       *)
(***************************************************************************)
Advance(p) == Promote(p) /\ pc[p] # "idle"

FairSpec ==
    /\ Spec
    /\ \A p \in Promoter : WF_vars(Advance(p))
    /\ WF_vars(Sweep)
    /\ WF_vars(Tick)
    /\ WF_vars(Restart)

-----------------------------------------------------------------------------
(***************************************************************************)
(* Properties.                                                             *)
(***************************************************************************)
Stage == Reserved \cup {"idle", "checked", "renamed"}

Named == {"named", "writing", "written", "renamed"}

\* The variables have their types, s.mu is held exactly between the cap test
\* and the increment (store.go:85-93), and a promoter has an id once NewID
\* returned one.
TypeOK ==
    /\ up \in BOOLEAN
    /\ active \in Int
    /\ mu \in Promoter \cup {None}
    /\ pc \in [Promoter -> Stage]
    /\ rid \in [Promoter -> Id \cup {None}]
    /\ tmp \in [Id -> Content] /\ json \in [Id -> Content]
    /\ age \in [Id -> 0 .. TTL + 1]
    /\ sweeping \in BOOLEAN
    /\ todo \in SUBSET Id /\ stale \in SUBSET Id /\ seen \in SUBSET Id
    /\ acked \in SUBSET Id
    /\ blurred \in BOOLEAN /\ drifted \in BOOLEAN
    /\ \A p \in Promoter : mu = p <=> pc[p] = "checked"
    /\ \A p \in Promoter : pc[p] \in Named => rid[p] \in Id

\* Unless the last count overlapped a promotion or a read error, the counter
\* never falls below the slots in use: active reports plus promotions in
\* progress.  (Promote's Add(1), its Add(-1) on every error path, the sweeper's
\* Store and NewStore's recount, together.)
CounterCoversReports ==
    up /\ ~drifted => Cardinality(InFlight) + Cardinality(Live) <= active

\* A promotion past the cap test, with such a counter, really found room: the
\* lock makes check-then-increment safe against other promotions.
NoGrantAtCapacity ==
    up /\ ~drifted /\ mu # None
        => Cardinality(InFlight) + Cardinality(Live) < MaxActive

\* No slot leaks: outside a sweep the counter never exceeds the promotions in
\* progress plus the files on disk, whatever failed, raced or crashed before.
NoLeakedSlot ==
    up /\ ~sweeping => active <= Cardinality(InFlight) + Cardinality(Files)

\* A link that was returned to a client opens until its report is reportTTL
\* old, across sweeps, failed writes, crashes and restarts.
AckedReadable == \A i \in acked : Get(i)

\* No reader of <id>.json, neither Get, nor the sweeper, nor countActive, ever
\* meets a half-written report, also when the process died while writing.
NoTornReport == \A i \in Id : json[i] # "partial"

\* A full store has room again later, without a restart: the sweeper gives
\* back the slots of expired and of lost reports.
CapacityReclaimed ==
    (up /\ active >= MaxActive) ~> (~up \/ active < MaxActive)

\* What the store promises its readers: see PermanentLinks.
Links == INSTANCE PermanentLinks WITH shown <- {i \in Id : Get(i)}
LinksImplemented == Links!Spec

(***************************************************************************)
(* The strengthenings that make the invariants inductive: what each        *)
(* promoter knows of the files, what the sweeper knows of them, and how    *)
(* the counter relates to both.                                            *)
(***************************************************************************)
PromoterFiles(p) ==
    /\ pc[p] \in {"idle", "checked", "reserved"} => rid[p] = None
    /\ pc[p] \in {"named", "writing", "written"} => json[rid[p]] = "none"
    /\ pc[p] = "written" => tmp[rid[p]] = "whole"
    /\ pc[p] = "renamed" /\ Fresh(rid[p]) => json[rid[p]] = "whole"

DistinctIds ==
    \A p, q \in Promoter : p # q /\ rid[p] \in Id => rid[p] # rid[q]

AckedFresh == \A i \in acked : json[i] = "whole" /\ Fresh(i)

SweepFiles == todo \subseteq Files /\ \A i \in todo \cap stale : Expired(i)

FileInv ==
    /\ \A p \in Promoter : PromoterFiles(p)
    /\ DistinctIds
    /\ NoTornReport
    /\ AckedFresh
    /\ SweepFiles

\* Down, nothing runs.
DownIsQuiet == ~up => ~sweeping /\ \A p \in Promoter : pc[p] = "idle"

\* What the count in progress is worth.
SweepCount ==
    /\ todo # {} => sweeping
    /\ sweeping =>
          /\ seen \subseteq Files
          /\ seen \cap todo = {}
          /\ ~blurred => InFlight = {} /\ Live \subseteq todo \cup seen

CountInv ==
    /\ CounterCoversReports
    /\ NoGrantAtCapacity
    /\ NoLeakedSlot
    /\ DownIsQuiet
    /\ SweepCount

-----------------------------------------------------------------------------
\* The documented cap: at most maxActiveTotal reports active on disk.
CapOnDisk == Cardinality(Live) <= MaxActive
=============================================================================

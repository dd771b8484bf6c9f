----------------------------- MODULE Admission -----------------------------
(***************************************************************************)
(* Admission of long-running requests, internal/handler/handler.go: the    *)
(* global semaphore and the per-IP semaphore that Ping, Traceroute, Dig,   *)
(* Proxy and PortCheck take in this order and release in the reverse one.  *)
(*                                                                         *)
(* The per-IP semaphore of an address is an entry of the sync.Map h.ipSem, *)
(* holding a channel of capacity 1 and the time of its last use.  An entry *)
(* is found or created, touched, and then tried, in three steps; it is     *)
(* released through whatever entry the map holds by then; and a background *)
(* goroutine, cleanupIPSem, deletes entries not touched for half an hour.  *)
(*                                                                         *)
(* An entry is a generation of its address: the map holds at most one of   *)
(* them, a request may still refer to an older one.                        *)
(***************************************************************************)
EXTENDS Integers, FiniteSets

CONSTANTS
    Request,   \* handler goroutines
    IP,        \* client addresses
    Gen,       \* generations of the entry of one address
    MaxSlots,  \* capacity of h.semaphore
    None       \* no address, no entry

ASSUME MaxSlotsAssumption == MaxSlots \in Nat \ {0}
ASSUME NoneAssumption == None \notin IP /\ None \notin Gen
ASSUME FiniteAssumption == IsFiniteSet(Request)
\* Entries are garbage collected, so there is always another one; each request
\* inside can hold on to two of them.
ASSUME GenAssumption == IsFiniteSet(Gen) => Cardinality(Gen) >= 2 * MaxSlots - 1

VARIABLES
    pc,        \* where each request is
    ip,        \* the address a request came from, or None
    ent,       \* the entry acquireIP got for it, or None
    rel,       \* the entry releaseIP loaded for it, or None
    slots,     \* tokens in h.semaphore
    cur,       \* h.ipSem: the entry of each address, or None
    full,      \* the entries whose channel holds its token
    stale,     \* the entries whose last use is before the cleaner's cutoff
    cleaning,  \* cleanupIPSem is inside its Range
    todo,      \* addresses this Range has not passed
    doomed,    \* the address whose stale entry is about to be deleted, or None
    raced      \* history: addresses whose entry was deleted under a request

reqVars   == <<pc, ip, ent, rel>>
entryVars == <<full, stale>>
sweepVars == <<cleaning, todo, doomed>>
vars == <<reqVars, slots, cur, entryVars, sweepVars, raced>>

Init ==
    /\ pc = [r \in Request |-> "idle"]
    /\ ip = [r \in Request |-> None]
    /\ ent = [r \in Request |-> None]
    /\ rel = [r \in Request |-> None]
    /\ slots = 0
    /\ cur = [a \in IP |-> None]
    /\ full = [a \in IP |-> {}]
    /\ stale = [a \in IP |-> {}]
    /\ cleaning = FALSE
    /\ todo = {}
    /\ doomed = None
    /\ raced = {}

Goto(r, from, to) == pc[r] = from /\ pc' = [pc EXCEPT ![r] = to]

\* Requests from address a that refer to an entry.
Users(a) == {r \in Request : ip[r] = a /\ ent[r] # None}

\* No request other than r keeps the history of a race at address a alive.
StillRaced(r) == {a \in raced : Users(a) \ {r} # {}}

\* A new &ipSemEntry{}: one that nothing refers to.
NewEntry(a, g) ==
    cur[a] # g /\ \A r \in Request : ip[r] = a => ent[r] # g /\ rel[r] # g

-----------------------------------------------------------------------------
(***************************************************************************)
(* The handlers.                                                           *)
(***************************************************************************)
\* The select on h.semaphore.  A request that finds it full gets "server
\* busy" and changes nothing.
SlotFreeOrFull == slots <= MaxSlots       \* fault: a channel one too large
SlotFree == slots < MaxSlots

TakeSlot(r, a) ==
    /\ SlotFree
    /\ Goto(r, "idle", "admitted")
    /\ ip' = [ip EXCEPT ![r] = a]
    /\ slots' = slots + 1
    /\ UNCHANGED <<ent, rel, cur, entryVars, sweepVars, raced>>

\* ipSem.LoadOrStore.  The last use of a new entry is the zero time, long ago.
LoadEntry(r) ==
    /\ Goto(r, "admitted", "loaded")
    /\ cur[ip[r]] # None
    /\ ent' = [ent EXCEPT ![r] = cur[ip[r]]]
    /\ UNCHANGED <<ip, rel, slots, cur, entryVars, sweepVars, raced>>

StoreEntry(r) ==
    /\ Goto(r, "admitted", "loaded")
    /\ cur[ip[r]] = None
    /\ \E g \in Gen :
          /\ NewEntry(ip[r], g)
          /\ ent' = [ent EXCEPT ![r] = g]
          /\ cur' = [cur EXCEPT ![ip[r]] = g]
          /\ full' = [full EXCEPT ![ip[r]] = @ \ {g}]
          /\ stale' = [stale EXCEPT ![ip[r]] = @ \cup {g}]
    /\ UNCHANGED <<ip, rel, slots, sweepVars, raced>>

\* e.last.Store
Touch(r) ==
    /\ Goto(r, "loaded", "touched")
    /\ stale' = [stale EXCEPT ![ip[r]] = @ \ {ent[r]}]
    /\ UNCHANGED <<ip, ent, rel, slots, cur, full, sweepVars, raced>>

\* The non-blocking send on e.ch succeeds ...
Acquire(r) ==
    /\ Goto(r, "touched", "running")
    /\ ent[r] \notin full[ip[r]]
    /\ full' = [full EXCEPT ![ip[r]] = @ \cup {ent[r]}]
    /\ UNCHANGED <<ip, ent, rel, slots, cur, stale, sweepVars, raced>>

\* ... or finds it full: "you already have an active request".
RefuseKeepsSlot(r) ==                     \* fault: no <-h.semaphore
    /\ Goto(r, "touched", "idle")
    /\ ent[r] \in full[ip[r]]
    /\ ent' = [ent EXCEPT ![r] = None]
    /\ ip' = [ip EXCEPT ![r] = None]
    /\ raced' = StillRaced(r)
    /\ UNCHANGED <<rel, slots, cur, entryVars, sweepVars>>

RefuseReleases(r) ==                      \* fault: defer before the check
    /\ Goto(r, "touched", "draining")
    /\ ent[r] \in full[ip[r]]
    /\ rel' = [rel EXCEPT ![r] = cur[ip[r]]]
    /\ UNCHANGED <<ip, ent, slots, cur, entryVars, sweepVars, raced>>

Refuse(r) ==
    /\ Goto(r, "touched", "leaving")
    /\ ent[r] \in full[ip[r]]
    /\ ent' = [ent EXCEPT ![r] = None]
    /\ raced' = StillRaced(r)
    /\ UNCHANGED <<ip, rel, slots, cur, entryVars, sweepVars>>

\* The probe is over and the deferred releaseIP starts: h.ipSem.Load.
ReleaseSkipped(r) ==                      \* fault: a return before the defer
    /\ Goto(r, "running", "leaving")
    /\ ent' = [ent EXCEPT ![r] = None]
    /\ raced' = StillRaced(r)
    /\ UNCHANGED <<ip, rel, slots, cur, entryVars, sweepVars>>

Release(r) ==
    /\ Goto(r, "running", "draining")
    /\ rel' = [rel EXCEPT ![r] = cur[ip[r]]]
    /\ UNCHANGED <<ip, ent, slots, cur, entryVars, sweepVars, raced>>

\* The non-blocking receive from the channel of the entry it loaded.
Drain(r) ==
    /\ Goto(r, "draining", "leaving")
    /\ full' = [full EXCEPT ![ip[r]] = @ \ {rel[r]}]
    /\ ent' = [ent EXCEPT ![r] = None]
    /\ rel' = [rel EXCEPT ![r] = None]
    /\ raced' = StillRaced(r)
    /\ UNCHANGED <<ip, slots, cur, stale, sweepVars>>

\* The deferred <-h.semaphore.
FreeSlot(r) ==
    /\ Goto(r, "leaving", "idle")
    /\ ip' = [ip EXCEPT ![r] = None]
    /\ slots' = slots - 1
    /\ UNCHANGED <<ent, rel, cur, entryVars, sweepVars, raced>>

Advance(r) ==
    \/ LoadEntry(r) \/ StoreEntry(r) \/ Touch(r)
    \/ Acquire(r) \/ Refuse(r)
    \/ Release(r) \/ Drain(r) \/ FreeSlot(r)

-----------------------------------------------------------------------------
(***************************************************************************)
(* cleanupIPSem.  Range passes every key once, and may or may not meet one *)
(* stored meanwhile.  The test of an entry and its deletion are two steps. *)
(***************************************************************************)
CleanBegin ==
    /\ ~cleaning
    /\ cleaning' = TRUE
    /\ todo' = IP
    /\ UNCHANGED <<reqVars, slots, cur, entryVars, doomed, raced>>

CleanPass(a) ==
    /\ doomed = None
    /\ a \in todo
    /\ cur[a] \notin stale[a]
    /\ todo' = todo \ {a}
    /\ UNCHANGED <<reqVars, slots, cur, entryVars, cleaning, doomed, raced>>

CleanTest(a) ==
    /\ doomed = None
    /\ a \in todo
    /\ cur[a] \in stale[a]
    /\ todo' = todo \ {a}
    /\ doomed' = a
    /\ UNCHANGED <<reqVars, slots, cur, entryVars, cleaning, raced>>

CleanDelete ==
    /\ doomed # None
    /\ cur' = [cur EXCEPT ![doomed] = None]
    /\ doomed' = None
    /\ raced' = IF Users(doomed) # {} THEN raced \cup {doomed} ELSE raced
    /\ UNCHANGED <<reqVars, slots, entryVars, cleaning, todo>>

CleanEnd ==
    /\ cleaning
    /\ todo = {}
    /\ doomed = None
    /\ cleaning' = FALSE
    /\ UNCHANGED <<reqVars, slots, cur, entryVars, todo, doomed, raced>>

Clean ==
    \/ CleanBegin \/ CleanDelete \/ CleanEnd
    \/ \E a \in IP : CleanPass(a) \/ CleanTest(a)

-----------------------------------------------------------------------------
(***************************************************************************)
(* Time.  An entry not touched for half an hour falls behind the cutoff,   *)
(* which is fixed while a Range runs.  No request holds an entry that long *)
(* after touching it: every probe ends by a timeout of at most 130         *)
(* seconds, and WriteTimeout a write that its client stalls (main.go).     *)
(***************************************************************************)
GoStale(a, g) ==
    /\ ~cleaning
    /\ cur[a] = g
    /\ g \notin stale[a]
    /\ \A r \in Users(a) : ent[r] = g => pc[r] = "loaded"
    /\ stale' = [stale EXCEPT ![a] = @ \cup {g}]
    /\ UNCHANGED <<reqVars, slots, cur, full, sweepVars, raced>>

Next ==
    \/ \E r \in Request : Advance(r) \/ \E a \in IP : TakeSlot(r, a)
    \/ Clean
    \/ \E a \in IP, g \in Gen : GoStale(a, g)

Spec == Init /\ [][Next]_vars

\* A request that got in runs on: the semaphores never block it and its probe
\* is cut off by a timeout.  Clients owe nothing, and the cleaner may be slow.
FairSpec == Spec /\ \A r \in Request : WF_vars(Advance(r))

-----------------------------------------------------------------------------
(***************************************************************************)
(* Properties.                                                             *)
(***************************************************************************)
Stage == {"idle", "admitted", "loaded", "touched", "running", "draining", "leaving"}

\* A request refers to an entry from LoadOrStore until it is refused or has
\* released.
HasEntry == {"loaded", "touched", "running", "draining"}

TypeOK ==
    /\ pc \in [Request -> Stage]
    /\ ip \in [Request -> IP \cup {None}]
    /\ ent \in [Request -> Gen \cup {None}]
    /\ rel \in [Request -> Gen \cup {None}]
    /\ slots \in 0 .. MaxSlots
    /\ cur \in [IP -> Gen \cup {None}]
    /\ full \in [IP -> SUBSET Gen] /\ stale \in [IP -> SUBSET Gen]
    /\ cleaning \in BOOLEAN
    /\ todo \in SUBSET IP
    /\ doomed \in IP \cup {None}
    /\ raced \in SUBSET IP
    /\ \A r \in Request : ip[r] = None <=> pc[r] = "idle"
    /\ \A r \in Request : ent[r] = None <=> pc[r] \notin HasEntry

\* h.semaphore holds one token for every request between its select and its
\* last defer: none is lost when the per-IP semaphore refuses it.
SlotsMatchRequests == slots = Cardinality({r \in Request : pc[r] # "idle"})

\* Requests from a that passed acquireIP and have not released yet.
Holders(a) == {r \in Request : ip[r] = a /\ pc[r] \in {"running", "draining"}}

\* An address is never locked out: when the channel new requests will find is
\* full, some request that filled it has still to drain it.  (A token left
\* behind would last: every refused attempt touches the entry.)
NoStrandedToken ==
    \A a \in IP : cur[a] \in full[a] =>
        \E r \in Holders(a) :
            ent[r] = cur[a] /\ (pc[r] = "draining" => rel[r] = cur[a])

\* One active request per address, except after the cleaner deleted an entry
\* a request was using, and then only until those requests are gone.
ExclusiveUnlessRaced ==
    \A a \in IP \ raced : \A r, q \in Holders(a) : r = q

\* While no race is on, a request that runs keeps its address busy: another
\* one of that address is refused.
RunningIsBusy ==
    \A a \in IP \ raced : \A r \in Holders(a) : cur[a] \in full[a]

\* A busy address becomes free again.
BusyClears ==
    \A a \in IP : cur[a] \in full[a] ~> cur[a] \notin full[a]

\* Strengthening: while no race is on, the requests of an address share the
\* entry the map holds, and release that one.
SameEntry ==
    \A r \in Request : ip[r] \notin raced /\ ent[r] # None =>
        /\ cur[ip[r]] = ent[r]
        /\ pc[r] = "draining" => rel[r] = ent[r]

RaceInv == SameEntry /\ ExclusiveUnlessRaced /\ RunningIsBusy

-----------------------------------------------------------------------------
\* The documented rule, without exception.
OneActivePerIP == \A a \in IP : \A r, q \in Holders(a) : r = q
=============================================================================

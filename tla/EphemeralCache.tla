--------------------------- MODULE EphemeralCache ---------------------------
(***************************************************************************)
(* The in-memory cache of finished results, internal/report/ephemeral.go.  *)
(* Every check puts its result under a fresh id; a visitor may ask for it  *)
(* later to make it permanent.  A full cache gives up its oldest entry,    *)
(* and a background goroutine sweeps out what is older than half an hour.  *)
(*                                                                         *)
(* Put and Get run under c.mu and are one step each.  The sweeper reads    *)
(* the clock first and takes c.mu afterwards.  Entries put in one tick of  *)
(* the clock have equal CreatedAt: which of them Put takes for the oldest  *)
(* depends on the order in which Go ranges over the map.                   *)
(*                                                                         *)
(* age[i] is the time since i was put and stops at TTL + 1; since[i] counts*)
(* the results put since, and those put before in the same tick, up to     *)
(* MaxSize, while i is young.                                              *)
(***************************************************************************)
EXTENDS Integers, FiniteSets

CONSTANTS
    Id,       \* ids of results, reused when long forgotten
    MaxSize,  \* maxEphemeralSize
    TTL       \* ephemeralTTL, in ticks

ASSUME MaxSizeAssumption == MaxSize \in Nat \ {0}
ASSUME TTLAssumption == TTL \in Nat \ {0}
ASSUME FiniteAssumption == IsFiniteSet(Id)

VARIABLES
    entries,   \* the ids in c.entries
    age,       \* ticks since CreatedAt
    sweeping,  \* sweepLoop has computed its cutoff and waits for c.mu
    cutoff,    \* the ids older than the cutoff
    since,     \* history: results put not before i
    lost       \* history: results that were evicted before they were old

vars == <<entries, age, sweeping, cutoff, since, lost>>

AtMost(n, m) == IF n > m THEN m ELSE n

Young(i) == age[i] <= TTL

Init ==
    /\ entries = {}
    /\ age = [i \in Id |-> TTL + 1]
    /\ sweeping = FALSE
    /\ cutoff = {}
    /\ since = [i \in Id |-> 0]
    /\ lost = {}

-----------------------------------------------------------------------------
\* The entries whose CreatedAt no other's is before.
NewestFirst ==                             \* fault: After instead of Before
    {i \in entries : \A j \in entries : age[j] >= age[i]}
Oldest == {i \in entries : \A j \in entries : age[j] <= age[i]}

Full == Cardinality(entries) >= MaxSize

\* The age of a new entry, by its CreatedAt.
StampExpiry == -TTL                        \* fault: CreatedAt is when it expires
Stamp == 0

\* A result under a fresh id goes in, evicting one entry of a full cache.
Put(i) ==
    /\ i \notin entries /\ i \notin cutoff /\ ~Young(i)
    /\ \E out \in IF Full THEN {{o} : o \in Oldest} ELSE {{}} :
          /\ entries' = (entries \ out) \cup {i}
          /\ lost' = lost \cup {o \in out : Young(o)}
    /\ age' = [age EXCEPT ![i] = Stamp]
    /\ since' = [j \in Id |->
          IF j = i THEN AtMost(Cardinality({k \in Id \ {i} : age[k] = 0}), MaxSize)
          ELSE IF Young(j) THEN AtMost(since[j] + 1, MaxSize) ELSE 0]
    /\ UNCHANGED <<sweeping, cutoff>>

\* The sweeper's tick: what is in the cache and older than ephemeralTTL now.
SweepCut ==
    /\ ~sweeping
    /\ sweeping' = TRUE
    /\ cutoff' = {i \in entries : ~Young(i)}
    /\ UNCHANGED <<entries, age, since, lost>>

SweepNothing ==                            \* fault: the delete is forgotten
    /\ sweeping
    /\ sweeping' = FALSE
    /\ cutoff' = {}
    /\ UNCHANGED <<entries, age, since, lost>>

SweepDelete ==
    /\ sweeping
    /\ entries' = entries \ cutoff
    /\ lost' = lost \cup {i \in cutoff \cap entries : Young(i)}
    /\ sweeping' = FALSE
    /\ cutoff' = {}
    /\ UNCHANGED <<age, since>>

Tick ==
    /\ age' = [i \in Id |-> AtMost(age[i] + 1, TTL + 1)]
    /\ lost' = {i \in lost : age[i] < TTL}
    /\ since' = [i \in Id |-> IF age[i] < TTL THEN since[i] ELSE 0]
    /\ UNCHANGED <<entries, sweeping, cutoff>>

Next ==
    \/ \E i \in Id : Put(i)
    \/ SweepCut \/ SweepDelete
    \/ Tick

Spec == Init /\ [][Next]_vars

\* Time passes, the ticker fires and c.mu is handed over in turn.
FairSpec == Spec /\ WF_vars(Tick) /\ WF_vars(SweepCut) /\ WF_vars(SweepDelete)

-----------------------------------------------------------------------------
(***************************************************************************)
(* Properties.                                                             *)
(***************************************************************************)
TypeOK ==
    /\ entries \in SUBSET Id
    /\ age \in [Id -> 0 .. TTL + 1]
    /\ sweeping \in BOOLEAN
    /\ cutoff \in SUBSET Id
    /\ since \in [Id -> 0 .. MaxSize]
    /\ lost \in SUBSET Id

\* The cache never outgrows its cap, though expired entries wait for a sweep.
SizeBounded == Cardinality(entries) <= MaxSize

\* A result is promotable for half an hour, unless a full cache of results not
\* older than it has come: no other order of puts and sweeps loses it.
LostOnlyToACrowd == \A i \in lost : since[i] >= MaxSize

\* What is remembered is forgotten in the end.
Forgotten == \A i \in Id : i \in entries ~> i \notin entries

\* Strengthening: every young entry has counted the entries not older than it.
CrowdInv ==
    /\ SizeBounded
    /\ LostOnlyToACrowd
    /\ cutoff \subseteq {i \in Id : ~Young(i)}
    /\ lost \subseteq {i \in Id : Young(i)}
    /\ \A i \in entries : Young(i) =>
          Cardinality({j \in entries \ {i} : age[j] <= age[i]}) <= since[i]
=============================================================================

---------------------------- MODULE RateLimiter ----------------------------
(***************************************************************************)
(* The token-bucket limiter, internal/ratelimit/limit.go: one bucket per   *)
(* client address, created on first use, refilled lazily at every call and *)
(* dropped by a background goroutine when it has not been used for half an *)
(* hour.                                                                   *)
(*                                                                         *)
(* A call looks its bucket up under l.mu and uses it under e.mu, with no   *)
(* lock in between; the cleaner holds l.mu all along, but tests a bucket   *)
(* under e.mu and deletes it after unlocking e.mu.                         *)
(*                                                                         *)
(* Tokens are counted in parts: a request costs Cost parts, a tick brings  *)
(* PerTick of them, so that the fractions of New and NewPerHour appear as  *)
(* integers.  Rounding of floating point is not modelled.                  *)
(*                                                                         *)
(* ideal is a history variable: the bucket the documentation describes,    *)
(* full at first, never deleted, charged for every request let through.    *)
(* Its debt is bounded by one burst, which only raced addresses reach.     *)
(***************************************************************************)
EXTENDS Integers, FiniteSets

CONSTANTS
    Caller,      \* goroutines that may be inside Allow at once
    Key,         \* client addresses
    Gen,         \* generations of the bucket of one address
    Burst,       \* the burst given to New or NewPerHour, in requests
    Cost,        \* parts per request
    PerTick,     \* parts per tick
    StaleAfter,  \* half an hour, in ticks
    None         \* no key, no bucket

MaxTok == Burst * Cost

ASSUME BurstAssumption == Burst \in Nat \ {0} /\ Cost \in Nat \ {0}
ASSUME RateAssumption == PerTick \in Nat \ {0} /\ StaleAfter \in Nat \ {0}
\* Half an hour fills any bucket: 600 parts of 5 at 20 a minute, 5 of 3 at
\* 10 an hour (main.go).
ASSUME StaleIsFull == StaleAfter * PerTick >= MaxTok
ASSUME NoneAssumption == None \notin Key /\ None \notin Gen
ASSUME FiniteAssumption == IsFiniteSet(Caller)
\* Buckets are garbage collected, so there is always another one.
ASSUME GenAssumption == IsFiniteSet(Gen) => Cardinality(Gen) >= Cardinality(Caller)

VARIABLES
    pc,        \* where each caller is inside Allow
    key,       \* the address it asks for, or None
    ent,       \* the bucket it looked up, or None
    cur,       \* l.entries: the bucket of each address, or None
    tok,       \* e.tokens of every bucket
    age,       \* ticks since e.lastCheck, up to StaleAfter + 1
    cleaning,  \* cleanup holds l.mu
    todo,      \* addresses its range has not met
    doomed,    \* the address whose stale bucket is about to be deleted, or None
    ideal,     \* history: the documented bucket, in parts
    raced      \* history: addresses whose bucket was deleted while in use

callVars  == <<pc, key, ent>>
sweepVars == <<cleaning, todo, doomed>>
vars == <<callVars, cur, tok, age, sweepVars, ideal, raced>>

AtMost(n, m) == IF n > m THEN m ELSE n

Init ==
    /\ pc = [c \in Caller |-> "idle"]
    /\ key = [c \in Caller |-> None]
    /\ ent = [c \in Caller |-> None]
    /\ cur = [k \in Key |-> None]
    /\ tok = [k \in Key |-> [g \in Gen |-> 0]]
    /\ age = [k \in Key |-> [g \in Gen |-> StaleAfter + 1]]
    /\ cleaning = FALSE
    /\ todo = {}
    /\ doomed = None
    /\ ideal = [k \in Key |-> MaxTok]
    /\ raced = {}

Goto(c, from, to) == pc[c] = from /\ pc' = [pc EXCEPT ![c] = to]

\* Callers that hold the bucket of k and have yet to use it.
Holders(k, g) == {c \in Caller : key[c] = k /\ ent[c] = g}

\* What a call would find in bucket g of k after refilling it.
RefilledUncapped(k, g) ==                  \* fault: no min with maxTok
    tok[k][g] + age[k][g] * PerTick

RefilledWhole(k, g) ==                     \* fault: whole tokens only
    AtMost(tok[k][g] + ((age[k][g] * PerTick) \div Cost) * Cost, MaxTok)

Refilled(k, g) == AtMost(tok[k][g] + age[k][g] * PerTick, MaxTok)

Charge(k) ==
    ideal' = [ideal EXCEPT ![k] = IF @ - Cost < -MaxTok THEN -MaxTok ELSE @ - Cost]

NewBucket(k, g) == cur[k] # g /\ Holders(k, g) = {}

-----------------------------------------------------------------------------
(***************************************************************************)
(* Limiter.Allow                                                           *)
(***************************************************************************)
\* The lookup under RLock.
Lookup(c, k) ==
    /\ ~cleaning
    /\ Goto(c, "idle", IF cur[k] = None THEN "missed" ELSE "found")
    /\ key' = [key EXCEPT ![c] = k]
    /\ ent' = [ent EXCEPT ![c] = cur[k]]
    /\ UNCHANGED <<cur, tok, age, sweepVars, ideal, raced>>

\* The second lookup, under Lock, finds the bucket another caller made ...
LookAgain(c) ==
    /\ ~cleaning
    /\ Goto(c, "missed", "found")
    /\ cur[key[c]] # None
    /\ ent' = [ent EXCEPT ![c] = cur[key[c]]]
    /\ UNCHANGED <<key, cur, tok, age, sweepVars, ideal, raced>>

\* ... or makes one, and the request is let through.
CreateAnyway(c) ==                         \* fault: no second lookup
    /\ ~cleaning
    /\ Goto(c, "missed", "idle")
    /\ \E g \in Gen :
          /\ NewBucket(key[c], g)
          /\ cur' = [cur EXCEPT ![key[c]] = g]
          /\ tok' = [tok EXCEPT ![key[c]][g] = MaxTok - Cost]
          /\ age' = [age EXCEPT ![key[c]][g] = 0]
    /\ Charge(key[c])
    /\ key' = [key EXCEPT ![c] = None]
    /\ UNCHANGED <<ent, sweepVars, raced>>

CreateFull(c) ==                           \* fault: the first call is free
    /\ ~cleaning
    /\ Goto(c, "missed", "idle")
    /\ cur[key[c]] = None
    /\ \E g \in Gen :
          /\ NewBucket(key[c], g)
          /\ cur' = [cur EXCEPT ![key[c]] = g]
          /\ tok' = [tok EXCEPT ![key[c]][g] = MaxTok]
          /\ age' = [age EXCEPT ![key[c]][g] = 0]
    /\ Charge(key[c])
    /\ key' = [key EXCEPT ![c] = None]
    /\ UNCHANGED <<ent, sweepVars, raced>>

Create(c) ==
    /\ ~cleaning
    /\ Goto(c, "missed", "idle")
    /\ cur[key[c]] = None
    /\ \E g \in Gen :
          /\ NewBucket(key[c], g)
          /\ cur' = [cur EXCEPT ![key[c]] = g]
          /\ tok' = [tok EXCEPT ![key[c]][g] = MaxTok - Cost]
          /\ age' = [age EXCEPT ![key[c]][g] = 0]
    /\ Charge(key[c])
    /\ key' = [key EXCEPT ![c] = None]
    /\ UNCHANGED <<ent, sweepVars, raced>>

\* Refill, then take a token; all of it under e.mu.
Grant(c) ==
    /\ Goto(c, "found", "idle")
    /\ Refilled(key[c], ent[c]) >= Cost
    /\ tok' = [tok EXCEPT ![key[c]][ent[c]] = Refilled(key[c], ent[c]) - Cost]
    /\ age' = [age EXCEPT ![key[c]][ent[c]] = 0]
    /\ Charge(key[c])
    /\ key' = [key EXCEPT ![c] = None]
    /\ ent' = [ent EXCEPT ![c] = None]
    /\ UNCHANGED <<cur, sweepVars, raced>>

\* A refusal refills the bucket too, and restarts its clock.
Deny(c) ==
    /\ Goto(c, "found", "idle")
    /\ Refilled(key[c], ent[c]) < Cost
    /\ tok' = [tok EXCEPT ![key[c]][ent[c]] = Refilled(key[c], ent[c])]
    /\ age' = [age EXCEPT ![key[c]][ent[c]] = 0]
    /\ key' = [key EXCEPT ![c] = None]
    /\ ent' = [ent EXCEPT ![c] = None]
    /\ UNCHANGED <<cur, sweepVars, ideal, raced>>

Advance(c) == LookAgain(c) \/ Create(c) \/ Grant(c) \/ Deny(c)

-----------------------------------------------------------------------------
(***************************************************************************)
(* Limiter.cleanup                                                         *)
(***************************************************************************)
CleanBegin ==
    /\ ~cleaning
    /\ cleaning' = TRUE
    /\ todo' = {k \in Key : cur[k] # None}
    /\ UNCHANGED <<callVars, cur, tok, age, doomed, ideal, raced>>

IsStale(k) == age[k][cur[k]] > StaleAfter

CleanKeep(k) ==
    /\ doomed = None
    /\ k \in todo
    /\ ~IsStale(k)
    /\ todo' = todo \ {k}
    /\ UNCHANGED <<callVars, cur, tok, age, cleaning, doomed, ideal, raced>>

CleanTest(k) ==
    /\ doomed = None
    /\ k \in todo
    /\ IsStale(k)
    /\ todo' = todo \ {k}
    /\ doomed' = k
    /\ UNCHANGED <<callVars, cur, tok, age, cleaning, ideal, raced>>

\* The bucket was used since the test, or is about to be.
InUse(k) == Holders(k, cur[k]) # {} \/ ~IsStale(k)

CleanDelete ==
    /\ doomed # None
    /\ cur' = [cur EXCEPT ![doomed] = None]
    /\ doomed' = None
    /\ raced' = IF InUse(doomed) THEN raced \cup {doomed} ELSE raced
    /\ UNCHANGED <<callVars, tok, age, cleaning, todo, ideal>>

CleanEnd ==
    /\ cleaning
    /\ todo = {}
    /\ doomed = None
    /\ cleaning' = FALSE
    /\ UNCHANGED <<callVars, cur, tok, age, todo, doomed, ideal, raced>>

Clean ==
    \/ CleanBegin \/ CleanDelete \/ CleanEnd
    \/ \E k \in Key : CleanKeep(k) \/ CleanTest(k)

-----------------------------------------------------------------------------
\* What address k has left: a missing bucket is a full one.
Level(k) == IF cur[k] = None THEN MaxTok ELSE Refilled(k, cur[k])

\* A race is over when both buckets are full and no caller holds an old one.
Settled(k) ==
    /\ ideal[k] = MaxTok
    /\ Level(k) = MaxTok
    /\ \A c \in Caller : key[c] = k => ent[c] \in {None, cur[k]}

Tick ==
    /\ age' = [k \in Key |-> [g \in Gen |-> AtMost(age[k][g] + 1, StaleAfter + 1)]]
    /\ ideal' = [k \in Key |-> AtMost(ideal[k] + PerTick, MaxTok)]
    /\ UNCHANGED <<callVars, cur, tok, sweepVars>>
    /\ raced' = {k \in raced : ~Settled(k)'}

Next ==
    \/ \E c \in Caller : Advance(c) \/ \E k \in Key : Lookup(c, k)
    \/ Clean
    \/ Tick

Spec == Init /\ [][Next]_vars

(***************************************************************************)
(* Fairness.  Time passes and the cleaner finishes what it began.  A call  *)
(* waits for l.mu at most while the cleaner's loop runs, and sync.RWMutex  *)
(* hands the lock to those who wait, hence strong fairness.  The last      *)
(* conjunct is about a client, not the code: it keeps asking.              *)
(***************************************************************************)
PollSpec ==
    /\ Spec
    /\ WF_vars(Tick)
    /\ WF_vars(Clean)
    /\ \A c \in Caller : SF_vars(Advance(c))
    /\ \A c \in Caller, k \in Key : SF_vars(Lookup(c, k))

-----------------------------------------------------------------------------
(***************************************************************************)
(* Properties.                                                             *)
(***************************************************************************)
\* A bucket holds between nothing and the burst; callers hold a bucket exactly
\* between lookup and use; no bucket disappears while the cleaner holds l.mu,
\* other than the one it doomed.
TypeOK ==
    /\ pc \in [Caller -> {"idle", "missed", "found"}]
    /\ key \in [Caller -> Key \cup {None}]
    /\ ent \in [Caller -> Gen \cup {None}]
    /\ cur \in [Key -> Gen \cup {None}]
    /\ tok \in [Key -> [Gen -> 0 .. MaxTok]]
    /\ age \in [Key -> [Gen -> 0 .. StaleAfter + 1]]
    /\ cleaning \in BOOLEAN
    /\ todo \in SUBSET Key
    /\ doomed \in Key \cup {None}
    /\ ideal \in [Key -> Int]
    /\ raced \in SUBSET Key
    /\ \A c \in Caller : key[c] = None <=> pc[c] = "idle"
    /\ \A c \in Caller : ent[c] = None <=> pc[c] # "found"
    /\ \A k \in todo : cur[k] # None
    /\ doomed # None => cur[doomed] # None /\ doomed \notin todo
    /\ ~cleaning => todo = {} /\ doomed = None

\* An address never gets more than the documented burst and rate, unless the
\* cleaner deleted its bucket while a call was using it.
NeverOverdrawn == \A k \in Key \ raced : ideal[k] >= 0

\* Lazy refill, first-use creation and deletion of stale buckets together are
\* the documented bucket, part for part.
BucketExact ==
    \A k \in Key \ raced : Level(k) = ideal[k]

\* With the same exception, a request is refused only when the documented
\* bucket has no token either.
NoFalseDenial ==
    [][\A c \in Caller :
          Deny(c) /\ key[c] \notin raced => ideal[key[c]] < Cost]_vars

\* A client that keeps asking is let through again and again: refusals, which
\* restart the clock of its bucket, do not starve it.
LetThrough(k) == \E c \in Caller : key[c] = k /\ (Create(c) \/ Grant(c))

PollerServed == \A k \in Key : []<><<LetThrough(k)>>_vars

\* Strengthening: while no race is on, callers hold the bucket the map holds.
SameBucket ==
    \A c \in Caller : key[c] \notin raced /\ ent[c] # None => ent[c] = cur[key[c]]

BucketInv == SameBucket /\ BucketExact

-----------------------------------------------------------------------------
\* The documented rule, without exception.
BurstRespected == \A k \in Key : ideal[k] >= 0
=============================================================================

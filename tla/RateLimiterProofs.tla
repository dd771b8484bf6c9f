-------------------------- MODULE RateLimiterProofs --------------------------
(***************************************************************************)
(* Proofs about RateLimiter, for every burst, cost, rate and staleness     *)
(* that StaleIsFull allows, and any number of callers and addresses.       *)
(***************************************************************************)
EXTENDS RateLimiter, FiniteSetTheorems, TLAPS

-----------------------------------------------------------------------------
(***************************************************************************)
(* Arithmetic of the buckets.                                              *)
(***************************************************************************)
LEMMA MaxTokNat == MaxTok \in Nat /\ MaxTok >= Cost /\ Cost \in Nat \ {0}
  <1>1. \A m, n \in Nat \ {0} : m * n \in Nat /\ m * n >= n
    OBVIOUS
  <1> QED  BY <1>1, BurstAssumption DEF MaxTok

\* A bucket not used for longer than StaleAfter is full.
LEMMA Products ==
    \A n \in 0 .. StaleAfter + 1 :
        /\ n * PerTick \in Nat
        /\ (n + 1) * PerTick = n * PerTick + PerTick
        /\ n >= StaleAfter => n * PerTick >= MaxTok
  <1> TAKE n \in 0 .. StaleAfter + 1
  <1>1. n * PerTick \in Nat /\ (n + 1) * PerTick = n * PerTick + PerTick
    BY RateAssumption
  <1>2. n >= StaleAfter => n * PerTick >= StaleAfter * PerTick
    BY RateAssumption
  <1>3. StaleAfter * PerTick \in Nat
    BY RateAssumption
  <1> QED  BY <1>1, <1>2, <1>3, StaleIsFull, MaxTokNat

LEMMA RefilledRange ==
    ASSUME TypeOK, NEW k \in Key, NEW g \in Gen
    PROVE  Refilled(k, g) \in 0 .. MaxTok
  <1>1. tok[k][g] \in 0 .. MaxTok /\ age[k][g] \in 0 .. StaleAfter + 1
    BY DEF TypeOK
  <1>2. age[k][g] * PerTick \in Nat
    BY <1>1, Products
  <1> QED  BY <1>1, <1>2, MaxTokNat DEF Refilled, AtMost

-----------------------------------------------------------------------------
(***************************************************************************)
(* Types.                                                                  *)
(***************************************************************************)
LEMMA TypeInit == Init => TypeOK
  <1> SUFFICES ASSUME Init PROVE TypeOK
    OBVIOUS
  <1>1. cleaning \in BOOLEAN
    BY DEF Init
  <1>2. tok \in [Key -> [Gen -> 0 .. MaxTok]]
    BY MaxTokNat DEF Init
  <1>3. age \in [Key -> [Gen -> 0 .. StaleAfter + 1]]
    BY RateAssumption DEF Init
  <1>4. ideal \in [Key -> Int]
    BY MaxTokNat DEF Init
  <1>5. \A c \in Caller : pc[c] = "idle" /\ key[c] = None /\ ent[c] = None
    BY DEF Init
  <1> QED
    BY <1>1, <1>2, <1>3, <1>4, <1>5, NoneAssumption DEF Init, TypeOK

LEMMA ChargeType ==
    ASSUME TypeOK, NEW k \in Key, Charge(k)
    PROVE  /\ ideal' \in [Key -> Int]
           /\ \A j \in Key \ {k} : ideal'[j] = ideal[j]
           /\ ideal[k] >= Cost - MaxTok => ideal'[k] = ideal[k] - Cost
  <1>1. ideal \in [Key -> Int]
    BY DEF TypeOK
  <1> DEFINE n == IF ideal[k] - Cost < -MaxTok THEN -MaxTok ELSE ideal[k] - Cost
  <1>2. /\ n \in Int
        /\ ideal[k] >= Cost - MaxTok => n = ideal[k] - Cost
    BY <1>1, MaxTokNat
  <1>3. ideal' = [ideal EXCEPT ![k] = n]
    BY Zenon DEF Charge
  <1> HIDE DEF n
  <1> QED  BY <1>1, <1>2, <1>3, MaxTokNat

LEMMA TypeStep == TypeOK /\ [Next]_vars => TypeOK'
  <1> SUFFICES ASSUME TypeOK, [Next]_vars PROVE TypeOK'
    OBVIOUS
  <1> USE NoneAssumption, MaxTokNat DEF callVars, sweepVars
  <1>1. ASSUME NEW c \in Caller, NEW k \in Key, Lookup(c, k) PROVE TypeOK'
    BY <1>1 DEF Lookup, Goto, TypeOK
  <1>2. ASSUME NEW c \in Caller, LookAgain(c) PROVE TypeOK'
    BY <1>2 DEF LookAgain, Goto, TypeOK
  <1>3. ASSUME NEW c \in Caller, Create(c) PROVE TypeOK'
    <2>1. PICK g \in Gen :
             /\ cur' = [cur EXCEPT ![key[c]] = g]
             /\ tok' = [tok EXCEPT ![key[c]][g] = MaxTok - Cost]
             /\ age' = [age EXCEPT ![key[c]][g] = 0]
      BY <1>3 DEF Create
    <2>2. ideal' \in [Key -> Int]
      <3>1. key[c] \in Key /\ Charge(key[c])
        BY <1>3 DEF Create, Goto, TypeOK
      <3> QED  BY <3>1, ChargeType
    <2>3. MaxTok - Cost \in 0 .. MaxTok /\ 0 \in 0 .. StaleAfter + 1
      BY RateAssumption
    <2>4. /\ tok' \in [Key -> [Gen -> 0 .. MaxTok]]
          /\ age' \in [Key -> [Gen -> 0 .. StaleAfter + 1]]
      BY <2>1, <2>3 DEF TypeOK
    <2>5. /\ pc[c] = "missed" /\ pc' = [pc EXCEPT ![c] = "idle"]
          /\ key' = [key EXCEPT ![c] = None]
          /\ UNCHANGED <<ent, sweepVars, raced>>
      BY <1>3 DEF Create, Goto
    <2> QED  BY <2>1, <2>2, <2>4, <2>5 DEF TypeOK
  <1>4. ASSUME NEW c \in Caller, Grant(c) \/ Deny(c) PROVE TypeOK'
    <2>1. key[c] \in Key /\ ent[c] \in Gen
      BY <1>4 DEF Grant, Deny, Goto, TypeOK
    <2>2. Refilled(key[c], ent[c]) \in 0 .. MaxTok
      BY <2>1, RefilledRange
    <2>3. PICK n \in 0 .. MaxTok : tok' = [tok EXCEPT ![key[c]][ent[c]] = n]
      <3>1. CASE Grant(c)
        <4>1. Refilled(key[c], ent[c]) - Cost \in 0 .. MaxTok
          BY <2>2, <3>1 DEF Grant
        <4> QED  BY <3>1, <4>1 DEF Grant
      <3>2. CASE Deny(c)
        BY <2>2, <3>2 DEF Deny
      <3> QED  BY <1>4, <3>1, <3>2
    <2>4. tok' \in [Key -> [Gen -> 0 .. MaxTok]]
      BY <2>3 DEF TypeOK
    <2>5. age' \in [Key -> [Gen -> 0 .. StaleAfter + 1]]
      <3>1. age' = [age EXCEPT ![key[c]][ent[c]] = 0] /\ 0 \in 0 .. StaleAfter + 1
        BY <1>4, RateAssumption DEF Grant, Deny
      <3> QED  BY <3>1 DEF TypeOK
    <2>6. ideal' \in [Key -> Int]
      <3>1. Charge(key[c]) \/ ideal' = ideal
        BY <1>4 DEF Grant, Deny
      <3> QED  BY <2>1, <3>1, ChargeType DEF TypeOK
    <2>7. /\ pc[c] = "found" /\ pc' = [pc EXCEPT ![c] = "idle"]
          /\ key' = [key EXCEPT ![c] = None] /\ ent' = [ent EXCEPT ![c] = None]
          /\ UNCHANGED <<cur, sweepVars, raced>>
      BY <1>4 DEF Grant, Deny, Goto
    <2>8. /\ \A d \in Caller : key'[d] = None <=> pc'[d] = "idle"
          /\ \A d \in Caller : ent'[d] = None <=> pc'[d] # "found"
      BY <2>7 DEF TypeOK
    <2>9. /\ pc' \in [Caller -> {"idle", "missed", "found"}]
          /\ key' \in [Caller -> Key \cup {None}]
          /\ ent' \in [Caller -> Gen \cup {None}]
      BY <2>7 DEF TypeOK
    <2>10. /\ cur' \in [Key -> Gen \cup {None}] /\ cleaning' \in BOOLEAN
           /\ todo' \in SUBSET Key /\ doomed' \in Key \cup {None}
           /\ raced' \in SUBSET Key
           /\ \A k \in todo' : cur'[k] # None
           /\ doomed' # None => cur'[doomed'] # None /\ doomed' \notin todo'
           /\ ~cleaning' => todo' = {} /\ doomed' = None
      BY <2>7 DEF TypeOK
    <2> QED  BY <2>4, <2>5, <2>6, <2>8, <2>9, <2>10 DEF TypeOK
  <1>5. CASE Clean
    <2> USE DEF TypeOK
    <2>1. CASE CleanBegin
      BY <2>1 DEF CleanBegin
    <2>2. ASSUME NEW k \in Key, CleanKeep(k) \/ CleanTest(k) PROVE TypeOK'
      BY <2>2 DEF CleanKeep, CleanTest
    <2>3. CASE CleanDelete
      BY <2>3 DEF CleanDelete
    <2>4. CASE CleanEnd
      BY <2>4 DEF CleanEnd
    <2> QED  BY <1>5, <2>1, <2>2, <2>3, <2>4 DEF Clean
  <1>6. CASE Tick
    <2>1. age' \in [Key -> [Gen -> 0 .. StaleAfter + 1]]
      BY <1>6, RateAssumption DEF Tick, AtMost, TypeOK
    <2>2. ideal' \in [Key -> Int]
      BY <1>6, RateAssumption DEF Tick, AtMost, TypeOK
    <2> QED  BY <1>6, <2>1, <2>2 DEF Tick, TypeOK
  <1>7. CASE UNCHANGED vars
    BY <1>7 DEF vars, TypeOK
  <1> QED
    BY <1>1, <1>2, <1>3, <1>4, <1>5, <1>6, <1>7 DEF Next, Advance

\* Buckets stay between empty and the burst, whatever the order of calls,
\* refills and clean-ups.
THEOREM TypeCorrect == Spec => []TypeOK
  BY TypeInit, TypeStep, PTL DEF Spec
-----------------------------------------------------------------------------
(***************************************************************************)
(* The buckets of addresses where no race is on are the documented ones.   *)
(***************************************************************************)
LEMMA BucketInit == Init => BucketInv
  BY NoneAssumption DEF Init, BucketInv, SameBucket, BucketExact, Level

\* What a refill of a just-used bucket finds: what was left in it.
LEMMA JustUsed ==
    ASSUME NEW k \in Key, NEW g \in Gen, NEW n \in 0 .. MaxTok,
           tok'[k][g] = n, age'[k][g] = 0
    PROVE  Refilled(k, g)' = n
  <1>1. 0 * PerTick = 0
    BY RateAssumption
  <1>2. Refilled(k, g)' = AtMost(n + 0 * PerTick, MaxTok)
    BY DEF Refilled
  <1> QED  BY <1>1, <1>2, MaxTokNat DEF AtMost

LEMMA LevelFrame ==
    ASSUME NEW k, cur'[k] = cur[k], tok'[k] = tok[k], age'[k] = age[k]
    PROVE  Level(k)' = Level(k)
  BY DEF Level, Refilled

\* Time fills a bucket as it fills the documented one.
LEMMA LevelTick ==
    ASSUME TypeOK, Tick, NEW k \in Key
    PROVE  Level(k)' = AtMost(Level(k) + PerTick, MaxTok)
  <1>1. CASE cur[k] = None
    BY <1>1, MaxTokNat, RateAssumption DEF Tick, Level, AtMost
  <1>2. CASE cur[k] # None
    <2> DEFINE g == cur[k]
               a == age[k][g]
               b == AtMost(a + 1, StaleAfter + 1)
    <2>1. /\ g \in Gen /\ a \in 0 .. StaleAfter + 1 /\ tok[k][g] \in 0 .. MaxTok
      BY <1>2 DEF TypeOK
    <2>2. age'[k][g] = b /\ tok' = tok /\ cur' = cur
      BY <2>1 DEF Tick
    <2>3. Level(k) = AtMost(tok[k][g] + a * PerTick, MaxTok)
      BY <1>2 DEF Level, Refilled
    <2>4. Level(k)' = AtMost(tok[k][g] + b * PerTick, MaxTok)
      BY <1>2, <2>2 DEF Level, Refilled
    <2>5. /\ a * PerTick \in Nat
          /\ (a + 1) * PerTick = a * PerTick + PerTick
          /\ a >= StaleAfter => a * PerTick >= MaxTok
      BY <2>1, Products
    <2>6. CASE a <= StaleAfter
      <3>1. b = a + 1
        BY <2>1, <2>6, RateAssumption DEF AtMost
      <3> QED
        BY <2>1, <2>3, <2>4, <2>5, <3>1, MaxTokNat, RateAssumption DEF AtMost
    <2>7. CASE a = StaleAfter + 1
      <3>1. b = a
        BY <2>1, <2>7, RateAssumption DEF AtMost
      <3>2. a * PerTick >= MaxTok
        BY <2>5, <2>7, RateAssumption
      <3> QED
        BY <2>1, <2>3, <2>4, <2>5, <3>1, <3>2, MaxTokNat, RateAssumption DEF AtMost
    <2> QED  BY <2>1, <2>6, <2>7, RateAssumption
  <1> QED  BY <1>1, <1>2

LEMMA BucketStep == TypeOK /\ BucketInv /\ [Next]_vars => BucketInv'
  <1> SUFFICES ASSUME TypeOK, BucketInv, [Next]_vars PROVE BucketInv'
    OBVIOUS
  <1> USE NoneAssumption DEF callVars, sweepVars
  <1>1. ASSUME UNCHANGED <<cur, tok, age, ideal, raced>>, SameBucket'
        PROVE  BucketInv'
    BY <1>1, LevelFrame DEF BucketInv, BucketExact
  <1>2. ASSUME NEW c \in Caller, NEW k \in Key, Lookup(c, k) PROVE BucketInv'
    <2>1. SameBucket'
      BY <1>2 DEF Lookup, Goto, BucketInv, SameBucket, TypeOK
    <2> QED  BY <1>1, <1>2, <2>1 DEF Lookup
  <1>3. ASSUME NEW c \in Caller, LookAgain(c) PROVE BucketInv'
    <2>1. SameBucket'
      BY <1>3 DEF LookAgain, Goto, BucketInv, SameBucket, TypeOK
    <2> QED  BY <1>1, <1>3, <2>1 DEF LookAgain
  <1>4. ASSUME NEW c \in Caller, Create(c) PROVE BucketInv'
    <2>0. PICK k \in Key : k = key[c]
      BY <1>4 DEF Create, Goto, TypeOK
    <2>1. cur[k] = None /\ Charge(k) /\ raced' = raced
      BY <1>4, <2>0 DEF Create
    <2>2. PICK g \in Gen :
             /\ cur' = [cur EXCEPT ![k] = g]
             /\ tok' = [tok EXCEPT ![k][g] = MaxTok - Cost]
             /\ age' = [age EXCEPT ![k][g] = 0]
      BY <1>4, <2>0 DEF Create
    <2>3. SameBucket'
      BY <1>4, <2>0, <2>1, <2>2 DEF Create, Goto, BucketInv, SameBucket, TypeOK
    <2>4. ASSUME k \notin raced PROVE Level(k)' = ideal'[k]
      <3>1. Level(k) = MaxTok /\ ideal[k] = MaxTok
        BY <2>1, <2>4 DEF Level, BucketInv, BucketExact
      <3>2. ideal'[k] = MaxTok - Cost
        BY <2>1, <3>1, ChargeType, MaxTokNat
      <3>3. MaxTok - Cost \in 0 .. MaxTok
        BY MaxTokNat
      <3>4. tok'[k][g] = MaxTok - Cost /\ age'[k][g] = 0 /\ cur'[k] = g
        BY <2>1, <2>2 DEF TypeOK
      <3>5. Refilled(k, g)' = MaxTok - Cost
        BY <2>1, <3>3, <3>4, JustUsed
      <3> QED  BY <3>2, <3>4, <3>5 DEF Level, Refilled
    <2>5. ASSUME NEW j \in Key \ raced, j # k PROVE Level(j)' = ideal'[j]
      <3>1. cur'[j] = cur[j] /\ tok'[j] = tok[j] /\ age'[j] = age[j]
        BY <2>2, <2>5 DEF TypeOK
      <3>2. ideal'[j] = ideal[j]
        BY <2>1, <2>5, ChargeType
      <3> QED  BY <2>5, <3>1, <3>2, LevelFrame DEF BucketInv, BucketExact
    <2> QED  BY <2>1, <2>3, <2>4, <2>5 DEF BucketInv, BucketExact
  <1>5. ASSUME NEW c \in Caller, Grant(c) \/ Deny(c) PROVE BucketInv'
    <2>0. PICK k \in Key, g \in Gen : k = key[c] /\ g = ent[c]
      BY <1>5 DEF Grant, Deny, Goto, TypeOK
    <2>1. cur' = cur /\ raced' = raced /\ Refilled(k, g) \in 0 .. MaxTok
      BY <1>5, RefilledRange DEF Grant, Deny
    <2>2. PICK n \in 0 .. MaxTok :
             /\ tok' = [tok EXCEPT ![k][g] = n]
             /\ age' = [age EXCEPT ![k][g] = 0]
             /\ \/ n = Refilled(k, g) - Cost /\ Charge(k)
                \/ n = Refilled(k, g) /\ ideal' = ideal
      <3>1. CASE Grant(c)
        <4>1. Refilled(k, g) - Cost \in 0 .. MaxTok
          BY <2>0, <2>1, <3>1, MaxTokNat DEF Grant
        <4> QED  BY <2>0, <3>1, <4>1 DEF Grant
      <3>2. CASE Deny(c)
        BY <2>0, <2>1, <3>2 DEF Deny
      <3> QED  BY <1>5, <3>1, <3>2
    <2>3. SameBucket'
      <3>1. CASE Grant(c)
        BY <3>1 DEF Grant, Goto, BucketInv, SameBucket, TypeOK
      <3>2. CASE Deny(c)
        BY <3>2 DEF Deny, Goto, BucketInv, SameBucket, TypeOK
      <3> QED  BY <1>5, <3>1, <3>2
    <2>4. ASSUME k \notin raced PROVE Level(k)' = ideal'[k]
      <3>1. g = cur[k] /\ Refilled(k, g) = ideal[k]
        BY <2>0, <2>4 DEF Level, BucketInv, BucketExact, SameBucket
      <3>2. ideal'[k] = n
        BY <2>1, <2>2, <3>1, ChargeType, MaxTokNat
      <3>3. tok'[k][g] = n /\ age'[k][g] = 0
        BY <2>1, <2>2 DEF TypeOK
      <3>4. Refilled(k, g)' = n
        BY <2>1, <3>3, JustUsed
      <3> QED  BY <2>1, <3>1, <3>2, <3>4 DEF Level, Refilled
    <2>5. ASSUME NEW j \in Key \ raced, j # k PROVE Level(j)' = ideal'[j]
      <3>1. cur'[j] = cur[j] /\ tok'[j] = tok[j] /\ age'[j] = age[j]
        BY <2>1, <2>2, <2>5 DEF TypeOK
      <3>2. ideal'[j] = ideal[j]
        BY <2>1, <2>2, <2>5, ChargeType
      <3> QED  BY <2>5, <3>1, <3>2, LevelFrame DEF BucketInv, BucketExact
    <2> QED  BY <2>1, <2>3, <2>4, <2>5 DEF BucketInv, BucketExact
  <1>6. CASE Clean /\ ~CleanDelete
    <2>1. /\ UNCHANGED <<callVars, cur, tok, age, ideal, raced>>
      BY <1>6 DEF Clean, CleanBegin, CleanKeep, CleanTest, CleanEnd
    <2>2. SameBucket'
      BY <2>1 DEF BucketInv, SameBucket
    <2> QED  BY <1>1, <2>1, <2>2
  <1>7. CASE CleanDelete
    <2>0. PICK d \in Key : d = doomed
      BY <1>7 DEF CleanDelete, TypeOK
    <2>1. /\ cur[d] \in Gen /\ cur' = [cur EXCEPT ![d] = None]
          /\ UNCHANGED <<callVars, tok, age, ideal>>
          /\ raced \subseteq raced'
      BY <1>7, <2>0 DEF CleanDelete, TypeOK
    <2>2. d \notin raced' => Holders(d, cur[d]) = {} /\ IsStale(d)
      BY <1>7, <2>0 DEF CleanDelete, InUse
    <2>3. SameBucket'
      BY <2>1, <2>2 DEF BucketInv, SameBucket, Holders, TypeOK
    <2>4. ASSUME d \notin raced' PROVE Level(d)' = ideal'[d]
      <3>1. age[d][cur[d]] = StaleAfter + 1 /\ tok[d][cur[d]] \in 0 .. MaxTok
        BY <2>1, <2>2, <2>4, RateAssumption DEF IsStale, TypeOK
      <3>2. age[d][cur[d]] * PerTick \in Nat /\ age[d][cur[d]] * PerTick >= MaxTok
        BY <3>1, Products, RateAssumption
      <3>3. Refilled(d, cur[d]) = MaxTok
        BY <3>1, <3>2, MaxTokNat DEF Refilled, AtMost
      <3>4. ideal[d] = MaxTok
        BY <2>1, <2>4, <3>3 DEF Level, BucketInv, BucketExact
      <3>5. cur'[d] = None
        BY <2>1 DEF TypeOK
      <3> QED  BY <2>1, <3>4, <3>5 DEF Level
    <2>5. ASSUME NEW j \in Key \ raced', j # d PROVE Level(j)' = ideal'[j]
      <3>1. cur'[j] = cur[j] /\ tok'[j] = tok[j] /\ age'[j] = age[j]
        BY <2>1, <2>5 DEF TypeOK
      <3> QED  BY <2>1, <2>5, <3>1, LevelFrame DEF BucketInv, BucketExact
    <2> QED  BY <2>3, <2>4, <2>5 DEF BucketInv, BucketExact
  <1>8. CASE Tick
    <2>1. /\ UNCHANGED <<callVars, cur, tok>>
          /\ \A j \in Key : ideal'[j] = AtMost(ideal[j] + PerTick, MaxTok)
          /\ \A j \in Key : j \notin raced' => j \notin raced \/ Settled(j)'
      BY <1>8 DEF Tick
    <2>2. ASSUME NEW j \in Key, j \notin raced' PROVE Level(j)' = ideal'[j]
      <3>1. CASE j \notin raced
        BY <1>8, <2>1, <3>1, LevelTick DEF BucketInv, BucketExact
      <3>2. CASE Settled(j)'
        BY <3>2 DEF Settled
      <3> QED  BY <2>1, <2>2, <3>1, <3>2
    <2>3. SameBucket'
      <3> SUFFICES ASSUME NEW c \in Caller, key'[c] \notin raced', ent'[c] # None
                   PROVE  ent'[c] = cur'[key'[c]]
        BY DEF SameBucket
      <3>1. key[c] \in Key /\ key' = key /\ ent' = ent /\ cur' = cur
        BY <2>1 DEF TypeOK
      <3>2. CASE key[c] \notin raced
        BY <3>1, <3>2 DEF BucketInv, SameBucket
      <3>3. CASE Settled(key[c])'
        BY <3>1, <3>3 DEF Settled
      <3> QED  BY <2>1, <3>1, <3>2, <3>3
    <2> QED  BY <2>2, <2>3 DEF BucketInv, BucketExact
  <1>9. CASE UNCHANGED vars
    BY <1>1, <1>9 DEF vars, BucketInv, SameBucket
  <1> QED
    BY <1>2, <1>3, <1>4, <1>5, <1>6, <1>7, <1>8, <1>9 DEF Next, Advance

THEOREM BucketCorrect == Spec => []BucketInv
  BY TypeCorrect, BucketInit, BucketStep, PTL DEF Spec

\* Lazy refill, creation on first use and the deletion of stale buckets are,
\* together, the documented bucket, except at addresses where a race is on.
THEOREM LimiterIsExact == Spec => []BucketExact
  BY BucketCorrect, PTL DEF BucketInv

\* No such address exceeds the documented burst and rate.
THEOREM NoOverdraft == Spec => []NeverOverdrawn
  <1>1. TypeOK /\ BucketInv => NeverOverdrawn
    <2> SUFFICES ASSUME TypeOK, BucketInv, NEW k \in Key \ raced PROVE ideal[k] >= 0
      BY DEF NeverOverdrawn
    <2>1. CASE cur[k] = None
      BY <2>1, MaxTokNat DEF BucketInv, BucketExact, Level
    <2>2. CASE cur[k] # None
      <3>1. cur[k] \in Gen
        BY <2>2 DEF TypeOK
      <3> QED  BY <2>2, <3>1, RefilledRange, MaxTokNat DEF BucketInv, BucketExact, Level
    <2> QED  BY <2>1, <2>2
  <1> QED  BY <1>1, TypeCorrect, BucketCorrect, PTL

\* Nor is it refused while the documented bucket holds a token.
THEOREM DenialsAreDue == Spec => NoFalseDenial
  <1>1. TypeOK /\ BucketInv /\ [Next]_vars =>
           [\A c \in Caller :
               Deny(c) /\ key[c] \notin raced => ideal[key[c]] < Cost]_vars
    <2> SUFFICES ASSUME TypeOK, BucketInv, NEW c \in Caller, Deny(c), key[c] \notin raced
                 PROVE  ideal[key[c]] < Cost
      OBVIOUS
    <2>1. key[c] \in Key /\ ent[c] # None
      BY NoneAssumption DEF Deny, Goto, TypeOK
    <2>2. ent[c] = cur[key[c]]
      BY <2>1 DEF BucketInv, SameBucket
    <2>3. Level(key[c]) = Refilled(key[c], ent[c])
      BY <2>1, <2>2 DEF Level
    <2> QED  BY <2>1, <2>3 DEF Deny, BucketInv, BucketExact
  <1> QED  BY <1>1, TypeCorrect, BucketCorrect, PTL DEF Spec, NoFalseDenial
-----------------------------------------------------------------------------
(***************************************************************************)
(* The bound on the number of buckets takes no behaviour away: a call that *)
(* has to make a bucket always finds one that nobody holds.                *)
(***************************************************************************)
BucketLeft ==
    \A c \in Caller :
        pc[c] = "missed" /\ cur[key[c]] = None => \E g \in Gen : NewBucket(key[c], g)

LEMMA AlwaysLeft == TypeOK => BucketLeft
  <1> SUFFICES ASSUME TypeOK, NEW c \in Caller, pc[c] = "missed", cur[key[c]] = None
               PROVE  \E g \in Gen : NewBucket(key[c], g)
    BY DEF BucketLeft
  <1> DEFINE Others == Caller \ {c}
             Taken == {ent[d] : d \in Others}
  <1>1. /\ IsFiniteSet(Caller) /\ IsFiniteSet(Others)
        /\ Cardinality(Others) = Cardinality(Caller) - 1
    BY FiniteAssumption, FS_RemoveElement
  <1>2. IsFiniteSet(Taken) /\ Cardinality(Taken) <= Cardinality(Others)
    <2>1. [d \in Others |-> ent[d]] \in Surjection(Others, Taken)
      BY DEF Surjection
    <2> HIDE DEF Others, Taken
    <2> QED  BY <1>1, <2>1, FS_Surjection
  <1>3. PICK g \in Gen : g \notin Taken
    <2> HIDE DEF Others, Taken
    <2>1. SUFFICES ASSUME Gen \subseteq Taken PROVE FALSE
      OBVIOUS
    <2>2. IsFiniteSet(Gen) /\ Cardinality(Gen) <= Cardinality(Taken)
      BY <1>2, <2>1, FS_Subset
    <2>3. /\ Cardinality(Gen) \in Nat /\ Cardinality(Taken) \in Nat
          /\ Cardinality(Caller) \in Nat
      BY <1>1, <1>2, <2>2, FS_CardinalityType
    <2> QED  BY <1>1, <1>2, <2>2, <2>3, GenAssumption
  <1>4. ASSUME NEW d \in Caller PROVE ent[d] # g
    <2>1. CASE d = c
      BY <2>1, NoneAssumption DEF TypeOK
    <2>2. CASE d # c
      BY <1>3, <2>2
    <2> QED  BY <2>1, <2>2
  <1> QED  BY <1>4, NoneAssumption DEF NewBucket, Holders

\* Allow never fails to make a bucket: the model has one for every caller.
THEOREM NeverShortOfBuckets == Spec => []BucketLeft
  BY TypeCorrect, AlwaysLeft, PTL
=============================================================================

--------------------------- MODULE BgpTableProofs ---------------------------
(***************************************************************************)
(* Proofs about BgpTable and the trie it is kept in, for every address     *)
(* width, any files, however long time runs and however the writer works.  *)
(*                                                                         *)
(* The first part is about what PrefixTrie computes, for every trie and    *)
(* every sequence.  A function f[n \in 0 .. N] defined by recursion        *)
(* satisfies its equation because something does (Recursion), and what it  *)
(* computes follows by induction on n (UpTo).                              *)
(***************************************************************************)
EXTENDS BgpTable, WellFoundedInduction, TLAPS

-----------------------------------------------------------------------------
(***************************************************************************)
(* Numbers, sequences and recursive functions.                             *)
(***************************************************************************)
LEMMA Least ==
    ASSUME NEW T \in SUBSET Nat, T # {}
    PROVE  \E n \in T : \A m \in T : n <= m
  <1> DEFINE R == OpToRel(<, Nat)
  <1>1. IsWellFoundedOn(R, Nat)
    BY NatLessThanWellFounded
  <1>2. PICK n \in T : \A m \in T : ~(<<m, n>> \in R)
    <2> HIDE DEF R
    <2> QED  BY <1>1, WFMin
  <1>3. R = {ss \in Nat \X Nat : ss[1] < ss[2]}
    BY DEF OpToRel
  <1>4. \A m \in Nat : <<m, n>> \in R <=> m < n
    BY <1>2, <1>3
  <1>5. \A m \in T : ~(m < n)
    <2> HIDE DEF R
    <2> QED  BY <1>2, <1>4
  <1> QED  BY <1>5

LEMMA UpTo ==
    ASSUME NEW N \in Nat, NEW S, 0 \in S, \A n \in 1 .. N : n - 1 \in S => n \in S
    PROVE  \A n \in 0 .. N : n \in S
  <1> SUFFICES ASSUME 0 .. N \ S # {} PROVE FALSE
    OBVIOUS
  <1> DEFINE T == (0 .. N) \ S
  <1>1. PICK n \in T : \A m \in T : n <= m
    <2>1. T \in SUBSET Nat
      OBVIOUS
    <2> QED  BY <2>1, Least
  <1>2. n # 0 /\ n \in 1 .. N /\ n - 1 \in 0 .. N
    BY <1>1
  <1>3. n - 1 \in S
    BY <1>1, <1>2
  <1> QED  BY <1>1, <1>2, <1>3

Courses(N, S, a, step) ==
    {f \in [0 .. N -> S] : f[0] = a /\ \A n \in 1 .. N : f[n] = step[n][f[n - 1]]}

LEMMA Recursion ==
    ASSUME NEW N \in Nat, NEW S, NEW a \in S, NEW step \in [1 .. N -> [S -> S]]
    PROVE  \E f : f \in Courses(N, S, a, step)
  <1> DEFINE Fits(f, m) == f[0] = a /\ \A n \in 1 .. m : f[n] = step[n][f[n - 1]]
             Reached == {m \in 0 .. N : \E f \in [0 .. m -> S] : Fits(f, m)}
  <1>1. 0 \in Reached
    <2> DEFINE g == [n \in 0 .. 0 |-> a]
    <2>1. g \in [0 .. 0 -> S] /\ Fits(g, 0)
      OBVIOUS
    <2> HIDE DEF g
    <2> QED  BY <2>1
  <1>2. ASSUME NEW m \in 1 .. N, m - 1 \in Reached PROVE m \in Reached
    <2>1. PICK f \in [0 .. m - 1 -> S] : Fits(f, m - 1)
      BY <1>2
    <2> DEFINE g == [n \in 0 .. m |-> IF n = m THEN step[m][f[m - 1]] ELSE f[n]]
    <2>2. step[m][f[m - 1]] \in S
      BY <2>1
    <2>3. g \in [0 .. m -> S] /\ g[0] = a
      BY <2>1, <2>2
    <2>4. ASSUME NEW n \in 1 .. m PROVE g[n] = step[n][g[n - 1]]
      <3>1. g[n - 1] = f[n - 1]
        OBVIOUS
      <3>2. CASE n = m
        BY <3>1, <3>2
      <3>3. CASE n # m
        <4>1. n \in 1 .. m - 1 /\ g[n] = f[n]
          BY <3>3
        <4> QED  BY <2>1, <3>1, <4>1
      <3> QED  BY <3>2, <3>3
    <2> HIDE DEF g
    <2> QED  BY <2>3, <2>4
  <1>3. N \in Reached
    <2> HIDE DEF Reached
    <2>1. \A n \in 0 .. N : n \in Reached
      BY <1>1, <1>2, UpTo
    <2> QED  BY <2>1
  <1> QED  BY <1>3 DEF Courses

LEMMA Sequences ==
    ASSUME NEW V, NEW T, <<>> \in T,
           \A s \in Seq(V), x \in V : s \in T => Append(s, x) \in T
    PROVE  Seq(V) \subseteq T
  <1> SUFFICES ASSUME NEW s \in Seq(V) PROVE s \in T
    OBVIOUS
  <1> DEFINE Reached == {n \in 0 .. Len(s) : First(s, n) \in T}
  <1>1. 0 \in Reached
    <2>1. First(s, 0) = <<>>
      BY DEF First
    <2> QED  BY <2>1
  <1>2. ASSUME NEW n \in 1 .. Len(s), n - 1 \in Reached PROVE n \in Reached
    <2>1. First(s, n - 1) \in Seq(V) /\ s[n] \in V /\ First(s, n - 1) \in T
      BY <1>2 DEF First
    <2>2. First(s, n) = Append(First(s, n - 1), s[n])
      BY DEF First
    <2>3. First(s, n) \in T
      BY <2>1, <2>2
    <2> QED  BY <2>3
  <1>3. Len(s) \in Reached
    <2> HIDE DEF Reached
    <2>1. Len(s) \in Nat
      OBVIOUS
    <2>2. \A n \in 0 .. Len(s) : n \in Reached
      BY <1>1, <1>2, <2>1, UpTo
    <2> QED  BY <2>1, <2>2
  <1>4. First(s, Len(s)) = s
    BY DEF First
  <1> QED  BY <1>3, <1>4

-----------------------------------------------------------------------------
(***************************************************************************)
(* Only.                                                                   *)
(***************************************************************************)
Keeps(kept, s, S) ==
    /\ kept[0] = <<>>
    /\ \A n \in 1 .. Len(s) :
          kept[n] = IF s[n] \in S THEN Append(kept[n - 1], s[n]) ELSE kept[n - 1]
    /\ Only(s, S) = kept[Len(s)]

LEMMA OnlyFunction ==
    ASSUME NEW V, NEW s \in Seq(V), NEW S
    PROVE  \E kept \in [0 .. Len(s) -> Seq(V)] : Keeps(kept, s, S)
  <1> DEFINE step == [n \in 1 .. Len(s) |->
                        [t \in Seq(V) |-> IF s[n] \in S THEN Append(t, s[n]) ELSE t]]
             Eq(f) == f = [n \in 0 .. Len(s) |->
                              IF n = 0 THEN <<>>
                              ELSE IF s[n] \in S THEN Append(f[n - 1], s[n]) ELSE f[n - 1]]
             kept == CHOOSE f : Eq(f)
  <1>1. Len(s) \in Nat /\ <<>> \in Seq(V) /\ step \in [1 .. Len(s) -> [Seq(V) -> Seq(V)]]
    OBVIOUS
  <1>2. PICK f : f \in Courses(Len(s), Seq(V), <<>>, step)
    <2> HIDE DEF step
    <2> QED  BY <1>1, Recursion
  <1>3. ASSUME NEW n \in 1 .. Len(s)
        PROVE  f[n] = IF s[n] \in S THEN Append(f[n - 1], s[n]) ELSE f[n - 1]
    <2>1. n - 1 \in 0 .. Len(s)
      BY <1>1
    <2>2. f[n - 1] \in Seq(V) /\ f[n] = step[n][f[n - 1]]
      BY <1>2, <2>1 DEF Courses
    <2> QED  BY <2>2
  <1>4. Eq(f)
    <2>1. f = [n \in 0 .. Len(s) |-> f[n]] /\ f[0] = <<>>
      BY <1>2 DEF Courses
    <2>2. \A n \in 0 .. Len(s) : n # 0 => n \in 1 .. Len(s)
      BY <1>1
    <2> QED  BY <1>3, <2>1, <2>2
  <1>5. Eq(kept)
    <2> HIDE DEF Eq
    <2> QED  BY <1>4
  <1>6. Only(s, S) = kept[Len(s)]
    BY DEF Only
  <1>7. kept[0] = <<>>
    <2> HIDE DEF kept
    <2> QED  BY <1>5
  <1>8. ASSUME NEW n \in 1 .. Len(s)
        PROVE  kept[n] = IF s[n] \in S THEN Append(kept[n - 1], s[n]) ELSE kept[n - 1]
    <2>1. n \in 0 .. Len(s) /\ n # 0
      BY <1>1
    <2> HIDE DEF kept
    <2> QED  BY <1>5, <2>1
  <1>9. kept \in [0 .. Len(s) -> Seq(V)]
    <2> HIDE DEF kept
    <2> DEFINE Typed == {n \in 0 .. Len(s) : kept[n] \in Seq(V)}
    <2>1. 0 \in Typed
      <3>1. 0 \in 0 .. Len(s) /\ kept[0] \in Seq(V)
        BY <1>1, <1>7
      <3> QED  BY <3>1
    <2>2. ASSUME NEW n \in 1 .. Len(s), n - 1 \in Typed PROVE n \in Typed
      <3>1. kept[n - 1] \in Seq(V) /\ s[n] \in V /\ n \in 0 .. Len(s)
        BY <1>1, <2>2
      <3>2. kept[n] = kept[n - 1] \/ kept[n] = Append(kept[n - 1], s[n])
        BY <1>8
      <3>3. Append(kept[n - 1], s[n]) \in Seq(V)
        BY <3>1
      <3>4. kept[n] \in Seq(V)
        BY ONLY <3>1, <3>2, <3>3
      <3> QED  BY <3>1, <3>4
    <2>3. \A n \in 0 .. Len(s) : n \in Typed
      <3> HIDE DEF Typed
      <3> QED  BY <1>1, <2>1, <2>2, UpTo
    <2> QED  BY <1>5, <2>3
  <1> QED  BY <1>6, <1>7, <1>8, <1>9 DEF Keeps

LEMMA OnlyEmpty == ASSUME NEW S PROVE Only(<<>>, S) = <<>>
  <1>1. <<>> \in Seq({})
    OBVIOUS
  <1>2. PICK kept \in [0 .. Len(<<>>) -> Seq({})] : Keeps(kept, <<>>, S)
    BY <1>1, OnlyFunction
  <1> QED  BY <1>2 DEF Keeps

LEMMA OnlyAppend ==
    ASSUME NEW V, NEW s \in Seq(V), NEW x \in V, NEW S
    PROVE  /\ Only(s, S) \in Seq(V)
           /\ Only(Append(s, x), S) = IF x \in S THEN Append(Only(s, S), x) ELSE Only(s, S)
  <1> DEFINE t == Append(s, x)
  <1>1. t \in Seq(V) /\ Len(t) = Len(s) + 1 /\ Len(s) \in Nat /\ t[Len(t)] = x
    OBVIOUS
  <1>2. ASSUME NEW n \in 1 .. Len(s) PROVE t[n] = s[n] /\ n \in 1 .. Len(t)
    OBVIOUS
  <1>3. PICK f \in [0 .. Len(s) -> Seq(V)] : Keeps(f, s, S)
    BY OnlyFunction
  <1> HIDE DEF t
  <1>4. PICK g \in [0 .. Len(t) -> Seq(V)] : Keeps(g, t, S)
    BY <1>1, OnlyFunction
  <1> DEFINE Same == {n \in 0 .. Len(s) : f[n] = g[n]}
  <1>5. 0 \in Same /\ \A n \in 1 .. Len(s) : n - 1 \in Same => n \in Same
    <2>1. 0 \in Same
      BY <1>1, <1>3, <1>4 DEF Keeps
    <2>2. ASSUME NEW n \in 1 .. Len(s), n - 1 \in Same PROVE n \in Same
      <3>1. f[n - 1] = g[n - 1] /\ n \in 0 .. Len(s)
        BY <1>1, <2>2
      <3>2. f[n] = IF s[n] \in S THEN Append(f[n - 1], s[n]) ELSE f[n - 1]
        BY <1>3 DEF Keeps
      <3>3. g[n] = IF t[n] \in S THEN Append(g[n - 1], t[n]) ELSE g[n - 1]
        BY <1>2, <1>4 DEF Keeps
      <3>4. t[n] = s[n]
        BY <1>2
      <3>5. f[n] = g[n]
        BY ONLY <3>1, <3>2, <3>3, <3>4
      <3> QED  BY <3>1, <3>5
    <2> QED  BY <2>1, <2>2
  <1>6. f[Len(s)] = g[Len(s)]
    <2>1. \A n \in 0 .. Len(s) : n \in Same
      <3> HIDE DEF Same
      <3> QED  BY <1>1, <1>5, UpTo
    <2> QED  BY <1>1, <2>1
  <1>7. g[Len(t)] = IF x \in S THEN Append(g[Len(s)], x) ELSE g[Len(s)]
    <2>1. Len(t) \in 1 .. Len(t) /\ Len(t) - 1 = Len(s)
      BY <1>1
    <2> QED  BY <1>1, <1>4, <2>1 DEF Keeps
  <1>8. Only(s, S) \in Seq(V)
    BY <1>1, <1>3 DEF Keeps
  <1> QED  BY <1>3, <1>4, <1>6, <1>7, <1>8 DEF t, Keeps

\* Only gives the elements of the sequence that are in the set, and no others.
LEMMA OnlyElements ==
    ASSUME NEW V, NEW s \in Seq(V), NEW S
    PROVE  /\ Only(s, S) \in Seq(V)
           /\ \A k \in DOMAIN Only(s, S) :
                 Only(s, S)[k] \in S /\ \E n \in DOMAIN s : s[n] = Only(s, S)[k]
           /\ \A n \in DOMAIN s :
                 s[n] \in S => \E k \in DOMAIN Only(s, S) : Only(s, S)[k] = s[n]
  <1> DEFINE Within(q) == \A k \in DOMAIN Only(q, S) :
                           Only(q, S)[k] \in S /\ \E n \in DOMAIN q : q[n] = Only(q, S)[k]
             Complete(q) == \A n \in DOMAIN q :
                           q[n] \in S => \E k \in DOMAIN Only(q, S) : Only(q, S)[k] = q[n]
             T == {q \in Seq(V) : Only(q, S) \in Seq(V) /\ Within(q) /\ Complete(q)}
  <1>1. <<>> \in T
    <2>1. <<>> \in Seq(V) /\ Only(<<>>, S) = <<>> /\ DOMAIN <<>> = {}
      BY OnlyEmpty
    <2> HIDE DEF Within, Complete
    <2>2. Within(<<>>) /\ Complete(<<>>)
      BY <2>1 DEF Within, Complete
    <2> QED  BY <2>1, <2>2
  <1>2. ASSUME NEW q \in Seq(V), NEW x \in V, q \in T PROVE Append(q, x) \in T
    <2> DEFINE t == Append(q, x)  o == Only(q, S)  u == Only(t, S)
    <2>1. t \in Seq(V) /\ Len(t) = Len(q) + 1 /\ t[Len(t)] = x /\ Len(q) \in Nat
      OBVIOUS
    <2>2. \A n \in DOMAIN q : n \in DOMAIN t /\ t[n] = q[n]
      OBVIOUS
    <2>3. \A n \in DOMAIN t : n \in DOMAIN q \/ n = Len(t)
      OBVIOUS
    <2>4. o \in Seq(V) /\ u = IF x \in S THEN Append(o, x) ELSE o
      BY OnlyAppend
    <2>5. Within(q) /\ Complete(q)
      BY <1>2
    <2>6. Len(t) \in DOMAIN t
      BY <2>1
    <2> HIDE DEF t, o, u
    <2>7. CASE x \in S
      <3>1. /\ u \in Seq(V) /\ Len(u) = Len(o) + 1 /\ u[Len(u)] = x /\ Len(u) \in DOMAIN u
            /\ \A k \in DOMAIN o : k \in DOMAIN u /\ u[k] = o[k]
            /\ \A k \in DOMAIN u : k \in DOMAIN o \/ k = Len(u)
        BY <2>4, <2>7
      <3>2. Within(t)
        <4> SUFFICES ASSUME NEW k \in DOMAIN u
                     PROVE  u[k] \in S /\ \E n \in DOMAIN t : t[n] = u[k]
          BY DEF u
        <4>1. CASE k = Len(u)
          BY <4>1, <2>1, <2>6, <2>7, <3>1
        <4>2. CASE k \in DOMAIN o
          BY <4>2, <2>2, <2>5, <3>1 DEF o
        <4> QED  BY <3>1, <4>1, <4>2
      <3>3. Complete(t)
        <4> SUFFICES ASSUME NEW n \in DOMAIN t, t[n] \in S
                     PROVE  \E k \in DOMAIN u : u[k] = t[n]
          BY DEF u
        <4>1. CASE n = Len(t)
          BY <4>1, <2>1, <3>1
        <4>2. CASE n \in DOMAIN q
          BY <4>2, <2>2, <2>5, <3>1 DEF o
        <4> QED  BY <2>3, <4>1, <4>2
      <3> QED  BY <2>1, <3>1, <3>2, <3>3 DEF t, u
    <2>8. CASE x \notin S
      <3>1. u = o
        BY <2>4, <2>8
      <3>2. Within(t)
        BY <2>2, <2>5, <3>1 DEF u, o
      <3>3. Complete(t)
        BY <2>1, <2>2, <2>3, <2>5, <2>8, <3>1 DEF u, o
      <3> QED  BY <2>1, <2>4, <3>1, <3>2, <3>3 DEF t, u
    <2> QED  BY <2>7, <2>8
  <1>3. Seq(V) \subseteq T
    <2> HIDE DEF T
    <2> QED  BY <1>1, <1>2, Sequences
  <1> QED  BY <1>3

\* Its head is the first of them.
FirstIn(s, n, S) == s[n] \in S /\ \A m \in DOMAIN s : s[m] \in S => n <= m

LEMMA OnlyHead ==
    ASSUME NEW V, NEW s \in Seq(V), NEW S
    PROVE  \/ Only(s, S) = <<>> /\ \A n \in DOMAIN s : s[n] \notin S
           \/ \E n \in DOMAIN s :
                 FirstIn(s, n, S) /\ Only(s, S) # <<>> /\ Only(s, S)[1] = s[n]
  <1> DEFINE Absent(q) == Only(q, S) = <<>> /\ \A n \in DOMAIN q : q[n] \notin S
             Found(q) == \E n \in DOMAIN q :
                           FirstIn(q, n, S) /\ Only(q, S) # <<>> /\ Only(q, S)[1] = q[n]
             T == {q \in Seq(V) : Absent(q) \/ Found(q)}
  <1>1. <<>> \in T
    <2>1. <<>> \in Seq(V) /\ Only(<<>>, S) = <<>> /\ DOMAIN <<>> = {}
      BY OnlyEmpty
    <2> HIDE DEF Absent, Found
    <2>2. Absent(<<>>)
      BY <2>1 DEF Absent
    <2> QED  BY <2>1, <2>2
  <1>2. ASSUME NEW q \in Seq(V), NEW x \in V, q \in T PROVE Append(q, x) \in T
    <2> DEFINE t == Append(q, x)  o == Only(q, S)  u == Only(t, S)
    <2>1. /\ t \in Seq(V) /\ Len(t) \in DOMAIN t /\ t[Len(t)] = x /\ Len(t) \in Nat
          /\ \A n \in DOMAIN q : n \in DOMAIN t /\ t[n] = q[n] /\ n <= Len(t)
          /\ \A n \in DOMAIN t : n \in DOMAIN q \/ n = Len(t)
      OBVIOUS
    <2>2. o \in Seq(V) /\ u = IF x \in S THEN Append(o, x) ELSE o
      BY OnlyAppend
    <2>3. Absent(q) \/ Found(q)
      BY <1>2
    <2>4. o # <<>> => u # <<>> /\ u[1] = o[1]
      <3> HIDE DEF t, o, u
      <3>1. ASSUME o # <<>> PROVE u # <<>> /\ u[1] = o[1]
        <4>1. Len(o) \in Nat /\ Len(o) # 0
          BY <2>2, <3>1
        <4>2. Append(o, x) # <<>> /\ Append(o, x)[1] = o[1]
          BY <2>2, <4>1
        <4> QED  BY ONLY <2>2, <3>1, <4>2
      <3> QED  BY <3>1
    <2>5. o = <<>> /\ x \in S => u # <<>> /\ u[1] = x
      <3> HIDE DEF t, o, u
      <3> QED  BY <2>2
    <2> HIDE DEF t
    <2>6. CASE Found(q)
      <3>1. PICK n \in DOMAIN q : FirstIn(q, n, S) /\ o # <<>> /\ o[1] = q[n]
        BY <2>6
      <3>2. FirstIn(t, n, S) /\ n \in DOMAIN t /\ t[n] = q[n]
        BY <2>1, <3>1 DEF FirstIn
      <3>3. Found(t)
        BY <2>4, <3>1, <3>2
      <3> QED  BY <2>1, <3>3 DEF t
    <2>7. CASE Absent(q) /\ x \in S
      <3>1. FirstIn(t, Len(t), S)
        BY <2>1, <2>7 DEF FirstIn
      <3>2. Found(t)
        BY <2>1, <2>5, <2>7, <3>1
      <3> QED  BY <2>1, <3>2 DEF t
    <2>8. CASE Absent(q) /\ x \notin S
      <3>1. Absent(t)
        BY <2>1, <2>2, <2>8
      <3> QED  BY <2>1, <3>1 DEF t
    <2> QED  BY <2>3, <2>6, <2>7, <2>8
  <1>3. Seq(V) \subseteq T
    <2> HIDE DEF T
    <2> QED  BY <1>1, <1>2, Sequences
  <1> QED  BY <1>3

-----------------------------------------------------------------------------
(***************************************************************************)
(* Prefixes and tries.                                                     *)
(***************************************************************************)
Tries(V) == UNION {[D -> Seq(V)] : D \in SUBSET Prefix}

LEMMA PrefixLength ==
    ASSUME NEW p \in Prefix
    PROVE  Len(p) \in 0 .. Width /\ p \in Seq({0, 1}) /\ DOMAIN p = 1 .. Len(p)
  BY WidthAssumption DEF Prefix, Bits

LEMMA FirstIsPrefix ==
    ASSUME NEW p \in Prefix, NEW n \in 0 .. Len(p)
    PROVE  First(p, n) \in Prefix /\ Len(First(p, n)) = n
  <1>1. Len(p) \in 0 .. Width /\ p \in Seq({0, 1})
    BY PrefixLength
  <1>2. First(p, n) \in Seq({0, 1}) /\ Len(First(p, n)) = n
    BY <1>1, WidthAssumption DEF First
  <1>3. n \in 0 .. Width /\ First(p, n) \in [1 .. n -> {0, 1}]
    BY <1>1, <1>2, WidthAssumption
  <1> QED  BY <1>2, <1>3 DEF Prefix, Bits

LEMMA AddressIsPrefix ==
    ASSUME NEW ip \in Address PROVE ip \in Prefix /\ Len(ip) = Width
  BY WidthAssumption DEF Address, Prefix, Bits

LEMMA CoversFirst ==
    ASSUME NEW p \in Prefix, NEW ip \in Address
    PROVE  Covers(p, ip) <=> p = First(ip, Len(p))
  BY AddressIsPrefix, PrefixLength, WidthAssumption DEF Covers

LEMMA RootIsPrefix == <<>> \in Prefix
  BY WidthAssumption DEF Prefix, Bits

LEMMA PathIsPrefixes == ASSUME NEW p \in Prefix PROVE PathTo(p) \subseteq Prefix /\ p \in PathTo(p)
  <1>1. Len(p) \in 0 .. Len(p) /\ First(p, Len(p)) = p
    BY PrefixLength, WidthAssumption DEF First
  <1> QED  BY <1>1, FirstIsPrefix DEF PathTo

LEMMA EmptyTrieHolds ==
    ASSUME NEW V
    PROVE  EmptyTrie \in Tries(V) /\ \A q \in Prefix : At(EmptyTrie, q) = <<>>
  <1>1. EmptyTrie \in [{<<>>} -> Seq(V)]
    BY DEF EmptyTrie
  <1> QED  BY <1>1, RootIsPrefix DEF Tries, At, EmptyTrie

LEMMA AtIsSequence == ASSUME NEW V, NEW t \in Tries(V), NEW q PROVE At(t, q) \in Seq(V)
  BY DEF Tries, At

\* Insert adds a route to those of its prefix, behind them, and to no other.
LEMMA InsertHolds ==
    ASSUME NEW V, NEW t \in Tries(V), NEW p \in Prefix, NEW r \in V
    PROVE  /\ Insert(t, p, r) \in Tries(V)
           /\ At(Insert(t, p, r), p) = Append(At(t, p), r)
           /\ \A q \in Prefix : q # p => At(Insert(t, p, r), q) = At(t, q)
  <1> DEFINE D == DOMAIN t \cup PathTo(p)
  <1>1. D \in SUBSET Prefix /\ p \in D
    BY PathIsPrefixes DEF Tries
  <1>2. \A q : At(t, q) \in Seq(V)
    BY AtIsSequence
  <1>3. Append(At(t, p), r) \in Seq(V)
    BY <1>2
  <1>4. Insert(t, p, r) \in [D -> Seq(V)]
    BY <1>2, <1>3 DEF Insert
  <1>5. \A q \in Prefix : q \notin D => At(t, q) = <<>>
    BY DEF At
  <1>6. \A q \in D : Insert(t, p, r)[q] = IF q = p THEN Append(At(t, p), r) ELSE At(t, q)
    BY DEF Insert
  <1>7. DOMAIN Insert(t, p, r) = D
    BY DEF Insert
  <1>8. \A q : At(Insert(t, p, r), q) = IF q \in D THEN Insert(t, p, r)[q] ELSE <<>>
    BY <1>7 DEF At
  <1> HIDE DEF D
  <1> QED  BY <1>1, <1>4, <1>5, <1>6, <1>8 DEF Tries

\* Overwrite replaces what its prefix held, and nothing else.
LEMMA OverwriteHolds ==
    ASSUME NEW V, NEW t \in Tries(V), NEW p \in Prefix, NEW r \in V
    PROVE  /\ Overwrite(t, p, r) \in Tries(V)
           /\ At(Overwrite(t, p, r), p) = <<r>>
           /\ \A q \in Prefix : q # p => At(Overwrite(t, p, r), q) = At(t, q)
  <1> DEFINE D == DOMAIN t \cup PathTo(p)
  <1>1. D \in SUBSET Prefix /\ p \in D
    BY PathIsPrefixes DEF Tries
  <1>2. \A q : At(t, q) \in Seq(V)
    BY AtIsSequence
  <1>3. <<r>> \in Seq(V)
    OBVIOUS
  <1>4. Overwrite(t, p, r) \in [D -> Seq(V)]
    BY <1>2, <1>3 DEF Overwrite
  <1>5. \A q \in Prefix : q \notin D => At(t, q) = <<>>
    BY DEF At
  <1>6. \A q \in D : Overwrite(t, p, r)[q] = IF q = p THEN <<r>> ELSE At(t, q)
    BY DEF Overwrite
  <1>7. DOMAIN Overwrite(t, p, r) = D
    BY DEF Overwrite
  <1>8. \A q : At(Overwrite(t, p, r), q) = IF q \in D THEN Overwrite(t, p, r)[q] ELSE <<>>
    BY <1>7 DEF At
  <1> HIDE DEF D
  <1> QED  BY <1>1, <1>4, <1>5, <1>6, <1>8 DEF Tries

\* The lookup walks to the longest prefix of the address that holds something.
LEMMA LongestPrefixHolds ==
    ASSUME NEW V, NEW t \in Tries(V), NEW ip \in Address
    PROVE  \/ /\ LongestPrefix(t, ip) = <<>>
              /\ \A n \in 0 .. Width : At(t, First(ip, n)) = <<>>
           \/ \E n \in 0 .. Width :
                 /\ At(t, First(ip, n)) # <<>>
                 /\ LongestPrefix(t, ip) = At(t, First(ip, n))
                 /\ \A m \in 0 .. Width : At(t, First(ip, m)) # <<>> => m <= n
  <1> DEFINE here(n) == At(t, First(ip, n))
             step == [n \in 1 .. Width |->
                        [v \in Seq(V) |-> IF here(n) # <<>> THEN here(n) ELSE v]]
             Eq(f) == f = [n \in 0 .. Width |->
                              IF here(n) # <<>> THEN here(n)
                              ELSE IF n = 0 THEN <<>> ELSE f[n - 1]]
             best == CHOOSE f : Eq(f)
  <1>1. Width \in Nat /\ \A n : here(n) \in Seq(V)
    BY WidthAssumption, AtIsSequence
  <1>2. step \in [1 .. Width -> [Seq(V) -> Seq(V)]] /\ here(0) \in Seq(V)
    <2> HIDE DEF here
    <2> QED  BY <1>1
  <1>3. PICK f : f \in Courses(Width, Seq(V), here(0), step)
    <2> HIDE DEF step, here
    <2> QED  BY <1>1, <1>2, Recursion
  <1>4. Eq(f)
    <2> HIDE DEF here
    <2>1. f = [n \in 0 .. Width |-> f[n]] /\ f[0] = here(0)
      BY <1>3 DEF Courses
    <2>2. ASSUME NEW n \in 0 .. Width, n # 0
          PROVE  f[n] = IF here(n) # <<>> THEN here(n) ELSE f[n - 1]
      <3>1. n \in 1 .. Width /\ n - 1 \in 0 .. Width
        BY <1>1, <2>2
      <3>2. f[n - 1] \in Seq(V) /\ f[n] = step[n][f[n - 1]]
        BY <1>3, <3>1 DEF Courses
      <3> QED  BY <3>1, <3>2
    <2> QED  BY <2>1, <2>2
  <1>5. Eq(best)
    <2> HIDE DEF Eq
    <2> QED  BY <1>4
  <1>6. LongestPrefix(t, ip) = best[Width]
    BY DEF LongestPrefix
  <1> HIDE DEF best, step
  <1> DEFINE None_(n) == best[n] = <<>> /\ \A m \in 0 .. n : here(m) = <<>>
             Some(n) == \E k \in 0 .. n : /\ here(k) # <<>> /\ best[n] = here(k)
                                          /\ \A m \in 0 .. n : here(m) # <<>> => m <= k
             Good == {n \in 0 .. Width : None_(n) \/ Some(n)}
  <1>7. 0 \in Good
    <2> HIDE DEF here
    <2>1. best[0] = here(0) /\ 0 .. 0 = {0} /\ 0 \in 0 .. Width
      BY <1>1, <1>5
    <2>2. CASE here(0) = <<>>
      BY <2>1, <2>2
    <2>3. CASE here(0) # <<>>
      BY <2>1, <2>3
    <2> QED  BY <2>2, <2>3
  <1>8. ASSUME NEW n \in 1 .. Width, n - 1 \in Good PROVE n \in Good
    <2> HIDE DEF here
    <2>1. n \in 0 .. Width /\ n # 0 /\ n - 1 \in 0 .. Width /\ n \in 0 .. n
      BY <1>1
    <2>2. best[n] = IF here(n) # <<>> THEN here(n) ELSE best[n - 1]
      BY <1>5, <2>1
    <2>3. \A m \in 0 .. n : m = n \/ m \in 0 .. n - 1
      BY <1>1
    <2>4. CASE here(n) # <<>>
      <3>1. \A m \in 0 .. n : m <= n
        BY <1>1
      <3>2. Some(n)
        BY <2>1, <2>2, <2>4, <3>1
      <3> QED  BY <2>1, <3>2
    <2>5. CASE here(n) = <<>>
      <3>1. best[n] = best[n - 1]
        BY <2>2, <2>5
      <3>2. CASE None_(n - 1)
        BY <2>1, <2>3, <2>5, <3>1, <3>2
      <3>3. CASE Some(n - 1)
        <4>1. PICK k \in 0 .. n - 1 : /\ here(k) # <<>> /\ best[n - 1] = here(k)
                                      /\ \A m \in 0 .. n - 1 : here(m) # <<>> => m <= k
          BY <3>3
        <4>2. k \in 0 .. n /\ best[n] = here(k) /\ \A m \in 0 .. n : here(m) # <<>> => m <= k
          BY <2>3, <2>5, <3>1, <4>1
        <4>3. Some(n)
          BY <4>1, <4>2
        <4> QED  BY <2>1, <4>3
      <3> QED  BY <1>8, <3>2, <3>3
    <2> QED  BY <2>4, <2>5
  <1>9. Width \in Good
    <2>1. \A n \in 0 .. Width : n \in Good
      <3> HIDE DEF Good
      <3> QED  BY <1>1, <1>7, <1>8, UpTo
    <2> QED  BY <1>1, <2>1
  <1> QED  BY <1>6, <1>9

-----------------------------------------------------------------------------
(***************************************************************************)
(* The file, the poll and the table.                                       *)
(***************************************************************************)
TableInv == BgpTypeOK /\ MtimesGrow /\ NothingHidden

LEMMA TableInit == BgpInit => TableInv
  <1> SUFFICES ASSUME BgpInit PROVE TableInv
    OBVIOUS
  <1>1. disk # None => disk.mtime = 0 /\ disk.content \in Contents \cup {Torn} /\ disk \in File
    BY MaxTimeAssumption DEF BgpInit, File
  <1>2. newest \in {0, -1} /\ (Whole(disk) => newest = 0)
    BY DEF BgpInit, Whole
  <1>3. BgpTypeOK
    <2>1. 0 \in 0 .. MaxTime /\ newest \in -1 .. MaxTime
      BY <1>2, MaxTimeAssumption
    <2>2. disk \in File \cup {None}
      BY <1>1
    <2> QED  BY <2>1, <2>2 DEF BgpInit, BgpTypeOK
  <1>4. MtimesGrow /\ NothingHidden
    BY <1>1, <1>2 DEF BgpInit, MtimesGrow, NothingHidden, Loaded, Whole
  <1> QED  BY <1>3, <1>4 DEF TableInv

LEMMA DecodedIsFile ==
    ASSUME NEW t \in 0 .. MaxTime, NEW c \in Contents \cup {Torn}
    PROVE  /\ [mtime |-> t, content |-> c] \in File
           /\ [mtime |-> t, content |-> c] # None
  <1>1. c \in Decodable \cup {Torn}
    BY RoutesAssumption
  <1> QED  BY <1>1, NoneAssumption DEF File

LEMMA FileIsSomething == ASSUME NEW f \in File PROVE f # None
  BY RoutesAssumption, NoneAssumption DEF File

LEMMA TableIsSomething ==
    ASSUME NEW t \in 0 .. MaxTime, NEW c \in Decodable
    PROVE  [mtime |-> t, content |-> c] # None
  BY NoneAssumption

LEMMA TableTime == ASSUME BgpTypeOK, Loaded PROVE current.mtime \in 0 .. MaxTime
  BY DEF BgpTypeOK, Loaded

-----------------------------------------------------------------------------
(***************************************************************************)
(* The writer.                                                             *)
(***************************************************************************)
LEMMA ReplaceStep ==
    ASSUME TableInv, NEW c \in Contents, NEW t \in 0 .. clock, Replace(c, t)
    PROVE  TableInv'
  <1> USE DEF TableInv
  <1>1. t \in 0 .. MaxTime /\ t <= clock /\ c # Torn
    <2>1. c # Torn
      BY ContentsAssumption, RoutesAssumption
    <2> QED  BY <2>1, MaxTimeAssumption DEF BgpTypeOK
  <1>2. disk' = [mtime |-> t, content |-> c] /\ disk' # None /\ disk' \in File
    BY <1>1, DecodedIsFile DEF Replace
  <1>3. disk'.mtime = t /\ disk'.content = c /\ Whole(disk')
    BY <1>1, <1>2 DEF Whole
  <1>4. /\ newest' = (IF t > newest THEN t ELSE newest)
        /\ backdated' = (t <= newest)
        /\ newest' \in -1 .. MaxTime /\ newest' >= newest /\ newest' >= t
        /\ UNCHANGED <<clock, pc, mtime, mixed, current>>
    BY <1>1, MaxTimeAssumption DEF Replace, Appears, Later, BgpTypeOK
  <1>5. /\ fd' = (IF fd = "path" THEN "gone" ELSE fd)
        /\ old' = (IF fd = "path" THEN disk ELSE old)
    BY DEF Replace, Detach
  <1>6. BgpTypeOK'
    BY <1>2, <1>4, <1>5 DEF BgpTypeOK
  <1>7. MtimesGrow'
    <2>1. fd' = "gone" /\ Whole(old') =>
             old'.mtime <= newest' /\ (~backdated' => old'.mtime < disk'.mtime)
      <3> SUFFICES ASSUME fd' = "gone", Whole(old')
                   PROVE  old'.mtime <= newest' /\ (~backdated' => old'.mtime < t)
        BY <1>3
      <3>1. old'.mtime \in 0 .. MaxTime /\ newest \in -1 .. MaxTime
        BY <1>6 DEF BgpTypeOK, File, Whole
      <3>2. old'.mtime <= newest
        <4>1. CASE fd = "path"
          BY <4>1, <1>5 DEF MtimesGrow
        <4>2. CASE fd = "gone"
          BY <4>2, <1>5 DEF MtimesGrow
        <4> QED  BY <4>1, <4>2, <1>5
      <3>3. old'.mtime <= newest'
        BY <3>1, <3>2, <1>4
      <3>4. ASSUME ~backdated' PROVE ~(t <= newest)
        BY <3>4, <1>4, Zenon
      <3>5. ASSUME ~backdated' PROVE old'.mtime < t
        BY <3>4, <3>5, <3>1, <3>2, <1>1
      <3> QED  BY <3>3, <3>5
    <2>2. pc' \in {"read", "decode"} => mtime' <= Opened'.mtime /\ fd' # "closed"
      BY <1>4, <1>5 DEF MtimesGrow, Opened
    <2>3. fd' = "gone" => old' # None
      BY <1>5 DEF MtimesGrow
    <2>4. fd' # "path"
      BY <1>5
    <2>5. Loaded' => current'.mtime <= newest'
      BY <1>4 DEF MtimesGrow, Loaded, BgpTypeOK
    <2>6. pc' = "stat" => fd' # "closed"
      BY <1>4, <1>5 DEF MtimesGrow
    <2>7. mixed' => mtime' <= newest' /\ (~backdated' => mtime' < t)
      <3>1. mixed => mtime <= newest /\ mtime \in 0 .. MaxTime /\ newest \in -1 .. MaxTime
        BY DEF MtimesGrow, BgpTypeOK
      <3>2. ASSUME ~backdated' PROVE ~(t <= newest)
        BY <3>2, <1>4, Zenon
      <3>3. ASSUME mixed, ~backdated' PROVE mtime < t
        BY <3>1, <3>2, <3>3, <1>1
      <3>4. mixed => mtime <= newest'
        BY <3>1, <1>4
      <3> QED  BY <3>3, <3>4, <1>4
    <2> QED  BY <1>1, <1>3, <1>4, <2>1, <2>2, <2>3, <2>4, <2>5, <2>6, <2>7 DEF MtimesGrow
  <1>8. NothingHidden'
    <2>1. ASSUME ~backdated', Loaded PROVE t > current.mtime
      <3>1. t > newest /\ newest \in -1 .. MaxTime
        BY <2>1, <1>1, <1>4 DEF BgpTypeOK
      <3> QED  BY <2>1, <3>1, <1>1, TableTime DEF MtimesGrow
    <2> QED  BY <2>1, <1>3, <1>4 DEF NothingHidden, Loaded
  <1> QED  BY <1>6, <1>7, <1>8

LEMMA UnlinkStep == ASSUME TableInv, Unlink PROVE TableInv'
  <1> USE DEF TableInv
  <1>1. /\ fd' = (IF fd = "path" THEN "gone" ELSE fd)
        /\ old' = (IF fd = "path" THEN disk ELSE old)
        /\ disk' = None /\ ~Whole(disk')
        /\ backdated' \in BOOLEAN
        /\ UNCHANGED <<clock, pc, mtime, mixed, current, newest>>
    BY DEF Unlink, Detach, Whole
  <1>2. BgpTypeOK'
    BY <1>1 DEF BgpTypeOK
  <1>3. MtimesGrow'
    BY <1>1 DEF MtimesGrow, Opened, Loaded, Whole
  <1>4. NothingHidden'
    BY <1>1 DEF NothingHidden
  <1> QED  BY <1>2, <1>3, <1>4

\* What a write in place finds: the latest mtime counts the file being read.
LEMMA LatestReadType ==
    ASSUME BgpTypeOK
    PROVE  LatestRead \in -1 .. MaxTime /\ newest <= LatestRead /\ (PartRead => mtime <= LatestRead)
  BY MaxTimeAssumption DEF BgpTypeOK, LatestRead, Later

LEMMA MixedRead ==
    ASSUME BgpTypeOK, MtimesGrow, mixed' = (mixed \/ PartRead)
    PROVE  mixed' \in BOOLEAN /\ (mixed' => pc = "decode" /\ mtime <= LatestRead)
  <1>1. mixed \in BOOLEAN /\ PartRead \in BOOLEAN /\ (mixed \/ PartRead => pc = "decode")
    BY DEF BgpTypeOK, PartRead
  <1>2. mixed => mtime <= newest
    BY DEF MtimesGrow
  <1>3. /\ mtime \in 0 .. MaxTime /\ newest \in -1 .. MaxTime /\ LatestRead \in -1 .. MaxTime
        /\ newest <= LatestRead /\ (PartRead => mtime <= LatestRead)
    BY LatestReadType DEF BgpTypeOK
  <1>4. mixed \/ PartRead => mtime <= LatestRead
    BY <1>2, <1>3
  <1> QED  BY <1>1, <1>4, Zenon

LEMMA TruncateStep == ASSUME TableInv, Truncate PROVE TableInv'
  <1> USE DEF TableInv
  <1>1. /\ disk # None /\ disk' = [mtime |-> clock, content |-> Torn]
        /\ mixed' = (mixed \/ PartRead) /\ newest' = LatestRead
        /\ backdated' \in BOOLEAN
        /\ UNCHANGED <<clock, fd, old, pc, mtime, current>>
    BY DEF Truncate
  <1>2. disk' \in File /\ disk' # None /\ disk'.mtime = clock /\ ~Whole(disk')
    BY <1>1, DecodedIsFile DEF BgpTypeOK, Whole
  <1>3. disk.mtime <= disk'.mtime
    BY <1>1, <1>2 DEF MtimesGrow
  <1>4. newest' \in -1 .. MaxTime /\ newest <= newest'
    BY <1>1, LatestReadType
  <1>5. mixed' \in BOOLEAN /\ (mixed' => pc = "decode" /\ mtime <= newest')
    BY <1>1, MixedRead
  <1>6. BgpTypeOK'
    BY <1>1, <1>2, <1>4, <1>5 DEF BgpTypeOK
  <1>7. pc \in {"read", "decode"} => mtime <= Opened'.mtime
    BY <1>1, <1>3, <1>6 DEF MtimesGrow, Opened, BgpTypeOK, File
  <1>8. Loaded => current.mtime <= newest'
    BY <1>4, TableTime DEF MtimesGrow, BgpTypeOK
  <1>9. fd = "gone" /\ Whole(old) => old.mtime <= newest'
    BY <1>4 DEF MtimesGrow, BgpTypeOK, File, Whole
  <1>10. MtimesGrow'
    BY <1>1, <1>2, <1>5, <1>6, <1>7, <1>8, <1>9 DEF MtimesGrow, Loaded, Whole, BgpTypeOK
  <1>11. NothingHidden'
    BY <1>2 DEF NothingHidden, Whole
  <1> QED  BY <1>6, <1>10, <1>11

LEMMA RewriteStep ==
    ASSUME TableInv, NEW c \in Contents, Rewrite(c) PROVE TableInv'
  <1> USE DEF TableInv
  <1>1. /\ disk # None /\ disk' = [mtime |-> clock, content |-> c]
        /\ mixed' = (mixed \/ PartRead)
        /\ newest' = (IF clock > LatestRead THEN clock ELSE LatestRead)
        /\ backdated' = (clock <= LatestRead)
        /\ UNCHANGED <<clock, fd, old, pc, mtime, current>>
    BY DEF Rewrite, Appears, Later
  <1>2. /\ disk' \in File /\ disk' # None /\ disk'.mtime = clock /\ disk'.content = c
        /\ c # Torn
    BY <1>1, DecodedIsFile, ContentsAssumption, RoutesAssumption DEF BgpTypeOK
  <1>3. disk.mtime <= clock /\ clock \in 0 .. MaxTime /\ newest \in -1 .. MaxTime
    <2>1. disk.mtime <= clock
      BY <1>1 DEF MtimesGrow
    <2> QED  BY <2>1 DEF BgpTypeOK
  <1>4. LatestRead \in -1 .. MaxTime /\ newest <= LatestRead
    BY LatestReadType
  <1>5. newest' >= LatestRead /\ newest' >= newest /\ newest' >= clock /\ newest' \in -1 .. MaxTime
    BY <1>1, <1>3, <1>4
  <1>6. mixed' \in BOOLEAN /\ (mixed' => pc = "decode" /\ mtime <= LatestRead)
    BY <1>1, MixedRead
  <1>7. ASSUME ~backdated' PROVE clock > LatestRead
    <2>1. ~(clock <= LatestRead)
      BY <1>1, <1>7, Zenon
    <2> QED  BY <2>1, <1>3, <1>4
  <1>8. BgpTypeOK'
    BY <1>1, <1>2, <1>5, <1>6 DEF BgpTypeOK
  <1>9. pc \in {"read", "decode"} => mtime <= Opened'.mtime
    BY <1>1, <1>2, <1>3, <1>8 DEF MtimesGrow, Opened, BgpTypeOK, File
  <1>10. fd = "gone" /\ Whole(old) =>
            old.mtime <= newest' /\ (~backdated' => old.mtime < disk'.mtime)
    <2> SUFFICES ASSUME fd = "gone", Whole(old)
                 PROVE  old.mtime <= newest' /\ (~backdated' => old.mtime < clock)
      BY <1>2
    <2>1. old.mtime \in 0 .. MaxTime /\ old.mtime <= newest
      BY DEF BgpTypeOK, File, Whole, MtimesGrow
    <2>2. old.mtime <= newest'
      BY <2>1, <1>3, <1>5
    <2>3. ASSUME ~backdated' PROVE old.mtime < clock
      BY <2>1, <2>3, <1>3, <1>4, <1>7
    <2> QED  BY <2>2, <2>3
  <1>11. mixed' => mtime <= newest' /\ (~backdated' => mtime < disk'.mtime)
    <2> SUFFICES ASSUME mixed'
                 PROVE  mtime <= newest' /\ (~backdated' => mtime < clock)
      BY <1>2
    <2>1. mtime \in 0 .. MaxTime /\ mtime <= LatestRead
      BY <1>6 DEF BgpTypeOK
    <2>2. mtime <= newest'
      BY <2>1, <1>4, <1>5
    <2>3. ASSUME ~backdated' PROVE mtime < clock
      BY <2>1, <2>3, <1>3, <1>4, <1>7
    <2> QED  BY <2>2, <2>3
  <1>12. Loaded => current.mtime \in 0 .. MaxTime /\ current.mtime <= newest
    BY TableTime DEF MtimesGrow
  <1>13. Loaded => current.mtime <= newest'
    BY <1>3, <1>5, <1>12
  <1>14. MtimesGrow'
    BY <1>1, <1>2, <1>3, <1>5, <1>9, <1>10, <1>11, <1>13 DEF MtimesGrow, Loaded, Whole
  <1>15. NothingHidden'
    <2>1. ASSUME ~backdated', Loaded PROVE clock > current.mtime
      BY <2>1, <1>3, <1>4, <1>7, <1>12
    <2> QED  BY <2>1, <1>1, <1>2 DEF NothingHidden, Loaded
  <1> QED  BY <1>8, <1>14, <1>15

LEMMA BgpTickStep == ASSUME TableInv, BgpTick PROVE TableInv'
  <1> USE DEF TableInv, BgpTick, loadVars
  <1>1. BgpTypeOK'
    <2>1. clock' \in 0 .. MaxTime
      BY MaxTimeAssumption DEF BgpTypeOK
    <2> QED  BY <2>1 DEF BgpTypeOK
  <1>2. MtimesGrow'
    BY DEF BgpTypeOK, File, MtimesGrow, Opened, Loaded, Whole
  <1>3. NothingHidden'
    BY DEF NothingHidden, Loaded
  <1> QED  BY <1>1, <1>2, <1>3

-----------------------------------------------------------------------------
(***************************************************************************)
(* The poll and the load.                                                  *)
(***************************************************************************)
LEMMA PollStep == ASSUME TableInv, Poll PROVE TableInv'
  <1> USE DEF TableInv, Poll
  <1>1. BgpTypeOK' /\ NothingHidden'
    BY DEF BgpTypeOK, NothingHidden, Loaded
  <1>2. MtimesGrow'
    BY DEF MtimesGrow, Loaded, Whole
  <1> QED  BY <1>1, <1>2

LEMMA OpenStep == ASSUME TableInv, Open PROVE TableInv'
  <1> USE DEF TableInv, Open
  <1>1. BgpTypeOK' /\ NothingHidden'
    BY DEF BgpTypeOK, NothingHidden, Loaded
  <1>2. MtimesGrow'
    BY DEF MtimesGrow, Loaded, Whole
  <1> QED  BY <1>1, <1>2

LEMMA OpenedIsFile ==
    ASSUME BgpTypeOK, MtimesGrow, fd # "closed" PROVE Opened \in File
  BY DEF BgpTypeOK, MtimesGrow, Opened

LEMMA StatStep == ASSUME TableInv, Stat PROVE TableInv'
  <1> USE DEF TableInv, Stat
  <1>1. Opened \in File
    BY OpenedIsFile DEF MtimesGrow
  <1>2. mtime' = Opened.mtime /\ mtime' \in 0 .. MaxTime /\ Opened' = Opened
    BY <1>1 DEF File, Opened
  <1>3. BgpTypeOK' /\ NothingHidden'
    BY <1>2 DEF BgpTypeOK, NothingHidden, Loaded
  <1>4. ~mixed'
    BY DEF BgpTypeOK
  <1>5. /\ UNCHANGED <<clock, disk, fd, old, current, newest, backdated>>
        /\ pc' = "read" /\ fd # "closed"
    BY DEF MtimesGrow
  <1>6. mtime' <= Opened'.mtime
    BY <1>1, <1>2 DEF File
  <1>7. MtimesGrow'
    BY <1>4, <1>5, <1>6 DEF MtimesGrow, Loaded, Whole
  <1> QED  BY <1>3, <1>7

LEMMA FirstReadStep == ASSUME TableInv, FirstRead PROVE TableInv'
  <1> USE DEF TableInv, FirstRead
  <1>1. BgpTypeOK' /\ NothingHidden'
    BY DEF BgpTypeOK, NothingHidden, Loaded
  <1>2. MtimesGrow'
    BY DEF MtimesGrow, Opened, Loaded, Whole
  <1> QED  BY <1>1, <1>2

\* The end of a load, whatever became of the table.
LEMMA CloseType ==
    ASSUME BgpTypeOK, Close, UNCHANGED <<clock, disk, newest, backdated>>,
           current' \in [mtime : 0 .. MaxTime, content : Decodable] \cup {None}
    PROVE  BgpTypeOK'
  <1>1. /\ fd' = "closed" /\ old' = None /\ pc' = "idle" /\ mtime' = 0
        /\ mixed' \in BOOLEAN /\ ~mixed'
    BY DEF Close
  <1>2. backdated' \in BOOLEAN
    BY DEF BgpTypeOK
  <1>3. mtime' \in 0 .. MaxTime
    BY <1>1, MaxTimeAssumption
  <1> QED  BY <1>1, <1>2, <1>3 DEF BgpTypeOK

\* The table of a file that nobody wrote while it was read.
LEMMA DecodeStep == ASSUME TableInv, Decode PROVE TableInv'
  <1> USE DEF TableInv
  <1>1. /\ fd # "closed" /\ Opened \in File /\ Opened.content \in Contents
        /\ Opened # None /\ mtime <= Opened.mtime
    BY OpenedIsFile, FileIsSomething DEF Decode, MtimesGrow, File
  <1>2. /\ current' = [mtime |-> mtime, content |-> Opened.content]
        /\ current'.mtime = mtime /\ current'.content = Opened.content
    BY DEF Decode
  <1>3. /\ fd' = "closed" /\ old' = None /\ pc' = "idle" /\ mtime' = 0 /\ mixed' = FALSE
        /\ UNCHANGED <<clock, disk, newest, backdated>>
    BY DEF Decode, Close
  <1>4. BgpTypeOK'
    <2>1. mtime \in 0 .. MaxTime /\ Opened.content \in Decodable
      BY <1>1, RoutesAssumption DEF BgpTypeOK
    <2>2. current' \in [mtime : 0 .. MaxTime, content : Decodable]
      BY <1>2, <2>1
    <2> QED  BY <1>3, <2>2, CloseType DEF Decode
  <1>5. Opened.mtime <= newest
    BY <1>1 DEF Decode, MtimesGrow, Opened, Whole, BgpTypeOK
  <1>6. mtime <= newest
    BY <1>1, <1>5 DEF File, BgpTypeOK
  <1>7. MtimesGrow'
    BY <1>2, <1>3, <1>6 DEF MtimesGrow, Loaded, Whole
  <1>8. ASSUME disk # None, disk.content # Torn, ~backdated
        PROVE  disk.content = current'.content \/ disk.mtime > current'.mtime
    <2>1. CASE fd = "path"
      BY <1>2, <2>1 DEF Opened
    <2>2. CASE fd = "gone"
      <3>1. Whole(old) /\ Whole(disk) /\ old = Opened
        BY <1>1, <1>8, <2>2 DEF Whole, Opened, Decode
      <3>2. Opened.mtime < disk.mtime
        BY <1>8, <2>2, <3>1 DEF MtimesGrow
      <3> QED  BY <1>1, <1>2, <1>8, <3>2 DEF File, BgpTypeOK
    <2> QED  BY <1>1, <2>1, <2>2 DEF BgpTypeOK
  <1>9. NothingHidden'
    BY <1>3, <1>8 DEF NothingHidden
  <1> QED  BY <1>4, <1>7, <1>9

\* Whatever the table of a file that was written meanwhile holds, its mtime is
\* that of before.
LEMMA DecodeMixedStep == ASSUME TableInv, DecodeMixed PROVE TableInv'
  <1> USE DEF TableInv
  <1>1. PICK c \in Decodable : current' = [mtime |-> mtime, content |-> c]
    BY DEF DecodeMixed
  <1>2. /\ mixed /\ current'.mtime = mtime /\ mtime \in 0 .. MaxTime
        /\ mtime <= newest /\ (Whole(disk) /\ ~backdated => mtime < disk.mtime)
    BY <1>1 DEF DecodeMixed, MtimesGrow, BgpTypeOK
  <1>3. /\ fd' = "closed" /\ old' = None /\ pc' = "idle" /\ mtime' = 0 /\ mixed' = FALSE
        /\ UNCHANGED <<clock, disk, newest, backdated>>
    BY DEF DecodeMixed, Close
  <1>4. BgpTypeOK'
    <2>1. current' \in [mtime : 0 .. MaxTime, content : Decodable]
      BY <1>1, <1>2
    <2> QED  BY <1>3, <2>1, CloseType DEF DecodeMixed
  <1>5. MtimesGrow'
    BY <1>2, <1>3 DEF MtimesGrow, Loaded, Whole
  <1>6. Whole(disk) => disk.mtime \in 0 .. MaxTime
    BY DEF Whole, BgpTypeOK, File
  <1>7. NothingHidden'
    BY <1>2, <1>3, <1>6 DEF NothingHidden, Whole
  <1> QED  BY <1>4, <1>5, <1>7

LEMMA LoadFailsStep == ASSUME TableInv, LoadFails PROVE TableInv'
  <1> USE DEF TableInv, LoadFails
  <1>1. BgpTypeOK'
    BY CloseType DEF BgpTypeOK
  <1>2. NothingHidden'
    BY DEF NothingHidden, Loaded
  <1>3. MtimesGrow'
    BY DEF MtimesGrow, Loaded, Whole, Close
  <1> QED  BY <1>1, <1>2, <1>3

LEMMA TableStep == TableInv /\ [BgpNext]_bgpVars => TableInv'
  <1> SUFFICES ASSUME TableInv, [BgpNext]_bgpVars PROVE TableInv'
    OBVIOUS
  <1>1. CASE Rename \/ Unlink \/ InPlace
    BY <1>1, ReplaceStep, RewriteStep, UnlinkStep, TruncateStep DEF Rename, InPlace
  <1>2. CASE BgpTick \/ Poll \/ Load
    BY <1>2, BgpTickStep, PollStep, OpenStep, StatStep, FirstReadStep, DecodeStep,
       DecodeMixedStep, LoadFailsStep DEF Load
  <1>3. CASE UNCHANGED bgpVars
    BY <1>3 DEF bgpVars, loadVars, TableInv, BgpTypeOK, MtimesGrow, NothingHidden, Opened,
                Loaded, Whole
  <1> QED  BY <1>1, <1>2, <1>3 DEF BgpNext, RenameNext

-----------------------------------------------------------------------------
(***************************************************************************)
(* The table of a file.                                                    *)
(***************************************************************************)
LEMMA UsableRoute == ASSUME NEW r \in Routes PROVE Usable(r) <=> r.prefix \in Prefix
  BY RoutesAssumption DEF Usable, Routes

Builds(built, content) ==
    /\ built[0] = EmptyTrie
    /\ \A n \in 1 .. Len(content) :
          built[n] = IF ~Usable(content[n]) THEN built[n - 1]
                     ELSE Insert(built[n - 1], content[n].prefix, content[n])
    /\ Table(content) = built[Len(content)]

LEMMA TableFunction ==
    ASSUME NEW content \in Seq(Routes)
    PROVE  \E built \in [0 .. Len(content) -> Tries(Routes)] : Builds(built, content)
  <1> DEFINE step == [n \in 1 .. Len(content) |->
                        [t \in Tries(Routes) |->
                           IF ~Usable(content[n]) THEN t
                           ELSE Insert(t, content[n].prefix, content[n])]]
             Eq(f) == f = [n \in 0 .. Len(content) |->
                              IF n = 0 THEN EmptyTrie
                              ELSE IF ~Usable(content[n]) THEN f[n - 1]
                              ELSE Insert(f[n - 1], content[n].prefix, content[n])]
             built == CHOOSE f : Eq(f)
  <1>1. Len(content) \in Nat /\ EmptyTrie \in Tries(Routes)
    BY EmptyTrieHolds
  <1>2. ASSUME NEW n \in 1 .. Len(content), NEW t \in Tries(Routes), Usable(content[n])
        PROVE  Insert(t, content[n].prefix, content[n]) \in Tries(Routes)
    BY <1>2, UsableRoute, InsertHolds
  <1>3. step \in [1 .. Len(content) -> [Tries(Routes) -> Tries(Routes)]]
    BY <1>2
  <1>4. PICK f : f \in Courses(Len(content), Tries(Routes), EmptyTrie, step)
    <2> HIDE DEF step
    <2> QED  BY <1>1, <1>3, Recursion
  <1>5. Eq(f)
    <2>1. f = [n \in 0 .. Len(content) |-> f[n]] /\ f[0] = EmptyTrie
      BY <1>4 DEF Courses
    <2>2. ASSUME NEW n \in 0 .. Len(content), n # 0
          PROVE  f[n] = IF ~Usable(content[n]) THEN f[n - 1]
                        ELSE Insert(f[n - 1], content[n].prefix, content[n])
      <3>1. n \in 1 .. Len(content) /\ n - 1 \in 0 .. Len(content)
        BY <1>1, <2>2
      <3>2. f[n - 1] \in Tries(Routes) /\ f[n] = step[n][f[n - 1]]
        BY <1>4, <3>1 DEF Courses
      <3> QED  BY <3>1, <3>2
    <2> QED  BY <2>1, <2>2
  <1>6. Eq(built)
    <2> HIDE DEF Eq
    <2> QED  BY <1>5
  <1>7. Table(content) = built[Len(content)]
    BY DEF Table
  <1>8. built[0] = EmptyTrie
    <2> HIDE DEF built
    <2> QED  BY <1>1, <1>6
  <1>9. ASSUME NEW n \in 1 .. Len(content)
        PROVE  built[n] = IF ~Usable(content[n]) THEN built[n - 1]
                          ELSE Insert(built[n - 1], content[n].prefix, content[n])
    <2>1. n \in 0 .. Len(content) /\ n # 0
      BY <1>1
    <2> HIDE DEF built
    <2> QED  BY <1>6, <2>1
  <1>10. built \in [0 .. Len(content) -> Tries(Routes)]
    <2> HIDE DEF built
    <2> DEFINE Typed == {n \in 0 .. Len(content) : built[n] \in Tries(Routes)}
    <2>1. 0 \in Typed
      <3>1. 0 \in 0 .. Len(content) /\ built[0] \in Tries(Routes)
        BY <1>1, <1>8
      <3> QED  BY <3>1
    <2>2. ASSUME NEW n \in 1 .. Len(content), n - 1 \in Typed PROVE n \in Typed
      <3>1. built[n - 1] \in Tries(Routes) /\ n \in 0 .. Len(content)
        BY <1>1, <2>2
      <3>2. built[n] \in Tries(Routes)
        BY <1>2, <1>9, <3>1
      <3> QED  BY <3>1, <3>2
    <2>3. \A n \in 0 .. Len(content) : n \in Typed
      <3> HIDE DEF Typed
      <3> QED  BY <1>1, <2>1, <2>2, UpTo
    <2> QED  BY <1>6, <2>3
  <1> HIDE DEF built
  <1> QED  BY <1>7, <1>8, <1>9, <1>10 DEF Builds

LEMMA TableEmpty == Table(<<>>) = EmptyTrie
  <1>1. PICK built \in [0 .. Len(<<>>) -> Tries(Routes)] : Builds(built, <<>>)
    <2>1. <<>> \in Seq(Routes)
      OBVIOUS
    <2> QED  BY <2>1, TableFunction
  <1> QED  BY <1>1 DEF Builds

LEMMA TableAppend ==
    ASSUME NEW s \in Seq(Routes), NEW x \in Routes
    PROVE  /\ Table(s) \in Tries(Routes)
           /\ Table(Append(s, x)) =
                 IF Usable(x) THEN Insert(Table(s), x.prefix, x) ELSE Table(s)
  <1> DEFINE t == Append(s, x)
  <1>1. t \in Seq(Routes) /\ Len(t) = Len(s) + 1 /\ Len(s) \in Nat /\ t[Len(t)] = x
    OBVIOUS
  <1>2. ASSUME NEW n \in 1 .. Len(s) PROVE t[n] = s[n] /\ n \in 1 .. Len(t)
    OBVIOUS
  <1>3. PICK f \in [0 .. Len(s) -> Tries(Routes)] : Builds(f, s)
    BY TableFunction
  <1> HIDE DEF t
  <1>4. PICK g \in [0 .. Len(t) -> Tries(Routes)] : Builds(g, t)
    BY <1>1, TableFunction
  <1> DEFINE Same == {n \in 0 .. Len(s) : f[n] = g[n]}
  <1>5. 0 \in Same /\ \A n \in 1 .. Len(s) : n - 1 \in Same => n \in Same
    BY <1>1, <1>2, <1>3, <1>4 DEF Builds
  <1>6. f[Len(s)] = g[Len(s)]
    <2>1. \A n \in 0 .. Len(s) : n \in Same
      <3> HIDE DEF Same
      <3> QED  BY <1>1, <1>5, UpTo
    <2> QED  BY <1>1, <2>1
  <1>7. g[Len(t)] = IF Usable(x) THEN Insert(g[Len(s)], x.prefix, x) ELSE g[Len(s)]
    <2>1. Len(t) \in 1 .. Len(t) /\ Len(t) - 1 = Len(s)
      BY <1>1
    <2> QED  BY <1>1, <1>4, <2>1 DEF Builds
  <1>8. Table(s) \in Tries(Routes)
    BY <1>1, <1>3 DEF Builds
  <1> QED  BY <1>3, <1>4, <1>6, <1>7, <1>8 DEF t, Builds

\* The trie holds at each prefix the routes of that prefix, in their order.
LEMMA TableHolds ==
    ASSUME NEW content \in Seq(Routes)
    PROVE  /\ Table(content) \in Tries(Routes)
           /\ \A p \in Prefix : At(Table(content), p) = RoutesOf(content, p)
  <1> DEFINE T == {s \in Seq(Routes) :
                     /\ Table(s) \in Tries(Routes)
                     /\ \A p \in Prefix : At(Table(s), p) = RoutesOf(s, p)}
  <1>1. <<>> \in T
    <2>1. <<>> \in Seq(Routes)
      OBVIOUS
    <2> QED  BY <2>1, TableEmpty, EmptyTrieHolds, OnlyEmpty DEF RoutesOf
  <1>2. ASSUME NEW s \in Seq(Routes), NEW x \in Routes, s \in T PROVE Append(s, x) \in T
    <2> DEFINE t == Append(s, x)
    <2>1. /\ t \in Seq(Routes) /\ Table(s) \in Tries(Routes)
          /\ Table(t) = IF Usable(x) THEN Insert(Table(s), x.prefix, x) ELSE Table(s)
      BY TableAppend
    <2>2. \A p \in Prefix : At(Table(s), p) = RoutesOf(s, p)
      BY <1>2
    <2>3. \A p \in Prefix :
             RoutesOf(t, p) = IF x.prefix = p THEN Append(RoutesOf(s, p), x) ELSE RoutesOf(s, p)
      BY OnlyAppend DEF RoutesOf
    <2> HIDE DEF t
    <2>4. CASE Usable(x)
      <3>1. x.prefix \in Prefix
        BY <2>4, UsableRoute
      <3>2. Table(t) \in Tries(Routes)
        BY <2>1, <2>4, <3>1, InsertHolds
      <3>3. \A p \in Prefix : At(Table(t), p) =
               IF p = x.prefix THEN Append(At(Table(s), p), x) ELSE At(Table(s), p)
        <4>1. Table(t) = Insert(Table(s), x.prefix, x)
          BY <2>1, <2>4
        <4>2. /\ At(Insert(Table(s), x.prefix, x), x.prefix) = Append(At(Table(s), x.prefix), x)
              /\ \A q \in Prefix : q # x.prefix =>
                    At(Insert(Table(s), x.prefix, x), q) = At(Table(s), q)
          BY <2>1, <3>1, InsertHolds
        <4> QED  BY <4>1, <4>2
      <3> QED  BY <2>1, <2>2, <2>3, <3>2, <3>3 DEF t
    <2>5. CASE ~Usable(x)
      <3>1. x.prefix \notin Prefix
        BY <2>5, UsableRoute
      <3> QED  BY <2>1, <2>2, <2>3, <2>5, <3>1 DEF t
    <2> QED  BY <2>4, <2>5
  <1>3. Seq(Routes) \subseteq T
    <2> HIDE DEF T
    <2> QED  BY <1>1, <1>2, Sequences
  <1> QED  BY <1>3

\* The same two steps for the index: a list for each AS.
Lists(list, content, asn) ==
    /\ list[0] = <<>>
    /\ \A n \in 1 .. Len(content) :
          list[n] = IF Usable(content[n]) /\ OnPath(asn, content[n])
                    THEN Append(list[n - 1], content[n]) ELSE list[n - 1]
    /\ ByASN(content, asn) = list[Len(content)]

LEMMA ByASNFunction ==
    ASSUME NEW content \in Seq(Routes), NEW asn
    PROVE  \E list \in [0 .. Len(content) -> Seq(Routes)] : Lists(list, content, asn)
  <1> DEFINE On(n) == Usable(content[n]) /\ OnPath(asn, content[n])
             step == [n \in 1 .. Len(content) |->
                        [t \in Seq(Routes) |-> IF On(n) THEN Append(t, content[n]) ELSE t]]
             Eq(f) == f = [n \in 0 .. Len(content) |->
                              IF n = 0 THEN <<>>
                              ELSE IF On(n) THEN Append(f[n - 1], content[n]) ELSE f[n - 1]]
             list == CHOOSE f : Eq(f)
  <1>1. Len(content) \in Nat /\ <<>> \in Seq(Routes)
    OBVIOUS
  <1>2. step \in [1 .. Len(content) -> [Seq(Routes) -> Seq(Routes)]]
    OBVIOUS
  <1>3. PICK f : f \in Courses(Len(content), Seq(Routes), <<>>, step)
    <2> HIDE DEF step
    <2> QED  BY <1>1, <1>2, Recursion
  <1>4. list[0] = list[0] /\ ByASN(content, asn) = list[Len(content)]
    BY DEF ByASN
  <1> HIDE DEF On
  <1>5. Eq(f)
    <2>1. f = [n \in 0 .. Len(content) |-> f[n]] /\ f[0] = <<>>
      BY <1>3 DEF Courses
    <2>2. ASSUME NEW n \in 0 .. Len(content), n # 0
          PROVE  f[n] = IF On(n) THEN Append(f[n - 1], content[n]) ELSE f[n - 1]
      <3>1. n \in 1 .. Len(content) /\ n - 1 \in 0 .. Len(content)
        BY <1>1, <2>2
      <3>2. f[n - 1] \in Seq(Routes) /\ f[n] = step[n][f[n - 1]]
        BY <1>3, <3>1 DEF Courses
      <3> QED  BY <3>1, <3>2
    <2> QED  BY <2>1, <2>2
  <1>6. Eq(list)
    <2> HIDE DEF Eq
    <2> QED  BY <1>5
  <1>7. list[0] = <<>>
    <2> HIDE DEF list
    <2> QED  BY <1>1, <1>6
  <1>8. ASSUME NEW n \in 1 .. Len(content)
        PROVE  list[n] = IF On(n) THEN Append(list[n - 1], content[n]) ELSE list[n - 1]
    <2>1. n \in 0 .. Len(content) /\ n # 0
      BY <1>1
    <2> HIDE DEF list
    <2> QED  BY <1>6, <2>1
  <1>9. list \in [0 .. Len(content) -> Seq(Routes)]
    <2> HIDE DEF list
    <2> DEFINE Typed == {n \in 0 .. Len(content) : list[n] \in Seq(Routes)}
    <2>1. 0 \in Typed
      <3>1. 0 \in 0 .. Len(content) /\ list[0] \in Seq(Routes)
        BY <1>1, <1>7
      <3> QED  BY <3>1
    <2>2. ASSUME NEW n \in 1 .. Len(content), n - 1 \in Typed PROVE n \in Typed
      <3>1. list[n - 1] \in Seq(Routes) /\ n \in 0 .. Len(content) /\ content[n] \in Routes
        BY <1>1, <2>2
      <3>2. list[n] = list[n - 1] \/ list[n] = Append(list[n - 1], content[n])
        BY <1>8
      <3>3. Append(list[n - 1], content[n]) \in Seq(Routes)
        BY <3>1
      <3>4. list[n] \in Seq(Routes)
        BY <3>1, <3>2, <3>3
      <3> QED  BY <3>1, <3>4
    <2>3. \A n \in 0 .. Len(content) : n \in Typed
      <3> HIDE DEF Typed
      <3> QED  BY <1>1, <2>1, <2>2, UpTo
    <2> QED  BY <1>6, <2>3
  <1> HIDE DEF list
  <1> QED  BY <1>4, <1>7, <1>8, <1>9 DEF Lists, On

LEMMA ByASNEmpty == ASSUME NEW asn PROVE ByASN(<<>>, asn) = <<>>
  <1>1. PICK list \in [0 .. Len(<<>>) -> Seq(Routes)] : Lists(list, <<>>, asn)
    <2>1. <<>> \in Seq(Routes)
      OBVIOUS
    <2> QED  BY <2>1, ByASNFunction
  <1> QED  BY <1>1 DEF Lists

LEMMA ByASNAppend ==
    ASSUME NEW s \in Seq(Routes), NEW x \in Routes, NEW asn
    PROVE  ByASN(Append(s, x), asn) =
             IF Usable(x) /\ OnPath(asn, x) THEN Append(ByASN(s, asn), x) ELSE ByASN(s, asn)
  <1> DEFINE t == Append(s, x)
  <1>1. t \in Seq(Routes) /\ Len(t) = Len(s) + 1 /\ Len(s) \in Nat /\ t[Len(t)] = x
    OBVIOUS
  <1>2. ASSUME NEW n \in 1 .. Len(s) PROVE t[n] = s[n] /\ n \in 1 .. Len(t)
    OBVIOUS
  <1>3. PICK f \in [0 .. Len(s) -> Seq(Routes)] : Lists(f, s, asn)
    BY ByASNFunction
  <1> HIDE DEF t
  <1>4. PICK g \in [0 .. Len(t) -> Seq(Routes)] : Lists(g, t, asn)
    BY <1>1, ByASNFunction
  <1> DEFINE Same == {n \in 0 .. Len(s) : f[n] = g[n]}
  <1>5. 0 \in Same /\ \A n \in 1 .. Len(s) : n - 1 \in Same => n \in Same
    BY <1>1, <1>2, <1>3, <1>4 DEF Lists
  <1>6. f[Len(s)] = g[Len(s)]
    <2>1. \A n \in 0 .. Len(s) : n \in Same
      <3> HIDE DEF Same
      <3> QED  BY <1>1, <1>5, UpTo
    <2> QED  BY <1>1, <2>1
  <1>7. g[Len(t)] = IF Usable(x) /\ OnPath(asn, x) THEN Append(g[Len(s)], x) ELSE g[Len(s)]
    <2>1. Len(t) \in 1 .. Len(t) /\ Len(t) - 1 = Len(s)
      BY <1>1
    <2> QED  BY <1>1, <1>4, <2>1 DEF Lists
  <1> QED  BY <1>3, <1>4, <1>6, <1>7 DEF t, Lists

\* The index lists under each AS the routes through it, in their order.
LEMMA ByASNHolds ==
    ASSUME NEW content \in Seq(Routes), NEW asn
    PROVE  ByASN(content, asn) = RoutesThrough(content, asn)
  <1> DEFINE T == {s \in Seq(Routes) : ByASN(s, asn) = RoutesThrough(s, asn)}
  <1>1. <<>> \in T
    <2>1. <<>> \in Seq(Routes)
      OBVIOUS
    <2> QED  BY <2>1, ByASNEmpty, OnlyEmpty DEF RoutesThrough
  <1>2. ASSUME NEW s \in Seq(Routes), NEW x \in Routes, s \in T PROVE Append(s, x) \in T
    <2>1. RoutesThrough(Append(s, x), asn) =
             IF Usable(x) /\ OnPath(asn, x)
             THEN Append(RoutesThrough(s, asn), x) ELSE RoutesThrough(s, asn)
      <3>1. PICK S : S = {r \in Routes : Usable(r) /\ OnPath(asn, r)}
        OBVIOUS
      <3>2. RoutesThrough(s, asn) = Only(s, S)
            /\ RoutesThrough(Append(s, x), asn) = Only(Append(s, x), S)
        BY <3>1 DEF RoutesThrough
      <3>3. x \in S <=> Usable(x) /\ OnPath(asn, x)
        BY <3>1
      <3>4. Only(Append(s, x), S) = IF x \in S THEN Append(Only(s, S), x) ELSE Only(s, S)
        BY OnlyAppend
      <3> QED  BY ONLY <3>2, <3>3, <3>4
    <2>2. ByASN(Append(s, x), asn) =
             IF Usable(x) /\ OnPath(asn, x) THEN Append(ByASN(s, asn), x) ELSE ByASN(s, asn)
      BY ByASNAppend
    <2>3. Append(s, x) \in Seq(Routes)
      OBVIOUS
    <2>4. ByASN(s, asn) = RoutesThrough(s, asn)
      BY <1>2
    <2>5. ByASN(Append(s, x), asn) = RoutesThrough(Append(s, x), asn)
      BY ONLY <2>1, <2>2, <2>4
    <2> QED  BY <2>3, <2>5
  <1>3. Seq(Routes) \subseteq T
    <2> HIDE DEF T
    <2> QED  BY <1>1, <1>2, Sequences
  <1> QED  BY <1>3

LEMMA RoutesOfPrefix ==
    ASSUME NEW content \in Seq(Routes), NEW p
    PROVE  /\ RoutesOf(content, p) \in Seq(Routes)
           /\ \A k \in DOMAIN RoutesOf(content, p) : RoutesOf(content, p)[k].prefix = p
  BY OnlyElements DEF RoutesOf

\* LookupIP is longest-prefix match.
LEMMA LookupIPHolds ==
    ASSUME NEW c \in Decodable, NEW ip \in Address, current.content = c
    PROVE  LookupIP(ip) = RoutesMeant[c][ip]
  <1> DEFINE t == Table(c)
             routes == LongestPrefix(t, ip)
             matching == {p \in Prefix : Covers(p, ip) /\ RoutesOf(c, p) # <<>>}
             Longest(p) == \A q \in matching : Len(q) <= Len(p)
             best == CHOOSE p \in matching : Longest(p)
  <1>1. c \in Seq(Routes) /\ Tables[c] = t
    BY RoutesAssumption DEF Tables
  <1>2. t \in Tries(Routes) /\ \A p \in Prefix : At(t, p) = RoutesOf(c, p)
    BY <1>1, TableHolds
  <1>3. RoutesMeant[c][ip] = IF matching \subseteq {<<>>} THEN <<>> ELSE RoutesOf(c, best)
    BY DEF RoutesMeant
  <1>4. LookupIP(ip) = IF \E k \in DOMAIN routes : routes[k].prefix = <<>> THEN <<>> ELSE routes
    BY <1>1 DEF LookupIP
  <1>5. \A p \in matching :
           Len(p) \in 0 .. Width /\ p = First(ip, Len(p)) /\ At(t, First(ip, Len(p))) # <<>>
    BY <1>2, CoversFirst, PrefixLength
  <1>6. ASSUME NEW n \in 0 .. Width
        PROVE  First(ip, n) \in Prefix /\ Len(First(ip, n)) = n /\ Covers(First(ip, n), ip)
    BY AddressIsPrefix, FirstIsPrefix, CoversFirst
  <1> HIDE DEF t, routes
  <1>7. CASE routes = <<>> /\ \A n \in 0 .. Width : At(t, First(ip, n)) = <<>>
    <2>1. matching = {}
      BY <1>5, <1>7
    <2> QED  BY <1>3, <1>4, <1>7, <2>1
  <1>8. CASE \E n \in 0 .. Width :
               /\ At(t, First(ip, n)) # <<>>
               /\ routes = At(t, First(ip, n))
               /\ \A m \in 0 .. Width : At(t, First(ip, m)) # <<>> => m <= n
    <2>1. PICK n \in 0 .. Width :
               /\ At(t, First(ip, n)) # <<>>
               /\ routes = At(t, First(ip, n))
               /\ \A m \in 0 .. Width : At(t, First(ip, m)) # <<>> => m <= n
      BY <1>8
    <2> DEFINE p == First(ip, n)
    <2>2. /\ p \in Prefix /\ Len(p) = n /\ routes = RoutesOf(c, p) /\ routes # <<>>
          /\ Covers(p, ip)
      BY <1>2, <1>6, <2>1
    <2>3. p \in matching
      BY <2>2
    <2>4. Longest(p)
      BY <1>5, <2>1, <2>2
    <2>5. \A q \in matching : Longest(q) => q = p
      <3> SUFFICES ASSUME NEW q \in matching, Longest(q) PROVE q = p
        OBVIOUS
      <3>1. Len(q) <= Len(p) /\ Len(p) <= Len(q) /\ Len(q) \in 0 .. Width
        BY <1>5, <2>3, <2>4
      <3> QED  BY <1>5, <2>2, <3>1
    <2>6. best = p
      <3> HIDE DEF p, matching
      <3> QED  BY <2>3, <2>4, <2>5
    <2>7. routes \in Seq(Routes) /\ \A k \in DOMAIN routes : routes[k].prefix = p
      BY <1>1, <2>2, RoutesOfPrefix
    <2>8. \E k \in DOMAIN routes : routes[k].prefix = p
      <3>1. 1 \in DOMAIN routes
        BY <2>2, <2>7
      <3> QED  BY <2>7, <3>1
    <2>9. CASE p = <<>>
      <3>1. matching \subseteq {<<>>}
        <4> SUFFICES ASSUME NEW q \in matching PROVE q = <<>>
          OBVIOUS
        <4>1. Len(q) <= 0 /\ Len(q) \in Nat /\ q \in Seq({0, 1})
          BY <2>4, <2>9, PrefixLength
        <4> QED  BY <4>1
      <3> QED  BY <1>3, <1>4, <2>8, <2>9, <3>1
    <2>10. CASE p # <<>>
      <3>1. ~(matching \subseteq {<<>>})
        BY <2>3, <2>10
      <3>2. LookupIP(ip) = routes
        BY <1>4, <2>7, <2>10
      <3> QED  BY <1>3, <2>2, <2>6, <3>1, <3>2
    <2> QED  BY <2>9, <2>10
  <1> QED  BY <1>2, <1>7, <1>8, LongestPrefixHolds DEF routes

LEMMA RoutesGivenHolds == BgpTypeOK => RoutesGiven
  <1> SUFFICES ASSUME BgpTypeOK, Loaded PROVE RoutesGiven
    BY DEF RoutesGiven
  <1> DEFINE c == current.content
  <1>1. c \in Decodable /\ c \in Seq(Routes)
    BY RoutesAssumption DEF BgpTypeOK, Loaded
  <1>2. \A ip \in Address : LookupIP(ip) = RoutesMeant[c][ip]
    BY <1>1, LookupIPHolds
  <1>3. ASSUME NEW asn \in ASN
        PROVE  LET through == RoutesThrough(c, asn)
               IN  LookupASN(asn) = SubSeq(through, 1,
                      IF Len(through) > MaxRoutes THEN MaxRoutes ELSE Len(through))
    <2> DEFINE through == RoutesThrough(c, asn)
    <2>1. Indexes[c][asn] = through
      BY <1>1, ByASNHolds DEF Indexes
    <2>2. through \in Seq(Routes)
      BY <1>1, OnlyElements DEF RoutesThrough
    <2>3. SubSeq(through, 1, Len(through)) = through
      <3> HIDE DEF through
      <3> QED  BY <2>2
    <2> QED  BY <2>1, <2>3 DEF LookupASN
  <1> QED  BY <1>2, <1>3 DEF RoutesGiven

-----------------------------------------------------------------------------
\* What is decoded is a table, never the torso of a file (store.go:82-84).
THEOREM BgpTypeCorrect == BgpSpec => []BgpTypeOK
  <1>1. TableInv => BgpTypeOK
    BY DEF TableInv
  <1> QED  BY <1>1, TableInit, TableStep, PTL DEF BgpSpec

\* Although load reads the file in pieces while it is replaced or removed, the
\* table is that of one whole file, if the writer renames as bgp-data.md:91 has
\* the converter do; of a writer in place this is not true.
THEOREM OnlyWholeTables == RenameSpec => []WholeTable
  <1> DEFINE Inv == TableInv /\ WholeTable /\ ~mixed
  <1>1. BgpInit => Inv
    BY TableInit DEF BgpInit, WholeTable, Loaded
  <1>2. Inv /\ [RenameNext]_bgpVars => Inv'
    <2> SUFFICES ASSUME TableInv, WholeTable, ~mixed, [RenameNext]_bgpVars
                 PROVE  TableInv' /\ WholeTable' /\ ~mixed'
      OBVIOUS
    <2>1. TableInv'
      BY TableStep DEF BgpNext
    <2>2. CASE Decode
      <3>1. Opened \in File
        BY <2>2, OpenedIsFile DEF TableInv, MtimesGrow, Decode
      <3>2. current'.content \in Contents /\ ~mixed'
        BY <2>2, <3>1 DEF Decode, Close, File
      <3> QED  BY <2>1, <3>2 DEF WholeTable
    <2>3. CASE Open \/ Stat \/ FirstRead \/ LoadFails \/ Poll
      BY <2>1, <2>3 DEF Open, Stat, FirstRead, LoadFails, Poll, Close, WholeTable, Loaded
    <2>4. CASE Rename \/ Unlink \/ BgpTick \/ UNCHANGED bgpVars
      BY <2>1, <2>4 DEF Rename, Replace, Unlink, BgpTick, bgpVars, loadVars, WholeTable, Loaded
    <2>5. ~DecodeMixed
      BY DEF DecodeMixed
    <2> QED  BY <2>2, <2>3, <2>4, <2>5 DEF RenameNext, Load
  <1>3. Inv => WholeTable
    OBVIOUS
  <1> HIDE DEF Inv
  <1> QED  BY <1>1, <1>2, <1>3, PTL DEF RenameSpec

\* The poll of store.go:59 sees every whole file that is not in use, unless it
\* appeared with an mtime no later than an earlier file's.
THEOREM PollSeesNewFiles == BgpSpec => []NothingHidden
  <1>1. TableInv => NothingHidden
    BY DEF TableInv
  <1> QED  BY <1>1, TableInit, TableStep, PTL DEF BgpSpec

\* "A failed reload preserves the old snapshot" (ARCHITECTURE.md:33).
THEOREM NeverWithout == BgpSpec => AlwaysServed
  <1>1. TableInv /\ [BgpNext]_bgpVars => [Loaded => Loaded']_bgpVars
    <2> SUFFICES ASSUME TableInv, BgpNext, Loaded PROVE Loaded'
      OBVIOUS
    <2>1. CASE Decode
      <3>1. Opened \in File /\ mtime \in 0 .. MaxTime
        BY <2>1, OpenedIsFile DEF TableInv, MtimesGrow, Decode, BgpTypeOK
      <3>2. Opened.content \in Contents \cup {Torn}
        BY <3>1 DEF File
      <3> QED  BY <2>1, <3>1, <3>2, DecodedIsFile DEF Decode, Loaded
    <2>2. CASE Rename \/ Unlink \/ InPlace \/ BgpTick
      BY <2>2 DEF Rename, InPlace, Replace, Rewrite, Unlink, Truncate, BgpTick, loadVars, Loaded
    <2>3. CASE Poll \/ Open \/ Stat \/ FirstRead \/ LoadFails
      BY <2>3 DEF Poll, Open, Stat, FirstRead, LoadFails, Loaded
    <2>4. CASE DecodeMixed
      <3>1. mtime \in 0 .. MaxTime
        BY DEF TableInv, BgpTypeOK
      <3> QED  BY <2>4, <3>1, TableIsSomething DEF DecodeMixed, Loaded
    <2> QED  BY <2>1, <2>2, <2>3, <2>4 DEF BgpNext, RenameNext, Load
  <1> QED  BY <1>1, TableInit, TableStep, PTL DEF BgpSpec, AlwaysServed

\* LookupIP (store.go:120-136, trie.go:30-48) is longest-prefix match over the
\* routes of the file in use, whatever these are and in whatever order they
\* came; LookupASN gives each route through the AS once, up to the cap.
THEOREM LongestPrefixMatch == BgpSpec => []RoutesGiven
  <1>1. TableInv => RoutesGiven
    BY RoutesGivenHolds DEF TableInv
  <1> QED  BY <1>1, TableInit, TableStep, PTL DEF BgpSpec
=============================================================================

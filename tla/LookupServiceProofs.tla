------------------------- MODULE LookupServiceProofs -------------------------
(***************************************************************************)
(* Proofs about LookupService, for every address width, any files of       *)
(* either database, however they are read, and any questions: that the     *)
(* GeoIP database is the file or nothing, what the databases answer, and   *)
(* that every answer IPInfo and BGP give is the one their reference        *)
(* definitions give for a table in use while the request ran.              *)
(***************************************************************************)
EXTENDS LookupService, BgpTableProofs, FiniteSetTheorems

-----------------------------------------------------------------------------
(***************************************************************************)
(* The database of a sequence of records.                                  *)
(***************************************************************************)
Kept == DOMAIN Record
Net(k) == Record[k].net

Grows(built, records) ==
    /\ built[0] = EmptyTrie
    /\ \A n \in 1 .. Len(records) :
          built[n] = Overwrite(built[n - 1], Net(records[n]), records[n])
    /\ GeoTrie(records) = built[Len(records)]

LEMMA GeoTrieFunction ==
    ASSUME NEW records \in Seq(Kept)
    PROVE  \E built \in [0 .. Len(records) -> Tries(Kept)] : Grows(built, records)
  <1> DEFINE step == [n \in 1 .. Len(records) |->
                        [t \in Tries(Kept) |-> Overwrite(t, Net(records[n]), records[n])]]
             Eq(f) == f = [n \in 0 .. Len(records) |->
                              IF n = 0 THEN EmptyTrie
                              ELSE Overwrite(f[n - 1], Net(records[n]), records[n])]
             built == CHOOSE f : Eq(f)
  <1>1. Len(records) \in Nat /\ EmptyTrie \in Tries(Kept)
    BY EmptyTrieHolds
  <1>2. ASSUME NEW n \in 1 .. Len(records), NEW t \in Tries(Kept)
        PROVE  Overwrite(t, Net(records[n]), records[n]) \in Tries(Kept)
    <2>1. records[n] \in Kept /\ Net(records[n]) \in Prefix
      BY FilesAssumption DEF Kept, Net
    <2> QED  BY <2>1, OverwriteHolds
  <1>3. step \in [1 .. Len(records) -> [Tries(Kept) -> Tries(Kept)]]
    BY <1>2
  <1>4. PICK f : f \in Courses(Len(records), Tries(Kept), EmptyTrie, step)
    <2> HIDE DEF step
    <2> QED  BY <1>1, <1>3, Recursion
  <1>5. Eq(f)
    <2>1. f = [n \in 0 .. Len(records) |-> f[n]] /\ f[0] = EmptyTrie
      BY <1>4 DEF Courses
    <2>2. ASSUME NEW n \in 0 .. Len(records), n # 0
          PROVE  f[n] = Overwrite(f[n - 1], Net(records[n]), records[n])
      <3>1. n \in 1 .. Len(records) /\ n - 1 \in 0 .. Len(records)
        BY <1>1, <2>2
      <3>2. f[n - 1] \in Tries(Kept) /\ f[n] = step[n][f[n - 1]]
        BY <1>4, <3>1 DEF Courses
      <3> QED  BY <3>1, <3>2
    <2> QED  BY <2>1, <2>2
  <1>6. Eq(built)
    <2> HIDE DEF Eq
    <2> QED  BY <1>5
  <1>7. GeoTrie(records) = built[Len(records)]
    BY DEF GeoTrie, Net
  <1>8. built[0] = EmptyTrie
    <2> HIDE DEF built
    <2> QED  BY <1>1, <1>6
  <1>9. ASSUME NEW n \in 1 .. Len(records)
        PROVE  built[n] = Overwrite(built[n - 1], Net(records[n]), records[n])
    <2>1. n \in 0 .. Len(records) /\ n # 0
      BY <1>1
    <2> HIDE DEF built
    <2> QED  BY <1>6, <2>1
  <1>10. built \in [0 .. Len(records) -> Tries(Kept)]
    <2> HIDE DEF built
    <2> DEFINE Typed == {n \in 0 .. Len(records) : built[n] \in Tries(Kept)}
    <2>1. 0 \in Typed
      <3>1. 0 \in 0 .. Len(records) /\ built[0] \in Tries(Kept)
        BY <1>1, <1>8
      <3> QED  BY <3>1
    <2>2. ASSUME NEW n \in 1 .. Len(records), n - 1 \in Typed PROVE n \in Typed
      <3>1. built[n - 1] \in Tries(Kept) /\ n \in 0 .. Len(records)
        BY <1>1, <2>2
      <3>2. built[n] \in Tries(Kept)
        BY <1>2, <1>9, <3>1
      <3> QED  BY <3>1, <3>2
    <2>3. \A n \in 0 .. Len(records) : n \in Typed
      <3> HIDE DEF Typed
      <3> QED  BY <1>1, <2>1, <2>2, UpTo
    <2> QED  BY <1>6, <2>3
  <1> HIDE DEF built
  <1> QED  BY <1>7, <1>8, <1>9, <1>10 DEF Grows

LEMMA GeoTrieEmpty == GeoTrie(<<>>) = EmptyTrie
  <1>1. PICK built \in [0 .. Len(<<>>) -> Tries(Kept)] : Grows(built, <<>>)
    <2>1. <<>> \in Seq(Kept)
      OBVIOUS
    <2> QED  BY <2>1, GeoTrieFunction
  <1> QED  BY <1>1 DEF Grows

LEMMA GeoTrieAppend ==
    ASSUME NEW s \in Seq(Kept), NEW x \in Kept
    PROVE  /\ GeoTrie(s) \in Tries(Kept)
           /\ GeoTrie(Append(s, x)) = Overwrite(GeoTrie(s), Net(x), x)
  <1> DEFINE t == Append(s, x)
  <1>1. t \in Seq(Kept) /\ Len(t) = Len(s) + 1 /\ Len(s) \in Nat /\ t[Len(t)] = x
    OBVIOUS
  <1>2. ASSUME NEW n \in 1 .. Len(s) PROVE t[n] = s[n] /\ n \in 1 .. Len(t)
    OBVIOUS
  <1>3. PICK f \in [0 .. Len(s) -> Tries(Kept)] : Grows(f, s)
    BY GeoTrieFunction
  <1> HIDE DEF t
  <1>4. PICK g \in [0 .. Len(t) -> Tries(Kept)] : Grows(g, t)
    BY <1>1, GeoTrieFunction
  <1> DEFINE Same == {n \in 0 .. Len(s) : f[n] = g[n]}
  <1>5. 0 \in Same /\ \A n \in 1 .. Len(s) : n - 1 \in Same => n \in Same
    BY <1>1, <1>2, <1>3, <1>4 DEF Grows
  <1>6. f[Len(s)] = g[Len(s)]
    <2>1. \A n \in 0 .. Len(s) : n \in Same
      <3> HIDE DEF Same
      <3> QED  BY <1>1, <1>5, UpTo
    <2> QED  BY <1>1, <2>1
  <1>7. g[Len(t)] = Overwrite(g[Len(s)], Net(x), x)
    <2>1. Len(t) \in 1 .. Len(t) /\ Len(t) - 1 = Len(s)
      BY <1>1
    <2> QED  BY <1>1, <1>4, <2>1 DEF Grows
  <1>8. GeoTrie(s) \in Tries(Kept)
    BY <1>1, <1>3 DEF Grows
  <1> QED  BY <1>3, <1>4, <1>6, <1>7, <1>8 DEF t, Grows

\* The last record of a network, as the trie should hold it.
IsLast(s, n, p) == Net(s[n]) = p /\ \A m \in DOMAIN s : Net(s[m]) = p => m <= n
HoldsLast(here, s, p) ==
    \/ here = <<>> /\ \A n \in DOMAIN s : Net(s[n]) # p
    \/ \E n \in DOMAIN s : here = <<s[n]>> /\ IsLast(s, n, p)

LEMMA GeoTrieHolds ==
    ASSUME NEW records \in Seq(Kept)
    PROVE  /\ GeoTrie(records) \in Tries(Kept)
           /\ \A p \in Prefix : HoldsLast(At(GeoTrie(records), p), records, p)
  <1> DEFINE T == {s \in Seq(Kept) :
                     /\ GeoTrie(s) \in Tries(Kept)
                     /\ \A p \in Prefix : HoldsLast(At(GeoTrie(s), p), s, p)}
  <1>1. <<>> \in T
    <2>1. <<>> \in Seq(Kept) /\ DOMAIN <<>> = {}
      OBVIOUS
    <2> QED  BY <2>1, GeoTrieEmpty, EmptyTrieHolds DEF HoldsLast
  <1>2. ASSUME NEW s \in Seq(Kept), NEW x \in Kept, s \in T PROVE Append(s, x) \in T
    <2> DEFINE t == Append(s, x)
    <2>1. /\ t \in Seq(Kept) /\ GeoTrie(s) \in Tries(Kept) /\ Net(x) \in Prefix
          /\ GeoTrie(t) = Overwrite(GeoTrie(s), Net(x), x)
      BY FilesAssumption, GeoTrieAppend DEF Kept, Net
    <2>2. /\ Len(t) \in DOMAIN t /\ t[Len(t)] = x /\ Len(t) \in Nat
          /\ \A n \in DOMAIN s : n \in DOMAIN t /\ t[n] = s[n]
          /\ \A n \in DOMAIN t : n \in Nat /\ n <= Len(t) /\ (n = Len(t) \/ n \in DOMAIN s)
      OBVIOUS
    <2> HIDE DEF t
    <2>3. /\ GeoTrie(t) \in Tries(Kept)
          /\ At(GeoTrie(t), Net(x)) = <<x>>
          /\ \A q \in Prefix : q # Net(x) => At(GeoTrie(t), q) = At(GeoTrie(s), q)
      BY <2>1, OverwriteHolds
    <2>4. ASSUME NEW p \in Prefix PROVE HoldsLast(At(GeoTrie(t), p), t, p)
      <3>1. HoldsLast(At(GeoTrie(s), p), s, p)
        BY <1>2
      <3>2. CASE p = Net(x)
        <4>1. IsLast(t, Len(t), p)
          BY <2>2, <3>2 DEF IsLast
        <4> QED  BY <2>2, <2>3, <3>2, <4>1 DEF HoldsLast
      <3>3. CASE p # Net(x)
        <4>1. At(GeoTrie(t), p) = At(GeoTrie(s), p)
          BY <2>3, <3>3
        <4>2. CASE At(GeoTrie(s), p) = <<>> /\ \A n \in DOMAIN s : Net(s[n]) # p
          BY <2>2, <3>3, <4>1, <4>2 DEF HoldsLast
        <4>3. ASSUME NEW n \in DOMAIN s, At(GeoTrie(s), p) = <<s[n]>>, IsLast(s, n, p)
              PROVE  HoldsLast(At(GeoTrie(t), p), t, p)
          <5>1. IsLast(t, n, p)
            BY <2>2, <3>3, <4>3 DEF IsLast
          <5> QED  BY <2>2, <4>1, <4>3, <5>1 DEF HoldsLast
        <4> QED  BY <3>1, <4>2, <4>3 DEF HoldsLast
      <3> QED  BY <3>2, <3>3
    <2> QED  BY <2>1, <2>3, <2>4 DEF t
  <1>3. Seq(Kept) \subseteq T
    <2> HIDE DEF T
    <2> QED  BY <1>1, <1>2, Sequences
  <1> QED  BY <1>3

Around(ip) == {n \in DOMAIN db : Covers(Net(db[n]), ip)}
Better(n, m) == \/ Len(Net(db[n])) > Len(Net(db[m]))
                \/ Net(db[n]) = Net(db[m]) /\ n >= m

LEMMA LookupHolds ==
    ASSUME db \in Seq(Kept), NEW ip \in Address
    PROVE  \/ Around(ip) = {} /\ Lookup(ip) = None
           \/ \E n \in Around(ip) : Lookup(ip) = db[n] /\ \A m \in Around(ip) : Better(n, m)
  <1> DEFINE t == GeoTrie(db)
             found == LongestPrefix(t, ip)
  <1>1. t \in Tries(Kept) /\ \A p \in Prefix : HoldsLast(At(t, p), db, p)
    BY GeoTrieHolds
  <1>2. Lookup(ip) = IF found = <<>> THEN None ELSE Head(found)
    BY DEF Lookup
  <1>3. ASSUME NEW n \in DOMAIN db
        PROVE  /\ Net(db[n]) \in Prefix /\ Len(Net(db[n])) \in 0 .. Width
               /\ Covers(Net(db[n]), ip) <=> Net(db[n]) = First(ip, Len(Net(db[n])))
               /\ At(t, Net(db[n])) # <<>>
    <2>1. Net(db[n]) \in Prefix
      BY FilesAssumption DEF Kept, Net
    <2>2. At(t, Net(db[n])) # <<>>
      <3> DEFINE here == At(t, Net(db[n]))
      <3>1. HoldsLast(here, db, Net(db[n]))
        BY <1>1, <2>1
      <3>2. ~(\A m \in DOMAIN db : Net(db[m]) # Net(db[n]))
        OBVIOUS
      <3> HIDE DEF here
      <3>3. PICK m \in DOMAIN db : here = <<db[m]>>
        BY <3>1, <3>2 DEF HoldsLast
      <3> QED  BY <3>3 DEF here
    <2> QED  BY <2>1, <2>2, PrefixLength, CoversFirst
  <1>4. ASSUME NEW k \in 0 .. Width
        PROVE  First(ip, k) \in Prefix /\ Len(First(ip, k)) = k /\ Covers(First(ip, k), ip)
    BY AddressIsPrefix, FirstIsPrefix, CoversFirst
  <1> HIDE DEF t
  <1>5. CASE found = <<>> /\ \A k \in 0 .. Width : At(t, First(ip, k)) = <<>>
    <2>1. Around(ip) = {}
      BY <1>3, <1>5 DEF Around
    <2> QED  BY <1>2, <1>5, <2>1
  <1>6. ASSUME NEW k \in 0 .. Width,
               At(t, First(ip, k)) # <<>>, found = At(t, First(ip, k)),
               \A m \in 0 .. Width : At(t, First(ip, m)) # <<>> => m <= k
        PROVE  \E n \in Around(ip) : Lookup(ip) = db[n] /\ \A m \in Around(ip) : Better(n, m)
    <2> DEFINE p == First(ip, k)
    <2>1. PICK n \in DOMAIN db : found = <<db[n]>> /\ IsLast(db, n, p)
      BY <1>1, <1>4, <1>6 DEF HoldsLast
    <2>2. n \in Around(ip) /\ Net(db[n]) = p /\ Len(p) = k
      BY <1>4, <2>1 DEF IsLast, Around
    <2>3. Lookup(ip) = db[n]
      <3> HIDE DEF found
      <3> QED  BY <1>2, <2>1
    <2>4. ASSUME NEW m \in Around(ip) PROVE Better(n, m)
      <3> DEFINE q == Net(db[m])
      <3>1. m \in DOMAIN db /\ q = First(ip, Len(q)) /\ Len(q) \in 0 .. Width /\ At(t, q) # <<>>
        BY <1>3 DEF Around
      <3>2. Len(q) <= k
        BY <1>6, <3>1
      <3>3. CASE Len(q) = k
        <4>1. q = p /\ m <= n
          BY <2>1, <3>1, <3>3 DEF IsLast
        <4> QED  BY <2>2, <3>1, <4>1 DEF Better
      <3>4. CASE Len(q) # k
        BY <2>2, <3>1, <3>2, <3>4 DEF Better
      <3> QED  BY <3>3, <3>4
    <2> QED  BY <2>2, <2>3, <2>4
  <1> QED  BY <1>1, <1>5, <1>6, LongestPrefixHolds DEF t

Of(asn) == Only(db, {j \in DOMAIN Record : Record[j].asn = asn})

LEMMA LookupASNRecordHolds ==
    ASSUME db \in Seq(Kept), NEW asn, asn # None
    PROVE  LookupASNRecord(asn) = IF Of(asn) = <<>> THEN None ELSE Head(Of(asn))
  <1> DEFINE S == {j \in DOMAIN Record : Record[j].asn = asn}
             I == {i \in 1 .. Len(db) : Record[db[i]].asn = asn}
  <1>1. \A n \in DOMAIN db : db[n] \in S <=> Record[db[n]].asn = asn
    BY DEF Kept
  <1>2. LookupASNRecord(asn) = IF asn \in DOMAIN AsnIdx(db) THEN AsnIdx(db)[asn] ELSE None
    BY DEF LookupASNRecord
  <1>3. asn \in DOMAIN AsnIdx(db) <=> \E n \in DOMAIN db : db[n] \in S
    BY <1>1 DEF AsnIdx
  <1>4. asn \in DOMAIN AsnIdx(db) =>
           AsnIdx(db)[asn] = db[IF I # {} THEN CHOOSE i \in I : \A j \in I : i <= j ELSE 0]
    BY DEF AsnIdx, SelectInSeq, Min
  <1> HIDE DEF S
  <1>5. CASE Only(db, S) = <<>> /\ \A n \in DOMAIN db : db[n] \notin S
    BY <1>2, <1>3, <1>5 DEF Of, S
  <1>6. ASSUME NEW n \in DOMAIN db, FirstIn(db, n, S), Only(db, S) # <<>>,
               Only(db, S)[1] = db[n]
        PROVE  LookupASNRecord(asn) = IF Of(asn) = <<>> THEN None ELSE Head(Of(asn))
    <2>1. n \in I /\ \A j \in I : n <= j
      BY <1>1, <1>6 DEF FirstIn
    <2>2. \A i \in I : (\A j \in I : i <= j) => i = n
      BY <2>1
    <2>3. (CHOOSE i \in I : \A j \in I : i <= j) = n
      <3> HIDE DEF I
      <3> QED  BY <2>1, <2>2
    <2>4. LookupASNRecord(asn) = db[n]
      BY <1>2, <1>3, <1>4, <1>6, <2>1, <2>3 DEF FirstIn
    <2>5. Only(db, S) \in Seq(Kept)
      BY OnlyElements
    <2> QED  BY <1>6, <2>4, <2>5 DEF Of, S
  <1> QED  BY <1>5, <1>6, OnlyHead DEF S

LEMMA GeoAnswersHold == GeoTypeOK => GeoAnswers
  <1> SUFFICES ASSUME GeoTypeOK, geoPc = "open" PROVE GeoAnswers
    BY DEF GeoAnswers
  <1>1. db \in Seq(Kept)
    BY DEF GeoTypeOK, Kept
  <1>2. ASSUME NEW ip \in Address
        PROVE  LET around == {n \in DOMAIN db : Covers(Record[db[n]].net, ip)}
                   Nearer(n, m) == LET p == Record[db[n]].net  q == Record[db[m]].net
                                   IN  Len(p) > Len(q) \/ (p = q /\ n >= m)
               IN  IF around = {} THEN Lookup(ip) = None
                   ELSE \E n \in around : Lookup(ip) = db[n] /\ \A m \in around : Nearer(n, m)
    BY <1>1, LookupHolds DEF Around, Better, Net
  <1>3. ASSUME NEW k \in DOMAIN Record, Record[k].asn # None
        PROVE  LookupASNRecord(Record[k].asn) =
                 LET of == Only(db, {j \in DOMAIN Record : Record[j].asn = Record[k].asn})
                 IN  IF of = <<>> THEN None ELSE Head(of)
    BY <1>1, <1>3, LookupASNRecordHolds DEF Of
  <1> QED  BY <1>2, <1>3 DEF GeoAnswers

-----------------------------------------------------------------------------
(***************************************************************************)
(* csvLineReader and the rows.                                             *)
(***************************************************************************)
Text == Seq(Symbol)

LEMMA ReadByteType == ASSUME NEW r \in Reader, NEW c PROVE ReadByte(r, c) \in Reader
  <1>1. Consume(r.state, c) \in {"fieldStart", "unquoted", "quoted", "afterQuote"}
    BY DEF Consume, Reader
  <1>2. (IF c = "LF" THEN 0 ELSE IF r.size = 2 THEN 2 ELSE r.size + 1) \in 0 .. 2
    BY DEF Reader
  <1>3. [r EXCEPT !.blank = TRUE] \in Reader
    BY DEF Reader
  <1>4. (c = "CR") \in BOOLEAN
    OBVIOUS
  <1>5. [state |-> Consume(r.state, c),
         size |-> IF c = "LF" THEN 0 ELSE IF r.size = 2 THEN 2 ELSE r.size + 1,
         endsCR |-> c = "CR",
         blank |-> FALSE] \in Reader
    BY <1>1, <1>2, <1>4 DEF Reader
  <1> QED  BY <1>3, <1>5 DEF ReadByte

Reads(after, r, s) ==
    /\ after[0] = r
    /\ \A n \in 1 .. Len(s) : after[n] = ReadByte(after[n - 1], s[n])
    /\ After(r, s) = after[Len(s)]

LEMMA AfterFunction ==
    ASSUME NEW r \in Reader, NEW s \in Text
    PROVE  \E after \in [0 .. Len(s) -> Reader] : Reads(after, r, s)
  <1> DEFINE step == [n \in 1 .. Len(s) |-> [q \in Reader |-> ReadByte(q, s[n])]]
             Eq(f) == f = [n \in 0 .. Len(s) |-> IF n = 0 THEN r ELSE ReadByte(f[n - 1], s[n])]
             after == CHOOSE f : Eq(f)
  <1>1. Len(s) \in Nat
    BY DEF Text
  <1>2. step \in [1 .. Len(s) -> [Reader -> Reader]]
    BY ReadByteType
  <1>3. PICK f : f \in Courses(Len(s), Reader, r, step)
    <2> HIDE DEF step
    <2> QED  BY <1>1, <1>2, Recursion
  <1>4. Eq(f)
    <2>1. f = [n \in 0 .. Len(s) |-> f[n]] /\ f[0] = r
      BY <1>3 DEF Courses
    <2>2. ASSUME NEW n \in 0 .. Len(s), n # 0 PROVE f[n] = ReadByte(f[n - 1], s[n])
      <3>1. n \in 1 .. Len(s) /\ n - 1 \in 0 .. Len(s)
        BY <1>1, <2>2
      <3>2. f[n - 1] \in Reader /\ f[n] = step[n][f[n - 1]]
        BY <1>3, <3>1 DEF Courses
      <3> QED  BY <3>1, <3>2
    <2> QED  BY <2>1, <2>2
  <1>5. Eq(after)
    <2> HIDE DEF Eq
    <2> QED  BY <1>4
  <1>6. After(r, s) = after[Len(s)]
    BY DEF After
  <1> HIDE DEF after
  <1>7. after[0] = r
    BY <1>1, <1>5
  <1>8. ASSUME NEW n \in 1 .. Len(s) PROVE after[n] = ReadByte(after[n - 1], s[n])
    <2>1. n \in 0 .. Len(s) /\ n # 0
      BY <1>1
    <2> QED  BY <1>5, <2>1
  <1> DEFINE Typed == {n \in 0 .. Len(s) : after[n] \in Reader}
  <1>9. 0 \in Typed
    BY <1>1, <1>7
  <1>10. ASSUME NEW n \in 1 .. Len(s), n - 1 \in Typed PROVE n \in Typed
    BY <1>1, <1>8, <1>10, ReadByteType
  <1>11. \A n \in 0 .. Len(s) : n \in Typed
    <2> HIDE DEF Typed
    <2> QED  BY <1>1, <1>9, <1>10, UpTo
  <1>12. after = [n \in 0 .. Len(s) |-> after[n]]
    BY <1>5
  <1>13. after \in [0 .. Len(s) -> Reader]
    BY <1>11, <1>12
  <1> QED  BY <1>6, <1>7, <1>8, <1>13 DEF Reads

LEMMA AfterType == ASSUME NEW r \in Reader, NEW s \in Text PROVE After(r, s) \in Reader
  <1>1. Len(s) \in 0 .. Len(s)
    BY DEF Text
  <1> QED  BY <1>1, AfterFunction DEF Reads

LEMMA AfterNothing == ASSUME NEW r \in Reader PROVE After(r, <<>>) = r
  <1>1. <<>> \in Text /\ Len(<<>>) = 0
    BY DEF Text
  <1> QED  BY <1>1, AfterFunction DEF Reads

LEMMA AfterOneMore ==
    ASSUME NEW r \in Reader, NEW s \in Text, NEW c \in Symbol
    PROVE  After(r, Append(s, c)) = ReadByte(After(r, s), c)
  <1> DEFINE t == Append(s, c)
  <1>1. t \in Text /\ Len(t) = Len(s) + 1 /\ Len(s) \in Nat /\ t[Len(s) + 1] = c
    BY DEF Text
  <1>2. \A n \in 1 .. Len(s) : t[n] = s[n] /\ n \in 1 .. Len(t)
    BY <1>1 DEF Text
  <1> HIDE DEF t
  <1>3. PICK f : Reads(f, r, s)
    BY AfterFunction
  <1>4. PICK g : Reads(g, r, t)
    BY <1>1, AfterFunction
  <1> DEFINE Same == {n \in 0 .. Len(s) : f[n] = g[n]}
  <1>5. 0 \in Same
    BY <1>1, <1>3, <1>4 DEF Reads
  <1>6. ASSUME NEW n \in 1 .. Len(s), n - 1 \in Same PROVE n \in Same
    BY <1>2, <1>3, <1>4, <1>6 DEF Reads
  <1>7. \A n \in 0 .. Len(s) : n \in Same
    <2> HIDE DEF Same
    <2> QED  BY <1>1, <1>5, <1>6, UpTo
  <1>8. f[Len(s)] = g[Len(s)]
    BY <1>1, <1>7
  <1>9. g[Len(s) + 1] = ReadByte(g[Len(s)], c)
    BY <1>1, <1>4 DEF Reads
  <1> QED  BY <1>1, <1>3, <1>4, <1>8, <1>9 DEF Reads, t

\* However a text is cut, the reader is the same after it.
LEMMA AfterBoth ==
    ASSUME NEW r \in Reader, NEW s \in Text, NEW t \in Text
    PROVE  After(r, s \o t) = After(After(r, s), t)
  <1> DEFINE T == {u \in Text : After(r, s \o u) = After(After(r, s), u)}
  <1>1. <<>> \in T
    <2>1. <<>> \in Text /\ s \o <<>> = s
      BY DEF Text
    <2> QED  BY <2>1, AfterType, AfterNothing
  <1>2. ASSUME NEW u \in Seq(Symbol), NEW c \in Symbol, u \in T PROVE Append(u, c) \in T
    <2>1. /\ u \in Text /\ Append(u, c) \in Text /\ s \o u \in Text
          /\ s \o Append(u, c) = Append(s \o u, c)
      BY DEF Text
    <2>2. After(r, s \o u) = After(After(r, s), u)
      BY <1>2
    <2>3. After(r, Append(s \o u, c)) = ReadByte(After(r, s \o u), c)
      BY <2>1, AfterOneMore
    <2>4. After(After(r, s), Append(u, c)) = ReadByte(After(After(r, s), u), c)
      BY <2>1, AfterType, AfterOneMore
    <2> QED  BY <2>1, <2>2, <2>3, <2>4
  <1>3. Seq(Symbol) \subseteq T
    <2> HIDE DEF T
    <2> QED  BY <1>1, <1>2, Sequences
  <1> QED  BY <1>3 DEF Text

\* A blank line is reported for good.
LEMMA BlankStays ==
    ASSUME NEW r \in Reader, r.blank, NEW s \in Text PROVE After(r, s) = r
  <1> DEFINE T == {u \in Text : After(r, u) = r}
  <1>1. <<>> \in T
    BY AfterNothing DEF Text
  <1>2. ASSUME NEW u \in Seq(Symbol), NEW c \in Symbol, u \in T PROVE Append(u, c) \in T
    <2>1. u \in Text /\ Append(u, c) \in Text
      BY DEF Text
    <2>2. After(r, Append(u, c)) = ReadByte(r, c)
      BY <1>2, <2>1, AfterOneMore
    <2> QED  BY <2>1, <2>2 DEF ReadByte
  <1>3. Seq(Symbol) \subseteq T
    <2> HIDE DEF T
    <2> QED  BY <1>1, <1>2, Sequences
  <1> QED  BY <1>3 DEF Text

LEMMA CutInTwo ==
    ASSUME NEW s \in Text, NEW n \in 0 .. Len(s)
    PROVE  /\ First(s, n) \in Text /\ SubSeq(s, n + 1, Len(s)) \in Text
           /\ Len(First(s, n)) = n
           /\ s = First(s, n) \o SubSeq(s, n + 1, Len(s))
  <1> DEFINE t == SubSeq(s, n + 1, Len(s))
             f == First(s, n)
  <1>1. s \in Seq(Symbol) /\ Len(s) \in Nat
    BY DEF Text
  <1>2. f \in Seq(Symbol) /\ t \in Seq(Symbol)
    BY <1>1 DEF First
  <1>3. Len(f) = n /\ \A k \in 1 .. n : f[k] = s[k]
    BY <1>1 DEF First
  <1>4. Len(t) = Len(s) - n /\ \A k \in 1 .. Len(s) - n : t[k] = s[n + k]
    BY <1>1
  <1> HIDE DEF t, f
  <1>5. f \o t \in Seq(Symbol) /\ Len(f \o t) = Len(s)
    BY <1>1, <1>2, <1>3, <1>4
  <1>6. ASSUME NEW k \in 1 .. Len(s) PROVE (f \o t)[k] = s[k]
    <2>1. CASE k <= n
      BY <1>1, <1>2, <1>3, <2>1
    <2>2. CASE k > n
      <3>1. k - n \in 1 .. Len(s) - n /\ n + (k - n) = k
        BY <1>1, <2>2
      <3>2. (f \o t)[k] = t[k - n]
        BY <1>1, <1>2, <1>3, <1>4, <2>2
      <3> QED  BY <1>4, <3>1, <3>2
    <2>3. k <= n \/ k > n
      BY <1>1
    <2> QED  BY ONLY <2>1, <2>2, <2>3
  <1>7. f \o t = s
    <2> DEFINE q == f \o t
    <2>1. q \in Seq(Symbol) /\ Len(q) = Len(s) /\ \A k \in 1 .. Len(s) : q[k] = s[k]
      BY <1>5, <1>6
    <2> HIDE DEF q
    <2>2. q = s
      BY ONLY <1>1, <2>1
    <2> QED  BY <2>2 DEF q
  <1> QED  BY <1>2, <1>3, <1>7 DEF Text, f, t

\* So if none was reported after a text, none was after its beginnings.
LEMMA BlankLater ==
    ASSUME NEW r \in Reader, NEW s \in Text, NEW n \in 0 .. Len(s), After(r, First(s, n)).blank
    PROVE  After(r, s).blank
  <1> DEFINE t == SubSeq(s, n + 1, Len(s))
             f == First(s, n)
  <1>2. f \in Text /\ t \in Text
    BY CutInTwo
  <1>3. s = f \o t
    BY CutInTwo
  <1> HIDE DEF t, f
  <1>4. After(r, f \o t) = After(After(r, f), t)
    BY <1>2, AfterBoth
  <1>5. After(r, f).blank
    BY DEF f
  <1>6. After(r, f) \in Reader
    BY <1>2, AfterType
  <1>7. After(After(r, f), t) = After(r, f)
    BY <1>2, <1>5, <1>6, BlankStays
  <1> QED  BY <1>3, <1>4, <1>5, <1>7

\* The least element of a set of positions, as SelectInSeq and RowEnd have it.
LEMMA LeastChosen ==
    ASSUME NEW I \in SUBSET Nat, I # {}
    PROVE  (CHOOSE n \in I : \A k \in I : n <= k) \in I
  BY Least

LEMMA FirstIsText ==
    ASSUME NEW s \in Text, NEW n \in 0 .. Len(s) PROVE First(s, n) \in Text
  BY DEF First, Text

LEMMA GivenIsText == ASSUME NEW r, NEW s \in Text PROVE Given(r, s) \in Text
  <1> DEFINE q == [n \in DOMAIN s |-> After(r, First(s, n)).blank]
             I == {n \in 1 .. Len(q) : q[n]}
             cut == IF I # {} THEN CHOOSE n \in I : \A k \in I : n <= k ELSE 0
  <1>1. Given(r, s) = IF cut = 0 THEN s ELSE First(s, cut - 1)
    BY DEF Given, SelectInSeq, Min
  <1>2. Len(q) = Len(s) /\ Len(s) \in Nat
    BY DEF Text
  <1> HIDE DEF q
  <1>3. I \in SUBSET Nat /\ I \subseteq 1 .. Len(s)
    BY <1>2
  <1>4. cut # 0 => cut \in I
    <2> HIDE DEF I
    <2> QED  BY <1>3, LeastChosen
  <1>5. cut # 0 => cut - 1 \in 0 .. Len(s)
    <2> SUFFICES ASSUME cut # 0 PROVE cut - 1 \in 0 .. Len(s)
      OBVIOUS
    <2> HIDE DEF cut, I
    <2>1. cut \in 1 .. Len(s)
      BY <1>3, <1>4
    <2> QED  BY <1>2, <2>1
  <1> HIDE DEF cut
  <1> QED  BY <1>1, <1>5, FirstIsText

LEMMA GivenWhole ==
    ASSUME NEW r \in Reader, NEW s \in Text, ~After(r, s).blank PROVE Given(r, s) = s
  <1> DEFINE q == [n \in DOMAIN s |-> After(r, First(s, n)).blank]
             I == {n \in 1 .. Len(q) : q[n]}
             cut == IF I # {} THEN CHOOSE n \in I : \A k \in I : n <= k ELSE 0
  <1>1. Given(r, s) = IF cut = 0 THEN s ELSE First(s, cut - 1)
    BY DEF Given, SelectInSeq, Min
  <1>2. I = {}
    <2>1. DOMAIN s = 1 .. Len(s) /\ Len(q) = Len(s) /\ Len(s) \in Nat
      BY DEF Text
    <2>2. ASSUME NEW n \in I PROVE FALSE
      <3>1. n \in 0 .. Len(s) /\ After(r, First(s, n)).blank
        BY <2>1
      <3> QED  BY <3>1, BlankLater
    <2> QED  BY <2>2
  <1> HIDE DEF q, I
  <1> QED  BY <1>1, <1>2

LEMMA RowEndInBuffer ==
    ASSUME buffer \in Text PROVE RowEnd \in 0 .. Len(buffer) /\ Len(buffer) \in Nat
  <1> DEFINE ends == {n \in DOMAIN buffer : EndsRow(n)}
  <1>1. Len(buffer) \in Nat /\ ends \in SUBSET Nat /\ ends \subseteq 1 .. Len(buffer)
    BY DEF Text
  <1>2. RowEnd = IF ends = {} THEN 0 ELSE CHOOSE n \in ends : \A k \in ends : n <= k
    BY DEF RowEnd
  <1> HIDE DEF ends
  <1>3. CASE ends # {}
    <2>1. RowEnd \in ends
      BY <1>1, <1>2, <1>3, LeastChosen
    <2> QED  BY ONLY <1>1, <2>1
  <1>4. CASE ends = {}
    <2>1. RowEnd = 0
      BY <1>2, <1>4
    <2> QED  BY ONLY <1>1, <2>1
  <1> QED  BY <1>3, <1>4

Line(file, k) == LineText[file[Len(file) + 1 - k]]
Ending(file, nl, end, k) == IF k > 1 \/ end THEN nl[Len(file) + 1 - k] ELSE <<>>

LEMMA NewlineIsText == <<>> \in Text /\ Newline \subseteq Text
  <1>1. "LF" \in Symbol /\ "CR" \in Symbol
    BY DEF Symbol
  <1>2. <<"LF">> \in Seq(Symbol) /\ <<"CR", "LF">> \in Seq(Symbol) /\ <<>> \in Seq(Symbol)
    BY <1>1
  <1> QED  BY <1>2 DEF Text, Newline

LEMMA JoinedText == \A s, t \in Text : s \o t \in Text
  BY DEF Text

LEMMA LineIsText ==
    ASSUME NEW file \in Files, NEW nl \in Newlines(file), NEW end, NEW k \in 1 .. Len(file)
    PROVE  /\ Len(file) + 1 - k \in DOMAIN file /\ file[Len(file) + 1 - k] \in DOMAIN LineText
           /\ Line(file, k) \in Text /\ Ending(file, nl, end, k) \in Text
           /\ Line(file, k) \o Ending(file, nl, end, k) \in Text
  <1>1. file \in Seq(DOMAIN LineText) /\ Len(file) \in Nat
    BY FilesAssumption
  <1>2. Len(file) + 1 - k \in DOMAIN file /\ file[Len(file) + 1 - k] \in DOMAIN LineText
    BY <1>1
  <1>3. Line(file, k) \in Text
    BY <1>2, FilesAssumption DEF Line, Text
  <1>4. Ending(file, nl, end, k) \in Text
    <2>1. nl[Len(file) + 1 - k] \in Newline
      BY <1>2 DEF Newlines
    <2> QED  BY <2>1, NewlineIsText DEF Ending
  <1> QED  BY <1>2, <1>3, <1>4, JoinedText

\* The last k lines of a file are the last but k - 1 and the last k - 1.
LEMMA LastLinesHold ==
    ASSUME NEW file \in Files, NEW nl \in Newlines(file), NEW end
    PROVE  /\ LastLines(file, nl, end) \in [0 .. Len(file) -> Text]
           /\ LastLines(file, nl, end)[0] = <<>>
           /\ \A k \in 1 .. Len(file) :
                 LastLines(file, nl, end)[k] =
                   (Line(file, k) \o Ending(file, nl, end, k)) \o LastLines(file, nl, end)[k - 1]
  <1> DEFINE N == Len(file)
             step == [k \in 1 .. N |->
                        [t \in Text |-> (Line(file, k) \o Ending(file, nl, end, k)) \o t]]
             Eq(f) == f = [k \in 0 .. N |->
                             IF k = 0 THEN <<>>
                             ELSE LineText[file[N + 1 - k]]
                                    \o (IF k > 1 \/ end THEN nl[N + 1 - k] ELSE <<>>) \o f[k - 1]]
             last == CHOOSE f : Eq(f)
  <1>1. N \in Nat /\ <<>> \in Text
    BY FilesAssumption, NewlineIsText
  <1>2. step \in [1 .. N -> [Text -> Text]]
    BY LineIsText, JoinedText
  <1>3. PICK f : f \in Courses(N, Text, <<>>, step)
    <2> HIDE DEF step, N
    <2> QED  BY <1>1, <1>2, Recursion
  <1>4. Eq(f)
    <2>1. f = [k \in 0 .. N |-> f[k]] /\ f[0] = <<>>
      BY <1>3 DEF Courses
    <2>2. ASSUME NEW k \in 0 .. N, k # 0
          PROVE  f[k] = LineText[file[N + 1 - k]]
                          \o (IF k > 1 \/ end THEN nl[N + 1 - k] ELSE <<>>) \o f[k - 1]
      <3>1. k \in 1 .. N /\ k - 1 \in 0 .. N
        BY <1>1, <2>2
      <3>2. f[k - 1] \in Text /\ f[k] = step[k][f[k - 1]]
        BY <1>3, <3>1 DEF Courses
      <3> QED  BY <3>1, <3>2 DEF Line, Ending
    <2> QED  BY <2>1, <2>2
  <1>5. Eq(last)
    <2> HIDE DEF Eq
    <2> QED  BY <1>4
  <1>6. LastLines(file, nl, end) = last
    BY DEF LastLines
  <1> HIDE DEF last
  <1>7. last[0] = <<>>
    BY <1>1, <1>5
  <1>8. ASSUME NEW k \in 1 .. N
        PROVE  last[k] = (Line(file, k) \o Ending(file, nl, end, k)) \o last[k - 1]
    <2>1. k \in 0 .. N /\ k # 0
      BY <1>1
    <2> QED  BY <1>5, <2>1 DEF Line, Ending
  <1> DEFINE Typed == {k \in 0 .. N : last[k] \in Text}
  <1>9. 0 \in Typed
    BY <1>1, <1>7
  <1>10. ASSUME NEW k \in 1 .. N, k - 1 \in Typed PROVE k \in Typed
    <2>1. k \in 0 .. N /\ last[k - 1] \in Text
      BY <1>1, <1>10
    <2>2. last[k] \in Text
      BY <1>8, <2>1, LineIsText, JoinedText
    <2> QED  BY <2>1, <2>2
  <1>11. \A k \in 0 .. N : k \in Typed
    <2> HIDE DEF Typed, N
    <2> QED  BY <1>1, <1>9, <1>10, UpTo
  <1>12. last = [k \in 0 .. N |-> last[k]]
    BY <1>5
  <1>13. last \in [0 .. N -> Text]
    BY <1>11, <1>12
  <1> QED  BY <1>6, <1>7, <1>8, <1>13

LEMMA TextOfFile ==
    ASSUME NEW file \in Files, NEW nl \in Newlines(file), NEW end
    PROVE  TextOf(file, nl, end) \in Text
  <1>1. Len(file) \in 0 .. Len(file)
    BY FilesAssumption
  <1> QED  BY <1>1, LastLinesHold DEF TextOf

-----------------------------------------------------------------------------
(***************************************************************************)
(* Open and loadFile.                                                      *)
(***************************************************************************)
LEMMA EmptyIsSequence == \A S : <<>> \in Seq(S)
  OBVIOUS

LEMMA GeoTypeInit == GeoInit => GeoTypeOK
  <1> SUFFICES ASSUME GeoInit PROVE GeoTypeOK
    OBVIOUS
  <1>1. NewReader \in Reader
    BY DEF NewReader, Reader
  <1>2. lines \in Files \cup {None} /\ closed \in BOOLEAN /\ broke \in BOOLEAN
    BY DEF GeoInit
  <1>3. /\ text \in Seq(Symbol) /\ buffer \in Seq(Symbol)
        /\ rows \in Seq({"header"} \cup DOMAIN Record)
    BY EmptyIsSequence DEF GeoInit
  <1>4. geoPc = "closed" /\ db = None /\ rows = <<>> /\ reader \in Reader
    BY <1>1 DEF GeoInit
  <1> QED  BY <1>2, <1>3, <1>4 DEF GeoTypeOK

LEMMA TakeRowType ==
    ASSUME GeoTypeOK, geoPc = "reading", NEW line, NEW rest \in Text, TakeRow(line, rest)
    PROVE  GeoTypeOK'
  <1> DEFINE kind == KindOf(line)
             R == Seq({"header"} \cup DOMAIN Record)
  <1>1. /\ buffer' = rest
        /\ rows' = IF kind # "skip" /\ Accepts(kind) THEN Append(rows, kind) ELSE rows
        /\ geoPc' \in {"reading", "failed"}
        /\ UNCHANGED <<lines, closed, text, reader, broke, db>>
    BY DEF TakeRow
  <1> HIDE DEF kind
  <1>2. rows \in R /\ (rows # <<>> => Head(rows) = "header" /\ Tail(rows) \in Seq(Kept))
    BY DEF GeoTypeOK, Kept
  <1>3. rows' \in R /\ (rows' # <<>> => Head(rows') = "header" /\ Tail(rows') \in Seq(Kept))
    <2>1. CASE kind # "skip" /\ Accepts(kind) /\ rows = <<>>
      <3>1. rows' = <<"header">>
        BY <1>1, <2>1 DEF Accepts
      <3>2. Head(<<"header">>) = "header" /\ Tail(<<"header">>) = <<>> /\ <<"header">> \in R
        OBVIOUS
      <3> QED  BY <3>1, <3>2
    <2>2. CASE kind # "skip" /\ Accepts(kind) /\ rows # <<>>
      <3>1. rows' = Append(rows, kind) /\ kind \in Kept
        BY <1>1, <2>2 DEF Accepts, Kept
      <3>2. kind \in {"header"} \cup DOMAIN Record
        BY <3>1 DEF Kept
      <3>3. Append(rows, kind) \in R
        BY <1>2, <3>2
      <3>4. Head(Append(rows, kind)) = Head(rows)
        BY <1>2, <2>2, <3>2
      <3>5. Tail(Append(rows, kind)) = Append(Tail(rows), kind)
        BY <1>2, <2>2, <3>2
      <3>6. Append(Tail(rows), kind) \in Seq(Kept)
        BY <1>2, <2>2, <3>1
      <3> QED  BY <1>2, <2>2, <3>1, <3>3, <3>4, <3>5, <3>6
    <2>3. CASE ~(kind # "skip" /\ Accepts(kind))
      BY <1>1, <1>2, <2>3
    <2> QED  BY <2>1, <2>2, <2>3
  <1> QED  BY <1>1, <1>3 DEF GeoTypeOK, Text, Kept

LEMMA GeoTypeStep == GeoTypeOK /\ [GeoNext \/ ForgetFile]_geoVars => GeoTypeOK'
  <1> SUFFICES ASSUME GeoTypeOK, [GeoNext \/ ForgetFile]_geoVars PROVE GeoTypeOK'
    OBVIOUS
  <1>1. CASE GeoOpen
    <2>1. text' \in Text
      BY <1>1, TextOfFile DEF GeoOpen
    <2> QED  BY <1>1, <2>1 DEF GeoOpen, GeoTypeOK, Text
  <1>2. CASE GeoOpenFails
    BY <1>2 DEF GeoOpenFails, GeoTypeOK
  <1>3. ASSUME NEW n \in 1 .. ReadMax, Read(n) PROVE GeoTypeOK'
    <2> DEFINE s == First(text, n)
    <2>1. s \in Text
      <3>1. n \in 0 .. Len(text) /\ text \in Text
        BY <1>3, ReadMaxAssumption DEF Read, GeoTypeOK, Text
      <3> QED  BY <3>1, FirstIsText
    <2>2. After(reader, s) \in Reader /\ Given(reader, s) \in Text
      BY <2>1, AfterType, GivenIsText DEF GeoTypeOK
    <2>3. reader' \in Reader
      BY <1>3, <2>2 DEF Read
    <2>4. buffer' \in Text
      <3> HIDE DEF s
      <3>1. buffer' = buffer \o Given(reader, s)
        BY <1>3 DEF Read, s
      <3> QED  BY <2>2, <3>1 DEF Text, GeoTypeOK
    <2>5. text' \in Text
      <3>1. text' = SubSeq(text, n + 1, Len(text))
        BY <1>3 DEF Read
      <3> QED  BY <3>1, ReadMaxAssumption DEF Text, GeoTypeOK
    <2> QED  BY <1>3, <2>3, <2>4, <2>5 DEF Read, GeoTypeOK, geoData, Text
  <1>4. CASE Break
    BY <1>4 DEF Break, GeoTypeOK, geoData
  <1>5. CASE Row
    <2>1. SubSeq(buffer, RowEnd + 1, Len(buffer)) \in Text
      <3>1. buffer \in Text
        BY DEF GeoTypeOK, Text
      <3>2. RowEnd + 1 \in Nat /\ RowEnd + 1 >= 1 /\ Len(buffer) \in Nat
        BY <3>1, RowEndInBuffer
      <3> QED  BY <3>1, <3>2 DEF Text
    <2> QED  BY <1>5, <2>1, TakeRowType DEF Row
  <1>6. CASE LastRow
    <2>1. <<>> \in Text
      BY DEF Text
    <2> QED  BY <1>6, <2>1, TakeRowType DEF LastRow
  <1>7. CASE StreamError
    BY <1>7 DEF StreamError, GeoTypeOK
  <1>8. CASE EndOfFile
    <2>1. rows # <<>> => db' \in Seq(DOMAIN Record) /\ db' # None
      BY <1>8, FilesAssumption DEF EndOfFile, GeoTypeOK
    <2>2. rows = <<>> => db' = None
      BY <1>8 DEF EndOfFile
    <2> QED  BY <1>8, <2>1, <2>2 DEF EndOfFile, GeoTypeOK
  <1>9. CASE ForgetFile
    <2>1. NewReader \in Reader
      BY DEF NewReader, Reader
    <2>2. /\ lines' \in Files \cup {None} /\ closed' \in BOOLEAN /\ broke' \in BOOLEAN
          /\ reader' \in Reader /\ rows' = <<>> /\ UNCHANGED <<geoPc, db>>
      BY <1>9, <2>1 DEF ForgetFile
    <2>3. /\ text' \in Seq(Symbol) /\ buffer' \in Seq(Symbol)
          /\ rows' \in Seq({"header"} \cup DOMAIN Record)
      BY <1>9, EmptyIsSequence DEF ForgetFile
    <2> QED  BY <2>2, <2>3 DEF GeoTypeOK
  <1>10. CASE UNCHANGED geoVars
    BY <1>10 DEF geoVars, GeoTypeOK
  <1> QED  BY <1>1, <1>2, <1>3, <1>4, <1>5, <1>6, <1>7, <1>8, <1>9, <1>10 DEF GeoNext

-----------------------------------------------------------------------------
(***************************************************************************)
(* Quotes.                                                                 *)
(***************************************************************************)
\* inside[n]: the quotes of the first n symbols of s are odd in number.
Counts(inside, s) ==
    /\ inside[0] = FALSE
    /\ \A n \in 1 .. Len(s) :
          inside[n] = IF s[n] = "q" THEN ~inside[n - 1] ELSE inside[n - 1]
    /\ InQuotes(s) = inside[Len(s)]

LEMMA QuotesFunction ==
    ASSUME NEW s \in Text
    PROVE  \E inside \in [0 .. Len(s) -> BOOLEAN] : Counts(inside, s)
  <1> DEFINE step == [n \in 1 .. Len(s) |-> [b \in BOOLEAN |-> IF s[n] = "q" THEN ~b ELSE b]]
             Eq(f) == f = [n \in 0 .. Len(s) |->
                             IF n = 0 THEN FALSE
                             ELSE IF s[n] = "q" THEN ~f[n - 1] ELSE f[n - 1]]
             inside == CHOOSE f : Eq(f)
  <1>1. Len(s) \in Nat
    BY DEF Text
  <1>2. step \in [1 .. Len(s) -> [BOOLEAN -> BOOLEAN]]
    OBVIOUS
  <1>3. PICK f : f \in Courses(Len(s), BOOLEAN, FALSE, step)
    <2> HIDE DEF step
    <2> QED  BY <1>1, <1>2, Recursion
  <1>4. Eq(f)
    <2>1. f = [n \in 0 .. Len(s) |-> f[n]] /\ f[0] = FALSE
      BY <1>3 DEF Courses
    <2>2. ASSUME NEW n \in 0 .. Len(s), n # 0
          PROVE  f[n] = IF s[n] = "q" THEN ~f[n - 1] ELSE f[n - 1]
      <3>1. n \in 1 .. Len(s) /\ n - 1 \in 0 .. Len(s)
        BY <1>1, <2>2
      <3>2. f[n - 1] \in BOOLEAN /\ f[n] = step[n][f[n - 1]]
        BY <1>3, <3>1 DEF Courses
      <3> QED  BY <3>1, <3>2
    <2> QED  BY <2>1, <2>2
  <1>5. Eq(inside)
    <2> HIDE DEF Eq
    <2> QED  BY <1>4
  <1>6. InQuotes(s) = inside[Len(s)]
    BY DEF InQuotes
  <1> HIDE DEF inside
  <1>7. inside[0] = FALSE
    BY <1>1, <1>5
  <1>8. ASSUME NEW n \in 1 .. Len(s)
        PROVE  inside[n] = IF s[n] = "q" THEN ~inside[n - 1] ELSE inside[n - 1]
    <2>1. n \in 0 .. Len(s) /\ n # 0
      BY <1>1
    <2> QED  BY <1>5, <2>1
  <1> DEFINE Typed == {n \in 0 .. Len(s) : inside[n] \in BOOLEAN}
  <1>9. 0 \in Typed
    <2>1. 0 \in 0 .. Len(s)
      BY <1>1
    <2>2. inside[0] \in BOOLEAN
      BY <1>7, Zenon
    <2> QED  BY <2>1, <2>2, Zenon
  <1>10. ASSUME NEW n \in 1 .. Len(s), n - 1 \in Typed PROVE n \in Typed
    <2>1. n \in 0 .. Len(s)
      BY <1>1
    <2>2. inside[n - 1] \in BOOLEAN
      BY <1>10, Zenon
    <2>3. (~inside[n - 1]) \in BOOLEAN
      OBVIOUS
    <2>4. inside[n] \in BOOLEAN
      <3>1. CASE s[n] = "q"
        <4>1. inside[n] = ~inside[n - 1]
          BY <1>8, <3>1, Zenon
        <4> QED  BY <2>3, <4>1, Zenon
      <3>2. CASE s[n] # "q"
        <4>1. inside[n] = inside[n - 1]
          BY <1>8, <3>2, Zenon
        <4> QED  BY <2>2, <4>1, Zenon
      <3> QED  BY <3>1, <3>2
    <2> QED  BY <2>1, <2>4, Zenon
  <1>11. \A n \in 0 .. Len(s) : n \in Typed
    <2> HIDE DEF Typed
    <2> QED  BY <1>1, <1>9, <1>10, UpTo
  <1>12. inside = [n \in 0 .. Len(s) |-> inside[n]]
    BY <1>5
  <1>13. inside \in [0 .. Len(s) -> BOOLEAN]
    BY <1>11, <1>12
  <1> QED  BY <1>6, <1>7, <1>8, <1>13 DEF Counts

LEMMA QuotesNone == ~InQuotes(<<>>)
  <1>1. <<>> \in Text /\ Len(<<>>) = 0
    BY DEF Text
  <1> QED  BY <1>1, QuotesFunction DEF Counts

LEMMA QuotesOneMore ==
    ASSUME NEW s \in Text, NEW c \in Symbol
    PROVE  InQuotes(Append(s, c)) <=> IF c = "q" THEN ~InQuotes(s) ELSE InQuotes(s)
  <1> DEFINE t == Append(s, c)
  <1>1. t \in Text /\ Len(t) = Len(s) + 1 /\ Len(s) \in Nat /\ t[Len(s) + 1] = c
    BY DEF Text
  <1>2. \A n \in 1 .. Len(s) : t[n] = s[n] /\ n \in 1 .. Len(t)
    BY <1>1 DEF Text
  <1> HIDE DEF t
  <1>3. PICK f \in [0 .. Len(s) -> BOOLEAN] : Counts(f, s)
    BY QuotesFunction
  <1>4. PICK g \in [0 .. Len(t) -> BOOLEAN] : Counts(g, t)
    BY <1>1, QuotesFunction
  <1> DEFINE Same == {n \in 0 .. Len(s) : f[n] = g[n]}
  <1>5. 0 \in Same
    BY <1>1, <1>3, <1>4 DEF Counts
  <1>6. ASSUME NEW n \in 1 .. Len(s), n - 1 \in Same PROVE n \in Same
    BY <1>2, <1>3, <1>4, <1>6 DEF Counts
  <1>7. \A n \in 0 .. Len(s) : n \in Same
    <2> HIDE DEF Same
    <2> QED  BY <1>1, <1>5, <1>6, UpTo
  <1>8. f[Len(s)] = g[Len(s)]
    BY <1>1, <1>7
  <1>9. g[Len(s) + 1] = IF c = "q" THEN ~g[Len(s)] ELSE g[Len(s)]
    BY <1>1, <1>4 DEF Counts
  <1>10. InQuotes(s) = f[Len(s)] /\ InQuotes(t) = g[Len(s) + 1]
    BY <1>1, <1>3, <1>4 DEF Counts
  <1>11. f[Len(s)] \in BOOLEAN /\ g[Len(s)] \in BOOLEAN
    BY <1>1, <1>3, <1>4
  <1> QED  BY <1>8, <1>9, <1>10, <1>11 DEF t

\* One symbol further in a text.
LEMMA OneFurther ==
    ASSUME NEW s \in Text, NEW n \in 1 .. Len(s)
    PROVE  /\ First(s, n) \in Text /\ First(s, n - 1) \in Text /\ s[n] \in Symbol
           /\ First(s, n) = Append(First(s, n - 1), s[n])
           /\ \A r \in Reader :
                 After(r, First(s, n)) = ReadByte(After(r, First(s, n - 1)), s[n])
           /\ InQuotes(First(s, n)) <=>
                 IF s[n] = "q" THEN ~InQuotes(First(s, n - 1)) ELSE InQuotes(First(s, n - 1))
  <1> DEFINE t == First(s, n - 1)
  <1>1. First(s, n) \in Text /\ t \in Text /\ s[n] \in Symbol /\ First(s, n) = Append(t, s[n])
    BY DEF Text, First
  <1> HIDE DEF t
  <1>2. \A r \in Reader : After(r, Append(t, s[n])) = ReadByte(After(r, t), s[n])
    BY <1>1, AfterOneMore
  <1>3. InQuotes(Append(t, s[n])) <=> IF s[n] = "q" THEN ~InQuotes(t) ELSE InQuotes(t)
    BY <1>1, QuotesOneMore
  <1> QED  BY <1>1, <1>2, <1>3 DEF t

LEMMA NewReaderType == NewReader \in Reader
  BY DEF NewReader, Reader

-----------------------------------------------------------------------------
(***************************************************************************)
(* A well-formed line.  csvLineReader's four states follow what csv goes   *)
(* by, whether the quotes so far are even or odd.                          *)
(***************************************************************************)
\* Any newline in it is within quotes.
OneLine(w) == \A n \in DOMAIN w : w[n] = "LF" => InQuotes(First(w, n - 1))

\* After n symbols the reader's state says whether their quotes are odd.
InTune(w, n) ==
    LET r == After(NewReader, First(w, n))
    IN  /\ r \in Reader /\ ~r.blank
        /\ InQuotes(First(w, n)) => r.state = "quoted"
        /\ ~InQuotes(First(w, n)) =>
              r.state = IF n = 0 \/ w[n] = "," THEN "fieldStart"
                        ELSE IF w[n] = "q" THEN "afterQuote" ELSE "unquoted"
        /\ n > 0 /\ w[n] # "LF" => r.size >= 1 /\ r.endsCR = (w[n] = "CR")

LEMMA TuneStart == ASSUME NEW w \in Text PROVE InTune(w, 0)
  <1>1. First(w, 0) = <<>>
    BY DEF First, Text
  <1>2. After(NewReader, <<>>) = NewReader
    BY NewReaderType, AfterNothing
  <1>3. ~InQuotes(<<>>)
    BY QuotesNone
  <1> QED  BY <1>1, <1>2, <1>3, NewReaderType DEF InTune, NewReader

LEMMA TuneStep ==
    ASSUME NEW w \in Text, WellQuoted(w), OneLine(w), NEW n \in 1 .. Len(w), InTune(w, n - 1)
    PROVE  InTune(w, n)
  <1> DEFINE p == After(NewReader, First(w, n - 1))
             r == After(NewReader, First(w, n))
             c == w[n]
             odd == InQuotes(First(w, n - 1))
  <1>1. r = ReadByte(p, c)
    BY OneFurther, NewReaderType
  <1>2. InQuotes(First(w, n)) <=> IF c = "q" THEN ~odd ELSE odd
    BY OneFurther
  <1>3. n \in DOMAIN w /\ n \in Nat /\ n # 0
    BY DEF Text
  <1>4. /\ p \in Reader /\ ~p.blank
        /\ odd => p.state = "quoted"
        /\ ~odd => p.state = IF n = 1 \/ w[n - 1] = "," THEN "fieldStart"
                             ELSE IF w[n - 1] = "q" THEN "afterQuote" ELSE "unquoted"
    <2>1. n - 1 = 0 <=> n = 1
      BY <1>3
    <2> QED  BY <2>1 DEF InTune
  <1>5. c = "LF" => odd
    BY <1>3 DEF OneLine
  <1>6. ~odd => /\ c = "q" => n = 1 \/ w[n - 1] \in {",", "q"}
                /\ n > 1 /\ w[n - 1] = "q" => c \in {",", "q"}
    BY <1>3 DEF WellQuoted
  <1>7. r \in Reader
    BY <1>1, <1>4, ReadByteType
  <1> HIDE DEF p, r, c, odd
  <1>8. ~Blank(p, c)
    BY <1>4, <1>5 DEF Blank
  <1>9. r = [state |-> Consume(p.state, c),
             size |-> IF c = "LF" THEN 0 ELSE IF p.size = 2 THEN 2 ELSE p.size + 1,
             endsCR |-> c = "CR", blank |-> FALSE]
    BY <1>1, <1>4, <1>8 DEF ReadByte
  <1>10. /\ r.state = Consume(p.state, c) /\ ~r.blank /\ r.endsCR = (c = "CR")
         /\ r.size = IF c = "LF" THEN 0 ELSE IF p.size = 2 THEN 2 ELSE p.size + 1
    BY <1>9
  <1>11. c # "LF" => r.size >= 1
    <2>1. p.size \in 0 .. 2
      BY <1>4 DEF Reader
    <2> QED  BY <1>10, <2>1
  <1>12. (IF c = "q" THEN ~odd ELSE odd) => r.state = "quoted"
    <2>1. CASE odd /\ c # "q"
      BY <1>4, <1>10, <2>1 DEF Consume
    <2>2. CASE ~odd /\ c = "q"
      BY <1>4, <1>6, <1>10, <2>2 DEF Consume
    <2> QED  BY <2>1, <2>2
  <1>13. ~(IF c = "q" THEN ~odd ELSE odd) =>
            r.state = IF c = "," THEN "fieldStart" ELSE IF c = "q" THEN "afterQuote" ELSE "unquoted"
    <2>1. CASE odd /\ c = "q"
      BY <1>4, <1>10, <2>1 DEF Consume
    <2>2. CASE ~odd /\ c # "q"
      <3>1. c # "LF" /\ (p.state = "afterQuote" => c = ",") /\ p.state # "quoted"
        <4>1. c # "LF" /\ c # "q" /\ p.state # "quoted"
          BY <1>4, <1>5, <2>2
        <4>2. ASSUME p.state = "afterQuote" PROVE n # 1 /\ w[n - 1] = "q"
          BY <1>4, <2>2, <4>2
        <4>3. n # 1 => n > 1
          BY <1>3
        <4> QED  BY <1>6, <2>2, <4>1, <4>2, <4>3
      <3>2. p.state \in {"fieldStart", "unquoted", "afterQuote"}
        BY <1>4, <3>1 DEF Reader
      <3> QED  BY <1>10, <2>2, <3>1, <3>2 DEF Consume
    <2> QED  BY <2>1, <2>2
  <1>14. /\ InQuotes(First(w, n)) => r.state = "quoted"
         /\ ~InQuotes(First(w, n)) =>
               r.state = IF n = 0 \/ c = "," THEN "fieldStart"
                         ELSE IF c = "q" THEN "afterQuote" ELSE "unquoted"
    BY <1>2, <1>3, <1>12, <1>13
  <1>15. n > 0 /\ c # "LF" => r.size >= 1 /\ r.endsCR = (c = "CR")
    BY <1>10, <1>11
  <1> QED  BY <1>7, <1>10, <1>14, <1>15 DEF InTune, r, c

LEMMA InTuneThroughout ==
    ASSUME NEW w \in Text, WellQuoted(w), OneLine(w)
    PROVE  \A n \in 0 .. Len(w) : InTune(w, n)
  <1> DEFINE T == {n \in 0 .. Len(w) : InTune(w, n)}
  <1>1. Len(w) \in Nat
    BY DEF Text
  <1>2. 0 \in T
    BY <1>1, TuneStart
  <1>3. ASSUME NEW n \in 1 .. Len(w), n - 1 \in T PROVE n \in T
    BY <1>1, <1>3, TuneStep
  <1>4. \A n \in 0 .. Len(w) : n \in T
    <2> HIDE DEF T
    <2> QED  BY <1>1, <1>2, <1>3, UpTo
  <1> QED  BY <1>4

LEMMA NewlineSymbols ==
    /\ "LF" \in Symbol /\ "CR" \in Symbol
    /\ <<"LF">> \in Text /\ <<"CR">> \in Text /\ <<"CR", "LF">> \in Text
    /\ <<"LF">> = Append(<<>>, "LF") /\ <<"CR">> = Append(<<>>, "CR")
    /\ <<"CR", "LF">> = Append(<<"CR">>, "LF")
    /\ Newline = {<<"LF">>, <<"CR", "LF">>}
  <1>1. "LF" \in Symbol /\ "CR" \in Symbol
    BY DEF Symbol
  <1>2. <<"LF">> \in Seq(Symbol) /\ <<"CR">> \in Seq(Symbol) /\ <<"CR", "LF">> \in Seq(Symbol)
    BY <1>1
  <1> QED  BY <1>1, <1>2 DEF Text, Newline

LEMMA ReadLF ==
    ASSUME NEW r \in Reader, ~r.blank, r.state # "quoted", r.size # 0, r.size = 1 => ~r.endsCR
    PROVE  ReadByte(r, "LF") = NewReader
  <1>1. ~Blank(r, "LF") /\ Consume(r.state, "LF") = "fieldStart"
    BY DEF Blank, Consume
  <1>2. ("LF" = "CR") = FALSE
    OBVIOUS
  <1>3. ReadByte(r, "LF") =
          [state |-> Consume(r.state, "LF"), size |-> 0, endsCR |-> "LF" = "CR", blank |-> FALSE]
    BY <1>1 DEF ReadByte
  <1> QED  BY <1>1, <1>2, <1>3 DEF NewReader

LEMMA ReadCR ==
    ASSUME NEW r \in Reader, ~r.blank, r.state # "quoted"
    PROVE  /\ ReadByte(r, "CR") \in Reader /\ ReadByte(r, "CR").state # "quoted"
           /\ ReadByte(r, "CR").blank = FALSE /\ ReadByte(r, "CR").endsCR = TRUE
           /\ r.size = 0 => ReadByte(r, "CR").size = 1
           /\ r.size # 0 => ReadByte(r, "CR").size = 2
  <1> DEFINE size == IF r.size = 2 THEN 2 ELSE r.size + 1
  <1>1. ~Blank(r, "CR") /\ Consume(r.state, "CR") # "quoted"
    BY DEF Blank, Consume, Reader
  <1>2. ("CR" = "CR") = TRUE
    OBVIOUS
  <1>3. ReadByte(r, "CR") =
          [state |-> Consume(r.state, "CR"), size |-> size, endsCR |-> "CR" = "CR", blank |-> FALSE]
    BY <1>1 DEF ReadByte
  <1>4. (r.size = 0 => size = 1) /\ (r.size # 0 => size = 2)
    BY DEF Reader
  <1> HIDE DEF size
  <1>5. /\ ReadByte(r, "CR").state = Consume(r.state, "CR") /\ ReadByte(r, "CR").size = size
        /\ ReadByte(r, "CR").blank = FALSE /\ ReadByte(r, "CR").endsCR = TRUE
    <2>1. ReadByte(r, "CR").endsCR = ("CR" = "CR")
      BY <1>3
    <2>2. /\ ReadByte(r, "CR").state = Consume(r.state, "CR") /\ ReadByte(r, "CR").size = size
          /\ ReadByte(r, "CR").blank = FALSE
      BY <1>3
    <2> QED  BY <1>2, <2>1, <2>2
  <1> QED  BY <1>1, <1>4, <1>5, ReadByteType

\* After such a line and its newline the reader is as at the beginning.
LEMMA LineRead ==
    ASSUME NEW w \in Text, WellQuoted(w), OneLine(w), w # <<>>, Last(w) # "CR", NEW e \in Newline
    PROVE  After(NewReader, w \o e) = NewReader
  <1> DEFINE n == Len(w)
             r == After(NewReader, w)
  <1>1. n \in 1 .. Len(w) /\ n \in 0 .. Len(w) /\ n > 0 /\ n \in DOMAIN w /\ First(w, n) = w
    BY DEF First, Text
  <1>2. InTune(w, n)
    BY <1>1, InTuneThroughout
  <1>3. w[n] # "LF"
    <2> SUFFICES ASSUME w[n] = "LF" PROVE FALSE
      OBVIOUS
    <2>1. InQuotes(First(w, n - 1))
      BY <1>1 DEF OneLine
    <2>2. InQuotes(First(w, n))
      BY <1>1, <2>1, OneFurther
    <2> QED  BY <1>1, <2>2 DEF WellQuoted
  <1>4. w[n] # "CR"
    BY DEF Last
  <1>5. /\ r \in Reader /\ ~r.blank /\ r.endsCR = FALSE /\ r.size \in 1 .. 2
        /\ r.state \in {"fieldStart", "afterQuote", "unquoted"}
    <2>1. r \in Reader /\ ~r.blank /\ r.size >= 1 /\ r.endsCR = (w[n] = "CR")
      BY <1>1, <1>2, <1>3 DEF InTune
    <2>2. r.size \in 0 .. 2
      BY <2>1 DEF Reader
    <2>3. r.state \in {"fieldStart", "afterQuote", "unquoted"}
      BY <1>1, <1>2 DEF InTune, WellQuoted
    <2>4. r.endsCR = FALSE
      BY <1>4, <2>1
    <2>5. r.size \in 1 .. 2
      BY <2>1, <2>2
    <2> QED  BY <2>1, <2>3, <2>4, <2>5
  <1> HIDE DEF r
  <1>6. ReadByte(r, "LF") = NewReader
    BY <1>5, ReadLF
  <1>7. ReadByte(ReadByte(r, "CR"), "LF") = NewReader
    <2> DEFINE q == ReadByte(r, "CR")
    <2>1. q \in Reader /\ q.size = 2 /\ ~q.blank /\ q.state # "quoted"
      <3>1. r.size # 0 /\ r.state # "quoted"
        BY <1>5
      <3> QED  BY <1>5, <3>1, ReadCR
    <2> HIDE DEF q
    <2>2. ReadByte(q, "LF") = NewReader
      BY <2>1, ReadLF
    <2> QED  BY <2>2 DEF q
  <1>8. CASE e = <<"LF">>
    <2>1. w \o e = Append(w, "LF")
      BY <1>8 DEF Text
    <2>2. After(NewReader, Append(w, "LF")) = ReadByte(r, "LF")
      BY AfterOneMore, NewReaderType, NewlineSymbols DEF r
    <2> QED  BY <1>6, <2>1, <2>2
  <1>9. CASE e = <<"CR", "LF">>
    <2>1. w \o e = Append(Append(w, "CR"), "LF") /\ Append(w, "CR") \in Text
      BY <1>9, NewlineSymbols DEF Text
    <2>2. After(NewReader, Append(w, "CR")) = ReadByte(r, "CR")
      BY AfterOneMore, NewReaderType, NewlineSymbols DEF r
    <2>3. After(NewReader, Append(Append(w, "CR"), "LF"))
            = ReadByte(After(NewReader, Append(w, "CR")), "LF")
      BY <2>1, AfterOneMore, NewReaderType, NewlineSymbols
    <2> QED  BY <1>7, <2>1, <2>2, <2>3
  <1> QED  BY <1>8, <1>9, NewlineSymbols

\* The reader after one byte.
LEMMA FirstByte ==
    ASSUME NEW c \in Symbol PROVE After(NewReader, <<c>>) = ReadByte(NewReader, c)
  <1>1. After(NewReader, <<>>) = NewReader
    BY NewReaderType, AfterNothing
  <1>2. <<>> \in Text
    BY NewlineIsText
  <1>3. After(NewReader, Append(<<>>, c)) = ReadByte(After(NewReader, <<>>), c)
    BY <1>2, NewReaderType, AfterOneMore
  <1>4. <<c>> = Append(<<>>, c)
    OBVIOUS
  <1> QED  BY <1>1, <1>3, <1>4

\* A text that begins with a newline begins with a blank line.
LEMMA BlankRead ==
    ASSUME NEW e \in Newline, NEW t \in Text PROVE After(NewReader, e \o t).blank
  <1>2. After(NewReader, e) \in Reader /\ e \in Text
    BY NewReaderType, AfterType, NewlineIsText
  <1>4. After(NewReader, <<"LF">>) = ReadByte(NewReader, "LF")
    BY FirstByte, NewlineSymbols
  <1>5. After(NewReader, <<"CR">>) = ReadByte(NewReader, "CR")
    BY FirstByte, NewlineSymbols
  <1>6. After(NewReader, <<"CR", "LF">>) = ReadByte(ReadByte(NewReader, "CR"), "LF")
    <2>1. After(NewReader, Append(<<"CR">>, "LF")) = ReadByte(After(NewReader, <<"CR">>), "LF")
      <3>1. "LF" \in Symbol /\ <<"CR">> \in Text
        BY NewlineSymbols
      <3> QED  BY <3>1, NewReaderType, AfterOneMore
    <2>2. <<"CR", "LF">> = Append(<<"CR">>, "LF")
      OBVIOUS
    <2> QED  BY <1>5, <2>1, <2>2
  <1>7. ReadByte(NewReader, "LF").blank
    BY DEF ReadByte, Blank, NewReader
  <1>8. ReadByte(ReadByte(NewReader, "CR"), "LF").blank
    <2> DEFINE r == ReadByte(NewReader, "CR")
    <2>1. NewReader.state = "fieldStart" /\ NewReader.size = 0 /\ ~NewReader.blank
      BY DEF NewReader
    <2>2. r \in Reader /\ r.state # "quoted" /\ r.size = 1 /\ r.endsCR = TRUE /\ r.blank = FALSE
      BY <2>1, NewReaderType, ReadCR
    <2> HIDE DEF r
    <2>3. Blank(r, "LF") /\ ReadByte(r, "LF") = [r EXCEPT !.blank = TRUE]
      BY <2>2 DEF ReadByte, Blank
    <2> QED  BY <2>2, <2>3 DEF r, Reader
  <1>9. After(NewReader, e).blank
    BY <1>4, <1>6, <1>7, <1>8, NewlineSymbols
  <1>10. After(NewReader, e \o t) = After(After(NewReader, e), t)
    BY <1>2, NewReaderType, AfterBoth
  <1> QED  BY <1>2, <1>9, <1>10, BlankStays

-----------------------------------------------------------------------------
(***************************************************************************)
(* Two ways to cut one text.                                               *)
(***************************************************************************)
LEMMA Joined ==
    ASSUME NEW s \in Text, NEW t \in Text
    PROVE  /\ s \o t \in Text /\ Len(s \o t) = Len(s) + Len(t)
           /\ Len(s) \in Nat /\ Len(t) \in Nat
  BY DEF Text

LEMMA JoinedTwice == \A s, t, u \in Text : (s \o t) \o u = s \o (t \o u)
  BY DEF Text

LEMMA LastOfAppend ==
    ASSUME NEW s \in Text, NEW c \in Symbol PROVE Append(s, c) # <<>> /\ Last(Append(s, c)) = c
  <1>1. Len(s) \in Nat
    BY DEF Text
  <1>2. Len(Append(s, c)) = Len(s) + 1 /\ Append(s, c)[Len(s) + 1] = c
    BY DEF Text
  <1>3. Append(s, c) # <<>>
    <2>1. Len(<<>>) = 0
      OBVIOUS
    <2> QED  BY <1>1, <1>2, <2>1
  <1> QED  BY <1>2, <1>3 DEF Last

LEMMA NothingJoined == \A s \in Text : s \o <<>> = s /\ <<>> \o s = s
  BY DEF Text

LEMMA JoinedLeft ==
    ASSUME NEW s \in Text, NEW t \in Text, NEW n \in 1 .. Len(s) PROVE (s \o t)[n] = s[n]
  BY DEF Text

LEMMA JoinedRight ==
    ASSUME NEW s \in Text, NEW t \in Text, NEW n \in 1 .. Len(t) PROVE (s \o t)[Len(s) + n] = t[n]
  BY DEF Text

LEMMA SameText ==
    ASSUME NEW s \in Text, NEW t \in Text, Len(s) = Len(t), \A n \in 1 .. Len(s) : s[n] = t[n]
    PROVE  s = t
  BY DEF Text

LEMMA FirstHolds ==
    ASSUME NEW s \in Text, NEW n \in 0 .. Len(s)
    PROVE  First(s, n) \in Text /\ Len(First(s, n)) = n /\ \A k \in 1 .. n : First(s, n)[k] = s[k]
  BY DEF Text, First

\* a with b, and c with d, are one text.
OneText(a, b, c, d) == a \o b = c \o d

LEMMA SameLength ==
    ASSUME NEW a \in Text, NEW b \in Text, NEW c \in Text, NEW d \in Text, OneText(a, b, c, d)
    PROVE  Len(a) + Len(b) = Len(c) + Len(d)
  <1>1. Len(a \o b) = Len(a) + Len(b) /\ Len(c \o d) = Len(c) + Len(d)
    BY Joined
  <1>2. Len(a \o b) = Len(c \o d)
    BY DEF OneText
  <1> QED  BY <1>1, <1>2

LEMMA SameSymbol ==
    ASSUME NEW a \in Text, NEW b \in Text, NEW c \in Text, NEW d \in Text, OneText(a, b, c, d),
           NEW n \in 1 .. Len(a), n <= Len(c)
    PROVE  a[n] = c[n]
  <1>1. n \in 1 .. Len(c)
    BY Joined
  <1>2. (a \o b)[n] = a[n] /\ (c \o d)[n] = c[n]
    BY <1>1, JoinedLeft
  <1> QED  BY <1>2 DEF OneText

LEMMA SameFirst ==
    ASSUME NEW a \in Text, NEW b \in Text, NEW c \in Text, NEW d \in Text, OneText(a, b, c, d),
           NEW n \in 0 .. Len(a), n <= Len(c)
    PROVE  First(a, n) = First(c, n)
  <1>1. n \in 0 .. Len(c)
    BY Joined
  <1>2. /\ First(a, n) \in Text /\ Len(First(a, n)) = n /\ \A k \in 1 .. n : First(a, n)[k] = a[k]
        /\ First(c, n) \in Text /\ Len(First(c, n)) = n /\ \A k \in 1 .. n : First(c, n)[k] = c[k]
    BY <1>1, FirstHolds
  <1>3. ASSUME NEW k \in 1 .. n PROVE a[k] = c[k]
    <2>1. Len(a) \in Nat /\ Len(c) \in Nat
      BY Joined
    <2>2. k \in 1 .. Len(a) /\ k <= Len(c)
      BY <1>1, <2>1
    <2> QED  BY <2>2, SameSymbol
  <1> QED  BY <1>2, <1>3, SameText

\* What a has beyond its beginning c; and that it goes on, with b, as d does.
Beyond(c, a) == SubSeq(a, Len(c) + 1, Len(a))
Goes(a, b, c, d) == Beyond(c, a) \in Text /\ a = c \o Beyond(c, a) /\ Beyond(c, a) \o b = d

LEMMA SameEnd ==
    ASSUME NEW a \in Text, NEW b \in Text, NEW c \in Text, NEW d \in Text,
           OneText(a, b, c, d), Len(c) \in 0 .. Len(a)
    PROVE  Goes(a, b, c, d)
  <1> DEFINE m == SubSeq(a, Len(c) + 1, Len(a))
             r == m \o b
  <1>1. Len(a) \in Nat /\ Len(b) \in Nat /\ Len(c) \in Nat /\ Len(d) \in Nat
    BY Joined
  <1>2. Len(c) \in 0 .. Len(a)
    BY <1>1
  <1>3. First(a, Len(c)) = First(c, Len(c)) /\ Len(a) + Len(b) = Len(c) + Len(d)
    <2>1. Len(c) <= Len(c)
      BY <1>1
    <2>2. First(a, Len(c)) = First(c, Len(c))
      BY <1>2, <2>1, SameFirst
    <2>3. Len(a) + Len(b) = Len(c) + Len(d)
      BY SameLength
    <2> QED  BY <2>2, <2>3
  <1>4. First(c, Len(c)) = c
    BY DEF First, Text
  <1>5. m \in Text /\ a = c \o m
    BY <1>2, <1>3, <1>4, CutInTwo
  <1>6. Len(a) = Len(c) + Len(m) /\ Len(m) \in Nat
    BY <1>5, Joined
  <1> HIDE DEF m
  <1>7. (c \o m) \o b = c \o r
    BY <1>5 DEF Text
  <1>8. r \in Text /\ Len(r) = Len(d)
    <2>1. r \in Text /\ Len(r) = Len(m) + Len(b)
      BY <1>5, Joined
    <2> HIDE DEF r
    <2> QED  BY <1>1, <1>3, <1>6, <2>1
  <1> HIDE DEF r
  <1>9. c \o r = c \o d
    BY <1>5, <1>7 DEF OneText
  <1>10. ASSUME NEW n \in 1 .. Len(d) PROVE r[n] = d[n]
    <2>1. (c \o r)[Len(c) + n] = r[n]
      BY <1>8, JoinedRight
    <2>2. (c \o d)[Len(c) + n] = d[n]
      BY JoinedRight
    <2> QED  BY <1>9, <2>1, <2>2
  <1>11. r = d
    BY <1>8, <1>10, SameText
  <1> QED  BY <1>5, <1>11 DEF m, r, Beyond, Goes

-----------------------------------------------------------------------------
(***************************************************************************)
(* Where csv ends its rows.                                                *)
(***************************************************************************)
LEMMA RowEndHolds ==
    ASSUME buffer \in Text
    PROVE  /\ RowEnd # 0 => RowEnd \in DOMAIN buffer /\ EndsRow(RowEnd)
           /\ \A n \in DOMAIN buffer : EndsRow(n) => RowEnd # 0 /\ RowEnd <= n
  <1> DEFINE ends == {n \in DOMAIN buffer : EndsRow(n)}
             least == CHOOSE n \in ends : \A k \in ends : n <= k
  <1>1. ends \in SUBSET Nat /\ 0 \notin ends
    BY DEF Text
  <1>2. RowEnd = IF ends = {} THEN 0 ELSE least
    BY DEF RowEnd
  <1>3. ends # {} => least \in ends /\ \A k \in ends : least <= k
    <2> HIDE DEF ends
    <2> QED  BY <1>1, Least
  <1> HIDE DEF least
  <1>4. CASE ends = {}
    <2>1. RowEnd = 0
      BY <1>2, <1>4
    <2>2. \A n \in DOMAIN buffer : ~EndsRow(n)
      BY <1>4
    <2> QED  BY <2>1, <2>2
  <1>5. CASE ends # {}
    <2>1. RowEnd = least
      BY <1>2, <1>5
    <2>2. RowEnd \in ends /\ \A k \in ends : RowEnd <= k
      BY <1>3, <1>5, <2>1
    <2>3. RowEnd # 0
      BY <1>1, <2>2
    <2>4. RowEnd \in DOMAIN buffer /\ EndsRow(RowEnd)
      BY <2>2
    <2>5. \A n \in DOMAIN buffer : EndsRow(n) => RowEnd <= n
      BY <2>2
    <2> QED  BY <2>3, <2>4, <2>5
  <1> QED  BY <1>4, <1>5

\* No row ends within a line.
LEMMA RowPastLine ==
    ASSUME buffer \in Text, text \in Text, NEW w \in Text, OneLine(w), NEW v \in Text,
           buffer \o text = w \o v
    PROVE  RowEnd # 0 => RowEnd \in 1 .. Len(buffer) /\ RowEnd > Len(w)
  <1> SUFFICES ASSUME RowEnd # 0 PROVE RowEnd \in 1 .. Len(buffer) /\ RowEnd > Len(w)
    OBVIOUS
  <1> DEFINE n == RowEnd
  <1>1. n \in DOMAIN buffer /\ EndsRow(n)
    BY RowEndHolds
  <1> HIDE DEF n
  <1>2. n \in 1 .. Len(buffer) /\ Len(w) \in Nat /\ Len(buffer) \in Nat /\ DOMAIN w = 1 .. Len(w)
    BY <1>1 DEF Text
  <1>3. ASSUME n <= Len(w) PROVE FALSE
    <2>1. n \in 0 .. Len(buffer) /\ n \in DOMAIN w /\ n \in 1 .. Len(w)
      BY <1>2, <1>3
    <2>2. buffer[n] = w[n] /\ First(buffer, n) = First(w, n)
      <3>1. OneText(buffer, text, w, v)
        BY DEF OneText
      <3>2. buffer[n] = w[n]
        BY <1>2, <1>3, <2>1, <3>1, SameSymbol
      <3>3. First(buffer, n) = First(w, n)
        BY <1>3, <2>1, <3>1, SameFirst
      <3> QED  BY <3>2, <3>3
    <2>3. w[n] = "LF" /\ ~InQuotes(First(w, n))
      BY <1>1, <2>2 DEF EndsRow
    <2>4. InQuotes(First(w, n - 1))
      BY <2>1, <2>3 DEF OneLine
    <2> QED  BY <2>1, <2>3, <2>4, OneFurther
  <1> QED  BY <1>2, <1>3 DEF n

LEMMA RowEndsAt ==
    ASSUME buffer \in Text, text \in Text, NEW x \in Text, NEW v \in Text, buffer \o text = x \o v,
           x # <<>>, Last(x) = "LF", ~InQuotes(x)
    PROVE  /\ Len(x) <= Len(buffer) => RowEnd # 0 /\ RowEnd <= Len(x)
           /\ text = <<>> => Len(x) <= Len(buffer)
  <1>0. OneText(buffer, text, x, v)
    BY DEF OneText
  <1>1. Len(x) \in Nat /\ Len(v) \in Nat /\ Len(buffer) \in Nat /\ DOMAIN buffer = 1 .. Len(buffer)
    BY DEF Text
  <1>2. Len(x) \in 1 .. Len(x) /\ First(x, Len(x)) = x /\ x[Len(x)] = "LF"
    BY DEF First, Text, Last
  <1>3. ASSUME Len(x) <= Len(buffer) PROVE RowEnd # 0 /\ RowEnd <= Len(x)
    <2>1. Len(x) \in 1 .. Len(buffer) /\ Len(x) \in 0 .. Len(buffer) /\ Len(x) <= Len(x)
      BY <1>1, <1>2, <1>3
    <2>2. buffer[Len(x)] = x[Len(x)]
      BY <1>0, <2>1, SameSymbol
    <2>3. First(buffer, Len(x)) = First(x, Len(x))
      BY <1>0, <2>1, SameFirst
    <2>4. EndsRow(Len(x))
      BY <1>2, <2>2, <2>3 DEF EndsRow
    <2> QED  BY <1>1, <2>1, <2>4, RowEndHolds
  <1>4. ASSUME text = <<>> PROVE Len(x) <= Len(buffer)
    <2>1. Len(buffer) + Len(text) = Len(x) + Len(v)
      BY <1>0, SameLength
    <2>2. Len(text) = 0
      BY <1>4
    <2> QED  BY ONLY <1>1, <2>1, <2>2
  <1> QED  BY <1>3, <1>4

LEMMA RowEndSymbol ==
    ASSUME buffer \in Text, text \in Text, NEW x \in Text, NEW v \in Text, buffer \o text = x \o v,
           RowEnd # 0, RowEnd <= Len(x)
    PROVE  x[RowEnd] = "LF"
  <1>1. RowEnd \in DOMAIN buffer /\ buffer[RowEnd] = "LF"
    BY RowEndHolds DEF EndsRow
  <1>2. RowEnd \in 1 .. Len(buffer)
    BY <1>1 DEF Text
  <1>3. OneText(buffer, text, x, v)
    BY DEF OneText
  <1>4. buffer[RowEnd] = x[RowEnd]
    BY <1>2, <1>3, SameSymbol
  <1> QED  BY <1>1, <1>4

\* One ends with a line that ends outside quotes.
LEMMA RowIsLine ==
    ASSUME buffer \in Text, text \in Text, NEW w \in Text, OneLine(w), ~InQuotes(w),
           NEW e \in Newline, NEW v \in Text, buffer \o text = (w \o e) \o v
    PROVE  /\ RowEnd # 0 => RowEnd = Len(w) + Len(e) /\ RowEnd \in 1 .. Len(buffer)
           /\ text = <<>> => RowEnd # 0
  <1> DEFINE x == w \o e
  <1>1. /\ e \in Text /\ x \in Text /\ Len(x) = Len(w) + Len(e)
        /\ Len(w) \in Nat /\ Len(e) \in Nat /\ Len(v) \in Nat /\ Len(buffer) \in Nat
    <2>1. e \in Text /\ Len(buffer) \in Nat
      BY NewlineIsText DEF Text
    <2> QED  BY <2>1, Joined
  <1>2. PICK u \in Text : buffer \o text = w \o u
    <2>1. e \in Text
      BY <1>1
    <2>2. (w \o e) \o v = w \o (e \o v)
      BY <2>1, JoinedTwice
    <2>3. e \o v \in Text
      BY <2>1, Joined
    <2> QED  BY <2>2, <2>3
  <1>3. RowEnd # 0 => RowEnd \in 1 .. Len(buffer) /\ RowEnd > Len(w)
    BY <1>2, RowPastLine
  <1>4. x # <<>> /\ Last(x) = "LF" /\ ~InQuotes(x)
    <2>1. CASE e = <<"LF">>
      <3>1. x = Append(w, "LF")
        BY <2>1 DEF Text
      <3>2. ~InQuotes(Append(w, "LF"))
        BY NewlineSymbols, QuotesOneMore
      <3>3. Append(w, "LF") # <<>> /\ Last(Append(w, "LF")) = "LF"
        BY LastOfAppend, NewlineSymbols
      <3> HIDE DEF x
      <3> QED  BY ONLY <3>1, <3>2, <3>3
    <2>2. CASE e = <<"CR", "LF">>
      <3>1. x = Append(Append(w, "CR"), "LF") /\ Append(w, "CR") \in Text
        BY <2>2, NewlineSymbols DEF Text
      <3>2. ~InQuotes(Append(w, "CR"))
        BY NewlineSymbols, QuotesOneMore
      <3>3. ~InQuotes(Append(Append(w, "CR"), "LF"))
        BY <3>1, <3>2, NewlineSymbols, QuotesOneMore
      <3>4. x # <<>> /\ Last(x) = "LF"
        <4> DEFINE y == Append(w, "CR")
        <4>1. x = Append(y, "LF") /\ y \in Text
          BY <3>1
        <4> HIDE DEF x, y
        <4> QED  BY <4>1, LastOfAppend, NewlineSymbols
      <3> QED  BY <3>1, <3>3, <3>4
    <2> QED  BY <2>1, <2>2, NewlineSymbols
  <1>5. /\ Len(x) <= Len(buffer) => RowEnd # 0 /\ RowEnd <= Len(x)
        /\ text = <<>> => Len(x) <= Len(buffer)
    <2> HIDE DEF x
    <2> SUFFICES buffer \o text = x \o v
      BY <1>1, <1>4, RowEndsAt
    <2> QED  BY DEF x
  <1>6. ASSUME RowEnd # 0 PROVE RowEnd = Len(w) + Len(e)
    <2>1. CASE e = <<"LF">>
      <3>1. Len(e) = 1
        BY <2>1
      <3> QED  BY <1>1, <1>3, <1>5, <1>6, <3>1
    <2>2. CASE e = <<"CR", "LF">>
      <3>1. Len(e) = 2 /\ e[1] = "CR"
        BY <2>2
      <3>2. RowEnd # Len(w) + 1
        <4> SUFFICES ASSUME RowEnd = Len(w) + 1 PROVE FALSE
          OBVIOUS
        <4>1. x[RowEnd] = "LF"
          <5>1. RowEnd <= Len(x) /\ buffer \o text = x \o v
            BY <1>5, <1>1, <1>3, <1>6
          <5> HIDE DEF x
          <5> QED  BY <1>1, <1>6, <5>1, RowEndSymbol
        <4>2. x[Len(w) + 1] = "CR"
          BY <1>1, <3>1, JoinedRight
        <4> QED  BY <4>1, <4>2
      <3> QED  BY <1>1, <1>3, <1>5, <1>6, <3>1, <3>2
    <2> QED  BY <2>1, <2>2, NewlineSymbols
  <1> QED  BY <1>3, <1>5, <1>6, <1>1

-----------------------------------------------------------------------------
(***************************************************************************)
(* What csv makes of a line.                                               *)
(***************************************************************************)
\* The line without the CR of a CRLF.
Bare(line) == IF line # <<>> /\ Last(line) = "CR" THEN Front(line) ELSE line

LEMMA KindOfHolds ==
    ASSUME NEW line
    PROVE  /\ KindOf(line) = "skip" <=> Bare(line) = <<>>
           /\ KindOf(line) \notin {"skip", "bad"} =>
                 KindOf(line) \in DOMAIN LineText /\ LineText[KindOf(line)] = Bare(line)
           /\ \A k \in DOMAIN LineText :
                 Bare(line) # <<>> /\ LineText[k] = Bare(line) =>
                    KindOf(line) \in DOMAIN LineText /\ LineText[KindOf(line)] = Bare(line)
  <1> DEFINE b == Bare(line)
             kinds == {k \in DOMAIN LineText : LineText[k] = b}
             one == CHOOSE k \in kinds : TRUE
  <1>1. KindOf(line) = IF b = <<>> THEN "skip" ELSE IF kinds = {} THEN "bad" ELSE one
    BY DEF KindOf, Bare
  <1>2. kinds # {} => one \in kinds
    <2> HIDE DEF kinds
    <2> QED  OBVIOUS
  <1>3. "skip" \notin DOMAIN LineText
    BY LinesAssumption
  <1> HIDE DEF one, b
  <1>4. CASE b = <<>>
    BY <1>1, <1>4 DEF b
  <1>5. CASE b # <<>> /\ kinds = {}
    BY <1>1, <1>5 DEF b
  <1>6. CASE b # <<>> /\ kinds # {}
    <2>1. KindOf(line) \in DOMAIN LineText /\ LineText[KindOf(line)] = b
      BY <1>1, <1>2, <1>6
    <2> QED  BY <1>3, <1>6, <2>1 DEF b
  <1> QED  BY <1>4, <1>5, <1>6

LEMMA BareText ==
    ASSUME NEW w \in Text
    PROVE  /\ w = <<>> \/ Last(w) # "CR" => Bare(w) = w
           /\ Bare(Append(w, "CR")) = w
  <1> DEFINE y == Append(w, "CR")
  <1>1. y # <<>> /\ Last(y) = "CR" /\ Front(y) = w
    <2>1. w \in Seq(Symbol) /\ "CR" \in Symbol
      BY NewlineSymbols DEF Text
    <2>2. y \in Seq(Symbol) /\ Len(y) = Len(w) + 1 /\ y[Len(w) + 1] = "CR" /\ Len(w) \in Nat
      BY <2>1
    <2>3. SubSeq(y, 1, Len(w)) = w
      BY <2>1
    <2> HIDE DEF y
    <2>4. Front(y) = SubSeq(y, 1, Len(w))
      BY <2>2 DEF Front
    <2> QED  BY <2>2, <2>3, <2>4 DEF Last
  <1> HIDE DEF y
  <1> QED  BY <1>1 DEF Bare, y

\* The lines that csv splits into eight fields have well-formed text.
LEMMA GoodLine ==
    ASSUME NEW g \in Good \cap DOMAIN LineText
    PROVE  LET w == LineText[g]
           IN  /\ w \in Text /\ WellQuoted(w) /\ ~InQuotes(w) /\ OneLine(w)
               /\ w # <<>> /\ Last(w) # "CR" /\ g \notin {"skip", "bad", "blank", "cr"}
  <1>1. g \notin {"skip", "bad", "blank", "cr"}
    BY LinesAssumption
  <1> QED  BY <1>1, LinesAssumption, FilesAssumption DEF OneLine, WellQuoted, Text

LEMMA KindOfGood ==
    ASSUME NEW g \in Good \cap DOMAIN LineText, NEW line, Bare(line) = LineText[g]
    PROVE  KindOf(line) = g
  <1>1. Bare(line) # <<>>
    BY GoodLine
  <1>2. KindOf(line) \in DOMAIN LineText /\ LineText[KindOf(line)] = LineText[g]
    BY <1>1, KindOfHolds
  <1> QED  BY <1>2, LinesAssumption

\* A line that has the text of no such one is not taken for one,
LEMMA KindOfOther ==
    ASSUME NEW k \in DOMAIN LineText \ Good, LineText[k] # <<>>, NEW line, Bare(line) = LineText[k]
    PROVE  KindOf(line) \notin Good \cup {"skip"}
  <1>1. KindOf(line) # "skip"
    BY KindOfHolds
  <1>2. ASSUME KindOf(line) \in Good PROVE FALSE
    <2>1. KindOf(line) \in DOMAIN LineText /\ LineText[KindOf(line)] = LineText[k]
      BY KindOfHolds
    <2> QED  BY <1>2, <2>1, LinesAssumption
  <1> QED  BY <1>1, <1>2

\* nor is a text that begins with it and goes on after a newline.
LEMMA KindOfLonger ==
    ASSUME NEW k \in DOMAIN LineText \ Good, NEW nl \in Newline,
           NEW line \in Text, Covers(LineText[k] \o nl, line)
    PROVE  KindOf(line) \notin Good \cup {"skip"}
  <1> DEFINE w == LineText[k]
             x == w \o nl
             b == Bare(line)
  <1>1. w \in Text /\ x \in Text /\ nl \in Text /\ Len(x) \in Nat \ {0} /\ x[Len(x)] = "LF"
    <2>1. w \in Text
      BY FilesAssumption DEF Text
    <2>2. nl \in Text /\ Len(nl) \in 1 .. Len(nl) /\ nl[Len(nl)] = "LF"
      BY NewlineSymbols DEF Newline
    <2>3. x \in Text /\ Len(x) = Len(w) + Len(nl) /\ Len(w) \in Nat /\ Len(nl) \in Nat
      BY <2>1, <2>2, Joined
    <2>4. x[Len(w) + Len(nl)] = nl[Len(nl)]
      BY <2>1, <2>2, JoinedRight
    <2> HIDE DEF x
    <2> QED  BY <2>1, <2>2, <2>3, <2>4
  <1>2. Len(x) <= Len(line) /\ First(line, Len(x)) = x
    BY DEF Covers
  <1> HIDE DEF x
  <1>3. line \in Seq(Symbol) /\ Len(line) \in Nat
    BY DEF Text
  <1>4. line # <<>> /\ line[Len(x)] = "LF"
    BY <1>1, <1>2, <1>3 DEF First
  <1>5. Len(x) <= Len(b) /\ First(b, Len(x)) = x
    <2>1. CASE Last(line) = "CR"
      <3>1. b = SubSeq(line, 1, Len(line) - 1)
        BY <1>4, <2>1 DEF Bare, Front
      <3>2. Len(x) # Len(line)
        BY <1>4, <2>1 DEF Last
      <3>3. Len(x) <= Len(line) - 1
        BY <1>1, <1>2, <1>3, <3>2
      <3>4. Len(b) = Len(line) - 1 /\ \A n \in 1 .. Len(x) : b[n] = line[n]
        BY <1>1, <1>3, <3>1, <3>3
      <3>5. b \in Text
        BY <1>3, <3>1, <3>3, <1>1 DEF Text
      <3> HIDE DEF b
      <3>6. First(b, Len(x)) \in Text /\ Len(First(b, Len(x))) = Len(x)
            /\ \A n \in 1 .. Len(x) : First(b, Len(x))[n] = b[n]
        BY <1>1, <3>3, <3>4, <3>5, FirstHolds
      <3>7. \A n \in 1 .. Len(x) : x[n] = line[n]
        BY <1>1, <1>2, <1>3 DEF First
      <3>8. First(b, Len(x)) = x
        BY <1>1, <3>4, <3>6, <3>7, SameText
      <3> QED  BY <3>3, <3>4, <3>8
    <2>2. CASE Last(line) # "CR"
      BY <1>2, <2>2 DEF Bare
    <2> QED  BY <2>1, <2>2
  <1>6. KindOf(line) # "skip"
    <2>1. Len(b) # 0
      BY <1>1, <1>5
    <2> QED  BY <2>1, KindOfHolds
  <1>7. ASSUME KindOf(line) \in Good PROVE FALSE
    <2>1. KindOf(line) # "bad"
      BY <1>7, LinesAssumption
    <2>2. KindOf(line) \in Good \cap DOMAIN LineText /\ LineText[KindOf(line)] = b
      BY <1>6, <1>7, <2>1, KindOfHolds
    <2>3. Covers(x, LineText[KindOf(line)])
      BY <1>5, <2>2 DEF Covers
    <2> HIDE DEF b
    <2>4. k # KindOf(line)
      BY <1>7
    <2> QED  BY <2>2, <2>3, <2>4, LinesAssumption DEF x
  <1> QED  BY <1>6, <1>7

-----------------------------------------------------------------------------
(***************************************************************************)
(* The row that csv takes, by the line the buffer begins with.             *)
(***************************************************************************)
\* line is the row, rest what it leaves of the buffer, as Row and LastRow have it.
Taken(line, rest) ==
    \/ /\ RowEnd # 0
       /\ line = First(buffer, RowEnd - 1) /\ rest = SubSeq(buffer, RowEnd + 1, Len(buffer))
    \/ RowEnd = 0 /\ buffer # <<>> /\ text = <<>> /\ line = buffer /\ rest = <<>>

LEMMA OneLineOn ==
    ASSUME NEW w \in Text, OneLine(w), NEW c \in Symbol, c = "LF" => InQuotes(w)
    PROVE  OneLine(Append(w, c))
  <1> DEFINE y == Append(w, c)
  <1>1. y \in Text /\ Len(w) \in Nat /\ Len(y) = Len(w) + 1 /\ y[Len(w) + 1] = c
    BY DEF Text
  <1>2. \A n \in 1 .. Len(w) : y[n] = w[n] /\ First(y, n - 1) = First(w, n - 1)
    BY DEF Text, First
  <1>3. First(y, Len(w)) = w
    BY DEF Text, First
  <1> HIDE DEF y
  <1>4. ASSUME NEW n \in DOMAIN y, y[n] = "LF" PROVE InQuotes(First(y, n - 1))
    <2>1. n \in 1 .. Len(w) \/ n = Len(w) + 1
      BY <1>1 DEF Text
    <2>2. CASE n \in 1 .. Len(w)
      <3>1. n \in DOMAIN w
        BY <2>2 DEF Text
      <3> QED  BY <1>2, <1>4, <2>2, <3>1 DEF OneLine
    <2>3. CASE n = Len(w) + 1
      <3>1. n - 1 = Len(w)
        BY <1>1, <2>3
      <3> QED  BY <1>1, <1>3, <1>4, <2>3, <3>1
    <2> QED  BY <2>1, <2>2, <2>3
  <1> QED  BY <1>4 DEF OneLine, y

LEMMA LinesOn ==
    ASSUME NEW w \in Text, OneLine(w), InQuotes(w), NEW e \in Newline
    PROVE  OneLine(w \o e)
  <1>1. CASE e = <<"LF">>
    <2>1. w \o e = Append(w, "LF")
      BY <1>1 DEF Text
    <2> QED  BY <2>1, OneLineOn, NewlineSymbols
  <1>2. CASE e = <<"CR", "LF">>
    <2>1. w \o e = Append(Append(w, "CR"), "LF") /\ Append(w, "CR") \in Text
      BY <1>2, NewlineSymbols DEF Text
    <2>2. OneLine(Append(w, "CR")) /\ InQuotes(Append(w, "CR"))
      <3>1. OneLine(Append(w, "CR"))
        BY OneLineOn, NewlineSymbols
      <3>2. InQuotes(Append(w, "CR"))
        BY QuotesOneMore, NewlineSymbols
      <3> QED  BY <3>1, <3>2
    <2> QED  BY <2>1, <2>2, OneLineOn, NewlineSymbols
  <1> QED  BY <1>1, <1>2, NewlineSymbols

\* No row ends in a last line without a newline.
LEMMA NoRowEnds ==
    ASSUME buffer \in Text, text \in Text, NEW w \in Text, OneLine(w), buffer \o text = w
    PROVE  RowEnd = 0
  <1>1. <<>> \in Text /\ w = w \o <<>>
    BY NewlineIsText DEF Text
  <1>2. RowEnd # 0 => RowEnd \in 1 .. Len(buffer) /\ RowEnd > Len(w)
    BY <1>1, RowPastLine
  <1>3. Len(buffer) + Len(text) = Len(w) /\ Len(buffer) \in Nat /\ Len(text) \in Nat
    BY Joined
  <1> QED  BY <1>2, <1>3

\* What the buffer begins with.
LEMMA BufferBegins ==
    ASSUME buffer \in Text, text \in Text, NEW x \in Text, NEW v \in Text, buffer \o text = x \o v,
           Len(x) <= Len(buffer)
    PROVE  /\ SubSeq(buffer, Len(x) + 1, Len(buffer)) \in Text
           /\ buffer = x \o SubSeq(buffer, Len(x) + 1, Len(buffer))
           /\ SubSeq(buffer, Len(x) + 1, Len(buffer)) \o text = v
           /\ \A n \in 0 .. Len(x) : First(buffer, n) = First(x, n)
  <1>0. OneText(buffer, text, x, v)
    BY DEF OneText
  <1>1. ASSUME NEW n \in 0 .. Len(x) PROVE First(buffer, n) = First(x, n)
    <2>1. n \in 0 .. Len(buffer) /\ n <= Len(x)
      BY DEF Text
    <2> QED  BY <1>0, <2>1, SameFirst
  <1>2. Goes(buffer, text, x, v)
    <2>1. Len(x) \in 0 .. Len(buffer)
      BY DEF Text
    <2> QED  BY <1>0, <2>1, SameEnd
  <1> QED  BY <1>1, <1>2 DEF Beyond, Goes

\* The row of a line with an even number of quotes.
TookLine(w, e, v, line, rest) ==
    /\ line = IF e = <<"LF">> THEN w ELSE Append(w, "CR")
    /\ rest \in Text /\ buffer = (w \o e) \o rest /\ rest \o text = v

LEMMA TakenLine ==
    ASSUME buffer \in Text, text \in Text, NEW w \in Text, OneLine(w), ~InQuotes(w),
           NEW e \in Newline, NEW v \in Text, OneText(buffer, text, w \o e, v),
           NEW line, NEW rest, Taken(line, rest)
    PROVE  TookLine(w, e, v, line, rest)
  <1>0. buffer \o text = (w \o e) \o v
    BY DEF OneText
  <1>1. e \in Text
    BY NewlineIsText
  <1>2. PICK x \in Text : x = w \o e
    BY <1>1, Joined
  <1>3. Len(x) = Len(w) + Len(e) /\ Len(w) \in Nat /\ Len(e) \in Nat
    BY <1>1, <1>2, Joined
  <1>4. RowEnd # 0 => RowEnd = Len(x) /\ RowEnd \in 1 .. Len(buffer)
    BY <1>0, <1>1, <1>3, RowIsLine
  <1>5. RowEnd # 0
    BY <1>0, RowIsLine DEF Taken
  <1>6. /\ Len(x) <= Len(buffer) /\ rest = SubSeq(buffer, Len(x) + 1, Len(buffer))
        /\ line = First(buffer, Len(x) - 1)
    BY <1>4, <1>5 DEF Taken
  <1>7. buffer \o text = x \o v
    BY <1>0, <1>2
  <1>8. First(x, Len(x) - 1) = IF e = <<"LF">> THEN w ELSE Append(w, "CR")
    <2>1. CASE e = <<"LF">>
      <3>1. x = Append(w, "LF")
        BY <1>2, <2>1 DEF Text
      <3> QED  BY <2>1, <3>1 DEF First, Text
    <2>2. CASE e = <<"CR", "LF">>
      <3>1. x = Append(Append(w, "CR"), "LF") /\ Append(w, "CR") \in Text
        BY <1>2, <2>2, NewlineSymbols DEF Text
      <3>2. ASSUME NEW y \in Text PROVE First(Append(y, "LF"), Len(Append(y, "LF")) - 1) = y
        BY DEF First, Text
      <3>3. First(x, Len(x) - 1) = Append(w, "CR")
        BY <3>1, <3>2
      <3>4. e # <<"LF">>
        <4>1. Len(<<"LF">>) = 1 /\ Len(<<"CR", "LF">>) = 2
          OBVIOUS
        <4> QED  BY <2>2, <4>1
      <3> QED  BY <3>3, <3>4
    <2> QED  BY <2>1, <2>2, NewlineSymbols
  <1>9. rest \in Text /\ buffer = x \o rest /\ rest \o text = v
    <2>1. Len(x) <= Len(buffer)
      BY <1>6
    <2> QED  BY <1>6, <1>7, <2>1, BufferBegins
  <1>10. First(buffer, Len(x) - 1) = First(x, Len(x) - 1)
    <2>1. Len(x) - 1 \in 0 .. Len(x) /\ Len(x) <= Len(buffer)
      BY <1>3, <1>4, <1>5, <1>6
    <2>2. \A n \in 0 .. Len(x) : First(buffer, n) = First(x, n)
      BY <1>7, <2>1, BufferBegins
    <2> QED  BY <2>1, <2>2
  <1> QED  BY <1>6, <1>8, <1>9, <1>10, <1>2 DEF TookLine

\* The row is k's, and v is left, with the reader at the beginning of rest.
Took(k, line, rest, v) ==
    /\ KindOf(line) = k /\ rest \in Text /\ rest \o text = v
    /\ rest \o text # <<>> => reader = After(NewReader, rest)

\* What csv makes of a row and what it leaves, if the row begins with a line
\* that has eight fields,
LEMMA TakenGood ==
    ASSUME buffer \in Text, text \in Text, NEW g \in Good \cap DOMAIN LineText,
           NEW e \in Newline \cup {<<>>}, NEW v \in Text, e = <<>> => v = <<>>,
           buffer \o text = (LineText[g] \o e) \o v, reader = After(NewReader, buffer),
           NEW line, NEW rest, Taken(line, rest)
    PROVE  Took(g, line, rest, v)
  <1> DEFINE w == LineText[g]
  <1>1. /\ w \in Text /\ WellQuoted(w) /\ ~InQuotes(w) /\ OneLine(w)
        /\ w # <<>> /\ Last(w) # "CR"
    BY GoodLine
  <1>2. Bare(w) = w /\ Bare(Append(w, "CR")) = w
    BY <1>1, BareText
  <1> HIDE DEF w
  <1>3. CASE e = <<>>
    <2>1. buffer \o text = w /\ v = <<>>
      <3>1. v = <<>> /\ (w \o <<>>) \o <<>> = w
        BY <1>1, <1>3 DEF Text
      <3> QED  BY <1>3, <3>1 DEF w
    <2>2. RowEnd = 0
      BY <1>1, <2>1, NoRowEnds
    <2>3. text = <<>> /\ line = buffer /\ rest = <<>>
      BY <2>2 DEF Taken
    <2>4. buffer = w
      BY <2>1, <2>3 DEF Text
    <2>5. <<>> \in Text /\ <<>> \o <<>> = <<>>
      BY NewlineIsText DEF Text
    <2>6. KindOf(line) = g
      BY <1>2, <2>3, <2>4, KindOfGood DEF w
    <2> QED  BY <2>1, <2>3, <2>5, <2>6 DEF Took
  <1>4. CASE e \in Newline
    <2>1. OneText(buffer, text, w \o e, v)
      BY DEF w, OneText
    <2>2. /\ line = IF e = <<"LF">> THEN w ELSE Append(w, "CR")
          /\ rest \in Text /\ buffer = (w \o e) \o rest /\ rest \o text = v
      <3>1. TookLine(w, e, v, line, rest)
        BY <1>1, <1>4, <2>1, TakenLine
      <3> QED  BY <3>1 DEF TookLine
    <2>3. KindOf(line) = g
      BY <1>2, <2>2, KindOfGood DEF w
    <2>4. After(NewReader, w \o e) = NewReader
      BY <1>1, <1>4, LineRead
    <2>5. w \o e \in Text
      BY <1>1, <1>4, NewlineIsText, Joined
    <2>6. After(NewReader, (w \o e) \o rest) = After(After(NewReader, w \o e), rest)
      BY <2>2, <2>5, NewReaderType, AfterBoth
    <2> QED  BY <2>2, <2>3, <2>4, <2>6 DEF Took
  <1> QED  BY <1>3, <1>4

\* with any other,
LEMMA TakenOther ==
    ASSUME buffer \in Text, text \in Text, NEW k \in DOMAIN LineText \ Good, LineText[k] # <<>>,
           OneLine(LineText[k]), NEW e \in Newline \cup {<<>>},
           Last(LineText[k]) # "CR" \/ e = <<"CR", "LF">>,
           NEW v \in Text, e = <<>> => v = <<>>,
           buffer \o text = (LineText[k] \o e) \o v, NEW line, NEW rest, Taken(line, rest)
    PROVE  KindOf(line) \notin Good \cup {"skip"}
  <1>1. PICK w \in Text : w = LineText[k]
    BY FilesAssumption DEF Text
  <1>2. Last(w) # "CR" => Bare(w) = w
    BY BareText
  <1>3. Bare(Append(w, "CR")) = w
    BY BareText
  <1>4. \A l : Bare(l) = w => KindOf(l) \notin Good \cup {"skip"}
    BY <1>1, KindOfOther
  <1>5. CASE e = <<>>
    <2>1. buffer \o text = w
      <3>1. v = <<>> /\ (w \o <<>>) \o <<>> = w
        BY <1>5 DEF Text
      <3> QED  BY <1>1, <1>5, <3>1
    <2>2. RowEnd = 0
      BY <1>1, <2>1, NoRowEnds
    <2>3. text = <<>> /\ line = buffer
      BY <2>2 DEF Taken
    <2>4. buffer = w
      BY <2>1, <2>3 DEF Text
    <2>5. Last(w) # "CR"
      <3>1. Len(<<>>) = 0 /\ Len(<<"CR", "LF">>) = 2
        OBVIOUS
      <3> QED  BY <1>1, <1>5, <3>1
    <2> QED  BY <1>2, <1>4, <2>3, <2>4, <2>5
  <1>6. CASE e \in Newline /\ ~InQuotes(w)
    <2>1. OneText(buffer, text, w \o e, v) /\ OneLine(w)
      BY <1>1 DEF OneText
    <2>2. line = IF e = <<"LF">> THEN w ELSE Append(w, "CR")
      <3>1. TookLine(w, e, v, line, rest)
        BY <1>6, <2>1, TakenLine
      <3> QED  BY <3>1 DEF TookLine
    <2>3. CASE e = <<"LF">>
      <3>1. Last(w) # "CR"
        <4>1. Len(<<"LF">>) = 1 /\ Len(<<"CR", "LF">>) = 2
          OBVIOUS
        <4> QED  BY <1>1, <2>3, <4>1
      <3> QED  BY <1>2, <1>4, <2>2, <2>3, <3>1
    <2>4. CASE e # <<"LF">>
      BY <1>3, <1>4, <2>2, <2>4
    <2> QED  BY <2>3, <2>4
  <1>7. CASE e \in Newline /\ InQuotes(w)
    <2>1. PICK x \in Text : x = w \o e
      BY <1>7, NewlineIsText, Joined
    <2>2. buffer \o text = x \o v /\ OneLine(x)
      BY <1>1, <1>7, <2>1, LinesOn
    <2>3. line \in Text /\ Covers(x, line)
      <3>1. CASE RowEnd # 0
        <4>1. RowEnd \in 1 .. Len(buffer) /\ RowEnd > Len(x)
          BY <2>2, <3>1, RowPastLine
        <4>2. line = First(buffer, RowEnd - 1)
          BY <3>1 DEF Taken
        <4>3. Len(x) \in Nat /\ Len(buffer) \in Nat
          BY Joined
        <4>4. RowEnd - 1 \in 0 .. Len(buffer) /\ Len(x) <= RowEnd - 1 /\ Len(x) <= Len(buffer)
          BY <4>1, <4>3
        <4>5. line \in Text /\ Len(line) = RowEnd - 1
          BY <4>2, <4>4, FirstHolds
        <4>6. First(line, Len(x)) = First(buffer, Len(x))
          BY <4>1, <4>2, <4>3, <4>4, <4>5 DEF First, Text
        <4>7. First(buffer, Len(x)) = First(x, Len(x))
          <5>1. Len(x) \in 0 .. Len(x)
            BY <4>3
          <5>2. \A n \in 0 .. Len(x) : First(buffer, n) = First(x, n)
            BY <2>2, <4>4, BufferBegins
          <5> QED  BY <5>1, <5>2
        <4>8. First(x, Len(x)) = x
          BY DEF First, Text
        <4> QED  BY <4>4, <4>5, <4>6, <4>7, <4>8 DEF Covers
      <3>2. CASE RowEnd = 0
        <4>1. text = <<>> /\ line = buffer
          BY <3>2 DEF Taken
        <4>2. Len(buffer) + Len(text) = Len(x) + Len(v)
          BY <2>2, SameLength DEF OneText
        <4>3. Len(text) = 0 /\ Len(x) \in Nat /\ Len(v) \in Nat /\ Len(buffer) \in Nat
          BY <4>1, Joined
        <4>4. Len(x) <= Len(buffer)
          BY <4>2, <4>3
        <4>5. First(buffer, Len(x)) = First(x, Len(x))
          <5>1. Len(x) \in 0 .. Len(x)
            BY <4>3
          <5>2. \A n \in 0 .. Len(x) : First(buffer, n) = First(x, n)
            BY <2>2, <4>4, BufferBegins
          <5> QED  BY <5>1, <5>2
        <4>6. First(x, Len(x)) = x
          BY DEF First, Text
        <4> QED  BY <4>1, <4>4, <4>5, <4>6 DEF Covers
      <3> QED  BY <3>1, <3>2
    <2>4. Covers(LineText[k] \o e, line)
      BY <1>1, <2>1, <2>3
    <2> QED  BY <1>7, <2>3, <2>4, KindOfLonger
  <1> QED  BY <1>5, <1>6, <1>7

\* with a blank line, which the reader must have reported,
LEMMA TakenBlank ==
    ASSUME buffer \in Text, text \in Text, NEW c \in Newline, NEW v \in Text,
           buffer \o text = c \o v, reader = After(NewReader, buffer),
           NEW line, NEW rest, Taken(line, rest)
    PROVE  reader.blank
  <1>0. OneText(buffer, text, c, v)
    BY DEF OneText
  <1>1. c \in Text /\ Len(buffer) \in Nat /\ Len(text) \in Nat /\ Len(v) \in Nat
    BY NewlineIsText, Joined
  <1>2. Len(c) <= Len(buffer)
    <2>1. CASE RowEnd = 0
      <3>1. Len(text) = 0
        BY <2>1 DEF Taken
      <3>2. Len(buffer) + Len(text) = Len(c) + Len(v)
        BY <1>0, <1>1, SameLength
      <3>3. Len(c) \in Nat
        BY <1>1, Joined
      <3> QED  BY <1>1, <3>1, <3>2, <3>3
    <2>2. CASE RowEnd # 0 /\ c = <<"LF">>
      <3>1. RowEnd \in 1 .. Len(buffer)
        BY <2>2, RowEndHolds DEF Text
      <3>2. Len(c) = 1
        BY <2>2
      <3> QED  BY <1>1, <3>1, <3>2
    <2>3. CASE RowEnd # 0 /\ c = <<"CR", "LF">>
      <3>1. PICK w \in Text : w = <<"CR">>
        BY NewlineSymbols
      <3>2. PICK u \in Text : u = <<"LF">> \o v
        BY NewlineSymbols, Joined
      <3>3. w \o u = c \o v
        <4>1. (<<"CR">> \o <<"LF">>) \o v = <<"CR">> \o (<<"LF">> \o v)
          BY NewlineSymbols DEF Text
        <4>2. <<"CR">> \o <<"LF">> = <<"CR", "LF">>
          <5>1. \A s \in Text : s \o <<"LF">> = Append(s, "LF")
            BY DEF Text
          <5> QED  BY <5>1, NewlineSymbols
        <4> QED  BY <2>3, <3>1, <3>2, <4>1, <4>2
      <3>4. Len(w) = 1 /\ OneLine(w)
        BY <3>1 DEF OneLine
      <3>5. RowEnd \in 1 .. Len(buffer) /\ RowEnd > Len(w)
        <4>1. buffer \o text = w \o u
          BY <3>3
        <4> QED  BY <2>3, <3>4, <4>1, RowPastLine
      <3>6. Len(c) = 2
        BY <2>3
      <3> QED  BY <1>1, <3>4, <3>5, <3>6
    <2> QED  BY <2>1, <2>2, <2>3, NewlineSymbols
  <1>3. Goes(buffer, text, c, v)
    <2>1. Len(c) \in 0 .. Len(buffer)
      BY <1>1, <1>2, Joined
    <2> QED  BY <1>0, <1>1, <2>1, SameEnd
  <1>4. Beyond(c, buffer) \in Text /\ buffer = c \o Beyond(c, buffer)
    BY <1>3 DEF Goes
  <1>5. After(NewReader, c \o Beyond(c, buffer)).blank
    BY <1>4, BlankRead
  <1> QED  BY <1>4, <1>5

\* and with a blank last line without a newline.
LEMMA TakenNothing ==
    ASSUME buffer \in Text, text \in Text, NEW w \in {<<>>, <<"CR">>}, buffer \o text = w,
           NEW line, NEW rest, Taken(line, rest)
    PROVE  KindOf(line) = "skip" /\ rest = <<>> /\ text = <<>>
  <1>1. w \in Text /\ OneLine(w)
    <2>1. \A n \in DOMAIN w : w[n] # "LF"
      OBVIOUS
    <2> QED  BY <2>1, NewlineIsText, NewlineSymbols DEF OneLine
  <1>2. RowEnd = 0
    BY <1>1, NoRowEnds
  <1>3. text = <<>> /\ line = buffer /\ rest = <<>>
    BY <1>2 DEF Taken
  <1>4. line = w
    BY <1>3 DEF Text
  <1>5. Bare(<<>>) = <<>> /\ Bare(<<"CR">>) = <<>>
    BY BareText, NewlineIsText, NewlineSymbols
  <1> QED  BY <1>3, <1>4, <1>5, KindOfHolds

-----------------------------------------------------------------------------
(***************************************************************************)
(* The lines of a file.                                                    *)
(***************************************************************************)
Left(nl, t) == LastLines(lines, nl, closed)[Len(lines) - t]     \* after t lines
Closing(nl, t) == IF t < Len(lines) \/ closed THEN nl[t] ELSE <<>>  \* of line t

LEMMA LeftHolds ==
    ASSUME lines \in Files, NEW nl \in Newlines(lines)
    PROVE  /\ Len(lines) \in Nat /\ Left(nl, Len(lines)) = <<>>
           /\ \A t \in 0 .. Len(lines) : Left(nl, t) \in Text
  <1>1. Len(lines) \in Nat
    BY FilesAssumption
  <1>2. Len(lines) - Len(lines) = 0
    BY <1>1
  <1>3. \A t \in 0 .. Len(lines) : Len(lines) - t \in 0 .. Len(lines)
    BY <1>1
  <1>4. /\ LastLines(lines, nl, closed) \in [0 .. Len(lines) -> Text]
        /\ LastLines(lines, nl, closed)[0] = <<>>
    BY LastLinesHold
  <1> QED  BY <1>1, <1>2, <1>3, <1>4 DEF Left

LEMMA LineThere ==
    ASSUME lines \in Files, NEW nl \in Newlines(lines), NEW t \in 0 .. Len(lines) - 1
    PROVE  /\ lines[t + 1] \in DOMAIN LineText /\ t + 1 \in 1 .. Len(lines)
           /\ LineText[lines[t + 1]] \in Text
           /\ Closing(nl, t + 1) \in Newline \cup {<<>>}
           /\ Left(nl, t) = (LineText[lines[t + 1]] \o Closing(nl, t + 1)) \o Left(nl, t + 1)
           /\ Closing(nl, t + 1) = <<>> =>
                 t + 1 = Len(lines) /\ ~closed /\ Left(nl, t + 1) = <<>>
  <1> DEFINE k == Len(lines) - t
  <1>1. Len(lines) \in Nat
    BY FilesAssumption
  <1>2. /\ k \in 1 .. Len(lines) /\ Len(lines) + 1 - k = t + 1 /\ k - 1 = Len(lines) - (t + 1)
        /\ t + 1 \in 1 .. Len(lines) /\ (k > 1 <=> t + 1 < Len(lines))
    BY <1>1
  <1> HIDE DEF k
  <1>0. nl[t + 1] \in Newline
    <2>1. t + 1 \in DOMAIN lines
      BY <1>2, LineIsText
    <2> QED  BY <2>1 DEF Newlines
  <1>3. lines[t + 1] \in DOMAIN LineText
    BY <1>2, LineIsText
  <1>4. LineText[lines[t + 1]] \in Text
    BY <1>3, FilesAssumption DEF Text
  <1>5. Ending(lines, nl, closed, k) = Closing(nl, t + 1) /\ Line(lines, k) = LineText[lines[t + 1]]
    BY <1>2 DEF Ending, Closing, Line
  <1>6. LastLines(lines, nl, closed)[k] =
           (Line(lines, k) \o Ending(lines, nl, closed, k)) \o LastLines(lines, nl, closed)[k - 1]
    BY <1>2, LastLinesHold
  <1>7. Left(nl, t) = (LineText[lines[t + 1]] \o Closing(nl, t + 1)) \o Left(nl, t + 1)
    BY <1>2, <1>5, <1>6 DEF Left, k
  <1>8. Closing(nl, t + 1) = <<>> => t + 1 = Len(lines) /\ ~closed /\ Left(nl, t + 1) = <<>>
    <2>1. nl[t + 1] # <<>>
      <3>1. Len(<<"LF">>) = 1 /\ Len(<<"CR", "LF">>) = 2 /\ Len(<<>>) = 0
        OBVIOUS
      <3> QED  BY <1>0, <3>1, NewlineSymbols
    <2>2. ASSUME Closing(nl, t + 1) = <<>> PROVE t + 1 = Len(lines) /\ ~closed
      <3>1. ~(t + 1 < Len(lines)) /\ ~closed
        BY <2>1, <2>2 DEF Closing
      <3> QED  BY <1>1, <3>1
    <2> QED  BY <2>2, LeftHolds
  <1>9. Closing(nl, t + 1) \in Newline \cup {<<>>}
    BY <1>0 DEF Closing
  <1> QED  BY <1>2, <1>3, <1>4, <1>7, <1>8, <1>9

LEMMA KindOfLine ==
    ASSUME NEW k \in DOMAIN LineText
    PROVE  /\ k = "blank" => LineText[k] = <<>>
           /\ k = "cr" => LineText[k] = <<"CR">>
           /\ k \notin {"blank", "cr"} =>
                 LineText[k] # <<>> /\ Last(LineText[k]) # "CR" /\ OneLine(LineText[k])
  <1>1. CASE k = "blank"
    BY <1>1, LinesAssumption
  <1>2. CASE k = "cr"
    BY <1>2, LinesAssumption
  <1>3. CASE k \notin {"blank", "cr"}
    BY <1>3, LinesAssumption DEF OneLine
  <1> QED  BY <1>1, <1>2, <1>3

\* The row that csv takes after t lines is the next line, unless that is out of place.
LEMMA NextLine ==
    ASSUME lines \in Files, buffer \in Text, text \in Text, NEW nl \in Newlines(lines),
           NEW t \in 0 .. Len(lines) - 1, buffer \o text = Left(nl, t),
           reader = After(NewReader, buffer), ~reader.blank, NEW line, NEW rest, Taken(line, rest)
    PROVE  /\ lines[t + 1] \in Good =>
                 Took(lines[t + 1], line, rest, Left(nl, t + 1))
           /\ NoLine(t + 1) =>
                 lines[t + 1] \notin Good /\ KindOf(line) = "skip" /\ rest = <<>> /\ text = <<>>
           /\ lines[t + 1] \notin Good /\ ~NoLine(t + 1) => KindOf(line) \notin Good \cup {"skip"}
  <1>1. PICK k \in DOMAIN LineText : k = lines[t + 1]
    BY LineThere
  <1>2. PICK e \in Newline \cup {<<>>} : e = Closing(nl, t + 1)
    BY LineThere
  <1>3. PICK v \in Text : v = Left(nl, t + 1)
    <2>1. t + 1 \in 0 .. Len(lines)
      BY LeftHolds
    <2> QED  BY <2>1, LeftHolds
  <1>4. /\ buffer \o text = (LineText[k] \o e) \o v /\ LineText[k] \in Text
        /\ e = <<>> => t + 1 = Len(lines) /\ ~closed /\ v = <<>>
    BY <1>1, <1>2, <1>3, LineThere
  <1>5. e = <<>> <=> t + 1 = Len(lines) /\ ~closed
    <2>1. t + 1 = Len(lines) => ~(t + 1 < Len(lines))
      BY LeftHolds
    <2> QED  BY <1>2, <1>4, <2>1 DEF Closing
  <1>6. ASSUME k \in Good PROVE Took(k, line, rest, v)
    <2>1. k \in Good \cap DOMAIN LineText
      BY <1>6
    <2> QED  BY <1>4, <2>1, TakenGood
  <1>7. ASSUME NoLine(t + 1)
        PROVE  k \notin Good /\ KindOf(line) = "skip" /\ rest = <<>> /\ text = <<>>
    <2>1. k \in {"blank", "cr"} /\ e = <<>> /\ v = <<>>
      BY <1>1, <1>4, <1>5, <1>7 DEF NoLine
    <2>2. LineText[k] \in {<<>>, <<"CR">>}
      BY <2>1, KindOfLine
    <2>3. (LineText[k] \o <<>>) \o <<>> = LineText[k]
      BY <1>4 DEF Text
    <2>4. buffer \o text = LineText[k]
      BY <1>4, <2>1, <2>3
    <2>5. k \notin Good
      BY <2>1, LinesAssumption
    <2> QED  BY <2>2, <2>4, <2>5, TakenNothing
  <1>8. ASSUME k \notin Good, ~NoLine(t + 1) PROVE KindOf(line) \notin Good \cup {"skip"}
    <2>1. CASE k \notin {"blank", "cr"}
      <3>1. LineText[k] # <<>> /\ Last(LineText[k]) # "CR" /\ OneLine(LineText[k])
        BY <2>1, KindOfLine
      <3>2. k \in DOMAIN LineText \ Good
        BY <1>8
      <3> QED  BY <1>4, <3>1, <3>2, TakenOther
    <2>2. CASE k \in {"blank", "cr"}
      <3>1. e \in Newline
        BY <1>1, <1>2, <1>5, <1>8, <2>2 DEF NoLine
      <3>2. CASE k = "blank"
        <4>1. LineText[k] \o e = e
          BY <3>1, <3>2, KindOfLine, NewlineIsText DEF Text
        <4>2. buffer \o text = e \o v
          BY <1>4, <4>1
        <4> QED  BY <3>1, <4>2, TakenBlank
      <3>3. CASE k = "cr" /\ e = <<"LF">>
        <4>1. LineText[k] \o e = <<"CR", "LF">>
          <5>1. \A s \in Text : s \o <<"LF">> = Append(s, "LF")
            BY DEF Text
          <5> QED  BY <1>4, <3>3, <5>1, KindOfLine, NewlineSymbols
        <4>2. PICK c \in Newline : c = <<"CR", "LF">>
          BY NewlineSymbols
        <4>3. buffer \o text = c \o v
          BY <1>4, <4>1, <4>2
        <4> QED  BY <4>3, TakenBlank
      <3>4. CASE k = "cr" /\ e = <<"CR", "LF">>
        <4>1. LineText[k] = <<"CR">>
          BY <3>4, KindOfLine
        <4>2. LineText[k] # <<>> /\ OneLine(LineText[k])
          <5>1. \A n \in DOMAIN <<"CR">> : <<"CR">>[n] # "LF"
            OBVIOUS
          <5>2. <<"CR">> # <<>>
            OBVIOUS
          <5> QED  BY <4>1, <5>1, <5>2 DEF OneLine
        <4>3. k \in DOMAIN LineText \ Good /\ (Last(LineText[k]) # "CR" \/ e = <<"CR", "LF">>)
          BY <1>8, <3>4
        <4> QED  BY <1>4, <4>2, <4>3, TakenOther
      <3> QED  BY <2>2, <3>1, <3>2, <3>3, <3>4, NewlineSymbols
    <2> QED  BY <2>1, <2>2
  <1> QED  BY <1>1, <1>3, <1>6, <1>7, <1>8

\* Where nothing is left, nothing was.
LEMMA NothingLeft ==
    ASSUME lines \in Files, NEW nl \in Newlines(lines), NEW t \in 0 .. Len(lines), Left(nl, t) = <<>>
    PROVE  t = Len(lines) \/ (t + 1 = Len(lines) /\ NoLine(t + 1))
  <1> SUFFICES ASSUME t # Len(lines) PROVE t + 1 = Len(lines) /\ NoLine(t + 1)
    OBVIOUS
  <1>1. t \in 0 .. Len(lines) - 1
    BY LeftHolds
  <1>2. PICK k \in DOMAIN LineText : k = lines[t + 1] /\ LineText[k] \in Text
    BY <1>1, LineThere
  <1>3. PICK e \in Text : e = Closing(nl, t + 1)
    BY <1>1, LineThere, NewlineIsText
  <1>4. PICK v \in Text : v = Left(nl, t + 1)
    <2>1. t + 1 \in 0 .. Len(lines)
      BY <1>1, LeftHolds
    <2> QED  BY <2>1, LeftHolds
  <1>5. (LineText[k] \o e) \o v = <<>>
    BY <1>1, <1>2, <1>3, <1>4, LineThere
  <1>6. LineText[k] = <<>> /\ e = <<>>
    <2>1. PICK w \in Text : w = LineText[k]
      BY <1>2
    <2>2. PICK x \in Text : x = w \o e
      BY Joined
    <2>3. Len(x \o v) = Len(x) + Len(v) /\ Len(x) = Len(w) + Len(e)
          /\ Len(w) \in Nat /\ Len(e) \in Nat /\ Len(v) \in Nat
      <3>1. Len(x \o v) = Len(x) + Len(v) /\ Len(v) \in Nat
        BY Joined
      <3>2. Len(x) = Len(w) + Len(e) /\ Len(w) \in Nat /\ Len(e) \in Nat
        BY <2>2, Joined
      <3> QED  BY <3>1, <3>2
    <2>4. Len(x \o v) = 0
      BY <1>5, <2>1, <2>2
    <2>5. Len(w) = 0 /\ Len(e) = 0
      BY <2>3, <2>4
    <2>6. w = <<>> /\ e = <<>>
      BY <2>5 DEF Text
    <2> QED  BY <2>1, <2>6
  <1>7. t + 1 = Len(lines) /\ ~closed
    BY <1>1, <1>3, <1>6, LineThere
  <1>8. k = "blank"
    <2>1. <<"CR">> # <<>>
      OBVIOUS
    <2> QED  BY <1>6, <2>1, KindOfLine
  <1> QED  BY <1>2, <1>7, <1>8 DEF NoLine

-----------------------------------------------------------------------------
(***************************************************************************)
(* Of a sound file, csvLineReader reports no blank line.                   *)
(***************************************************************************)
LEMMA SoundLine ==
    ASSUME Sound, lines \in Files, NEW t \in 0 .. Len(lines) - 1
    PROVE  lines[t + 1] \in Good \cap DOMAIN LineText \/ NoLine(t + 1)
  <1>1. lines[t + 1] \in DOMAIN LineText /\ Len(lines) \in Nat
    <2>1. [n \in DOMAIN lines |-> <<"LF">>] \in Newlines(lines)
      BY NewlineSymbols DEF Newlines
    <2> QED  BY <2>1, LineThere, LeftHolds
  <1>2. t = 0 => t + 1 = 1
    OBVIOUS
  <1>3. t # 0 => t + 1 \in 2 .. Len(lines)
    BY <1>1
  <1> QED  BY <1>1, <1>2, <1>3 DEF Sound, Good

LEMMA SoundLineRead ==
    ASSUME Sound, lines \in Files, NEW nl \in Newlines(lines), NEW t \in 0 .. Len(lines) - 1,
           NEW x, x = LineText[lines[t + 1]] \o Closing(nl, t + 1)
    PROVE  /\ x \in Text /\ ~After(NewReader, x).blank
           /\ After(NewReader, x) = NewReader \/ Left(nl, t + 1) = <<>>
  <1>1. PICK k \in DOMAIN LineText : k = lines[t + 1] /\ LineText[k] \in Text
    BY LineThere
  <1>2. PICK e \in Newline \cup {<<>>} : e = Closing(nl, t + 1)
    BY LineThere
  <1>3. e = <<>> => Left(nl, t + 1) = <<>>
    BY <1>2, LineThere
  <1>4. x = LineText[k] \o e
    BY <1>1, <1>2
  <1>5. x \in Text
    BY <1>1, <1>4, NewlineIsText, Joined
  <1>6. CASE k \in Good
    <2>1. PICK w \in Text : w = LineText[k]
      BY <1>1
    <2>2. WellQuoted(w) /\ OneLine(w) /\ w # <<>> /\ Last(w) # "CR"
      BY <1>6, <2>1, GoodLine
    <2>3. CASE e = <<>>
      <3>1. x = w
        BY <1>4, <2>1, <2>3, NothingJoined
      <3>2. Len(w) \in 0 .. Len(w) /\ First(w, Len(w)) = w
        BY DEF First, Text
      <3>3. InTune(w, Len(w))
        BY <2>2, <3>2, InTuneThroughout
      <3>4. ~After(NewReader, w).blank
        BY <3>2, <3>3 DEF InTune
      <3> QED  BY <1>3, <1>5, <2>3, <3>1, <3>4
    <2>4. CASE e \in Newline
      <3>1. After(NewReader, w \o e) = NewReader
        BY <2>2, <2>4, LineRead
      <3>2. ~NewReader.blank
        BY DEF NewReader
      <3> QED  BY <1>4, <1>5, <2>1, <3>1, <3>2
    <2> QED  BY <2>3, <2>4
  <1>7. CASE NoLine(t + 1)
    <2>1. k \in {"blank", "cr"} /\ t + 1 = Len(lines) /\ ~closed
      BY <1>1, <1>7 DEF NoLine
    <2>2. e = <<>>
      <3>1. ~(t + 1 < Len(lines))
        BY <2>1, LeftHolds
      <3> QED  BY <1>2, <2>1, <3>1 DEF Closing
    <2>3. x = LineText[k]
      BY <1>1, <1>4, <2>2, NothingJoined
    <2>4. x = <<>> \/ x = <<"CR">>
      BY <2>1, <2>3, KindOfLine
    <2>5. ~After(NewReader, <<>>).blank
      BY AfterNothing, NewReaderType DEF NewReader
    <2>6. ~After(NewReader, <<"CR">>).blank
      <3>1. After(NewReader, <<"CR">>) = ReadByte(NewReader, "CR")
        BY FirstByte, NewlineSymbols
      <3>2. ~NewReader.blank /\ NewReader.state # "quoted"
        BY DEF NewReader
      <3>3. ReadByte(NewReader, "CR").blank = FALSE
        BY <3>2, NewReaderType, ReadCR
      <3> QED  BY <3>1, <3>3
    <2> QED  BY <1>3, <1>5, <2>2, <2>4, <2>5, <2>6
  <1> QED  BY <1>1, <1>6, <1>7, SoundLine

LEMMA SoundRead ==
    ASSUME Sound, lines \in Files, NEW nl \in Newlines(lines)
    PROVE  \A t \in 0 .. Len(lines) : \A a, b \in Text :
              a \o b = Left(nl, t) => ~After(NewReader, a).blank
  <1> DEFINE Quiet(n) == \A a, b \in Text :
                            a \o b = Left(nl, Len(lines) - n) => ~After(NewReader, a).blank
             S == {n \in 0 .. Len(lines) : Quiet(n)}
  <1>1. Len(lines) \in Nat
    BY LeftHolds
  <1>2. 0 \in S
    <2>1. Len(lines) - 0 = Len(lines) /\ 0 \in 0 .. Len(lines)
      BY <1>1
    <2>2. ASSUME NEW a \in Text, NEW b \in Text, a \o b = <<>> PROVE ~After(NewReader, a).blank
      <3>1. Len(a) + Len(b) = 0 /\ Len(a) \in Nat /\ Len(b) \in Nat
        <4>1. Len(a \o b) = 0
          BY <2>2
        <4>2. Len(a \o b) = Len(a) + Len(b) /\ Len(a) \in Nat /\ Len(b) \in Nat
          BY Joined
        <4> QED  BY <4>1, <4>2
      <3>2. Len(a) = 0
        BY <3>1
      <3>3. a = <<>>
        BY <3>2 DEF Text
      <3> QED  BY <3>3, AfterNothing, NewReaderType DEF NewReader
    <2> QED  BY <2>1, <2>2, LeftHolds
  <1>3. ASSUME NEW n \in 1 .. Len(lines), n - 1 \in S PROVE n \in S
    <2> DEFINE t == Len(lines) - n
    <2>1. t \in 0 .. Len(lines) - 1 /\ t + 1 = Len(lines) - (n - 1)
          /\ t + 1 \in 0 .. Len(lines) /\ n \in 0 .. Len(lines)
      BY <1>1
    <2>2. \A a, b \in Text : a \o b = Left(nl, t + 1) => ~After(NewReader, a).blank
      BY <1>3, <2>1
    <2> HIDE DEF t
    <2>3. PICK x : x = LineText[lines[t + 1]] \o Closing(nl, t + 1)
      OBVIOUS
    <2>4. PICK v \in Text : v = Left(nl, t + 1)
      BY <2>1, LeftHolds
    <2>5. x \in Text /\ ~After(NewReader, x).blank /\ (After(NewReader, x) = NewReader \/ v = <<>>)
      BY <2>1, <2>3, <2>4, SoundLineRead
    <2>6. Left(nl, t) = x \o v
      BY <2>1, <2>3, <2>4, LineThere
    <2>7. ASSUME NEW a \in Text, NEW b \in Text, a \o b = x \o v PROVE ~After(NewReader, a).blank
      <3>1. Len(a) \in Nat /\ Len(x) \in Nat
        BY <2>5, Joined
      <3>2. CASE Len(a) <= Len(x)
        <4>1. Len(a) \in 0 .. Len(x)
          BY <3>1, <3>2
        <4>2. First(x, Len(a)) = First(a, Len(a))
          <5>1. OneText(x, v, a, b) /\ Len(a) <= Len(a)
            BY <2>7, <3>1 DEF OneText
          <5>2. x \in Text /\ v \in Text
            BY <2>5
          <5> QED  BY <4>1, <5>1, <5>2, SameFirst
        <4>3. First(a, Len(a)) = a
          BY DEF First, Text
        <4> QED  BY <2>5, <4>1, <4>2, <4>3, BlankLater, NewReaderType
      <3>3. CASE Len(x) <= Len(a)
        <4>1. Len(x) \in 0 .. Len(a)
          BY <3>1, <3>3
        <4>2. Goes(a, b, x, v)
          <5>1. OneText(a, b, x, v) /\ x \in Text
            BY <2>5, <2>7 DEF OneText
          <5> QED  BY <4>1, <5>1, SameEnd
        <4>3. PICK m \in Text : a = x \o m /\ m \o b = v
          BY <4>2 DEF Goes
        <4>4. After(NewReader, x \o m) = After(After(NewReader, x), m)
          BY <2>5, NewReaderType, AfterBoth
        <4>5. CASE After(NewReader, x) = NewReader
          BY <2>2, <2>4, <4>3, <4>4, <4>5
        <4>6. CASE v = <<>>
          <5>1. Len(m) + Len(b) = 0 /\ Len(m) \in Nat /\ Len(b) \in Nat
            <6>1. Len(m \o b) = 0
              BY <4>3, <4>6
            <6>2. Len(m \o b) = Len(m) + Len(b) /\ Len(m) \in Nat /\ Len(b) \in Nat
              BY Joined
            <6> QED  BY <6>1, <6>2
          <5>2. Len(m) = 0
            BY <5>1
          <5>3. m = <<>>
            BY <5>2 DEF Text
          <5>4. x \o <<>> = x
            BY <2>5 DEF Text
          <5> QED  BY <2>5, <4>3, <5>3, <5>4
        <4> QED  BY <2>5, <4>5, <4>6
      <3> QED  BY <3>1, <3>2, <3>3
    <2>8. Quiet(n)
      BY <2>6, <2>7 DEF t
    <2> HIDE DEF Quiet
    <2> QED  BY <2>1, <2>8
  <1>4. \A n \in 0 .. Len(lines) : n \in S
    <2> HIDE DEF S
    <2> QED  BY <1>1, <1>2, <1>3, UpTo
  <1>5. ASSUME NEW t \in 0 .. Len(lines), NEW a \in Text, NEW b \in Text, a \o b = Left(nl, t)
        PROVE  ~After(NewReader, a).blank
    <2>1. Len(lines) - t \in 0 .. Len(lines) /\ Len(lines) - (Len(lines) - t) = t
      BY <1>1
    <2>2. Quiet(Len(lines) - t)
      BY <1>4, <2>1
    <2> QED  BY <1>5, <2>1, <2>2
  <1> QED  BY <1>5

-----------------------------------------------------------------------------
(***************************************************************************)
(* csv, csvLineReader and the loader keep in step.                         *)
(***************************************************************************)
\* In step after t lines, of which j are rows.
AtLine(nl, t, j) ==
    /\ buffer \o text = Left(nl, t)
    /\ buffer \o text # <<>> => reader = After(NewReader, buffer)
    /\ rows = First(lines, j)
    /\ j = t \/ (j = t - 1 /\ NoLine(t))
    /\ \A i \in 1 .. j : IF i = 1 THEN lines[i] = "header" ELSE lines[i] \in DOMAIN Record

LEMMA InStepAt ==
    InStep <=> \E nl \in Newlines(lines), t \in 0 .. Len(lines) : \E j \in 0 .. t : AtLine(nl, t, j)
  BY DEF InStep, AtLine, Left

LEMMA SameFile ==
    ASSUME lines' = lines, closed' = closed
    PROVE  /\ Sound' <=> Sound
           /\ \A n : NoLine(n)' <=> NoLine(n)
           /\ \A nl, t : Left(nl, t)' = Left(nl, t)
  BY DEF Sound, NoLine, Left

LEMMA RowsSoFar ==
    ASSUME lines \in Files, NEW t \in 0 .. Len(lines)
    PROVE  /\ First(lines, t) = <<>> <=> t = 0
           /\ t < Len(lines) => First(lines, t + 1) = Append(First(lines, t), lines[t + 1])
  <1>1. PICK f \in Seq(DOMAIN LineText) : f = lines
    BY FilesAssumption
  <1>2. Len(f) \in Nat /\ t \in 0 .. Len(f)
    BY <1>1
  <1>3. First(f, t) \in Seq(DOMAIN LineText) /\ Len(First(f, t)) = t
    BY <1>1, <1>2 DEF First
  <1>4. First(f, t) = <<>> <=> t = 0
    BY <1>3
  <1>5. t < Len(f) => First(f, t + 1) = Append(First(f, t), f[t + 1])
    BY <1>1, <1>2 DEF First
  <1> QED  BY <1>1, <1>4, <1>5

LEMMA TakenSome == ASSUME buffer \in Text, NEW line, NEW rest, Taken(line, rest) PROVE buffer # <<>>
  <1>1. RowEnd # 0 => RowEnd \in 1 .. Len(buffer)
    BY RowEndHolds DEF Text
  <1>2. Len(<<>>) = 0
    OBVIOUS
  <1> QED  BY <1>1, <1>2 DEF Taken

LEMMA TakeRowKeeps ==
    ASSUME GeoTypeOK, ReadSoFar, geoPc = "reading", NEW line, NEW rest, Taken(line, rest),
           TakeRow(line, rest)
    PROVE  ReadSoFar'
  <1> DEFINE kind == KindOf(line)
  <1>1. /\ buffer' = rest
        /\ rows' = IF kind # "skip" /\ Accepts(kind) THEN Append(rows, kind) ELSE rows
        /\ geoPc' = IF kind = "skip" \/ Accepts(kind) THEN "reading" ELSE "failed"
        /\ UNCHANGED <<lines, closed, text, reader, broke, db>>
    BY DEF TakeRow
  <1> HIDE DEF kind
  <1>2. geoPc' \in {"reading", "failed"} /\ lines # None
    BY <1>1 DEF ReadSoFar
  <1>3. lines \in Files /\ buffer \in Text /\ text \in Text
    BY <1>2 DEF GeoTypeOK, Text
  <1>4. /\ Sound' <=> Sound
        /\ \A n : NoLine(n)' <=> NoLine(n)
        /\ \A nl, t : Left(nl, t)' = Left(nl, t)
    BY <1>1, SameFile
  <1>5. CASE broke
    <2>1. broke'
      BY <1>1, <1>5
    <2>2. AllOrNothing'
      BY <1>2, <2>1 DEF AllOrNothing
    <2>3. lines' # None
      BY <1>1, <1>2
    <2> QED  BY <1>2, <2>1, <2>2, <2>3 DEF ReadSoFar
  <1>6. CASE ~Sound /\ (reader.blank \/ geoPc' = "failed")
    <2>1. AllOrNothing'
      BY <1>2, <1>4, <1>6 DEF AllOrNothing
    <2>2. lines' # None /\ (reader'.blank \/ geoPc' = "failed")
      BY <1>1, <1>2, <1>6
    <2> QED  BY <1>2, <1>4, <1>6, <2>1, <2>2 DEF ReadSoFar
  <1>7. CASE ~broke /\ ~reader.blank
    <2>1. PICK nl \in Newlines(lines), t \in 0 .. Len(lines) : \E j \in 0 .. t : AtLine(nl, t, j)
      <3>1. InStep
        BY <1>7 DEF ReadSoFar
      <3> QED  BY <3>1, InStepAt
    <2>2. PICK j \in 0 .. t : AtLine(nl, t, j)
      BY <2>1
    <2>3. reader = After(NewReader, buffer) /\ buffer \o text # <<>>
      <3>1. buffer # <<>>
        BY <1>3, TakenSome
      <3>2. Len(buffer) # 0 /\ Len(buffer) \in Nat /\ Len(text) \in Nat
        BY <1>3, <3>1 DEF Text
      <3>3. Len(buffer \o text) = Len(buffer) + Len(text)
        BY <1>3, Joined
      <3>4. Len(buffer \o text) # 0
        BY <3>2, <3>3
      <3>5. buffer \o text # <<>>
        BY <3>4
      <3> QED  BY <2>2, <3>5 DEF AtLine
    <2>4. t # Len(lines) /\ Len(lines) \in Nat
      BY <1>3, <2>2, <2>3, LeftHolds DEF AtLine
    <2>5. t \in 0 .. Len(lines) - 1 /\ t + 1 \in 0 .. Len(lines) /\ t < Len(lines)
      BY <2>4
    <2>6. j = t
      BY <2>2, <2>4 DEF AtLine, NoLine
    <2>7. /\ rows = First(lines, t)
          /\ \A i \in 1 .. t : IF i = 1 THEN lines[i] = "header" ELSE lines[i] \in DOMAIN Record
      BY <2>2, <2>6 DEF AtLine
    <2>8. /\ lines[t + 1] \in Good => Took(lines[t + 1], line, rest, Left(nl, t + 1))
          /\ NoLine(t + 1) =>
                lines[t + 1] \notin Good /\ KindOf(line) = "skip" /\ rest = <<>> /\ text = <<>>
          /\ lines[t + 1] \notin Good /\ ~NoLine(t + 1) => KindOf(line) \notin Good \cup {"skip"}
      <3>1. buffer \o text = Left(nl, t)
        BY <2>2 DEF AtLine
      <3> QED  BY <1>3, <1>7, <2>3, <2>5, <3>1, NextLine
    <2>9. rows = <<>> <=> t = 0
      BY <1>3, <2>7, RowsSoFar
    <2>10. CASE lines[t + 1] \in Good
      <3>1. kind = lines[t + 1] /\ kind # "skip" /\ Took(kind, line, rest, Left(nl, t + 1))
        BY <2>8, <2>10, LinesAssumption DEF Took, kind
      <3>2. CASE Accepts(kind)
        <4>1. rows' = First(lines, t + 1) /\ geoPc' = "reading"
          BY <1>1, <1>3, <2>5, <2>7, <3>1, <3>2, RowsSoFar
        <4>2. ASSUME NEW i \in 1 .. t + 1
              PROVE  IF i = 1 THEN lines[i] = "header" ELSE lines[i] \in DOMAIN Record
          <5>1. CASE i \in 1 .. t
            BY <2>7, <5>1
          <5>2. CASE i = t + 1
            <6>1. i = 1 <=> t = 0
              BY <5>2
            <6> QED  BY <2>9, <3>1, <3>2, <5>2, <6>1 DEF Accepts
          <5> QED  BY <5>1, <5>2
        <4>3. /\ buffer' \o text' = Left(nl, t + 1)
              /\ buffer' \o text' # <<>> => reader' = After(NewReader, buffer')
          BY <1>1, <3>1 DEF Took
        <4>4. AtLine(nl, t + 1, t + 1)'
          BY <1>1, <1>4, <4>1, <4>2, <4>3 DEF AtLine
        <4>5. InStep'
          <5>1. t + 1 \in 0 .. Len(lines') /\ t + 1 \in 0 .. t + 1
            BY <1>1, <2>5
          <5>2. nl \in Newlines(lines')
            BY <1>1, <2>1
          <5> QED  BY <4>4, <5>1, <5>2 DEF InStep, AtLine, Left
        <4>6. AllOrNothing' /\ lines' # None /\ ~reader'.blank
          BY <1>1, <1>2, <1>7, <4>1 DEF AllOrNothing
        <4> QED  BY <4>1, <4>5, <4>6 DEF ReadSoFar
      <3>3. CASE ~Accepts(kind)
        <4>1. geoPc' = "failed"
          BY <1>1, <3>1, <3>3
        <4>2. ~Sound
          <5>1. ~NoLine(t + 1)
            BY <2>8, <2>10
          <5>2. t = 0 => t + 1 = 1
            OBVIOUS
          <5>3. t # 0 => t + 1 \in 2 .. Len(lines)
            BY <2>5
          <5> QED  BY <2>9, <3>1, <3>3, <5>1, <5>2, <5>3 DEF Accepts, Sound
        <4> QED  BY <1>6, <4>1, <4>2
      <3> QED  BY <3>2, <3>3
    <2>11. CASE NoLine(t + 1)
      <3>1. rows' = First(lines, t) /\ geoPc' = "reading" /\ buffer' = <<>> /\ text' = <<>>
        BY <1>1, <2>7, <2>8, <2>11 DEF kind
      <3>2. buffer' \o text' = <<>>
        BY <3>1, NothingJoined, NewlineIsText
      <3>3. t + 1 = Len(lines) /\ Left(nl, t + 1) = <<>>
        BY <1>3, <2>11, LeftHolds DEF NoLine
      <3>4. AtLine(nl, t + 1, t)'
        <4>1. t = (t + 1) - 1
          BY <2>5
        <4> QED  BY <1>1, <1>4, <2>7, <2>11, <3>1, <3>2, <3>3, <4>1 DEF AtLine
      <3>5. InStep'
        <4>1. t + 1 \in 0 .. Len(lines') /\ t \in 0 .. t + 1
          BY <1>1, <2>5
        <4>2. nl \in Newlines(lines')
          BY <1>1, <2>1
        <4> QED  BY <3>4, <4>1, <4>2 DEF InStep, AtLine, Left
      <3>6. AllOrNothing' /\ lines' # None /\ ~reader'.blank
        BY <1>1, <1>2, <1>7, <3>1 DEF AllOrNothing
      <3> QED  BY <3>1, <3>5, <3>6 DEF ReadSoFar
    <2>12. CASE lines[t + 1] \notin Good /\ ~NoLine(t + 1)
      <3>1. kind \notin Good \cup {"skip"}
        BY <2>8, <2>12 DEF kind
      <3>2. geoPc' = "failed"
        BY <1>1, <3>1 DEF Accepts, Good
      <3>3. ~Sound
        BY <1>3, <2>5, <2>12, SoundLine
      <3> QED  BY <1>6, <3>2, <3>3
    <2> QED  BY <2>10, <2>11, <2>12
  <1>8. ~broke /\ reader.blank => ~Sound
    BY DEF ReadSoFar
  <1> QED  BY <1>5, <1>6, <1>7, <1>8

\* The file has been read to its end.
LEMMA AllKept ==
    ASSUME NEW V, NEW S, NEW s \in Seq(V), \A n \in DOMAIN s : s[n] \in S
    PROVE  Only(s, S) = s
  <1> DEFINE T == {u \in Seq(V) : u \in Seq(S) => Only(u, S) = u}
  <1>1. <<>> \in T
    BY OnlyEmpty
  <1>2. ASSUME NEW u \in Seq(V), NEW x \in V, u \in T PROVE Append(u, x) \in T
    <2> SUFFICES ASSUME Append(u, x) \in Seq(S) PROVE Only(Append(u, x), S) = Append(u, x)
      OBVIOUS
    <2> DEFINE y == Append(u, x)
    <2>1. /\ Len(y) = Len(u) + 1 /\ y[Len(y)] = x /\ Len(u) \in Nat
          /\ \A n \in 1 .. Len(u) : y[n] = u[n]
      OBVIOUS
    <2>2. y \in Seq(S)
      OBVIOUS
    <2> HIDE DEF y
    <2>3. x \in S /\ \A n \in 1 .. Len(u) : u[n] \in S
      BY <2>1, <2>2
    <2>4. u \in Seq(S)
      BY <2>3
    <2> QED  BY <1>2, <2>3, <2>4, OnlyAppend
  <1>3. Seq(V) \subseteq T
    <2> HIDE DEF T
    <2> QED  BY <1>1, <1>2, Sequences
  <1>4. s \in Seq(S)
    OBVIOUS
  <1> QED  BY <1>3, <1>4

LEMMA TailHolds ==
    ASSUME NEW V, NEW s \in Seq(V), s # <<>>
    PROVE  /\ Tail(s) \in Seq(V) /\ Len(Tail(s)) = Len(s) - 1 /\ Len(s) \in Nat
           /\ \A n \in 1 .. Len(s) - 1 : Tail(s)[n] = s[n + 1]
  OBVIOUS

LEMMA EndOfFileKeeps ==
    ASSUME GeoTypeOK, ReadSoFar, EndOfFile PROVE ReadSoFar'
  <1>1. /\ geoPc = "reading" /\ buffer = <<>> /\ text = <<>> /\ ~reader.blank /\ ~broke
        /\ geoPc' = IF rows = <<>> THEN "failed" ELSE "open"
        /\ db' = IF rows = <<>> THEN None ELSE Tail(rows)
        /\ UNCHANGED <<lines, closed, text, reader, broke, buffer, rows>>
    BY DEF EndOfFile
  <1>2. lines # None /\ lines \in Files /\ lines \in Seq(DOMAIN LineText) /\ Len(lines) \in Nat
    <2>1. lines # None /\ lines \in Files
      BY <1>1 DEF ReadSoFar, GeoTypeOK
    <2> QED  BY <2>1, FilesAssumption
  <1>3. Sound' <=> Sound
    BY <1>1, SameFile
  <1>4. PICK nl \in Newlines(lines), t \in 0 .. Len(lines) : \E j \in 0 .. t : AtLine(nl, t, j)
    BY <1>1, InStepAt DEF ReadSoFar
  <1>5. PICK j \in 0 .. t : AtLine(nl, t, j)
    BY <1>4
  <1>6. Left(nl, t) = <<>>
    BY <1>1, <1>5, NothingJoined, NewlineIsText DEF AtLine
  <1>7. j = Len(lines) \/ (j = Len(lines) - 1 /\ NoLine(Len(lines)) /\ Len(lines) >= 1)
    <2>1. t = Len(lines) \/ (t + 1 = Len(lines) /\ NoLine(t + 1))
      BY <1>2, <1>6, NothingLeft
    <2>2. j = t \/ (j = t - 1 /\ NoLine(t))
      BY <1>5 DEF AtLine
    <2>3. NoLine(t) => t = Len(lines)
      BY DEF NoLine
    <2> QED  BY <1>2, <2>1, <2>2, <2>3
  <1>8. /\ rows = First(lines, j) /\ (rows = <<>> <=> j = 0)
        /\ \A i \in 1 .. j : IF i = 1 THEN lines[i] = "header" ELSE lines[i] \in DOMAIN Record
    <2>1. j \in 0 .. Len(lines)
      BY <1>2
    <2> QED  BY <1>2, <1>5, <2>1, RowsSoFar DEF AtLine
  <1>9. CASE rows = <<>>
    <2>1. ~Sound
      <3>1. CASE Len(lines) = 0
        BY <1>2, <3>1 DEF Sound
      <3>2. CASE Len(lines) = 1 /\ NoLine(1)
        BY <3>2, LinesAssumption DEF Sound, NoLine, Good
      <3>3. Len(lines) = 0 \/ (Len(lines) = 1 /\ NoLine(Len(lines)))
        <4>1. j = 0
          BY <1>8, <1>9
        <4> QED  BY <1>2, <1>7, <4>1
      <3> QED  BY <3>1, <3>2, <3>3
    <2>2. geoPc' = "failed" /\ lines' # None
      BY <1>1, <1>2, <1>9
    <2>3. AllOrNothing'
      BY <1>3, <2>1, <2>2 DEF AllOrNothing
    <2> QED  BY <2>2, <2>3 DEF ReadSoFar
  <1>10. CASE rows # <<>>
    <2>1. j \in 1 .. Len(lines) /\ lines # <<>>
      BY <1>2, <1>8, <1>10
    <2>2. Sound
      <3>1. ASSUME NEW n \in 2 .. Len(lines) PROVE lines[n] \in DOMAIN Record \/ NoLine(n)
        <4>1. CASE n <= j
          <5>1. n \in 1 .. j /\ n # 1
            BY <1>2, <2>1, <4>1
          <5> QED  BY <1>8, <5>1
        <4>2. CASE n > j
          <5>1. n = Len(lines) /\ NoLine(Len(lines))
            BY <1>2, <1>7, <2>1, <4>2
          <5> QED  BY <5>1
        <4> QED  BY <1>2, <2>1, <4>1, <4>2
      <3>2. lines[1] = "header"
        <4>1. 1 \in 1 .. j
          BY <1>2, <2>1
        <4> QED  BY <1>8, <4>1
      <3> QED  BY <2>1, <3>1, <3>2 DEF Sound
    <2> DEFINE L == DOMAIN LineText
    <2>3. Tail(rows) = Only(Tail(lines), DOMAIN Record)
      <3>1. rows \in Seq(L) /\ Len(rows) = j /\ \A n \in 1 .. j : rows[n] = lines[n]
        BY <1>2, <1>8, <2>1 DEF First
      <3>2. Tail(rows) \in Seq(L) /\ Len(Tail(rows)) = j - 1
            /\ \A n \in 1 .. j - 1 : Tail(rows)[n] = rows[n + 1]
        BY <1>10, <3>1, TailHolds
      <3>3. Tail(lines) \in Seq(L) /\ Len(Tail(lines)) = Len(lines) - 1
            /\ \A n \in 1 .. Len(lines) - 1 : Tail(lines)[n] = lines[n + 1]
        BY <1>2, <2>1, TailHolds
      <3>4. \A n \in DOMAIN Tail(rows) : Tail(rows)[n] \in DOMAIN Record
        <4>1. ASSUME NEW n \in 1 .. j - 1 PROVE Tail(rows)[n] \in DOMAIN Record
          <5>1. n + 1 \in 1 .. j /\ n + 1 # 1
            BY <2>1
          <5> QED  BY <1>8, <3>1, <3>2, <5>1
        <4> QED  BY <3>2, <4>1
      <3> DEFINE kept == Tail(rows)
                 rest == Tail(lines)
      <3>5. Only(kept, DOMAIN Record) = kept
        BY <3>2, <3>4, AllKept
      <3>6. CASE j = Len(lines)
        <4>1. \A n \in 1 .. j - 1 : kept[n] = rest[n]
          <5>1. ASSUME NEW n \in 1 .. j - 1 PROVE kept[n] = rest[n]
            <6>1. n + 1 \in 1 .. j
              BY <2>1
            <6> QED  BY <3>1, <3>2, <3>3, <3>6, <6>1
          <5> QED  BY <5>1
        <4> HIDE DEF kept, rest
        <4>2. kept = rest
          BY <3>2, <3>3, <3>6, <4>1 DEF kept, rest
        <4> QED  BY <3>5, <4>2 DEF kept, rest
      <3>7. CASE j = Len(lines) - 1 /\ NoLine(Len(lines))
        <4>1. PICK x \in L : x = lines[Len(lines)]
          BY <1>2, <2>1
        <4>2. x \notin DOMAIN Record
          BY <3>7, <4>1, LinesAssumption DEF NoLine, Good
        <4>3. rest = Append(kept, x)
          <5>1. ASSUME NEW n \in 1 .. Len(lines) - 1 PROVE rest[n] = Append(kept, x)[n]
            <6>1. CASE n \in 1 .. j - 1
              <7>1. n + 1 \in 1 .. j
                BY <6>1
              <7>2. rest[n] = kept[n]
                BY <3>1, <3>2, <3>3, <6>1, <7>1
              <7>3. Append(kept, x)[n] = kept[n]
                BY <3>2, <4>1, <6>1
              <7> QED  BY <7>2, <7>3
            <6>2. CASE n = j
              <7>1. rest[n] = x
                <8>1. n + 1 = Len(lines)
                  BY <1>2, <3>7, <6>2
                <8> QED  BY <3>3, <4>1, <8>1
              <7>2. Append(kept, x)[n] = x
                <8>1. n = Len(kept) + 1
                  BY <2>1, <3>2, <6>2
                <8> QED  BY <3>2, <4>1, <8>1
              <7> QED  BY <7>1, <7>2
            <6>3. n \in 1 .. j - 1 \/ n = j
              BY <1>2, <2>1, <3>7
            <6> QED  BY <6>1, <6>2, <6>3
          <5>2. Append(kept, x) \in Seq(L) /\ Len(Append(kept, x)) = Len(lines) - 1
            BY <2>1, <3>2, <3>7, <4>1
          <5> DEFINE more == Append(kept, x)
          <5>3. /\ more \in Seq(L) /\ Len(more) = Len(lines) - 1
                /\ \A n \in 1 .. Len(lines) - 1 : rest[n] = more[n]
            BY <5>1, <5>2
          <5>4. rest \in Seq(L) /\ Len(rest) = Len(lines) - 1
            BY <3>3
          <5> HIDE DEF more, rest, kept
          <5>5. rest = more
            BY <5>3, <5>4
          <5> QED  BY <5>5 DEF more
        <4>4. kept \in Seq(L)
          BY <3>2
        <4> HIDE DEF kept, rest
        <4>5. Only(Append(kept, x), DOMAIN Record) = Only(kept, DOMAIN Record)
          BY <4>1, <4>2, <4>4, OnlyAppend
        <4> QED  BY <3>5, <4>3, <4>5 DEF kept, rest
      <3> QED  BY <1>7, <3>6, <3>7
    <2>4. geoPc' = "open" /\ lines' = lines /\ db' = Tail(rows)
      BY <1>1, <1>10
    <2>5. AllOrNothing'
      BY <1>3, <2>2, <2>3, <2>4 DEF AllOrNothing
    <2> QED  BY <2>4, <2>5 DEF ReadSoFar
  <1> QED  BY <1>9, <1>10

LEMMA OpenKeeps == ASSUME ReadSoFar, GeoOpen PROVE ReadSoFar'
  <1>1. PICK nl \in Newlines(lines') : text' = TextOf(lines', nl, closed')
    BY DEF GeoOpen
  <1>2. /\ lines' \in Files /\ lines' # None /\ geoPc' = "reading"
        /\ reader' = NewReader /\ buffer' = <<>> /\ rows' = <<>> /\ ~broke'
    BY FilesAssumption DEF GeoOpen, ReadSoFar
  <1>3. PICK l \in Files : l = lines'
    BY <1>2
  <1>4. PICK x \in Text : x = TextOf(l, nl, closed')
    <2>1. nl \in Newlines(l)
      BY <1>1, <1>3
    <2> QED  BY <2>1, TextOfFile
  <1>5. Len(l) \in Nat /\ Len(l) - 0 = Len(l) /\ First(l, 0) = <<>>
    <2>1. PICK f \in Seq(DOMAIN LineText) : f = l
      BY FilesAssumption
    <2>2. First(f, 0) = <<>> /\ Len(f) \in Nat
      BY <2>1 DEF First
    <2> QED  BY <2>1, <2>2
  <1>6. buffer' \o text' = LastLines(l, nl, closed')[Len(l)]
    <2>1. buffer' \o text' = x
      BY <1>1, <1>2, <1>3, <1>4, NothingJoined
    <2> QED  BY <1>4, <2>1 DEF TextOf
  <1>7. reader' = After(NewReader, buffer')
    BY <1>2, AfterNothing, NewReaderType
  <1>8. AtLine(nl, 0, 0)'
    BY <1>2, <1>3, <1>5, <1>6, <1>7 DEF AtLine, Left
  <1>9. InStep'
    <2>1. 0 \in 0 .. Len(lines') /\ 0 \in 0 .. 0
      BY <1>3, <1>5
    <2> QED  BY <1>1, <1>8, <2>1 DEF InStep, AtLine, Left
  <1>10. ~reader'.blank /\ AllOrNothing'
    BY <1>2 DEF NewReader, AllOrNothing
  <1> QED  BY <1>2, <1>9, <1>10 DEF ReadSoFar

LEMMA ReadKeeps ==
    ASSUME GeoTypeOK, ReadSoFar, NEW n \in 1 .. ReadMax, Read(n) PROVE ReadSoFar'
  <1>1. /\ geoPc = "reading" /\ ~reader.blank /\ ~broke /\ n <= Len(text)
        /\ buffer' = buffer \o Given(reader, First(text, n))
        /\ reader' = After(reader, First(text, n))
        /\ text' = SubSeq(text, n + 1, Len(text))
        /\ UNCHANGED <<lines, closed, rows, db, broke, geoPc>>
    BY DEF Read, Ended, geoData
  <1>2. lines # None /\ lines \in Files /\ buffer \in Text /\ text \in Text /\ reader \in Reader
    BY <1>1 DEF ReadSoFar, GeoTypeOK, Text
  <1>3. n \in 0 .. Len(text)
    BY <1>1, <1>2, ReadMaxAssumption DEF Text
  <1>4. PICK s \in Text : s = First(text, n)
    BY <1>2, <1>3, CutInTwo
  <1>5. PICK rest \in Text : rest = SubSeq(text, n + 1, Len(text))
    BY <1>2, <1>3, CutInTwo
  <1>6. text = s \o rest /\ Len(s) = n
    BY <1>2, <1>3, <1>4, <1>5, CutInTwo
  <1>7. PICK nl \in Newlines(lines), t \in 0 .. Len(lines) : \E j \in 0 .. t : AtLine(nl, t, j)
    BY <1>1, InStepAt DEF ReadSoFar
  <1>8. PICK j \in 0 .. t : AtLine(nl, t, j)
    BY <1>7
  <1>9. PICK b \in Text : b = buffer \o s
    BY <1>2, Joined
  <1>10. buffer \o text = b \o rest
    BY <1>2, <1>6, <1>9 DEF Text
  <1>11. reader = After(NewReader, buffer)
    <2>1. Len(buffer \o text) = Len(buffer) + Len(text) /\ Len(buffer) \in Nat /\ Len(text) \in Nat
      BY <1>2, Joined
    <2>2. Len(buffer \o text) # 0
      BY <1>1, <2>1
    <2>3. buffer \o text # <<>>
      BY <2>2
    <2> QED  BY <1>8, <2>3 DEF AtLine
  <1>12. reader' = After(NewReader, b)
    BY <1>1, <1>2, <1>4, <1>9, <1>11, NewReaderType, AfterBoth
  <1>13. Sound => ~reader'.blank
    <2>1. b \o rest = Left(nl, t)
      BY <1>8, <1>10 DEF AtLine
    <2> QED  BY <1>2, <1>12, <2>1, SoundRead
  <1>14. ~reader'.blank => InStep'
    <2> SUFFICES ASSUME ~reader'.blank PROVE InStep'
      OBVIOUS
    <2>1. Given(reader, s) = s
      BY <1>1, <1>2, <1>4, GivenWhole
    <2>2. buffer' = b /\ text' = rest
      BY <1>1, <1>4, <1>5, <1>9, <2>1
    <2>3. buffer' \o text' = Left(nl, t) /\ reader' = After(NewReader, buffer')
      BY <1>8, <1>10, <1>12, <2>2 DEF AtLine
    <2>4. Left(nl, t)' = Left(nl, t) /\ (NoLine(t)' <=> NoLine(t))
      BY <1>1, SameFile
    <2>5. AtLine(nl, t, j)'
      BY <1>1, <1>8, <2>3, <2>4 DEF AtLine
    <2>6. nl \in Newlines(lines') /\ t \in 0 .. Len(lines')
      BY <1>1, <1>7
    <2> QED  BY <1>8, <2>5, <2>6 DEF InStep, AtLine, Left
  <1>15. AllOrNothing' /\ lines' # None /\ geoPc' = "reading"
    BY <1>1, <1>2 DEF AllOrNothing
  <1>16. Sound' <=> Sound
    BY <1>1, SameFile
  <1> QED  BY <1>13, <1>14, <1>15, <1>16 DEF ReadSoFar

LEMMA ReadStep == GeoTypeOK /\ ReadSoFar /\ [GeoNext \/ ForgetFile]_geoVars => ReadSoFar'
  <1> SUFFICES ASSUME GeoTypeOK, ReadSoFar, [GeoNext \/ ForgetFile]_geoVars PROVE ReadSoFar'
    OBVIOUS
  <1>1. CASE GeoOpen
    BY <1>1, OpenKeeps
  <1>2. CASE GeoOpenFails
    BY <1>2 DEF GeoOpenFails, ReadSoFar, AllOrNothing
  <1>3. ASSUME NEW n \in 1 .. ReadMax, Read(n) PROVE ReadSoFar'
    BY <1>3, ReadKeeps
  <1>4. CASE Break
    BY <1>4 DEF Break, geoData, ReadSoFar, AllOrNothing
  <1>5. CASE Row
    BY <1>5, TakeRowKeeps DEF Row, Taken
  <1>6. CASE LastRow
    BY <1>6, TakeRowKeeps DEF LastRow, Taken
  <1>7. CASE StreamError
    <2>1. geoPc = "reading" /\ geoPc' = "failed" /\ UNCHANGED <<lines, closed, broke>>
      BY <1>7 DEF StreamError
    <2>2. ~broke => ~Sound
      BY <1>7 DEF StreamError, ReadSoFar
    <2>3. Sound' <=> Sound
      BY <2>1, SameFile
    <2>4. AllOrNothing'
      BY <2>1, <2>2, <2>3 DEF AllOrNothing
    <2> QED  BY <2>1, <2>4 DEF ReadSoFar
  <1>8. CASE EndOfFile
    BY <1>8, EndOfFileKeeps
  <1>9. CASE ForgetFile
    BY <1>9 DEF ForgetFile, ReadSoFar, AllOrNothing
  <1>10. CASE UNCHANGED geoVars
    BY <1>10 DEF geoVars, ReadSoFar, InStep, AllOrNothing, Sound, NoLine
  <1> QED  BY <1>1, <1>2, <1>3, <1>4, <1>5, <1>6, <1>7, <1>8, <1>9, <1>10 DEF GeoNext

LEMMA ReadInit == GeoInit => ReadSoFar
  BY DEF GeoInit, ReadSoFar, AllOrNothing

-----------------------------------------------------------------------------
(***************************************************************************)
(* What IPInfo says of an address.                                         *)
(***************************************************************************)
LEMMA LookupASNRecordType ==
    ASSUME db \in Seq(Kept), NEW asn PROVE LookupASNRecord(asn) \in Kept \cup {None}
  <1>1. CASE asn = None
    BY <1>1 DEF LookupASNRecord, AsnIdx
  <1>2. CASE asn # None
    <2>1. Of(asn) \in Seq(Kept)
      BY OnlyElements DEF Of
    <2>2. Of(asn) # <<>> => Head(Of(asn)) \in Kept
      BY <2>1
    <2> QED  BY <1>2, <2>2, LookupASNRecordHolds
  <1> QED  BY <1>1, <1>2

\* The code's answer is the one meant for the table in use.
LEMMA DescribedIsMeant ==
    ASSUME BgpTypeOK, db \in Seq(Kept), NEW ip \in Address
    PROVE  Described(ip) = Meant(InUse, ip)
  <1> DEFINE routes == RoutesFor(ip)
             last == routes[1].path[Len(routes[1].path)]
             Named(k) == routes # <<>> /\ routes[1].path # <<>> /\ k = LookupASNRecord(last)
             named == {k \in DOMAIN Record : Named(k)}
             own == Lookup(ip)
  <1>1. None \notin Kept
    BY FilesAssumption DEF Kept
  <1>2. routes = IF InUse = None THEN <<>> ELSE RoutesMeant[InUse][ip]
    <2>1. CASE current = None
      BY <2>1 DEF RoutesFor, InUse
    <2>2. CASE current # None
      <3>1. current.content \in Decodable /\ current.content # None
        BY <2>2, NoneAssumption DEF BgpTypeOK
      <3>2. LookupIP(ip) = RoutesMeant[current.content][ip]
        BY <3>1, LookupIPHolds
      <3> QED  BY <2>2, <3>1, <3>2 DEF RoutesFor, InUse
    <2> QED  BY <2>1, <2>2
  <1>3. Meant(InUse, ip) = IF own # None /\ Record[own].asn # None THEN own
                           ELSE IF named # {} THEN CHOOSE k \in named : TRUE ELSE own
    BY <1>2 DEF Meant, Last
  <1>4. ByOrigin(ip) = IF routes = <<>> THEN None
                       ELSE IF Origin(routes[1]) = None THEN None
                       ELSE LookupASNRecord(Origin(routes[1]))
    BY DEF ByOrigin
  <1> HIDE DEF routes
  <1>5. LookupASNRecord(None) = None
    BY DEF LookupASNRecord, AsnIdx
  <1>6. LookupASNRecord(last) \in Kept \cup {None}
    BY LookupASNRecordType
  <1>7. CASE routes # <<>> /\ routes[1].path # <<>> /\ LookupASNRecord(last) # None
    <2>1. ByOrigin(ip) = LookupASNRecord(last) /\ ByOrigin(ip) # None
      BY <1>4, <1>5, <1>7 DEF Origin
    <2>2. named = {ByOrigin(ip)}
      BY <1>6, <1>7, <2>1 DEF Kept
    <2>3. named # {} /\ (CHOOSE k \in named : TRUE) = ByOrigin(ip)
      <3> HIDE DEF named
      <3> QED  BY <2>2
    <2> HIDE DEF named
    <2> QED  BY <1>3, <2>1, <2>3 DEF Described, NoASN
  <1>8. CASE ~(routes # <<>> /\ routes[1].path # <<>> /\ LookupASNRecord(last) # None)
    <2>1. ByOrigin(ip) = None
      BY <1>4, <1>8 DEF Origin
    <2>2. named = {}
      BY <1>1, <1>8 DEF Kept
    <2> HIDE DEF named
    <2> QED  BY <1>3, <2>1, <2>2 DEF Described
  <1> QED  BY <1>7, <1>8

-----------------------------------------------------------------------------
(***************************************************************************)
(* The service.                                                            *)
(***************************************************************************)
ServiceInv == TableInv /\ ServiceTypeOK /\ AnsweredSoFar

\* The service does to table and database what these do on their own.
LEMMA ServiceStepsTable == [ServiceNext]_serviceVars => [BgpNext]_bgpVars
  BY DEF ServiceNext, serviceVars, BootTable, BootGeo, Serve, Reload, Reloading, Ask,
         DescribeNext, Reply, BgpNext, RenameNext, askVars

LEMMA ServiceStepsGeo == [ServiceNext]_serviceVars => [GeoNext \/ ForgetFile]_geoVars
  BY DEF ServiceNext, serviceVars, BootTable, BootGeo, Serve, Reload, Reloading, Ask,
         DescribeNext, Reply, askVars

LEMMA ServiceInitInv == ServiceInit => ServiceInv
  <1> SUFFICES ASSUME ServiceInit PROVE ServiceInv
    OBVIOUS
  <1>1. TableInv /\ GeoTypeOK
    BY TableInit, GeoTypeInit DEF ServiceInit
  <1>2. serving = FALSE /\ targets = None /\ next = 1 /\ result = <<>> /\ seen = {}
    BY DEF ServiceInit
  <1>3. DOMAIN <<>> = {} /\ 1 .. 1 - 1 = {} /\ 1 \in 1 .. MaxTargets + 1
    BY MaxTargetsAssumption
  <1>4. ServiceTypeOK
    BY <1>1, <1>2, <1>3 DEF TableInv, ServiceTypeOK
  <1>5. AnsweredSoFar
    BY <1>2, <1>3 DEF AnsweredSoFar
  <1> QED  BY <1>1, <1>4, <1>5 DEF ServiceInv

LEMMA MeantKept ==
    ASSUME UNCHANGED db PROVE \A content, ip : Meant(content, ip)' = Meant(content, ip)
  <1>1. \A ip : Lookup(ip)' = Lookup(ip)
    BY DEF Lookup
  <1>2. \A asn : LookupASNRecord(asn)' = LookupASNRecord(asn)
    BY DEF LookupASNRecord
  <1> QED  BY <1>1, <1>2 DEF Meant

\* More tables seen take nothing back of what was said.
LEMMA AnsweredKept ==
    ASSUME AnsweredSoFar, UNCHANGED <<db, targets, next, result>>,
           targets # None => serving' /\ InUse' \in seen' /\ seen \subseteq seen'
    PROVE  AnsweredSoFar'
  <1>1. CASE targets = None
    <2>1. next = 1 /\ result = <<>> /\ DOMAIN <<>> = {} /\ 1 .. 1 - 1 = {}
      BY <1>1 DEF AnsweredSoFar
    <2> QED  BY <1>1, <2>1 DEF AnsweredSoFar
  <1>2. CASE targets # None
    <2>1. ASSUME NEW ip \in DOMAIN result
          PROVE  \E content \in seen' : result'[ip] = Meant(content, ip)'
      BY <1>2, MeantKept DEF AnsweredSoFar
    <2>2. ASSUME NEW n \in 1 .. next - 1, targets[n] \notin DOMAIN result
          PROVE  \E content \in seen' : Meant(content, targets[n])' = None
      BY <1>2, <2>2, MeantKept DEF AnsweredSoFar
    <2> QED  BY <1>2, <2>1, <2>2 DEF AnsweredSoFar
  <1> QED  BY <1>1, <1>2

LEMMA QuietStep ==
    ASSUME ServiceInv, TableInv', GeoTypeOK', BootTable \/ BootGeo \/ Serve
    PROVE  ServiceInv'
  <1>1. UNCHANGED askVars /\ (serving' = serving \/ serving' = TRUE) /\ ~serving
    BY DEF BootTable, BootGeo, Serve
  <1>2. targets = None
    BY <1>1 DEF ServiceInv, AnsweredSoFar
  <1>3. ServiceTypeOK'
    <2>1. serving' \in BOOLEAN
      BY <1>1 DEF ServiceInv, ServiceTypeOK
    <2> QED  BY <1>1, <2>1 DEF ServiceInv, ServiceTypeOK, TableInv, askVars
  <1>4. next = 1 /\ result = <<>> /\ DOMAIN <<>> = {} /\ 1 .. 1 - 1 = {}
    BY <1>2 DEF ServiceInv, AnsweredSoFar
  <1>5. AnsweredSoFar'
    BY <1>1, <1>2, <1>4 DEF AnsweredSoFar, askVars
  <1> QED  BY <1>3, <1>5 DEF ServiceInv

LEMMA InUseType == ASSUME BgpTypeOK PROVE InUse \in Decodable \cup {None}
  BY DEF BgpTypeOK, InUse

LEMMA ReloadStep ==
    ASSUME ServiceInv, TableInv', GeoTypeOK', Reload PROVE ServiceInv'
  <1>1. /\ UNCHANGED <<geoVars, serving, targets, next, result>> /\ serving
        /\ seen' = IF targets = None THEN {} ELSE seen \cup {InUse'}
    BY DEF Reload, Reloading, InUse
  <1>2. InUse' \in Decodable \cup {None}
    BY DEF TableInv, BgpTypeOK, InUse
  <1>3. ServiceTypeOK'
    BY <1>1, <1>2 DEF ServiceInv, ServiceTypeOK, TableInv
  <1>4. AnsweredSoFar'
    BY <1>1, AnsweredKept DEF ServiceInv, geoVars
  <1> QED  BY <1>3, <1>4 DEF ServiceInv

LEMMA AskStep ==
    ASSUME ServiceInv, TableInv', GeoTypeOK', NEW q \in Questions, Ask(q) PROVE ServiceInv'
  <1>1. /\ serving /\ serving' = serving
        /\ targets' = q /\ next' = 1 /\ result' = <<>> /\ seen' = {InUse}
        /\ UNCHANGED <<bgpVars, geoVars>>
    BY DEF Ask
  <1>2. InUse' = InUse /\ InUse \in Decodable \cup {None}
    BY <1>1, InUseType DEF ServiceInv, TableInv, bgpVars, loadVars, InUse
  <1>3. DOMAIN <<>> = {} /\ 1 .. 1 - 1 = {} /\ 1 \in 1 .. MaxTargets + 1
    BY MaxTargetsAssumption
  <1>4. q # None /\ 1 - 1 <= Len(q)
    BY QuestionsAssumption
  <1>5. ServiceTypeOK'
    BY <1>1, <1>2, <1>3 DEF ServiceInv, ServiceTypeOK, TableInv
  <1>6. AnsweredSoFar'
    BY <1>1, <1>2, <1>3, <1>4 DEF AnsweredSoFar
  <1> QED  BY <1>5, <1>6 DEF ServiceInv

LEMMA DescribeNextStep ==
    ASSUME ServiceInv, TableInv', GeoTypeOK', DescribeNext PROVE ServiceInv'
  <1> DEFINE ip == targets[next]
             said == Described(ip)
  <1>1. /\ targets # None /\ db # None /\ next <= Len(targets) /\ next <= MaxTargets
        /\ result' = IF said = None THEN result
                     ELSE [a \in DOMAIN result \cup {ip} |-> IF a = ip THEN said ELSE result[a]]
        /\ next' = next + 1
        /\ UNCHANGED <<bgpVars, geoVars, serving, targets, seen>>
    BY DEF DescribeNext
  <1>2. BgpTypeOK /\ db \in Seq(Kept)
    BY <1>1 DEF ServiceInv, ServiceTypeOK, GeoTypeOK, Kept
  <1>3. targets \in Seq(Address) /\ next \in 1 .. Len(targets) /\ next \in Nat /\ ip \in Address
    BY <1>1, QuestionsAssumption, MaxTargetsAssumption DEF ServiceInv, ServiceTypeOK
  <1>4. said = Meant(InUse, ip) /\ InUse \in seen
    BY <1>1, <1>2, <1>3, DescribedIsMeant DEF ServiceInv, AnsweredSoFar
  <1>5. UNCHANGED <<db, current>> /\ InUse' = InUse
    BY <1>1 DEF bgpVars, loadVars, geoVars, InUse
  <1>6. \A content, a : Meant(content, a)' = Meant(content, a)
    BY <1>5, MeantKept
  <1> HIDE DEF said
  <1>7. /\ DOMAIN result' = IF said = None THEN DOMAIN result ELSE DOMAIN result \cup {ip}
        /\ \A a \in DOMAIN result' :
              result'[a] = IF said # None /\ a = ip THEN said ELSE result[a]
    <2>1. CASE said = None
      BY <1>1, <2>1
    <2>2. CASE said # None
      <3> HIDE DEF ip
      <3> QED  BY <1>1, <2>2
    <2> QED  BY <2>1, <2>2
  <1>8. ServiceTypeOK'
    <2>1. next' \in 1 .. MaxTargets + 1
      BY <1>1, <1>3, MaxTargetsAssumption
    <2>2. DOMAIN result' \subseteq Address
      BY <1>3, <1>7 DEF ServiceInv, ServiceTypeOK
    <2> QED  BY <1>1, <2>1, <2>2 DEF ServiceInv, ServiceTypeOK, TableInv
  <1>9. ASSUME NEW a \in DOMAIN result'
        PROVE  \E content \in seen : result'[a] = Meant(content, a)
    <2>1. CASE said # None /\ a = ip
      BY <1>4, <1>7, <2>1
    <2>2. CASE ~(said # None /\ a = ip)
      BY <1>7, <2>2 DEF ServiceInv, AnsweredSoFar
    <2> QED  BY <2>1, <2>2
  <1>10. ASSUME NEW n \in 1 .. next, targets[n] \notin DOMAIN result'
         PROVE  \E content \in seen : Meant(content, targets[n]) = None
    <2>1. CASE n = next
      BY <1>4, <1>7, <1>10, <2>1
    <2>2. CASE n # next
      <3>1. n \in 1 .. next - 1 /\ targets[n] \notin DOMAIN result
        BY <1>3, <1>7, <1>10, <2>2
      <3> QED  BY <3>1 DEF ServiceInv, AnsweredSoFar
    <2> QED  BY <2>1, <2>2
  <1>11. AnsweredSoFar'
    <2>1. next' - 1 = next /\ next' - 1 <= Len(targets')
      BY <1>1, <1>3
    <2>2. targets' # None /\ serving' /\ InUse' \in seen'
      BY <1>1, <1>4, <1>5 DEF ServiceInv, AnsweredSoFar
    <2>3. ASSUME NEW a \in DOMAIN result'
          PROVE  \E content \in seen' : result'[a] = Meant(content, a)'
      BY <1>1, <1>6, <1>9
    <2>4. ASSUME NEW n \in 1 .. next' - 1, targets'[n] \notin DOMAIN result'
          PROVE  \E content \in seen' : Meant(content, targets[n])' = None
      BY <1>1, <1>6, <1>10, <2>1, <2>4
    <2> QED  BY <1>1, <2>1, <2>2, <2>3, <2>4 DEF AnsweredSoFar
  <1> QED  BY <1>8, <1>11 DEF ServiceInv

LEMMA ReplyStep ==
    ASSUME ServiceInv, TableInv', GeoTypeOK', Reply PROVE ServiceInv'
  <1>1. /\ targets' = None /\ next' = 1 /\ result' = <<>> /\ seen' = {}
        /\ UNCHANGED serving
    BY DEF Reply
  <1>2. DOMAIN <<>> = {} /\ 1 .. 1 - 1 = {} /\ 1 \in 1 .. MaxTargets + 1
    BY MaxTargetsAssumption
  <1>3. ServiceTypeOK'
    BY <1>1, <1>2 DEF ServiceInv, ServiceTypeOK, TableInv
  <1>4. AnsweredSoFar'
    BY <1>1, <1>2 DEF AnsweredSoFar
  <1> QED  BY <1>3, <1>4 DEF ServiceInv

LEMMA ServiceStep == ServiceInv /\ [ServiceNext]_serviceVars => ServiceInv'
  <1> SUFFICES ASSUME ServiceInv, [ServiceNext]_serviceVars PROVE ServiceInv'
    OBVIOUS
  <1>1. TableInv' /\ GeoTypeOK'
    BY ServiceStepsTable, ServiceStepsGeo, TableStep, GeoTypeStep DEF ServiceInv, ServiceTypeOK
  <1>2. CASE BootTable \/ BootGeo \/ Serve
    BY <1>1, <1>2, QuietStep
  <1>3. CASE Reload
    BY <1>1, <1>3, ReloadStep
  <1>4. CASE \E q \in Questions : Ask(q)
    BY <1>1, <1>4, AskStep
  <1>5. CASE DescribeNext
    BY <1>1, <1>5, DescribeNextStep
  <1>6. CASE Reply
    BY <1>1, <1>6, ReplyStep
  <1>7. CASE UNCHANGED serviceVars
    <2>1. UNCHANGED <<bgpVars, geoVars, serving, targets, next, result, seen>>
      BY <1>7 DEF serviceVars, askVars
    <2>2. ServiceTypeOK'
      BY <1>1, <2>1 DEF ServiceInv, ServiceTypeOK, TableInv
    <2>3. UNCHANGED <<db, current>> /\ InUse' = InUse
      BY <2>1 DEF bgpVars, loadVars, geoVars, InUse
    <2>4. AnsweredSoFar'
      BY <2>1, <2>3, AnsweredKept DEF ServiceInv, AnsweredSoFar
    <2> QED  BY <1>1, <2>2, <2>4 DEF ServiceInv
  <1> QED  BY <1>2, <1>3, <1>4, <1>5, <1>6, <1>7 DEF ServiceNext

-----------------------------------------------------------------------------
(***************************************************************************)
(* The queries against each other.                                         *)
(***************************************************************************)
\* The routes given for an address are those of one prefix that covers it.
LEMMA OnePrefix ==
    ASSUME NEW c \in Decodable, NEW ip \in Address, RoutesMeant[c][ip] # <<>>
    PROVE  \E p \in Prefix : Covers(p, ip) /\ RoutesMeant[c][ip] = RoutesOf(c, p)
  <1> DEFINE matching == {p \in Prefix : Covers(p, ip) /\ RoutesOf(c, p) # <<>>}
             Longest(p) == \A q \in matching : Len(q) <= Len(p)
             t == Table(c)
  <1>1. RoutesMeant[c][ip] = IF matching \subseteq {<<>>} THEN <<>>
                             ELSE RoutesOf(c, CHOOSE p \in matching : Longest(p))
    BY DEF RoutesMeant
  <1>2. ~(matching \subseteq {<<>>})
    BY <1>1
  <1>3. \E p \in matching : Longest(p)
    <2>1. c \in Seq(Routes)
      BY RoutesAssumption
    <2>2. t \in Tries(Routes) /\ \A p \in Prefix : At(t, p) = RoutesOf(c, p)
      BY <2>1, TableHolds
    <2>3. \A p \in matching :
             Len(p) \in 0 .. Width /\ p = First(ip, Len(p)) /\ At(t, First(ip, Len(p))) # <<>>
      BY <2>2, CoversFirst, PrefixLength
    <2>4. \A n \in 0 .. Width : First(ip, n) \in Prefix /\ Len(First(ip, n)) = n
                               /\ Covers(First(ip, n), ip)
      BY AddressIsPrefix, FirstIsPrefix, CoversFirst
    <2>5. \E n \in 0 .. Width : At(t, First(ip, n)) # <<>>
      BY <1>2, <2>3
    <2>6. PICK n \in 0 .. Width :
             /\ At(t, First(ip, n)) # <<>>
             /\ \A m \in 0 .. Width : At(t, First(ip, m)) # <<>> => m <= n
      BY <2>2, <2>5, LongestPrefixHolds
    <2>7. First(ip, n) \in matching
      BY <2>2, <2>4, <2>6
    <2>8. Longest(First(ip, n))
      BY <2>3, <2>4, <2>6
    <2> QED  BY <2>7, <2>8
  <1> DEFINE best == CHOOSE p \in matching : Longest(p)
  <1>4. best \in matching
    <2> HIDE DEF matching, Longest
    <2> QED  BY <1>3
  <1> HIDE DEF best
  <1> QED  BY <1>1, <1>2, <1>4 DEF best

\* A pair for each route in the answers to all prefixes.
Pairs(s) == UNION {{<<p, k>> : k \in DOMAIN RoutesOf(s, p)} : p \in Prefix}
Parsed(s) == {n \in DOMAIN s : Usable(s[n])}

LEMMA CountHolds ==
    ASSUME NEW content \in Seq(Routes)
    PROVE  Cardinality(Parsed(content)) = Cardinality(Pairs(content))
  <1> DEFINE T == {s \in Seq(Routes) :
                     /\ IsFiniteSet(Parsed(s)) /\ IsFiniteSet(Pairs(s))
                     /\ Cardinality(Parsed(s)) = Cardinality(Pairs(s))}
  <1>1. <<>> \in T
    <2>1. <<>> \in Seq(Routes) /\ DOMAIN <<>> = {}
      OBVIOUS
    <2>2. Parsed(<<>>) = {} /\ Pairs(<<>>) = {}
      BY <2>1, OnlyEmpty DEF Parsed, Pairs, RoutesOf
    <2> QED  BY <2>1, <2>2, FS_EmptySet
  <1>2. ASSUME NEW s \in Seq(Routes), NEW x \in Routes, s \in T PROVE Append(s, x) \in T
    <2> DEFINE t == Append(s, x)
    <2>1. /\ t \in Seq(Routes) /\ Len(t) \in DOMAIN t /\ t[Len(t)] = x /\ Len(t) \notin DOMAIN s
          /\ \A n \in DOMAIN s : n \in DOMAIN t /\ t[n] = s[n]
          /\ \A n \in DOMAIN t : n \in DOMAIN s \/ n = Len(t)
      OBVIOUS
    <2>2. ASSUME NEW p \in Prefix
          PROVE  /\ RoutesOf(s, p) \in Seq(Routes)
                 /\ RoutesOf(t, p) =
                      IF x.prefix = p THEN Append(RoutesOf(s, p), x) ELSE RoutesOf(s, p)
      <3>1. RoutesOf(s, p) \in Seq(Routes)
        BY RoutesOfPrefix
      <3>2. RoutesOf(t, p) = IF x.prefix = p THEN Append(RoutesOf(s, p), x) ELSE RoutesOf(s, p)
        BY OnlyAppend DEF RoutesOf
      <3> QED  BY <3>1, <3>2
    <2> HIDE DEF t
    <2>3. CASE Usable(x)
      <3> DEFINE pair == <<x.prefix, Len(RoutesOf(s, x.prefix)) + 1>>
      <3>1. x.prefix \in Prefix
        BY <2>3, UsableRoute
      <3>2. Parsed(t) = Parsed(s) \cup {Len(t)} /\ Len(t) \notin Parsed(s)
        BY <2>1, <2>3 DEF Parsed
      <3>3. ASSUME NEW p \in Prefix
            PROVE  {<<p, k>> : k \in DOMAIN RoutesOf(t, p)} =
                     {<<p, k>> : k \in DOMAIN RoutesOf(s, p)}
                       \cup (IF p = x.prefix THEN {pair} ELSE {})
        <4>1. CASE p # x.prefix
          BY <2>2, <4>1
        <4>2. CASE p = x.prefix
          <5>1. DOMAIN RoutesOf(t, p) = DOMAIN RoutesOf(s, p) \cup {Len(RoutesOf(s, p)) + 1}
            <6> DEFINE u == RoutesOf(s, p)  v == RoutesOf(t, p)
            <6>1. u \in Seq(Routes) /\ v = Append(u, x)
              BY <2>2, <4>2
            <6> HIDE DEF u, v
            <6>2. DOMAIN v = 1 .. Len(u) + 1 /\ DOMAIN u = 1 .. Len(u) /\ Len(u) \in Nat
              BY <6>1
            <6>3. DOMAIN v = DOMAIN u \cup {Len(u) + 1}
              BY <6>2
            <6> QED  BY <6>3 DEF u, v
          <5> QED  BY <4>2, <5>1
        <4> QED  BY <4>1, <4>2
      <3>4. pair \notin Pairs(s)
        <4>1. Len(RoutesOf(s, x.prefix)) + 1 \notin DOMAIN RoutesOf(s, x.prefix)
          BY <2>2, <3>1
        <4> QED  BY <4>1 DEF Pairs
      <3>5. Pairs(t) = Pairs(s) \cup {pair}
        <4> HIDE DEF pair
        <4> QED  BY <3>1, <3>3 DEF Pairs
      <3> HIDE DEF pair
      <3>6. /\ IsFiniteSet(Parsed(t)) /\ Cardinality(Parsed(t)) = Cardinality(Parsed(s)) + 1
            /\ IsFiniteSet(Pairs(t)) /\ Cardinality(Pairs(t)) = Cardinality(Pairs(s)) + 1
        BY <1>2, <3>2, <3>4, <3>5, FS_AddElement
      <3> QED  BY <1>2, <2>1, <3>6 DEF t
    <2>4. CASE ~Usable(x)
      <3>1. x.prefix \notin Prefix
        BY <2>4, UsableRoute
      <3>2. Parsed(t) = Parsed(s)
        BY <2>1, <2>4 DEF Parsed
      <3>3. \A p \in Prefix : RoutesOf(t, p) = RoutesOf(s, p)
        BY <2>2, <3>1
      <3>4. Pairs(t) = Pairs(s)
        BY <3>3 DEF Pairs
      <3> QED  BY <1>2, <2>1, <3>2, <3>4 DEF t
    <2> QED  BY <2>3, <2>4
  <1>3. Seq(Routes) \subseteq T
    <2> HIDE DEF T
    <2> QED  BY <1>1, <1>2, Sequences
  <1> QED  BY <1>3

LEMMA ReplyRoutes ==
    ASSUME BgpTypeOK, Loaded
    PROVE  LET c == current.content IN
           /\ c \in Decodable /\ c \in Seq(Routes)
           /\ \A ip \in Address : BGPReply("ip", ip).routes = RoutesMeant[c][ip]
           /\ \A p \in Prefix : BGPReply("prefix", p).routes = RoutesOf(c, p)
           /\ \A asn \in ASN : BGPReply("asn", asn).routes =
                 IF Len(RoutesThrough(c, asn)) > MaxRoutes
                 THEN SubSeq(RoutesThrough(c, asn), 1, MaxRoutes) ELSE RoutesThrough(c, asn)
  <1> DEFINE c == current.content
  <1>1. c \in Decodable /\ c \in Seq(Routes) /\ current # None
    BY RoutesAssumption DEF BgpTypeOK, Loaded
  <1>2. ASSUME NEW ip \in Address PROVE BGPReply("ip", ip).routes = RoutesMeant[c][ip]
    <2>1. BGPRoutes("ip", ip) = LookupIP(ip)
      BY <1>1 DEF BGPRoutes
    <2> QED  BY <1>1, <2>1, LookupIPHolds DEF BGPReply
  <1>3. ASSUME NEW p \in Prefix PROVE BGPReply("prefix", p).routes = RoutesOf(c, p)
    <2>1. BGPRoutes("prefix", p) = LookupPrefix(p)
      BY <1>1 DEF BGPRoutes
    <2>2. LookupPrefix(p) = At(Table(c), p)
      BY <1>1 DEF LookupPrefix, ExactPrefix, Tables
    <2> QED  BY <1>1, <2>1, <2>2, TableHolds DEF BGPReply
  <1>4. ASSUME NEW asn \in ASN
        PROVE  BGPReply("asn", asn).routes =
                 IF Len(RoutesThrough(c, asn)) > MaxRoutes
                 THEN SubSeq(RoutesThrough(c, asn), 1, MaxRoutes) ELSE RoutesThrough(c, asn)
    <2>1. BGPRoutes("asn", asn) = LookupASN(asn)
      BY <1>1 DEF BGPRoutes
    <2>2. Indexes[c][asn] = RoutesThrough(c, asn)
      BY <1>1, ByASNHolds DEF Indexes
    <2> QED  BY <2>1, <2>2 DEF BGPReply, LookupASN
  <1> QED  BY <1>1, <1>2, <1>3, <1>4

LEMMA ThroughKeeps ==
    ASSUME NEW q \in Seq(Routes), NEW asn, NEW n \in DOMAIN q,
           Usable(q[n]), OnPath(asn, q[n])
    PROVE  /\ RoutesThrough(q, asn) \in Seq(Routes)
           /\ \E j \in DOMAIN RoutesThrough(q, asn) : RoutesThrough(q, asn)[j] = q[n]
  <1> DEFINE S == {r \in Routes : Usable(r) /\ OnPath(asn, r)}
  <1>1. RoutesThrough(q, asn) = Only(q, S)
    BY Zenon DEF RoutesThrough
  <1>2. q[n] \in S
    OBVIOUS
  <1> HIDE DEF S
  <1>3. Only(q, S) \in Seq(Routes)
    BY OnlyElements
  <1>4. \A m \in DOMAIN q :
           q[m] \in S => \E j \in DOMAIN Only(q, S) : Only(q, S)[j] = q[m]
    BY OnlyElements
  <1>5. \E j \in DOMAIN Only(q, S) : Only(q, S)[j] = q[n]
    BY <1>2, <1>4, Zenon
  <1> QED  BY <1>1, <1>3, <1>5, Zenon

LEMMA QueriesAgreeHolds == BgpTypeOK /\ GeoTypeOK => QueriesAgree
  <1> SUFFICES ASSUME BgpTypeOK, GeoTypeOK, serving, Loaded PROVE QueriesAgree
    BY DEF QueriesAgree
  <1> DEFINE c == current.content
  <1>1. /\ c \in Decodable /\ c \in Seq(Routes)
        /\ \A ip \in Address : BGPReply("ip", ip).routes = RoutesMeant[c][ip]
        /\ \A p \in Prefix : BGPReply("prefix", p).routes = RoutesOf(c, p)
        /\ \A asn \in ASN : BGPReply("asn", asn).routes =
              IF Len(RoutesThrough(c, asn)) > MaxRoutes
              THEN SubSeq(RoutesThrough(c, asn), 1, MaxRoutes) ELSE RoutesThrough(c, asn)
    BY ReplyRoutes
  <1>2. ASSUME NEW ip \in Address, db # None, NoASN(BGPReply("ip", ip).geo),
               BGPReply("ip", ip).names # <<>>
        PROVE  Last(BGPReply("ip", ip).names) \in {None, Described(ip)}
    <2> DEFINE routes == BGPRoutes("ip", ip)
               path == routes[1].path
    <2>1. /\ BGPReply("ip", ip).geo = Lookup(ip)
          /\ BGPReply("ip", ip).names =
                IF routes = <<>> THEN <<>> ELSE [k \in DOMAIN path |-> LookupASNRecord(path[k])]
      BY <1>2 DEF BGPReply
    <2>2. routes = RoutesFor(ip) /\ routes = RoutesMeant[c][ip]
      BY <1>1 DEF BGPReply, BGPRoutes, RoutesFor, Loaded
    <2>3. routes # <<>>
      BY <1>2, <2>1
    <2>4. path \in Seq(ASN)
      <3>1. PICK p \in Prefix : routes = RoutesOf(c, p)
        BY <1>1, <2>2, <2>3, OnePrefix
      <3>2. routes \in Seq(Routes)
        BY <1>1, <3>1, RoutesOfPrefix
      <3>3. routes[1] \in Routes
        BY <2>3, <3>2
      <3> QED  BY <3>3 DEF Routes
    <2> HIDE DEF routes
    <2>9. path # <<>>
      <3> DEFINE named == {LookupASNRecord(path[k]) : k \in DOMAIN path}
                 names == [k \in 1 .. Len(path) |-> LookupASNRecord(path[k])]
      <3>1. DOMAIN path = 1 .. Len(path) /\ Len(path) \in Nat
        BY <2>4
      <3>2. names \in Seq(named) /\ Len(names) = Len(path)
        BY <3>1
      <3>3. names # <<>>
        BY <1>2, <2>1, <2>3, <3>1
      <3> HIDE DEF names, named
      <3>4. Len(path) # 0
        BY <3>2, <3>3
      <3> QED  BY <2>4, <3>4
    <2>5. Len(path) \in DOMAIN path /\ Origin(routes[1]) = path[Len(path)]
      BY <2>3, <2>4, <2>9 DEF Origin
    <2>6. Last(BGPReply("ip", ip).names) = LookupASNRecord(path[Len(path)])
      <3> DEFINE names == [k \in DOMAIN path |-> LookupASNRecord(path[k])]
      <3>1. Len(names) = Len(path)
        BY <2>4
      <3>2. Last(names) = LookupASNRecord(path[Len(path)])
        BY <2>5, <3>1 DEF Last
      <3> QED  BY <2>1, <2>3, <3>2
    <2>7. LookupASNRecord(None) = None
      BY DEF LookupASNRecord, AsnIdx
    <2>8. ByOrigin(ip) = LookupASNRecord(path[Len(path)])
      BY <2>2, <2>3, <2>5, <2>7 DEF ByOrigin
    <2> QED  BY <1>2, <2>1, <2>6, <2>8 DEF Described
  <1>3. ASSUME NEW ip \in Address, NEW r \in ToSet(BGPReply("ip", ip).routes)
        PROVE  /\ Covers(r.prefix, ip)
               /\ ToSet(BGPReply("ip", ip).routes) = ToSet(BGPReply("prefix", r.prefix).routes)
               /\ \A asn \in ToSet(r.path) :
                     LET through == BGPReply("asn", asn).routes
                     IN  r \in ToSet(through) \/ Len(through) = MaxRoutes
    <2> DEFINE routes == BGPReply("ip", ip).routes
    <2>1. PICK k \in DOMAIN routes : r = routes[k]
      BY DEF ToSet
    <2>2. routes = RoutesMeant[c][ip]
      BY <1>1
    <2>3. RoutesMeant[c][ip] # <<>>
      BY <2>1, <2>2
    <2>4. PICK p \in Prefix : Covers(p, ip) /\ routes = RoutesOf(c, p)
      BY <1>1, <2>2, <2>3, OnePrefix
    <2> HIDE DEF routes
    <2>5. r.prefix = p
      BY <1>1, <2>1, <2>4, RoutesOfPrefix
    <2>6. PICK n \in DOMAIN c : c[n] = r
      BY <1>1, <2>1, <2>4, OnlyElements DEF RoutesOf
    <2>7. r \in Routes /\ Usable(r)
      BY <1>1, <2>5, <2>6, UsableRoute
    <2>8. ASSUME NEW asn \in ToSet(r.path)
          PROVE  LET through == BGPReply("asn", asn).routes
                 IN  r \in ToSet(through) \/ Len(through) = MaxRoutes
      <3> DEFINE all == RoutesThrough(c, asn)
      <3>1. asn \in ASN /\ OnPath(asn, r)
        BY <2>7 DEF ToSet, Routes, OnPath
      <3>3. all \in Seq(Routes) /\ \E j \in DOMAIN all : all[j] = r
        <4>1. c \in Seq(Routes) /\ Usable(c[n]) /\ OnPath(asn, c[n])
          BY <1>1, <2>6, <2>7, <3>1
        <4> HIDE DEF c
        <4> QED  BY <2>6, <4>1, ThroughKeeps
      <3>4. BGPReply("asn", asn).routes =
               IF Len(all) > MaxRoutes THEN SubSeq(all, 1, MaxRoutes) ELSE all
        BY <1>1, <3>1
      <3> HIDE DEF all
      <3>5. CASE Len(all) > MaxRoutes
        <4>1. Len(SubSeq(all, 1, MaxRoutes)) = MaxRoutes
          BY <3>3, <3>5, MaxRoutesAssumption
        <4> QED  BY <3>4, <3>5, <4>1
      <3>6. CASE ~(Len(all) > MaxRoutes)
        BY <3>3, <3>4, <3>6 DEF ToSet
      <3> QED  BY <3>5, <3>6
    <2> QED  BY <1>1, <2>4, <2>5, <2>8 DEF routes
  <1>4. InfoCount = Cardinality(
           UNION {{<<p, k>> : k \in DOMAIN BGPReply("prefix", p).routes} : p \in Prefix})
    <2>1. InfoCount = Cardinality(Parsed(c))
      BY DEF InfoCount, RouteCount, Parsed, Loaded
    <2>2. UNION {{<<p, k>> : k \in DOMAIN BGPReply("prefix", p).routes} : p \in Prefix} = Pairs(c)
      BY <1>1 DEF Pairs
    <2> QED  BY <1>1, <2>1, <2>2, CountHolds
  <1> QED  BY <1>2, <1>3, <1>4 DEF QueriesAgree

-----------------------------------------------------------------------------
LEMMA ServiceKeepsInv == ServiceSpec => []ServiceInv
  BY ServiceInitInv, ServiceStep, PTL DEF ServiceSpec

\* Every variable of start, table, database and IPInfo keeps to its values; the
\* buffers of csvLineReader too, however Read cuts the file.
THEOREM ServiceTypes == ServiceSpec => []ServiceTypeOK
  <1>1. ServiceInv => ServiceTypeOK
    BY DEF ServiceInv
  <1> QED  BY <1>1, ServiceKeepsInv, PTL

\* main.go's service, boot and requests and all, changes the table only as the
\* poll and the load do: it implements BgpTable.
THEOREM TableUndisturbed == ServiceSpec => BgpSpec
  <1>1. ServiceInit => BgpInit
    BY DEF ServiceInit
  <1> QED  BY <1>1, ServiceStepsTable, PTL DEF ServiceSpec, BgpSpec

\* So what is proved of the table holds while requests are served: the routes
\* are those of the longest prefix, a new file is not overlooked, and once
\* there is a table there always is one.
THEOREM TableServed == ServiceSpec => [](RoutesGiven /\ NothingHidden) /\ AlwaysServed
  <1>1. BgpSpec => [](RoutesGiven /\ NothingHidden)
    BY LongestPrefixMatch, PollSeesNewFiles, PTL
  <1> QED  BY <1>1, TableUndisturbed, NeverWithout, PTL

\* geoip.go's Open: all of a sound file becomes the database and nothing of an
\* unsound one, wherever Read ends the buffers, with newlines and doubled quotes
\* within quotes; and no sound file is refused but for a stream that broke.
THEOREM WholeFiles == ServiceSpec => []AllOrNothing
  <1>1. ServiceInit => ReadSoFar
    BY ReadInit DEF ServiceInit
  <1>2. ServiceInv /\ ReadSoFar /\ [ServiceNext]_serviceVars => ReadSoFar'
    BY ReadStep, ServiceStepsGeo DEF ServiceInv, ServiceTypeOK
  <1>3. ReadSoFar => AllOrNothing
    BY DEF ReadSoFar
  <1> QED  BY <1>1, <1>2, <1>3, ServiceKeepsInv, PTL DEF ServiceSpec

\* The GeoIP database answers with the record of the longest network around
\* the address, the last of several for one network, and with the first of an
\* AS (geoip.go), whatever the file has.
THEOREM NearestRecord == ServiceSpec => []GeoAnswers
  <1>1. ServiceInv => GeoAnswers
    BY GeoAnswersHold DEF ServiceInv, ServiceTypeOK
  <1> QED  BY <1>1, ServiceKeepsInv, PTL

\* IPInfo (handler.go) says of each address what is right for a table that was
\* in use since the request came, however often it is replaced meanwhile.
THEOREM RightWhenSaid == ServiceSpec => []SaidInTime
  <1>1. ServiceInv => SaidInTime
    <2> SUFFICES ASSUME AnsweredSoFar PROVE SaidInTime
      BY DEF ServiceInv
    <2> QED  BY DEF AnsweredSoFar, SaidInTime
  <1> QED  BY <1>1, ServiceKeepsInv, PTL

\* The queries by address, prefix and AS, Info's count and IPInfo agree on any
\* table and database.
THEOREM OneAnswer == ServiceSpec => []QueriesAgree
  <1>1. ServiceInv => QueriesAgree
    BY QueriesAgreeHolds DEF ServiceInv, ServiceTypeOK
  <1> QED  BY <1>1, ServiceKeepsInv, PTL
=============================================================================

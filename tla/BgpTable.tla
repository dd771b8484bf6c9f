------------------------------- MODULE BgpTable -------------------------------
(***************************************************************************)
(* The BGP table, internal/bgp/store.go: one goroutine polls the file      *)
(* every five minutes and loads it when its mtime is after that of the     *)
(* table in use; handlers look up in whatever table s.current points to.   *)
(*                                                                         *)
(* The writer of the file is another program: it renames a finished file   *)
(* over the old one, with whatever mtime that file has, or truncates and   *)
(* rewrites it in place.  load examines and reads the file it has opened,  *)
(* which the path may no longer lead to.  It reads in many pieces: of a    *)
(* file written in place between two of them, nothing is known but that it *)
(* decodes to some table or to none.  One writer at a time is assumed.     *)
(*                                                                         *)
(* A table is immutable once published and a function of what was decoded: *)
(* `current' holds the decoded routes, and trie and AS index are built     *)
(* from them where they are looked at.                                     *)
(***************************************************************************)
EXTENDS PrefixTrie, FiniteSets

CONSTANTS
    Contents,  \* what a whole file may hold: sequences of [prefix, path]
    Decodable, \* these, and what pieces of several files may join to
    BadCIDR,   \* the prefix of a route net.ParseCIDR refuses
    ASN,
    MaxRoutes, \* the 1000 routes LookupASN answers with at most
    MaxTime,   \* bound on the clock that mtimes are taken from
    Torn       \* what a half-written file holds: not JSON

ASSUME MaxRoutesAssumption == MaxRoutes \in Nat \ {0}
ASSUME MaxTimeAssumption == MaxTime \in Nat
ASSUME ContentsAssumption == Torn \notin Decodable

\* data.Routes once decoded: a prefix, or what ParseCIDR refuses, and a path.
Routes == [prefix : Prefix \cup {BadCIDR}, path : Seq(ASN)]

ASSUME RoutesAssumption ==
    Contents \subseteq Decodable /\ Decodable \subseteq Seq(Routes) /\ BadCIDR \notin Prefix

VARIABLES
    clock,
    disk,       \* what the path leads to: [mtime, content], or None
    fd,         \* what load has open: "closed", "path" (what the path leads
                \*   to), or "gone" (what it led to when it was opened)
    old,        \* the file behind a "gone" descriptor
    pc,         \* where Start's goroutine, or NewStore, is inside load
    mtime,      \* info.ModTime() of the opened file
    mixed,      \* the opened file was written between two reads of it
    current,    \* s.current: [mtime, content], or None
    newest,     \* history: the latest mtime of a file that was whole, or is
                \*   read while it is written, so far, or -1
    backdated   \* history: the file appeared with an mtime not after newest

loadVars == <<fd, old, pc, mtime, mixed, current>>
bgpVars == <<clock, disk, loadVars, newest, backdated>>

File == [mtime : 0 .. MaxTime, content : Contents \cup {Torn}]

ASSUME NoneAssumption ==
    None \notin [mtime : 0 .. MaxTime, content : Decodable \cup {Torn}] \cup Decodable

BgpInit ==
    /\ clock = 0
    /\ disk \in {None} \cup [mtime : {0}, content : Contents \cup {Torn}]
    /\ fd = "closed" /\ old = None
    /\ pc = "open"
    /\ mtime = 0
    /\ mixed = FALSE
    /\ current = None
    /\ newest = IF disk # None /\ disk.content # Torn THEN 0 ELSE -1
    /\ backdated = FALSE

-----------------------------------------------------------------------------
(***************************************************************************)
(* The writer.                                                             *)
(***************************************************************************)
\* The path leads to a new file; an open descriptor keeps the old one.
Detach ==
    /\ fd' = IF fd = "path" THEN "gone" ELSE fd
    /\ old' = IF fd = "path" THEN disk ELSE old

Later(s, t) == IF s > t THEN s ELSE t

\* A whole file appears, with mtime t.
Appears(t, last) == newest' = Later(t, last) /\ backdated' = (t <= last)

Replace(c, t) ==
    /\ disk' = [mtime |-> t, content |-> c]
    /\ Detach /\ Appears(t, newest)
    /\ UNCHANGED <<clock, pc, mtime, mixed, current>>

Unlink ==
    /\ disk # None
    /\ disk' = None
    /\ Detach
    /\ backdated' = FALSE
    /\ UNCHANGED <<clock, pc, mtime, mixed, current, newest>>

\* load has read some of the file that the path leads to.
PartRead == fd = "path" /\ pc = "decode"

LatestRead == IF PartRead THEN Later(mtime, newest) ELSE newest

Truncate ==
    /\ disk # None
    /\ disk' = [mtime |-> clock, content |-> Torn]
    /\ mixed' = (mixed \/ PartRead)
    /\ newest' = LatestRead
    /\ backdated' = FALSE
    /\ UNCHANGED <<clock, fd, old, pc, mtime, current>>

Rewrite(c) ==
    /\ disk # None /\ disk.content = Torn
    /\ disk' = [mtime |-> clock, content |-> c]
    /\ mixed' = (mixed \/ PartRead)
    /\ Appears(clock, LatestRead)
    /\ UNCHANGED <<clock, fd, old, pc, mtime, current>>

BgpTick ==
    /\ clock < MaxTime
    /\ clock' = clock + 1
    /\ UNCHANGED <<disk, loadVars, newest, backdated>>

Rename == \E c \in Contents, t \in 0 .. clock : Replace(c, t)
InPlace == Truncate \/ \E c \in Contents : Rewrite(c)

-----------------------------------------------------------------------------
(***************************************************************************)
(* The poll and the load.                                                  *)
(***************************************************************************)
Opened == IF fd = "path" THEN disk ELSE old

Close ==
    /\ fd' = "closed" /\ old' = None
    /\ pc' = "idle"
    /\ mtime' = 0 /\ mixed' = FALSE

\* ModTime().After.
NewerStrictly == current # None => disk.mtime > current.mtime + 1  \* fault
Newer == current # None => disk.mtime > current.mtime

Poll ==
    /\ pc = "idle"
    /\ disk # None /\ Newer
    /\ pc' = "open"
    /\ UNCHANGED <<clock, disk, fd, old, mtime, mixed, current, newest, backdated>>

Open ==
    /\ pc = "open"
    /\ disk # None
    /\ fd' = "path" /\ pc' = "stat"
    /\ UNCHANGED <<clock, disk, old, mtime, mixed, current, newest, backdated>>

StatPath ==                                \* fault: of the path, not of f
    /\ pc = "stat"
    /\ disk # None
    /\ mtime' = disk.mtime /\ pc' = "read"
    /\ UNCHANGED <<clock, disk, fd, old, mixed, current, newest, backdated>>
Stat ==
    /\ pc = "stat"
    /\ mtime' = Opened.mtime /\ pc' = "read"
    /\ UNCHANGED <<clock, disk, fd, old, mixed, current, newest, backdated>>

\* The first Read of dec.Decode.
FirstRead ==
    /\ pc = "read"
    /\ pc' = "decode"
    /\ UNCHANGED <<clock, disk, fd, old, mtime, mixed, current, newest, backdated>>

\* The last one, and the table is stored.
DecodeAny ==                               \* fault: a decode error is ignored
    /\ pc = "decode" /\ ~mixed
    /\ current' = [mtime |-> mtime, content |-> Opened.content]
    /\ Close
    /\ UNCHANGED <<clock, disk, newest, backdated>>
Decode ==
    /\ pc = "decode" /\ ~mixed
    /\ Opened.content # Torn
    /\ current' = [mtime |-> mtime, content |-> Opened.content]
    /\ Close
    /\ UNCHANGED <<clock, disk, newest, backdated>>

DecodeMixed ==
    /\ pc = "decode" /\ mixed
    /\ \E c \in Decodable : current' = [mtime |-> mtime, content |-> c]
    /\ Close
    /\ UNCHANGED <<clock, disk, newest, backdated>>

\* An error of Open, Stat or Decode: no file, not JSON, or the disk's.
LoadGivesUp ==                             \* fault: the table goes first
    /\ pc # "idle"
    /\ current' = None
    /\ Close
    /\ UNCHANGED <<clock, disk, newest, backdated>>
LoadFails ==
    /\ pc # "idle"
    /\ Close
    /\ UNCHANGED <<clock, disk, current, newest, backdated>>

Load == Open \/ Stat \/ FirstRead \/ Decode \/ DecodeMixed \/ LoadFails

\* A writer that only renames, as the converter does (docs/bgp-data.md:91).
RenameNext == Rename \/ Unlink \/ BgpTick \/ Poll \/ Load
RenameSpec == BgpInit /\ [][RenameNext]_bgpVars

BgpNext == RenameNext \/ InPlace
BgpSpec == BgpInit /\ [][BgpNext]_bgpVars

-----------------------------------------------------------------------------
(***************************************************************************)
(* The table built from a file, and the lookups.                           *)
(***************************************************************************)
Usable(r) == r.prefix # BadCIDR

Table(content) ==
    LET built[n \in 0 .. Len(content)] ==
          IF n = 0 THEN EmptyTrie
          ELSE IF ~Usable(content[n]) THEN built[n - 1]
          ELSE Insert(built[n - 1], content[n].prefix, content[n])
    IN  built[Len(content)]

Tables == [content \in Decodable |-> Table(content)]

OnPath(asn, r) == \E k \in DOMAIN r.path : r.path[k] = asn

\* byASN: a route once for each AS on its path, prepending notwithstanding.
ByASNEachTime(content, asn) ==             \* fault: without seenASNs
    LET list[n \in 0 .. Len(content)] ==
          IF n = 0 THEN <<>>
          ELSE IF ~Usable(content[n]) THEN list[n - 1]
          ELSE list[n - 1] \o [k \in 1 .. Cardinality({j \in DOMAIN content[n].path :
                                     content[n].path[j] = asn}) |-> content[n]]
    IN  list[Len(content)]
ByASN(content, asn) ==
    LET list[n \in 0 .. Len(content)] ==
          IF n = 0 THEN <<>>
          ELSE IF Usable(content[n]) /\ OnPath(asn, content[n])
               THEN Append(list[n - 1], content[n]) ELSE list[n - 1]
    IN  list[Len(content)]

Indexes == [content \in Decodable |-> [asn \in ASN |-> ByASN(content, asn)]]

\* Lines that did not parse are not counted.
RouteCountAll(content) == Len(content)     \* fault: they are
RouteCount(content) == Cardinality({n \in DOMAIN content : Usable(content[n])})

\* A default route is not an answer.
LookupIP(ip) ==
    LET routes == LongestPrefix(Tables[current.content], ip)
    IN  IF \E k \in DOMAIN routes : routes[k].prefix = <<>> THEN <<>> ELSE routes

LookupPrefix(p) == ExactPrefix(Tables[current.content], p)

LookupASN(asn) ==
    LET routes == Indexes[current.content][asn]
    IN  IF Len(routes) > MaxRoutes THEN SubSeq(routes, 1, MaxRoutes) ELSE routes

-----------------------------------------------------------------------------
(***************************************************************************)
(* Properties.                                                             *)
(***************************************************************************)
Loaded == current # None

BgpTypeOK ==
    /\ clock \in 0 .. MaxTime
    /\ disk \in File \cup {None}
    /\ fd \in {"closed", "path", "gone"}
    /\ old \in File \cup {None}
    /\ pc \in {"idle", "open", "stat", "read", "decode"}
    /\ mtime \in 0 .. MaxTime
    /\ mixed \in BOOLEAN /\ (mixed => pc = "decode")
    /\ current \in [mtime : 0 .. MaxTime, content : Decodable] \cup {None}
    /\ newest \in -1 .. MaxTime
    /\ backdated \in BOOLEAN

\* A whole file that is not the one in use has an mtime the next poll will
\* find newer, unless it appeared with an mtime no later than an earlier one's:
\* neither a rename between Open and Stat nor a rewrite under the open
\* descriptor makes the poll blind to it.  So a table mixed of several writes,
\* which no file held, is replaced once a whole file is there.
NothingHidden ==
    disk # None /\ disk.content # Torn /\ ~backdated /\ Loaded
        => disk.content = current.content \/ disk.mtime > current.mtime

\* Strengthening: the mtimes of whole files grow along the path, but for files
\* that appear backdated; what is open was whole before what replaced it, and
\* the mtime taken of it is no later than its last.
Whole(file) == file # None /\ file.content # Torn
MtimesGrow ==
    /\ pc \in {"stat", "read", "decode"} => fd # "closed"
    /\ fd = "path" => disk # None
    /\ fd = "gone" => old # None
    /\ disk # None => disk.mtime <= clock
    /\ Whole(disk) => disk.mtime <= newest
    /\ Loaded => current.mtime <= newest
    /\ fd = "gone" /\ Whole(old) =>
          old.mtime <= newest /\ (Whole(disk) /\ ~backdated => old.mtime < disk.mtime)
    /\ pc \in {"read", "decode"} => mtime <= Opened.mtime
    /\ mixed => mtime <= newest /\ (Whole(disk) /\ ~backdated => mtime < disk.mtime)

\* The table in use is one that some whole file held.
WholeTable == Loaded => current.content \in Contents

\* Once there is a table there always is one.
AlwaysServed == [][Loaded => Loaded']_bgpVars

\* A file that stays, and was not backdated, is served in the end.
NewestServed ==
    \A c \in Contents :
        <>[](disk # None /\ disk.content = c /\ ~backdated)
            => <>[](Loaded /\ current.content = c)

\* The routes a file gives for a prefix and through an AS, in its order.
RoutesOf(content, p) == Only(content, {r \in Routes : r.prefix = p})
RoutesThrough(content, asn) == Only(content, {r \in Routes : Usable(r) /\ OnPath(asn, r)})

\* The routes an address should be given: all those of the longest prefix
\* that covers it, and none when that is the default route.
RoutesMeant ==
    [content \in Decodable |-> [ip \in Address |->
        LET matching == {p \in Prefix : Covers(p, ip) /\ RoutesOf(content, p) # <<>>}
        IN  IF matching \subseteq {<<>>} THEN <<>>
            ELSE RoutesOf(content, CHOOSE p \in matching : \A q \in matching : Len(q) <= Len(p))]]

\* LookupIP is longest-prefix match, whatever the order of the routes, and
\* LookupASN gives every route through the AS once, up to the cap.
RoutesGiven ==
    Loaded =>
        /\ \A ip \in Address : LookupIP(ip) = RoutesMeant[current.content][ip]
        /\ \A asn \in ASN :
              LET through == RoutesThrough(current.content, asn)
              IN  LookupASN(asn) = SubSeq(through, 1,
                      IF Len(through) > MaxRoutes THEN MaxRoutes ELSE Len(through))
=============================================================================

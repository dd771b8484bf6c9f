------------------------------ MODULE PrefixTrie ------------------------------
(***************************************************************************)
(* The binary trie of prefixes of internal/bgp/trie.go and, with one       *)
(* record instead of a list of routes at each node, of geoip.go.  A node   *)
(* is the sequence of bits that leads to it: a trie is a function from its *)
(* nodes to what they hold, <<>> at a node that only leads on.             *)
(*                                                                         *)
(* There is one trie for addresses of Width bits; the code has one for 32  *)
(* bits and one for 128, which never meet.                                 *)
(***************************************************************************)
EXTENDS Integers, Sequences

CONSTANTS
    Width,  \* bits of an address
    None    \* no table, no database, no record

ASSUME WidthAssumption == Width \in Nat \ {0}

Bits(n) == [1 .. n -> {0, 1}]
Address == Bits(Width)
Prefix == UNION {Bits(n) : n \in 0 .. Width}

First(p, n) == SubSeq(p, 1, n)
Covers(p, q) == Len(p) <= Len(q) /\ First(q, Len(p)) = p

EmptyTrie == [node \in {<<>>} |-> <<>>]

\* The elements of a sequence that are in a set, in their order: SelectSeq for
\* what is also proved about.
Only(s, S) ==
    LET kept[n \in 0 .. Len(s)] ==
          IF n = 0 THEN <<>>
          ELSE IF s[n] \in S THEN Append(kept[n - 1], s[n]) ELSE kept[n - 1]
    IN  kept[Len(s)]

\* The nodes a prefix passes on its way down are made where they are missing.
PathTo(p) == {First(p, n) : n \in 0 .. Len(p)}

At(trie, node) == IF node \in DOMAIN trie THEN trie[node] ELSE <<>>

\* trie.go: all routes of a prefix, in the order of the file.
Insert(trie, p, r) ==
    [node \in DOMAIN trie \cup PathTo(p) |->
        IF node = p THEN Append(At(trie, p), r) ELSE At(trie, node)]

\* geoip.go: a later record of the same network replaces an earlier one.
Overwrite(trie, p, r) ==
    [node \in DOMAIN trie \cup PathTo(p) |->
        IF node = p THEN <<r>> ELSE At(trie, node)]

\* Down along the address as far as there are nodes: the last that held
\* something counts.
LongestPrefix(trie, ip) ==
    LET best[n \in 0 .. Width] ==
          LET here == At(trie, First(ip, n))
          IN  IF here # <<>> THEN here ELSE IF n = 0 THEN <<>> ELSE best[n - 1]
    IN  best[Width]

ExactPrefix(trie, p) == At(trie, p)
=============================================================================

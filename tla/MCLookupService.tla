--------------------------- MODULE MCLookupService ---------------------------
(***************************************************************************)
(* An instance of LookupService for TLC: addresses of two bits; two tables *)
(* (with a default route, a prepended path, nested prefixes, a bad prefix) *)
(* and one mixed of them; and GeoIP files of a header and up to two more   *)
(* lines of any kind, besides some without a header.  Of the files with    *)
(* two records there are the one with both for the same network and AS,    *)
(* and one with a network within the other.                                *)
(***************************************************************************)
EXTENDS LookupService

R(p, path) == [prefix |-> p, path |-> path]

FirstTable ==
  <<R(<<>>, <<1, 1, 2>>), R(<<1>>, <<1, 2>>), R(<<1, 0>>, <<2>>)>>

MCContents ==
  { FirstTable,
    <<R(<<1, 0>>, <<2, 1>>), R(BadCIDR, <<1>>), R(<<1, 0>>, <<1>>),
      R(<<0, 1>>, <<>>), R(<<1>>, <<1>>)>> }

\* Besides whole files: the beginning of one with the end of the other, cut
\* between routes or within one.
MCDecodable ==
  MCContents \cup
  { <<R(<<>>, <<1, 1, 2>>), R(<<1>>, <<1, 2>>), R(<<0, 1>>, <<>>), R(<<1>>, <<1>>)>> }

Records == {"first", "second", "quoted"}
Kinds == {"header", "first", "second", "quoted", "blank", "cr", "bad", "torn"}

MCLineText ==
  [k \in Kinds |->
     CASE k = "blank" -> <<>>
       [] k = "cr" -> <<"CR">>
       [] k = "quoted" -> <<"quoted", ",", "q", "q", "q", "LF", "LF", "q">>
       [] k = "torn" -> <<"torn", ",", "q", "torn">>
       [] OTHER -> <<k>>]

MCRecord ==
  [k \in Records |->
     CASE k = "first" -> [net |-> <<1>>, asn |-> 1]
       [] k = "second" -> [net |-> <<1>>, asn |-> 1]
       [] k = "quoted" -> [net |-> <<1, 1>>, asn |-> None]]

Pairs == {<<"first", "second">>, <<"first", "quoted">>}

\* By itself, "second" is like "first".
UpToTwo ==
  UNION {[1 .. n -> Kinds \ {"second"}] : n \in 0 .. 2} \ [1 .. 2 -> Records]

MCFiles ==
  {<<"header">> \o s : s \in UpToTwo \cup Pairs}
    \cup {<<>>, <<"first">>, <<"blank", "header">>}

\* At first there is no table or the first one: the rest come while serving.
MCInit == ServiceInit /\ (disk # None => disk.content = FirstTable)
MCSpec == MCInit /\ [][ServiceNext]_serviceVars /\ ServiceFairness

MCQuestions == {<<<<1, 1>>, <<0, 1>>, <<1, 0>>>>}
=============================================================================

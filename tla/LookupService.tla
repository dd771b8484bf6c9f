---------------------------- MODULE LookupService ----------------------------
(***************************************************************************)
(* main.go's start and the lookups it serves: the BGP table is loaded and  *)
(* its poll started, the GeoIP database opened, then requests are served   *)
(* while the table is replaced under them.                                 *)
(*                                                                         *)
(* IPInfo answers for several addresses, each from the database and, where *)
(* that knows no AS, from the origin of the address's route in whatever    *)
(* table is in use when its turn comes.  BGP reads the table once: its     *)
(* answer is an operator.                                                  *)
(*                                                                         *)
(* The file is not replaced before serving begins: a bound, nothing yet    *)
(* reads the table twice.                                                  *)
(***************************************************************************)
EXTENDS BgpTable, GeoDatabase

CONSTANT
    Questions,  \* sequences of addresses IPInfo is asked for
    MaxTargets  \* the 50 it answers at most

ASSUME MaxTargetsAssumption == MaxTargets \in Nat
ASSUME QuestionsAssumption == Questions \subseteq Seq(Address) /\ None \notin Questions

VARIABLES
    serving,
    targets,    \* the request: its addresses, or None
    next,       \* the address whose turn it is
    result,     \* address -> the record that describes it in the reply
    seen        \* history: the tables in use since the request came, or None

askVars == <<targets, next, result, seen>>
serviceVars == <<bgpVars, geoVars, serving, askVars>>

ServiceInit ==
    /\ BgpInit /\ GeoInit
    /\ serving = FALSE
    /\ targets = None /\ next = 1 /\ result = <<>> /\ seen = {}

InUse == IF current = None THEN None ELSE current.content

-----------------------------------------------------------------------------
\* NewStore's load, and the poll while nothing is asked.
BootTable ==
    /\ ~serving /\ geoPc = "closed"
    /\ Load
    /\ UNCHANGED <<geoVars, serving, askVars>>

BootGeo ==
    /\ ~serving /\ pc = "idle"
    /\ GeoNext
    /\ UNCHANGED <<bgpVars, serving, askVars>>

Serve ==
    /\ ~serving
    /\ serving' = TRUE
    /\ ForgetFile
    /\ UNCHANGED <<bgpVars, askVars>>

Reloading(step) ==
    /\ serving
    /\ step
    /\ seen' = IF targets = None THEN {}
               ELSE seen \cup {IF current' = None THEN None ELSE current'.content}
    /\ UNCHANGED <<geoVars, serving, targets, next, result>>

Reload == Reloading(BgpNext)

-----------------------------------------------------------------------------
(***************************************************************************)
(* IPInfo.                                                                 *)
(***************************************************************************)
Origin(r) == IF r.path = <<>> THEN None ELSE r.path[Len(r.path)]

RoutesFor(ip) == IF current = None THEN <<>> ELSE LookupIP(ip)

\* The AS by way of the first route's origin, if the database names it.
ByOriginHead(ip) ==                        \* fault: the neighbour's AS
    LET routes == RoutesFor(ip)
    IN  IF routes = <<>> THEN None
        ELSE IF routes[1].path = <<>> THEN None
        ELSE LookupASNRecord(Head(routes[1].path))
ByOrigin(ip) ==
    LET routes == RoutesFor(ip)
    IN  IF routes = <<>> THEN None
        ELSE IF Origin(routes[1]) = None THEN None
        ELSE LookupASNRecord(Origin(routes[1]))

NoASN(rec) == rec = None \/ Record[rec].asn = None

\* What is said of one address: a record, or None for nothing.
Described(ip) ==
    LET rec == Lookup(ip)
    IN  IF NoASN(rec) /\ ByOrigin(ip) # None THEN ByOrigin(ip) ELSE rec

Ask(q) ==
    /\ serving /\ targets = None
    /\ targets' = q /\ next' = 1 /\ result' = <<>>
    /\ seen' = {InUse}
    /\ UNCHANGED <<bgpVars, geoVars, serving>>

DescribeNext ==
    /\ targets # None /\ db # None
    /\ next <= Len(targets) /\ next <= MaxTargets
    /\ LET ip == targets[next]
       IN  result' = IF Described(ip) = None THEN result
                     ELSE [a \in DOMAIN result \cup {ip} |->
                             IF a = ip THEN Described(ip) ELSE result[a]]
    /\ next' = next + 1
    /\ UNCHANGED <<bgpVars, geoVars, serving, targets, seen>>

\* writeJSON, at once when there is no database.
Reply ==
    /\ targets # None
    /\ db = None \/ next > Len(targets) \/ next > MaxTargets
    /\ targets' = None /\ next' = 1 /\ result' = <<>> /\ seen' = {}
    /\ UNCHANGED <<bgpVars, geoVars, serving>>

ServiceNext ==
    \/ BootTable \/ BootGeo \/ Serve \/ Reload
    \/ (\E q \in Questions : Ask(q)) \/ DescribeNext \/ Reply

ServiceSpec == ServiceInit /\ [][ServiceNext]_serviceVars

\* The boot goes on; the ticker fires; a disk that refuses now and then does
\* not do so each time.  Nothing is asked of the writer or of the visitors.
ServiceFairness ==
    /\ WF_serviceVars(BootTable \/ BootGeo \/ Serve)
    /\ WF_serviceVars(Reloading(Poll \/ LoadFails))
    /\ SF_serviceVars(Reloading(Open))
    /\ SF_serviceVars(Reloading(Stat))
    /\ SF_serviceVars(Reloading(FirstRead))
    /\ SF_serviceVars(Reloading(Decode))

FairServiceSpec == ServiceSpec /\ ServiceFairness

-----------------------------------------------------------------------------
(***************************************************************************)
(* BGP and Info: one read of the table each.                               *)
(***************************************************************************)
BGPRoutes(type, query) ==
    IF current = None THEN <<>>
    ELSE CASE type = "ip" -> LookupIP(query)
           [] type = "prefix" -> LookupPrefix(query)
           [] type = "asn" -> LookupASN(query)

BGPReply(type, query) ==
    LET routes == BGPRoutes(type, query)
    IN  [routes |-> routes,
         geo |-> IF db # None /\ type = "ip" THEN Lookup(query) ELSE None,
         names |-> IF db = None \/ routes = <<>> THEN <<>>
                   ELSE [k \in DOMAIN routes[1].path |-> LookupASNRecord(routes[1].path[k])]]

InfoCount == IF current = None THEN 0 ELSE RouteCount(current.content)

-----------------------------------------------------------------------------
(***************************************************************************)
(* Properties.                                                             *)
(***************************************************************************)
ServiceTypeOK ==
    /\ BgpTypeOK /\ GeoTypeOK
    /\ serving \in BOOLEAN
    /\ targets \in Questions \cup {None}
    /\ next \in 1 .. MaxTargets + 1
    /\ DOMAIN result \subseteq Address
    /\ seen \subseteq Decodable \cup {None}

\* What IPInfo should say of an address when `content' is the table in use.
Meant(content, ip) ==
    LET own == Lookup(ip)
        routes == IF content = None THEN <<>> ELSE RoutesMeant[content][ip]
        named == {k \in DOMAIN Record :
                    /\ routes # <<>> /\ routes[1].path # <<>>
                    /\ k = LookupASNRecord(Last(routes[1].path))}
    IN  IF own # None /\ Record[own].asn # None THEN own
        ELSE IF named # {} THEN CHOOSE k \in named : TRUE ELSE own

\* IPInfo reads the table once an address while it is replaced: what it says
\* of each is right for a table that was in use since the request came, though
\* not for the same table all through.
SaidInTime ==
    \A n \in 1 .. next - 1 :
        LET ip == targets[n]
            said == IF ip \in DOMAIN result THEN result[ip] ELSE None
        IN  \E content \in seen : said = Meant(content, ip)

\* Strengthening: the table in use is among those seen, and what is in the
\* reply, or missing from it, is as one of these has it.
AnsweredSoFar ==
    /\ targets = None => next = 1 /\ result = <<>>
    /\ targets # None => serving /\ InUse \in seen /\ next - 1 <= Len(targets)
    /\ \A ip \in DOMAIN result : \E content \in seen : result[ip] = Meant(content, ip)
    /\ \A n \in 1 .. next - 1 :
          targets[n] \notin DOMAIN result => \E content \in seen : Meant(content, targets[n]) = None

\* The three kinds of BGP query, Info and IPInfo agree: a route given for an
\* address is given for its prefix and, short of the cap, for each AS on its
\* path, and the prefixes together have as many routes as Info counts; where
\* the BGP page shows no AS of the address itself but names the path's last,
\* IPInfo names that one.
QueriesAgree ==
    serving /\ Loaded =>
        /\ \A ip \in Address :
              LET reply == BGPReply("ip", ip)
                  given == ToSet(reply.routes)
              IN
              /\ db # None /\ NoASN(reply.geo) /\ reply.names # <<>> =>
                    Last(reply.names) \in {None, Described(ip)}
              /\ \A r \in given :
                    /\ Covers(r.prefix, ip)
                    /\ given = ToSet(BGPReply("prefix", r.prefix).routes)
                    /\ \A asn \in ToSet(r.path) :
                          LET through == BGPReply("asn", asn).routes
                          IN  r \in ToSet(through) \/ Len(through) = MaxRoutes
        /\ InfoCount = Cardinality(
              UNION {{<<p, k>> : k \in DOMAIN BGPReply("prefix", p).routes} : p \in Prefix})
=============================================================================

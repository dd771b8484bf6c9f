-------------------------- MODULE PermanentLinkFlow --------------------------
(***************************************************************************)
(* A result's way from a check to a permanent link: captureJSON or         *)
(* finishCapture puts it into EphemeralCache, Promote (handler/report.go)  *)
(* copies the cache entry and gives it to the report store, which is here  *)
(* what it promises its readers, PermanentLinks.                           *)
(*                                                                         *)
(* Any well-formed id may be asked for: one that was announced by a stream *)
(* and is not put yet, one long forgotten, one asked for before.  Promote  *)
(* holds no lock between its steps: the entry may be evicted or swept      *)
(* while it is written, and a visitor whose answer is lost may ask again.  *)
(***************************************************************************)
EXTENDS EphemeralCache

CONSTANTS
    Client,   \* concurrent Promote requests
    Link,     \* ids of reports, reused when long expired
    LinkTTL,  \* reportTTL, in ticks
    None      \* no result, no report

ASSUME LinkTTLAssumption == LinkTTL \in Nat \ {0}
ASSUME NoneAssumption == None \notin Id /\ None \notin Link

VARIABLES
    pc,         \* where each Promote is
    asked,      \* body.RequestID, or None
    entry,      \* the result in the copied cache entry, or None
    made,       \* the report Promote is writing or has answered with, or None
    report,     \* the result that each report holds, or None
    shown,      \* the reports that open
    linkAge     \* ticks since each report's CapturedAt, up to LinkTTL + 1

promoteVars == <<pc, asked, entry, made>>
linkVars == <<report, shown, linkAge>>
flowVars == <<vars, promoteVars, linkVars>>

Store == INSTANCE PermanentLinks WITH Id <- Link, TTL <- LinkTTL, age <- linkAge

FlowInit ==
    /\ Init /\ Store!Init
    /\ pc = [c \in Client |-> "idle"]
    /\ asked = [c \in Client |-> None]
    /\ entry = [c \in Client |-> None]
    /\ made = [c \in Client |-> None]
    /\ report = [l \in Link |-> None]

-----------------------------------------------------------------------------
\* A check ends and its result is put under its id.  NewID never repeats: an
\* id is used again only when nobody has a copy of what it stood for.
Capture(i) ==
    /\ \A c \in Client : entry[c] # i
    /\ \A l \in Link : report[l] # i
    /\ Put(i)
    /\ UNCHANGED <<promoteVars, linkVars>>

-----------------------------------------------------------------------------
(***************************************************************************)
(* Promote.  Request c goes to the step p and leaves the rest alone.       *)
(***************************************************************************)
Goto(c, from, to) == pc[c] = from /\ pc' = [pc EXCEPT ![c] = to]

Ask(c, i) ==
    /\ Goto(c, "idle", "asked")
    /\ asked' = [asked EXCEPT ![c] = i]
    /\ UNCHANGED <<vars, entry, made, linkVars>>

\* 400, 429 or 503 before the cache is looked at.
Refuse(c) ==
    /\ Goto(c, "asked", "failed")
    /\ UNCHANGED <<vars, asked, entry, made, linkVars>>

FindAndTake(c) ==                          \* fault: Get removes the entry
    /\ asked[c] \in entries
    /\ Goto(c, "asked", "found")
    /\ entry' = [entry EXCEPT ![c] = asked[c]]
    /\ entries' = entries \ {asked[c]}
    /\ UNCHANGED <<age, sweeping, cutoff, since, lost, asked, made, linkVars>>

Find(c) ==
    /\ asked[c] \in entries
    /\ Goto(c, "asked", "found")
    /\ entry' = [entry EXCEPT ![c] = asked[c]]
    /\ UNCHANGED <<vars, asked, made, linkVars>>

NotFound(c) ==
    /\ asked[c] \notin entries
    /\ Goto(c, "asked", "failed")
    /\ UNCHANGED <<vars, asked, entry, made, linkVars>>

\* What is written: the copy.
Copied(c) == entry[c]

\* reports.Promote has found room and names the report.
Reserve(c, l) ==
    /\ Goto(c, "found", "writing")
    /\ report[l] = None
    /\ \A d \in Client : made[d] # l
    /\ Store!Capture(l)
    /\ made' = [made EXCEPT ![c] = l]
    /\ report' = [report EXCEPT ![l] = Copied(c)]
    /\ UNCHANGED <<vars, asked, entry>>

\* The store is full, or writing fails.
PromoteFails(c) ==
    /\ pc[c] \in {"found", "writing"}
    /\ Goto(c, pc[c], "failed")
    /\ report' = [l \in Link |-> IF l = made[c] THEN None ELSE report[l]]
    /\ made' = [made EXCEPT ![c] = None]
    /\ UNCHANGED <<vars, asked, entry, shown, linkAge>>

AnswerEarly(c) ==                          \* fault: the id before the rename
    /\ Goto(c, "writing", "answered")
    /\ UNCHANGED <<vars, asked, entry, made, linkVars>>

\* The rename, and the answer with the id; too old a report opens for nobody.
Publish(c) ==
    /\ Goto(c, "writing", "answered")
    /\ IF linkAge[made[c]] <= LinkTTL
       THEN Store!Publish(made[c]) /\ UNCHANGED report
       ELSE report' = [report EXCEPT ![made[c]] = None] /\ UNCHANGED <<shown, linkAge>>
    /\ UNCHANGED <<vars, asked, entry, made>>

\* The visitor has the answer, or it is lost; a retry may follow.
Return(c) ==
    /\ pc[c] \in {"answered", "failed"}
    /\ Goto(c, pc[c], "idle")
    /\ asked' = [asked EXCEPT ![c] = None]
    /\ entry' = [entry EXCEPT ![c] = None]
    /\ made' = [made EXCEPT ![c] = None]
    /\ UNCHANGED <<vars, linkVars>>

-----------------------------------------------------------------------------
\* A report nobody can open any more is as good as gone.
Expired == report' = [l \in Link |-> IF l \in shown \ shown' THEN None ELSE report[l]]

ExpireLink(l) ==
    /\ l \in shown /\ Store!Expire(l)
    /\ Expired
    /\ UNCHANGED <<vars, promoteVars>>

\* What a visitor of the link is given.
ReportRead(l) == IF l \in shown THEN report[l] ELSE None

CacheSweep ==
    /\ SweepCut \/ SweepDelete
    /\ UNCHANGED <<promoteVars, linkVars>>

FlowTick ==
    /\ Tick /\ Store!Tick
    /\ Expired
    /\ UNCHANGED promoteVars

FlowNext ==
    \/ \E i \in Id : Capture(i)
    \/ \E c \in Client :
          \/ \E i \in Id : Ask(c, i)
          \/ Refuse(c) \/ Find(c) \/ NotFound(c)
          \/ \E l \in Link : Reserve(c, l)
          \/ PromoteFails(c) \/ Publish(c) \/ Return(c)
    \/ \E l \in Link : ExpireLink(l)
    \/ CacheSweep \/ FlowTick

FlowSpec == FlowInit /\ [][FlowNext]_flowVars

\* Time passes, tickers fire, mutexes are handed over, and a request runs on.
FlowFairness ==
    /\ WF_flowVars(FlowTick)
    /\ WF_flowVars(SweepCut /\ UNCHANGED <<promoteVars, linkVars>>)
    /\ WF_flowVars(SweepDelete /\ UNCHANGED <<promoteVars, linkVars>>)

FairFlowSpec == FlowSpec /\ FlowFairness

-----------------------------------------------------------------------------
(***************************************************************************)
(* Properties.                                                             *)
(***************************************************************************)
FlowTypeOK ==
    /\ TypeOK
    /\ pc \in [Client -> {"idle", "asked", "found", "writing",
                          "answered", "failed"}]
    /\ asked \in [Client -> Id \cup {None}]
    /\ entry \in [Client -> Id \cup {None}]
    /\ made \in [Client -> Link \cup {None}]
    /\ report \in [Link -> Id \cup {None}]
    /\ shown \in SUBSET Link
    /\ linkAge \in [Link -> 0 .. LinkTTL + 1]

\* An answered id belongs to a report that opens, for as long as it lives, and
\* holds the result asked for, whatever became of the cache entry meanwhile.
LinkOpensResult ==
    \A c \in Client : pc[c] = "answered" =>
        \/ ReportRead(made[c]) = asked[c]
        \/ ReportRead(made[c]) = None /\ linkAge[made[c]] >= LinkTTL

\* "No longer available" (report.go:42) is never said of a result that has
\* been put, is young and was not crowded out of a full cache.
MissingForAReason ==
    [][\A c \in Client : NotFound(c) =>
          ~Young(asked[c]) \/ asked[c] \in lost]_flowVars

\* Asking for a link costs the cache nothing: to it, Promote is a stutter, and
\* every theorem about EphemeralCache holds of the composition.
CacheUndisturbed == Spec
=============================================================================

------------------------------- MODULE FanOut -------------------------------
(***************************************************************************)
(* The handlers that ask agents or resolvers and wait for the answers:     *)
(* PingAll, HTTPCheckAll and PortCheck of proxy.go, Dig of handler.go.     *)
(*                                                                         *)
(* PingAll, HTTPCheckAll and Dig start a goroutine a node, let Parallel of *)
(* them ask at a time, and join them all.  Each goroutine writes its own   *)
(* element of results (the tallies Dig keeps under a lock are a count of   *)
(* those), and with debug=1 those of Dig write to the ResponseWriter as    *)
(* they end.  The nodes are those live at one instant; liveness goes on    *)
(* changing meanwhile.                                                     *)
(*                                                                         *)
(* One request is followed at a time: requests share nothing but tokens    *)
(* of Admission, which PortCheck and Dig ask for and which are here a      *)
(* refusal that may come or not.                                           *)
(***************************************************************************)
EXTENDS AgentLiveness

CONSTANTS
    Parallel,  \* maxConcurrentAgents, maxConcurrent
    Answer,    \* of these: "silent" (no connection, timeout), "garbage" (not
               \*   JSON), "error" (of the agent's own), "lost" (every packet),
               \*   "lossy", "fine"
    None

ASSUME ParallelAssumption == Parallel \in Nat \ {0}
ASSUME AnswerAssumption == "silent" \in Answer /\ None \notin Answer

VARIABLES
    kind,      \* the request: "ping", "http", "port", "dig", or None
    phase,     \* "idle", "running", "replied" or "refused"
    here,      \* the client is still connected
    asked,     \* the entries fanned out to; for Dig, the resolvers
    worker,    \* where each goroutine is
    sem,       \* tokens taken
    result,    \* results[idx].Status, "pending" at first
    said,      \* history: what each was answered, or None
    cached     \* the results put into the cache, or None

workVars == <<worker, sem, result, said>>
fanVars == <<kind, phase, here, asked, workVars, cached>>
fanOutVars == <<livenessVars, fanVars>>

Kind == {"ping", "http", "port", "dig"}

ASSUME NoneAssumption == None \notin Kind

FanOutInit ==
    /\ LivenessInit
    /\ kind = None /\ phase = "idle" /\ here = TRUE
    /\ asked = {}
    /\ worker = [e \in Entry |-> "none"]
    /\ sem = 0
    /\ result = [e \in Entry |-> "none"]
    /\ said = [e \in Entry |-> None]
    /\ cached = None

-----------------------------------------------------------------------------
(***************************************************************************)
(* A request comes in: k, to fan out to `nodes', whose goroutines begin at *)
(* the step `at'.                                                          *)
(***************************************************************************)
Begin(k, p, nodes, at) ==
    /\ phase # "running"
    /\ kind' = k /\ phase' = p /\ here' = TRUE
    /\ asked' = nodes
    /\ worker' = [e \in Entry |-> IF e \in nodes THEN at ELSE "none"]
    /\ sem' = 0
    /\ result' = [e \in Entry |-> IF e \in nodes THEN "pending" ELSE "none"]
    /\ said' = [e \in Entry |-> None]
    /\ cached' = None
    /\ UNCHANGED livenessVars

PingAll == Begin("ping", "running", LiveNodes, "waiting")
HTTPCheckAll == Begin("http", "running", LiveNodes, "waiting")

\* The resolvers have nothing to do with liveness.
Dig == Begin("dig", "running", Entry, "waiting")

\* One request in the handler's own goroutine, to the first entry of the ID.
PortCheck(i) ==
    /\ IsLive(i)
    /\ \E first \in Sharing(i) :
          /\ \A e \in Sharing(i) : first <= e
          /\ Begin("port", "running", {first}, "asking")

\* Not valid, rate limited; an unknown or dead node; no slot of Admission.
Refuse(k) == Begin(k, "refused", {}, "none")

Leave ==
    /\ phase = "running" /\ here
    /\ here' = FALSE
    /\ UNCHANGED <<livenessVars, kind, phase, asked, workVars, cached>>

-----------------------------------------------------------------------------
(***************************************************************************)
(* The goroutines.                                                         *)
(***************************************************************************)
In(p) == {e \in Entry : worker[e] = p}
Goto(e, p) == worker' = [worker EXCEPT ![e] = p]

TakeAny(e) ==                              \* fault: nobody waits for a token
    /\ worker[e] = "waiting"
    /\ Goto(e, "asking")
    /\ sem' = sem + 1
    /\ UNCHANGED <<livenessVars, kind, phase, here, asked, result, said, cached>>
Take(e) ==
    /\ worker[e] = "waiting"
    /\ sem < Parallel
    /\ Goto(e, "asking")
    /\ sem' = sem + 1
    /\ UNCHANGED <<livenessVars, kind, phase, here, asked, result, said, cached>>

\* PingAll and HTTPCheckAll ask with no context but a timeout, PortCheck and
\* Dig with the client's.  A dig that is killed may have printed its answer.
AgentAnswers(e) == IF e \in up THEN Answer ELSE {"silent"}
PortAnswers(e) == IF here THEN AgentAnswers(e) ELSE {"silent"}
ResolverAnswers == Answer \cap {"silent", "fine"}

Answers(e) == CASE kind \in {"ping", "http"} -> AgentAnswers(e)
                [] kind = "port" -> PortAnswers(e)
                [] kind = "dig" -> ResolverAnswers

\* What each handler makes of an answer.
PingStatus(a) == CASE a = "fine" -> "ok" [] a = "lossy" -> "degraded"
                   [] a = "lost" -> "down" [] OTHER -> "error"
HTTPStatus(a) == IF a \in {"fine", "lossy", "lost"} THEN "ok" ELSE "error"
PortStatus(a) == CASE a = "silent" -> "unreachable" [] a = "garbage" -> "raw"
                   [] OTHER -> "json"
DigStatus(a) == IF a = "fine" THEN "found" ELSE "none"

Status(a) == CASE kind = "ping" -> PingStatus(a) [] kind = "http" -> HTTPStatus(a)
               [] kind = "port" -> PortStatus(a) [] kind = "dig" -> DigStatus(a)

\* The element a goroutine writes: idx is a parameter of its own.
Index(e) == e

\* The deferred release, on every way out.
FreedIfRead(a) == IF a = "garbage" \/ kind = "port" THEN 0 ELSE 1  \* fault
Freed(a) == IF kind = "port" THEN 0 ELSE 1

\* An answer has come, or the wait for one is over.  A goroutine of Dig may
\* have a debug line to write when there was none.
Answered(e) ==
    /\ worker[e] = "asking"
    /\ \E a \in Answers(e) :
          /\ said' = [said EXCEPT ![e] = a]
          /\ result' = [result EXCEPT ![Index(e)] = Status(a)]
          /\ \/ Goto(e, "done") /\ sem' = sem - Freed(a)
             \/ kind = "dig" /\ a # "fine" /\ Goto(e, "telling") /\ UNCHANGED sem
    /\ UNCHANGED <<livenessVars, kind, phase, here, asked, cached>>

Told(e) ==
    /\ worker[e] = "telling"
    /\ Goto(e, "done")
    /\ sem' = sem - Freed(said[e])
    /\ UNCHANGED <<livenessVars, kind, phase, here, asked, result, said, cached>>

\* wg.Wait: Done is deferred first and so comes last.
GoneEarly == In("waiting") \cup In("asking") = {}  \* fault: Done before the line
Gone == asked \subseteq In("done")

\* captureJSON or finishCapture, and the reply, whoever is there to read it.
Replies(c) ==
    /\ phase = "running" /\ Gone
    /\ phase' = "replied"
    /\ cached' = c
    /\ UNCHANGED <<livenessVars, kind, here, asked, workVars>>

Results == [e \in asked |-> result[e]]

ReplyAll == kind \in {"ping", "http"} /\ Replies(Results)
ReplyDig == kind = "dig" /\ Replies(Results)

\* What is not JSON is passed on and not kept, nor is an agent's silence.
ReplyPort ==
    /\ kind = "port"
    /\ Replies(IF \E e \in asked : result[e] = "json" THEN Results ELSE None)

Handling ==
    \/ \E e \in Entry : Take(e) \/ Answered(e) \/ Told(e)
    \/ ReplyAll \/ ReplyDig \/ ReplyPort

FanOutNext ==
    \/ LivenessNext /\ UNCHANGED fanVars
    \/ PingAll \/ HTTPCheckAll \/ Dig
    \/ \E i \in Id : PortCheck(i)
    \/ \E k \in Kind : Refuse(k)
    \/ Leave
    \/ Handling

FanOutSpec == FanOutInit /\ [][FanOutNext]_fanOutVars

\* The checker's goroutine runs, every check and every request to an agent has
\* a timeout, and a token that is free goes to one who waits.
FanOutFairness ==
    /\ WF_fanOutVars(Checker /\ UNCHANGED fanVars)
    /\ WF_fanOutVars(Handling)

FairFanOutSpec == FanOutSpec /\ FanOutFairness

-----------------------------------------------------------------------------
(***************************************************************************)
(* Properties.                                                             *)
(***************************************************************************)
FanOutTypeOK ==
    /\ LivenessTypeOK
    /\ kind \in Kind \cup {None}
    /\ phase \in {"idle", "running", "replied", "refused"}
    /\ here \in BOOLEAN
    /\ asked \subseteq Entry
    /\ worker \in [Entry -> {"none", "waiting", "asking", "telling", "done"}]
    /\ sem \in 0 .. Parallel
    /\ result \in [Entry -> {"none", "pending", "ok", "degraded", "down", "error",
                            "unreachable", "raw", "json", "found"}]
    /\ said \in [Entry -> Answer \cup {None}]

\* A reply, and what is cached of it, has of every node what that node
\* answered, and when it is written no goroutine writes, or will.
ReplyWhole ==
    phase = "replied" =>
        \A e \in asked :
            /\ worker[e] = "done"
            /\ said[e] # None /\ result[e] = Status(said[e])
            /\ cached # None => cached[e] = result[e]

\* Strengthening: a token is held by each goroutine that asks and by no other,
\* so that none asks without one and none is lost on a way out.
TokensAccounted ==
    sem = IF kind = "port" THEN 0 ELSE Cardinality(In("asking") \cup In("telling"))

\* Every request is replied to, agents and resolvers answering or not, with
\* fewer tokens than goroutines and nobody to cut them off.
FanOutEnds == phase = "running" ~> phase # "running"
=============================================================================

---------------------------- MODULE FanOutProofs ----------------------------
(***************************************************************************)
(* Proofs about AgentLiveness and FanOut, for any list of nodes, whatever  *)
(* IDs they share, any threshold, any number of tokens and of answers.     *)
(***************************************************************************)
EXTENDS FanOut, FiniteSetTheorems, TLAPS

-----------------------------------------------------------------------------
(***************************************************************************)
(* The marks.                                                              *)
(***************************************************************************)
LivenessInv == LivenessTypeOK /\ MissesCount

LEMMA MarksInit == LivenessInit => LivenessInv
  <1> SUFFICES ASSUME LivenessInit PROVE LivenessInv
    OBVIOUS
  <1>1. LivenessTypeOK
    BY DeadAfterAssumption DEF LivenessInit, LivenessTypeOK
  <1>2. \A i \in Id : misses[i] = 0 /\ i \in live
    BY DEF LivenessInit
  <1>3. \A i \in Id : \A e \in Sharing(i) : e \in Entry /\ failed[e] = 0
    BY DEF LivenessInit, Sharing
  <1>4. \A i \in Id : \A e \in Entry : Sharing(i) = {e} => misses[i] = failed[e]
    BY <1>2, <1>3
  <1> QED  BY <1>1, <1>2, <1>3, <1>4, DeadAfterAssumption DEF LivenessInv, MissesCount

\* What one recorded answer does to the marks of its own ID and to the others'.
LEMMA FailureStep ==
    ASSUME LivenessInv, NEW e \in Entry, CheckOne(e), e \notin up PROVE LivenessInv'
  <1>1. /\ idOf[e] \in Id
        /\ misses' = [misses EXCEPT ![idOf[e]] = Few(misses[idOf[e]] + 1)]
        /\ live' = IF misses[idOf[e]] + 1 >= DeadAfter THEN live \ {idOf[e]} ELSE live
        /\ failed' = [failed EXCEPT ![e] = Few(failed[e] + 1)]
        /\ idOf' = idOf /\ up' = up /\ pending' \subseteq Entry
    BY DEF CheckOne, RecordFailure, LivenessInv, LivenessTypeOK
  <1>2. \A n \in 0 .. DeadAfter : Few(n + 1) \in 1 .. DeadAfter /\ Few(n + 1) >= n
                                  /\ (Few(n + 1) < DeadAfter <=> n + 1 < DeadAfter)
    BY DeadAfterAssumption DEF Few
  <1>3. LivenessTypeOK'
    BY <1>1, <1>2 DEF LivenessInv, LivenessTypeOK
  <1>4. \A i \in Id : Sharing(i)' = Sharing(i) /\ Sharing(i) \subseteq Entry
    BY <1>1 DEF Sharing
  <1>5. \A f \in Entry : failed[f] \in 0 .. DeadAfter /\ failed'[f] >= failed[f]
    BY <1>1, <1>2 DEF LivenessInv, LivenessTypeOK
  <1>6. ASSUME NEW i \in Id, i # idOf[e]
        PROVE  /\ misses'[i] = misses[i] /\ (i \in live' <=> i \in live)
               /\ \A f \in Sharing(i) : failed'[f] = failed[f]
    BY <1>1, <1>6 DEF Sharing, LivenessInv, LivenessTypeOK
  <1>7. ASSUME NEW i \in Id, i = idOf[e]
        PROVE  /\ misses'[i] = Few(misses[i] + 1)
               /\ i \in live' <=> misses'[i] < DeadAfter
               /\ e \in Sharing(i) /\ failed'[e] = Few(failed[e] + 1)
               /\ \A f \in Sharing(i) \ {e} : failed'[f] = failed[f]
    <2>1. misses[i] \in 0 .. DeadAfter /\ (i \in live <=> misses[i] < DeadAfter)
      BY DEF LivenessInv, LivenessTypeOK, MissesCount
    <2>2. misses'[i] = Few(misses[i] + 1) /\ (i \in live' <=> misses[i] + 1 < DeadAfter)
      BY <1>1, <1>7, <2>1, DeadAfterAssumption DEF LivenessInv, LivenessTypeOK
    <2> QED  BY <1>1, <1>2, <1>7, <2>1, <2>2 DEF Sharing, LivenessInv, LivenessTypeOK
  <1>8. ASSUME NEW i \in Id, Sharing(i) # {}
        PROVE  \E f \in Sharing(i) : failed'[f] <= misses'[i]
    <2>1. PICK f \in Sharing(i) : failed[f] <= misses[i]
      BY <1>8 DEF LivenessInv, MissesCount
    <2>2. CASE i # idOf[e]
      BY <1>6, <2>1, <2>2
    <2>3. CASE i = idOf[e] /\ f # e
      BY <1>2, <1>7, <2>1, <2>3 DEF LivenessInv, LivenessTypeOK, Sharing
    <2>4. CASE i = idOf[e] /\ f = e
      BY <1>7, <2>1, <2>4, DeadAfterAssumption DEF LivenessInv, LivenessTypeOK, Few
    <2> QED  BY <2>2, <2>3, <2>4
  <1>9. ASSUME NEW i \in Id, misses'[i] > 0 PROVE \E f \in Sharing(i) : failed'[f] > 0
    <2>1. CASE i = idOf[e]
      BY <1>2, <1>5, <1>7, <2>1
    <2>2. CASE i # idOf[e]
      <3>1. \E f \in Sharing(i) : failed[f] > 0
        BY <1>6, <1>9, <2>2 DEF LivenessInv, MissesCount
      <3> QED  BY <1>6, <2>2, <3>1
    <2> QED  BY <2>1, <2>2
  <1>10. ASSUME NEW i \in Id, NEW f \in Entry, Sharing(i) = {f} PROVE misses'[i] = failed'[f]
    <2>1. misses[i] = failed[f] /\ f \in Sharing(i)
      BY <1>10 DEF LivenessInv, MissesCount
    <2>2. CASE i = idOf[e]
      BY <1>7, <1>10, <2>1, <2>2
    <2>3. CASE i # idOf[e]
      BY <1>6, <2>1, <2>3
    <2> QED  BY <2>2, <2>3
  <1>11. \A i \in Id : i \in live' <=> misses'[i] < DeadAfter
    BY <1>6, <1>7 DEF LivenessInv, MissesCount
  <1> QED  BY <1>3, <1>4, <1>8, <1>9, <1>10, <1>11 DEF LivenessInv, MissesCount

LEMMA SuccessStep ==
    ASSUME LivenessInv, NEW e \in Entry, CheckOne(e), e \in up PROVE LivenessInv'
  <1>1. /\ idOf[e] \in Id
        /\ misses' = [misses EXCEPT ![idOf[e]] = 0] /\ live' = live \cup {idOf[e]}
        /\ failed' = [failed EXCEPT ![e] = 0]
        /\ idOf' = idOf /\ up' = up /\ pending' \subseteq Entry
    BY DEF CheckOne, RecordSuccess, LivenessInv, LivenessTypeOK
  <1>2. LivenessTypeOK'
    BY <1>1, DeadAfterAssumption DEF LivenessInv, LivenessTypeOK
  <1>3. \A i \in Id : Sharing(i)' = Sharing(i) /\ Sharing(i) \subseteq Entry
    BY <1>1 DEF Sharing
  <1>4. ASSUME NEW i \in Id, i # idOf[e]
        PROVE  /\ misses'[i] = misses[i] /\ (i \in live' <=> i \in live)
               /\ \A f \in Sharing(i) : failed'[f] = failed[f]
    BY <1>1, <1>4 DEF Sharing, LivenessInv, LivenessTypeOK
  <1>5. ASSUME NEW i \in Id, i = idOf[e]
        PROVE  misses'[i] = 0 /\ i \in live' /\ e \in Sharing(i) /\ failed'[e] = 0
    BY <1>1, <1>5 DEF Sharing, LivenessInv, LivenessTypeOK
  <1>6. ASSUME NEW i \in Id
        PROVE  /\ i \in live' <=> misses'[i] < DeadAfter
               /\ misses'[i] > 0 => \E f \in Sharing(i) : failed'[f] > 0
               /\ Sharing(i) # {} => \E f \in Sharing(i) : failed'[f] <= misses'[i]
               /\ \A f \in Entry : Sharing(i) = {f} => misses'[i] = failed'[f]
    <2>1. CASE i = idOf[e]
      BY <1>5, <2>1, DeadAfterAssumption
    <2>2. CASE i # idOf[e]
      BY <1>4, <2>2 DEF LivenessInv, MissesCount
    <2> QED  BY <2>1, <2>2
  <1> QED  BY <1>2, <1>3, <1>6 DEF LivenessInv, MissesCount

LEMMA MarksStay ==
    ASSUME LivenessInv, up' \subseteq Entry, pending' \subseteq Entry,
           UNCHANGED <<idOf, live, misses, failed>>
    PROVE  LivenessInv'
  BY DEF LivenessInv, LivenessTypeOK, MissesCount, Sharing

LEMMA MarksStep == LivenessInv /\ [LivenessNext]_livenessVars => LivenessInv'
  <1> SUFFICES ASSUME LivenessInv, [LivenessNext]_livenessVars PROVE LivenessInv'
    OBVIOUS
  <1>1. CASE StartRound
    BY <1>1, MarksStay DEF StartRound, LivenessInv, LivenessTypeOK
  <1>2. ASSUME NEW e \in Entry, CheckOne(e) PROVE LivenessInv'
    BY <1>2, FailureStep, SuccessStep
  <1>3. ASSUME NEW e \in Entry, Flip(e) PROVE LivenessInv'
    BY <1>3, MarksStay DEF Flip, checkVars, LivenessInv, LivenessTypeOK
  <1>4. CASE UNCHANGED livenessVars
    BY <1>4, MarksStay DEF livenessVars, checkVars, LivenessInv, LivenessTypeOK
  <1> QED  BY <1>1, <1>2, <1>3, <1>4 DEF LivenessNext, Checker

LEMMA MarksFollowMisses == LivenessInv => DeadWhenMissed
  <1> SUFFICES ASSUME LivenessInv, NEW i \in Id
               PROVE  /\ i \notin live =>
                            \E e \in Sharing(i) :
                                failed[e] >= IF Sharing(i) = {e} THEN DeadAfter ELSE 1
                      /\ Sharing(i) # {} /\ (\A e \in Sharing(i) : failed[e] >= DeadAfter)
                            => i \notin live
    BY DEF DeadWhenMissed
  <1>1. /\ misses[i] \in 0 .. DeadAfter /\ (i \in live <=> misses[i] < DeadAfter)
        /\ \A e \in Sharing(i) : e \in Entry /\ failed[e] \in 0 .. DeadAfter
    BY DEF LivenessInv, LivenessTypeOK, MissesCount, Sharing
  <1>2. ASSUME i \notin live
        PROVE  \E e \in Sharing(i) : failed[e] >= IF Sharing(i) = {e} THEN DeadAfter ELSE 1
    <2>1. misses[i] = DeadAfter
      BY <1>1, <1>2, DeadAfterAssumption
    <2>2. PICK e \in Sharing(i) : failed[e] > 0
      BY <2>1, DeadAfterAssumption DEF LivenessInv, MissesCount
    <2>3. Sharing(i) = {e} => failed[e] = DeadAfter
      BY <1>1, <2>1 DEF LivenessInv, MissesCount
    <2> QED  BY <1>1, <2>2, <2>3, DeadAfterAssumption
  <1>3. ASSUME Sharing(i) # {}, \A e \in Sharing(i) : failed[e] >= DeadAfter
        PROVE  i \notin live
    <2>1. PICK e \in Sharing(i) : failed[e] <= misses[i]
      BY <1>3 DEF LivenessInv, MissesCount
    <2> QED  BY <1>1, <1>3, <2>1, DeadAfterAssumption
  <1> QED  BY <1>2, <1>3

-----------------------------------------------------------------------------
(***************************************************************************)
(* Requests only read the marks.                                           *)
(***************************************************************************)
\* The checker beside the requests is the checker alone: no handler's step
\* touches the marks (proxy.go and handler.go only call IsLive and LiveNodes).
THEOREM CheckerUndisturbed == FanOutSpec => LivenessSpec
  <1>1. FanOutInit => LivenessInit
    BY DEF FanOutInit
  <1>2. [FanOutNext]_fanOutVars => [LivenessNext]_livenessVars
    <2> SUFFICES ASSUME [FanOutNext]_fanOutVars PROVE [LivenessNext]_livenessVars
      OBVIOUS
    <2>1. CASE PingAll \/ HTTPCheckAll \/ Dig
      BY <2>1 DEF PingAll, HTTPCheckAll, Dig, Begin
    <2>2. CASE (\E i \in Id : PortCheck(i)) \/ (\E k \in Kind : Refuse(k)) \/ Leave
      BY <2>2 DEF PortCheck, Refuse, Begin, Leave
    <2>3. CASE Handling
      BY <2>3 DEF Handling, Take, Answered, Told, ReplyAll, ReplyDig, ReplyPort, Replies
    <2>4. CASE UNCHANGED fanOutVars
      BY <2>4 DEF fanOutVars
    <2> QED  BY <2>1, <2>2, <2>3, <2>4 DEF FanOutNext
  <1> QED  BY <1>1, <1>2, PTL DEF FanOutSpec, LivenessSpec

\* Whatever IDs the list's entries share and in whatever order a round's
\* answers come, a node is out exactly when its checks have failed as often as
\* liveness.go:14-18 asks for, or when one of those it shares its ID with has.
THEOREM MarksCorrect == LivenessSpec => [](LivenessInv /\ DeadWhenMissed)
  <1> QED  BY MarksInit, MarksStep, MarksFollowMisses, PTL DEF LivenessSpec

THEOREM DeadOnlyWhenMissed == FanOutSpec => []DeadWhenMissed
  <1> QED  BY CheckerUndisturbed, MarksCorrect, PTL

-----------------------------------------------------------------------------
(***************************************************************************)
(* Goroutines, tokens and results.                                         *)
(***************************************************************************)
\* Strengthening: who has been answered has said it; only Dig's goroutines tell;
\* a port check's one request needs no token; nobody works who was not asked.
WorkersInv ==
    \A e \in Entry :
        /\ worker[e] \in {"telling", "done"} =>
              said[e] \in Answer /\ result[e] = Status(said[e])
        /\ worker[e] = "waiting" => kind # "port"
        /\ worker[e] = "telling" => kind = "dig"
        /\ worker[e] # "none" => e \in asked /\ kind \in Kind

FanInv == FanOutTypeOK /\ TokensAccounted /\ WorkersInv /\ ReplyWhole

Holding == In("asking") \cup In("telling")

LEMMA HoldingFinite == IsFiniteSet(Holding) /\ Cardinality(Holding) \in Nat
  <1>1. IsFiniteSet(Entry)
    BY FS_Interval, EntriesAssumption DEF Entry
  <1> QED  BY <1>1, FS_Subset, FS_CardinalityType DEF Holding, In

LEMMA StatusType ==
    ASSUME kind \in Kind, NEW a \in Answer
    PROVE  Status(a) \in {"ok", "degraded", "down", "error",
                          "unreachable", "raw", "json", "found", "none"}
  BY DEF Status, PingStatus, HTTPStatus, PortStatus, DigStatus, Kind

LEMMA FanInit == FanOutInit => FanInv
  <1> SUFFICES ASSUME FanOutInit PROVE FanInv
    OBVIOUS
  <1>1. LivenessTypeOK
    BY MarksInit DEF FanOutInit, LivenessInv
  <1>2. In("asking") \cup In("telling") = {}
    BY DEF FanOutInit, In
  <1>3. FanOutTypeOK
    BY <1>1, ParallelAssumption DEF FanOutInit, FanOutTypeOK
  <1>4. TokensAccounted
    BY <1>2, FS_EmptySet DEF FanOutInit, TokensAccounted
  <1> QED  BY <1>3, <1>4 DEF FanOutInit, FanInv, WorkersInv, ReplyWhole

\* A request begins with no token taken and nothing said.
LEMMA BeginStep ==
    ASSUME FanInv, NEW k \in Kind, NEW p \in {"running", "refused"},
           NEW nodes \in SUBSET Entry, NEW at \in {"waiting", "asking", "none"},
           Begin(k, p, nodes, at), at = "asking" <=> k = "port" /\ p = "running",
           at = "waiting" => k # "port", at = "none" => nodes = {}
    PROVE  FanInv'
  <1>1. /\ kind' = k /\ phase' = p /\ asked' = nodes /\ sem' = 0
        /\ worker' = [e \in Entry |-> IF e \in nodes THEN at ELSE "none"]
        /\ UNCHANGED livenessVars
    BY DEF Begin
  <1>2. LivenessTypeOK'
    BY <1>1 DEF FanInv, FanOutTypeOK, LivenessTypeOK, livenessVars, checkVars
  <1>3. FanOutTypeOK'
    BY <1>1, <1>2, ParallelAssumption DEF Begin, FanOutTypeOK
  <1>4. TokensAccounted'
    <2>1. CASE k = "port"
      BY <1>1, <2>1 DEF TokensAccounted
    <2>2. CASE k # "port"
      <3>1. (In("asking") \cup In("telling"))' = {}
        BY <1>1, <2>2 DEF In
      <3> QED  BY <1>1, <2>2, <3>1, FS_EmptySet DEF TokensAccounted
    <2> QED  BY <2>1, <2>2
  <1>5. WorkersInv'
    <2> SUFFICES ASSUME NEW e \in Entry
                 PROVE  /\ worker'[e] \notin {"telling", "done"}
                        /\ worker'[e] = "waiting" => kind' # "port"
                        /\ worker'[e] # "none" => e \in asked' /\ kind' \in Kind
      BY DEF WorkersInv
    <2>1. worker'[e] = IF e \in nodes THEN at ELSE "none"
      BY <1>1
    <2> QED  BY <1>1, <2>1
  <1>6. ReplyWhole'
    BY <1>1 DEF ReplyWhole
  <1> QED  BY <1>3, <1>4, <1>5, <1>6 DEF FanInv

\* What a goroutine's step leaves alone, while the handler waits for it.
LEMMA NotYetReplied ==
    ASSUME FanInv, NEW e \in Entry, worker[e] \in {"waiting", "asking", "telling"}
    PROVE  phase # "replied" /\ e \in asked /\ kind \in Kind
  BY DEF FanInv, WorkersInv, ReplyWhole

LEMMA TakeStep == ASSUME FanInv, NEW e \in Entry, Take(e) PROVE FanInv'
  <1>1. /\ worker[e] = "waiting" /\ sem < Parallel
        /\ worker' = [worker EXCEPT ![e] = "asking"] /\ sem' = sem + 1
        /\ UNCHANGED <<livenessVars, kind, phase, here, asked, result, said, cached>>
    BY DEF Take, Goto
  <1>2. phase # "replied" /\ kind \in Kind /\ kind # "port"
    BY <1>1, NotYetReplied DEF FanInv, WorkersInv
  <1>3. FanOutTypeOK'
    BY <1>1, ParallelAssumption DEF FanInv, FanOutTypeOK, LivenessTypeOK, livenessVars, checkVars
  <1>4. Holding' = Holding \cup {e} /\ e \notin Holding
    BY <1>1 DEF Holding, In, FanInv, FanOutTypeOK
  <1>5. Cardinality(Holding') = Cardinality(Holding) + 1
    BY <1>4, HoldingFinite, FS_AddElement
  <1>6. TokensAccounted'
    BY <1>1, <1>2, <1>5 DEF TokensAccounted, Holding, FanInv
  <1>7. WorkersInv'
    <2> SUFFICES ASSUME NEW f \in Entry
                 PROVE  /\ worker'[f] \in {"telling", "done"} =>
                              said[f] \in Answer /\ result[f] = Status(said[f])
                        /\ worker'[f] = "waiting" => kind # "port"
                        /\ worker'[f] = "telling" => kind = "dig"
                        /\ worker'[f] # "none" => f \in asked /\ kind \in Kind
      BY <1>1 DEF WorkersInv, Status
    <2>1. worker'[f] = IF f = e THEN "asking" ELSE worker[f]
      BY <1>1 DEF FanInv, FanOutTypeOK
    <2> QED  BY <1>1, <2>1, NotYetReplied DEF FanInv, WorkersInv
  <1>8. ReplyWhole'
    BY <1>1, <1>2 DEF ReplyWhole
  <1> QED  BY <1>3, <1>6, <1>7, <1>8 DEF FanInv

LEMMA AnswersType ==
    ASSUME kind \in Kind, NEW e \in Entry, NEW a \in Answers(e) PROVE a \in Answer
  BY AnswerAssumption
     DEF Answers, AgentAnswers, PortAnswers, ResolverAnswers, Kind

LEMMA AnsweredStep == ASSUME FanInv, NEW e \in Entry, Answered(e) PROVE FanInv'
  <1>1. PICK a \in Answers(e) :
          /\ said' = [said EXCEPT ![e] = a]
          /\ result' = [result EXCEPT ![e] = Status(a)]
          /\ \/ worker' = [worker EXCEPT ![e] = "done"] /\ sem' = sem - Freed(a)
             \/ /\ kind = "dig"
                /\ worker' = [worker EXCEPT ![e] = "telling"] /\ sem' = sem
    BY DEF Answered, Goto, Index
  <1>2. /\ worker[e] = "asking"
        /\ UNCHANGED <<livenessVars, kind, phase, here, asked, cached>>
    BY DEF Answered
  <1>3. phase # "replied" /\ e \in asked /\ kind \in Kind
    BY <1>2, NotYetReplied
  <1>4. a \in Answer /\ Status(a) \in {"ok", "degraded", "down", "error",
                                      "unreachable", "raw", "json", "found", "none"}
    BY <1>3, AnswersType, StatusType
  <1>5. e \in Holding /\ Holding' \subseteq Holding /\ Holding \ {e} \subseteq Holding'
    BY <1>1, <1>2 DEF Holding, In, FanInv, FanOutTypeOK
  <1>6. /\ sem' = IF kind = "port" THEN 0 ELSE Cardinality(Holding')
        /\ sem' \in 0 .. Parallel
    <2>1. sem = (IF kind = "port" THEN 0 ELSE Cardinality(Holding)) /\ sem \in 0 .. Parallel
      BY DEF FanInv, TokensAccounted, FanOutTypeOK, Holding
    <2>2. CASE kind = "port"
      BY <1>1, <2>1, <2>2 DEF Freed
    <2>3. CASE kind # "port" /\ worker' = [worker EXCEPT ![e] = "done"] /\ sem' = sem - Freed(a)
      <3>1. Holding' = Holding \ {e}
        BY <1>2, <2>3 DEF Holding, In, FanInv, FanOutTypeOK
      <3>2. Cardinality(Holding') = Cardinality(Holding) - 1 /\ Cardinality(Holding') \in Nat
        BY <1>5, <3>1, HoldingFinite, FS_RemoveElement, FS_Subset, FS_CardinalityType
      <3> QED  BY <2>1, <2>3, <3>2, ParallelAssumption DEF Freed
    <2>4. CASE kind = "dig" /\ worker' = [worker EXCEPT ![e] = "telling"] /\ sem' = sem
      <3>1. Holding' = Holding
        BY <1>2, <2>4 DEF Holding, In, FanInv, FanOutTypeOK
      <3> QED  BY <2>1, <2>4, <3>1
    <2> QED  BY <1>1, <2>2, <2>3, <2>4
  <1>7. FanOutTypeOK'
    <2>1. LivenessTypeOK'
      BY <1>2 DEF FanInv, FanOutTypeOK, LivenessTypeOK, livenessVars, checkVars
    <2>2. /\ worker' \in [Entry -> {"none", "waiting", "asking", "telling", "done"}]
          /\ said' \in [Entry -> Answer \cup {None}]
          /\ result' \in [Entry -> {"none", "pending", "ok", "degraded", "down", "error",
                                    "unreachable", "raw", "json", "found"}]
      BY <1>1, <1>4 DEF FanInv, FanOutTypeOK
    <2> QED  BY <1>2, <1>6, <2>1, <2>2 DEF FanInv, FanOutTypeOK
  <1>8. TokensAccounted'
    BY <1>2, <1>6 DEF TokensAccounted, Holding
  <1>9. WorkersInv'
    <2> SUFFICES ASSUME NEW f \in Entry
                 PROVE  /\ worker'[f] \in {"telling", "done"} =>
                              said'[f] \in Answer /\ result'[f] = Status(said'[f])
                        /\ worker'[f] = "waiting" => kind # "port"
                        /\ worker'[f] = "telling" => kind = "dig"
                        /\ worker'[f] # "none" => f \in asked /\ kind \in Kind
      BY <1>2 DEF WorkersInv, Status
    <2>1. CASE f = e
      <3>1. said'[f] = a /\ result'[f] = Status(a)
        BY <1>1, <2>1 DEF FanInv, FanOutTypeOK
      <3>2. worker'[f] = "done" \/ (worker'[f] = "telling" /\ kind = "dig")
        BY <1>1, <2>1 DEF FanInv, FanOutTypeOK
      <3> QED  BY <1>3, <1>4, <2>1, <3>1, <3>2
    <2>2. CASE f # e
      <3>1. said'[f] = said[f] /\ result'[f] = result[f] /\ worker'[f] = worker[f]
        BY <1>1, <2>2 DEF FanInv, FanOutTypeOK
      <3> QED  BY <3>1 DEF FanInv, WorkersInv
    <2> QED  BY <2>1, <2>2
  <1>10. ReplyWhole'
    BY <1>2, <1>3 DEF ReplyWhole
  <1> QED  BY <1>7, <1>8, <1>9, <1>10 DEF FanInv

LEMMA ToldStep == ASSUME FanInv, NEW e \in Entry, Told(e) PROVE FanInv'
  <1>1. /\ worker[e] = "telling" /\ kind = "dig"
        /\ worker' = [worker EXCEPT ![e] = "done"] /\ sem' = sem - 1
        /\ UNCHANGED <<livenessVars, kind, phase, here, asked, result, said, cached>>
    BY DEF Told, Goto, Freed, FanInv, WorkersInv
  <1>2. phase # "replied"
    BY <1>1, NotYetReplied
  <1>3. Holding' = Holding \ {e} /\ e \in Holding
    BY <1>1 DEF Holding, In, FanInv, FanOutTypeOK
  <1>4. Cardinality(Holding') = Cardinality(Holding) - 1 /\ Cardinality(Holding') \in Nat
    BY <1>3, HoldingFinite, FS_RemoveElement, FS_Subset, FS_CardinalityType
  <1>5. sem = Cardinality(Holding) /\ sem \in 0 .. Parallel
    BY <1>1 DEF FanInv, TokensAccounted, FanOutTypeOK, Holding
  <1>6. TokensAccounted' /\ sem' \in 0 .. Parallel
    BY <1>1, <1>4, <1>5, ParallelAssumption DEF TokensAccounted, Holding
  <1>7. FanOutTypeOK'
    BY <1>1, <1>6 DEF FanInv, FanOutTypeOK, LivenessTypeOK, livenessVars, checkVars
  <1>8. WorkersInv'
    <2> SUFFICES ASSUME NEW f \in Entry
                 PROVE  /\ worker'[f] \in {"telling", "done"} =>
                              said[f] \in Answer /\ result[f] = Status(said[f])
                        /\ worker'[f] = "waiting" => kind # "port"
                        /\ worker'[f] = "telling" => kind = "dig"
                        /\ worker'[f] # "none" => f \in asked /\ kind \in Kind
      BY <1>1 DEF WorkersInv, Status
    <2>1. worker'[f] = IF f = e THEN "done" ELSE worker[f]
      BY <1>1 DEF FanInv, FanOutTypeOK
    <2> QED  BY <1>1, <2>1, NotYetReplied DEF FanInv, WorkersInv
  <1>9. ReplyWhole'
    BY <1>1, <1>2 DEF ReplyWhole
  <1> QED  BY <1>6, <1>7, <1>8, <1>9 DEF FanInv

\* The handler's own steps: no goroutine moves.
LEMMA HandlerStep ==
    ASSUME FanInv, UNCHANGED <<livenessVars, kind, asked, workVars>>,
           here' \in BOOLEAN, phase' \in {"running", "replied"},
           phase' = "replied" => Gone /\ cached' \in {Results, None}
    PROVE  FanInv'
  <1>1. FanOutTypeOK'
    BY DEF FanInv, FanOutTypeOK, LivenessTypeOK, livenessVars, checkVars, workVars
  <1>2. TokensAccounted'
    BY DEF FanInv, TokensAccounted, In, workVars
  <1>3. WorkersInv'
    BY DEF FanInv, WorkersInv, Status, workVars
  <1>4. ReplyWhole'
    <2> SUFFICES ASSUME phase' = "replied", NEW e \in asked
                 PROVE  /\ worker[e] = "done"
                        /\ said[e] # None /\ result[e] = Status(said[e])
                        /\ cached' # None => cached'[e] = result[e]
      BY DEF ReplyWhole, Status, workVars
    <2>1. e \in Entry /\ worker[e] = "done"
      BY DEF Gone, In
    <2>2. said[e] \in Answer /\ result[e] = Status(said[e])
      BY <2>1 DEF FanInv, WorkersInv
    <2>3. cached' # None => cached'[e] = result[e]
      BY DEF Results
    <2> QED  BY <2>1, <2>2, <2>3, AnswerAssumption
  <1> QED  BY <1>1, <1>2, <1>3, <1>4 DEF FanInv

LEMMA MarksBeside ==
    ASSUME FanInv, LivenessTypeOK', UNCHANGED fanVars PROVE FanInv'
  <1>1. FanOutTypeOK' /\ TokensAccounted'
    BY DEF FanInv, FanOutTypeOK, TokensAccounted, In, fanVars, workVars
  <1>2. WorkersInv' /\ ReplyWhole'
    BY DEF FanInv, WorkersInv, ReplyWhole, Status, fanVars, workVars
  <1> QED  BY <1>1, <1>2 DEF FanInv

LEMMA FanStep ==
    ASSUME FanInv, LivenessTypeOK', [FanOutNext]_fanOutVars PROVE FanInv'
  <1>1. LiveNodes \in SUBSET Entry /\ Entry \in SUBSET Entry /\ {} \in SUBSET Entry
    BY DEF LiveNodes
  <1>2. CASE LivenessNext /\ UNCHANGED fanVars
    BY <1>2, MarksBeside
  <1>3. CASE PingAll \/ HTTPCheckAll \/ Dig
    BY <1>1, <1>3, BeginStep DEF PingAll, HTTPCheckAll, Dig, Kind
  <1>4. ASSUME NEW i \in Id, PortCheck(i) PROVE FanInv'
    <2>1. PICK first \in Entry : Begin("port", "running", {first}, "asking")
      BY <1>4 DEF PortCheck, Sharing
    <2> QED  BY <2>1, BeginStep DEF Kind
  <1>5. ASSUME NEW k \in Kind, Refuse(k) PROVE FanInv'
    BY <1>1, <1>5, BeginStep DEF Refuse
  <1>6. CASE Leave
    BY <1>6, HandlerStep DEF Leave
  <1>7. ASSUME NEW e \in Entry, Take(e) \/ Answered(e) \/ Told(e) PROVE FanInv'
    BY <1>7, TakeStep, AnsweredStep, ToldStep
  <1>8. CASE ReplyAll \/ ReplyDig \/ ReplyPort
    <2>1. PICK c \in {Results, None} : Replies(c)
      BY <1>8 DEF ReplyAll, ReplyDig, ReplyPort
    <2>2. here' \in BOOLEAN
      BY <2>1 DEF Replies, FanInv, FanOutTypeOK
    <2> QED  BY <2>1, <2>2, HandlerStep DEF Replies
  <1>9. CASE UNCHANGED fanOutVars
    BY <1>9, MarksBeside DEF fanOutVars
  <1> QED  BY <1>2, <1>3, <1>4, <1>5, <1>6, <1>7, <1>8, <1>9 DEF FanOutNext, Handling

THEOREM FanOutCorrect == FanOutSpec => []FanInv
  <1>1. FanInv /\ LivenessTypeOK' /\ [FanOutNext]_fanOutVars => FanInv'
    BY FanStep
  <1>2. LivenessInv => LivenessTypeOK
    BY DEF LivenessInv
  <1>3. FanOutSpec => []LivenessTypeOK
    BY <1>2, CheckerUndisturbed, MarksCorrect, PTL
  <1> QED  BY <1>1, <1>3, FanInit, PTL DEF FanOutSpec

\* Between none and Parallel tokens are out, whatever the answers: none is lost
\* on the ways out of the goroutines of proxy.go and handler.go.
THEOREM TokensComeBack == FanOutSpec => [](FanOutTypeOK /\ TokensAccounted)
  <1>1. FanInv => FanOutTypeOK /\ TokensAccounted
    BY DEF FanInv
  <1> QED  BY <1>1, FanOutCorrect, PTL

\* The reply of PingAll, HTTPCheckAll, PortCheck and Dig is written after the
\* last goroutine's last write and says of every node what that node answered.
THEOREM RepliesWhole == FanOutSpec => []ReplyWhole
  <1>1. FanInv => ReplyWhole
    BY DEF FanInv
  <1> QED  BY <1>1, FanOutCorrect, PTL
=============================================================================

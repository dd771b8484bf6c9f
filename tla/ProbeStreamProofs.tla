------------------------- MODULE ProbeStreamProofs -------------------------
(***************************************************************************)
(* Proofs about ProbeStream, for outputs of every length, of subprocesses  *)
(* and of agents.                                                          *)
(***************************************************************************)
EXTENDS ProbeStream, TLAPS

\* Every step, action by action.
LEMMA StepCases ==
  ASSUME [Next]_vars
  PROVE  \/ WriteLine \/ End \/ Close
         \/ \E who \in {"client", "timeout", "agent"} : Cut(who)
         \/ Begin \/ NoProbe \/ GiveUp \/ PassLine \/ SkipBlank \/ PassMark
         \/ ScanEnds \/ Finish
         \/ Disconnect \/ Notice
         \/ UNCHANGED vars
  BY DEF Next, Handle

\* A stream is of one kind all along.
LEMMA KindStays ==
  ASSUME [Next]_vars
  PROVE  proxied' = proxied
  BY StepCases DEF WriteLine, End, Close, Cut, Begin, NoProbe, GiveUp, PassLine, SkipBlank,
     PassMark, ScanEnds, Finish, Disconnect, Notice, vars, probeVars

-----------------------------------------------------------------------------
LEMMA TypeInit == Init => TypeOK
  <1> SUFFICES ASSUME Init PROVE TypeOK
    OBVIOUS
  <1>1. made \in 0 .. MaxLines /\ avail \in Nat /\ pos \in 0 .. avail
    BY MaxLinesAssumption DEF Init
  <1>2. lines \in Nat /\ shown \in 0 .. lines
    BY DEF Init
  <1>3. /\ ended \in BOOLEAN /\ closed \in BOOLEAN /\ id \in BOOLEAN
        /\ finished \in BOOLEAN /\ gotId \in BOOLEAN /\ gotDone \in BOOLEAN
        /\ connected \in BOOLEAN /\ cancelled \in BOOLEAN /\ proxied \in BOOLEAN
    BY DEF Init
  <1> QED  BY <1>1, <1>2, <1>3 DEF Init, TypeOK

LEMMA TypeStep == TypeOK /\ [Next]_vars => TypeOK'
  <1> SUFFICES ASSUME TypeOK, [Next]_vars PROVE TypeOK'
    OBVIOUS
  <1> USE MaxLinesAssumption
        DEF TypeOK, probeVars, pipeVars, readVars, clientVars, viewVars
  <1>1. CASE WriteLine
    BY <1>1 DEF WriteLine, PerEvent
  <1>2. CASE End
    <2>1. avail' \in Nat /\ pos \in 0 .. avail'
      BY <1>2 DEF End, PerEvent
    <2>2. closed' \in BOOLEAN
      BY <1>2 DEF End
    <2> QED  BY <1>2, <2>1, <2>2 DEF End
  <1>3. CASE Close
    BY <1>3 DEF Close
  <1>4. ASSUME NEW who \in {"client", "timeout", "agent"}, Cut(who) PROVE TypeOK'
    BY <1>4 DEF Cut
  <1>5. CASE Begin
    BY <1>5 DEF Begin
  <1>6. CASE NoProbe
    BY <1>6 DEF NoProbe
  <1>7. CASE GiveUp
    BY <1>7 DEF GiveUp
  <1>8. CASE PassLine
    BY <1>8 DEF PassLine
  <1>9. CASE SkipBlank
    BY <1>9 DEF SkipBlank
  <1>10. CASE PassMark
    BY <1>10 DEF PassMark
  <1>11. CASE ScanEnds
    BY <1>11 DEF ScanEnds
  <1>12. CASE Finish
    BY <1>12 DEF Finish
  <1>13. CASE Disconnect
    <2>1. connected' \in BOOLEAN
      BY <1>13 DEF Disconnect
    <2> QED  BY <1>13, <2>1 DEF Disconnect
  <1>14. CASE Notice
    BY <1>14 DEF Notice
  <1>15. CASE UNCHANGED vars
    BY <1>15 DEF vars
  <1> QED
    BY StepCases, <1>1, <1>2, <1>3, <1>4, <1>5, <1>6, <1>7, <1>8, <1>9, <1>10,
       <1>11, <1>12, <1>13, <1>14, <1>15

\* The variables keep their types and the client never has more lines than the
\* capture, whoever ends or leaves first.
THEOREM TypeCorrect == Spec => []TypeOK
  BY TypeInit, TypeStep, PTL DEF Spec

-----------------------------------------------------------------------------
(***************************************************************************)
(* What is cached is what was shown.                                       *)
(***************************************************************************)
LEMMA ShownInit == Init => ShownInv
  BY DEF Init, ShownInv

LEMMA ShownStep == TypeOK /\ ShownInv /\ [Next]_vars => ShownInv'
  <1> SUFFICES ASSUME TypeOK, ShownInv, [Next]_vars PROVE ShownInv'
    OBVIOUS
  <1> USE DEF TypeOK, ShownInv, probeVars, pipeVars, readVars, clientVars, viewVars
  <1>1. CASE PassLine
    BY <1>1 DEF PassLine
  <1>2. CASE Finish
    BY <1>2 DEF Finish
  <1>3. CASE Begin \/ NoProbe \/ GiveUp \/ SkipBlank \/ PassMark \/ ScanEnds
    BY <1>3 DEF Begin, NoProbe, GiveUp, SkipBlank, PassMark, ScanEnds
  <1>4. CASE WriteLine \/ End \/ Close \/ Disconnect \/ Notice
    BY <1>4 DEF WriteLine, End, Close, Disconnect, Notice
  <1>5. ASSUME NEW who \in {"client", "timeout", "agent"}, Cut(who) PROVE ShownInv'
    BY <1>5 DEF Cut
  <1>6. CASE UNCHANGED vars
    BY <1>6 DEF vars
  <1> QED  BY StepCases, <1>1, <1>2, <1>3, <1>4, <1>5, <1>6

\* A permanent link freezes exactly what a client that stayed has seen: every
\* line goes to the capture and to the client, in one order, and the capture
\* goes to the cache once, at the end.
THEOREM CachedIsShown == Spec => []CachedAsShown
  <1>1. Init => TypeOK /\ ShownInv
    BY TypeInit, ShownInit
  <1>2. TypeOK /\ ShownInv /\ [Next]_vars => (TypeOK /\ ShownInv)'
    BY TypeStep, ShownStep
  <1>3. ShownInv => CachedAsShown
    BY DEF ShownInv, CachedAsShown
  <1> QED  BY <1>1, <1>2, <1>3, PTL DEF Spec

-----------------------------------------------------------------------------
(***************************************************************************)
(* An agent's result is cached whole or not at all.                        *)
(***************************************************************************)
LEMMA AgentInit == Init => AgentInv
  BY DEF Init, AgentInv

LEMMA AgentStep == TypeOK /\ ShownInv /\ AgentInv /\ [Next]_vars => AgentInv'
  <1> SUFFICES ASSUME TypeOK, ShownInv, AgentInv, [Next]_vars, proxied PROVE AgentInv'
    BY KindStays DEF AgentInv
  <1> proxied' = proxied
    BY KindStays
  <1> USE MaxLinesAssumption
        DEF TypeOK, AgentInv, probeVars, pipeVars, readVars, clientVars, viewVars
  <1>1. CASE WriteLine
    <2>1. ~ended /\ pos <= 2 * made /\ made' = made + 1 /\ avail' = avail + 2
      BY <1>1 DEF WriteLine, PerEvent
    <2>2. pc # "finish" /\ cache = NotCached
      BY <1>1 DEF WriteLine
    <2> QED  BY <1>1, <2>1, <2>2 DEF WriteLine
  <1>2. CASE End
    BY <1>2 DEF End, PerEvent
  <1>3. CASE Close \/ Disconnect \/ Notice
    BY <1>3 DEF Close, Disconnect, Notice
  <1>4. ASSUME NEW who \in {"client", "timeout", "agent"}, Cut(who) PROVE AgentInv'
    BY <1>4 DEF Cut
  <1>5. CASE Begin \/ NoProbe
    BY <1>5 DEF Begin, NoProbe
  <1>6. CASE GiveUp
    BY <1>6, ShownInv DEF GiveUp, ShownInv
  <1>7. CASE PassLine
    <2>1. pos <= 2 * made /\ pos # 2 * made /\ pos % 2 = 0
      BY <1>7 DEF PassLine, IsBlank, IsMark
    <2>2. pos' = pos + 1 /\ lines' = lines + 1 /\ pos' % 2 = 1 /\ pos' <= 2 * made
      BY <1>7, <2>1 DEF PassLine
    <2>3. 2 * lines' = pos' + (pos' % 2) /\ ~finished
      BY <1>7, <2>1, <2>2 DEF PassLine
    <2> QED  BY <1>7, <2>2, <2>3, ShownInv DEF PassLine, ShownInv
  <1>8. CASE SkipBlank
    <2>1. pos' = pos + 1 /\ pos % 2 = 1 /\ pos' % 2 = 0
      BY <1>8 DEF SkipBlank, IsBlank
    <2>2. pos <= 2 * made => pos' <= 2 * made
      BY <2>1
    <2> QED  BY <1>8, <2>1, <2>2 DEF SkipBlank
  <1>9. CASE PassMark
    <2>1. pos = 2 * made /\ ended /\ lines = made
      BY <1>9 DEF PassMark, IsMark
    <2> QED  BY <1>9, <2>1, ShownInv DEF PassMark, ShownInv
  <1>10. CASE ScanEnds
    <2>1. finished => ended /\ lines = made
      BY <1>10 DEF ScanEnds
    <2> QED  BY <1>10, <2>1 DEF ScanEnds
  <1>11. CASE Finish
    BY <1>11 DEF Finish
  <1>12. CASE UNCHANGED vars
    BY <1>12 DEF vars
  <1> QED
    BY StepCases, <1>1, <1>2, <1>3, <1>4, <1>5, <1>6, <1>7, <1>8, <1>9, <1>10,
       <1>11, <1>12

\* A result that came through an agent is in the cache only with all the lines
\* its probe wrote, whichever of the agent, the client and the clock ended the
\* stream.
THEOREM AgentResultsWhole == Spec => []AgentResultWhole
  <1>1. Init => TypeOK /\ ShownInv /\ AgentInv
    BY TypeInit, ShownInit, AgentInit
  <1>2. TypeOK /\ ShownInv /\ AgentInv /\ [Next]_vars => (TypeOK /\ ShownInv /\ AgentInv)'
    BY TypeStep, ShownStep, AgentStep
  <1>3. ShownInv /\ AgentInv => AgentResultWhole
    BY DEF ShownInv, AgentInv, AgentResultWhole
  <1> QED  BY <1>1, <1>2, <1>3, PTL DEF Spec

-----------------------------------------------------------------------------
(***************************************************************************)
(* A subprocess's finished result is kept.                                 *)
(***************************************************************************)
LEMMA DoneInit == Init => DoneInv
  BY DEF Init, DoneInv, SubprocessDoneIsKept, DoneIsKept

LEMMA DoneStep == TypeOK /\ DoneInv /\ [Next]_vars => DoneInv'
  <1> SUFFICES ASSUME TypeOK, DoneInv, [Next]_vars PROVE DoneInv'
    OBVIOUS
  <1> USE DEF TypeOK, DoneInv, SubprocessDoneIsKept, DoneIsKept, NotCached,
              probeVars, pipeVars, readVars, clientVars, viewVars
  <1> proxied' = proxied
    BY KindStays
  <1>1. CASE Begin
    BY <1>1 DEF Begin
  <1>2. CASE NoProbe
    BY <1>2 DEF NoProbe
  <1>3. CASE GiveUp
    BY <1>3 DEF GiveUp
  <1>4. CASE PassLine \/ SkipBlank
    BY <1>4 DEF PassLine, SkipBlank
  <1>5. CASE PassMark
    BY <1>5 DEF PassMark, IsMark
  <1>6. CASE ScanEnds
    BY <1>6 DEF ScanEnds
  <1>7. CASE Finish
    BY <1>7 DEF Finish
  <1>8. CASE WriteLine \/ End \/ Close \/ Disconnect \/ Notice
    BY <1>8 DEF WriteLine, End, Close, Disconnect, Notice
  <1>9. ASSUME NEW who \in {"client", "timeout", "agent"}, Cut(who) PROVE DoneInv'
    BY <1>9 DEF Cut
  <1>10. CASE UNCHANGED vars
    BY <1>10 DEF vars
  <1> QED
    BY StepCases, <1>1, <1>2, <1>3, <1>4, <1>5, <1>6, <1>7, <1>8, <1>9, <1>10

\* When the handler of a subprocess returns after [DONE], its result is in the
\* cache, though the client may have left on [DONE].  (An agent's need not be.)
THEOREM LocalDoneIsKept == Spec => []SubprocessDoneIsKept
  <1>1. Init => TypeOK /\ DoneInv
    BY TypeInit, DoneInit
  <1>2. TypeOK /\ DoneInv /\ [Next]_vars => (TypeOK /\ DoneInv)'
    BY TypeStep, DoneStep
  <1>3. DoneInv => SubprocessDoneIsKept
    BY DEF DoneInv
  <1> QED  BY <1>1, <1>2, <1>3, PTL DEF Spec
=============================================================================

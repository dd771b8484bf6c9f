---------------------------- MODULE AgentLiveness ----------------------------
(***************************************************************************)
(* The agents that nodes.go lists and the health checker of liveness.go:   *)
(* every 12 seconds one goroutine an entry asks the agent's /health, and   *)
(* the answers of a round are recorded in the order they come in.          *)
(*                                                                         *)
(* Liveness is kept by ID, not by entry.  The list as shipped has four     *)
(* entries of one ID, so IDs are not taken to be unique.                   *)
(***************************************************************************)
EXTENDS Integers, FiniteSets

CONSTANTS
    Entries,   \* the length of List
    Id,
    DeadAfter  \* deadAfterMisses

ASSUME EntriesAssumption == Entries \in Nat
ASSUME DeadAfterAssumption == DeadAfter \in Nat \ {0}

Entry == 1 .. Entries

VARIABLES
    idOf,     \* the ID of each entry, chosen once
    up,       \* the entries whose agent answers 200 within three seconds
    live,     \* lv.live
    misses,   \* lv.misses, up to DeadAfter
    pending,  \* the entries whose check of this round is out
    failed    \* history: how many checks of each entry failed in a row, up to
              \*   DeadAfter

checkVars == <<live, misses, pending, failed>>
livenessVars == <<idOf, up, checkVars>>

Sharing(i) == {e \in Entry : idOf[e] = i}
Few(n) == IF n > DeadAfter THEN DeadAfter ELSE n

LivenessInit ==
    /\ idOf \in [Entry -> Id]
    /\ up \in SUBSET Entry
    /\ live = Id
    /\ misses = [i \in Id |-> 0]
    /\ pending = {}
    /\ failed = [e \in Entry |-> 0]

-----------------------------------------------------------------------------
\* An agent or the way to it fails, or comes back.
Flip(e) ==
    /\ up' = IF e \in up THEN up \ {e} ELSE up \cup {e}
    /\ UNCHANGED <<idOf, checkVars>>

\* checkAll begins when the round before has been waited for.
StartRound ==
    /\ pending = {}
    /\ pending' = Entry
    /\ UNCHANGED <<idOf, up, live, misses, failed>>

RecordFailureLate(i) ==                    \* fault: more than DeadAfter
    /\ misses' = [misses EXCEPT ![i] = Few(misses[i] + 1)]
    /\ live' = IF misses[i] + 1 > DeadAfter + 1 THEN live \ {i} ELSE live
RecordFailure(i) ==
    /\ misses' = [misses EXCEPT ![i] = Few(misses[i] + 1)]
    /\ live' = IF misses[i] + 1 >= DeadAfter THEN live \ {i} ELSE live

RecordSuccessKept(i) ==                    \* fault: the misses stay counted
    /\ live' = live \cup {i}
    /\ UNCHANGED misses
RecordSuccess(i) ==
    /\ misses' = [misses EXCEPT ![i] = 0]
    /\ live' = live \cup {i}

\* checkOne, up to its record.
CheckOne(e) ==
    /\ e \in pending
    /\ pending' = pending \ {e}
    /\ IF e \in up
       THEN RecordSuccess(idOf[e]) /\ failed' = [failed EXCEPT ![e] = 0]
       ELSE RecordFailure(idOf[e]) /\ failed' = [failed EXCEPT ![e] = Few(@ + 1)]
    /\ UNCHANGED <<idOf, up>>

Checker == StartRound \/ \E e \in Entry : CheckOne(e)

LivenessNext == Checker \/ \E e \in Entry : Flip(e)

LivenessSpec == LivenessInit /\ [][LivenessNext]_livenessVars

-----------------------------------------------------------------------------
(***************************************************************************)
(* What the handlers ask.                                                  *)
(***************************************************************************)
IsLive(i) == i \in live
LiveNodes == {e \in Entry : IsLive(idOf[e])}

-----------------------------------------------------------------------------
(***************************************************************************)
(* Properties.                                                             *)
(***************************************************************************)
LivenessTypeOK ==
    /\ idOf \in [Entry -> Id]
    /\ up \subseteq Entry
    /\ live \subseteq Id
    /\ misses \in [Id -> 0 .. DeadAfter]
    /\ pending \subseteq Entry
    /\ failed \in [Entry -> 0 .. DeadAfter]

\* In whatever order the answers of the rounds are recorded: an ID is dead only
\* when an entry of it failed its last check, and its only entry the last
\* DeadAfter; an ID whose entries all failed that often is dead.
DeadWhenMissed ==
    \A i \in Id :
        /\ i \notin live =>
              \E e \in Sharing(i) :
                  failed[e] >= IF Sharing(i) = {e} THEN DeadAfter ELSE 1
        /\ Sharing(i) # {} /\ (\A e \in Sharing(i) : failed[e] >= DeadAfter)
              => i \notin live

\* Strengthening: the misses of an ID are no more than one of its entries' checks
\* that failed in a row account for, and no fewer than another's; those of an ID
\* of one entry are that entry's.
MissesCount ==
    \A i \in Id :
        /\ i \in live <=> misses[i] < DeadAfter
        /\ misses[i] > 0 => \E e \in Sharing(i) : failed[e] > 0
        /\ Sharing(i) # {} => \E e \in Sharing(i) : failed[e] <= misses[i]
        /\ \A e \in Entry : Sharing(i) = {e} => misses[i] = failed[e]

\* An ID without an agent that answers is taken out in the end.
Detected ==
    \A i \in Id : <>[](Sharing(i) # {} /\ Sharing(i) \cap up = {}) => <>[](i \notin live)

\* An ID whose agents all answer is back in the end; one that shares its ID
\* with agents that do not is back again and again.
Recovered ==
    /\ \A i \in Id : <>[](Sharing(i) \subseteq up) => <>[](i \in live)
    /\ \A e \in Entry : <>[](e \in up) => []<>(idOf[e] \in live)

\* The marks follow the agents, dead or back.
MarksFollow == Detected /\ Recovered
=============================================================================

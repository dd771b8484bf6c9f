--------------------------- MODULE PermanentLinks ---------------------------
(***************************************************************************)
(* What a permanent link promises: a report becomes readable all at once,  *)
(* stays readable until it is TTL ticks old, and is unreadable for good    *)
(* once it is older than that.  Writers, temporary files, the sweeper,     *)
(* crashes and restarts are invisible.  ReportStore implements this.       *)
(***************************************************************************)
EXTENDS Naturals

CONSTANTS Id, TTL

VARIABLES
    shown,  \* the ids whose report a client can open
    age     \* ticks since the report was captured, up to TTL + 1

Init ==
    /\ shown = {}
    /\ age = [i \in Id |-> TTL + 1]

\* A report is captured under an id nobody can open yet.
Capture(i) ==
    /\ i \notin shown
    /\ age' = [age EXCEPT ![i] = 0]
    /\ UNCHANGED shown

\* The report appears, whole.
Publish(i) ==
    /\ age[i] <= TTL
    /\ shown' = shown \cup {i}
    /\ UNCHANGED age

\* The report may be dropped once it has lived its time.
Expire(i) ==
    /\ age[i] >= TTL
    /\ shown' = shown \ {i}
    /\ UNCHANGED age

Older(i) == IF age[i] > TTL THEN age[i] ELSE age[i] + 1

\* Time passes, and takes with it the reports that are older than TTL.
Tick ==
    /\ age' = [i \in Id |-> Older(i)]
    /\ shown' = {i \in shown : Older(i) <= TTL}

Next ==
    \/ Tick
    \/ \E i \in Id : Capture(i) \/ Publish(i) \/ Expire(i)

Spec == Init /\ [][Next]_<<shown, age>>
=============================================================================

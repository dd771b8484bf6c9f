----------------------------- MODULE ProbeStream -----------------------------
(***************************************************************************)
(* One streaming check: the handler that passes a probe's output on to its *)
(* client line by line and remembers it for a permanent link.  Local       *)
(* probes are subprocesses (Ping, Traceroute in internal/handler/          *)
(* handler.go); proxied ones are the SSE stream of an agent                *)
(* (streamProxyWithCapture in internal/handler/proxy.go).                  *)
(*                                                                         *)
(* Three parties move independently: the probe, which writes lines and     *)
(* ends or hangs; the handler, which reads them; and the client, which may *)
(* go away at any time.  net/http cancels the request's context some time  *)
(* after the client has gone, and that cuts the probe off, as does a       *)
(* timeout.                                                                *)
(*                                                                         *)
(* The probe's output is a row of items, of which the handler has read the *)
(* first pos and can read avail.  A subprocess writes one item per line.   *)
(* An agent writes two, a data line and the blank line that ends an SSE    *)
(* event, and after the last line an event of its own, [DONE] or [ERROR].  *)
(***************************************************************************)
EXTENDS Integers

CONSTANTS
    MaxLines   \* bound: the lines a probe writes

ASSUME MaxLinesAssumption == MaxLines \in Nat

VARIABLES
    proxied,    \* the probe runs on an agent
    made,       \* lines the probe has written
    ended,      \* the probe has written all it had to say
    avail,      \* items that can be read
    closed,     \* no more items will come
    cutBy,      \* who cut the probe off before it had ended
    pc,         \* where the handler is
    id,         \* the capture has an id: it is not the nil *sseCapture
    pos,        \* items read
    lines,      \* lines in the capture
    finished,   \* the end marker was read (proxied only)
    cache,      \* the lines of the result in the ephemeral cache, or NotCached
    connected,  \* the client is still there
    cancelled,  \* r.Context() is done
    shown,      \* lines the client has received
    gotId,      \* it has received the request_id event
    gotDone     \* it has received [DONE] or [ERROR]

probeVars  == <<proxied, made, ended>>
pipeVars   == <<avail, closed, cutBy>>
readVars   == <<pos, lines, finished>>
clientVars == <<connected, cancelled>>
viewVars   == <<shown, gotId, gotDone>>
vars == <<probeVars, pipeVars, pc, id, readVars, cache, clientVars, viewVars>>

NotCached == -1

\* Items per event of the probe.
PerEvent == IF proxied THEN 2 ELSE 1

IsBlank(k) == proxied /\ k % 2 = 0
IsMark(k) == proxied /\ k = 2 * made + 1

Init ==
    /\ proxied \in BOOLEAN
    /\ made = 0 /\ ended = FALSE
    /\ avail = 0 /\ closed = FALSE /\ cutBy = "nobody"
    /\ pc = "begin"
    /\ id = FALSE
    /\ pos = 0 /\ lines = 0 /\ finished = FALSE
    /\ cache = NotCached
    /\ connected = TRUE /\ cancelled = FALSE
    /\ shown = 0 /\ gotId = FALSE /\ gotDone = FALSE

-----------------------------------------------------------------------------
(***************************************************************************)
(* The probe.                                                              *)
(***************************************************************************)
WriteLine ==
    /\ ~closed /\ ~ended
    /\ made < MaxLines
    /\ made' = made + 1
    /\ avail' = avail + PerEvent
    /\ UNCHANGED <<proxied, ended, closed, cutBy, pc, id, readVars, cache, clientVars, viewVars>>

\* A subprocess exits, an agent writes its last event.
End ==
    /\ ~closed /\ ~ended
    /\ ended' = TRUE
    /\ IF proxied THEN avail' = avail + PerEvent /\ closed' = closed
                  ELSE avail' = avail /\ closed' = TRUE
    /\ UNCHANGED <<proxied, made, cutBy, pc, id, readVars, cache, clientVars, viewVars>>

\* The agent's response ends.
Close ==
    /\ proxied /\ ended /\ ~closed
    /\ closed' = TRUE
    /\ UNCHANGED <<probeVars, avail, cutBy, pc, id, readVars, cache, clientVars, viewVars>>

\* The probe is cut off: its context is cancelled, its time is up or, for an
\* agent, the connection breaks.  What a killed subprocess wrote stays in the
\* pipe; of an agent's response any part not yet read may be lost.
CutUntimed(who) ==                         \* fault: a context without timeout
    /\ ~closed
    /\ pc # "end"
    /\ who = "client" /\ cancelled
    /\ closed' = TRUE
    /\ cutBy' = IF ended THEN cutBy ELSE who
    /\ UNCHANGED <<probeVars, avail, pc, id, readVars, cache, clientVars, viewVars>>

Cut(who) ==
    /\ ~closed
    /\ pc # "end"
    /\ who = "client" => cancelled
    /\ who = "agent" => proxied
    /\ closed' = TRUE
    /\ cutBy' = IF ended THEN cutBy ELSE who
    /\ IF proxied THEN \E n \in pos .. avail : avail' = n ELSE avail' = avail
    /\ UNCHANGED <<probeVars, pc, id, readVars, cache, clientVars, viewVars>>

-----------------------------------------------------------------------------
(***************************************************************************)
(* The handler.                                                            *)
(***************************************************************************)
\* beginCapture: without an id the check goes on uncaptured.
Begin ==
    /\ pc = "begin"
    /\ pc' = "scan"
    /\ id' \in BOOLEAN
    /\ gotId' = (id' /\ connected)
    /\ UNCHANGED <<probeVars, pipeVars, readVars, cache, clientVars, shown, gotDone>>

\* The subprocess does not start, or the agent does not answer with a stream:
\* the client is sent [ERROR] in place of everything else.
NoProbe ==
    /\ pc = "begin"
    /\ made = 0 /\ ~ended
    /\ pc' = "end"
    /\ closed' = TRUE
    /\ gotDone' = connected
    /\ UNCHANGED <<probeVars, avail, cutBy, id, readVars, cache, clientVars, shown, gotId>>

\* The scanner has an item, and the context is done: the handler kills the
\* probe and gives up.
GiveUp ==
    /\ pc = "scan"
    /\ pos < avail
    /\ cancelled
    /\ pc' = "end"
    /\ pos' = pos + 1
    /\ closed' = TRUE
    /\ cutBy' = IF ended \/ closed THEN cutBy ELSE "client"
    /\ UNCHANGED <<probeVars, avail, id, lines, finished, cache, clientVars, viewVars>>

\* A line is remembered and passed on.
PassLineUncaptured ==                      \* fault: capture.add is forgotten
    /\ pc = "scan"
    /\ pos < avail
    /\ ~cancelled
    /\ ~IsBlank(pos + 1) /\ ~IsMark(pos + 1)
    /\ pos' = pos + 1
    /\ shown' = IF connected THEN shown + 1 ELSE shown
    /\ UNCHANGED <<probeVars, pipeVars, pc, id, lines, finished, cache, clientVars, gotId, gotDone>>

PassLine ==
    /\ pc = "scan"
    /\ pos < avail
    /\ ~cancelled
    /\ ~IsBlank(pos + 1) /\ ~IsMark(pos + 1)
    /\ pos' = pos + 1
    /\ lines' = lines + 1
    /\ shown' = IF connected THEN shown + 1 ELSE shown
    /\ UNCHANGED <<probeVars, pipeVars, pc, id, finished, cache, clientVars, gotId, gotDone>>

\* A blank line of the agent's stream is dropped.
SkipBlank ==
    /\ pc = "scan"
    /\ pos < avail
    /\ ~cancelled
    /\ IsBlank(pos + 1)
    /\ pos' = pos + 1
    /\ UNCHANGED <<probeVars, pipeVars, pc, id, lines, finished, cache, clientVars, viewVars>>

\* The agent's [DONE] or [ERROR] is passed on.
PassMark ==
    /\ pc = "scan"
    /\ pos < avail
    /\ ~cancelled
    /\ IsMark(pos + 1)
    /\ pos' = pos + 1
    /\ finished' = TRUE
    /\ gotDone' = connected
    /\ UNCHANGED <<probeVars, pipeVars, pc, id, lines, cache, clientVars, shown, gotId>>

\* The scanner meets the end of the output; a local handler writes [DONE].
ScanEndsFinished ==                        \* fault: finished is not looked at
    /\ pc = "scan"
    /\ pos = avail /\ closed
    /\ pc' = "finish"
    /\ gotDone' = IF proxied THEN gotDone ELSE connected
    /\ UNCHANGED <<probeVars, pipeVars, id, readVars, cache, clientVars, shown, gotId>>

ScanEnds ==
    /\ pc = "scan"
    /\ pos = avail /\ closed
    /\ pc' = IF proxied /\ ~finished THEN "end" ELSE "finish"
    /\ gotDone' = IF proxied THEN gotDone ELSE connected
    /\ UNCHANGED <<probeVars, pipeVars, id, readVars, cache, clientVars, shown, gotId>>

\* finishCapture: the result goes into the ephemeral cache.
FinishUnlessGone ==                        \* fault: the context is tested again
    /\ pc = "finish"
    /\ pc' = "end"
    /\ cache' = IF id /\ ~cancelled THEN lines ELSE NotCached
    /\ UNCHANGED <<probeVars, pipeVars, id, readVars, clientVars, viewVars>>

Finish ==
    /\ pc = "finish"
    /\ pc' = "end"
    /\ cache' = IF id THEN lines ELSE NotCached
    /\ UNCHANGED <<probeVars, pipeVars, id, readVars, clientVars, viewVars>>

Handle == Begin \/ NoProbe \/ GiveUp \/ PassLine \/ SkipBlank \/ PassMark \/ ScanEnds \/ Finish

-----------------------------------------------------------------------------
(***************************************************************************)
(* The client.  The page closes its EventSource on [DONE], on [ERROR] and  *)
(* when the visitor presses Stop; a browser may also just vanish.          *)
(***************************************************************************)
Disconnect ==
    /\ connected
    /\ connected' = FALSE
    /\ UNCHANGED <<probeVars, pipeVars, pc, id, readVars, cache, cancelled, viewVars>>

\* net/http notices, while the handler runs.
Notice ==
    /\ ~connected /\ ~cancelled
    /\ pc # "end"
    /\ cancelled' = TRUE
    /\ UNCHANGED <<probeVars, pipeVars, pc, id, readVars, cache, connected, viewVars>>

Next ==
    \/ WriteLine \/ End \/ Close
    \/ \E who \in {"client", "timeout", "agent"} : Cut(who)
    \/ Handle
    \/ Disconnect \/ Notice

Spec == Init /\ [][Next]_vars

(***************************************************************************)
(* Fairness: the handler runs on, and the timeout of its probe (60 s, 120 s*)
(* or 130 s) fires in the end.  Nothing is asked of the probe, the agent   *)
(* or the client.                                                          *)
(***************************************************************************)
FairSpec == Spec /\ WF_vars(Handle) /\ WF_vars(Cut("timeout"))

-----------------------------------------------------------------------------
(***************************************************************************)
(* Properties.                                                             *)
(***************************************************************************)
TypeOK ==
    /\ proxied \in BOOLEAN
    /\ made \in 0 .. MaxLines
    /\ avail \in Nat /\ pos \in 0 .. avail
    /\ ended \in BOOLEAN /\ closed \in BOOLEAN
    /\ cutBy \in {"nobody", "client", "timeout", "agent"}
    /\ pc \in {"begin", "scan", "finish", "end"}
    /\ id \in BOOLEAN /\ finished \in BOOLEAN
    /\ lines \in Nat /\ shown \in 0 .. lines
    /\ cache \in Nat \cup {NotCached}
    /\ connected \in BOOLEAN /\ cancelled \in BOOLEAN
    /\ gotId \in BOOLEAN /\ gotDone \in BOOLEAN

\* What a permanent link would freeze is what the client was shown: as long as
\* it stays connected, no line is cached that it did not see, none is missing
\* (capture.add and sseLine of every line, and the one Put at the end).
CachedAsShown == cache # NotCached /\ connected => cache = shown

\* A result that came from an agent is cached only if it is complete: all the
\* lines the probe wrote, up to its end (proxy.go:169, 194).
AgentResultWhole == proxied /\ cache # NotCached => ended /\ cache = made

\* A result the client was told is done has been cached by the time the handler
\* returns, also when the client has left since (ARCHITECTURE.md:209); what
\* Ping and Traceroute do keeps this promise of a subprocess's result.
DoneIsKept == pc = "end" /\ gotId /\ gotDone => cache # NotCached

SubprocessDoneIsKept == ~proxied => DoneIsKept

\* A stream always ends, whatever the probe and the client do: its handler
\* returns, and with it the slots it holds.
StreamEnds == <>(pc = "end")

(***************************************************************************)
(* The strengthenings that make these inductive.                           *)
(***************************************************************************)
\* The client has seen what the capture holds, and so has the cache.
ShownInv ==
    /\ connected => shown = lines
    /\ cache # NotCached => pc = "end" /\ cache = lines

\* How far the handler is in an agent's stream: before the marker, it has one
\* line of every data item; past it, all of them.
AgentInv ==
    proxied =>
        /\ avail <= IF ended THEN 2 * made + 2 ELSE 2 * made
        /\ pc \in {"begin", "scan"} =>
              IF pos <= 2 * made THEN ~finished /\ 2 * lines = pos + (pos % 2)
                                 ELSE ended /\ lines = made
        /\ pc = "finish" \/ cache # NotCached => ended /\ lines = made

\* Who gets [DONE], and when.
DoneInv ==
    /\ pc = "begin" => ~id
    /\ gotId => id
    /\ ~proxied /\ pc \in {"begin", "scan"} => ~gotDone
    /\ SubprocessDoneIsKept

-----------------------------------------------------------------------------
\* Never cached "on an early client disconnect" (handler.go:215-217).
NothingCachedWhenClientLeft == cutBy = "client" => cache = NotCached
=============================================================================

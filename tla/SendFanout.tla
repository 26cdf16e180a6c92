------------------------------ MODULE SendFanout ------------------------------
(***************************************************************************)
(* One call of PolicySender.SendPolicy: the goroutine that makes the call, *)
(* the goroutine it starts for each stream, the WaitGroup and the          *)
(* unbuffered channel errCh between them, while other goroutines change    *)
(* cxnsMap (the call reads it without cxnMu).                              *)
(***************************************************************************)
EXTENDS Naturals, FiniteSets

CONSTANT Connections   \* the streams that may be entered in cxnsMap

\* A map has finitely many entries.
ASSUME ConnectionsAssumption == IsFiniteSet(Connections)

VARIABLES
  cxns,      \* cxnsMap: streams entered now
  pc,        \* where the caller stands
  wg,        \* the counter of the WaitGroup
  visited,   \* streams the range has visited
  must,      \* streams there when the range began and not removed since
  worker,    \* stream -> state of its goroutine
  closed,    \* is errCh closed
  late,      \* history: was a stream entered after len(cxnsMap) was taken
  process    \* "runs", or why the process has died

callVars == <<cxns, pc, wg, visited, must, worker, closed, late, process>>

CallTypeOK ==
  /\ cxns \subseteq Connections
  /\ pc \in {"add", "range", "wait", "close", "drain", "returned"}
  /\ wg \in 0..Cardinality(Connections)
  /\ visited \subseteq Connections
  /\ must \subseteq Connections
  /\ worker \in [Connections -> {"none", "sending", "offering"}]
  /\ closed \in BOOLEAN
  /\ late \in BOOLEAN
  /\ process \in {"runs", "map fault", "panic"}

CallInit ==
  /\ cxns \in SUBSET Connections
  /\ pc = "add"
  /\ wg = 0
  /\ visited = {}
  /\ must = {}
  /\ worker = [s \in Connections |-> "none"]
  /\ closed = FALSE
  /\ late = FALSE
  /\ process = "runs"

\* wg.Add(len(s.cxnsMap)), and the range over the map begins.
Add ==
  /\ process = "runs"
  /\ pc = "add"
  /\ wg' = Cardinality(cxns)
  /\ must' = cxns
  /\ pc' = "range"
  /\ UNCHANGED <<cxns, visited, worker, closed, late, process>>

\* The range visits a stream and starts its goroutine.
Visit(s) ==
  /\ process = "runs"
  /\ pc = "range"
  /\ s \in cxns \ visited
  /\ visited' = visited \cup {s}
  /\ worker' = [worker EXCEPT ![s] = "sending"]
  /\ UNCHANGED <<cxns, pc, wg, must, closed, late, process>>

\* Faulty variant: the range is left early, say at the first failed send.
RangeLeft ==
  /\ process = "runs"
  /\ pc = "range"
  /\ pc' = "wait"
  /\ UNCHANGED <<cxns, wg, visited, must, worker, closed, late, process>>

\* The range is over when it has visited what was there all along; a stream
\* entered meanwhile may be visited or not.
RangeEnds ==
  /\ process = "runs"
  /\ pc = "range"
  /\ must \subseteq visited
  /\ pc' = "wait"
  /\ UNCHANGED <<cxns, wg, visited, must, worker, closed, late, process>>

\* Faulty variant: the channel is closed without waiting for the goroutines.
NoWait ==
  /\ process = "runs"
  /\ pc = "wait"
  /\ pc' = "close"
  /\ UNCHANGED <<cxns, wg, visited, must, worker, closed, late, process>>

\* wg.Wait(): the goroutines call Done only after their send on errCh.
Wait ==
  /\ process = "runs"
  /\ pc = "wait"
  /\ wg = 0
  /\ pc' = "close"
  /\ UNCHANGED <<cxns, wg, visited, must, worker, closed, late, process>>

Close ==
  /\ process = "runs"
  /\ pc = "close"
  /\ closed' = TRUE
  /\ pc' = "drain"
  /\ UNCHANGED <<cxns, wg, visited, must, worker, late, process>>

\* The range over the closed channel ends at once, the errors are logged.
Drain ==
  /\ process = "runs"
  /\ pc = "drain"
  /\ pc' = "returned"
  /\ UNCHANGED <<cxns, wg, visited, must, worker, closed, late, process>>

\* sendWithBackoff returns, nil or the last error: the goroutine goes on to
\* `errCh <-'.
WorkerSends(s) ==
  /\ process = "runs"
  /\ worker[s] = "sending"
  /\ worker' = [worker EXCEPT ![s] = "offering"]
  /\ UNCHANGED <<cxns, pc, wg, visited, must, closed, late, process>>

\* A send on a closed channel panics.  On the open channel the goroutine is
\* blocked: errCh is unbuffered and is received from only once it is closed.
WorkerPanics(s) ==
  /\ process = "runs"
  /\ worker[s] = "offering"
  /\ closed
  /\ process' = "panic"
  /\ UNCHANGED <<cxns, pc, wg, visited, must, worker, closed, late>>

\* ValidatingPoliciesStream enters a stream, under cxnMu.  The runtime may
\* notice that another goroutine is iterating over the map, and stops the
\* process then.
Register(s) ==
  /\ process = "runs"
  /\ s \notin cxns
  /\ cxns' = cxns \cup {s}
  /\ late' = (late \/ pc # "add")
  /\ process' \in {"runs"} \cup (IF pc = "range" THEN {"map fault"} ELSE {})
  /\ UNCHANGED <<pc, wg, visited, must, worker, closed>>

\* deleteInactive removes one, under cxnMu.
Remove(s) ==
  /\ process = "runs"
  /\ s \in cxns
  /\ cxns' = cxns \ {s}
  /\ must' = must \ {s}
  /\ process' \in {"runs"} \cup (IF pc = "range" THEN {"map fault"} ELSE {})
  /\ UNCHANGED <<pc, wg, visited, worker, closed, late>>

Caller == Add \/ (\E s \in Connections : Visit(s)) \/ RangeEnds \/ Wait \/ Close \/ Drain
Worker(s) == WorkerSends(s) \/ WorkerPanics(s)
Others == \E s \in Connections : Register(s) \/ Remove(s)

CallNext == Caller \/ (\E s \in Connections : Worker(s)) \/ Others

\* The caller and the goroutines it started are scheduled.
CallSpec ==
  /\ CallInit /\ [][CallNext]_callVars
  /\ WF_callVars(Add \/ RangeEnds \/ Wait \/ Close \/ Drain)
  /\ \A s \in Connections : /\ WF_callVars(Visit(s))
                            /\ WF_callVars(WorkerSends(s))

-----------------------------------------------------------------------------
(* Properties *)

\* The call gets past wg.Wait, and so closes errCh under the goroutines it may
\* have started, only if every one of them is for a stream that was entered
\* after the counter was set: such a late stream is the only way to the panic.
EndsOnlyWithLateStreams ==
  pc \in {"close", "drain", "returned"} \/ process = "panic"
    => \A s \in Connections : worker[s] # "none" => late

\* A stream that is in cxnsMap when the range begins is sent the policy, although
\* the call itself may never end, unless it is removed or the process dies.
EveryStreamIsSent ==
  \A s \in Connections :
    (pc = "range" /\ s \in must)
      ~> (worker[s] = "offering" \/ s \notin must \/ process # "runs")

\* "send to clients, but don't wait on any of them" (sender.go): the call comes
\* to its end.
CallReturns == <>(pc = "returned" \/ process # "runs")
=============================================================================

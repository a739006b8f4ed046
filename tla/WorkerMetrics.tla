---------------------------- MODULE WorkerMetrics ----------------------------
(***************************************************************************)
(* How one worker process accounts for the work it does and how the        *)
(* accounts reach the aggregator: the loops of incidentbench-worker/src    *)
(* ingest.rs and query.rs (rate-controlled and session mode), their        *)
(* bounded channel, and the task that streams it out with retries.         *)
(*                                                                         *)
(* A kind is a query of the mix (of an ingest worker: the event).  Latency *)
(* values are abstracted to how many there are.                            *)
(***************************************************************************)
EXTENDS Naturals, Sequences

CONSTANTS
    Kinds,            \* what a worker executes
    Modes,            \* modes of worker that are checked
    ChannelCapacity,  \* capacity of the metrics channel
    MaxRetries,       \* max_retries of stream_metrics_to_aggregator
    MaxOps            \* bound: operations the worker executes

AllModes == {"ingest", "query", "session"}

ASSUME ModesAssumption == Modes \subseteq AllModes

ASSUME BoundsAssumption ==
    /\ ChannelCapacity \in Nat \ {0}
    /\ MaxRetries \in Nat \ {0}
    /\ MaxOps \in Nat

VARIABLES
    mode,      \* the worker's mode, which never changes
    pc,        \* where its loop stands
    open,      \* accounts of the open second
    queue,     \* snapshots in the metrics channel
    refused    \* try_send has failed, as the log says

VARIABLES
    sender,    \* the streaming task
    attempt,   \* its retry counter
    wire,      \* snapshots the aggregator has not handled yet
    broken,    \* a stream has broken
    received   \* what the aggregator has added up

VARIABLES
    executed   \* history: the work that was really done

loopVars   == <<mode, pc, open, executed>>
senderVars == <<sender, attempt, wire, broken, received>>

vars == <<loopVars, queue, refused, senderVars>>

\* ops, errors: queries_executed and query_errors (events_produced, events_failed).
\* latencies, errorsOf, timeouts: per kind.
Account ==
    [ops : Nat, errors : Nat, latencies : [Kinds -> Nat], errorsOf : [Kinds -> Nat],
     timeouts : [Kinds -> Nat]]

NoCount == [k \in Kinds |-> 0]

Nothing ==
    [ops |-> 0, errors |-> 0, latencies |-> NoCount, errorsOf |-> NoCount,
     timeouts |-> NoCount]

TypeOK ==
    /\ mode \in Modes
    /\ pc \in {"waiting", "second", "event", "work", "done", "exited"}
    /\ open \in Account
    /\ queue \in Seq(Account) /\ Len(queue) <= ChannelCapacity
    /\ refused \in BOOLEAN
    /\ sender \in {"connecting", "streaming", "ended"}
    /\ attempt \in 1..MaxRetries
    /\ wire \in Seq(Account)
    /\ broken \in BOOLEAN
    /\ received \in Account
    /\ executed \in Account

Init ==
    /\ mode \in Modes
    /\ pc = "waiting" /\ open = Nothing /\ executed = Nothing
    /\ queue = << >> /\ refused = FALSE
    /\ sender = "connecting" /\ attempt = 1 /\ wire = << >> /\ broken = FALSE
    /\ received = Nothing

-----------------------------------------------------------------------------
(* The worker's loop *)

Goto(from, to) == pc = from /\ pc' = to

FirstPhase ==
    /\ Goto("waiting", "second")
    /\ UNCHANGED <<mode, open, executed, queue, refused, senderVars>>

\* A kind is in query_latency_by_type only when it has a latency.
ByKind(account) ==
    [account EXCEPT !.errorsOf =
        [k \in Kinds |-> IF account.latencies[k] > 0 THEN @[k] ELSE 0]]

\* An ingest snapshot has no breakdown, and only sessions report timeouts.
Snapshot(account) ==
    IF mode = "ingest"
    THEN [account EXCEPT !.errorsOf = NoCount, !.latencies = NoCount]
    ELSE ByKind(account)

\* Mutated form: the channel has no limit.
TrySendUnbounded(snapshot) == queue' = Append(queue, snapshot) /\ UNCHANGED refused

\* Mutated form: a second without a latency is not worth a snapshot.
TrySendLatencies(snapshot) ==
    IF snapshot.latencies # NoCount /\ Len(queue) < ChannelCapacity /\ sender # "ended"
    THEN queue' = Append(queue, snapshot) /\ UNCHANGED refused
    ELSE UNCHANGED <<queue, refused>>

\* try_send: a full channel, or one whose receiver is gone, refuses.
TrySend(snapshot) ==
    IF Len(queue) < ChannelCapacity /\ sender # "ended"
    THEN queue' = Append(queue, snapshot) /\ UNCHANGED refused
    ELSE refused' = TRUE /\ UNCHANGED queue

Reset(account) == Nothing

\* The counters are reset whether the channel took the snapshot or not.
EndSecond ==
    /\ Goto("second", "event")
    /\ TrySend(Snapshot(open))
    /\ open' = Reset(open)
    /\ UNCHANGED <<mode, executed, senderVars>>

SecondGoesOn ==
    /\ Goto("second", "event")
    /\ UNCHANGED <<mode, open, executed, queue, refused, senderVars>>

\* No event, a preparation or a transition.
KeepWorking ==
    /\ Goto("event", "work")
    /\ executed.ops < MaxOps
    /\ UNCHANGED <<mode, open, executed, queue, refused, senderVars>>

\* Mutated form: a session leaves its open second behind.
FlushNever == UNCHANGED <<queue, refused>>

\* Only a session sends its open second when the run is complete.
Flush ==
    IF mode = "session" /\ open # Nothing
    THEN TrySend(Snapshot(open))
    ELSE UNCHANGED <<queue, refused>>

RunComplete ==
    /\ Goto("event", "done")
    /\ Flush
    /\ open' = Nothing
    /\ UNCHANGED <<mode, executed, senderVars>>

\* What an operation can come to: an answer without an error, with one, one that
\* the adapter marks as timed out, or none (Err; for an event: not produced).
Outcomes ==
    CASE mode = "ingest"  -> {"ok", "failed"}
      [] mode = "query"   -> {"ok", "error", "failed"}
      [] mode = "session" -> {"ok", "error", "timeout", "failed"}

AddIf(condition, f, k) == IF condition THEN [f EXCEPT ![k] = @ + 1] ELSE f

Added(account, k, outcome) ==
    [ops       |-> account.ops + 1,
     errors    |-> account.errors + (IF outcome = "ok" THEN 0 ELSE 1),
     latencies |-> AddIf(outcome # "failed", account.latencies, k),
     errorsOf  |-> AddIf(outcome # "ok", account.errorsOf, k),
     timeouts  |-> AddIf(outcome = "timeout", account.timeouts, k)]

\* A session works through a batch of operations before it looks at the clock.
Execute(k, outcome) ==
    /\ pc = "work"
    /\ outcome \in Outcomes
    /\ open' = Added(open, k, outcome)
    /\ executed' = Added(executed, k, outcome)
    /\ \/ pc' = "second"
       \/ mode = "session" /\ executed'.ops < MaxOps /\ pc' = "work"
    /\ UNCHANGED <<mode, queue, refused, senderVars>>

\* run returns, and main drops the runtime with the streaming task.
Exit ==
    /\ Goto("done", "exited")
    /\ queue' = << >>
    /\ sender' = "ended"
    /\ UNCHANGED <<mode, open, executed, refused, attempt, wire, broken, received>>

-----------------------------------------------------------------------------
(* stream_metrics_to_aggregator *)

Connect ==
    /\ sender = "connecting"
    /\ sender' = "streaming"
    /\ UNCHANGED <<loopVars, queue, refused, attempt, wire, broken, received>>

\* After the last attempt the task ends and the receiver is dropped.
Retry ==
    IF attempt = MaxRetries
    THEN sender' = "ended" /\ queue' = << >> /\ UNCHANGED attempt
    ELSE sender' = "connecting" /\ attempt' = attempt + 1 /\ UNCHANGED queue

ConnectFails ==
    /\ sender = "connecting"
    /\ Retry
    /\ UNCHANGED <<loopVars, refused, wire, broken, received>>

\* Mutated form: the snapshot stays in the channel until it is delivered.
TakeAndKeep == UNCHANGED queue

Take == queue' = Tail(queue)

\* The body of the stream yields the next snapshot to the connection.
Yield ==
    /\ sender = "streaming"
    /\ queue # << >>
    /\ wire' = Append(wire, Head(queue))
    /\ Take
    /\ UNCHANGED <<loopVars, refused, sender, attempt, broken, received>>

\* What was yielded is lost with the connection.
StreamBreaks ==
    /\ sender = "streaming"
    /\ Retry
    /\ wire' = << >>
    /\ broken' = TRUE
    /\ UNCHANGED <<loopVars, refused, received>>

\* The loop has dropped its end and everything is yielded: the stream ends.
StreamEnds ==
    /\ sender = "streaming"
    /\ pc \in {"done", "exited"}
    /\ queue = << >> /\ wire = << >>
    /\ sender' = "ended"
    /\ UNCHANGED <<loopVars, queue, refused, attempt, wire, broken, received>>

\* The same sum for each counter of an account.
Plus(a, b) ==
    [ops       |-> a.ops + b.ops,
     errors    |-> a.errors + b.errors,
     latencies |-> [k \in Kinds |-> a.latencies[k] + b.latencies[k]],
     errorsOf  |-> [k \in Kinds |-> a.errorsOf[k] + b.errorsOf[k]],
     timeouts  |-> [k \in Kinds |-> a.timeouts[k] + b.timeouts[k]]]

\* report_metrics of the aggregator; after the process has gone it still reads
\* what was written, unless the connection is reset.
Deliver ==
    /\ wire # << >>
    /\ received' = Plus(received, Head(wire))
    /\ wire' = Tail(wire)
    /\ UNCHANGED <<loopVars, queue, refused, sender, attempt, broken>>

ConnectionReset ==
    /\ pc = "exited"
    /\ wire # << >>
    /\ wire' = << >>
    /\ broken' = TRUE
    /\ UNCHANGED <<loopVars, queue, refused, sender, attempt, received>>

Loop ==
    \/ FirstPhase \/ EndSecond \/ SecondGoesOn \/ KeepWorking \/ RunComplete
    \/ (\E k \in Kinds : \E outcome \in Outcomes : Execute(k, outcome))
    \/ Exit

Streaming ==
    \/ Connect \/ ConnectFails \/ Yield \/ StreamBreaks \/ StreamEnds
    \/ Deliver \/ ConnectionReset

Next == Loop \/ Streaming

Spec == Init /\ [][Next]_vars
-----------------------------------------------------------------------------
(* Properties *)

\* An account with others added to it, one after the other.
Total(account, others) ==
    LET upTo[n \in 0..Len(others)] ==
            IF n = 0 THEN account ELSE Plus(upTo[n - 1], others[n])
    IN  upTo[Len(others)]

\* What is still on the way to the aggregator, and what has arrived there.
Reported == Total(Total(received, wire), queue)

\* No operation, error or timeout is reported twice, however often the stream
\* breaks and is opened again and the counters are read and reset.
NeverCountedTwice ==
    /\ Reported.ops + open.ops <= executed.ops
    /\ Reported.errors + open.errors <= executed.errors
    /\ \A k \in Kinds : Reported.timeouts[k] + open.timeouts[k] <= executed.timeouts[k]

\* While the worker runs, all it has done is in the open second, in the channel,
\* on the wire or at the aggregator, unless the channel has refused a snapshot
\* (which is logged) or a stream has broken.
NothingLostSilently ==
    ~refused /\ ~broken /\ sender # "ended" /\ pc \notin {"done", "exited"}
        => /\ Reported.ops + open.ops = executed.ops
           /\ Reported.errors + open.errors = executed.errors

\* A session that has ended has its last, partial second in the channel too
\* (query.rs:510-511): then nothing at all is missing.
SessionFlushed ==
    mode = "session" /\ pc = "done" /\ ~refused /\ ~broken /\ sender # "ended"
        => /\ Reported.ops = executed.ops
           /\ Reported.timeouts = executed.timeouts
=============================================================================

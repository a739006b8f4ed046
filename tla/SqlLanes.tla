------------------------------ MODULE SqlLanes ------------------------------
(***************************************************************************)
(* SQL queries of one query worker: execute_sql_query of the Mach5 adapter *)
(* (incidentbench-common/src/adapters/mach5.rs) called by the session loop *)
(* or the rate-controlled loop of incidentbench-worker/src/query.rs, and   *)
(* the gateway, which executes the statements of a connection one after    *)
(* the other and cancels whatever runs on the one that a CancelRequest     *)
(* names.                                                                  *)
(*                                                                         *)
(* A workload is a record: its categories, of [queries, iteration,         *)
(* parallelism], whether the loop drops calls after a timeout of its own   *)
(* (outer), and how many batches it fires before the run completes         *)
(* (ticks, a bound of the model).  The rate-controlled loop is a workload  *)
(* of one category with the whole mix, WeightedRandom and one query at a   *)
(* time.  Time is abstracted: a timeout may come at any moment.            *)
(***************************************************************************)
EXTENDS Integers, Sequences, FiniteSets

CONSTANTS
    Workloads,
    CategoryOf,   \* of each query: the field `category`, "" when there is none
    MaxFaults     \* bound on faults: connections refused or broken, cancels not sent

ASSUME FaultsAssumption == MaxFaults \in Nat

\* A category without queries makes the loop panic at its first tick
\* (next_batch_indices), before it has called anything.
SessionCategory ==
    [queries     : Seq(DOMAIN CategoryOf) \ {<< >>},
     iteration   : {"Sequential", "WeightedRandom"},
     parallelism : Nat]

ASSUME WorkloadsAssumption == \A w \in Workloads : w.categories \in Seq(SessionCategory)

VARIABLES
    workload,  \* never changes
    tick,
    cursor,    \* of each category: the next query to fire
    calls,     \* of this tick, by place: [query, at]
    holder,    \* the call that holds the lock of pg_clients, or Nobody
    clients,   \* pg_clients: from key to connection (the backend PID)
    server,    \* the connections: [up, statements, cancels]
    faults

VARIABLES
    sentOn,    \* history: what was sent: <<category, query, connection>>
    lost       \* history: per connection, statements given up without a cancel

loopVars == <<tick, cursor>>
histVars == <<sentOn, lost>>

vars == <<workload, loopVars, calls, holder, clients, server, faults, histVars>>

Categories == workload.categories

Elements(seq) == {seq[k] : k \in DOMAIN seq}

Queries(c) == Elements(Categories[c].queries)

\* A call of a tick is known by its category and its place in the category's batch.
Places == UNION {{c} \X (1..Categories[c].parallelism) : c \in DOMAIN Categories}

\* client_key: the connection a query is sent on.
KeyOf(query) == IF CategoryOf[query] # "" THEN CategoryOf[query] ELSE query

Key(i) == KeyOf(calls[i].query)

NoCall  == << >>
Nobody  == << >>
AllDone == \A i \in DOMAIN calls : calls[i].at = "done"

Init ==
    /\ workload \in Workloads
    /\ tick = 0 /\ cursor = [c \in DOMAIN Categories |-> 0]
    /\ calls = NoCall /\ holder = Nobody /\ clients = << >> /\ server = << >>
    /\ faults = 0
    /\ sentOn = {} /\ lost = << >>

-----------------------------------------------------------------------------
(* The loop of the worker *)

\* next_batch_indices: what one category may fire.
Batches(c) ==
    LET queries == Categories[c].queries
        width   == 1..Categories[c].parallelism
    IN  IF Categories[c].iteration = "Sequential"
        THEN {[i \in width |-> queries[((cursor[c] + i - 1) % Len(queries)) + 1]]}
        ELSE [width -> Queries(c)]

Advanced(c) ==
    IF Categories[c].iteration = "Sequential"
    THEN (cursor[c] + Categories[c].parallelism) % Len(Categories[c].queries)
    ELSE cursor[c]

\* All categories fire at once, when every query of the last tick has its result.
Fire ==
    /\ AllDone /\ tick < workload.ticks
    /\ tick' = tick + 1
    /\ cursor' = [c \in DOMAIN Categories |-> Advanced(c)]
    /\ \E batch \in [DOMAIN Categories -> UNION {Batches(c) : c \in DOMAIN Categories}] :
           /\ \A c \in DOMAIN Categories : batch[c] \in Batches(c)
           /\ calls' = [i \in Places |-> [query |-> batch[i[1]][i[2]], at |-> "lock"]]
    /\ UNCHANGED <<workload, holder, clients, server, faults, histVars>>

-----------------------------------------------------------------------------
(* execute_sql_query *)

Goes(i, at) == calls' = [calls EXCEPT ![i].at = at]

Fault == faults < MaxFaults /\ faults' = faults + 1

\* The query goes out on its connection, or fails at once when that is broken: a client
\* in the map is never replaced.
Send(i, pid, connections) ==
    IF connections[pid].up
    THEN /\ server' = [connections EXCEPT ![pid].statements = Append(@, <<tick, i>>)]
         /\ sentOn' = sentOn \cup {<<i[1], calls[i].query, pid>>}
         /\ Goes(i, "run")
    ELSE /\ server' = connections
         /\ UNCHANGED sentOn
         /\ Goes(i, "done")

\* Mutated form: the lock is let go of before connecting.
LookupUnlocked(i) ==
    /\ calls[i].at = "lock" /\ holder = Nobody
    /\ IF Key(i) \in DOMAIN clients
       THEN Send(i, clients[Key(i)], server)
       ELSE Goes(i, "connect") /\ UNCHANGED <<server, sentOn>>
    /\ UNCHANGED <<workload, loopVars, holder, clients, faults, lost>>

\* The lock is held while connecting: all other calls wait, of any lane.
Lookup(i) ==
    /\ calls[i].at = "lock" /\ holder = Nobody
    /\ IF Key(i) \in DOMAIN clients
       THEN Send(i, clients[Key(i)], server) /\ UNCHANGED holder
       ELSE Goes(i, "connect") /\ holder' = i /\ UNCHANGED <<server, sentOn>>
    /\ UNCHANGED <<workload, loopVars, clients, faults, lost>>

Fresh == [up |-> TRUE, statements |-> << >>, cancels |-> 0]

Connected(i) ==
    /\ calls[i].at = "connect"
    /\ LET pid == Len(server) + 1
       IN  /\ clients' = [key \in DOMAIN clients \cup {Key(i)} |->
                             IF key = Key(i) THEN pid ELSE clients[key]]
           /\ Send(i, pid, Append(server, Fresh))
    /\ lost' = Append(lost, 0)
    /\ holder' = Nobody
    /\ UNCHANGED <<workload, loopVars, faults>>

NotConnected(i) ==
    /\ calls[i].at = "connect"
    /\ Fault
    /\ Goes(i, "done") /\ holder' = Nobody
    /\ UNCHANGED <<workload, loopVars, clients, server, histVars>>

\* Mutated form: the time only runs once the gateway executes the statement.
TimeOutOnceRunning(i) ==
    /\ calls[i].at = "run"
    /\ Head(server[clients[Key(i)]].statements) = <<tick, i>>
    /\ Goes(i, "cancel")
    /\ UNCHANGED <<workload, loopVars, holder, clients, server, faults, histVars>>

\* Mutated form: the result is timed_out, and that is all.
TimeOutOnly(i) ==
    /\ calls[i].at = "run"
    /\ Goes(i, "done")
    /\ UNCHANGED <<workload, loopVars, holder, clients, server, faults, histVars>>

\* The time runs from when the query was sent, however many are ahead of it.
TimeOut(i) ==
    /\ calls[i].at = "run"
    /\ Goes(i, "cancel")
    /\ UNCHANGED <<workload, loopVars, holder, clients, server, faults, histVars>>

\* cancel_query returns when the request is written, not when it has had its effect.
SendCancel(i) ==
    /\ calls[i].at = "cancel"
    /\ Goes(i, "done")
    /\ LET pid == clients[Key(i)]
       IN  server' = [server EXCEPT ![pid].cancels = IF server[pid].up THEN @ + 1 ELSE @]
    /\ UNCHANGED <<workload, loopVars, holder, clients, faults, histVars>>

GivenUp(pid) == lost' = [lost EXCEPT ![pid] = @ + 1]

\* A failure is only logged.
CancelFails(i) ==
    /\ calls[i].at = "cancel"
    /\ Fault
    /\ Goes(i, "done")
    /\ GivenUp(clients[Key(i)])
    /\ UNCHANGED <<workload, loopVars, holder, clients, server, sentOn>>

\* The timeout around the call (at least 5 s, against the adapter's own, which is 10 s
\* when the query gives none) drops it wherever it is, with the lock, the connection
\* being made or the cancel being sent.
Drop(i) ==
    /\ workload.outer /\ calls[i].at # "done"
    /\ Goes(i, "done")
    /\ holder' = IF holder = i THEN Nobody ELSE holder
    /\ IF calls[i].at \in {"run", "cancel"} THEN GivenUp(clients[Key(i)]) ELSE UNCHANGED lost
    /\ UNCHANGED <<workload, loopVars, clients, server, faults, sentOn>>

-----------------------------------------------------------------------------
(* The gateway *)

\* The statements whose caller still waits for them.
Awaited(statement) ==
    statement[1] = tick /\ calls[statement[2]].at = "run"

Answered(statements) ==
    calls' = [i \in DOMAIN calls |->
                 IF Awaited(<<tick, i>>) /\ <<tick, i>> \in statements
                 THEN [calls[i] EXCEPT !.at = "done"] ELSE calls[i]]

\* A statement ends, well or not; a result nobody waits for is drained.
Finish(pid) ==
    LET statements == server[pid].statements
    IN  /\ statements # << >>
        /\ server' = [server EXCEPT ![pid].statements = Tail(@)]
        /\ Answered({Head(statements)})
        /\ UNCHANGED <<workload, loopVars, holder, clients, faults, histVars>>

\* A cancel ends the statement that runs now, whichever it was sent for.
CancelArrives(pid) ==
    LET statements == server[pid].statements
    IN  /\ server[pid].cancels > 0
        /\ IF statements = << >>
           THEN /\ server' = [server EXCEPT ![pid].cancels = @ - 1]
                /\ UNCHANGED calls
           ELSE /\ server' = [server EXCEPT ![pid].cancels = @ - 1,
                                            ![pid].statements = Tail(@)]
                /\ Answered({Head(statements)})
        /\ UNCHANGED <<workload, loopVars, holder, clients, faults, histVars>>

Break(pid) ==
    /\ server[pid].up /\ Fault
    /\ server' = [server EXCEPT ![pid] = [Fresh EXCEPT !.up = FALSE]]
    /\ Answered(Elements(server[pid].statements))
    /\ UNCHANGED <<workload, loopVars, holder, clients, histVars>>

-----------------------------------------------------------------------------
Next ==
    \/ Fire
    \/ \E i \in DOMAIN calls :
           \/ Lookup(i) \/ Connected(i) \/ NotConnected(i)
           \/ TimeOut(i) \/ SendCancel(i) \/ CancelFails(i) \/ Drop(i)
    \/ \E pid \in DOMAIN server : Finish(pid) \/ CancelArrives(pid) \/ Break(pid)

\* The lock is handed on, timers expire, and a cancel is written without waiting for an
\* answer.  The gateway owes nothing, not even the answer that tokio_postgres::connect
\* waits for without a timeout.
Fairness ==
    /\ WF_vars(\E i \in DOMAIN calls : Lookup(i))
    /\ WF_vars(\E i \in DOMAIN calls : TimeOut(i))
    /\ WF_vars(\E i \in DOMAIN calls : SendCancel(i) \/ CancelFails(i))
    /\ WF_vars(\E i \in DOMAIN calls : Drop(i))

Spec == Init /\ [][Next]_vars /\ Fairness
-----------------------------------------------------------------------------
(* Properties *)

\* "One connection per session category (or per query name outside session mode)": the
\* lane of <<category, query>>.
Lane(sent) == IF workload.outer THEN sent[2] ELSE sent[1]

\* The keys of the connections tell these lanes apart, as they do in every session made
\* from the categories of a mix.
LanesAreKeys ==
    \A c, d \in DOMAIN Categories : \A q \in Queries(c), r \in Queries(d) :
        KeyOf(q) = KeyOf(r) <=> Lane(<<c, q>>) = Lane(<<d, r>>)

\* Queries of one lane share one backend for good, even when several of them are the
\* first to need it, and queries of different lanes never do, so that a cancel stays
\* within its lane.
LaneIsOneConnection ==
    LanesAreKeys => \A a, b \in sentOn : Lane(a) = Lane(b) <=> a[3] = b[3]

\* The comment on pg_clients for every workload that can be written, without LanesAreKeys.
\* TLC refutes it: a session category may hold queries whose fields `category` differ, and
\* queries of a rate-controlled mix may have the same.
LaneIsAlwaysOneConnection ==
    \A a, b \in sentOn : Lane(a) = Lane(b) <=> a[3] = b[3]

\* Where one query of a lane is fired at a time, the gateway executes no more
\* statements that nobody waits for than there are cancels under way, apart from those
\* whose cancel failed or whose caller was dropped.
Firing(key) == {i \in Places : key \in {KeyOf(q) : q \in Queries(i[1])}}

OneAtATime(key) == \E i \in Places : Firing(key) = {i}

Stray(pid) ==
    Cardinality({i \in DOMAIN server[pid].statements : ~Awaited(server[pid].statements[i])})

CancelsUnderWay(pid) ==
    server[pid].cancels
        + Cardinality({i \in DOMAIN calls : calls[i].at = "cancel" /\ clients[Key(i)] = pid})

StraysAreCancelled ==
    \A key \in DOMAIN clients :
        OneAtATime(key) =>
            Stray(clients[key]) <= CancelsUnderWay(clients[key]) + lost[clients[key]]

\* One call waits for the gateway to accept a connection, all others are done or wait for
\* the lock that it holds.
StuckConnecting ==
    \E i \in DOMAIN calls :
        /\ calls[i].at = "connect"
        /\ \A j \in DOMAIN calls \ {i} : calls[j].at \in {"lock", "done"}

\* Every tick ends, however the gateway answers or does not: the deadline of a statement
\* does not depend on it, nor does giving up the lock after a timeout.  The one exception
\* is a session whose connection is never accepted.
TickEnds == []<>AllDone \/ (~workload.outer /\ <>[]StuckConnecting)

\* "Per-query deadline in milliseconds" (README.md) without the exception.  TLC refutes it:
\* the deadline covers the statement, not the connection before it.
DeadlineKept == []<>AllDone
=============================================================================

--------------------------- MODULE SqlLanesProofs ---------------------------
(***************************************************************************)
(* Theorems about SqlLanes for any workloads, any number of ticks and any  *)
(* faults: a lane keeps one connection of its own, and a lane that fires   *)
(* one query at a time leaves no statement behind without a cancel.        *)
(***************************************************************************)
EXTENDS SqlLanes, FiniteSetTheorems, SequenceTheorems, TLAPS

Query == DOMAIN CategoryOf

Call == [query : Query, at : {"lock", "connect", "run", "cancel", "done"}]

Statement == Nat \X (Nat \X Nat)

Connection == [up : BOOLEAN, statements : Seq(Statement), cancels : Nat]

TypeInv ==
    /\ workload \in Workloads
    /\ tick \in Nat
    /\ \A c \in DOMAIN Categories : cursor[c] \in Nat
    /\ calls \in [DOMAIN calls -> Call]
    /\ \A i \in DOMAIN calls : i \in Places /\ calls[i].query \in Queries(i[1])
    /\ server \in Seq(Connection)
    /\ lost \in Seq(Nat) /\ Len(lost) = Len(server)
    /\ clients \in [DOMAIN clients -> 1..Len(server)]

\* Only the call that holds the lock connects, and its lane has no connection yet.
LockInv ==
    \A i \in DOMAIN calls :
        calls[i].at = "connect" => holder = i /\ Key(i) \notin DOMAIN clients

\* A query of one of the categories.
WasFired(sent) == sent[1] \in DOMAIN Categories /\ sent[2] \in Queries(sent[1])

\* Each connection is that of one key, and what was sent went out on its key's.
ClientsInv ==
    /\ \A k, l \in DOMAIN clients : clients[k] = clients[l] => k = l
    /\ \A a \in sentOn :
          /\ WasFired(a)
          /\ KeyOf(a[2]) \in DOMAIN clients
          /\ a[3] = clients[KeyOf(a[2])]
    /\ \A i \in DOMAIN calls :
          calls[i].at \in {"run", "cancel"} => Key(i) \in DOMAIN clients

\* A statement of this tick was sent by one of its calls, on the connection of its lane.
Owned(pid, statement) ==
    /\ statement[1] <= tick
    /\ statement[1] = tick =>
          /\ statement[2] \in DOMAIN calls
          /\ calls[statement[2]].at \notin {"lock", "connect"}
          /\ Key(statement[2]) \in DOMAIN clients
          /\ clients[Key(statement[2])] = pid

StatementsInv ==
    \A pid \in 1..Len(server) :
        /\ ~server[pid].up => server[pid].statements = << >>
        /\ \A j \in 1..Len(server[pid].statements) : Owned(pid, server[pid].statements[j])

Busy(key) ==
    \E i \in DOMAIN calls : Key(i) = key /\ calls[i].at \in {"run", "cancel"}

\* In a lane that fires one query at a time the statement of this tick is the last one,
\* and all others are paid for by a cancel or a recorded loss.
LastInv(key) ==
    LET statements == server[clients[key]].statements
    IN  /\ \A j \in 1..Len(statements) : statements[j][1] = tick => j = Len(statements)
        /\ \A i \in DOMAIN calls :
              Key(i) = key /\ calls[i].at = "run" =>
                  statements # << >> /\ statements[Len(statements)] = <<tick, i>>

PaidInv(key) ==
    LET pid == clients[key]
    IN  Len(server[pid].statements)
            <= server[pid].cancels + lost[pid] + (IF Busy(key) THEN 1 ELSE 0)

StraysInv ==
    \A key \in DOMAIN clients : OneAtATime(key) => LastInv(key) /\ PaidInv(key)

-----------------------------------------------------------------------------
(* Types *)

LEMMA CategoryType ==
    ASSUME workload \in Workloads, NEW c \in DOMAIN Categories
    PROVE  /\ c \in Nat
           /\ Categories[c] \in SessionCategory
           /\ Len(Categories[c].queries) \in Nat \ {0}
           /\ Queries(c) \subseteq Query
           /\ \A k \in 1..Len(Categories[c].queries) : Categories[c].queries[k] \in Queries(c)
<1>1. Categories \in Seq(SessionCategory)
  BY WorkloadsAssumption DEF Categories
<1>2. c \in 1..Len(Categories)
  BY <1>1
<1>3. Categories[c] \in SessionCategory
  BY <1>1, <1>2, ElementOfSeq
<1>4. Categories[c].queries \in Seq(Query) /\ Categories[c].queries # << >>
  BY <1>3 DEF SessionCategory, Query
<1>5. /\ Len(Categories[c].queries) \in Nat \ {0}
      /\ DOMAIN Categories[c].queries = 1..Len(Categories[c].queries)
  BY <1>4
<1>6. Queries(c) \subseteq Query
  BY <1>4, <1>5, ElementOfSeq DEF Queries, Elements
<1>7. \A k \in 1..Len(Categories[c].queries) : Categories[c].queries[k] \in Queries(c)
  BY <1>5 DEF Queries, Elements
<1>8. QED
  BY <1>2, <1>3, <1>5, <1>6, <1>7

LEMMA PlaceType ==
    ASSUME workload \in Workloads, NEW i \in Places
    PROVE  /\ i \in Nat \X Nat
           /\ i[1] \in DOMAIN Categories
           /\ i[2] \in 1..Categories[i[1]].parallelism
           /\ i # Nobody
<1>1. PICK c \in DOMAIN Categories : i \in {c} \X (1..Categories[c].parallelism)
  BY DEF Places
<1>2. c \in Nat /\ Categories[c].parallelism \in Nat
  BY CategoryType DEF SessionCategory
<1>3. PICK k \in 1..Categories[c].parallelism : i = <<c, k>>
  BY <1>1
<1>4. Len(<<c, k>>) = 2 /\ Len(Nobody) = 0
  BY DEF Nobody
<1>5. i # Nobody
  BY <1>3, <1>4
<1>6. i \in Nat \X Nat
  BY <1>2, <1>3
<1>7. i[1] \in DOMAIN Categories /\ i[2] \in 1..Categories[i[1]].parallelism
  <2>1. i[1] = c /\ i[2] = k
    BY <1>3
  <2>2. QED
    BY <2>1
<1>8. QED
  BY <1>5, <1>6, <1>7

\* What a category fires are queries of its own.
LEMMA BatchQueries ==
    ASSUME TypeInv, NEW c \in DOMAIN Categories, NEW batch \in Batches(c),
           NEW k \in 1..Categories[c].parallelism
    PROVE  batch[k] \in Queries(c)
<1> DEFINE size == Len(Categories[c].queries)
<1>1. /\ workload \in Workloads /\ cursor[c] \in Nat
      /\ Categories[c].parallelism \in Nat
      /\ size \in Nat \ {0}
  BY CategoryType DEF TypeInv, SessionCategory
<1>2. CASE Categories[c].iteration = "Sequential"
  <2>1. batch[k] = Categories[c].queries[((cursor[c] + k - 1) % size) + 1]
    BY <1>2 DEF Batches
  <2>2. ((cursor[c] + k - 1) % size) + 1 \in 1..size
    <3> HIDE DEF size
    <3>1. cursor[c] + k - 1 \in Nat
      BY <1>1
    <3>2. \A a \in Nat, b \in Nat \ {0} : (a % b) + 1 \in 1..b
      OBVIOUS
    <3>3. QED
      <4> DEFINE place == cursor[c] + k - 1
      <4>1. place \in Nat
        BY <3>1
      <4> HIDE DEF place
      <4>2. (place % size) + 1 \in 1..size
        BY <1>1, <3>2, <4>1
      <4>3. QED
        BY <4>2 DEF place
  <2>3. QED
    BY <1>1, <2>1, <2>2, CategoryType
<1>3. CASE Categories[c].iteration # "Sequential"
  BY <1>3 DEF Batches
<1>4. QED
  BY <1>2, <1>3

LEMMA AdvancedType ==
    ASSUME TypeInv, NEW c \in DOMAIN Categories
    PROVE  Advanced(c) \in Nat
<1> DEFINE size == Len(Categories[c].queries)
<1>1. cursor[c] \in Nat /\ Categories[c].parallelism \in Nat /\ size \in Nat \ {0}
  BY CategoryType DEF TypeInv, SessionCategory
<1>2. (cursor[c] + Categories[c].parallelism) % size \in Nat
  <2> HIDE DEF size
  <2>1. \A a \in Nat, b \in Nat \ {0} : a % b \in Nat
    OBVIOUS
  <2>2. QED
    BY <1>1, <2>1
<1>3. QED
  BY <1>1, <1>2 DEF Advanced

-----------------------------------------------------------------------------
(* What the steps have in common *)

\* Nothing is changed of a tick and its calls but where they are.
SameCalls ==
    /\ workload' = workload /\ tick' = tick
    /\ DOMAIN calls' = DOMAIN calls
    /\ \A j \in DOMAIN calls : calls'[j].query = calls[j].query /\ Key(j)' = Key(j)

LEMMA GoesTo ==
    ASSUME TypeInv, NEW i \in DOMAIN calls,
           NEW at \in {"lock", "connect", "run", "cancel", "done"}, Goes(i, at),
           UNCHANGED <<workload, tick>>
    PROVE  /\ SameCalls
           /\ calls' \in [DOMAIN calls -> Call]
           /\ calls'[i].at = at
           /\ \A j \in DOMAIN calls : j # i => calls'[j] = calls[j]
<1>1. calls \in [DOMAIN calls -> Call] /\ calls' = [calls EXCEPT ![i].at = at]
  BY DEF TypeInv, Goes
<1>2. calls[i] \in Call
  BY <1>1
<1>3. /\ DOMAIN calls' = DOMAIN calls
      /\ calls'[i] = [calls[i] EXCEPT !.at = at]
      /\ \A j \in DOMAIN calls : j # i => calls'[j] = calls[j]
  BY <1>1
<1>4. calls'[i] \in Call /\ calls'[i].at = at /\ calls'[i].query = calls[i].query
  BY <1>2, <1>3 DEF Call
<1>5. \A j \in DOMAIN calls : calls'[j].query = calls[j].query
  BY <1>3, <1>4
<1>6. calls' \in [DOMAIN calls -> Call]
  BY <1>1, <1>3, <1>4
<1>7. QED
  BY <1>3, <1>4, <1>5, <1>6 DEF SameCalls, Key, KeyOf

LEMMA AnsweredCalls ==
    ASSUME TypeInv, NEW statements, Answered(statements), UNCHANGED <<workload, tick>>
    PROVE  /\ SameCalls
           /\ calls' \in [DOMAIN calls -> Call]
           /\ \A j \in DOMAIN calls :
                 calls'[j].at = IF calls[j].at = "run" /\ <<tick, j>> \in statements
                                THEN "done" ELSE calls[j].at
<1>1. calls \in [DOMAIN calls -> Call]
  BY DEF TypeInv
<1>2. \A j \in DOMAIN calls : Awaited(<<tick, j>>) <=> calls[j].at = "run"
  BY DEF Awaited
<1>3. /\ DOMAIN calls' = DOMAIN calls
      /\ calls' = [j \in DOMAIN calls |-> calls'[j]]
      /\ \A j \in DOMAIN calls :
            calls'[j] = IF calls[j].at = "run" /\ <<tick, j>> \in statements
                        THEN [calls[j] EXCEPT !.at = "done"] ELSE calls[j]
  BY <1>2 DEF Answered
<1>4. \A j \in DOMAIN calls :
          /\ calls'[j] \in Call /\ calls'[j].query = calls[j].query
          /\ calls'[j].at = IF calls[j].at = "run" /\ <<tick, j>> \in statements
                            THEN "done" ELSE calls[j].at
  <2> TAKE j \in DOMAIN calls
  <2>1. calls[j] \in Call
    BY <1>1
  <2>2. CASE calls[j].at = "run" /\ <<tick, j>> \in statements
    BY <1>3, <2>1, <2>2 DEF Call
  <2>3. CASE ~(calls[j].at = "run" /\ <<tick, j>> \in statements)
    BY <1>3, <2>1, <2>3
  <2>4. QED
    BY <2>2, <2>3
<1>5. QED
  BY <1>3, <1>4 DEF SameCalls, Key, KeyOf

LEMMA CallsStayTyped ==
    ASSUME TypeInv, SameCalls, calls' \in [DOMAIN calls -> Call]
    PROVE  /\ workload' \in Workloads /\ tick' \in Nat
           /\ (calls \in [DOMAIN calls -> Call])'
           /\ (\A i \in DOMAIN calls : i \in Places /\ calls[i].query \in Queries(i[1]))'
<1>1. Places' = Places /\ \A c : Queries(c)' = Queries(c)
  BY DEF SameCalls, Places, Categories, Queries
<1>2. QED
  BY <1>1 DEF TypeInv, SameCalls

\* The query goes out, or fails because its connection is broken.
Sends(i, pid, connections) ==
    /\ SameCalls
    /\ calls' \in [DOMAIN calls -> Call]
    /\ \A j \in DOMAIN calls : j # i => calls'[j] = calls[j]
    /\ server' \in Seq(Connection) /\ Len(server') = Len(connections)
    /\ \A p \in 1..Len(connections) : p # pid => server'[p] = connections[p]
    /\ \/ /\ connections[pid].up
          /\ calls'[i].at = "run"
          /\ sentOn' = sentOn \cup {<<i[1], calls[i].query, pid>>}
          /\ server'[pid].up
          /\ server'[pid].cancels = connections[pid].cancels
          /\ server'[pid].statements = Append(connections[pid].statements, <<tick, i>>)
       \/ /\ ~connections[pid].up
          /\ calls'[i].at = "done"
          /\ sentOn' = sentOn
          /\ server'[pid] = connections[pid]

LEMMA SendsOn ==
    ASSUME TypeInv, NEW i \in DOMAIN calls, NEW connections \in Seq(Connection),
           NEW pid \in 1..Len(connections), Send(i, pid, connections),
           UNCHANGED <<workload, tick>>
    PROVE  Sends(i, pid, connections)
<1>1. connections[pid] \in Connection
  BY ElementOfSeq
<1>2. CASE connections[pid].up
  <2>1. /\ server' = [connections EXCEPT
                         ![pid].statements = Append(@, <<tick, i>>)]
        /\ sentOn' = sentOn \cup {<<i[1], calls[i].query, pid>>}
        /\ Goes(i, "run")
    BY <1>2 DEF Send
  <2>2. <<tick, i>> \in Statement
    BY PlaceType DEF TypeInv, Statement
  <2>3. Append(connections[pid].statements, <<tick, i>>) \in Seq(Statement)
    BY <1>1, <2>2 DEF Connection
  <2> DEFINE sending == [connections[pid] EXCEPT
                            !.statements = Append(connections[pid].statements, <<tick, i>>)]
  <2>4. /\ sending \in Connection
        /\ sending.up = connections[pid].up /\ sending.cancels = connections[pid].cancels
        /\ sending.statements = Append(connections[pid].statements, <<tick, i>>)
    BY <1>1, <2>3 DEF Connection
  <2>5. server' = [connections EXCEPT ![pid] = sending]
    BY <2>1
  <2> HIDE DEF sending
  <2>6. /\ server' \in Seq(Connection) /\ Len(server') = Len(connections)
        /\ server'[pid] = sending
        /\ \A p \in 1..Len(connections) : p # pid => server'[p] = connections[p]
    BY <2>4, <2>5
  <2>7. QED
    BY <1>2, <2>1, <2>4, <2>6, GoesTo DEF Sends
<1>3. CASE ~connections[pid].up
  <2>1. server' = connections /\ sentOn' = sentOn /\ Goes(i, "done")
    BY <1>3 DEF Send
  <2>2. QED
    BY <1>3, <2>1, GoesTo DEF Sends
<1>4. QED
  BY <1>2, <1>3

\* One connection is changed.
LEMMA ServerChanges ==
    ASSUME TypeInv, NEW pid \in 1..Len(server), NEW changed \in Connection,
           server' = [server EXCEPT ![pid] = changed]
    PROVE  /\ server' \in Seq(Connection) /\ Len(server') = Len(server)
           /\ server'[pid] = changed
           /\ \A p \in 1..Len(server) : p # pid => server'[p] = server[p]
BY DEF TypeInv

LEMMA PidOf ==
    ASSUME TypeInv, ClientsInv, NEW i \in DOMAIN calls, calls[i].at \in {"run", "cancel"}
    PROVE  /\ Key(i) \in DOMAIN clients
           /\ clients[Key(i)] \in 1..Len(server)
           /\ server[clients[Key(i)]] \in Connection
           /\ lost[clients[Key(i)]] \in Nat
<1>1. Key(i) \in DOMAIN clients
  BY DEF ClientsInv
<1>2. clients[Key(i)] \in 1..Len(server)
  BY <1>1 DEF TypeInv
<1>3. QED
  BY <1>1, <1>2, ElementOfSeq DEF TypeInv

\* A statement ends, and its caller, if it still waits, has its result.
Ends(pid) ==
    /\ SameCalls
    /\ calls' \in [DOMAIN calls -> Call]
    /\ server' \in Seq(Connection) /\ Len(server') = Len(server)
    /\ \A p \in 1..Len(server) : p # pid => server'[p] = server[p]
    /\ server'[pid].up = server[pid].up
    /\ server[pid].statements # << >>
    /\ server'[pid].statements = Tail(server[pid].statements)
    /\ \A j \in DOMAIN calls :
          calls'[j].at = IF calls[j].at = "run" /\ <<tick, j>> = server[pid].statements[1]
                         THEN "done" ELSE calls[j].at

LEMMA EndsWith ==
    ASSUME TypeInv, NEW pid \in 1..Len(server), NEW cancels \in Nat,
           server[pid].statements # << >>,
           server' = [server EXCEPT
                         ![pid] = [server[pid] EXCEPT !.cancels = cancels,
                                                      !.statements = Tail(@)]],
           Answered({Head(server[pid].statements)}), UNCHANGED <<workload, tick>>
    PROVE  Ends(pid) /\ server'[pid].cancels = cancels
<1>1. server[pid] \in Connection
  BY ElementOfSeq DEF TypeInv
<1>2. server[pid].statements \in Seq(Statement)
  BY <1>1 DEF Connection
<1>3. Tail(server[pid].statements) \in Seq(Statement)
  BY <1>2
<1> DEFINE changed == [server[pid] EXCEPT !.cancels = cancels, !.statements = Tail(@)]
<1>4. /\ changed \in Connection
      /\ changed.up = server[pid].up /\ changed.cancels = cancels
      /\ changed.statements = Tail(server[pid].statements)
  BY <1>1, <1>3 DEF Connection
<1> HIDE DEF changed
<1>5. server' = [server EXCEPT ![pid] = changed]
  BY DEF changed
<1>6. Head(server[pid].statements) = server[pid].statements[1]
  BY <1>2
<1>7. /\ server' \in Seq(Connection) /\ Len(server') = Len(server)
      /\ server'[pid] = changed
      /\ \A p \in 1..Len(server) : p # pid => server'[p] = server[p]
  <2>1. changed \in Connection
    BY <1>4
  <2>2. QED
    BY <2>1, <1>5, ServerChanges
<1>8. /\ SameCalls /\ calls' \in [DOMAIN calls -> Call]
      /\ \A j \in DOMAIN calls :
            calls'[j].at = IF calls[j].at = "run" /\ <<tick, j>> = server[pid].statements[1]
                           THEN "done" ELSE calls[j].at
  <2> DEFINE first == server[pid].statements[1]
  <2>1. Answered({first})
    BY <1>6
  <2> HIDE DEF first
  <2>2. /\ SameCalls
        /\ calls' \in [DOMAIN calls -> Call]
        /\ \A j \in DOMAIN calls :
              calls'[j].at = IF calls[j].at = "run" /\ <<tick, j>> \in {first}
                             THEN "done" ELSE calls[j].at
    BY <2>1, AnsweredCalls
  <2>3. \A j \in DOMAIN calls : <<tick, j>> \in {first} <=> <<tick, j>> = first
    OBVIOUS
  <2>4. QED
    BY <2>2, <2>3 DEF first
<1>9. QED
  BY <1>4, <1>7, <1>8 DEF Ends

LEMMA FinishEnds ==
    ASSUME TypeInv, NEW pid \in DOMAIN server, Finish(pid)
    PROVE  /\ pid \in 1..Len(server)
           /\ Ends(pid) /\ server'[pid].cancels = server[pid].cancels
           /\ UNCHANGED <<holder, clients, sentOn, lost>>
<1>1. pid \in 1..Len(server)
  BY DEF TypeInv
<1>2. server[pid] \in Connection
  BY <1>1, ElementOfSeq DEF TypeInv
<1>3. server[pid].cancels \in Nat
  BY <1>2 DEF Connection
<1>4. server' = [server EXCEPT
                    ![pid] = [server[pid] EXCEPT !.cancels = server[pid].cancels,
                                                 !.statements = Tail(@)]]
  <2>1. [server[pid] EXCEPT !.statements = Tail(@)]
          = [server[pid] EXCEPT !.cancels = server[pid].cancels, !.statements = Tail(@)]
    BY <1>2 DEF Connection
  <2>2. QED
    BY <1>1, <2>1 DEF Finish
<1>5. /\ server[pid].statements # << >> /\ Answered({Head(server[pid].statements)})
      /\ UNCHANGED <<workload, tick, holder, clients, sentOn, lost>>
  BY DEF Finish, loopVars, histVars
<1>6. QED
  BY <1>1, <1>3, <1>4, <1>5, EndsWith

\* A cancel that finds nothing to end has had its effect.
Expires(pid) ==
    /\ SameCalls /\ calls' = calls
    /\ server' \in Seq(Connection) /\ Len(server') = Len(server)
    /\ \A p \in 1..Len(server) : p # pid => server'[p] = server[p]
    /\ server'[pid].up = server[pid].up
    /\ server[pid].statements = << >> /\ server'[pid].statements = << >>

LEMMA CancelEnds ==
    ASSUME TypeInv, NEW pid \in DOMAIN server, CancelArrives(pid)
    PROVE  /\ pid \in 1..Len(server)
           /\ Ends(pid) \/ Expires(pid)
           /\ server[pid].cancels > 0 /\ server'[pid].cancels = server[pid].cancels - 1
           /\ UNCHANGED <<holder, clients, sentOn, lost>>
<1>1. pid \in 1..Len(server)
  BY DEF TypeInv
<1>2. server[pid] \in Connection
  BY <1>1, ElementOfSeq DEF TypeInv
<1>3. /\ server[pid].cancels > 0
      /\ UNCHANGED <<workload, tick, holder, clients, sentOn, lost>>
  BY DEF CancelArrives, loopVars, histVars
<1>4. server[pid].cancels - 1 \in Nat
  BY <1>2, <1>3 DEF Connection
<1>5. CASE server[pid].statements = << >>
  <2> DEFINE changed == [server[pid] EXCEPT !.cancels = server[pid].cancels - 1]
  <2>1. server' = [server EXCEPT ![pid] = changed] /\ calls' = calls
    BY <1>5 DEF CancelArrives
  <2>2. /\ changed \in Connection /\ changed.cancels = server[pid].cancels - 1
        /\ changed.up = server[pid].up /\ changed.statements = server[pid].statements
    BY <1>2, <1>4 DEF Connection
  <2> HIDE DEF changed
  <2>3. SameCalls
    BY <1>3, <2>1 DEF SameCalls, Key, KeyOf
  <2>4. QED
    BY <1>1, <1>3, <1>5, <2>1, <2>2, <2>3, ServerChanges DEF Expires
<1>6. CASE server[pid].statements # << >>
  <2>1. /\ server' = [server EXCEPT
                         ![pid] = [server[pid] EXCEPT !.cancels = server[pid].cancels - 1,
                                                      !.statements = Tail(@)]]
        /\ Answered({Head(server[pid].statements)})
    BY <1>1, <1>6 DEF CancelArrives
  <2>2. QED
    BY <1>1, <1>3, <1>4, <1>6, <2>1, EndsWith
<1>7. QED
  BY <1>5, <1>6

\* The connection breaks and takes its statements and cancels with it.
Breaks(pid) ==
    /\ SameCalls
    /\ calls' \in [DOMAIN calls -> Call]
    /\ server' \in Seq(Connection) /\ Len(server') = Len(server)
    /\ \A p \in 1..Len(server) : p # pid => server'[p] = server[p]
    /\ ~server'[pid].up /\ server'[pid].statements = << >> /\ server'[pid].cancels = 0
    /\ \A j \in DOMAIN calls :
          calls'[j].at = IF calls[j].at = "run"
                              /\ <<tick, j>> \in Elements(server[pid].statements)
                         THEN "done" ELSE calls[j].at

LEMMA FreshConnection ==
    /\ Fresh \in Connection /\ [Fresh EXCEPT !.up = FALSE] \in Connection
    /\ Fresh.up /\ ~[Fresh EXCEPT !.up = FALSE].up
    /\ Fresh.statements = << >> /\ [Fresh EXCEPT !.up = FALSE].statements = << >>
    /\ Fresh.cancels = 0 /\ [Fresh EXCEPT !.up = FALSE].cancels = 0
<1>1. << >> \in Seq(Statement)
  OBVIOUS
<1>2. QED
  BY <1>1 DEF Fresh, Connection

LEMMA BreakBreaks ==
    ASSUME TypeInv, NEW pid \in DOMAIN server, Break(pid)
    PROVE  /\ pid \in 1..Len(server)
           /\ Breaks(pid)
           /\ UNCHANGED <<holder, clients, sentOn, lost>>
<1>1. pid \in 1..Len(server)
  BY DEF TypeInv
<1>2. /\ server' = [server EXCEPT ![pid] = [Fresh EXCEPT !.up = FALSE]]
      /\ Answered(Elements(server[pid].statements))
      /\ UNCHANGED <<workload, tick, holder, clients, sentOn, lost>>
  BY DEF Break, loopVars, histVars
<1>3. /\ SameCalls /\ calls' \in [DOMAIN calls -> Call]
      /\ \A j \in DOMAIN calls :
            calls'[j].at = IF calls[j].at = "run"
                                /\ <<tick, j>> \in Elements(server[pid].statements)
                           THEN "done" ELSE calls[j].at
  BY <1>2, AnsweredCalls
<1>4. QED
  BY <1>1, <1>2, <1>3, FreshConnection, ServerChanges DEF Breaks

\* A call goes on, and nothing else does.
Moves(i, at) ==
    /\ SameCalls
    /\ calls' \in [DOMAIN calls -> Call]
    /\ calls'[i].at = at
    /\ \A j \in DOMAIN calls : j # i => calls'[j] = calls[j]

\* The request is on its way, or lost with its connection.
Cancels(i, pid) ==
    /\ Moves(i, "done")
    /\ server' \in Seq(Connection) /\ Len(server') = Len(server)
    /\ \A p \in 1..Len(server) : p # pid => server'[p] = server[p]
    /\ server'[pid].up = server[pid].up
    /\ server'[pid].statements = server[pid].statements
    /\ server'[pid].cancels = IF server[pid].up THEN server[pid].cancels + 1
                                                ELSE server[pid].cancels

LEMMA SendCancelCancels ==
    ASSUME TypeInv, ClientsInv, NEW i \in DOMAIN calls, SendCancel(i)
    PROVE  /\ Cancels(i, clients[Key(i)])
           /\ UNCHANGED <<holder, clients, sentOn, lost>>
<1> DEFINE pid == clients[Key(i)]
<1>1. /\ calls[i].at = "cancel" /\ Goes(i, "done")
      /\ server' = [server EXCEPT
                       ![pid].cancels = IF server[pid].up THEN @ + 1 ELSE @]
      /\ UNCHANGED <<workload, tick, holder, clients, sentOn, lost>>
  BY DEF SendCancel, loopVars, histVars
<1>2. pid \in 1..Len(server) /\ server[pid] \in Connection
  BY <1>1, PidOf
<1> HIDE DEF pid
<1> DEFINE cancels == IF server[pid].up THEN server[pid].cancels + 1
                                        ELSE server[pid].cancels
           changed == [server[pid] EXCEPT !.cancels = cancels]
<1>3. cancels \in Nat
  BY <1>2 DEF Connection
<1>4. server' = [server EXCEPT ![pid] = changed]
  BY <1>1
<1> HIDE DEF cancels
<1>5. /\ changed \in Connection /\ changed.cancels = cancels
      /\ changed.up = server[pid].up /\ changed.statements = server[pid].statements
  BY <1>2, <1>3 DEF Connection
<1> HIDE DEF changed
<1>6. Moves(i, "done")
  BY <1>1, GoesTo DEF Moves
<1>7. QED
  <2>1. Cancels(i, pid)
    BY <1>2, <1>4, <1>5, <1>6, ServerChanges DEF Cancels, cancels
  <2>2. QED
    BY <1>1, <2>1 DEF pid

\* A statement is given up.
LEMMA GivesUp ==
    ASSUME TypeInv, NEW pid \in 1..Len(server), GivenUp(pid)
    PROVE  /\ lost' \in Seq(Nat) /\ Len(lost') = Len(lost)
           /\ lost'[pid] = lost[pid] + 1
           /\ \A p \in 1..Len(server) : p # pid => lost'[p] = lost[p]
<1>1. lost \in Seq(Nat) /\ Len(lost) = Len(server) /\ pid \in 1..Len(lost)
  BY DEF TypeInv
<1>2. lost[pid] + 1 \in Nat
  BY <1>1
<1>3. lost' = [lost EXCEPT ![pid] = lost[pid] + 1]
  BY DEF GivenUp
<1>4. QED
  BY <1>1, <1>2, <1>3

LEMMA TypeKept ==
    ASSUME TypeInv, SameCalls, calls' \in [DOMAIN calls -> Call],
           server' \in Seq(Connection), Len(server') = Len(server),
           lost' \in Seq(Nat), Len(lost') = Len(lost), UNCHANGED <<clients, cursor>>
    PROVE  TypeInv'
<1>1. Categories' = Categories
  BY DEF SameCalls, Categories
<1>2. QED
  BY <1>1, CallsStayTyped DEF TypeInv

LEMMA LookupSends ==
    ASSUME TypeInv, NEW i \in DOMAIN calls, Lookup(i)
    PROVE  /\ calls[i].at = "lock" /\ holder = Nobody
           /\ UNCHANGED <<clients, lost, cursor>>
           /\ \/ /\ Key(i) \in DOMAIN clients
                 /\ clients[Key(i)] \in 1..Len(server)
                 /\ Sends(i, clients[Key(i)], server)
                 /\ UNCHANGED holder
              \/ /\ Key(i) \notin DOMAIN clients
                 /\ Moves(i, "connect")
                 /\ holder' = i
                 /\ UNCHANGED <<server, sentOn>>
<1>1. /\ calls[i].at = "lock" /\ holder = Nobody
      /\ UNCHANGED <<workload, tick, cursor, clients, lost>>
  BY DEF Lookup, loopVars
<1>2. CASE Key(i) \in DOMAIN clients
  <2>1. clients[Key(i)] \in 1..Len(server) /\ server \in Seq(Connection)
    BY <1>2 DEF TypeInv
  <2>2. Send(i, clients[Key(i)], server) /\ UNCHANGED holder
    BY <1>2 DEF Lookup
  <2>3. Sends(i, clients[Key(i)], server)
    BY <1>1, <2>1, <2>2, SendsOn
  <2>4. QED
    BY <1>1, <1>2, <2>1, <2>2, <2>3
<1>3. CASE Key(i) \notin DOMAIN clients
  <2>1. Goes(i, "connect") /\ holder' = i /\ UNCHANGED <<server, sentOn>>
    BY <1>3 DEF Lookup
  <2>2. Moves(i, "connect")
    BY <1>1, <2>1, GoesTo DEF Moves
  <2>3. QED
    BY <1>1, <1>3, <2>1, <2>2
<1>4. QED
  BY <1>2, <1>3

\* The lane of the call gets a connection of its own.
Connects(i) ==
    LET pid == Len(server) + 1
    IN  /\ clients' = [key \in DOMAIN clients \cup {Key(i)} |->
                          IF key = Key(i) THEN pid ELSE clients[key]]
        /\ SameCalls
        /\ calls' \in [DOMAIN calls -> Call]
        /\ \A j \in DOMAIN calls : j # i => calls'[j] = calls[j]
        /\ calls'[i].at = "run"
        /\ sentOn' = sentOn \cup {<<i[1], calls[i].query, pid>>}
        /\ server' \in Seq(Connection) /\ Len(server') = pid
        /\ \A p \in 1..Len(server) : server'[p] = server[p]
        /\ server'[pid].up /\ server'[pid].cancels = 0
        /\ server'[pid].statements = <<<<tick, i>>>>
        /\ lost' \in Seq(Nat) /\ Len(lost') = pid
        /\ \A p \in 1..Len(server) : lost'[p] = lost[p]
        /\ lost'[pid] = 0

LEMMA ConnectedConnects ==
    ASSUME TypeInv, NEW i \in DOMAIN calls, Connected(i)
    PROVE  /\ calls[i].at = "connect"
           /\ Connects(i) /\ holder' = Nobody /\ UNCHANGED cursor
<1> DEFINE pid         == Len(server) + 1
           connections == Append(server, Fresh)
<1>1. /\ calls[i].at = "connect" /\ holder' = Nobody
      /\ clients' = [key \in DOMAIN clients \cup {Key(i)} |->
                        IF key = Key(i) THEN pid ELSE clients[key]]
      /\ Send(i, pid, connections)
      /\ lost' = Append(lost, 0)
      /\ UNCHANGED <<workload, tick, cursor>>
  BY DEF Connected, loopVars
<1>2. server \in Seq(Connection) /\ lost \in Seq(Nat) /\ Len(lost) = Len(server)
  BY DEF TypeInv
<1>3. /\ connections \in Seq(Connection) /\ Len(connections) = pid
      /\ connections[pid] = Fresh
      /\ \A p \in 1..Len(server) : connections[p] = server[p]
      /\ pid \in 1..Len(connections)
      /\ Len(server) \in Nat
  BY <1>2, FreshConnection
<1>4. /\ lost' \in Seq(Nat) /\ Len(lost') = pid
      /\ lost'[pid] = 0
      /\ \A p \in 1..Len(server) : lost'[p] = lost[p]
  BY <1>1, <1>2
<1> HIDE DEF connections
<1>5. Sends(i, pid, connections)
  BY <1>1, <1>3, SendsOn
<1>6. connections[pid].up
  BY <1>3, FreshConnection
<1>7. /\ SameCalls /\ calls' \in [DOMAIN calls -> Call]
      /\ \A j \in DOMAIN calls : j # i => calls'[j] = calls[j]
      /\ calls'[i].at = "run" /\ sentOn' = sentOn \cup {<<i[1], calls[i].query, pid>>}
  BY <1>5, <1>6 DEF Sends
<1>8. /\ server' \in Seq(Connection) /\ Len(server') = pid
      /\ \A p \in 1..Len(server) : server'[p] = server[p]
      /\ server'[pid].up
  <2>1. \A p \in 1..Len(server) : p \in 1..pid /\ p # pid
    BY <1>3
  <2>2. QED
    BY <1>3, <1>5, <1>6, <2>1 DEF Sends
<1>9. server'[pid].cancels = 0 /\ server'[pid].statements = <<<<tick, i>>>>
  <2>1. /\ server'[pid].cancels = connections[pid].cancels
        /\ server'[pid].statements = Append(connections[pid].statements, <<tick, i>>)
    BY <1>5, <1>6 DEF Sends
  <2>2. connections[pid].cancels = 0 /\ connections[pid].statements = << >>
    BY <1>3, FreshConnection
  <2>3. Append(<< >>, <<tick, i>>) = <<<<tick, i>>>>
    OBVIOUS
  <2>4. QED
    BY <2>1, <2>2, <2>3
<1>10. QED
  BY <1>1, <1>4, <1>7, <1>8, <1>9 DEF Connects

\* A new tick begins with calls that have done nothing yet.
LEMMA FireStarts ==
    ASSUME TypeInv, Fire
    PROVE  /\ AllDone
           /\ tick' = tick + 1 /\ workload' = workload
           /\ \A c \in DOMAIN Categories : cursor'[c] \in Nat
           /\ calls' \in [Places -> Call]
           /\ \A i \in Places : calls'[i].query \in Queries(i[1]) /\ calls'[i].at = "lock"
           /\ UNCHANGED <<holder, clients, server, sentOn, lost>>
<1>1. /\ AllDone /\ tick' = tick + 1 /\ workload' = workload
      /\ UNCHANGED <<holder, clients, server, sentOn, lost>>
  BY DEF Fire, histVars
<1>2. \A c \in DOMAIN Categories : cursor'[c] \in Nat
  BY AdvancedType DEF Fire
<1>3. PICK batch :
          /\ \A c \in DOMAIN Categories : batch[c] \in Batches(c)
          /\ calls' = [i \in Places |-> [query |-> batch[i[1]][i[2]], at |-> "lock"]]
  BY DEF Fire
<1>4. \A i \in Places : batch[i[1]][i[2]] \in Queries(i[1]) /\ Queries(i[1]) \subseteq Query
  BY <1>3, PlaceType, BatchQueries, CategoryType DEF TypeInv
<1>5. calls' \in [Places -> Call]
  BY <1>3, <1>4 DEF Call
<1>6. \A i \in Places : calls'[i].query \in Queries(i[1]) /\ calls'[i].at = "lock"
  BY <1>3, <1>4
<1>7. QED
  BY <1>1, <1>2, <1>5, <1>6

\* What the remaining steps of a call leave as it was.
LEMMA NotConnectedFails ==
    ASSUME TypeInv, NEW i \in DOMAIN calls, NotConnected(i)
    PROVE  /\ calls[i].at = "connect" /\ Moves(i, "done") /\ holder' = Nobody
           /\ UNCHANGED <<cursor, clients, server, sentOn, lost>>
<1>1. /\ calls[i].at = "connect" /\ Goes(i, "done") /\ holder' = Nobody
      /\ UNCHANGED <<workload, tick, cursor, clients, server, sentOn, lost>>
  BY DEF NotConnected, loopVars, histVars
<1>2. QED
  BY <1>1, GoesTo DEF Moves

LEMMA TimeOutMoves ==
    ASSUME TypeInv, NEW i \in DOMAIN calls, TimeOut(i)
    PROVE  /\ calls[i].at = "run" /\ Moves(i, "cancel")
           /\ UNCHANGED <<cursor, holder, clients, server, sentOn, lost>>
<1>1. /\ calls[i].at = "run" /\ Goes(i, "cancel")
      /\ UNCHANGED <<workload, tick, cursor, holder, clients, server, sentOn, lost>>
  BY DEF TimeOut, loopVars, histVars
<1>2. QED
  BY <1>1, GoesTo DEF Moves

LEMMA CancelFailsMoves ==
    ASSUME TypeInv, NEW i \in DOMAIN calls, CancelFails(i)
    PROVE  /\ calls[i].at = "cancel" /\ Moves(i, "done") /\ GivenUp(clients[Key(i)])
           /\ UNCHANGED <<cursor, holder, clients, server, sentOn>>
<1>1. /\ calls[i].at = "cancel" /\ Goes(i, "done") /\ GivenUp(clients[Key(i)])
      /\ UNCHANGED <<workload, tick, cursor, holder, clients, server, sentOn>>
  BY DEF CancelFails, loopVars
<1>2. QED
  BY <1>1, GoesTo DEF Moves

LEMMA DropMoves ==
    ASSUME TypeInv, NEW i \in DOMAIN calls, Drop(i)
    PROVE  /\ Moves(i, "done")
           /\ holder' = IF holder = i THEN Nobody ELSE holder
           /\ \/ calls[i].at \in {"run", "cancel"} /\ GivenUp(clients[Key(i)])
              \/ calls[i].at \in {"lock", "connect"} /\ lost' = lost
           /\ UNCHANGED <<cursor, clients, server, sentOn>>
<1>1. /\ calls[i].at # "done" /\ Goes(i, "done")
      /\ holder' = IF holder = i THEN Nobody ELSE holder
      /\ IF calls[i].at \in {"run", "cancel"} THEN GivenUp(clients[Key(i)])
                                              ELSE UNCHANGED lost
      /\ UNCHANGED <<workload, tick, cursor, clients, server, sentOn>>
  BY DEF Drop, loopVars
<1>2. calls[i].at \in {"lock", "connect", "run", "cancel", "done"}
  BY DEF TypeInv, Call
<1>3. QED
  BY <1>1, <1>2, GoesTo DEF Moves

LEMMA NextType == TypeInv /\ ClientsInv /\ [Next]_vars => TypeInv'
<1> SUFFICES ASSUME TypeInv, ClientsInv, [Next]_vars PROVE TypeInv'
  OBVIOUS
<1>0. server \in Seq(Connection) /\ lost \in Seq(Nat)
  BY DEF TypeInv
<1>1. CASE Fire
  <2>1. Places' = Places /\ Categories' = Categories /\ \A c : Queries(c)' = Queries(c)
    BY <1>1, FireStarts DEF Places, Categories, Queries
  <2>2. DOMAIN calls' = Places
    BY <1>1, FireStarts
  <2>3. QED
    BY <1>1, <2>1, <2>2, FireStarts DEF TypeInv
<1>2. ASSUME NEW i \in DOMAIN calls, Lookup(i) PROVE TypeInv'
  BY <1>0, <1>2, LookupSends, TypeKept DEF Sends, Moves
<1>3. ASSUME NEW i \in DOMAIN calls, Connected(i) PROVE TypeInv'
  <2>1. Connects(i) /\ cursor' = cursor
    BY <1>3, ConnectedConnects
  <2>2. Categories' = Categories
    BY <2>1 DEF Connects, SameCalls, Categories
  <2>3. (clients \in [DOMAIN clients -> 1..Len(server)])'
    BY <2>1 DEF Connects, TypeInv
  <2>4. /\ SameCalls /\ calls' \in [DOMAIN calls -> Call]
        /\ server' \in Seq(Connection) /\ lost' \in Seq(Nat) /\ Len(lost') = Len(server')
    BY <2>1 DEF Connects
  <2>5. QED
    BY <2>1, <2>2, <2>3, <2>4, CallsStayTyped DEF TypeInv
<1>4. ASSUME NEW i \in DOMAIN calls, NotConnected(i) PROVE TypeInv'
  BY <1>0, <1>4, NotConnectedFails, TypeKept DEF Moves
<1>5. ASSUME NEW i \in DOMAIN calls, TimeOut(i) PROVE TypeInv'
  BY <1>0, <1>5, TimeOutMoves, TypeKept DEF Moves
<1>6. ASSUME NEW i \in DOMAIN calls, SendCancel(i) PROVE TypeInv'
  <2>1. /\ Cancels(i, clients[Key(i)])
        /\ UNCHANGED <<holder, clients, sentOn, lost>> /\ cursor' = cursor
    BY <1>6, SendCancelCancels DEF SendCancel, loopVars
  <2>2. QED
    BY <1>0, <2>1, TypeKept DEF Cancels, Moves
<1>7. ASSUME NEW i \in DOMAIN calls, CancelFails(i) PROVE TypeInv'
  <2>1. /\ calls[i].at = "cancel" /\ Moves(i, "done") /\ GivenUp(clients[Key(i)])
        /\ UNCHANGED <<cursor, clients, server>>
    BY <1>7, CancelFailsMoves
  <2>2. clients[Key(i)] \in 1..Len(server)
    BY <2>1, PidOf
  <2>3. lost' \in Seq(Nat) /\ Len(lost') = Len(lost)
    BY <2>1, <2>2, GivesUp
  <2>4. QED
    BY <1>0, <2>1, <2>3, TypeKept DEF Moves
<1>8. ASSUME NEW i \in DOMAIN calls, Drop(i) PROVE TypeInv'
  <2>1. /\ Moves(i, "done") /\ UNCHANGED <<cursor, clients, server>>
        /\ \/ calls[i].at \in {"run", "cancel"} /\ GivenUp(clients[Key(i)])
           \/ calls[i].at \in {"lock", "connect"} /\ lost' = lost
    BY <1>8, DropMoves
  <2>2. lost' \in Seq(Nat) /\ Len(lost') = Len(lost)
    BY <1>0, <2>1, PidOf, GivesUp
  <2>3. QED
    BY <1>0, <2>1, <2>2, TypeKept DEF Moves
<1>9. ASSUME NEW pid \in DOMAIN server, Finish(pid) \/ CancelArrives(pid) \/ Break(pid)
      PROVE  TypeInv'
  <2>1. cursor' = cursor
    BY <1>9 DEF Finish, CancelArrives, Break, loopVars
  <2>2. /\ SameCalls /\ calls' \in [DOMAIN calls -> Call]
        /\ server' \in Seq(Connection) /\ Len(server') = Len(server)
        /\ UNCHANGED <<clients, lost>>
    <3>1. CASE Finish(pid)
      BY <3>1, FinishEnds DEF Ends
    <3>2. CASE CancelArrives(pid)
      BY <3>2, CancelEnds DEF Ends, Expires, TypeInv
    <3>3. CASE Break(pid)
      BY <3>3, BreakBreaks DEF Breaks
    <3>4. QED
      BY <1>9, <3>1, <3>2, <3>3
  <2>3. QED
    BY <1>0, <2>1, <2>2, TypeKept
<1>10. CASE UNCHANGED vars
  BY <1>10 DEF vars, loopVars, histVars, TypeInv, Categories, Places, Queries
<1>11. QED
  BY <1>1, <1>2, <1>3, <1>4, <1>5, <1>6, <1>7, <1>8, <1>9, <1>10 DEF Next

LEMMA InitType == Init => TypeInv
<1> SUFFICES ASSUME Init PROVE TypeInv
  OBVIOUS
<1>1. /\ workload \in Workloads /\ tick = 0 /\ cursor = [c \in DOMAIN Categories |-> 0]
      /\ calls = << >> /\ clients = << >> /\ server = << >> /\ lost = << >>
  BY DEF Init, NoCall
<1>2. DOMAIN << >> = {} /\ Len(<< >>) = 0
  OBVIOUS
<1>3. << >> \in Seq(Connection) /\ << >> \in Seq(Nat)
  OBVIOUS
<1>4. \A S : << >> \in [DOMAIN << >> -> S]
  BY <1>2
<1>5. QED
  BY <1>1, <1>2, <1>3, <1>4 DEF TypeInv

-----------------------------------------------------------------------------
(* A lane is one connection *)

\* No call begins to connect, and if the lock is let go of, its holder does not connect.
LEMMA LockKept ==
    ASSUME LockInv, SameCalls, UNCHANGED clients,
           \A j \in DOMAIN calls :
              calls'[j].at = "connect" => calls[j].at = "connect" /\ holder' = holder
    PROVE  LockInv'
BY DEF LockInv, SameCalls

LEMMA FiredStays ==
    ASSUME workload' = workload
    PROVE  \A sent : WasFired(sent)' <=> WasFired(sent)
BY DEF WasFired, Categories, Queries, Elements

\* The calls that have sent their query are no more than before.
LEMMA ClientsKept ==
    ASSUME ClientsInv, SameCalls, UNCHANGED <<clients, sentOn>>,
           \A j \in DOMAIN calls :
              calls'[j].at \in {"run", "cancel"} => calls[j].at \in {"run", "cancel"}
    PROVE  ClientsInv'
<1>1. \A q : KeyOf(q)' = KeyOf(q)
  BY DEF KeyOf
<1>2. \A a : WasFired(a)' <=> WasFired(a)
  BY FiredStays DEF SameCalls
<1>3. QED
  BY <1>1, <1>2 DEF ClientsInv, SameCalls

\* A query is sent on the connection of its lane.
LEMMA ClientsSend ==
    ASSUME TypeInv, ClientsInv, NEW i \in DOMAIN calls, SameCalls,
           Key(i) \in DOMAIN clients', UNCHANGED clients,
           \A j \in DOMAIN calls : j # i => calls'[j] = calls[j],
           sentOn' \in {sentOn, sentOn \cup {<<i[1], calls[i].query, clients[Key(i)]>>}}
    PROVE  ClientsInv'
<1>1. i[1] \in DOMAIN Categories /\ calls[i].query \in Queries(i[1])
  BY PlaceType DEF TypeInv
<1>2. \A a \in sentOn' :
          /\ WasFired(a)
          /\ KeyOf(a[2]) \in DOMAIN clients
          /\ a[3] = clients[KeyOf(a[2])]
  BY <1>1 DEF ClientsInv, Key, WasFired
<1>3. \A j \in DOMAIN calls' :
          calls'[j].at \in {"run", "cancel"} => Key(j)' \in DOMAIN clients
  BY DEF ClientsInv, SameCalls
<1>4. \A a : WasFired(a)' <=> WasFired(a)
  BY FiredStays DEF SameCalls
<1>5. QED
  BY <1>2, <1>3, <1>4 DEF ClientsInv, KeyOf

LEMMA LockAndClientsConnect ==
    ASSUME TypeInv, LockInv, ClientsInv, NEW i \in DOMAIN calls,
           calls[i].at = "connect", Connects(i), holder' = Nobody
    PROVE  LockInv' /\ ClientsInv'
<1> DEFINE pid == Len(server) + 1
<1>1. /\ Key(i) \notin DOMAIN clients
      /\ \A j \in DOMAIN calls : calls[j].at = "connect" => j = i
  BY DEF LockInv
<1>2. /\ DOMAIN clients' = DOMAIN clients \cup {Key(i)}
      /\ clients'[Key(i)] = pid
      /\ \A key \in DOMAIN clients : clients'[key] = clients[key]
  BY <1>1 DEF Connects
<1>3. /\ DOMAIN calls' = DOMAIN calls
      /\ \A j \in DOMAIN calls : Key(j)' = Key(j)
      /\ \A j \in DOMAIN calls : j # i => calls'[j] = calls[j]
      /\ calls'[i].at = "run"
      /\ sentOn' = sentOn \cup {<<i[1], calls[i].query, pid>>}
  BY DEF Connects, SameCalls
<1>4. LockInv'
  BY <1>1, <1>3 DEF LockInv
<1>5. \A key \in DOMAIN clients : clients[key] \in 1..Len(server) /\ clients[key] # pid
  BY DEF TypeInv
<1>6. \A k, l \in DOMAIN clients' : clients'[k] = clients'[l] => k = l
  BY <1>2, <1>5 DEF ClientsInv
<1>7. i[1] \in DOMAIN Categories /\ calls[i].query \in Queries(i[1])
  BY PlaceType DEF TypeInv
<1>8. \A a \in sentOn' :
          /\ WasFired(a)
          /\ KeyOf(a[2]) \in DOMAIN clients'
          /\ a[3] = clients'[KeyOf(a[2])]
  <2> SUFFICES ASSUME NEW a \in sentOn'
               PROVE  /\ WasFired(a)
                      /\ KeyOf(a[2]) \in DOMAIN clients'
                      /\ a[3] = clients'[KeyOf(a[2])]
    OBVIOUS
  <2>1. CASE a \in sentOn
    BY <1>2, <2>1 DEF ClientsInv
  <2>2. CASE a = <<i[1], calls[i].query, pid>>
    <3>1. WasFired(a) /\ a[3] = pid /\ KeyOf(a[2]) = Key(i)
      BY <1>7, <2>2 DEF Key, WasFired
    <3>2. QED
      BY <1>2, <3>1
  <2>3. QED
    BY <1>3, <2>1, <2>2
<1>9. \A j \in DOMAIN calls' :
          calls'[j].at \in {"run", "cancel"} => Key(j)' \in DOMAIN clients'
  BY <1>2, <1>3 DEF ClientsInv
<1>10. ClientsInv'
  <2>1. \A a : WasFired(a)' <=> WasFired(a)
    BY FiredStays DEF Connects, SameCalls
  <2>2. QED
    BY <1>6, <1>8, <1>9, <2>1 DEF ClientsInv, KeyOf
<1>11. QED
  BY <1>4, <1>10

LEMMA NextLanes == TypeInv /\ LockInv /\ ClientsInv /\ [Next]_vars => LockInv' /\ ClientsInv'
<1> SUFFICES ASSUME TypeInv, LockInv, ClientsInv, [Next]_vars PROVE LockInv' /\ ClientsInv'
  OBVIOUS
<1>1. CASE Fire
  <2>1. /\ DOMAIN calls' = Places
        /\ \A j \in Places : calls'[j].at = "lock"
        /\ UNCHANGED <<workload, clients, sentOn>>
    BY <1>1, FireStarts
  <2>2. \A a : WasFired(a)' <=> WasFired(a)
    BY <2>1, FiredStays
  <2>3. QED
    BY <2>1, <2>2 DEF LockInv, ClientsInv, KeyOf
<1>2. ASSUME NEW i \in DOMAIN calls, Lookup(i) PROVE LockInv' /\ ClientsInv'
  <2>1. CASE /\ Key(i) \in DOMAIN clients /\ Sends(i, clients[Key(i)], server)
             /\ UNCHANGED <<holder, clients>>
    <3>1. LockInv'
      BY <2>1, LockKept DEF Sends
    <3>2. ClientsInv'
      BY <2>1, ClientsSend DEF Sends
    <3>3. QED
      BY <3>1, <3>2
  <2>2. CASE /\ Key(i) \notin DOMAIN clients /\ Moves(i, "connect")
             /\ holder = Nobody /\ holder' = i /\ UNCHANGED <<clients, server, sentOn>>
    <3>1. \A j \in DOMAIN calls : j # Nobody
      BY PlaceType DEF TypeInv
    <3>2. \A j \in DOMAIN calls : calls[j].at # "connect"
      BY <2>2, <3>1 DEF LockInv
    <3>3. LockInv'
      BY <2>2, <3>2 DEF LockInv, Moves, SameCalls
    <3>4. ClientsInv'
      BY <2>2, ClientsKept DEF Moves
    <3>5. QED
      BY <3>3, <3>4
  <2>3. QED
    BY <1>2, <2>1, <2>2, LookupSends
<1>3. ASSUME NEW i \in DOMAIN calls, Connected(i) PROVE LockInv' /\ ClientsInv'
  BY <1>3, ConnectedConnects, LockAndClientsConnect
<1>4. ASSUME NEW i \in DOMAIN calls, NotConnected(i) PROVE LockInv' /\ ClientsInv'
  <2>1. /\ calls[i].at = "connect" /\ Moves(i, "done") /\ UNCHANGED <<clients, sentOn>>
    BY <1>4, NotConnectedFails
  <2>2. \A j \in DOMAIN calls : calls'[j].at # "connect"
    BY <2>1 DEF LockInv, Moves
  <2>3. QED
    BY <2>1, <2>2, LockKept, ClientsKept DEF Moves
<1>5. ASSUME NEW i \in DOMAIN calls, TimeOut(i) PROVE LockInv' /\ ClientsInv'
  BY <1>5, TimeOutMoves, LockKept, ClientsKept DEF Moves
<1>6. ASSUME NEW i \in DOMAIN calls, SendCancel(i) PROVE LockInv' /\ ClientsInv'
  BY <1>6, SendCancelCancels, LockKept, ClientsKept DEF Cancels, Moves
<1>7. ASSUME NEW i \in DOMAIN calls, CancelFails(i) PROVE LockInv' /\ ClientsInv'
  BY <1>7, CancelFailsMoves, LockKept, ClientsKept DEF Moves
<1>8. ASSUME NEW i \in DOMAIN calls, Drop(i) PROVE LockInv' /\ ClientsInv'
  <2>1. /\ Moves(i, "done") /\ UNCHANGED <<clients, sentOn>>
        /\ holder' = IF holder = i THEN Nobody ELSE holder
    BY <1>8, DropMoves
  <2>2. \A j \in DOMAIN calls :
            calls'[j].at = "connect" => calls[j].at = "connect" /\ holder' = holder
    BY <2>1 DEF LockInv, Moves
  <2>3. QED
    BY <2>1, <2>2, LockKept, ClientsKept DEF Moves
<1>9. ASSUME NEW pid \in DOMAIN server, Finish(pid) \/ CancelArrives(pid) \/ Break(pid)
      PROVE  LockInv' /\ ClientsInv'
  <2>1. /\ SameCalls /\ UNCHANGED <<holder, clients, sentOn>>
        /\ \A j \in DOMAIN calls : calls'[j].at \in {calls[j].at, "done"}
    <3>1. CASE Finish(pid)
      BY <3>1, FinishEnds DEF Ends
    <3>2. CASE CancelArrives(pid)
      BY <3>2, CancelEnds DEF Ends, Expires
    <3>3. CASE Break(pid)
      BY <3>3, BreakBreaks DEF Breaks
    <3>4. QED
      BY <1>9, <3>1, <3>2, <3>3
  <2>2. QED
    BY <2>1, LockKept, ClientsKept
<1>10. CASE UNCHANGED vars
  <2>1. \A a : WasFired(a)' <=> WasFired(a)
    BY <1>10, FiredStays DEF vars
  <2>2. QED
    BY <1>10, <2>1 DEF vars, loopVars, histVars, LockInv, ClientsInv, Key, KeyOf
<1>11. QED
  BY <1>1, <1>2, <1>3, <1>4, <1>5, <1>6, <1>7, <1>8, <1>9, <1>10 DEF Next

LEMMA InitLanes == Init => LockInv /\ ClientsInv
BY DEF Init, NoCall, LockInv, ClientsInv

LEMMA LanesInvariant == Spec => [](TypeInv /\ LockInv /\ ClientsInv)
BY InitType, InitLanes, NextType, NextLanes, PTL DEF Spec

\* Where the keys tell the lanes apart (LanesAreKeys), queries of one lane share one
\* backend for good and queries of different ones never do (mach5.rs:56-57 and 184-188):
\* the lock is held from the lookup to the insertion.
THEOREM LaneKeepsConnection == Spec => []LaneIsOneConnection
<1>1. ClientsInv => LaneIsOneConnection
  <2> SUFFICES ASSUME ClientsInv, LanesAreKeys, NEW a \in sentOn, NEW b \in sentOn
               PROVE  Lane(a) = Lane(b) <=> a[3] = b[3]
    BY DEF LaneIsOneConnection
  <2>1. KeyOf(a[2]) = KeyOf(b[2]) <=> Lane(<<a[1], a[2]>>) = Lane(<<b[1], b[2]>>)
    BY DEF ClientsInv, WasFired, LanesAreKeys
  <2>2. Lane(<<a[1], a[2]>>) = Lane(a) /\ Lane(<<b[1], b[2]>>) = Lane(b)
    BY DEF Lane
  <2>3. KeyOf(a[2]) = KeyOf(b[2]) <=> a[3] = b[3]
    BY DEF ClientsInv
  <2>4. QED
    BY <2>1, <2>2, <2>3
<1>2. QED
  BY <1>1, LanesInvariant, PTL

-----------------------------------------------------------------------------
(* The statements of a connection *)

\* No call is taken back behind its sending, and no connection from its lane.
Onward ==
    /\ SameCalls
    /\ \A j \in DOMAIN calls :
          calls'[j].at \in {"lock", "connect"} => calls[j].at \in {"lock", "connect"}
    /\ \A key \in DOMAIN clients : key \in DOMAIN clients' /\ clients'[key] = clients[key]

\* The statement is owned after the step.
StillOwned(pid, statement) ==
    /\ statement[1] <= tick'
    /\ statement[1] = tick' =>
          /\ statement[2] \in DOMAIN calls'
          /\ calls'[statement[2]].at \notin {"lock", "connect"}
          /\ KeyOf(calls'[statement[2]].query) \in DOMAIN clients'
          /\ clients'[KeyOf(calls'[statement[2]].query)] = pid

LEMMA OwnedKept ==
    ASSUME Onward, NEW pid, NEW statement, Owned(pid, statement)
    PROVE  StillOwned(pid, statement)
BY DEF Onward, SameCalls, Owned, StillOwned, Key

LEMMA ConnectionType ==
    ASSUME TypeInv, NEW pid \in 1..Len(server)
    PROVE  /\ server[pid].statements \in Seq(Statement)
           /\ Len(server[pid].statements) \in Nat
           /\ server[pid].cancels \in Nat /\ lost[pid] \in Nat
           /\ \A j \in 1..Len(server[pid].statements) :
                 /\ server[pid].statements[j] \in Statement
                 /\ server[pid].statements[j][1] \in Nat
<1>1. server[pid] \in Connection /\ lost[pid] \in Nat
  BY ElementOfSeq DEF TypeInv
<1>2. server[pid].statements \in Seq(Statement) /\ server[pid].cancels \in Nat
  BY <1>1 DEF Connection
<1>3. \A j \in 1..Len(server[pid].statements) : server[pid].statements[j] \in Statement
  BY <1>2, ElementOfSeq
<1>4. \A statement \in Statement : statement[1] \in Nat
  BY DEF Statement
<1>5. QED
  BY <1>1, <1>2, <1>3, <1>4

\* Each connection keeps its statements, loses some, or gets one of a call that runs.
LEMMA StatementsFollow ==
    ASSUME TypeInv, StatementsInv, Onward,
           \A pid \in 1..Len(server') :
              \/ pid \in 1..Len(server) /\ server'[pid] = server[pid]
              \/ server'[pid].statements = << >>
              \/ /\ pid \in 1..Len(server) /\ server'[pid].up = server[pid].up
                 /\ server'[pid].statements = server[pid].statements
              \/ Ends(pid) /\ pid \in 1..Len(server)
              \/ /\ server'[pid].up
                 /\ \E i \in DOMAIN calls :
                       /\ \/ /\ pid \in 1..Len(server)
                             /\ server'[pid].statements
                                  = Append(server[pid].statements, <<tick, i>>)
                          \/ server'[pid].statements = <<<<tick, i>>>>
                       /\ calls'[i].at = "run"
                       /\ Key(i) \in DOMAIN clients' /\ clients'[Key(i)] = pid
    PROVE  StatementsInv'
<1> SUFFICES ASSUME NEW pid \in 1..Len(server')
             PROVE  /\ ~server'[pid].up => server'[pid].statements = << >>
                    /\ \A j \in 1..Len(server'[pid].statements) :
                          StillOwned(pid, server'[pid].statements[j])
  BY DEF StatementsInv, Owned, StillOwned, Key
<1> DEFINE old == server[pid].statements
           new == server'[pid].statements
<1>1. pid \in 1..Len(server) =>
          /\ old \in Seq(Statement)
          /\ ~server[pid].up => old = << >>
          /\ \A j \in 1..Len(old) : Owned(pid, old[j]) /\ StillOwned(pid, old[j])
  BY ConnectionType, OwnedKept DEF StatementsInv
<1>2. CASE pid \in 1..Len(server) /\ server'[pid] = server[pid]
  BY <1>1, <1>2
<1>3. CASE new = << >>
  BY <1>3
<1>4. CASE pid \in 1..Len(server) /\ server'[pid].up = server[pid].up /\ new = old
  BY <1>1, <1>4
<1>5. CASE Ends(pid) /\ pid \in 1..Len(server)
  <2>1. old # << >> /\ new = Tail(old) /\ server'[pid].up = server[pid].up
    BY <1>5 DEF Ends
  <2>2. Len(new) = Len(old) - 1 /\ \A j \in 1..Len(new) : new[j] = old[j + 1]
    BY <1>1, <1>5, <2>1
  <2>3. Len(old) \in Nat
    BY <1>1, <1>5
  <2> HIDE DEF old, new
  <2>4. \A j \in 1..Len(new) : j + 1 \in 1..Len(old)
    BY <2>2, <2>3
  <2>5. \A j \in 1..Len(new) : StillOwned(pid, new[j])
    BY <1>1, <1>5, <2>2, <2>4
  <2>6. QED
    BY <1>1, <1>5, <2>1, <2>5 DEF old, new
<1>6. ASSUME server'[pid].up, NEW i \in DOMAIN calls,
             \/ pid \in 1..Len(server) /\ new = Append(old, <<tick, i>>)
             \/ new = <<<<tick, i>>>>,
             calls'[i].at = "run", Key(i) \in DOMAIN clients', clients'[Key(i)] = pid
      PROVE  \A j \in 1..Len(new) : StillOwned(pid, new[j])
  <2>1. StillOwned(pid, <<tick, i>>)
    <3>1. tick \in Nat /\ tick' = tick /\ DOMAIN calls' = DOMAIN calls /\ Key(i)' = Key(i)
      BY DEF TypeInv, Onward, SameCalls
    <3>2. QED
      BY <1>6, <3>1 DEF StillOwned, Key
  <2>2. CASE pid \in 1..Len(server) /\ new = Append(old, <<tick, i>>)
    <3>1. /\ Len(new) = Len(old) + 1 /\ Len(old) \in Nat
          /\ new[Len(old) + 1] = <<tick, i>>
          /\ \A j \in 1..Len(old) : new[j] = old[j]
      <4>1. <<tick, i>> \in Statement
        BY PlaceType DEF TypeInv, Statement
      <4>2. QED
        BY <1>1, <2>2, <4>1, AppendProperties
    <3> HIDE DEF old, new
    <3>2. \A j \in 1..Len(new) : j \in 1..Len(old) \/ j = Len(old) + 1
      BY <3>1
    <3>3. QED
      BY <1>1, <2>1, <2>2, <3>1, <3>2
  <2>3. CASE new = <<<<tick, i>>>>
    BY <2>1, <2>3
  <2>4. QED
    BY <1>6, <2>2, <2>3
<1>7. QED
  BY <1>2, <1>3, <1>4, <1>5, <1>6

LEMMA NextStatements ==
    TypeInv /\ LockInv /\ ClientsInv /\ StatementsInv /\ [Next]_vars => StatementsInv'
<1> SUFFICES ASSUME TypeInv, LockInv, ClientsInv, StatementsInv, [Next]_vars
             PROVE  StatementsInv'
  OBVIOUS
<1>1. CASE Fire
  <2>1. tick' = tick + 1 /\ tick \in Nat /\ server' = server
    BY <1>1, FireStarts DEF TypeInv
  <2>2. \A pid \in 1..Len(server) : \A j \in 1..Len(server[pid].statements) :
            /\ server[pid].statements[j][1] \in Nat
            /\ server[pid].statements[j][1] <= tick
    BY ConnectionType DEF StatementsInv, Owned
  <2>3. \A pid \in 1..Len(server) : \A j \in 1..Len(server[pid].statements) :
            StillOwned(pid, server[pid].statements[j])
    BY <2>1, <2>2 DEF StillOwned
  <2>4. QED
    BY <2>1, <2>3 DEF StatementsInv, Owned, StillOwned, Key
<1>2. ASSUME NEW i \in DOMAIN calls, Lookup(i) PROVE StatementsInv'
  <2>1. CASE /\ Key(i) \in DOMAIN clients /\ clients[Key(i)] \in 1..Len(server)
             /\ Sends(i, clients[Key(i)], server)
             /\ calls[i].at = "lock" /\ UNCHANGED clients
    <3> DEFINE pid == clients[Key(i)]
    <3>1. Onward
      BY <2>1 DEF Onward, Sends
    <3>2. /\ Len(server') = Len(server)
          /\ \A p \in 1..Len(server) : p # pid => server'[p] = server[p]
      BY <2>1 DEF Sends
    <3>3. \/ server'[pid] = server[pid]
          \/ /\ server'[pid].up /\ calls'[i].at = "run"
             /\ server'[pid].statements = Append(server[pid].statements, <<tick, i>>)
      BY <2>1 DEF Sends
    <3>4. Key(i) \in DOMAIN clients' /\ clients'[Key(i)] = pid /\ pid \in 1..Len(server)
      BY <2>1
    <3> HIDE DEF pid
    <3>5. QED
      BY <3>1, <3>2, <3>3, <3>4, StatementsFollow
  <2>2. CASE Moves(i, "connect") /\ UNCHANGED <<clients, server>> /\ calls[i].at = "lock"
    <3>1. Onward
      BY <2>2 DEF Onward, Moves
    <3>2. QED
      BY <2>2, <3>1, StatementsFollow
  <2>3. QED
    BY <1>2, <2>1, <2>2, LookupSends
<1>3. ASSUME NEW i \in DOMAIN calls, Connected(i) PROVE StatementsInv'
  <2> DEFINE pid == Len(server) + 1
  <2>1. calls[i].at = "connect" /\ Connects(i) /\ Key(i) \notin DOMAIN clients
    BY <1>3, ConnectedConnects DEF LockInv
  <2>2. /\ Key(i) \in DOMAIN clients' /\ clients'[Key(i)] = pid
        /\ \A key \in DOMAIN clients : key \in DOMAIN clients' /\ clients'[key] = clients[key]
    BY <2>1 DEF Connects
  <2>3. Onward
    BY <2>1, <2>2 DEF Connects, Onward
  <2>4. /\ Len(server') = pid /\ Len(server) \in Nat
        /\ \A p \in 1..Len(server) : server'[p] = server[p]
        /\ server'[pid].up /\ server'[pid].statements = <<<<tick, i>>>>
        /\ calls'[i].at = "run"
    BY <2>1 DEF Connects, TypeInv
  <2>5. \A p \in 1..Len(server') : p \in 1..Len(server) \/ p = pid
    BY <2>4
  <2> HIDE DEF pid
  <2>6. QED
    BY <2>2, <2>3, <2>4, <2>5, StatementsFollow
<1>4. ASSUME NEW i \in DOMAIN calls,
             NotConnected(i) \/ TimeOut(i) \/ CancelFails(i) \/ Drop(i)
      PROVE  StatementsInv'
  <2>1. UNCHANGED <<clients, server>> /\ (Moves(i, "done") \/ Moves(i, "cancel"))
    BY <1>4, NotConnectedFails, TimeOutMoves, CancelFailsMoves, DropMoves
  <2>2. Onward
    BY <2>1 DEF Onward, Moves
  <2>3. QED
    BY <2>1, <2>2, StatementsFollow
<1>5. ASSUME NEW i \in DOMAIN calls, SendCancel(i) PROVE StatementsInv'
  <2> DEFINE pid == clients[Key(i)]
  <2>1. Cancels(i, pid) /\ UNCHANGED clients /\ calls[i].at = "cancel"
    BY <1>5, SendCancelCancels DEF SendCancel
  <2>2. Onward
    BY <2>1 DEF Onward, Cancels, Moves
  <2> HIDE DEF pid
  <2>3. QED
    BY <2>1, <2>2, StatementsFollow DEF Cancels
<1>6. ASSUME NEW pid \in DOMAIN server, Finish(pid) \/ CancelArrives(pid) \/ Break(pid)
      PROVE  StatementsInv'
  <2>1. pid \in 1..Len(server) /\ UNCHANGED clients /\ (Ends(pid) \/ Expires(pid) \/ Breaks(pid))
    BY <1>6, FinishEnds, CancelEnds, BreakBreaks
  <2>2. Onward
    BY <2>1 DEF Onward, Ends, Expires, Breaks
  <2>3. /\ Len(server') = Len(server)
        /\ \A p \in 1..Len(server) : p # pid => server'[p] = server[p]
        /\ Ends(pid) \/ server'[pid].statements = << >>
    BY <2>1 DEF Ends, Expires, Breaks
  <2>4. QED
    BY <2>1, <2>2, <2>3, StatementsFollow
<1>7. CASE UNCHANGED vars
  BY <1>7 DEF vars, loopVars, histVars, StatementsInv, Owned, Key
<1>8. QED
  BY <1>1, <1>2, <1>3, <1>4, <1>5, <1>6, <1>7 DEF Next

-----------------------------------------------------------------------------
(* Lanes that fire one query at a time *)

LEMMA Alone ==
    ASSUME TypeInv, NEW key, OneAtATime(key), NEW i \in DOMAIN calls, NEW j \in DOMAIN calls,
           Key(i) = key, Key(j) = key
    PROVE  i = j
<1>1. i \in Firing(key) /\ j \in Firing(key)
  BY DEF TypeInv, Key, Firing
<1>2. QED
  BY <1>1 DEF OneAtATime

LEMMA SameLanes ==
    ASSUME SameCalls, NEW key
    PROVE  OneAtATime(key)' = OneAtATime(key)
BY DEF SameCalls, OneAtATime, Firing, Places, Queries, Categories, KeyOf

\* A lane whose connection is left alone, and whose calls neither begin nor cease to run.
Quiet(key) ==
    /\ key \in DOMAIN clients' /\ clients'[key] = clients[key]
    /\ server'[clients[key]] = server[clients[key]]
    /\ lost'[clients[key]] = lost[clients[key]]
    /\ \A j \in DOMAIN calls :
          Key(j) = key =>
              \/ calls'[j].at = calls[j].at
              \/ /\ calls[j].at \in {"lock", "connect", "done"}
                 /\ calls'[j].at \in {"lock", "connect", "done"}

LEMMA QuietLane ==
    ASSUME SameCalls, NEW key \in DOMAIN clients, Quiet(key), LastInv(key), PaidInv(key)
    PROVE  LastInv(key)' /\ PaidInv(key)'
<1>1. /\ tick' = tick /\ DOMAIN calls' = DOMAIN calls
      /\ \A j \in DOMAIN calls : Key(j)' = Key(j)
  BY DEF SameCalls
<1>2. Busy(key)' <=> Busy(key)
  BY <1>1 DEF Busy, Quiet
<1>3. PaidInv(key)'
  BY <1>2 DEF PaidInv, Quiet
<1>4. \A j \in DOMAIN calls' :
          Key(j)' = key /\ calls'[j].at = "run" => Key(j) = key /\ calls[j].at = "run"
  BY <1>1 DEF Quiet
<1>5. LastInv(key)'
  BY <1>1, <1>4 DEF LastInv, Quiet
<1>6. QED
  BY <1>3, <1>5

\* A call changes nothing in the lanes of others.
LEMMA OthersQuiet ==
    ASSUME TypeInv, ClientsInv, NEW i \in DOMAIN calls,
           \A j \in DOMAIN calls : j # i => calls'[j] = calls[j],
           NEW pid,
           \A p \in 1..Len(server) : p # pid => server'[p] = server[p] /\ lost'[p] = lost[p],
           NEW key \in DOMAIN clients, key # Key(i), clients[key] # pid,
           key \in DOMAIN clients', clients'[key] = clients[key]
    PROVE  Quiet(key)
<1>1. clients[key] \in 1..Len(server)
  BY DEF TypeInv
<1>2. QED
  BY <1>1 DEF Quiet

LEMMA StraysQuiet ==
    ASSUME SameCalls, StraysInv, UNCHANGED clients,
           \A key \in DOMAIN clients :
              OneAtATime(key) => Quiet(key) \/ (LastInv(key)' /\ PaidInv(key)')
    PROVE  StraysInv'
<1> SUFFICES ASSUME NEW key \in DOMAIN clients, OneAtATime(key)'
             PROVE  LastInv(key)' /\ PaidInv(key)'
  BY DEF StraysInv
<1>1. OneAtATime(key)
  BY SameLanes
<1>2. LastInv(key) /\ PaidInv(key)
  BY <1>1 DEF StraysInv
<1>3. QED
  BY <1>1, <1>2, QuietLane

\* The only call of a lane ends up neither running nor about to cancel.
LEMMA LaneRests ==
    ASSUME TypeInv, SameCalls, NEW key \in DOMAIN clients, OneAtATime(key),
           NEW i \in DOMAIN calls, Key(i) = key,
           calls'[i].at \notin {"run", "cancel"}
    PROVE  /\ ~Busy(key)'
           /\ \A j \in DOMAIN calls' : Key(j)' = key => calls'[j].at # "run"
<1>1. \A j \in DOMAIN calls : Key(j) = key => j = i
  BY Alone
<1>2. DOMAIN calls' = DOMAIN calls /\ \A j \in DOMAIN calls : Key(j)' = Key(j)
  BY DEF SameCalls
<1>3. QED
  BY <1>1, <1>2 DEF Busy

\* The query of a lane goes out behind all that was sent on its connection before.
LEMMA StraysLookup ==
    ASSUME TypeInv, LockInv, ClientsInv, StatementsInv, StraysInv,
           NEW i \in DOMAIN calls, Lookup(i)
    PROVE  StraysInv'
<1>1. calls[i].at = "lock" /\ UNCHANGED <<clients, lost>>
  BY LookupSends
<1>2. CASE Moves(i, "connect") /\ UNCHANGED server
  <2>1. SameCalls /\ \A key \in DOMAIN clients : Quiet(key)
    BY <1>1, <1>2 DEF Moves, Quiet
  <2>2. QED
    BY <1>1, <2>1, StraysQuiet
<1>3. ASSUME Key(i) \in DOMAIN clients, clients[Key(i)] \in 1..Len(server),
             Sends(i, clients[Key(i)], server)
      PROVE  StraysInv'
  <2>1. PICK own \in DOMAIN clients : own = Key(i)
    BY <1>3
  <2>2. PICK pid \in 1..Len(server) : pid = clients[own]
    BY <1>3, <2>1
  <2>3. Sends(i, pid, server)
    BY <1>3, <2>1, <2>2
  <2>4. /\ SameCalls
        /\ \A j \in DOMAIN calls : j # i => calls'[j] = calls[j]
        /\ \A p \in 1..Len(server) : p # pid => server'[p] = server[p]
    BY <2>3 DEF Sends
  <2>5. \A key \in DOMAIN clients : key # own => clients[key] # pid
    BY <2>2 DEF ClientsInv
  <2>6. \A key \in DOMAIN clients : key # own => Quiet(key)
    BY <1>1, <2>1, <2>4, <2>5, OthersQuiet
  <2>7. ASSUME OneAtATime(own) PROVE Quiet(own) \/ (LastInv(own)' /\ PaidInv(own)')
    <3>1. /\ tick' = tick /\ DOMAIN calls' = DOMAIN calls
          /\ \A j \in DOMAIN calls : Key(j)' = Key(j)
          /\ \A j \in DOMAIN calls : Key(j) = own => j = i
          /\ clients' = clients /\ lost' = lost
      BY <1>1, <2>1, <2>4, <2>7, Alone DEF SameCalls
    <3>2. CASE calls'[i].at = "done" /\ server'[pid] = server[pid]
      BY <1>1, <2>2, <3>1, <3>2 DEF Quiet
    <3>3. CASE /\ calls'[i].at = "run" /\ server'[pid].cancels = server[pid].cancels
               /\ server'[pid].statements = Append(server[pid].statements, <<tick, i>>)
      <4>1. PICK old \in Seq(Statement) : old = server[pid].statements
        BY ConnectionType
      <4>2. PICK new : new = server'[pid].statements
        OBVIOUS
      <4>3. /\ Len(new) = Len(old) + 1 /\ Len(old) \in Nat /\ new # << >>
            /\ new[Len(old) + 1] = <<tick, i>>
            /\ \A j \in 1..Len(old) : new[j] = old[j]
        <5>1. <<tick, i>> \in Statement
          BY PlaceType DEF TypeInv, Statement
        <5>2. new = Append(old, <<tick, i>>)
          BY <3>3, <4>1, <4>2
        <5>3. QED
          BY <5>1, <5>2, AppendProperties
      <4>4. \A j \in 1..Len(old) : old[j][1] # tick
        <5> SUFFICES ASSUME NEW j \in 1..Len(old), old[j][1] = tick PROVE FALSE
          OBVIOUS
        <5>1. /\ old[j][2] \in DOMAIN calls
              /\ calls[old[j][2]].at \notin {"lock", "connect"}
              /\ Key(old[j][2]) \in DOMAIN clients
              /\ clients[Key(old[j][2])] = pid
          BY <4>1 DEF StatementsInv, Owned
        <5>2. Key(old[j][2]) = own
          BY <2>5, <5>1
        <5>3. old[j][2] = i
          BY <3>1, <5>1, <5>2
        <5>4. QED
          BY <1>1, <5>1, <5>3
      <4>5. ~Busy(own)
        BY <1>1, <3>1 DEF Busy
      <4>6. Busy(own)'
        BY <2>1, <3>1, <3>3 DEF Busy
      <4>7. server[pid].cancels \in Nat /\ lost[pid] \in Nat
        BY ConnectionType
      <4>8. Len(old) <= server[pid].cancels + lost[pid]
        <5>1. PaidInv(own)
          BY <2>7 DEF StraysInv
        <5>2. QED
          BY <2>2, <4>1, <4>5, <4>7, <5>1 DEF PaidInv
      <4>9. Len(new) <= server'[pid].cancels + lost'[pid] + 1
        BY <3>1, <3>3, <4>3, <4>7, <4>8
      <4>10. PaidInv(own)'
        BY <2>2, <3>1, <4>2, <4>6, <4>9 DEF PaidInv
      <4>11. \A j \in 1..Len(new) : new[j][1] = tick => j = Len(new)
        BY <4>3, <4>4
      <4>12. LastInv(own)'
        <5>1. new[Len(new)] = <<tick, i>>
          BY <4>3
        <5>2. clients'[own] = pid
          BY <2>2, <3>1
        <5>3. QED
          BY <3>1, <4>2, <4>3, <4>11, <5>1, <5>2 DEF LastInv
      <4>13. QED
        BY <4>10, <4>12
    <3>4. QED
      BY <2>3, <3>2, <3>3 DEF Sends
  <2>8. QED
    <3>1. \A key \in DOMAIN clients :
              OneAtATime(key) => Quiet(key) \/ (LastInv(key)' /\ PaidInv(key)')
      BY <2>6, <2>7
    <3>2. QED
      BY <1>1, <2>4, <3>1, StraysQuiet
<1>4. QED
  BY <1>2, <1>3, LookupSends

LEMMA StraysConnected ==
    ASSUME TypeInv, LockInv, ClientsInv, StatementsInv, StraysInv,
           NEW i \in DOMAIN calls, Connected(i)
    PROVE  StraysInv'
<1>0. PICK own : own = Key(i)
  OBVIOUS
<1>1. PICK pid : pid = Len(server) + 1
  OBVIOUS
<1>2. calls[i].at = "connect" /\ Connects(i) /\ own \notin DOMAIN clients
  BY <1>0, ConnectedConnects DEF LockInv
<1>3. /\ SameCalls
      /\ DOMAIN clients' = DOMAIN clients \cup {own}
      /\ clients'[own] = pid
      /\ \A key \in DOMAIN clients : clients'[key] = clients[key]
      /\ \A j \in DOMAIN calls : j # i => calls'[j] = calls[j]
      /\ \A p \in 1..Len(server) : server'[p] = server[p] /\ lost'[p] = lost[p]
      /\ calls'[i].at = "run"
      /\ server'[pid].statements = <<<<tick, i>>>>
      /\ server'[pid].cancels = 0 /\ lost'[pid] = 0
  <2>1. /\ SameCalls
        /\ calls'[i].at = "run"
        /\ \A j \in DOMAIN calls : j # i => calls'[j] = calls[j]
    BY <1>2 DEF Connects
  <2>2. /\ DOMAIN clients' = DOMAIN clients \cup {own}
        /\ clients'[own] = pid
        /\ \A key \in DOMAIN clients : clients'[key] = clients[key]
    BY <1>0, <1>1, <1>2 DEF Connects
  <2>3. \A p \in 1..Len(server) : server'[p] = server[p] /\ lost'[p] = lost[p]
    BY <1>2 DEF Connects
  <2>4. /\ server'[pid].statements = <<<<tick, i>>>>
        /\ server'[pid].cancels = 0 /\ lost'[pid] = 0
    BY <1>1, <1>2 DEF Connects
  <2>5. QED
    BY <2>1, <2>2, <2>3, <2>4
<1>4. \A key \in DOMAIN clients : clients[key] \in 1..Len(server) /\ clients[key] # pid
  BY <1>1 DEF TypeInv
<1>5. \A key \in DOMAIN clients : Quiet(key)
  <2> TAKE key \in DOMAIN clients
  <2>1. /\ key # Key(i) /\ clients[key] # pid
        /\ key \in DOMAIN clients' /\ clients'[key] = clients[key]
    BY <1>0, <1>2, <1>3, <1>4
  <2>2. /\ \A j \in DOMAIN calls : j # i => calls'[j] = calls[j]
        /\ \A p \in 1..Len(server) : p # pid => server'[p] = server[p] /\ lost'[p] = lost[p]
    BY <1>3
  <2>3. QED
    BY <2>1, <2>2, OthersQuiet
<1>6. ASSUME OneAtATime(own) PROVE LastInv(own)' /\ PaidInv(own)'
  <2>1. /\ tick' = tick /\ DOMAIN calls' = DOMAIN calls
        /\ \A j \in DOMAIN calls : Key(j)' = Key(j)
        /\ \A j \in DOMAIN calls : Key(j) = own => j = i
    BY <1>0, <1>3, <1>6, Alone DEF SameCalls
  <2>2. Busy(own)'
    BY <1>0, <1>3, <2>1 DEF Busy
  <2>3. PICK new : new = server'[pid].statements
    OBVIOUS
  <2>4. Len(new) = 1 /\ new # << >> /\ new[1] = <<tick, i>>
    BY <1>3, <2>3
  <2>5. PaidInv(own)'
    BY <1>3, <2>2, <2>3, <2>4 DEF PaidInv
  <2>6. LastInv(own)'
    BY <1>3, <2>1, <2>3, <2>4 DEF LastInv
  <2>7. QED
    BY <2>5, <2>6
<1>7. ASSUME NEW key \in DOMAIN clients', OneAtATime(key)'
      PROVE  LastInv(key)' /\ PaidInv(key)'
  <2>1. OneAtATime(key)
    BY <1>3, <1>7, SameLanes
  <2>2. CASE key \in DOMAIN clients
    BY <1>3, <1>5, <2>1, <2>2, QuietLane DEF StraysInv
  <2>3. CASE key = own
    BY <1>6, <2>1, <2>3
  <2>4. QED
    BY <1>3, <1>7, <2>2, <2>3
<1>8. QED
  BY <1>7 DEF StraysInv

\* A statement is given up: its call ends, and is paid for by what was lost.
LEMMA StraysGivenUp ==
    ASSUME TypeInv, ClientsInv, StraysInv, NEW i \in DOMAIN calls,
           calls[i].at \in {"run", "cancel"}, Moves(i, "done"), GivenUp(clients[Key(i)]),
           UNCHANGED <<clients, server>>
    PROVE  StraysInv'
<1>1. PICK own \in DOMAIN clients : own = Key(i)
  BY PidOf
<1>2. PICK pid \in 1..Len(server) : pid = clients[own]
  BY <1>1, PidOf
<1>3. /\ lost'[pid] = lost[pid] + 1
      /\ \A p \in 1..Len(server) : p # pid => lost'[p] = lost[p]
  BY <1>1, <1>2, GivesUp
<1>4. SameCalls /\ calls'[i].at = "done" /\ \A j \in DOMAIN calls : j # i => calls'[j] = calls[j]
  BY DEF Moves
<1>5. \A key \in DOMAIN clients : key # own => Quiet(key)
  <2>1. \A key \in DOMAIN clients : key # own => clients[key] # pid
    BY <1>2 DEF ClientsInv
  <2>2. QED
    BY <1>1, <1>3, <1>4, <2>1, OthersQuiet
<1>6. ASSUME OneAtATime(own) PROVE LastInv(own)' /\ PaidInv(own)'
  <2>1. LastInv(own) /\ PaidInv(own)
    BY <1>6 DEF StraysInv
  <2>2. ~Busy(own)' /\ \A j \in DOMAIN calls' : Key(j)' = own => calls'[j].at # "run"
    BY <1>1, <1>4, <1>6, LaneRests
  <2>3. tick' = tick /\ clients' = clients /\ server' = server
    BY <1>4 DEF SameCalls
  <2>4. LastInv(own)'
    BY <2>1, <2>2, <2>3 DEF LastInv
  <2>5. /\ Len(server[pid].statements) \in Nat /\ server[pid].cancels \in Nat
        /\ lost[pid] \in Nat
    BY ConnectionType
  <2>6. Len(server[pid].statements) <= server[pid].cancels + lost[pid] + 1
    BY <1>2, <2>1, <2>5 DEF PaidInv
  <2>7. PaidInv(own)'
    BY <1>2, <1>3, <2>2, <2>3, <2>5, <2>6 DEF PaidInv
  <2>8. QED
    BY <2>4, <2>7
<1>7. QED
  <2>1. \A key \in DOMAIN clients :
            OneAtATime(key) => Quiet(key) \/ (LastInv(key)' /\ PaidInv(key)')
    BY <1>5, <1>6
  <2>2. QED
    BY <1>4, <2>1, StraysQuiet

\* A call that times out is paid for as long as its cancel is not sent.
LEMMA StraysTimeOut ==
    ASSUME TypeInv, ClientsInv, StraysInv, NEW i \in DOMAIN calls, TimeOut(i)
    PROVE  StraysInv'
<1>0. /\ calls[i].at = "run" /\ Moves(i, "cancel")
      /\ UNCHANGED <<clients, server, lost>>
  BY TimeOutMoves
<1>1. PICK own \in DOMAIN clients : own = Key(i)
  BY <1>0, PidOf
<1>2. SameCalls /\ calls'[i].at = "cancel" /\ \A j \in DOMAIN calls : j # i => calls'[j] = calls[j]
  BY <1>0 DEF Moves
<1>3. \A key \in DOMAIN clients : key # own => Quiet(key)
  BY <1>0, <1>1, <1>2 DEF Quiet
<1>4. ASSUME OneAtATime(own) PROVE LastInv(own)' /\ PaidInv(own)'
  <2>1. LastInv(own) /\ PaidInv(own)
    BY <1>4 DEF StraysInv
  <2>2. /\ tick' = tick /\ DOMAIN calls' = DOMAIN calls
        /\ \A j \in DOMAIN calls : Key(j)' = Key(j)
        /\ \A j \in DOMAIN calls : Key(j) = own => j = i
    BY <1>1, <1>2, <1>4, Alone DEF SameCalls
  <2>3. Busy(own) /\ Busy(own)'
    BY <1>0, <1>1, <1>2, <2>2 DEF Busy
  <2>4. \A j \in DOMAIN calls' : Key(j)' = own => calls'[j].at # "run"
    BY <1>2, <2>2
  <2>5. LastInv(own)'
    BY <1>0, <2>1, <2>2, <2>4 DEF LastInv
  <2>6. PaidInv(own)'
    BY <1>0, <2>1, <2>3 DEF PaidInv
  <2>7. QED
    BY <2>5, <2>6
<1>5. QED
  <2>1. \A key \in DOMAIN clients :
            OneAtATime(key) => Quiet(key) \/ (LastInv(key)' /\ PaidInv(key)')
    BY <1>3, <1>4
  <2>2. QED
    BY <1>0, <1>2, <2>1, StraysQuiet

\* From then on it is paid for by the cancel that is under way.
LEMMA StraysSendCancel ==
    ASSUME TypeInv, ClientsInv, StatementsInv, StraysInv, NEW i \in DOMAIN calls, SendCancel(i)
    PROVE  StraysInv'
<1>0. /\ calls[i].at = "cancel" /\ Cancels(i, clients[Key(i)])
      /\ UNCHANGED <<clients, lost>>
  BY SendCancelCancels DEF SendCancel
<1>1. PICK own \in DOMAIN clients : own = Key(i)
  BY <1>0, PidOf
<1>2. PICK pid \in 1..Len(server) : pid = clients[own]
  BY <1>0, <1>1, PidOf
<1>3. /\ server'[pid].statements = server[pid].statements
      /\ server'[pid].cancels = IF server[pid].up THEN server[pid].cancels + 1
                                                  ELSE server[pid].cancels
      /\ \A p \in 1..Len(server) : p # pid => server'[p] = server[p]
      /\ SameCalls /\ calls'[i].at = "done"
      /\ \A j \in DOMAIN calls : j # i => calls'[j] = calls[j]
  BY <1>0, <1>1, <1>2 DEF Cancels, Moves
<1>4. \A key \in DOMAIN clients : key # own => Quiet(key)
  <2>1. \A key \in DOMAIN clients : key # own => clients[key] # pid
    BY <1>2 DEF ClientsInv
  <2>2. QED
    BY <1>0, <1>1, <1>3, <2>1, OthersQuiet
<1>5. ASSUME OneAtATime(own) PROVE LastInv(own)' /\ PaidInv(own)'
  <2>1. LastInv(own) /\ PaidInv(own)
    BY <1>5 DEF StraysInv
  <2>2. ~Busy(own)' /\ \A j \in DOMAIN calls' : Key(j)' = own => calls'[j].at # "run"
    BY <1>1, <1>3, <1>5, LaneRests
  <2>3. tick' = tick /\ clients' = clients /\ lost' = lost
    BY <1>0, <1>3 DEF SameCalls
  <2>4. LastInv(own)'
    BY <1>2, <1>3, <2>1, <2>2, <2>3 DEF LastInv
  <2>5. /\ Len(server[pid].statements) \in Nat /\ server[pid].cancels \in Nat
        /\ lost[pid] \in Nat
    BY ConnectionType
  <2>6. Len(server[pid].statements) <= server[pid].cancels + lost[pid] + 1
    BY <1>2, <2>1, <2>5 DEF PaidInv
  <2>7. Len(server'[pid].statements) <= server'[pid].cancels + lost'[pid]
    <3>1. CASE server[pid].up
      BY <1>3, <2>3, <2>5, <2>6, <3>1
    <3>2. CASE ~server[pid].up
      <4>1. server[pid].statements = << >>
        BY <3>2 DEF StatementsInv
      <4>2. Len(<< >>) = 0
        OBVIOUS
      <4>3. QED
        BY <1>3, <2>3, <2>5, <3>2, <4>1, <4>2
    <3>3. QED
      BY <3>1, <3>2
  <2>8. server'[pid].cancels \in Nat
    BY <1>3, <2>5
  <2>9. PaidInv(own)'
    BY <1>2, <2>2, <2>3, <2>5, <2>7, <2>8 DEF PaidInv
  <2>10. QED
    BY <2>4, <2>9
<1>6. QED
  <2>1. \A key \in DOMAIN clients :
            OneAtATime(key) => Quiet(key) \/ (LastInv(key)' /\ PaidInv(key)')
    BY <1>4, <1>5
  <2>2. QED
    BY <1>0, <1>3, <2>1, StraysQuiet

\* What the gateway does to a connection does not touch the lanes of others.
LEMMA OtherLanesQuiet ==
    ASSUME TypeInv, ClientsInv, StatementsInv, NEW pid \in 1..Len(server),
           Ends(pid) \/ Expires(pid) \/ Breaks(pid), UNCHANGED <<clients, lost>>,
           NEW key \in DOMAIN clients, clients[key] # pid
    PROVE  Quiet(key)
<1>1. server'[clients[key]] = server[clients[key]]
  BY DEF TypeInv, Ends, Expires, Breaks
<1>2. ASSUME NEW j \in DOMAIN calls, Key(j) = key PROVE calls'[j].at = calls[j].at
  <2>1. server[pid].statements \in Seq(Statement)
    BY ConnectionType
  <2>2. ASSUME NEW k \in 1..Len(server[pid].statements),
               server[pid].statements[k] = <<tick, j>>
        PROVE  FALSE
    <3>1. Owned(pid, <<tick, j>>)
      BY <2>2 DEF StatementsInv
    <3>2. clients[Key(j)] = pid
      BY <3>1 DEF Owned
    <3>3. QED
      BY <1>2, <3>2
  <2>3. <<tick, j>> \notin Elements(server[pid].statements)
    BY <2>1, <2>2 DEF Elements
  <2>4. Ends(pid) => <<tick, j>> # server[pid].statements[1]
    <3>1. Ends(pid) => 1 \in 1..Len(server[pid].statements)
      BY <2>1 DEF Ends
    <3>2. QED
      BY <2>2, <3>1
  <2>5. QED
    BY <2>3, <2>4 DEF Ends, Expires, Breaks
<1>3. QED
  BY <1>1, <1>2 DEF Quiet

\* A statement ends, because it is done or by a cancel.  When a cancel ends the one that
\* is waited for there was no other.
LEMMA StraysEnd ==
    ASSUME TypeInv, ClientsInv, StatementsInv, StraysInv, NEW pid \in 1..Len(server),
           Ends(pid), UNCHANGED <<clients, lost>>,
           \/ server'[pid].cancels = server[pid].cancels
           \/ server[pid].cancels > 0 /\ server'[pid].cancels = server[pid].cancels - 1
    PROVE  StraysInv'
<1>1. ASSUME NEW key \in DOMAIN clients, OneAtATime(key), clients[key] = pid
      PROVE  LastInv(key)' /\ PaidInv(key)'
  <2>1. LastInv(key) /\ PaidInv(key)
    BY <1>1 DEF StraysInv
  <2>2. PICK old \in Seq(Statement) : old = server[pid].statements
    BY ConnectionType
  <2>3. PICK new : new = server'[pid].statements
    OBVIOUS
  <2>4. /\ old # << >> /\ Len(old) \in Nat /\ Len(old) >= 1
        /\ Len(new) = Len(old) - 1
        /\ \A j \in 1..Len(new) : new[j] = old[j + 1]
    <3>1. old # << >> /\ new = Tail(old)
      BY <2>2, <2>3 DEF Ends
    <3>2. QED
      BY <3>1
  <2>5. /\ tick' = tick /\ DOMAIN calls' = DOMAIN calls
        /\ \A j \in DOMAIN calls : Key(j)' = Key(j)
        /\ \A j \in DOMAIN calls :
              calls'[j].at = IF calls[j].at = "run" /\ <<tick, j>> = old[1]
                             THEN "done" ELSE calls[j].at
    BY <2>2 DEF Ends, SameCalls
  <2>6. /\ \A j \in 1..Len(old) : old[j][1] = tick => j = Len(old)
        /\ \A j \in DOMAIN calls :
              Key(j) = key /\ calls[j].at = "run" => old[Len(old)] = <<tick, j>>
    BY <1>1, <2>1, <2>2 DEF LastInv
  <2>7. LastInv(key)'
    <3>1. \A j \in 1..Len(new) : j + 1 \in 1..Len(old)
      BY <2>4
    <3>2. \A j \in 1..Len(new) : new[j][1] = tick => j = Len(new)
      <4> TAKE j \in 1..Len(new)
      <4>1. new[j][1] = tick => j + 1 = Len(old)
        BY <2>4, <2>6, <3>1
      <4>2. QED
        BY <2>4, <4>1
    <3>3. ASSUME NEW j \in DOMAIN calls, Key(j) = key, calls'[j].at = "run"
          PROVE  new # << >> /\ new[Len(new)] = <<tick, j>>
      <4>1. calls[j].at = "run" /\ <<tick, j>> # old[1]
        BY <2>5, <3>3
      <4>2. old[Len(old)] = <<tick, j>>
        BY <2>6, <3>3, <4>1
      <4>3. Len(new) >= 1
        BY <2>4, <4>1, <4>2
      <4>4. Len(new) \in 1..Len(new) /\ Len(new) + 1 = Len(old)
        BY <2>4, <4>3
      <4>5. new[Len(new)] = <<tick, j>>
        BY <2>4, <4>2, <4>4
      <4>6. Len(<< >>) = 0
        OBVIOUS
      <4>7. QED
        BY <4>3, <4>5, <4>6
    <3>4. clients'[key] = pid
      BY <1>1
    <3>5. QED
      BY <2>3, <2>5, <3>2, <3>3, <3>4 DEF LastInv
  <2>8. /\ server[pid].cancels \in Nat /\ lost[pid] \in Nat
        /\ server'[pid].cancels \in Nat
    <3>1. server[pid].cancels \in Nat /\ lost[pid] \in Nat
      BY ConnectionType
    <3>2. QED
      BY <3>1
  <2>9. Len(old) <= server[pid].cancels + lost[pid] + (IF Busy(key) THEN 1 ELSE 0)
    BY <1>1, <2>1, <2>2 DEF PaidInv
  <2>10. Len(new) <= server'[pid].cancels + lost[pid] + (IF Busy(key)' THEN 1 ELSE 0)
    <3>1. CASE Busy(key)' \/ ~Busy(key)
      <4>1. Busy(key)' => Busy(key)
        BY <2>5 DEF Busy
      <4>2. Busy(key)' = Busy(key)
        BY <3>1, <4>1 DEF Busy
      <4>3. CASE Busy(key)
        BY <2>4, <2>8, <2>9, <4>2, <4>3
      <4>4. CASE ~Busy(key)
        BY <2>4, <2>8, <2>9, <4>2, <4>4
      <4>5. QED
        BY <4>3, <4>4
    <3>2. CASE ~Busy(key)' /\ Busy(key)
      <4>1. PICK i \in DOMAIN calls : Key(i) = key /\ calls[i].at \in {"run", "cancel"}
        BY <3>2 DEF Busy
      <4>2. calls'[i].at \notin {"run", "cancel"}
        BY <2>5, <3>2, <4>1 DEF Busy
      <4>3. calls[i].at = "run" /\ old[1] = <<tick, i>>
        BY <2>5, <4>1, <4>2
      <4>4. Len(old) = 1
        <5>1. 1 \in 1..Len(old) /\ old[1][1] = tick
          BY <2>4, <4>3
        <5>2. QED
          BY <2>6, <5>1
      <4>5. QED
        BY <2>4, <2>8, <3>2, <4>4
    <3>3. QED
      BY <3>1, <3>2
  <2>11. PaidInv(key)'
    BY <1>1, <2>3, <2>10 DEF PaidInv
  <2>12. QED
    BY <2>7, <2>11
<1>2. SameCalls
  BY DEF Ends
<1>3. \A key \in DOMAIN clients :
          OneAtATime(key) => Quiet(key) \/ (LastInv(key)' /\ PaidInv(key)')
  BY <1>1, OtherLanesQuiet
<1>4. QED
  BY <1>2, <1>3, StraysQuiet

\* A connection without statements owes nothing.
LEMMA StraysEmpty ==
    ASSUME TypeInv, ClientsInv, StatementsInv, StraysInv, NEW pid \in 1..Len(server),
           Expires(pid) \/ Breaks(pid), UNCHANGED <<clients, lost>>,
           server'[pid].cancels \in Nat
    PROVE  StraysInv'
<1>1. ASSUME NEW key \in DOMAIN clients, OneAtATime(key), clients[key] = pid
      PROVE  LastInv(key)' /\ PaidInv(key)'
  <2>1. LastInv(key)
    BY <1>1 DEF StraysInv
  <2>2. server'[pid].statements = << >> /\ Len(<< >>) = 0 /\ lost[pid] \in Nat
    BY ConnectionType DEF Expires, Breaks
  <2>3. PaidInv(key)'
    BY <1>1, <2>2 DEF PaidInv
  <2>4. /\ DOMAIN calls' = DOMAIN calls /\ \A j \in DOMAIN calls : Key(j)' = Key(j)
    BY DEF Expires, Breaks, SameCalls
  <2>5. ASSUME NEW j \in DOMAIN calls, Key(j) = key, calls'[j].at = "run" PROVE FALSE
    <3>1. calls[j].at = "run"
      BY <2>5 DEF Expires, Breaks
    <3>2. /\ server[pid].statements # << >>
          /\ server[pid].statements[Len(server[pid].statements)] = <<tick, j>>
      BY <1>1, <2>1, <2>5, <3>1 DEF LastInv
    <3>3. <<tick, j>> \in Elements(server[pid].statements)
      <4>1. server[pid].statements \in Seq(Statement)
        BY ConnectionType
      <4>2. Len(server[pid].statements) \in DOMAIN server[pid].statements
        BY <3>2, <4>1
      <4>3. QED
        BY <3>2, <4>2 DEF Elements
    <3>4. QED
      BY <2>5, <3>1, <3>2, <3>3 DEF Expires, Breaks
  <2>6. clients'[key] = pid
    BY <1>1
  <2>7. LastInv(key)'
    BY <2>2, <2>4, <2>5, <2>6 DEF LastInv
  <2>8. QED
    BY <2>3, <2>7
<1>2. SameCalls
  BY DEF Expires, Breaks
<1>3. \A key \in DOMAIN clients :
          OneAtATime(key) => Quiet(key) \/ (LastInv(key)' /\ PaidInv(key)')
  BY <1>1, OtherLanesQuiet
<1>4. QED
  BY <1>2, <1>3, StraysQuiet

LEMMA NextStrays ==
    TypeInv /\ LockInv /\ ClientsInv /\ StatementsInv /\ StraysInv /\ [Next]_vars => StraysInv'
<1> SUFFICES ASSUME TypeInv, LockInv, ClientsInv, StatementsInv, StraysInv, [Next]_vars
             PROVE  StraysInv'
  OBVIOUS
<1>1. CASE Fire
  <2>1. /\ AllDone /\ tick' = tick + 1 /\ tick \in Nat /\ workload' = workload
        /\ UNCHANGED <<clients, server, lost>>
        /\ DOMAIN calls' = Places
        /\ \A j \in Places : calls'[j].at = "lock"
    BY <1>1, FireStarts DEF TypeInv
  <2>2. ASSUME NEW key \in DOMAIN clients, OneAtATime(key)'
        PROVE  LastInv(key)' /\ PaidInv(key)'
    <3>1. OneAtATime(key)
      <4>1. Places' = Places /\ \A c : Queries(c)' = Queries(c)
        BY <2>1 DEF Places, Queries, Categories
      <4>2. Firing(key)' = Firing(key)
        BY <4>1 DEF Firing, KeyOf
      <4>3. QED
        BY <2>2, <4>1, <4>2 DEF OneAtATime
    <3>2. ~Busy(key) /\ ~Busy(key)'
      BY <2>1 DEF AllDone, Busy
    <3>3. PaidInv(key)'
      BY <2>1, <3>1, <3>2 DEF StraysInv, PaidInv
    <3>4. clients[key] \in 1..Len(server)
      BY DEF TypeInv
    <3>5. \A j \in 1..Len(server[clients[key]].statements) :
              server[clients[key]].statements[j][1] # tick'
      <4>1. \A j \in 1..Len(server[clients[key]].statements) :
                /\ server[clients[key]].statements[j][1] \in Nat
                /\ server[clients[key]].statements[j][1] <= tick
        BY <3>4, ConnectionType DEF StatementsInv, Owned
      <4>2. QED
        BY <2>1, <4>1
    <3>6. LastInv(key)'
      BY <2>1, <3>5 DEF LastInv
    <3>7. QED
      BY <3>3, <3>6
  <2>3. QED
    BY <2>1, <2>2 DEF StraysInv
<1>2. ASSUME NEW i \in DOMAIN calls, Lookup(i) PROVE StraysInv'
  BY <1>2, StraysLookup
<1>3. ASSUME NEW i \in DOMAIN calls, Connected(i) PROVE StraysInv'
  BY <1>3, StraysConnected
<1>4. ASSUME NEW i \in DOMAIN calls, NotConnected(i) PROVE StraysInv'
  <2>1. /\ calls[i].at = "connect" /\ Moves(i, "done")
        /\ UNCHANGED <<clients, server, lost>>
    BY <1>4, NotConnectedFails
  <2>2. SameCalls /\ \A key \in DOMAIN clients : Quiet(key)
    BY <2>1 DEF Moves, Quiet
  <2>3. QED
    BY <2>1, <2>2, StraysQuiet
<1>5. ASSUME NEW i \in DOMAIN calls, TimeOut(i) PROVE StraysInv'
  BY <1>5, StraysTimeOut
<1>6. ASSUME NEW i \in DOMAIN calls, SendCancel(i) PROVE StraysInv'
  BY <1>6, StraysSendCancel
<1>7. ASSUME NEW i \in DOMAIN calls, CancelFails(i) PROVE StraysInv'
  BY <1>7, CancelFailsMoves, StraysGivenUp
<1>8. ASSUME NEW i \in DOMAIN calls, Drop(i) PROVE StraysInv'
  <2>1. /\ Moves(i, "done") /\ UNCHANGED <<clients, server>>
        /\ \/ calls[i].at \in {"run", "cancel"} /\ GivenUp(clients[Key(i)])
           \/ calls[i].at \in {"lock", "connect"} /\ lost' = lost
    BY <1>8, DropMoves
  <2>2. CASE calls[i].at \in {"run", "cancel"} /\ GivenUp(clients[Key(i)])
    BY <2>1, <2>2, StraysGivenUp
  <2>3. CASE calls[i].at \in {"lock", "connect"} /\ lost' = lost
    <3>1. SameCalls /\ \A key \in DOMAIN clients : Quiet(key)
      BY <2>1, <2>3 DEF Moves, Quiet
    <3>2. QED
      BY <2>1, <3>1, StraysQuiet
  <2>4. QED
    BY <2>1, <2>2, <2>3
<1>9. ASSUME NEW pid \in DOMAIN server, Finish(pid) PROVE StraysInv'
  BY <1>9, FinishEnds, StraysEnd
<1>10. ASSUME NEW pid \in DOMAIN server, CancelArrives(pid) PROVE StraysInv'
  <2>1. /\ pid \in 1..Len(server)
        /\ Ends(pid) \/ Expires(pid)
        /\ server[pid].cancels > 0 /\ server'[pid].cancels = server[pid].cancels - 1
        /\ UNCHANGED <<clients, lost>>
    BY <1>10, CancelEnds
  <2>2. server[pid].cancels - 1 \in Nat
    BY <2>1, ConnectionType
  <2>3. QED
    BY <2>1, <2>2, StraysEnd, StraysEmpty
<1>11. ASSUME NEW pid \in DOMAIN server, Break(pid) PROVE StraysInv'
  <2>1. pid \in 1..Len(server) /\ Breaks(pid) /\ UNCHANGED <<clients, lost>>
    BY <1>11, BreakBreaks
  <2>2. server'[pid].cancels \in Nat
    BY <2>1 DEF Breaks
  <2>3. QED
    BY <2>1, <2>2, StraysEmpty
<1>12. CASE UNCHANGED vars
  BY <1>12 DEF vars, loopVars, histVars, StraysInv, LastInv, PaidInv, Busy, OneAtATime,
               Firing, Places, Queries, Categories, Key
<1>13. QED
  BY <1>1, <1>2, <1>3, <1>4, <1>5, <1>6, <1>7, <1>8, <1>9, <1>10, <1>11, <1>12 DEF Next

LEMMA InitStrays == Init => StatementsInv /\ StraysInv
<1>1. Len(<< >>) = 0 /\ DOMAIN << >> = {}
  OBVIOUS
<1>2. QED
  BY <1>1 DEF Init, StatementsInv, StraysInv

\* What is left over at the gateway is counted statement by statement.
LEMMA StraysCounted ==
    ASSUME TypeInv, StraysInv, ClientsInv, NEW key \in DOMAIN clients, OneAtATime(key)
    PROVE  Stray(clients[key]) <= CancelsUnderWay(clients[key]) + lost[clients[key]]
<1>1. PICK pid \in 1..Len(server) : pid = clients[key]
  BY DEF TypeInv
<1>2. PICK statements \in Seq(Statement) : statements = server[pid].statements
  BY ConnectionType
<1>3. PICK strays : strays = {j \in 1..Len(statements) : ~Awaited(statements[j])}
  OBVIOUS
<1>4. PICK cancelling : cancelling = {i \in DOMAIN calls : calls[i].at = "cancel"
                                                          /\ clients[Key(i)] = pid}
  OBVIOUS
<1>5. /\ Stray(pid) = Cardinality(strays)
      /\ CancelsUnderWay(pid) = server[pid].cancels + Cardinality(cancelling)
  <2>1. DOMAIN statements = 1..Len(statements)
    OBVIOUS
  <2>2. strays = {j \in DOMAIN server[pid].statements : ~Awaited(server[pid].statements[j])}
    BY <1>2, <1>3, <2>1
  <2>3. Stray(pid) = Cardinality(strays)
    BY <2>2 DEF Stray
  <2>4. QED
    BY <1>4, <2>3 DEF CancelsUnderWay
<1>6. /\ Len(statements) \in Nat /\ server[pid].cancels \in Nat /\ lost[pid] \in Nat
      /\ Len(statements) <= server[pid].cancels + lost[pid] + (IF Busy(key) THEN 1 ELSE 0)
      /\ LastInv(key)
  BY <1>1, <1>2, ConnectionType DEF StraysInv, PaidInv
<1>7. \A n \in Nat : strays \subseteq 1..n => Cardinality(strays) \in Nat /\ Cardinality(strays) <= n
  <2> SUFFICES ASSUME NEW n \in Nat, strays \subseteq 1..n
               PROVE  Cardinality(strays) \in Nat /\ Cardinality(strays) <= n
    OBVIOUS
  <2>1. IsFiniteSet(1..n) /\ Cardinality(1..n) = n
    BY FS_Interval
  <2>2. QED
    BY <2>1, FS_Subset, FS_CardinalityType
<1>8. \A i \in cancelling : Key(i) = key
  BY <1>1, <1>4 DEF ClientsInv
<1>9. CASE \E i \in DOMAIN calls : Key(i) = key /\ calls[i].at = "run"
  <2>1. PICK i \in DOMAIN calls : Key(i) = key /\ calls[i].at = "run"
    BY <1>9
  <2>2. cancelling = {}
    BY <1>4, <1>8, <2>1, Alone
  <2>3. statements # << >> /\ statements[Len(statements)] = <<tick, i>>
    BY <1>1, <1>2, <1>6, <2>1 DEF LastInv
  <2>4. Awaited(statements[Len(statements)])
    BY <2>1, <2>3 DEF Awaited
  <2>5. Len(statements) - 1 \in Nat
    BY <1>2, <2>3
  <2>6. strays \subseteq 1..(Len(statements) - 1)
    BY <1>3, <1>6, <2>4
  <2>7. Cardinality(cancelling) = 0
    BY <2>2, FS_EmptySet
  <2>8. Cardinality(strays) \in Nat /\ Cardinality(strays) <= Len(statements) - 1
    BY <1>7, <2>5, <2>6
  <2>9. Len(statements) - 1 <= server[pid].cancels + lost[pid]
    BY <1>6
  <2>10. QED
    BY <1>1, <1>5, <1>6, <2>7, <2>8, <2>9
<1>10. CASE \E i \in DOMAIN calls : Key(i) = key /\ calls[i].at = "cancel"
  <2>1. PICK i \in DOMAIN calls : Key(i) = key /\ calls[i].at = "cancel"
    BY <1>10
  <2>2. cancelling = {i}
    BY <1>1, <1>4, <1>8, <2>1, Alone
  <2>3. Cardinality(cancelling) = 1
    BY <2>2, FS_Singleton
  <2>4. Cardinality(strays) \in Nat /\ Cardinality(strays) <= Len(statements)
    BY <1>3, <1>6, <1>7
  <2>5. Len(statements) <= server[pid].cancels + lost[pid] + 1
    BY <1>6
  <2>6. QED
    BY <1>1, <1>5, <1>6, <2>3, <2>4, <2>5
<1>11. CASE ~Busy(key)
  <2>1. cancelling = {}
    BY <1>4, <1>8, <1>11 DEF Busy
  <2>2. Cardinality(cancelling) = 0
    BY <2>1, FS_EmptySet
  <2>3. Cardinality(strays) \in Nat /\ Cardinality(strays) <= Len(statements)
    BY <1>3, <1>6, <1>7
  <2>4. QED
    BY <1>1, <1>5, <1>6, <1>11, <2>2, <2>3
<1>12. QED
  BY <1>9, <1>10, <1>11 DEF Busy

\* Where one query of a lane is fired at a time, the gateway executes no more statements
\* that nobody waits for than there are cancels under way or recorded losses
\* (Mach5Adapter::execute_sql_query and its timeout).
THEOREM StraysAlwaysCancelled == Spec => []StraysAreCancelled
<1>1. TypeInv /\ ClientsInv /\ StraysInv => StraysAreCancelled
  BY StraysCounted DEF StraysAreCancelled
<1>2. Spec => [](TypeInv /\ LockInv /\ ClientsInv /\ StatementsInv /\ StraysInv)
  BY InitType, InitLanes, InitStrays, NextType, NextLanes, NextStatements, NextStrays,
     PTL DEF Spec
<1>3. QED
  BY <1>1, <1>2, PTL

=============================================================================

------------------------ MODULE WorkerMetricsProofs ------------------------
(***************************************************************************)
(* Proofs about WorkerMetrics, for any set of kinds, any capacity of the   *)
(* channel and any number of retries and operations: its types, that       *)
(* nothing is counted twice, and that nothing is lost but where a log says *)
(* so.                                                                     *)
(*                                                                         *)
(* The aggregator's side is a sum over the wire and the queue, a recursive *)
(* function.  What it computes is proved by induction on the length, with  *)
(* the least element of a set of counterexamples.                          *)
(***************************************************************************)
EXTENDS WorkerMetrics, WellFoundedInduction, SequenceTheorems, TLAPS

(* Induction *)

LEMMA LeastNumber ==
  ASSUME NEW T, T \subseteq Nat, T # {}
  PROVE  \E n \in T : \A m \in T : n <= m
<1> DEFINE Less == OpToRel(<, Nat)
<1>1. IsWellFoundedOn(Less, Nat)
  BY NatLessThanWellFounded
<1>2. \A m, n \in Nat : m < n => <<m, n>> \in Less
  <2>1. Less = {ss \in Nat \X Nat : ss[1] < ss[2]}
    BY Zenon DEF OpToRel
  <2> HIDE DEF Less
  <2> QED BY <2>1
<1> HIDE DEF Less
<1>3. PICK n \in T : \A m \in T : <<m, n>> \notin Less
  BY <1>1, WFMin
<1>4. \A m \in T : ~(m < n)
  BY <1>2, <1>3
<1> QED BY <1>4

\* A property of numbers is the set of those that have it.
LEMMA Induction ==
  ASSUME NEW T, 0 \in T, \A n \in Nat : n \in T => n + 1 \in T
  PROVE  \A n \in Nat : n \in T
<1> SUFFICES ASSUME Nat \ T # {} PROVE FALSE
  OBVIOUS
<1>1. PICK n \in Nat \ T : \A m \in Nat \ T : n <= m
  BY LeastNumber
<1>2. n # 0 /\ n - 1 \in Nat /\ n - 1 \notin Nat \ T
  BY <1>1
<1> QED BY <1>1, <1>2
-----------------------------------------------------------------------------
(* Accounts *)

LEMMA PlusType ==
  ASSUME NEW a \in Account, NEW b \in Account
  PROVE  Plus(a, b) \in Account
  BY DEF Plus, Account

LEMMA NothingType == Nothing \in Account
  BY DEF Nothing, NoCount, Account

LEMMA SnapshotType ==
  ASSUME NEW a \in Account
  PROVE  Snapshot(a) \in Account
  BY DEF Snapshot, ByKind, NoCount, Account

LEMMA AddedType ==
  ASSUME NEW a \in Account, NEW k \in Kinds, NEW outcome
  PROVE  Added(a, k, outcome) \in Account
  BY DEF Added, AddIf, Account

\* What the properties compare: operations, errors and the timeouts of each kind.
Same(a, b) ==
    /\ a.ops = b.ops /\ a.errors = b.errors
    /\ \A k \in Kinds : a.timeouts[k] = b.timeouts[k]

NoMore(a, b) ==
    /\ a.ops <= b.ops /\ a.errors <= b.errors
    /\ \A k \in Kinds : a.timeouts[k] <= b.timeouts[k]

LEMMA SnapshotSame ==
  ASSUME NEW a \in Account
  PROVE  Same(Snapshot(a), a)
  BY DEF Snapshot, ByKind, NoCount, Account, Same

LEMMA PlusMonotone ==
  ASSUME NEW a \in Account, NEW b \in Account, NEW c \in Account, NoMore(a, b)
  PROVE  NoMore(Plus(a, c), Plus(b, c))
  BY DEF Plus, Account, NoMore

LEMMA PlusIsMore ==
  ASSUME NEW a \in Account, NEW b \in Account
  PROVE  NoMore(a, Plus(a, b))
  BY DEF Plus, Account, NoMore

LEMMA NoMoreTransitive ==
  ASSUME NEW a \in Account, NEW b \in Account, NEW c \in Account,
         NoMore(a, b), NoMore(b, c)
  PROVE  NoMore(a, c)
  BY DEF Account, NoMore

LEMMA NoMoreReflexive ==
  ASSUME NEW a \in Account
  PROVE  NoMore(a, a)
  BY DEF Account, NoMore
-----------------------------------------------------------------------------
(* Sums of accounts *)

\* The sums of the account and the first n others, for each n up to the bound.
PartialSums(f, account, others, bound) ==
    /\ f \in [0..bound -> Account]
    /\ f[0] = account
    /\ \A n \in 1..bound : f[n] = Plus(f[n - 1], others[n])

LEMMA PartialSumsExist ==
  ASSUME NEW a \in Account, NEW s \in Seq(Account)
  PROVE  \E f : PartialSums(f, a, s, Len(s))
<1> DEFINE T == {n \in Nat : n <= Len(s) => \E f : PartialSums(f, a, s, n)}
<1>1. 0 \in T
  <2>1. PartialSums([n \in 0..0 |-> a], a, s, 0)
    BY DEF PartialSums
  <2> QED BY <2>1
<1>2. ASSUME NEW n \in Nat, n \in T PROVE n + 1 \in T
  <2> SUFFICES ASSUME n + 1 <= Len(s) PROVE \E f : PartialSums(f, a, s, n + 1)
    OBVIOUS
  <2>1. PICK f : PartialSums(f, a, s, n)
    BY <1>2
  <2> DEFINE g == [i \in 0..(n + 1) |-> IF i = n + 1 THEN Plus(f[n], s[n + 1]) ELSE f[i]]
  <2>2. s[n + 1] \in Account /\ f[n] \in Account
    BY <2>1 DEF PartialSums
  <2>3. g \in [0..(n + 1) -> Account] /\ g[0] = a
    BY <2>1, <2>2, PlusType DEF PartialSums
  <2>4. \A i \in 1..(n + 1) : g[i] = Plus(g[i - 1], s[i])
    BY <2>1 DEF PartialSums
  <2>5. PartialSums(g, a, s, n + 1)
    BY <2>3, <2>4 DEF PartialSums
  <2> QED BY <2>5
<1> HIDE DEF T
<1>3. \A n \in Nat : n \in T
  BY <1>1, <1>2, Induction
<1>4. Len(s) \in Nat
  BY LenProperties
<1> QED BY <1>3, <1>4 DEF T

LEMMA PartialSumsUnique ==
  ASSUME NEW a \in Account, NEW s \in Seq(Account), NEW f, NEW g,
         PartialSums(f, a, s, Len(s)),
         g[0] = a, \A n \in 1..Len(s) : g[n] = Plus(g[n - 1], s[n])
  PROVE  g[Len(s)] = f[Len(s)]
<1> DEFINE T == {n \in Nat : n <= Len(s) => g[n] = f[n]}
<1>1. 0 \in T
  BY DEF PartialSums
<1>2. ASSUME NEW n \in Nat, n \in T PROVE n + 1 \in T
  <2> SUFFICES ASSUME n + 1 <= Len(s) PROVE g[n + 1] = f[n + 1]
    OBVIOUS
  <2>1. g[n] = f[n] /\ n + 1 \in 1..Len(s) /\ (n + 1) - 1 = n
    BY <1>2, LenProperties
  <2> QED BY <2>1 DEF PartialSums
<1> HIDE DEF T
<1>3. \A n \in Nat : n \in T
  BY <1>1, <1>2, Induction
<1>4. Len(s) \in Nat
  BY LenProperties
<1> QED BY <1>3, <1>4 DEF T

\* Total is the last of the partial sums.
LEMMA TotalIsSum ==
  ASSUME NEW a \in Account, NEW s \in Seq(Account), NEW f, PartialSums(f, a, s, Len(s))
  PROVE  Total(a, s) = f[Len(s)]
<1> DEFINE IsSums(h) == h = [n \in 0..Len(s) |->
                                IF n = 0 THEN a ELSE Plus(h[n - 1], s[n])]
           g == CHOOSE h : IsSums(h)
<1>1. Len(s) \in Nat
  BY LenProperties
<1>2. IsSums(f)
  BY <1>1 DEF PartialSums
<1>3. IsSums(g)
  BY <1>2
<1>4. Total(a, s) = g[Len(s)]
  BY DEF Total
<1> HIDE DEF g
<1>5. g[0] = a /\ \A n \in 1..Len(s) : g[n] = Plus(g[n - 1], s[n])
  BY <1>1, <1>3
<1>6. g[Len(s)] = f[Len(s)]
  BY <1>5, PartialSumsUnique
<1> QED BY <1>4, <1>6

LEMMA TotalType ==
  ASSUME NEW a \in Account, NEW s \in Seq(Account)
  PROVE  Total(a, s) \in Account
<1>1. PICK f : PartialSums(f, a, s, Len(s))
  BY PartialSumsExist
<1>2. Len(s) \in 0..Len(s)
  BY LenProperties
<1> QED BY <1>1, <1>2, TotalIsSum DEF PartialSums

LEMMA TotalOfNone ==
  ASSUME NEW a \in Account
  PROVE  Total(a, << >>) = a
<1> DEFINE s == << >>
<1>1. Len(s) = 0 /\ s \in Seq(Account)
  OBVIOUS
<1> HIDE DEF s
<1>2. PICK f : PartialSums(f, a, s, Len(s))
  BY <1>1, PartialSumsExist
<1>3. Total(a, s) = a
  BY <1>1, <1>2, TotalIsSum DEF PartialSums
<1> QED BY <1>3 DEF s

LEMMA TotalAppend ==
  ASSUME NEW a \in Account, NEW s \in Seq(Account), NEW b \in Account
  PROVE  Total(a, Append(s, b)) = Plus(Total(a, s), b)
<1> DEFINE t == Append(s, b)
<1>1. PICK f : PartialSums(f, a, t, Len(t))
  BY PartialSumsExist, AppendProperties
<1>2. /\ t \in Seq(Account) /\ Len(s) \in Nat /\ Len(t) = Len(s) + 1 /\ t[Len(s) + 1] = b
      /\ \A n \in 1..Len(s) : t[n] = s[n]
  BY AppendProperties, LenProperties
<1> HIDE DEF t
<1> DEFINE g == [n \in 0..Len(s) |-> f[n]]
<1>3. PartialSums(g, a, s, Len(s))
  BY <1>1, <1>2 DEF PartialSums
<1>4. g[Len(s)] = f[Len(s)] /\ f[Len(t)] = Plus(f[Len(s)], b)
  BY <1>1, <1>2 DEF PartialSums
<1> HIDE DEF g
<1>5. Total(a, s) = g[Len(s)]
  BY <1>3, TotalIsSum
<1>6. Total(a, t) = f[Len(t)]
  BY <1>1, <1>2, TotalIsSum
<1> QED BY <1>4, <1>5, <1>6 DEF t

LEMMA TotalOfTail ==
  ASSUME NEW a \in Account, NEW s \in Seq(Account), s # << >>
  PROVE  Total(Plus(a, Head(s)), Tail(s)) = Total(a, s)
<1> DEFINE t == Tail(s)
           b == Plus(a, Head(s))
<1>1. PICK f : PartialSums(f, a, s, Len(s))
  BY PartialSumsExist
<1>2. /\ t \in Seq(Account) /\ Len(t) \in Nat /\ Len(s) = Len(t) + 1
      /\ \A n \in 1..Len(t) : t[n] = s[n + 1]
      /\ Head(s) = s[1] /\ Head(s) \in Account
  BY HeadTailProperties, LenProperties
<1>3. b \in Account /\ b = Plus(a, s[1])
  BY <1>2, PlusType
<1> HIDE DEF t, b
<1> DEFINE g == [n \in 0..Len(t) |-> f[n + 1]]
<1>4. g \in [0..Len(t) -> Account] /\ g[0] = b
  BY <1>1, <1>2, <1>3 DEF PartialSums
<1>5. \A n \in 1..Len(t) : g[n] = Plus(g[n - 1], t[n])
  BY <1>1, <1>2 DEF PartialSums
<1>6. g[Len(t)] = f[Len(s)]
  BY <1>2
<1> HIDE DEF g
<1>7. Total(b, t) = g[Len(t)]
  <2>1. PartialSums(g, b, t, Len(t))
    BY <1>4, <1>5 DEF PartialSums
  <2> QED BY <1>2, <1>3, <2>1, TotalIsSum
<1>8. Total(a, s) = f[Len(s)]
  BY <1>1, TotalIsSum
<1> QED BY <1>6, <1>7, <1>8 DEF t, b

\* A sum has at least what is in its first account.
LEMMA TotalMonotone ==
  ASSUME NEW a \in Account, NEW b \in Account, NEW s \in Seq(Account), NoMore(a, b)
  PROVE  NoMore(Total(a, s), Total(b, s)) /\ NoMore(a, Total(b, s))
<1>1. PICK f : PartialSums(f, a, s, Len(s))
  BY PartialSumsExist
<1>2. PICK g : PartialSums(g, b, s, Len(s))
  BY PartialSumsExist
<1>3. Len(s) \in Nat
  BY LenProperties
<1> DEFINE T == {n \in Nat : n <= Len(s) => NoMore(f[n], g[n]) /\ NoMore(a, g[n])}
<1>4. 0 \in T
  BY <1>1, <1>2 DEF PartialSums
<1>5. ASSUME NEW n \in Nat, n \in T PROVE n + 1 \in T
  <2> SUFFICES ASSUME n + 1 <= Len(s)
               PROVE  NoMore(f[n + 1], g[n + 1]) /\ NoMore(a, g[n + 1])
    OBVIOUS
  <2>1. /\ f[n] \in Account /\ g[n] \in Account /\ s[n + 1] \in Account
        /\ f[n + 1] = Plus(f[n], s[n + 1]) /\ g[n + 1] = Plus(g[n], s[n + 1])
    BY <1>1, <1>2, <1>3 DEF PartialSums
  <2>2. NoMore(f[n], g[n]) /\ NoMore(a, g[n])
    BY <1>3, <1>5
  <2>3. NoMore(f[n + 1], g[n + 1])
    BY <2>1, <2>2, PlusMonotone
  <2>4. NoMore(g[n], g[n + 1]) /\ g[n + 1] \in Account
    BY <2>1, PlusIsMore, PlusType
  <2> QED BY <2>1, <2>2, <2>3, <2>4, NoMoreTransitive
<1> HIDE DEF T
<1>6. \A n \in Nat : n \in T
  BY <1>4, <1>5, Induction
<1>7. NoMore(f[Len(s)], g[Len(s)]) /\ NoMore(a, g[Len(s)])
  BY <1>3, <1>6 DEF T
<1> QED BY <1>1, <1>2, <1>7, TotalIsSum
-----------------------------------------------------------------------------
(* What is on its way *)

LEMMA ReportedType ==
  ASSUME TypeOK
  PROVE  Total(received, wire) \in Account /\ Reported \in Account
  BY TotalType DEF TypeOK, Reported

\* A snapshot that the channel takes is reported; one that it refuses is logged.
LEMMA SentIsReported ==
  ASSUME TypeOK, NEW a \in Account, TrySend(a), UNCHANGED <<received, wire>>
  PROVE  \/ Reported' = Plus(Reported, a) /\ UNCHANGED refused
         \/ Reported' = Reported /\ refused'
<1>1. Total(received, wire) \in Account /\ queue \in Seq(Account)
  BY ReportedType DEF TypeOK
<1>2. CASE queue' = Append(queue, a) /\ UNCHANGED refused
  <2>1. Total(Total(received, wire), Append(queue, a)) = Plus(Total(Total(received, wire), queue), a)
    BY <1>1, TotalAppend
  <2> QED BY <1>2, <2>1 DEF Reported
<1>3. CASE refused' = TRUE /\ UNCHANGED queue
  BY <1>3 DEF Reported
<1> QED BY <1>2, <1>3 DEF TrySend

LEMMA YieldedIsReported ==
  ASSUME TypeOK, Yield
  PROVE  Reported' = Reported
<1>1. /\ queue \in Seq(Account) /\ queue # << >> /\ wire \in Seq(Account)
      /\ received \in Account /\ Head(queue) \in Account
      /\ wire' = Append(wire, Head(queue)) /\ queue' = Tail(queue) /\ received' = received
  BY HeadTailProperties DEF TypeOK, Yield, Take
<1>2. Total(received, wire) \in Account
  BY ReportedType
<1>3. Total(received, Append(wire, Head(queue))) = Plus(Total(received, wire), Head(queue))
  BY <1>1, TotalAppend
<1>4. Total(Plus(Total(received, wire), Head(queue)), Tail(queue)) = Total(Total(received, wire), queue)
  BY <1>1, <1>2, TotalOfTail
<1> QED BY <1>1, <1>3, <1>4 DEF Reported

LEMMA DeliveredIsReported ==
  ASSUME TypeOK, Deliver
  PROVE  Reported' = Reported
<1>1. /\ wire \in Seq(Account) /\ wire # << >> /\ received \in Account
      /\ wire' = Tail(wire) /\ received' = Plus(received, Head(wire)) /\ queue' = queue
  BY DEF TypeOK, Deliver
<1>2. Total(Plus(received, Head(wire)), Tail(wire)) = Total(received, wire)
  BY <1>1, TotalOfTail
<1> QED BY <1>1, <1>2 DEF Reported

\* Whatever is lost, in the channel, on the wire or both, nothing is reported twice.
LEMMA LossIsNoMore ==
  ASSUME TypeOK, UNCHANGED received, queue' \in {queue, << >>}, wire' \in {wire, << >>}
  PROVE  NoMore(Reported', Reported)
<1>1. /\ received \in Account /\ wire \in Seq(Account) /\ queue \in Seq(Account)
      /\ << >> \in Seq(Account)
  BY DEF TypeOK
<1> DEFINE before == Total(received, wire)
           after  == Total(received, wire')
<1>2. before \in Account /\ after \in Account
  BY <1>1, TotalType
<1>3. NoMore(after, before)
  <2>1. CASE wire' = wire
    BY <2>1, <1>2, NoMoreReflexive
  <2>2. CASE wire' = << >>
    BY <2>2, <1>1, TotalOfNone, NoMoreReflexive, TotalMonotone
  <2> QED BY <2>1, <2>2
<1> HIDE DEF before, after
<1>4. NoMore(Total(after, queue), Total(before, queue)) /\ NoMore(after, Total(before, queue))
  BY <1>1, <1>2, <1>3, TotalMonotone
<1>5. Total(after, << >>) = after
  BY <1>2, TotalOfNone
<1>6. Reported = Total(before, queue) /\ Reported' = Total(after, queue')
  BY DEF Reported, before, after
<1> QED BY <1>4, <1>5, <1>6
-----------------------------------------------------------------------------
(* The types *)

LEMMA TrySendType ==
  ASSUME TypeOK, NEW a \in Account, TrySend(a)
  PROVE  queue' \in Seq(Account) /\ Len(queue') <= ChannelCapacity /\ refused' \in BOOLEAN
<1>1. CASE Len(queue) < ChannelCapacity /\ queue' = Append(queue, a) /\ UNCHANGED refused
  BY <1>1, AppendProperties, BoundsAssumption DEF TypeOK
<1>2. CASE refused' = TRUE /\ UNCHANGED queue
  BY <1>2 DEF TypeOK
<1> QED BY <1>1, <1>2 DEF TrySend

LEMMA LoopType ==
  ASSUME TypeOK, Loop
  PROVE  TypeOK'
<1>1. Nothing \in Account /\ Snapshot(open) \in Account
  BY NothingType, SnapshotType DEF TypeOK
<1>2. ASSUME FirstPhase \/ SecondGoesOn \/ KeepWorking PROVE TypeOK'
  BY <1>2 DEF FirstPhase, SecondGoesOn, KeepWorking, Goto, senderVars, TypeOK
<1>3. ASSUME EndSecond PROVE TypeOK'
  <2>1. queue' \in Seq(Account) /\ Len(queue') <= ChannelCapacity /\ refused' \in BOOLEAN
    BY <1>1, <1>3, TrySendType DEF EndSecond
  <2> QED BY <1>1, <1>3, <2>1 DEF EndSecond, Goto, Reset, senderVars, TypeOK
<1>4. ASSUME RunComplete PROVE TypeOK'
  <2>1. queue' \in Seq(Account) /\ Len(queue') <= ChannelCapacity /\ refused' \in BOOLEAN
    <3>1. CASE TrySend(Snapshot(open))
      BY <1>1, <3>1, TrySendType
    <3>2. CASE UNCHANGED <<queue, refused>>
      BY <3>2 DEF TypeOK
    <3> QED BY <1>4, <3>1, <3>2 DEF RunComplete, Flush
  <2> QED BY <1>1, <1>4, <2>1 DEF RunComplete, Goto, senderVars, TypeOK
<1>5. ASSUME NEW k \in Kinds, NEW outcome, Execute(k, outcome) PROVE TypeOK'
  <2>1. Added(open, k, outcome) \in Account /\ Added(executed, k, outcome) \in Account
    BY AddedType DEF TypeOK
  <2> QED BY <1>5, <2>1 DEF Execute, senderVars, TypeOK
<1>6. ASSUME Exit PROVE TypeOK'
  BY <1>6, BoundsAssumption DEF Exit, Goto, TypeOK
<1> QED BY <1>2, <1>3, <1>4, <1>5, <1>6 DEF Loop

LEMMA RetryType ==
  ASSUME TypeOK, Retry
  PROVE  /\ queue' \in {queue, << >>} /\ queue' \in Seq(Account) /\ Len(queue') <= ChannelCapacity
         /\ sender' \in {"connecting", "ended"} /\ attempt' \in 1..MaxRetries
         /\ sender' = "connecting" => queue' = queue
<1>1. /\ << >> \in Seq(Account) /\ Len(<< >>) = 0 /\ Len(<< >>) <= ChannelCapacity
      /\ attempt \in 1..MaxRetries /\ MaxRetries \in Nat
      /\ queue \in Seq(Account) /\ Len(queue) <= ChannelCapacity
  BY BoundsAssumption DEF TypeOK
<1>2. CASE attempt = MaxRetries /\ sender' = "ended" /\ queue' = << >> /\ UNCHANGED attempt
  BY <1>1, <1>2
<1>3. CASE attempt # MaxRetries /\ sender' = "connecting" /\ attempt' = attempt + 1 /\ UNCHANGED queue
  BY <1>1, <1>3
<1> QED BY <1>2, <1>3 DEF Retry

LEMMA StreamingType ==
  ASSUME TypeOK, Streaming
  PROVE  TypeOK'
<1>1. ASSUME Connect \/ StreamEnds PROVE TypeOK'
  BY <1>1 DEF Connect, StreamEnds, loopVars, TypeOK
<1>2. ASSUME ConnectFails PROVE TypeOK'
  BY <1>2, RetryType DEF ConnectFails, loopVars, TypeOK
<1>3. ASSUME StreamBreaks PROVE TypeOK'
  BY <1>3, RetryType DEF StreamBreaks, loopVars, TypeOK
<1>4. ASSUME Yield PROVE TypeOK'
  <2>1. /\ Head(queue) \in Account /\ Tail(queue) \in Seq(Account)
        /\ Len(Tail(queue)) = Len(queue) - 1 /\ Len(queue) \in Nat
    BY <1>4, HeadTailProperties, LenProperties DEF Yield, TypeOK
  <2>2. Append(wire, Head(queue)) \in Seq(Account)
    BY <2>1, AppendProperties DEF TypeOK
  <2> QED BY <1>4, <2>1, <2>2, BoundsAssumption DEF Yield, Take, loopVars, TypeOK
<1>5. ASSUME Deliver PROVE TypeOK'
  <2>1. Head(wire) \in Account /\ Tail(wire) \in Seq(Account)
    BY <1>5, HeadTailProperties DEF Deliver, TypeOK
  <2> QED BY <1>5, <2>1, PlusType DEF Deliver, loopVars, TypeOK
<1>6. ASSUME ConnectionReset PROVE TypeOK'
  BY <1>6 DEF ConnectionReset, loopVars, TypeOK
<1> QED BY <1>1, <1>2, <1>3, <1>4, <1>5, <1>6 DEF Streaming

\* The types: counters of an account are numbers, the channel keeps its capacity and
\* the streaming task its number of attempts.
THEOREM TypeCorrect == Spec => []TypeOK
<1>1. Init => TypeOK
  <2> SUFFICES ASSUME Init PROVE TypeOK
    OBVIOUS
  <2>1. /\ mode \in Modes /\ pc = "waiting" /\ refused \in BOOLEAN
        /\ sender = "connecting" /\ broken \in BOOLEAN
    BY DEF Init
  <2>2. open \in Account /\ received \in Account /\ executed \in Account
    BY NothingType DEF Init
  <2>3. queue \in Seq(Account) /\ Len(queue) <= ChannelCapacity /\ wire \in Seq(Account)
    <3>1. << >> \in Seq(Account) /\ Len(<< >>) = 0
      OBVIOUS
    <3> QED BY <3>1, BoundsAssumption DEF Init
  <2>4. attempt \in 1..MaxRetries
    BY BoundsAssumption DEF Init
  <2> QED BY <2>1, <2>2, <2>3, <2>4 DEF TypeOK
<1>2. TypeOK /\ [Next]_vars => TypeOK'
  <2> SUFFICES ASSUME TypeOK, [Next]_vars PROVE TypeOK'
    OBVIOUS
  <2>1. CASE UNCHANGED vars
    BY <2>1 DEF vars, loopVars, senderVars, TypeOK
  <2> QED BY <2>1, LoopType, StreamingType DEF Next
<1> QED BY <1>1, <1>2, PTL DEF Spec
-----------------------------------------------------------------------------
(* Losses *)

\* Nothing has been refused and no stream has broken, and the loop has not left its
\* open second behind.
Lossless ==
    /\ ~refused /\ ~broken /\ sender # "ended"
    /\ pc \notin {"done", "exited"} \/ (mode = "session" /\ pc = "done")

LossInv ==
    /\ NoMore(Plus(Reported, open), executed)
    /\ Lossless => Same(Plus(Reported, open), executed)
    /\ pc \in {"done", "exited"} => open = Nothing

\* What a step does that loses nothing but what it says.
LEMMA LossStep ==
  ASSUME TypeOK, TypeOK', LossInv, UNCHANGED executed,
         NoMore(Plus(Reported', open'), Plus(Reported, open)),
         Lossless' => Lossless /\ Same(Plus(Reported', open'), Plus(Reported, open)),
         pc' \in {"done", "exited"} => open' = Nothing
  PROVE  LossInv'
<1>1. /\ Plus(Reported, open) \in Account /\ Plus(Reported', open') \in Account
      /\ executed \in Account
  <2>1. Reported \in Account /\ open \in Account /\ executed \in Account
    BY ReportedType DEF TypeOK
  <2>2. Reported' \in Account /\ open' \in Account
    BY TotalType DEF TypeOK, Reported
  <2> QED BY <2>1, <2>2, PlusType
<1>2. NoMore(Plus(Reported', open'), executed)
  BY <1>1, NoMoreTransitive DEF LossInv
<1>3. Lossless' => Same(Plus(Reported', open'), executed)
  BY DEF LossInv, Same
<1> QED BY <1>2, <1>3 DEF LossInv

\* The open second goes to the channel, or is refused.
LEMMA SentKeepsAccounts ==
  ASSUME TypeOK, TrySend(Snapshot(open)), UNCHANGED <<received, wire>>
  PROVE  /\ NoMore(Plus(Reported', Nothing), Plus(Reported, open))
         /\ refused' \/ (~refused /\ Same(Plus(Reported', Nothing), Plus(Reported, open)))
         /\ ~refused' => ~refused
<1>1. /\ Reported \in Account /\ open \in Account /\ Snapshot(open) \in Account
      /\ Nothing \in Account
  BY ReportedType, SnapshotType, NothingType DEF TypeOK
<1>2. CASE Reported' = Plus(Reported, Snapshot(open)) /\ UNCHANGED refused
  <2>1. Same(Plus(Plus(Reported, Snapshot(open)), Nothing), Plus(Reported, open))
    <3>1. Same(Snapshot(open), open)
      BY <1>1, SnapshotSame
    <3> QED BY <1>1, <3>1 DEF Same, Plus, Account, Nothing, NoCount
  <2>2. Plus(Plus(Reported, Snapshot(open)), Nothing) \in Account /\ Plus(Reported, open) \in Account
    BY <1>1, PlusType
  <2>3. NoMore(Plus(Plus(Reported, Snapshot(open)), Nothing), Plus(Reported, open))
    BY <2>1, <2>2 DEF Same, NoMore, Account
  <2> QED BY <1>2, <2>1, <2>3 DEF TypeOK
<1>3. CASE Reported' = Reported /\ refused'
  <2>1. NoMore(Plus(Reported, Nothing), Plus(Reported, open))
    BY <1>1 DEF NoMore, Plus, Account, Nothing, NoCount
  <2> QED BY <1>3, <2>1
<1> QED BY <1>1, <1>2, <1>3, SentIsReported

LEMMA PlusSame ==
  ASSUME TypeOK
  PROVE  NoMore(Plus(Reported, open), Plus(Reported, open))
         /\ Same(Plus(Reported, open), Plus(Reported, open))
<1>1. Plus(Reported, open) \in Account
  BY ReportedType, PlusType DEF TypeOK
<1> QED BY <1>1, NoMoreReflexive DEF Same

LEMMA ExecuteLoss ==
  ASSUME TypeOK, LossInv, NEW k \in Kinds, NEW outcome, Execute(k, outcome)
  PROVE  LossInv'
<1>1. /\ Reported' = Reported /\ pc' \in {"second", "work"} /\ pc = "work"
      /\ UNCHANGED <<mode, refused, broken, sender>>
      /\ open' = Added(open, k, outcome) /\ executed' = Added(executed, k, outcome)
  BY DEF Execute, senderVars, Reported
<1>2. Reported \in Account /\ open \in Account /\ executed \in Account
  BY ReportedType DEF TypeOK
<1>3. NoMore(Plus(Reported, Added(open, k, outcome)), Added(executed, k, outcome))
  BY <1>2 DEF LossInv, NoMore, Plus, Added, AddIf, Account
<1>4. Lossless' => Lossless
  BY <1>1 DEF Lossless
<1>5. Lossless => Same(Plus(Reported, Added(open, k, outcome)), Added(executed, k, outcome))
  BY <1>2 DEF LossInv, Same, Plus, Added, AddIf, Account
<1> QED BY <1>1, <1>3, <1>4, <1>5 DEF LossInv

LEMMA RunCompleteLoss ==
  ASSUME TypeOK, TypeOK', LossInv, RunComplete
  PROVE  LossInv'
<1>1. /\ pc = "event" /\ pc' = "done" /\ open' = Nothing
      /\ UNCHANGED <<mode, executed, sender, broken, received, wire>>
      /\ \/ mode = "session" /\ TrySend(Snapshot(open))
         \/ (mode # "session" \/ open = Nothing) /\ UNCHANGED <<queue, refused>>
  BY DEF RunComplete, Goto, Flush, senderVars
<1>2. CASE mode = "session" /\ TrySend(Snapshot(open))
  <2>1. /\ NoMore(Plus(Reported', Nothing), Plus(Reported, open))
        /\ refused' \/ (~refused /\ Same(Plus(Reported', Nothing), Plus(Reported, open)))
    BY <1>1, <1>2, SentKeepsAccounts
  <2>2. Lossless' => Lossless /\ Same(Plus(Reported', open'), Plus(Reported, open))
    BY <1>1, <2>1 DEF Lossless
  <2> QED BY <1>1, <2>1, <2>2, LossStep
<1>3. CASE (mode # "session" \/ open = Nothing) /\ UNCHANGED <<queue, refused>>
  <2>1. Reported' = Reported
    BY <1>1, <1>3 DEF Reported
  <2>2. Reported \in Account /\ open \in Account /\ Nothing \in Account
    BY ReportedType, NothingType DEF TypeOK
  <2>3. NoMore(Plus(Reported, Nothing), Plus(Reported, open))
    BY <2>2 DEF NoMore, Plus, Account, Nothing, NoCount
  <2>4. Lossless' => Lossless /\ open = Nothing
    BY <1>1, <1>3 DEF Lossless
  <2>5. Lossless' => Lossless /\ Same(Plus(Reported', open'), Plus(Reported, open))
    BY <1>1, <2>1, <2>4, PlusSame
  <2> QED BY <1>1, <2>1, <2>3, <2>5, LossStep
<1> QED BY <1>1, <1>2, <1>3

LEMMA LoopLoss ==
  ASSUME TypeOK, TypeOK', LossInv, Loop
  PROVE  LossInv'
<1>1. ASSUME FirstPhase \/ SecondGoesOn \/ KeepWorking PROVE LossInv'
  <2>1. /\ Reported' = Reported /\ pc' \notin {"done", "exited"} /\ pc \notin {"done", "exited"}
        /\ UNCHANGED <<open, executed, refused, broken, sender>>
    BY <1>1 DEF FirstPhase, SecondGoesOn, KeepWorking, Goto, senderVars, Reported
  <2>2. Lossless' => Lossless
    BY <2>1 DEF Lossless
  <2> QED BY <2>1, <2>2, PlusSame, LossStep
<1>2. ASSUME EndSecond PROVE LossInv'
  <2>1. /\ pc = "second" /\ pc' = "event" /\ open' = Nothing /\ TrySend(Snapshot(open))
        /\ UNCHANGED <<executed, sender, broken, received, wire>>
    BY <1>2 DEF EndSecond, Goto, Reset, senderVars
  <2>2. /\ NoMore(Plus(Reported', Nothing), Plus(Reported, open))
        /\ refused' \/ (~refused /\ Same(Plus(Reported', Nothing), Plus(Reported, open)))
    BY <2>1, SentKeepsAccounts
  <2>3. Lossless' => Lossless /\ Same(Plus(Reported', open'), Plus(Reported, open))
    BY <2>1, <2>2 DEF Lossless
  <2> QED BY <2>1, <2>2, <2>3, LossStep
<1>3. ASSUME Exit PROVE LossInv'
  <2>1. /\ pc = "done" /\ pc' = "exited" /\ sender' = "ended" /\ queue' = << >>
        /\ UNCHANGED <<open, executed, wire, received>>
    BY <1>3 DEF Exit, Goto
  <2>2. NoMore(Reported', Reported)
    BY <2>1, LossIsNoMore
  <2>3. Reported \in Account /\ Reported' \in Account /\ open \in Account
    BY ReportedType, TotalType DEF TypeOK, Reported
  <2>4. NoMore(Plus(Reported', open), Plus(Reported, open))
    BY <2>2, <2>3, PlusMonotone
  <2>5. ~Lossless' /\ open' = Nothing
    BY <2>1 DEF Lossless, LossInv
  <2> QED BY <2>1, <2>4, <2>5, LossStep
<1> QED BY <1>1, <1>2, <1>3, ExecuteLoss, RunCompleteLoss DEF Loop

LEMMA StreamingLoss ==
  ASSUME TypeOK, TypeOK', LossInv, Streaming
  PROVE  LossInv'
<1>1. ASSUME Reported' = Reported, UNCHANGED <<loopVars, refused>>,
             UNCHANGED broken, sender' = "ended" \/ sender # "ended"
      PROVE  LossInv'
  <2>1. UNCHANGED <<mode, pc, open, executed>>
    BY <1>1 DEF loopVars
  <2>2. Lossless' => Lossless
    BY <1>1, <2>1 DEF Lossless
  <2>3. pc' \in {"done", "exited"} => open' = Nothing
    BY <2>1 DEF LossInv
  <2> QED BY <1>1, <2>1, <2>2, <2>3, PlusSame, LossStep
<1>2. ASSUME UNCHANGED <<loopVars, received>>, broken' \/ sender' = "ended",
             queue' \in {queue, << >>}, wire' \in {wire, << >>}
      PROVE  LossInv'
  <2>1. UNCHANGED <<mode, pc, open, executed>>
    BY <1>2 DEF loopVars
  <2>2. NoMore(Reported', Reported)
    BY <1>2, LossIsNoMore
  <2>3. Reported \in Account /\ Reported' \in Account /\ open \in Account
    BY ReportedType, TotalType DEF TypeOK, Reported
  <2>4. NoMore(Plus(Reported', open), Plus(Reported, open))
    BY <2>2, <2>3, PlusMonotone
  <2>5. ~Lossless'
    BY <1>2 DEF Lossless
  <2>6. pc' \in {"done", "exited"} => open' = Nothing
    BY <2>1 DEF LossInv
  <2> QED BY <2>1, <2>4, <2>5, <2>6, LossStep
<1>3. ASSUME Connect \/ StreamEnds PROVE LossInv'
  <2>1. Reported' = Reported
    BY <1>3 DEF Connect, StreamEnds, Reported
  <2> QED BY <1>1, <1>3, <2>1 DEF Connect, StreamEnds
<1>4. ASSUME ConnectFails PROVE LossInv'
  <2>1. /\ sender = "connecting" /\ UNCHANGED <<loopVars, refused, wire, broken, received>>
        /\ queue' \in {queue, << >>} /\ sender' \in {"connecting", "ended"}
        /\ sender' = "connecting" => queue' = queue
    BY <1>4, RetryType DEF ConnectFails
  <2>2. CASE sender' = "connecting"
    BY <1>1, <2>1, <2>2 DEF Reported
  <2>3. CASE sender' = "ended"
    BY <1>2, <2>1, <2>3
  <2> QED BY <2>1, <2>2, <2>3
<1>5. ASSUME StreamBreaks PROVE LossInv'
  BY <1>2, <1>5, RetryType DEF StreamBreaks
<1>6. ASSUME Yield PROVE LossInv'
  BY <1>1, <1>6, YieldedIsReported DEF Yield
<1>7. ASSUME Deliver PROVE LossInv'
  BY <1>1, <1>7, DeliveredIsReported DEF Deliver
<1>8. ASSUME ConnectionReset PROVE LossInv'
  BY <1>2, <1>8 DEF ConnectionReset
<1> QED BY <1>3, <1>4, <1>5, <1>6, <1>7, <1>8 DEF Streaming

LEMMA LossInvariant == Spec => [](TypeOK /\ LossInv)
<1>1. TypeOK /\ Init => LossInv
  <2> SUFFICES ASSUME TypeOK, Init PROVE LossInv
    OBVIOUS
  <2>1. Reported = Nothing
    <3>1. Total(Nothing, << >>) = Nothing
      BY NothingType, TotalOfNone
    <3> QED BY <3>1 DEF Init, Reported
  <2>2. Same(Plus(Nothing, Nothing), Nothing) /\ NoMore(Plus(Nothing, Nothing), Nothing)
    BY DEF Same, NoMore, Plus, Nothing, NoCount
  <2>3. pc = "waiting" /\ open = Nothing /\ executed = Nothing
    BY DEF Init
  <2> QED BY <2>1, <2>2, <2>3 DEF LossInv
<1>2. TypeOK /\ TypeOK' /\ LossInv /\ [Next]_vars => LossInv'
  <2> SUFFICES ASSUME TypeOK, TypeOK', LossInv, [Next]_vars PROVE LossInv'
    OBVIOUS
  <2>1. CASE UNCHANGED vars
    <3>1. Reported' = Reported /\ UNCHANGED <<mode, pc, open, executed, refused, broken, sender>>
      BY <2>1 DEF vars, loopVars, senderVars, Reported
    <3> QED BY <3>1 DEF LossInv, Lossless
  <2> QED BY <2>1, LoopLoss, StreamingLoss DEF Next
<1> QED BY <1>1, <1>2, TypeCorrect, PTL DEF Spec

\* No operation, error or timeout is reported twice, whatever breaks and however often
\* the counters are read and reset (the loops of ingest.rs and query.rs, and
\* stream_metrics_to_aggregator).
THEOREM NeverReportedTwice == Spec => []NeverCountedTwice
<1>1. TypeOK /\ LossInv => NeverCountedTwice
  <2> SUFFICES ASSUME TypeOK, LossInv PROVE NeverCountedTwice
    OBVIOUS
  <2>1. Reported \in Account /\ open \in Account
    BY ReportedType DEF TypeOK
  <2> QED BY <2>1 DEF LossInv, NoMore, Plus, Account, NeverCountedTwice
<1> QED BY <1>1, LossInvariant, PTL

\* While a worker runs, what it has done is accounted for, unless a log says otherwise.
THEOREM LossIsNeverSilent == Spec => []NothingLostSilently
<1>1. TypeOK /\ LossInv => NothingLostSilently
  <2> SUFFICES ASSUME TypeOK, LossInv PROVE NothingLostSilently
    OBVIOUS
  <2>1. Reported \in Account /\ open \in Account
    BY ReportedType DEF TypeOK
  <2> QED BY <2>1 DEF LossInv, Lossless, Same, Plus, Account, NothingLostSilently
<1> QED BY <1>1, LossInvariant, PTL

\* A session that has ended has sent its last, partial second (query.rs:510-511).
THEOREM SessionAlwaysFlushed == Spec => []SessionFlushed
<1>1. TypeOK /\ LossInv => SessionFlushed
  <2> SUFFICES ASSUME TypeOK, LossInv,
                      mode = "session", pc = "done", ~refused, ~broken, sender # "ended"
               PROVE  Reported.ops = executed.ops /\ Reported.timeouts = executed.timeouts
    BY DEF SessionFlushed
  <2>1. Reported \in Account /\ executed \in Account
    BY ReportedType DEF TypeOK
  <2>2. Same(Plus(Reported, Nothing), executed)
    BY DEF LossInv, Lossless
  <2>3. Reported.ops = executed.ops
    BY <2>1, <2>2 DEF Same, Plus, Account, Nothing
  <2>4. \A k \in Kinds : Reported.timeouts[k] = executed.timeouts[k]
    <3> SUFFICES ASSUME NEW k \in Kinds PROVE Reported.timeouts[k] = executed.timeouts[k]
      OBVIOUS
    <3>1. Reported.timeouts[k] \in Nat
      BY <2>1 DEF Account
    <3>2. Plus(Reported, Nothing).timeouts[k] = Reported.timeouts[k] + 0
      BY DEF Plus, Nothing, NoCount
    <3>3. Plus(Reported, Nothing).timeouts[k] = executed.timeouts[k]
      BY <2>2 DEF Same
    <3> QED BY <3>1, <3>2, <3>3
  <2>5. Reported.timeouts = executed.timeouts
    <3>1. Reported.timeouts \in [Kinds -> Nat] /\ executed.timeouts \in [Kinds -> Nat]
      BY <2>1 DEF Account
    <3> QED BY <2>4, <3>1
  <2> QED BY <2>3, <2>5
<1> QED BY <1>1, LossInvariant, PTL
=============================================================================

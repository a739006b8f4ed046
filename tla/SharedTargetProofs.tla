------------------------- MODULE SharedTargetProofs -------------------------
(***************************************************************************)
(* Proofs about SharedTarget, for any number of runs, any configurations   *)
(* and any number of failures: what a run is told to have is there or has  *)
(* been taken from it, and what all runs leave behind has an explanation.  *)
(*                                                                         *)
(* Both rest on one notion, Remaining: what a run has still to request in  *)
(* the course it is in.  A prepare holds what it needs but for what        *)
(* remains; a thing that exists is needed by a run that has not begun its  *)
(* cleanup, or remains in a cleanup.                                       *)
(***************************************************************************)
EXTENDS SharedTarget, SequenceTheorems, TLAPS

Things(steps) == UNION {steps[k] : k \in DOMAIN steps}

Remaining(r, steps) ==
    waiting[r] \cup UNION {steps[k] : k \in Following(steps, step[r])}

Before  == {"pending", "preparing", "created", "polling", "running", "failed"}
Told    == {"created", "polling", "running"}
Cleaned == {"cleaning", "gone"}

TypeInv ==
    /\ config \in Configs
    /\ phase \in [Runs -> Before \cup Cleaned]
    /\ step \in [Runs -> Nat]
    /\ waiting = [r \in Runs |-> waiting[r]]
    /\ holds = [r \in Runs |-> holds[r]]

\* What the runs are told, and what a cleanup takes from the others.
HoldsInv ==
    /\ \A r \in Runs : \A thing \in holds[r] : thing \in exists \/ <<r, thing>> \in taken
    /\ \A r \in Runs :
          phase[r] = "preparing" =>
              Needs(r) \subseteq holds[r] \cup Remaining(r, PrepareSteps(r))
    /\ \A r \in Runs : phase[r] \in Told => Needs(r) \subseteq holds[r]
    /\ \A r \in Runs : phase[r] \in Cleaned => holds[r] = {}
    /\ \A request \in late :
          request.kind = "delete" => request.run \in Runs /\ phase[request.run] \in Cleaned

\* A cleanup of the run will ask to delete the thing.
WillDelete(r, thing) ==
    \/ phase[r] \in Before /\ thing \in Needs(r)
    \/ phase[r] = "cleaning" /\ thing \in Remaining(r, CleanupSteps(r))

OwnedInv ==
    /\ \A thing \in exists : MayStay(thing) \/ \E r \in Runs : WillDelete(r, thing)
    /\ \A r \in Runs : phase[r] = "preparing" => waiting[r] \subseteq Needs(r)

TargetInv == TypeInv /\ HoldsInv /\ OwnedInv
-----------------------------------------------------------------------------
(* The steps of a run *)

LEMMA ThingsOfBoth ==
  ASSUME NEW S, NEW a \in Seq(S), NEW b \in Seq(S)
  PROVE  Things(a \o b) = Things(a) \cup Things(b)
<1>1. /\ a \o b \in Seq(S) /\ Len(a \o b) = Len(a) + Len(b)
      /\ \A i \in 1..(Len(a) + Len(b)) :
            (a \o b)[i] = IF i <= Len(a) THEN a[i] ELSE b[i - Len(a)]
  BY ConcatProperties
<1>2. /\ DOMAIN a = 1..Len(a) /\ DOMAIN b = 1..Len(b)
      /\ DOMAIN (a \o b) = 1..(Len(a) + Len(b)) /\ Len(a) \in Nat /\ Len(b) \in Nat
  BY <1>1, LenProperties
<1>3. \A i \in DOMAIN a : i \in DOMAIN (a \o b) /\ (a \o b)[i] = a[i]
  BY <1>1, <1>2
<1>4. \A i \in DOMAIN b :
         Len(a) + i \in DOMAIN (a \o b) /\ (a \o b)[Len(a) + i] = b[i]
  BY <1>1, <1>2
<1>5. \A k \in DOMAIN (a \o b) :
         \/ k \in DOMAIN a /\ (a \o b)[k] = a[k]
         \/ k - Len(a) \in DOMAIN b /\ (a \o b)[k] = b[k - Len(a)]
  BY <1>1, <1>2
<1>6. Things(a) \subseteq Things(a \o b)
  BY <1>3 DEF Things
<1>7. Things(b) \subseteq Things(a \o b)
  BY <1>4 DEF Things
<1>8. Things(a \o b) \subseteq Things(a) \cup Things(b)
  BY <1>5 DEF Things
<1> QED BY <1>6, <1>7, <1>8

\* A step in the course of the run: the others stay where they are.
Moves(r) ==
    /\ phase' \in [Runs -> Before \cup Cleaned]
    /\ step' \in [Runs -> Nat]
    /\ waiting' = [q \in Runs |-> waiting'[q]]
    /\ \A q \in Runs \ {r} :
          phase'[q] = phase[q] /\ step'[q] = step[q] /\ waiting'[q] = waiting[q]

\* The run is done with its steps, or has at most the thing less to ask for.
Continues(r, thing, steps, after) ==
    \/ phase'[r] = after /\ Remaining(r, steps) \subseteq {thing}
    \/ /\ phase'[r] = phase[r]
       /\ waiting'[r] \subseteq waiting[r] \cup Things(steps)
       /\ Remaining(r, steps) \subseteq
             {thing} \cup waiting'[r] \cup UNION {steps[k] : k \in Following(steps, step'[r])}

\* What Advance does to the run it is about.
LEMMA AdvanceGoesOn ==
  ASSUME TypeInv, NEW r \in Runs, NEW steps, DOMAIN steps \subseteq Nat, NEW n \in Nat,
         NEW this \in Before \cup Cleaned, NEW after \in Before \cup Cleaned,
         Advance(r, steps, n, this, after)
  PROVE  /\ Moves(r)
         /\ \/ /\ phase'[r] = after
               /\ Following(steps, n) = {}
            \/ /\ phase'[r] = this
               /\ waiting'[r] \subseteq Things(steps)
               /\ UNION {steps[k] : k \in Following(steps, n)} \subseteq
                     waiting'[r] \cup UNION {steps[k] : k \in Following(steps, step'[r])}
<1>1. CASE /\ Following(steps, n) = {}
           /\ phase' = [phase EXCEPT ![r] = after]
           /\ waiting' = [waiting EXCEPT ![r] = {}]
           /\ UNCHANGED step
  BY <1>1 DEF TypeInv, Moves
<1>2. ASSUME NEW k \in Following(steps, n),
             \A j \in Following(steps, n) : k <= j,
             phase' = [phase EXCEPT ![r] = this],
             waiting' = [waiting EXCEPT ![r] = steps[k]],
             step' = [step EXCEPT ![r] = k]
      PROVE  /\ Moves(r)
             /\ phase'[r] = this
             /\ waiting'[r] \subseteq Things(steps)
             /\ UNION {steps[j] : j \in Following(steps, n)} \subseteq
                   waiting'[r] \cup UNION {steps[j] : j \in Following(steps, step'[r])}
  <2>1. k \in DOMAIN steps /\ k \in Nat
    BY DEF Following
  <2>2. /\ phase' \in [Runs -> Before \cup Cleaned] /\ step' \in [Runs -> Nat]
        /\ waiting' = [q \in Runs |-> waiting'[q]]
        /\ \A q \in Runs \ {r} :
              phase'[q] = phase[q] /\ step'[q] = step[q] /\ waiting'[q] = waiting[q]
        /\ phase'[r] = this
    BY <1>2, <2>1 DEF TypeInv
  <2>3. waiting'[r] = steps[k] /\ step'[r] = k
    BY <1>2, <2>1 DEF TypeInv
  <2>4. \A j \in Following(steps, n) : j = k \/ j \in Following(steps, k)
    BY <1>2, <2>1 DEF Following
  <2>5. UNION {steps[j] : j \in Following(steps, n)} \subseteq
            steps[k] \cup UNION {steps[j] : j \in Following(steps, k)}
    BY <2>4
  <2> QED BY <2>1, <2>2, <2>3, <2>5 DEF Things, Moves
<1> QED BY <1>1, <1>2 DEF Advance

\* From the beginning, everything that the steps name follows.
LEMMA BeginAsksForAll ==
  ASSUME TypeInv, NEW r \in Runs, NEW steps, DOMAIN steps \subseteq Nat \ {0},
         NEW this \in Before \cup Cleaned, NEW after \in Before \cup Cleaned,
         Begin(r, steps, this, after)
  PROVE  /\ Moves(r)
         /\ \/ phase'[r] = after /\ Things(steps) = {}
            \/ /\ phase'[r] = this
               /\ waiting'[r] \subseteq Things(steps)
               /\ Things(steps) \subseteq
                     waiting'[r] \cup UNION {steps[k] : k \in Following(steps, step'[r])}
<1>1. Things(steps) \subseteq UNION {steps[k] : k \in Following(steps, 0)}
  BY DEF Things, Following
<1>2. Advance(r, steps, 0, this, after)
  BY DEF Begin
<1>3. Following(steps, 0) = {} => Things(steps) = {}
  BY <1>1
<1> QED BY <1>1, <1>2, <1>3, AdvanceGoesOn

\* An answer takes at most its own thing from what remains.
LEMMA ProceedGoesOn ==
  ASSUME TypeInv, NEW r \in Runs, NEW thing, NEW steps, DOMAIN steps \subseteq Nat,
         NEW after \in Before \cup Cleaned,
         Proceed(r, thing, steps, after)
  PROVE  Moves(r) /\ Continues(r, thing, steps, after)
<1>1. CASE waiting[r] # {thing}
  <2>1. /\ waiting' = [waiting EXCEPT ![r] = waiting[r] \ {thing}]
        /\ UNCHANGED <<phase, step>>
    BY <1>1 DEF Proceed, TypeInv
  <2>2. /\ waiting' = [q \in Runs |-> waiting'[q]]
        /\ \A q \in Runs \ {r} : waiting'[q] = waiting[q]
        /\ waiting'[r] = waiting[r] \ {thing}
    BY <2>1 DEF TypeInv
  <2> QED BY <2>1, <2>2 DEF TypeInv, Remaining, Moves, Continues
<1>2. CASE waiting[r] = {thing}
  <2>1. Advance(r, steps, step[r], phase[r], after)
    BY <1>2 DEF Proceed
  <2>2. step[r] \in Nat /\ phase[r] \in Before \cup Cleaned
    BY DEF TypeInv
  <2>3. Remaining(r, steps) = {thing} \cup UNION {steps[k] : k \in Following(steps, step[r])}
    BY <1>2 DEF Remaining
  <2> QED BY <2>1, <2>2, <2>3, AdvanceGoesOn DEF Continues
<1> QED BY <1>1, <1>2
-----------------------------------------------------------------------------
(* What the configuration asks for *)

LEMMA ThingsOfFive ==
  ASSUME NEW S, NEW a \in S, NEW b \in S, NEW c \in S, NEW d \in S, NEW e \in S
  PROVE  /\ <<a, b, c, d, e>> \in Seq(S)
         /\ Things(<<a, b, c, d, e>>) = a \cup b \cup c \cup d \cup e
<1> DEFINE five == <<a, b, c, d, e>>
<1>1. five \in Seq(S)
  OBVIOUS
<1>2. /\ DOMAIN five = {1, 2, 3, 4, 5}
      /\ five[1] = a /\ five[2] = b /\ five[3] = c /\ five[4] = d /\ five[5] = e
  OBVIOUS
<1> HIDE DEF five
<1>3. Things(five) = a \cup b \cup c \cup d \cup e
  BY <1>2 DEF Things
<1> QED BY <1>1, <1>3 DEF five

LEMMA ThingsOfThree ==
  ASSUME NEW S, NEW a \in S, NEW b \in S, NEW c \in S
  PROVE  /\ <<a, b, c>> \in Seq(S)
         /\ Things(<<a, b, c>>) = a \cup b \cup c
<1> DEFINE three == <<a, b, c>>
<1>1. three \in Seq(S)
  OBVIOUS
<1>2. /\ DOMAIN three = {1, 2, 3}
      /\ three[1] = a /\ three[2] = b /\ three[3] = c
  OBVIOUS
<1> HIDE DEF three
<1>3. Things(three) = a \cup b \cup c
  BY <1>2 DEF Things
<1> QED BY <1>1, <1>3 DEF three

\* Steps are numbered from one.
LEMMA StepsAreNumbered ==
  ASSUME NEW S, NEW steps \in Seq(S)
  PROVE  DOMAIN steps \subseteq Nat \ {0}
<1>1. DOMAIN steps = 1..Len(steps) /\ Len(steps) \in Nat
  BY LenProperties
<1> QED BY <1>1

LEMMA ConfigIsSequences ==
  ASSUME TypeInv, NEW r \in Runs, NEW all, Things(Topics(r)) \subseteq all
  PROVE  /\ Topics(r) \in Seq(SUBSET all)
         /\ DOMAIN PollSteps(r) \subseteq Nat
<1>1. /\ config[r].indexes \in Seq(ToSet(config[r].indexes))
      /\ config[r].warehouses \in Seq(ToSet(config[r].warehouses))
  BY ConfigsAssumption DEF TypeInv
<1>2. /\ DOMAIN config[r].indexes = 1..Len(config[r].indexes)
      /\ Len(config[r].indexes) \in Nat
      /\ DOMAIN config[r].warehouses = 1..Len(config[r].warehouses)
      /\ Len(config[r].warehouses) \in Nat
  BY <1>1, LenProperties
<1>3. DOMAIN PollSteps(r) \subseteq Nat
  BY <1>2 DEF PollSteps
<1>4. DOMAIN Topics(r) = 1..Len(config[r].indexes)
  BY <1>2 DEF Topics
<1>5. \A i \in 1..Len(config[r].indexes) : Topics(r)[i] \in SUBSET all
  BY <1>4 DEF Things
<1>6. Topics(r) = [i \in 1..Len(config[r].indexes) |-> Topics(r)[i]]
  BY <1>4 DEF Topics
<1>7. Topics(r) \in Seq(SUBSET all)
  BY <1>2, <1>5, <1>6, IsASeq
<1> QED BY <1>3, <1>7

\* What prepare creates.
LEMMA WhatIsNeeded ==
  ASSUME TypeInv, NEW r \in Runs
  PROVE  /\ DOMAIN PrepareSteps(r) \subseteq Nat \ {0}
         /\ Needs(r) = Things(PrepareSteps(r))
         /\ Needs(r) = Things(Topics(r)) \cup {Namespace(r)}
                          \cup (IF Indexes(r) = {} THEN {} ELSE {Connection(r)})
                          \cup {Index(r, i) : i \in Indexes(r)}
                          \cup {Pipeline(r, i) : i \in Indexes(r)}
                          \cup Warehouses(r)
<1> DEFINE space == {Namespace(r)}
           conn  == IF Indexes(r) = {} THEN {} ELSE {Connection(r)}
           ind   == {Index(r, i) : i \in Indexes(r)}
           pipe  == {Pipeline(r, i) : i \in Indexes(r)}
           wares == Warehouses(r)
           all   == Things(Topics(r)) \cup space \cup conn \cup ind \cup pipe \cup wares
           Sets  == SUBSET all
<1>1. PrepareSteps(r) = Topics(r) \o <<space, conn, ind, pipe, wares>>
  BY DEF PrepareSteps
<1>2. Needs(r) = Things(PrepareSteps(r))
  BY DEF Needs, Things, ToSet
<1>3. /\ space \in Sets /\ conn \in Sets /\ ind \in Sets
      /\ pipe \in Sets /\ wares \in Sets /\ Things(Topics(r)) \subseteq all
  OBVIOUS
<1>4. all = Things(Topics(r)) \cup (space \cup conn \cup ind \cup pipe \cup wares)
  OBVIOUS
<1> HIDE DEF space, conn, ind, pipe, wares, all, Sets
<1>5. /\ <<space, conn, ind, pipe, wares>> \in Seq(Sets)
      /\ Things(<<space, conn, ind, pipe, wares>>)
            = space \cup conn \cup ind \cup pipe \cup wares
  BY <1>3, ThingsOfFive
<1>6. Topics(r) \in Seq(Sets)
  BY <1>3, ConfigIsSequences DEF Sets
<1>7. PrepareSteps(r) \in Seq(Sets)
  BY <1>1, <1>5, <1>6, ConcatProperties
<1>8. Things(PrepareSteps(r)) = all
  <2> DEFINE own == <<space, conn, ind, pipe, wares>>
  <2>1. own \in Seq(Sets) /\ Things(own) = space \cup conn \cup ind \cup pipe \cup wares
    BY <1>5
  <2>2. PrepareSteps(r) = Topics(r) \o own
    BY <1>1
  <2> HIDE DEF own
  <2>3. Things(Topics(r) \o own) = Things(Topics(r)) \cup Things(own)
    BY <1>6, <2>1, ThingsOfBoth
  <2> QED BY <1>4, <2>1, <2>2, <2>3
<1>9. DOMAIN PrepareSteps(r) \subseteq Nat \ {0}
  BY <1>7, StepsAreNumbered
<1> QED BY <1>2, <1>8, <1>9 DEF space, conn, ind, pipe, wares, all

\* What cleanup deletes.
LEMMA WhatIsDeleted ==
  ASSUME TypeInv, NEW r \in Runs
  PROVE  /\ DOMAIN CleanupSteps(r) \subseteq Nat \ {0}
         /\ Things(CleanupSteps(r)) =
               {Pipeline(r, i) : i \in Indexes(r)}
                 \cup (IF config[r].namespace = Protected THEN {} ELSE Warehouses(r))
                 \cup {Index(r, i) : i \in Indexes(r)} \cup {Connection(r)}
                 \cup (IF config[r].namespace = Protected THEN {} ELSE {Namespace(r)})
                 \cup Things(Topics(r))
<1> DEFINE first  == {Pipeline(r, i) : i \in Indexes(r)} \cup
                       (IF config[r].namespace = Protected THEN {} ELSE Warehouses(r))
           second == {Index(r, i) : i \in Indexes(r)} \cup {Connection(r)}
           third  == IF config[r].namespace = Protected THEN {} ELSE {Namespace(r)}
           all    == first \cup second \cup third \cup Things(Topics(r))
           Sets   == SUBSET all
<1>1. CleanupSteps(r) = <<first, second, third>> \o Topics(r)
  BY DEF CleanupSteps
<1>2. /\ first \in Sets /\ second \in Sets /\ third \in Sets
      /\ Things(Topics(r)) \subseteq all
  OBVIOUS
<1>3. all = (first \cup second \cup third) \cup Things(Topics(r))
  OBVIOUS
<1> HIDE DEF first, second, third, all, Sets
<1>4. /\ <<first, second, third>> \in Seq(Sets)
      /\ Things(<<first, second, third>>) = first \cup second \cup third
  BY <1>2, ThingsOfThree
<1>5. Topics(r) \in Seq(Sets)
  BY <1>2, ConfigIsSequences DEF Sets
<1>6. CleanupSteps(r) \in Seq(Sets)
  BY <1>1, <1>4, <1>5, ConcatProperties
<1>7. Things(CleanupSteps(r)) = all
  <2> DEFINE own == <<first, second, third>>
  <2>1. own \in Seq(Sets) /\ Things(own) = first \cup second \cup third
    BY <1>4
  <2>2. CleanupSteps(r) = own \o Topics(r)
    BY <1>1
  <2> HIDE DEF own
  <2>3. Things(own \o Topics(r)) = Things(own) \cup Things(Topics(r))
    BY <1>5, <2>1, ThingsOfBoth
  <2> QED BY <1>3, <2>1, <2>2, <2>3
<1>8. DOMAIN CleanupSteps(r) \subseteq Nat \ {0}
  BY <1>6, StepsAreNumbered
<1> QED BY <1>7, <1>8 DEF first, second, third, all

\* A cleanup asks for all that its run needed, but for what is protected.
LEMMA CleanupCovers ==
  ASSUME TypeInv, NEW r \in Runs, NEW thing \in Needs(r)
  PROVE  thing \in Things(CleanupSteps(r)) \/ MayStay(thing)
<1>1. CASE config[r].namespace # Protected
  BY <1>1, WhatIsNeeded, WhatIsDeleted
<1>2. CASE config[r].namespace = Protected
  <2>1. \A w \in Warehouses(r) : MayStay(w)
    BY <1>2 DEF Warehouses, Warehouse, Thing, MayStay
  <2>2. MayStay(Namespace(r))
    BY <1>2 DEF Namespace, Thing, MayStay
  <2> QED BY <2>1, <2>2, WhatIsNeeded, WhatIsDeleted
<1> QED BY <1>1, <1>2

\* The configuration, once chosen, is the same all along.
LEMMA StepsStayTheSame ==
  ASSUME UNCHANGED config, NEW r \in Runs
  PROVE  /\ PrepareSteps(r)' = PrepareSteps(r)
         /\ CleanupSteps(r)' = CleanupSteps(r)
         /\ Needs(r)' = Needs(r)
  BY DEF PrepareSteps, CleanupSteps, Needs, Topics, Topic, Namespace, Connection, Index,
         Pipeline, Warehouses, Warehouse, Indexes

\* A run whose own state is as before has as much left to ask for as before.
LEMMA OthersAsBefore ==
  ASSUME UNCHANGED config, NEW q \in Runs,
         phase'[q] = phase[q], step'[q] = step[q], waiting'[q] = waiting[q]
  PROVE  /\ Remaining(q, PrepareSteps(q))' = Remaining(q, PrepareSteps(q))
         /\ Remaining(q, CleanupSteps(q))' = Remaining(q, CleanupSteps(q))
         /\ \A thing : WillDelete(q, thing)' <=> WillDelete(q, thing)
<1>1. /\ PrepareSteps(q)' = PrepareSteps(q)
      /\ CleanupSteps(q)' = CleanupSteps(q)
      /\ Needs(q)' = Needs(q)
  BY StepsStayTheSame
<1>2. /\ Remaining(q, PrepareSteps(q))' = Remaining(q, PrepareSteps(q))
      /\ Remaining(q, CleanupSteps(q))' = Remaining(q, CleanupSteps(q))
  BY <1>1 DEF Remaining
<1> QED BY <1>1, <1>2 DEF WillDelete
-----------------------------------------------------------------------------
(* The steps of a prepare *)

LEMMA StartPrepareKeeps ==
  ASSUME TargetInv, NEW r \in Runs, StartPrepare(r)
  PROVE  TargetInv'
<1>1. /\ TypeInv /\ HoldsInv /\ OwnedInv /\ phase[r] = "pending"
      /\ Begin(r, PrepareSteps(r), "preparing", "created")
      /\ UNCHANGED <<config, exists, late, holds, taken, blamed>>
  BY DEF TargetInv, StartPrepare, histVars
<1>2. DOMAIN PrepareSteps(r) \subseteq Nat \ {0} /\ Needs(r) = Things(PrepareSteps(r))
  BY <1>1, WhatIsNeeded
<1>3. /\ Moves(r)
      /\ \/ phase'[r] = "created" /\ Needs(r) = {}
         \/ /\ phase'[r] = "preparing"
            /\ waiting'[r] \subseteq Needs(r)
            /\ Needs(r) \subseteq Remaining(r, PrepareSteps(r))'
  <2>1. PrepareSteps(r)' = PrepareSteps(r)
    BY <1>1, StepsStayTheSame
  <2> QED BY <1>1, <1>2, <2>1, BeginAsksForAll DEF Remaining, Before
<1> USE DEF Moves
<1>4. TypeInv'
  BY <1>1, <1>3 DEF TypeInv
<1>5. \A q \in Runs : Needs(q)' = Needs(q)
  BY <1>1, StepsStayTheSame
<1>6. \A q \in Runs \ {r} :
         /\ Remaining(q, PrepareSteps(q))' = Remaining(q, PrepareSteps(q))
         /\ \A thing : WillDelete(q, thing) => WillDelete(q, thing)'
  BY <1>1, <1>3, OthersAsBefore
<1>7. HoldsInv'
  <2>1. \A q \in Runs :
           phase'[q] = "preparing" =>
               Needs(q)' \subseteq holds'[q] \cup Remaining(q, PrepareSteps(q))'
    BY <1>1, <1>3, <1>5, <1>6 DEF HoldsInv
  <2>2. \A q \in Runs : phase'[q] \in Told => Needs(q)' \subseteq holds'[q]
    BY <1>1, <1>3, <1>5 DEF HoldsInv, Told
  <2>3. \A q \in Runs : phase'[q] \in Cleaned <=> phase[q] \in Cleaned
    BY <1>1, <1>3 DEF Cleaned
  <2> QED BY <1>1, <2>1, <2>2, <2>3 DEF HoldsInv
<1>8. OwnedInv'
  <2>1. \A thing : WillDelete(r, thing) => WillDelete(r, thing)'
    BY <1>1, <1>3, <1>5 DEF WillDelete, Before
  <2>2. \A thing : MayStay(thing)' <=> MayStay(thing)
    BY <1>1 DEF MayStay
  <2>3. \A thing \in exists' : MayStay(thing)' \/ \E q \in Runs : WillDelete(q, thing)'
    BY <1>1, <1>6, <2>1, <2>2 DEF OwnedInv
  <2>4. \A q \in Runs : phase'[q] = "preparing" => waiting'[q] \subseteq Needs(q)'
    BY <1>1, <1>3, <1>5 DEF OwnedInv
  <2> QED BY <2>3, <2>4 DEF OwnedInv
<1> QED BY <1>4, <1>7, <1>8 DEF TargetInv

LEMMA CreatedKeeps ==
  ASSUME TargetInv, NEW r \in Runs, NEW thing \in waiting[r], Created(r, thing)
  PROVE  TargetInv'
<1>1. /\ TypeInv /\ HoldsInv /\ OwnedInv /\ phase[r] = "preparing"
      /\ exists' = exists \cup {thing}
      /\ holds' = [holds EXCEPT ![r] = holds[r] \cup {thing}]
      /\ Proceed(r, thing, PrepareSteps(r), "created")
      /\ UNCHANGED <<config, late, taken, blamed>>
  BY DEF TargetInv, Created
<1>2. /\ DOMAIN PrepareSteps(r) \subseteq Nat /\ Needs(r) = Things(PrepareSteps(r))
      /\ waiting[r] \subseteq Needs(r)
  BY <1>1, WhatIsNeeded DEF OwnedInv
<1>3. /\ Moves(r)
      /\ \/ phase'[r] = "created" /\ Remaining(r, PrepareSteps(r)) \subseteq {thing}
         \/ /\ phase'[r] = "preparing"
            /\ waiting'[r] \subseteq Needs(r)
            /\ Remaining(r, PrepareSteps(r))
                  \subseteq {thing} \cup Remaining(r, PrepareSteps(r))'
  <2>1. PrepareSteps(r)' = PrepareSteps(r)
    BY <1>1, StepsStayTheSame
  <2>2. "created" \in Before \cup Cleaned
    BY DEF Before
  <2> DEFINE steps == PrepareSteps(r)
  <2>3. DOMAIN steps \subseteq Nat /\ Proceed(r, thing, steps, "created")
    BY <1>1, <1>2
  <2>4. Remaining(r, PrepareSteps(r))'
            = waiting'[r] \cup UNION {steps[k] : k \in Following(steps, step'[r])}
    BY <2>1 DEF Remaining
  <2>5. Needs(r) = Things(steps)
    BY <1>2
  <2> HIDE DEF steps
  <2>6. TypeInv /\ phase[r] = "preparing"
    BY <1>1
  <2>7. Moves(r) /\ Continues(r, thing, steps, "created")
    BY <2>2, <2>3, <2>6, ProceedGoesOn
  <2> QED BY <1>2, <2>4, <2>5, <2>6, <2>7 DEF steps, Continues
<1> USE DEF Moves
<1>4. /\ holds' = [q \in Runs |-> holds'[q]]
      /\ holds'[r] = holds[r] \cup {thing}
      /\ \A q \in Runs \ {r} : holds'[q] = holds[q]
  BY <1>1 DEF TypeInv
<1>5. TypeInv'
  BY <1>1, <1>3, <1>4 DEF TypeInv
<1>6. \A q \in Runs : Needs(q)' = Needs(q)
  BY <1>1, StepsStayTheSame
<1>7. \A q \in Runs \ {r} :
         /\ Remaining(q, PrepareSteps(q))' = Remaining(q, PrepareSteps(q))
         /\ \A t : WillDelete(q, t) => WillDelete(q, t)'
  BY <1>1, <1>3, OthersAsBefore
<1>8. HoldsInv'
  <2>1. \A q \in Runs : \A t \in holds'[q] : t \in exists' \/ <<q, t>> \in taken'
    BY <1>1, <1>4 DEF HoldsInv
  <2>2. \A q \in Runs :
           phase'[q] = "preparing" =>
               Needs(q)' \subseteq holds'[q] \cup Remaining(q, PrepareSteps(q))'
    BY <1>1, <1>3, <1>4, <1>6, <1>7 DEF HoldsInv
  <2>3. \A q \in Runs : phase'[q] \in Told => Needs(q)' \subseteq holds'[q]
    BY <1>1, <1>3, <1>4, <1>6 DEF HoldsInv, Told
  <2>4. \A q \in Runs : phase'[q] \in Cleaned => q # r /\ phase[q] \in Cleaned
    BY <1>1, <1>3 DEF Cleaned
  <2>5. \A q \in Runs : phase[q] \in Cleaned => phase'[q] \in Cleaned
    BY <1>1, <1>3 DEF Cleaned
  <2> QED BY <1>1, <1>4, <2>1, <2>2, <2>3, <2>4, <2>5 DEF HoldsInv
<1>9. OwnedInv'
  <2>1. \A t \in Needs(r) : WillDelete(r, t)'
    BY <1>3, <1>6 DEF WillDelete, Before
  <2>2. \A t : WillDelete(r, t) => t \in Needs(r)
    BY <1>1 DEF WillDelete
  <2>3. \A t : MayStay(t)' <=> MayStay(t)
    BY <1>1 DEF MayStay
  <2>4. \A t \in exists' : MayStay(t)' \/ \E q \in Runs : WillDelete(q, t)'
    BY <1>1, <1>2, <1>7, <2>1, <2>2, <2>3 DEF OwnedInv
  <2>5. \A q \in Runs : phase'[q] = "preparing" => waiting'[q] \subseteq Needs(q)'
    BY <1>1, <1>3, <1>6 DEF OwnedInv
  <2> QED BY <2>4, <2>5 DEF OwnedInv
<1> QED BY <1>5, <1>8, <1>9 DEF TargetInv

\* A run that goes on before its cleanup, without holding anything more or less.
LEMMA MovingOnKeeps ==
  ASSUME TargetInv, TypeInv', NEW r \in Runs, phase[r] \in Before,
         phase'[r] \in {"polling", "running", "failed"},
         phase'[r] \in Told => phase[r] \in Told,
         \A q \in Runs \ {r} :
             phase'[q] = phase[q] /\ step'[q] = step[q] /\ waiting'[q] = waiting[q],
         UNCHANGED <<config, exists, holds, taken, blamed>>,
         \A request \in late' : request \in late \/ request.kind = "create"
  PROVE  TargetInv'
<1>1. HoldsInv /\ OwnedInv
  BY DEF TargetInv
<1>2. \A q \in Runs : Needs(q)' = Needs(q)
  BY StepsStayTheSame
<1>3. \A q \in Runs \ {r} :
         /\ Remaining(q, PrepareSteps(q))' = Remaining(q, PrepareSteps(q))
         /\ \A t : WillDelete(q, t) => WillDelete(q, t)'
  BY OthersAsBefore
<1>4. HoldsInv'
  <2>1. \A q \in Runs :
           phase'[q] = "preparing" =>
               Needs(q)' \subseteq holds'[q] \cup Remaining(q, PrepareSteps(q))'
    BY <1>1, <1>2, <1>3 DEF HoldsInv
  <2>2. \A q \in Runs : phase'[q] \in Told => Needs(q)' \subseteq holds'[q]
    BY <1>1, <1>2 DEF HoldsInv, Told
  <2>3. \A q \in Runs : phase'[q] \in Cleaned <=> phase[q] \in Cleaned
    BY DEF Cleaned, Before
  <2>4. \A request \in late' :
           request.kind = "delete" => request.run \in Runs /\ phase'[request.run] \in Cleaned
    BY <1>1, <2>3 DEF HoldsInv
  <2> QED BY <1>1, <2>1, <2>2, <2>3, <2>4 DEF HoldsInv
<1>5. OwnedInv'
  <2>1. \A t : WillDelete(r, t) => WillDelete(r, t)'
    BY <1>2 DEF WillDelete, Before
  <2>2. \A t : MayStay(t)' <=> MayStay(t)
    BY DEF MayStay
  <2>3. \A t \in exists' : MayStay(t)' \/ \E q \in Runs : WillDelete(q, t)'
    BY <1>1, <1>3, <2>1, <2>2 DEF OwnedInv
  <2>4. \A q \in Runs : phase'[q] = "preparing" => waiting'[q] \subseteq Needs(q)'
    BY <1>1, <1>2 DEF OwnedInv
  <2> QED BY <2>3, <2>4 DEF OwnedInv
<1> QED BY <1>4, <1>5 DEF TargetInv

LEMMA NotCreatedKeeps ==
  ASSUME TargetInv, NEW r \in Runs, NEW thing, NotCreated(r, thing)
  PROVE  TargetInv'
<1>1. /\ TypeInv /\ phase[r] = "preparing"
      /\ late' = late \cup {Request("create", r, t) : t \in waiting[r]}
      /\ phase' = [phase EXCEPT ![r] = "failed"]
      /\ waiting' = [waiting EXCEPT ![r] = {}]
      /\ UNCHANGED <<step, config, exists, holds, taken, blamed>>
  BY DEF TargetInv, NotCreated, Abandon, histVars
<1>2. /\ phase' \in [Runs -> Before \cup Cleaned] /\ phase'[r] = "failed"
      /\ waiting' = [q \in Runs |-> waiting'[q]]
      /\ \A q \in Runs \ {r} : phase'[q] = phase[q] /\ waiting'[q] = waiting[q]
  BY <1>1 DEF TypeInv, Before
<1>3. TypeInv'
  BY <1>1, <1>2 DEF TypeInv
<1>4. \A request \in late' : request \in late \/ request.kind = "create"
  BY <1>1 DEF Request
<1> QED BY <1>1, <1>2, <1>3, <1>4, MovingOnKeeps DEF Before, Told

LEMMA StartPollingKeeps ==
  ASSUME TargetInv, NEW r \in Runs, StartPolling(r)
  PROVE  TargetInv'
<1>1. /\ TypeInv /\ phase[r] = "created"
      /\ Advance(r, PollSteps(r), 0, "polling", "running")
      /\ UNCHANGED <<config, exists, late, holds, taken, blamed>>
  BY DEF TargetInv, StartPolling, Begin, histVars
<1>2. DOMAIN PollSteps(r) \subseteq Nat
  BY <1>1, ConfigIsSequences
<1>3. {"polling", "running"} \subseteq Before \cup Cleaned
  BY DEF Before
<1>4. /\ Moves(r)
      /\ phase'[r] \in {"polling", "running"}
  BY <1>1, <1>2, <1>3, AdvanceGoesOn
<1> USE DEF Moves
<1>5. TypeInv'
  BY <1>1, <1>4 DEF TypeInv
<1> QED BY <1>1, <1>4, <1>5, MovingOnKeeps DEF Before, Told

LEMMA WarehouseReadyKeeps ==
  ASSUME TargetInv, NEW r \in Runs, NEW warehouse, WarehouseReady(r, warehouse)
  PROVE  TargetInv'
<1>1. /\ TypeInv /\ phase[r] = "polling"
      /\ Proceed(r, warehouse, PollSteps(r), "running")
      /\ UNCHANGED <<config, exists, late, holds, taken, blamed>>
  BY DEF TargetInv, WarehouseReady, histVars
<1>2. DOMAIN PollSteps(r) \subseteq Nat
  BY <1>1, ConfigIsSequences
<1>3. "running" \in Before \cup Cleaned
  BY DEF Before
<1>4. /\ Moves(r)
      /\ phase'[r] \in {"polling", "running"}
  BY <1>1, <1>2, <1>3, ProceedGoesOn DEF Continues
<1> USE DEF Moves
<1>5. TypeInv'
  BY <1>1, <1>4 DEF TypeInv
<1> QED BY <1>1, <1>4, <1>5, MovingOnKeeps DEF Before, Told
-----------------------------------------------------------------------------
(* The steps of a cleanup *)

LEMMA StartCleanupKeeps ==
  ASSUME TargetInv, NEW r \in Runs, StartCleanup(r)
  PROVE  TargetInv'
<1>1. /\ TypeInv /\ HoldsInv /\ OwnedInv /\ phase[r] \in {"running", "failed"}
      /\ Begin(r, CleanupSteps(r), "cleaning", "gone")
      /\ holds' = [holds EXCEPT ![r] = {}]
      /\ UNCHANGED <<config, exists, late, taken, blamed>>
  BY DEF TargetInv, StartCleanup
<1>2. DOMAIN CleanupSteps(r) \subseteq Nat \ {0}
  BY <1>1, WhatIsDeleted
<1>3. /\ Moves(r)
      /\ \/ phase'[r] = "gone" /\ Things(CleanupSteps(r)) = {}
         \/ /\ phase'[r] = "cleaning"
            /\ Things(CleanupSteps(r)) \subseteq Remaining(r, CleanupSteps(r))'
  <2>1. CleanupSteps(r)' = CleanupSteps(r)
    BY <1>1, StepsStayTheSame
  <2> QED BY <1>1, <1>2, <2>1, BeginAsksForAll DEF Remaining, Cleaned
<1> USE DEF Moves
<1>4. /\ holds' = [q \in Runs |-> holds'[q]] /\ holds'[r] = {}
      /\ \A q \in Runs \ {r} : holds'[q] = holds[q]
  BY <1>1 DEF TypeInv
<1>5. TypeInv'
  BY <1>1, <1>3, <1>4 DEF TypeInv
<1>6. \A q \in Runs : Needs(q)' = Needs(q)
  BY <1>1, StepsStayTheSame
<1>7. \A q \in Runs \ {r} :
         /\ Remaining(q, PrepareSteps(q))' = Remaining(q, PrepareSteps(q))
         /\ \A t : WillDelete(q, t) => WillDelete(q, t)'
  BY <1>1, <1>3, OthersAsBefore
<1>8. HoldsInv'
  <2>1. \A q \in Runs : \A t \in holds'[q] : t \in exists' \/ <<q, t>> \in taken'
    BY <1>1, <1>4 DEF HoldsInv
  <2>2. \A q \in Runs :
           phase'[q] = "preparing" =>
               Needs(q)' \subseteq holds'[q] \cup Remaining(q, PrepareSteps(q))'
    BY <1>1, <1>3, <1>4, <1>6, <1>7 DEF HoldsInv
  <2>3. \A q \in Runs : phase'[q] \in Told => Needs(q)' \subseteq holds'[q]
    BY <1>1, <1>3, <1>4, <1>6 DEF HoldsInv, Told
  <2>4. \A q \in Runs : phase'[q] \in Cleaned => q = r \/ phase[q] \in Cleaned
    BY <1>3
  <2>5. \A q \in Runs : phase[q] \in Cleaned => phase'[q] \in Cleaned
    BY <1>1, <1>3 DEF Cleaned
  <2> QED BY <1>1, <1>4, <2>1, <2>2, <2>3, <2>4, <2>5 DEF HoldsInv
<1>9. OwnedInv'
  <2>1. \A t : MayStay(t)' <=> MayStay(t)
    BY <1>1 DEF MayStay
  <2>2. \A t : WillDelete(r, t) => t \in Needs(r)
    BY <1>1 DEF WillDelete
  <2>3. \A t \in Needs(r) : WillDelete(r, t)' \/ MayStay(t)
    BY <1>1, <1>3, CleanupCovers DEF WillDelete
  <2>4. \A t \in exists' : MayStay(t)' \/ \E q \in Runs : WillDelete(q, t)'
    BY <1>1, <1>7, <2>1, <2>2, <2>3 DEF OwnedInv
  <2>5. \A q \in Runs : phase'[q] = "preparing" => waiting'[q] \subseteq Needs(q)'
    BY <1>1, <1>3, <1>6 DEF OwnedInv
  <2> QED BY <2>4, <2>5 DEF OwnedInv
<1> QED BY <1>5, <1>8, <1>9 DEF TargetInv

\* An answer in a cleanup: the thing is gone, or its deletion is to blame.
LEMMA CleaningKeeps ==
  ASSUME TargetInv, NEW r \in Runs, NEW thing, phase[r] = "cleaning",
         Proceed(r, thing, CleanupSteps(r), "gone"),
         UNCHANGED <<config, holds>>,
         exists' \subseteq exists, thing \notin exists' \/ thing \in blamed',
         blamed \subseteq blamed', taken \subseteq taken',
         \A q \in Runs : \A t \in holds[q] \cap exists : t \in exists' \/ <<q, t>> \in taken',
         \A request \in late' : request \in late \/ request.run = r
  PROVE  TargetInv'
<1>1. TypeInv /\ HoldsInv /\ OwnedInv
  BY DEF TargetInv
<1> DEFINE steps == CleanupSteps(r)
<1>2. DOMAIN steps \subseteq Nat /\ Proceed(r, thing, steps, "gone")
  BY <1>1, WhatIsDeleted
<1>3. Remaining(r, CleanupSteps(r))'
          = waiting'[r] \cup UNION {steps[k] : k \in Following(steps, step'[r])}
  BY StepsStayTheSame DEF Remaining
<1>4. Remaining(r, CleanupSteps(r)) = Remaining(r, steps)
  OBVIOUS
<1> HIDE DEF steps
<1>5. "gone" \in Before \cup Cleaned
  BY DEF Cleaned
<1>6. Moves(r) /\ Continues(r, thing, steps, "gone")
  BY <1>1, <1>2, <1>5, ProceedGoesOn
<1>7. phase'[r] \in Cleaned
  BY <1>6 DEF Continues, Cleaned
<1> USE DEF Moves
<1>8. TypeInv'
  BY <1>1, <1>6 DEF TypeInv
<1>9. \A q \in Runs : Needs(q)' = Needs(q)
  BY StepsStayTheSame
<1>10. \A q \in Runs \ {r} :
         /\ Remaining(q, PrepareSteps(q))' = Remaining(q, PrepareSteps(q))
         /\ \A t : WillDelete(q, t) => WillDelete(q, t)'
  BY <1>6, OthersAsBefore
<1>11. HoldsInv'
  <2>1. \A q \in Runs : \A t \in holds'[q] : t \in exists' \/ <<q, t>> \in taken'
    BY <1>1 DEF HoldsInv
  <2>2. \A q \in Runs :
           phase'[q] = "preparing" =>
               Needs(q)' \subseteq holds'[q] \cup Remaining(q, PrepareSteps(q))'
    BY <1>1, <1>6, <1>9, <1>10, <1>7 DEF HoldsInv, Cleaned
  <2>3. \A q \in Runs : phase'[q] \in Told => Needs(q)' \subseteq holds'[q]
    BY <1>1, <1>6, <1>9, <1>7 DEF HoldsInv, Told, Cleaned
  <2>4. \A q \in Runs : phase'[q] \in Cleaned <=> phase[q] \in Cleaned
    BY <1>6, <1>7 DEF Cleaned
  <2>5. \A request \in late' :
           request.kind = "delete" => request.run \in Runs /\ phase'[request.run] \in Cleaned
    BY <1>1, <2>4 DEF HoldsInv, Cleaned
  <2> QED BY <1>1, <2>1, <2>2, <2>3, <2>4, <2>5 DEF HoldsInv
<1>12. OwnedInv'
  <2>1. \A t : MayStay(t) => MayStay(t)'
    BY DEF MayStay
  <2>2. \A t : WillDelete(r, t) => WillDelete(r, t)' \/ t = thing
    BY <1>3, <1>4, <1>6 DEF Continues, WillDelete, Before
  <2>3. thing \in exists' => MayStay(thing)'
    BY DEF MayStay
  <2>4. \A t \in exists' : MayStay(t)' \/ \E q \in Runs : WillDelete(q, t)'
    BY <1>1, <1>10, <2>1, <2>2, <2>3 DEF OwnedInv
  <2>5. \A q \in Runs : phase'[q] = "preparing" => waiting'[q] \subseteq Needs(q)'
    BY <1>1, <1>6, <1>9, <1>7 DEF OwnedInv, Cleaned
  <2> QED BY <2>4, <2>5 DEF OwnedInv
<1> QED BY <1>8, <1>11, <1>12 DEF TargetInv

LEMMA DeletedKeeps ==
  ASSUME TargetInv, NEW r \in Runs, NEW thing, Deleted(r, thing)
  PROVE  TargetInv'
<1>1. /\ phase[r] = "cleaning" /\ HoldsInv
      /\ exists' = exists \ {thing}
      /\ taken' = taken \cup {<<other, thing>> : other \in {o \in Runs \ {r} : thing \in holds[o]}}
      /\ Proceed(r, thing, CleanupSteps(r), "gone")
      /\ UNCHANGED <<config, late, holds, blamed>>
  BY DEF TargetInv, Deleted, TakeAway
<1>2. holds[r] = {}
  BY <1>1 DEF HoldsInv, Cleaned
<1>3. \A q \in Runs : \A t \in holds[q] \cap exists : t \in exists' \/ <<q, t>> \in taken'
  BY <1>1, <1>2
<1> QED BY <1>1, <1>3, CleaningKeeps

LEMMA NotDeletedKeeps ==
  ASSUME TargetInv, NEW r \in Runs, NEW thing, NotDeleted(r, thing)
  PROVE  TargetInv'
<1>1. /\ phase[r] = "cleaning"
      /\ late' = late \cup {Request("delete", r, thing)}
      /\ blamed' = blamed \cup {thing}
      /\ Proceed(r, thing, CleanupSteps(r), "gone")
      /\ UNCHANGED <<config, exists, holds, taken>>
  BY DEF NotDeleted
<1>2. \A request \in late' : request \in late \/ request.run = r
  BY <1>1 DEF Request
<1> QED BY <1>1, <1>2, CleaningKeeps
-----------------------------------------------------------------------------
(* Requests that nobody waits for *)

LEMMA LateKeeps ==
  ASSUME TargetInv, UNCHANGED <<config, runVars, holds>>,
         late' \subseteq late, exists' \subseteq exists \cup blamed',
         blamed \subseteq blamed', taken \subseteq taken',
         \A q \in Runs : \A t \in holds[q] \cap exists : t \in exists' \/ <<q, t>> \in taken'
  PROVE  TargetInv'
<1>1. /\ TypeInv /\ HoldsInv /\ OwnedInv
      /\ UNCHANGED <<phase, step, waiting>>
  BY DEF TargetInv, runVars
<1>2. TypeInv'
  BY <1>1 DEF TypeInv
<1>3. \A q \in Runs : Needs(q)' = Needs(q)
  BY StepsStayTheSame
<1>4. \A q \in Runs :
         /\ Remaining(q, PrepareSteps(q))' = Remaining(q, PrepareSteps(q))
         /\ \A t : WillDelete(q, t) => WillDelete(q, t)'
  BY <1>1, OthersAsBefore
<1>5. HoldsInv'
  <2>1. \A q \in Runs : \A t \in holds'[q] : t \in exists' \/ <<q, t>> \in taken'
    BY <1>1 DEF HoldsInv
  <2>2. \A q \in Runs :
           phase'[q] = "preparing" =>
               Needs(q)' \subseteq holds'[q] \cup Remaining(q, PrepareSteps(q))'
    BY <1>1, <1>3, <1>4 DEF HoldsInv
  <2>3. \A q \in Runs : phase'[q] \in Told => Needs(q)' \subseteq holds'[q]
    BY <1>1, <1>3 DEF HoldsInv
  <2> QED BY <1>1, <2>1, <2>2, <2>3 DEF HoldsInv
<1>6. OwnedInv'
  <2>1. \A t : MayStay(t) => MayStay(t)'
    BY DEF MayStay
  <2>2. \A t \in blamed' : MayStay(t)'
    BY DEF MayStay
  <2>3. \A t \in exists' : MayStay(t)' \/ \E q \in Runs : WillDelete(q, t)'
    BY <1>1, <1>4, <2>1, <2>2 DEF OwnedInv
  <2>4. \A q \in Runs : phase'[q] = "preparing" => waiting'[q] \subseteq Needs(q)'
    BY <1>1, <1>3 DEF OwnedInv
  <2> QED BY <2>3, <2>4 DEF OwnedInv
<1> QED BY <1>2, <1>5, <1>6 DEF TargetInv

LEMMA LateDeleteKeeps ==
  ASSUME TargetInv, NEW request, LateDelete(request)
  PROVE  TargetInv'
<1> DEFINE thing == request.thing
           r     == request.run
<1>1. /\ r \in Runs /\ holds[r] = {}
  BY DEF TargetInv, HoldsInv, LateDelete
<1>2. /\ late' = late \ {request}
      /\ exists' = exists \ {thing}
      /\ taken' = taken \cup {<<other, thing>> : other \in {o \in Runs \ {r} : thing \in holds[o]}}
      /\ UNCHANGED <<config, runVars, holds, blamed>>
  BY DEF LateDelete, TakeAway
<1> HIDE DEF thing, r
<1>3. \A q \in Runs : \A t \in holds[q] \cap exists : t \in exists' \/ <<q, t>> \in taken'
  BY <1>1, <1>2
<1> QED BY <1>2, <1>3, LateKeeps

LEMMA OtherLateKeeps ==
  ASSUME TargetInv, NEW request, LateCreate(request) \/ NeverHandled(request)
  PROVE  TargetInv'
<1>1. /\ late' \subseteq late
      /\ UNCHANGED <<config, runVars, holds, taken>>
      /\ exists \subseteq exists' /\ exists' \subseteq exists \cup blamed'
      /\ blamed \subseteq blamed'
  BY DEF LateCreate, NeverHandled, histVars
<1> QED BY <1>1, LateKeeps
-----------------------------------------------------------------------------
(* The theorems *)

LEMMA TargetInvariant == Spec => []TargetInv
<1>1. Init => TargetInv
  <2> SUFFICES ASSUME Init PROVE TargetInv
    OBVIOUS
  <2>1. TypeInv
    BY DEF Init, TypeInv, Before
  <2>2. \A r \in Runs : phase[r] = "pending" /\ holds[r] = {}
    BY DEF Init
  <2>3. HoldsInv
    BY <2>2 DEF Init, HoldsInv, Told, Cleaned
  <2>4. OwnedInv
    BY <2>2 DEF Init, OwnedInv
  <2> QED BY <2>1, <2>3, <2>4 DEF TargetInv
<1>2. TargetInv /\ [Next]_vars => TargetInv'
  <2> SUFFICES ASSUME TargetInv, [Next]_vars PROVE TargetInv'
    OBVIOUS
  <2>1. ASSUME NEW r \in Runs, StartPrepare(r) PROVE TargetInv'
    BY <2>1, StartPrepareKeeps
  <2>2. ASSUME NEW r \in Runs, NEW thing \in waiting[r], Created(r, thing) PROVE TargetInv'
    BY <2>2, CreatedKeeps
  <2>3. ASSUME NEW r \in Runs, NEW thing \in waiting[r], NotCreated(r, thing) PROVE TargetInv'
    BY <2>3, NotCreatedKeeps
  <2>4. ASSUME NEW r \in Runs, StartPolling(r) PROVE TargetInv'
    BY <2>4, StartPollingKeeps
  <2>5. ASSUME NEW r \in Runs, NEW warehouse \in waiting[r], WarehouseReady(r, warehouse)
        PROVE  TargetInv'
    BY <2>5, WarehouseReadyKeeps
  <2>6. ASSUME NEW r \in Runs, StartCleanup(r) PROVE TargetInv'
    BY <2>6, StartCleanupKeeps
  <2>7. ASSUME NEW r \in Runs, NEW thing \in waiting[r], Deleted(r, thing) PROVE TargetInv'
    BY <2>7, DeletedKeeps
  <2>8. ASSUME NEW r \in Runs, NEW thing \in waiting[r], NotDeleted(r, thing) PROVE TargetInv'
    BY <2>8, NotDeletedKeeps
  <2>9. ASSUME NEW request \in late, LateDelete(request) PROVE TargetInv'
    BY <2>9, LateDeleteKeeps
  <2>10. ASSUME NEW request \in late, LateCreate(request) \/ NeverHandled(request)
         PROVE  TargetInv'
    BY <2>10, OtherLateKeeps
  <2>11. CASE UNCHANGED vars
    BY <2>11, LateKeeps DEF vars, histVars
  <2> QED BY <2>1, <2>2, <2>3, <2>4, <2>5, <2>6, <2>7, <2>8, <2>9, <2>10, <2>11
          DEF Next, Answered, Polled
<1> QED BY <1>1, <1>2, PTL DEF Spec

\* A run that is told it is prepared has everything it needs, but for what another
\* run has deleted since (Mach5Adapter::prepare and cleanup, handle_preparing).
THEOREM PreparedAlwaysComplete == Spec => []PreparedIsComplete
<1>1. TargetInv => PreparedIsComplete
  BY DEF TargetInv, HoldsInv, PreparedIsComplete, Told
<1> QED BY <1>1, TargetInvariant, PTL

\* When all runs are gone, what is left is a protected namespace or warehouse, or
\* had its deletion fail or its creation come late (Mach5Adapter::cleanup).
THEOREM LeftoversAlwaysBlamed == Spec => []LeftoversBlamed
<1>1. TargetInv => LeftoversBlamed
  BY DEF TargetInv, OwnedInv, WillDelete, Before, LeftoversBlamed
<1> QED BY <1>1, TargetInvariant, PTL
=============================================================================

----------------------------- MODULE MCSqlLanes -----------------------------
(* A session of a derived kind, one with a wide category, one whose category   *)
(* holds a query of another and one of none, and the rate-controlled loop.     *)
EXTENDS SqlLanes, TLC

OfQuery ==
    "a1" :> "alerts" @@ "a2" :> "alerts" @@ "d1" :> "drill" @@ "d2" :> "drill" @@ "free" :> ""

Category(queries, iteration, parallelism) ==
    [queries |-> queries, iteration |-> iteration, parallelism |-> parallelism]

Derived ==
    [outer |-> FALSE, ticks |-> 3,
     categories |-> <<Category(<<"a1", "a2">>, "Sequential", 1),
                      Category(<<"d1">>, "Sequential", 1)>>]

Wide ==
    [outer |-> FALSE, ticks |-> 2,
     categories |-> <<Category(<<"a1", "a2">>, "Sequential", 2),
                      Category(<<"d1", "d2">>, "WeightedRandom", 1)>>]

Authored ==
    [outer |-> FALSE, ticks |-> 2,
     categories |-> <<Category(<<"a1", "free">>, "Sequential", 1),
                      Category(<<"a2", "d1">>, "WeightedRandom", 1)>>]

Paced ==
    [outer |-> TRUE, ticks |-> 3,
     categories |-> <<Category(<<"a1", "d1", "free">>, "WeightedRandom", 1)>>]

AllWorkloads == {Derived, Wide, Authored, Paced}
=============================================================================

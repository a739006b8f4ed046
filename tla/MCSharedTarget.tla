--------------------------- MODULE MCSharedTarget ---------------------------
(* Two runs that share nothing, names, a namespace or everything. *)
EXTENDS SharedTarget

TwoRuns == {"r1", "r2"}

Of(namespace, indexes, warehouses) ==
    [namespace |-> namespace, indexes |-> indexes, warehouses |-> warehouses]

Pair(a, b) == [r \in TwoRuns |-> IF r = "r1" THEN a ELSE b]

Logs == Of("bench", <<"logs">>, <<"wh">>)

AllConfigs ==
    {Pair(Logs, Logs),
     Pair(Logs, Of("other", <<"logs">>, <<"wh">>)),
     Pair(Logs, Of("bench", << >>, <<"wh2">>)),
     Pair(Of("bench", <<"logs", "audit">>, <<"wh">>), Of("default", << >>, <<"wh">>)),
     Pair(Of("default", <<"logs">>, <<"wh2", "wh1">>), Of("default", <<"logs">>, <<"wh1">>))}
=============================================================================

----------------------------- MODULE MCExecutor -----------------------------
(* Executor for TLC: three plans that between them use everything it has. *)
EXTENDS Executor

\* A selector, the gate's target with a child, and beside them a chain whose
\* second node has the target's key; the target is speculated on.
Gate ==
    [nodes |-> 1 .. 5, compiled |-> 1 .. 5, edges |-> {<<2, 3>>, <<4, 5>>},
     key |-> [n \in 1 .. 5 |-> IF n = 5 THEN 2 ELSE n],
     gated |-> TRUE, selector |-> 1, target |-> 2, speculates |-> TRUE, control |-> FALSE,
     advisory |-> {1}, map_parent |-> 3, shards |-> {}, trials |-> {}, max_in_flight |-> 3,
     bypass_cache |-> FALSE,
     faults |-> {"stage", "panic", "withdraw", "cancel", "deadline", "publish", "cleanup", "build"}]

\* A fork whose arms 2 and 3 share a key, joined at 4; 2 also selects 5, a child
\* of the root.  4 fans out into two shards of two nodes; 10 is a trial.
Fork ==
    [nodes |-> 1 .. 10, compiled |-> 1 .. 5,
     edges |-> {<<1, 2>>, <<1, 3>>, <<2, 4>>, <<3, 4>>, <<1, 5>>, <<6, 7>>, <<8, 9>>},
     key |-> [n \in 1 .. 10 |-> IF n = 3 THEN 2 ELSE n],
     gated |-> TRUE, selector |-> 2, target |-> 5, speculates |-> FALSE, control |-> TRUE,
     advisory |-> {3}, map_parent |-> 4, shards |-> {{6, 7}, {8, 9}}, trials |-> {{10}},
     max_in_flight |-> 2, bypass_cache |-> FALSE, faults |-> {"stage", "inject"}]

\* Two nodes with one key and a child of both, with a cache that loses what it is
\* given, or that is not read; the first one is advisory.  A fourth runs beside them.
Twins(bypass) ==
    [nodes |-> 1 .. 4, compiled |-> 1 .. 4, edges |-> {<<1, 3>>, <<2, 3>>},
     key |-> [n \in 1 .. 4 |-> IF n = 2 THEN 1 ELSE n],
     gated |-> FALSE, selector |-> 1, target |-> 1, speculates |-> FALSE, control |-> TRUE,
     advisory |-> {1}, map_parent |-> 3, shards |-> {}, trials |-> {},
     max_in_flight |-> 2, bypass_cache |-> bypass,
     faults |-> {"stage", "other", "withdraw", "cache", "cancel", "deadline"}]

ThreePlans == {Gate, Fork, Twins(TRUE), Twins(FALSE)}
=============================================================================

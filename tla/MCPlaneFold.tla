----------------------------- MODULE MCPlaneFold ------------------------------
(* PlaneFold for TLC: trees over two symbols and a third key that only       *)
(* others hold, with a call between the symbols.                             *)
EXTENDS PlaneFold

CONSTANTS a, b, m, L1, L2, c1, c2, calls

Is(l, c) == [label |-> l, content |-> c]

SmallTrees ==
    {[node |-> [k \in Keys |-> IF k = a THEN x ELSE IF k = b THEN y ELSE None],
      edge |-> [t \in Triples |-> IF t = <<a, calls, b>> THEN z ELSE None]] :
        x \in {Is(L1, c1), Is(L1, c2)}, y \in {None, Is(L1, c1), Is(L2, c1)},
        z \in {None, c1, c2}}

SmallForeign == {[key |-> k, label |-> L1, content |-> c1] : k \in {b, m}}
===============================================================================

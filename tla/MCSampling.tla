---------------------------- MODULE MCSampling ----------------------------
(* Streams over newlines and one other unit, small budgets with the edges.   *)
EXTENDS Sampling

B(prefix, window, windows, maxBytes) ==
  [prefix |-> prefix, window |-> window, windows |-> windows, maxBytes |-> maxBytes]

SmallBudgets ==
  {B(1, 1, 2, 9), B(0, 2, 1, 9), B(0, 1, 3, 2), B(2, 2, 1, 3), B(2, 0, 2, 9),
   B(0, 0, 0, 9), B(2, 1, 0, 9), B(1, 2, 2, 9), B(3, 1, 1, 0)}
OneBudget == {B(1, 1, 2, 9)}

SmallChunks == UNION {[1 .. n -> Unit] : n \in 0 .. 3}
=============================================================================

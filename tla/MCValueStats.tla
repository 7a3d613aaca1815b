---------------------------- MODULE MCValueStats ----------------------------
(* Four skeletons, each with a length of its own, and a string of a format.  *)
EXTENDS ValueStats

Skeletons == 1 .. 4

Other(k) == [len |-> 2 * k - 2, format |-> "other", skeleton |-> k]
Texts == {Other(k) : k \in Skeletons} \cup {[len |-> 5, format |-> "uuid", skeleton |-> 4]}

Numbers == {[halves |-> -4, kind |-> "i64"], [halves |-> -1, kind |-> "f64"],
            [halves |-> 0, kind |-> "i64"], [halves |-> 1, kind |-> "f64"],
            [halves |-> 2, kind |-> "f64"], [halves |-> 4, kind |-> "u64"]}
=============================================================================

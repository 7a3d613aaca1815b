---------------------------- MODULE MCFinalizer ----------------------------
(* Documents over three keys and two scalar kinds; with so few documents two  *)
(* thirds make an array a tuple, and two scattered keys a map.  The name of    *)
(* the second key holds a dot: the paths of a report may collide.  An arena    *)
(* may outgrow the integers of the messages.                                  *)
EXTENDS Snapshot, ReportShape, ReportText

Ranks == {1, 2, 3}
Names == <<<<97>>, <<97, 46, 98>>, <<98>>>>   \* a, a.b, b
TwoThirds == <<2, 3>>

\* No limit at all, and limits of zero.
BailPolicies ==
  {[reason |-> "", maxEvictionRate |-> <<>>, maxDocs |-> <<>>, minDocsBeforeBail |-> 1],
   [reason |-> "audit", maxEvictionRate |-> <<0>>, maxDocs |-> <<0>>, minDocsBeforeBail |-> 0]}
=============================================================================

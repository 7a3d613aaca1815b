------------------------------ MODULE MCIngest ------------------------------
(* Documents over two keys and one or two scalar kinds.                      *)
EXTENDS Ingest

Ranks == {1, 2}
=============================================================================

------------------------------ MODULE MCHandle ------------------------------
(* Buffers of up to two lines.                                               *)
EXTENDS Handle, TLC

Buffers ==
  {<<"document">>, <<"document", "document">>, <<"faulty", "document">>, <<"blank", "document">>,
   <<"blank", "faulty">>}

\* Addresses are only told apart.
Anywhere == Permutations(Address)
=============================================================================

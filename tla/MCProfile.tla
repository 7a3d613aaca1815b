----------------------------- MODULE MCProfile -----------------------------
(* Files of FileLength bytes over three alphabets: brackets and strings,     *)
(* delimiters and quotes, indentation and line ends.                         *)
EXTENDS Profile

CONSTANT FileLength

Alphabets ==
  {{"quote", "backslash", "newline", "openObject", "closeObject"},
   {"quote", "comma", "newline", "digit"},
   {"return", "newline", "tab", "digit"}}

Files == UNION {[1 .. FileLength -> bytes] : bytes \in Alphabets}

(* The whole file; a prefix and two windows; a prefix and windows that are   *)
(* longer than their stride.                                                 *)
SampleBudgets ==
  {[prefix |-> 1, window |-> 2, windows |-> 2, maxBytes |-> FileLength],
   [prefix |-> 1, window |-> 2, windows |-> 2, maxBytes |-> 2],
   [prefix |-> 3, window |-> 2, windows |-> 2, maxBytes |-> 2]}

Grams == {2, 3}
=============================================================================

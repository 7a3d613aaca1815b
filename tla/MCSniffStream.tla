--------------------------- MODULE MCSniffStream ---------------------------
(* Raw streams of up to nine bytes, with and without a byte order mark.      *)
EXTENDS SniffStream

B(prefix, window, windows, maxBytes) ==
  [prefix |-> prefix, window |-> window, windows |-> windows, maxBytes |-> maxBytes]

OneBudget == {B(2, 1, 1, 9)}

Bytes == 0 .. 255
Body == {0, 10, 97}
Marks == {<<>>, <<255, 254>>, <<254, 255>>, <<239, 187, 191>>, <<255, 254, 0, 0>>}

MarkedBody == {0, 10}

Short(n, bytes) == [1 .. n -> bytes]
ShortInputs ==
  {mark \o body : mark \in Marks, body \in Short(5, MarkedBody)} \cup Short(6, Body)
=============================================================================

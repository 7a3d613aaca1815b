------------------------------ MODULE Messages ------------------------------
(***************************************************************************)
(* Protocol buffers as far as the snapshot uses them: messages are         *)
(* records, a repeated field is a sequence, an optional field a sequence   *)
(* of at most one.  A map goes out as a list of entries.                   *)
(***************************************************************************)
EXTENDS Naturals, FiniteSets, FiniteSetsExt, SequencesExt

Entries(f) == SetToSeq({[key |-> k, value |-> f[k]] : k \in DOMAIN f})

\* Of two entries for a key the last one counts.
LastAt(list, k) == Max({i \in DOMAIN list : list[i].key = k})
FromEntries(list) ==
  [k \in {list[i].key : i \in DOMAIN list} |-> list[LastAt(list, k)].value]

Optional(present, value) == IF present THEN <<value>> ELSE <<>>
=============================================================================

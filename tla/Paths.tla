------------------------------- MODULE Paths -------------------------------
(***************************************************************************)
(* What the analyzer promises, without its arena: a table from paths to    *)
(* the number of values seen there.  A path is a sequence of steps from    *)
(* the root: a key, an item position, any other key, any other item.  The  *)
(* table chooses freely when a container stops giving its keys or items    *)
(* paths of their own; it promises only that                               *)
(*   - every value is counted once, at a path that its place matches;      *)
(*   - a key that has a path of its own keeps it, and items have paths of  *)
(*     their own from the first on, without gaps;                          *)
(*   - once a container has spilled it starts no new path of its own, and  *)
(*     an array counts all items at the shared path from then on.          *)
(***************************************************************************)
EXTENDS Naturals, Sequences

CONSTANTS
  Key,     \* object keys
  Nowhere  \* not a path

VARIABLES
  count,    \* a function from the paths known to the values counted there
  spilled,  \* the shared paths ("any key", "any item") in use
  open,     \* the paths of the open containers, outermost first, with their kind
  goal      \* the path of the value that comes next, or Nowhere if it is an
            \* item or a document has yet to begin

pathVars == <<count, spilled, open, goal>>

Own(p, step) == Append(p, step)
Shared(p, kind) == Append(p, <<"any", kind>>)
KeyStep(k) == <<"key", k>>
ItemStep(i) == <<"item", i>>

Known == DOMAIN count
Inner == open[Len(open)]
Inside(kind) == open # <<>> /\ Inner.kind = kind

\* The table with a path, new ones at zero, and with one more value counted.
With(table, p) ==
  [q \in DOMAIN table \cup {p} |-> IF q \in DOMAIN table THEN table[q] ELSE 0]
Plus(table, p) == [With(table, p) EXCEPT ![p] = @ + 1]

\* The paths that a key of the innermost object may take.
KeyGoals(k) ==
  LET own == Own(Inner.path, KeyStep(k))
      shared == Shared(Inner.path, "object")
  IN {p \in {own} : own \in Known \/ shared \notin spilled} \cup
     {p \in {shared} : own \notin Known}

\* The paths that the next item of the innermost array may take.
ItemGoals ==
  LET own == Own(Inner.path, ItemStep(Inner.items + 1))
      before == Own(Inner.path, ItemStep(Inner.items))
      shared == Shared(Inner.path, "array")
  IN {p \in {own} : shared \notin spilled /\ (Inner.items = 0 \/ before \in Known)} \cup
     {p \in {shared} : shared \in spilled \/ own \notin Known}

\* The paths that the next value may be counted at.
Goals == IF goal # Nowhere THEN {goal} ELSE IF Inside("array") THEN ItemGoals ELSE {}

\* The innermost array has begun one more item, unless a goal was set.
Begun == IF goal # Nowhere THEN open ELSE [open EXCEPT ![Len(open)].items = @ + 1]

\* Going to a shared path for the first time spills its container.
Spill(p) ==
  spilled' = spilled \cup {q \in {p} : q # <<>> /\ q[Len(q)][1] = "any"}

Init ==
  /\ count = [p \in {<<>>} |-> 0]
  /\ spilled = {}
  /\ open = <<>>
  /\ goal = Nowhere

Begin ==
  /\ open = <<>> /\ goal = Nowhere
  /\ goal' = <<>>
  /\ UNCHANGED <<count, spilled, open>>

Name(k) ==
  /\ Inside("object") /\ goal = Nowhere
  /\ \E p \in KeyGoals(k) :
       /\ goal' = p
       /\ count' = With(count, p)
       /\ Spill(p)
  /\ UNCHANGED open

\* A scalar is counted.
Value ==
  /\ \E p \in Goals : count' = Plus(count, p) /\ Spill(p)
  /\ open' = Begun
  /\ goal' = Nowhere

\* A container is counted and opens; its shared path is known from then on.
Enter(kind) ==
  /\ \E p \in Goals :
       /\ count' = With(Plus(count, p), Shared(p, kind))
       /\ open' = Append(Begun, [path |-> p, kind |-> kind, items |-> 0])
       /\ Spill(p)
  /\ goal' = Nowhere

Leave ==
  /\ open # <<>> /\ goal = Nowhere
  /\ open' = SubSeq(open, 1, Len(open) - 1)
  /\ UNCHANGED <<count, spilled, goal>>

Next ==
  \/ Begin
  \/ \E k \in Key : Name(k)
  \/ Value
  \/ Enter("object") \/ Enter("array")
  \/ Leave

Spec == Init /\ [][Next]_pathVars
=============================================================================

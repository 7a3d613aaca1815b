---------------------------- MODULE IngestByPath ----------------------------
(***************************************************************************)
(* The arena implements the table of module Paths.  A node stands for the  *)
(* path that led to it when it was allocated, kept beside the arena in an  *)
(* auxiliary variable; the pending node is the goal; a view that has given *)
(* up is a spilled shared path.                                            *)
(***************************************************************************)
EXTENDS Ingest

CONSTANT Nowhere   \* for Paths: no path

\* The steps of a path: a key, an item, any other key, any other item.
PathStep ==
  ({"key"} \X Key) \cup ({"item"} \X Nat) \cup ({"any"} \X {"object", "array"})

ASSUME NowhereAssumption == Nowhere \notin Seq(PathStep)

VARIABLE pathOf   \* the path of every node of the arena

\* How the nodes of an arena are reached: from a node, by a step, to another.
Edges(ar) ==
  UNION {
    (IF ~HasObject(ar[u]) THEN {}
     ELSE {[from |-> u, step |-> <<"key", k>>, to |-> ar[u].object.fields[k]] :
             k \in DOMAIN ar[u].object.fields}
          \cup {[from |-> u, step |-> <<"any", "object">>, to |-> ar[u].object.mapValue]})
    \cup
    (IF ~HasArray(ar[u]) THEN {}
     ELSE {[from |-> u, step |-> <<"item", i>>, to |-> ar[u].array.positional[i]] :
             i \in DOMAIN ar[u].array.positional}
          \cup {[from |-> u, step |-> <<"any", "array">>, to |-> ar[u].array.bagValue]})
    : u \in DOMAIN ar}

\* The path of node t, whose parent has one.
PathTo(paths, ar, t) ==
  LET e == CHOOSE x \in Edges(ar) : x.to = t
  IN Append(paths[e.from], e.step)

\* The paths with that of the next node, if the arena has one more.
Grown(paths, ar) ==
  IF Len(paths) < Len(ar) THEN Append(paths, PathTo(paths, ar, Len(paths) + 1)) ELSE paths

\* The paths after an event: it makes a node for a key or an item and one for
\* the overflow of an accumulator, at most, the parent before the child.
Named(paths, ar) == Grown(Grown(paths, ar), ar)

PathInit == Init /\ pathOf = <<(<<>>)>>
PathNext == Next /\ pathOf' = Named(pathOf, arena')
PathSpec == PathInit /\ [][PathNext]_<<vars, pathOf>>

Table ==
  INSTANCE Paths WITH
    count   <- [p \in {pathOf[t] : t \in Nodes} |-> Obs(CHOOSE t \in Nodes : pathOf[t] = p)],
    spilled <- {pathOf[arena[t].object.mapValue] :
                  t \in {u \in Objects : ~arena[u].object.recordAlive}} \cup
               {pathOf[arena[t].array.bagValue] :
                  t \in {u \in Arrays : ~arena[u].array.positionalAlive}},
    open    <- [i \in DOMAIN stack |->
                  [path |-> pathOf[stack[i].node], kind |-> stack[i].kind,
                   items |-> stack[i].position]],
    goal    <- IF pending = None THEN Nowhere ELSE pathOf[pending]

\* Every event of the analyzer is a step of the table of paths: a value is
\* counted exactly once, under a path that matches where it stands, keys keep
\* their paths, and a container that has spilled stays spilled.
ImplementsTable == Table!Spec
=============================================================================

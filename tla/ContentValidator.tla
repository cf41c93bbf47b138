--------------------------- MODULE ContentValidator ---------------------------
(* check_circular_dependencies of a content pack: the depth-first search over *)
(* the research items, one visit at a time, on every small graph.             *)
EXTENDS Naturals, Sequences, FiniteSets

CONSTANT Items  \* research ids, numbered in the order of the pack

ItemsAssumption == Items \subseteq Nat /\ IsFiniteSet(Items)

VARIABLES
  graph,        \* [research item of the pack -> the items it depends on]
  roots,        \* items the outer loop has not visited yet
  active,       \* active_stack: [node, dependencies left to visit]
  visited,
  cycles        \* cycles reported so far

vars == <<graph, roots, active, visited, cycles>>

TypeOK ==
  /\ \E Pack \in SUBSET Items : graph \in [Pack -> SUBSET Items]
  /\ roots \subseteq DOMAIN graph /\ visited \subseteq DOMAIN graph
  /\ \A i \in 1..Len(active) : active[i].node \in visited
  /\ \A c \in cycles : Len(c) > 1

\* A dependency may name an item that the pack does not have.
Init ==
  /\ \E Pack \in SUBSET Items : graph \in [Pack -> SUBSET Items]
  /\ roots = DOMAIN graph /\ active = <<>> /\ visited = {} /\ cycles = {}

Least(S) == CHOOSE n \in S : \A m \in S : n <= m
Nodes(frames) == [i \in 1..Len(frames) |-> frames[i].node]
Place(n, frames) == {i \in 1..Len(frames) : frames[i].node = n}

\* Mutant: a node seen before is left alone, active or not.
VisitKnown(n, frames) ==
  IF n \in visited THEN active' = frames /\ UNCHANGED <<visited, cycles>>
  ELSE /\ visited' = visited \cup {n} /\ UNCHANGED cycles
       /\ active' = Append(frames, [node |-> n, left |-> graph[n] \cap DOMAIN graph])

\* visit(node): a node on the stack closes a cycle, a visited one is done.
Visit(n, frames) ==
  IF Place(n, frames) # {}
  THEN /\ LET path == SubSeq(Nodes(frames), Least(Place(n, frames)), Len(frames))
          IN cycles' = cycles \cup {Append(path, n)}
       /\ active' = frames /\ UNCHANGED visited
  ELSE IF n \in visited THEN active' = frames /\ UNCHANGED <<visited, cycles>>
  ELSE /\ visited' = visited \cup {n} /\ UNCHANGED cycles
       /\ active' = Append(frames, [node |-> n, left |-> graph[n] \cap DOMAIN graph])

VisitRoot ==
  /\ active = <<>> /\ roots # {}
  /\ roots' = roots \ {Least(roots)}
  /\ Visit(Least(roots), active) /\ UNCHANGED graph

Top == active[Len(active)]

VisitDependency ==
  /\ active # <<>> /\ Top.left # {}
  /\ LET n == Least(Top.left)
     IN Visit(n, [active EXCEPT ![Len(active)].left = @ \ {n}])
  /\ UNCHANGED <<graph, roots>>

Leave ==
  /\ active # <<>> /\ Top.left = {}
  /\ active' = SubSeq(active, 1, Len(active) - 1)
  /\ UNCHANGED <<graph, roots, visited, cycles>>

Next == VisitRoot \/ VisitDependency \/ Leave

Spec == Init /\ [][Next]_vars

-----------------------------------------------------------------------------
\* Some items of the pack, each of which depends on one of them: a finite graph
\* has such items exactly when it has a cycle.
Cyclic == \E C \in SUBSET DOMAIN graph : C # {} /\ \A n \in C : graph[n] \cap C # {}

\* The search reports a cycle if and only if the pack has one, whatever the
\* order of its items, and what it reports are cycles of the graph.
CyclesAreFound ==
  /\ (roots = {} /\ active = <<>>) =>
       ((cycles # {}) <=> Cyclic)
  /\ \A c \in cycles : /\ c[1] = c[Len(c)]
                       /\ \A i \in 1..Len(c) - 1 : c[i + 1] \in graph[c[i]]
=============================================================================

--------------------------- MODULE TopologicalDag ---------------------------
(***************************************************************************)
(* Data.TopologicalDag (src/graph): a depth-first search with white, gray  *)
(* and black nodes that tells whether a graph is acyclic and, if so, sorts *)
(* it.  The loader relies on both answers.  Go walks NodeMap and WeightTo  *)
(* in an arbitrary order, so every choice of the next node is allowed.     *)
(***************************************************************************)
EXTENDS Naturals, Sequences, FiniteSets

CONSTANTS Node, Edge    \* Edge: the graphs, as sets of pairs <<from, to>>

ASSUME TopoAssumption == IsFiniteSet(Node) /\ Edge \subseteq SUBSET (Node \X Node)

VARIABLES
  edge,     \* the graph: <<n, m>> when m is in WeightTo of n
  roots,    \* nodes of NodeMap the outer loop has not come to yet
  color,    \* Node.Color
  stack,    \* activations of topologicalDag: a node and its WeightTo left
  result,   \* sorted nodes
  isDag

topoVars == <<edge, roots, color, stack, result, isDag>>

WeightTo(n) == {m \in Node : <<n, m>> \in edge}

TopoInit ==
  /\ edge \in Edge
  /\ roots = Node
  /\ color = [n \in Node |-> "white"]
  /\ stack = <<>>
  /\ result = <<>>
  /\ isDag = TRUE

Activation(n) == [node |-> n, left |-> WeightTo(n)]

\* The outer loop: a node that is not white is passed over.
VisitRoot(n) ==
  /\ stack = <<>> /\ n \in roots
  /\ roots' = roots \ {n}
  /\ IF color[n] = "white"
       THEN /\ color' = [color EXCEPT ![n] = "gray"]
            /\ stack' = <<Activation(n)>>
       ELSE UNCHANGED <<color, stack>>
  /\ UNCHANGED <<edge, result, isDag>>

\* Mutant: a node met again on the way down is taken for finished.
VisitChildNoGray(m) ==
  /\ stack # <<>> /\ m \in Head(stack).left
  /\ LET rest == <<[Head(stack) EXCEPT !.left = @ \ {m}]>> \o Tail(stack)
     IN IF color[m] = "white"
          THEN /\ color' = [color EXCEPT ![m] = "gray"]
               /\ stack' = <<Activation(m)>> \o rest
          ELSE stack' = rest /\ UNCHANGED color
  /\ UNCHANGED <<edge, roots, result, isDag>>

\* The recursive call for the next member of WeightTo.
VisitChild(m) ==
  /\ stack # <<>> /\ m \in Head(stack).left
  /\ LET rest == <<[Head(stack) EXCEPT !.left = @ \ {m}]>> \o Tail(stack)
     IN IF color[m] = "white"
          THEN /\ color' = [color EXCEPT ![m] = "gray"]
               /\ stack' = <<Activation(m)>> \o rest
          ELSE stack' = rest /\ UNCHANGED color
  /\ isDag' = (isDag /\ color[m] # "gray")
  /\ UNCHANGED <<edge, roots, result>>

\* All of WeightTo is done: black, and to the front of the result.
Finish ==
  /\ stack # <<>> /\ Head(stack).left = {}
  /\ color' = [color EXCEPT ![Head(stack).node] = "black"]
  /\ result' = <<Head(stack).node>> \o result
  /\ stack' = Tail(stack)
  /\ UNCHANGED <<edge, roots, isDag>>

Done == stack = <<>> /\ roots = {}

TopoNext ==
  \/ \E n \in Node : VisitRoot(n) \/ VisitChild(n)
  \/ Finish
  \/ Done /\ UNCHANGED topoVars

TopoSpec == TopoInit /\ [][TopoNext]_topoVars

-----------------------------------------------------------------------------
\* Reference: a cycle is a set in which every node has a successor.
HasCycle == \E S \in SUBSET Node : S # {} /\ \A n \in S : WeightTo(n) \cap S # {}

(* The answer is right in whatever order the maps are walked: "It returns  *)
(* true if the Graph is a DAG", false if it has a cycle.                   *)
DagDecided == Done => (isDag <=> ~HasCycle)

(* The nodes returned for a DAG are all the nodes, each once, and every    *)
(* edge points forward.                                                    *)
Sorted ==
  Done /\ isDag =>
     /\ Len(result) = Cardinality(Node)
     /\ {result[i] : i \in 1..Len(result)} = Node
     /\ \A i, j \in 1..Len(result) : <<result[i], result[j]>> \in edge => i < j

(* TopologicalDag decides and sorts right, for every order of the maps.    *)
TopologicalOrder == DagDecided /\ Sorted
============================================================================

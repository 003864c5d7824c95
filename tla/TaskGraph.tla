------------------------------ MODULE TaskGraph ------------------------------
(***************************************************************************)
(* The two graph algorithms on which planning rests                        *)
(* (xzawedShared/src/task-graph/topo-sort.ts), for a graph that            *)
(* buildTaskGraph accepted: detectCycle, a depth-first search, and         *)
(* topoSort, Kahn's algorithm.  They are run one after the other on the    *)
(* same graph, a step for each round of their loops.                       *)
(***************************************************************************)
EXTENDS Integers, Sequences, FiniteSets, SequencesExt

CONSTANT Ids  \* ids of work packages; their order is the order of the ids

ASSUME IdsAssumption == Ids \subseteq Int /\ IsFiniteSet(Ids)

VARIABLES
  at,        \* "search", "sort", "end"
  nodes,     \* the packages of the graph
  needs,     \* needs[x]: the packages x depends on
  colour,    \* colour[x]: 0 not visited, 1 on the stack, 2 finished
  stack,     \* the calls of visit: a package and the dependencies left to it
  cycles,    \* the cycles found, each a sequence
  inDegree,  \* inDegree[x]: dependencies of x not yet in the order
  ready,     \* packages without such a dependency, not yet in the order
  order      \* the order so far

searching == <<colour, stack, cycles>>
sorting == <<inDegree, ready, order>>
graphVars == <<at, nodes, needs, searching, sorting>>

GraphTypeOK ==
  /\ at \in {"search", "sort", "end"}
  /\ nodes \subseteq Ids
  /\ needs \in [nodes -> SUBSET nodes]
  /\ colour \in [nodes -> 0..2]
  /\ \A i \in DOMAIN stack : stack[i].id \in nodes /\ stack[i].rest \subseteq nodes
  /\ \A c \in cycles : c # <<>> /\ ToSet(c) \subseteq nodes
  /\ inDegree \in [nodes -> 0..Cardinality(Ids)]
  /\ ready \subseteq nodes
  /\ ToSet(order) \subseteq nodes /\ IsInjective(order)

\* buildTaskGraph: no dependency is unknown; a self-dependency is accepted.
BuildTaskGraph ==
  /\ nodes \in SUBSET Ids
  /\ needs \in [nodes -> SUBSET nodes]

GraphInit ==
  /\ BuildTaskGraph
  /\ at = "search"
  /\ colour = [x \in nodes |-> 0] /\ stack = <<>> /\ cycles = {}
  /\ inDegree = [x \in nodes |-> Cardinality(needs[x])]
  /\ ready = {x \in nodes : needs[x] = {}} /\ order = <<>>

-----------------------------------------------------------------------------
(* detectCycle.  A set is walked in the order of insertion, which is any.  *)

Frame(x) == [id |-> x, rest |-> needs[x]]
Top == stack[Len(stack)]

Visit(x, below) ==
  /\ colour' = [colour EXCEPT ![x] = 1]
  /\ stack' = Append(below, Frame(x))

\* The outer loop begins with a package that was not visited.
Root ==
  /\ at = "search" /\ stack = <<>>
  /\ \E x \in nodes : colour[x] = 0 /\ Visit(x, <<>>)
  /\ UNCHANGED <<at, nodes, needs, cycles, sorting>>

\* A dependency on the stack closes a cycle.
Closes(x) == colour[x] = 1

CycleFrom(x) ==
  LET ids == [i \in DOMAIN stack |-> stack[i].id]
  IN  SubSeq(ids, CHOOSE i \in DOMAIN ids : ids[i] = x, Len(ids))

Edge ==
  /\ at = "search" /\ stack # <<>> /\ Top.rest # {}
  /\ \E x \in Top.rest :
       LET below == [stack EXCEPT ![Len(stack)].rest = @ \ {x}] IN
         IF colour[x] = 0 THEN Visit(x, below) /\ UNCHANGED cycles
         ELSE /\ stack' = below
              /\ cycles' = IF Closes(x) THEN cycles \cup {CycleFrom(x)} ELSE cycles
              /\ UNCHANGED colour
  /\ UNCHANGED <<at, nodes, needs, sorting>>

Return ==
  /\ at = "search" /\ stack # <<>> /\ Top.rest = {}
  /\ colour' = [colour EXCEPT ![Top.id] = 2]
  /\ stack' = Front(stack)
  /\ UNCHANGED <<at, nodes, needs, cycles, sorting>>

Searched ==
  /\ at = "search" /\ stack = <<>> /\ \A x \in nodes : colour[x] # 0
  /\ at' = "sort"
  /\ UNCHANGED <<nodes, needs, searching, sorting>>

-----------------------------------------------------------------------------
(* topoSort.                                                               *)

Dependents(x) == {y \in nodes : x \in needs[y]}

FreedLate(y) == inDegree[y] = 0  \* mutant
\* The last dependency of y that was missing is in the order now.
FreedBy(y) == inDegree[y] = 1

\* The smallest id first.
TakeReady ==
  /\ at = "sort" /\ ready # {}
  /\ \E x \in ready :
       /\ \A y \in ready : x <= y
       /\ order' = Append(order, x)
       /\ inDegree' = [y \in nodes |-> IF y \in Dependents(x) THEN inDegree[y] - 1 ELSE inDegree[y]]
       /\ ready' = (ready \ {x}) \cup {y \in Dependents(x) : FreedBy(y)}
  /\ UNCHANGED <<at, nodes, needs, searching>>

Sorted ==
  /\ at = "sort" /\ ready = {}
  /\ at' = "end"
  /\ UNCHANGED <<nodes, needs, searching, sorting>>

\* The packages left out of the order.
Cyclic == nodes \ ToSet(order)

GraphNext == Root \/ Edge \/ Return \/ Searched \/ TakeReady \/ Sorted

GraphSpec == GraphInit /\ [][GraphNext]_graphVars

-----------------------------------------------------------------------------
(* The results.                                                            *)

\* A package never comes before one it depends on: planDispatch numbers the
\* steps by this order (readiness.ts).
Topological == \A i \in DOMAIN order : needs[order[i]] \subseteq {order[j] : j \in 1..i - 1}

\* A set of packages each of which waits for another one of it.
Stuck(set) == \A x \in set : needs[x] \cap set # {}

IsCycle(c) == \A i \in DOMAIN c : c[IF i = Len(c) THEN 1 ELSE i + 1] \in needs[c[i]]

\* What detectCycle reports are cycles of the graph, and it reports one exactly
\* when there is one: the decomposition consumer stores a graph on its word.
\* topoSort orders the rest and leaves out the largest stuck set, so that
\* readyNodes drops a package without a word exactly when detectCycle would
\* have refused the graph.
SearchIsRight ==
  /\ Topological
  /\ \A c \in cycles : IsCycle(c)
  /\ at # "search" => (cycles # {} <=> \E set \in SUBSET nodes : set # {} /\ Stuck(set))
  /\ at = "end" =>
       /\ Stuck(Cyclic) /\ \A set \in SUBSET nodes : Stuck(set) => set \subseteq Cyclic
       /\ Cyclic = {} <=> cycles = {}
=============================================================================

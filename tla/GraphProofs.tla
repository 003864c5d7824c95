---------------------------------- MODULE GraphProofs -------------------------
(***************************************************************************)
(* TaskGraph, Redecompose and GitPushes, for every set of packages, every  *)
(* graph that a decomposition may emit and every number of calls and of    *)
(* failures of the API.                                                    *)
(*                                                                         *)
(* The search: what is on the stack is a path, and while no cycle was      *)
(* found what is finished holds no set of packages that wait for each      *)
(* other; the sort: no such set loses a member to the order.  The merge:   *)
(* what a consumer has read, or is about to store, holds every package     *)
(* that ran with the dependencies it ran with, for what is in flight at    *)
(* the merge is kept.  GitHub: a commit that is not made yet is known to   *)
(* nobody, so that making it extends no history but its own, and           *)
(* "contains" stays transitive; a branch is only ever created, or moved    *)
(* to a commit that contains its head, and holds on to what it held.       *)
(***************************************************************************)
EXTENDS TaskGraph, Redecompose, GitPushes, FiniteSetTheorems, TLAPS

-----------------------------------------------------------------------------
(* The search and the sort.                                                *)

Frames == [id : nodes, rest : SUBSET nodes]
Finished == {x \in nodes : colour[x] = 2}
Ordered == {order[i] : i \in 1..Len(order)}

GraphShape ==
  /\ nodes \subseteq Ids
  /\ needs \in [nodes -> SUBSET nodes]
  /\ at \in {"search", "sort", "end"}

\* The stack is a path of the graph, and what is on it is grey.
StackIsPath ==
  /\ colour \in [nodes -> 0..2]
  /\ stack \in Seq(Frames)
  /\ \A x \in nodes : (colour[x] = 1) <=> (\E i \in 1..Len(stack) : stack[i].id = x)
  /\ \A i, j \in 1..Len(stack) : stack[i].id = stack[j].id => i = j
  /\ \A i \in 1..Len(stack) : stack[i].rest \subseteq needs[stack[i].id]
  /\ \A i \in 1..Len(stack) - 1 : stack[i + 1].id \in needs[stack[i].id]

CyclesAreCycles ==
  \A c \in cycles : c # <<>> /\ c \in Seq(nodes) /\ IsCycle(c)

\* While no cycle was found, what is finished needs nothing else and holds no
\* stuck set, and what was explored of a package on the stack is finished, or on
\* the stack above it.
NothingStuckBehind ==
  cycles = {} =>
    /\ \A x \in Finished : needs[x] \subseteq Finished
    /\ \A set \in SUBSET Finished : Stuck(set) => set = {}
    /\ \A i \in 1..Len(stack) : \A y \in needs[stack[i].id] \ stack[i].rest :
         y \in Finished \/ (i < Len(stack) /\ y = stack[i + 1].id)

AllSearched == at # "search" => stack = <<>> /\ \A x \in nodes : colour[x] # 0

SearchInv == StackIsPath /\ CyclesAreCycles /\ NothingStuckBehind /\ AllSearched

\* The degrees count what is missing of a package's dependencies, and no stuck
\* set has lost a member to the order.
SortInv ==
  /\ order \in Seq(nodes)
  /\ \A i, j \in 1..Len(order) : order[i] = order[j] => i = j
  /\ inDegree \in [nodes -> Nat]
  /\ \A y \in nodes : inDegree[y] = Cardinality(needs[y] \ Ordered)
  /\ ready = {y \in nodes \ Ordered : needs[y] \subseteq Ordered}
  /\ \A i \in 1..Len(order) : needs[order[i]] \subseteq {order[j] : j \in 1..i - 1}
  /\ \A set \in SUBSET nodes : Stuck(set) => set \cap Ordered = {}
  /\ at = "end" => ready = {}

GraphInv == GraphShape /\ SearchInv /\ SortInv

LEMMA FinitePackages ==
  ASSUME nodes \subseteq Ids, NEW set \in SUBSET nodes
  PROVE  /\ IsFiniteSet(set)
         /\ Cardinality(set) \in 0..Cardinality(Ids)
<1>1. IsFiniteSet(set) /\ Cardinality(set) <= Cardinality(Ids)
  BY FS_Subset, IdsAssumption
<1>2. Cardinality(set) \in Nat /\ Cardinality(Ids) \in Nat
  BY <1>1, FS_CardinalityType, IdsAssumption
<1> QED BY <1>1, <1>2

LEMMA GraphInitInv == GraphInit => GraphInv
<1> SUFFICES ASSUME GraphInit PROVE GraphInv
  OBVIOUS
<1> USE DEF GraphInit, BuildTaskGraph
<1>1. GraphShape
  BY DEF GraphShape
<1>2. Len(stack) = 0 /\ Len(order) = 0
  OBVIOUS
<1>3. StackIsPath
  BY <1>2 DEF StackIsPath
<1>4. CyclesAreCycles /\ NothingStuckBehind /\ AllSearched
  <2>1. Finished = {}
    BY DEF Finished
  <2> QED BY <1>2, <2>1 DEF CyclesAreCycles, NothingStuckBehind, AllSearched
<1>5. SortInv
  <2>1. Ordered = {}
    BY <1>2 DEF Ordered
  <2>2. \A y \in nodes : needs[y] \ Ordered = needs[y]
    BY <2>1
  <2>3. \A y \in nodes : Cardinality(needs[y]) \in Nat
    BY FinitePackages
  <2> QED BY <1>2, <2>1, <2>2, <2>3 DEF SortInv
<1> QED BY <1>1, <1>3, <1>4, <1>5 DEF GraphInv, SearchInv

LEMMA VisitKeeps ==
  ASSUME GraphShape, SearchInv, at = "search", UNCHANGED <<at, nodes, needs, cycles>>,
         NEW x \in nodes, colour[x] = 0,
         NEW below \in Seq(Frames), Len(below) = Len(stack),
         \A i \in 1..Len(stack) : below[i].id = stack[i].id,
         \A i \in 1..Len(stack) - 1 : below[i].rest = stack[i].rest,
         Len(stack) > 0 => /\ x \in stack[Len(stack)].rest
                           /\ below[Len(stack)].rest = stack[Len(stack)].rest \ {x},
         Visit(x, below)
  PROVE  SearchInv'
<1> DEFINE n == Len(stack)
<1>1. n \in Nat /\ stack \in Seq(Frames) /\ colour \in [nodes -> 0..2]
  BY DEF SearchInv, StackIsPath
<1>2. Frame(x) \in Frames /\ Frame(x).id = x /\ Frame(x).rest = needs[x]
  BY DEF Frame, Frames, GraphShape
<1>3. /\ Frames' = Frames /\ stack' = Append(below, Frame(x)) /\ stack' \in Seq(Frames)
      /\ Len(stack') = n + 1
      /\ \A i \in 1..n : stack'[i] = below[i]
      /\ stack'[n + 1] = Frame(x)
  BY <1>1, <1>2 DEF Visit, Frames
<1>4. /\ colour' \in [nodes -> 0..2] /\ colour'[x] = 1
      /\ \A y \in nodes : y # x => colour'[y] = colour[y]
  BY <1>1 DEF Visit
<1>5. \A i \in 1..n : stack[i].id \in nodes /\ stack[i].id # x
  <2>1. \A i \in 1..n : stack[i] \in Frames
    BY <1>1
  <2>2. \A i \in 1..n : stack[i].id \in nodes
    BY <2>1 DEF Frames
  <2>3. \A i \in 1..n : colour[stack[i].id] = 1
    BY <2>2 DEF SearchInv, StackIsPath
  <2> QED BY <2>2, <2>3
<1>6. StackIsPath'
  <2>1. \A y \in nodes : (colour'[y] = 1) <=> (\E i \in 1..n + 1 : stack'[i].id = y)
    <3> SUFFICES ASSUME NEW y \in nodes
                 PROVE (colour'[y] = 1) <=> (\E i \in 1..n + 1 : stack'[i].id = y)
      OBVIOUS
    <3>1. CASE y = x
      BY <3>1, <1>1, <1>2, <1>3, <1>4
    <3>2. CASE y # x
      <4>1. (colour[y] = 1) <=> (\E i \in 1..n : stack[i].id = y)
        BY DEF SearchInv, StackIsPath
      <4>2. \A i \in 1..n : stack'[i].id = stack[i].id
        BY <1>3
      <4>3. stack'[n + 1].id # y
        BY <3>2, <1>2, <1>3
      <4>4. \A i \in 1..n + 1 : i \in 1..n \/ i = n + 1
        BY <1>1
      <4>5. 1..n \subseteq 1..n + 1
        BY <1>1
      <4>6. (\E i \in 1..n : stack[i].id = y) <=> (\E i \in 1..n + 1 : stack'[i].id = y)
        BY <4>2, <4>3, <4>4, <4>5
      <4>7. colour'[y] = colour[y]
        BY <3>2, <1>4
      <4> QED BY <4>1, <4>6, <4>7
    <3> QED BY <3>1, <3>2
  <2>2. \A i, j \in 1..n + 1 : stack'[i].id = stack'[j].id => i = j
    <3>1. \A i, j \in 1..n : stack[i].id = stack[j].id => i = j
      BY DEF SearchInv, StackIsPath
    <3>2. \A i \in 1..n : stack'[i].id = stack[i].id /\ stack'[i].id # x
      BY <1>3, <1>5
    <3>3. \A i \in 1..n + 1 : i \in 1..n \/ i = n + 1
      BY <1>1
    <3> QED BY <3>1, <3>2, <3>3, <1>2, <1>3
  <2>3. \A i \in 1..n + 1 : stack'[i].rest \subseteq needs[stack'[i].id]
    <3>1. \A i \in 1..n : stack[i].rest \subseteq needs[stack[i].id]
      BY DEF SearchInv, StackIsPath
    <3>2. \A i \in 1..n : below[i].rest \subseteq stack[i].rest
      BY <1>1
    <3>3. \A i \in 1..n + 1 : i \in 1..n \/ i = n + 1
      BY <1>1
    <3> QED BY <3>1, <3>2, <3>3, <1>2, <1>3
  <2>4. \A i \in 1..n : stack'[i + 1].id \in needs[stack'[i].id]
    <3> SUFFICES ASSUME NEW i \in 1..n PROVE stack'[i + 1].id \in needs[stack'[i].id]
      OBVIOUS
    <3>1. CASE i < n
      <4>1. i \in 1..n - 1 /\ i + 1 \in 1..n
        BY <3>1, <1>1
      <4>2. stack[i + 1].id \in needs[stack[i].id]
        BY <4>1 DEF SearchInv, StackIsPath
      <4> QED BY <4>1, <4>2, <1>3
    <3>2. CASE i = n
      <4>1. stack[n].rest \subseteq needs[stack[n].id] /\ x \in stack[n].rest
        BY <3>2, <1>1 DEF SearchInv, StackIsPath
      <4> QED BY <4>1, <3>2, <1>2, <1>3
    <3> QED BY <3>1, <3>2, <1>1
  <2>5. Len(stack') = n + 1 /\ Len(stack') - 1 = n /\ nodes' = nodes /\ needs' = needs
    BY <1>1, <1>3
  <2> HIDE DEF n
  <2>6. stack' \in Seq(Frames') /\ colour' \in [nodes' -> 0..2]
    BY <1>3, <1>4, <2>5
  <2> QED BY <2>1, <2>2, <2>3, <2>4, <2>5, <2>6 DEF StackIsPath
<1>7. CyclesAreCycles'
  BY DEF SearchInv, CyclesAreCycles, IsCycle
<1>8. NothingStuckBehind'
  <2> SUFFICES ASSUME cycles = {} PROVE NothingStuckBehind'
    BY DEF NothingStuckBehind
  <2>1. Finished' = Finished
    BY <1>4 DEF Finished
  <2>2. /\ \A y \in Finished : needs[y] \subseteq Finished
        /\ \A set \in SUBSET Finished : Stuck(set) => set = {}
        /\ \A i \in 1..n : \A y \in needs[stack[i].id] \ stack[i].rest :
             y \in Finished \/ (i < n /\ y = stack[i + 1].id)
    BY DEF SearchInv, NothingStuckBehind
  <2>3. ASSUME NEW i \in 1..n + 1, NEW y \in needs[stack'[i].id] \ stack'[i].rest
        PROVE  y \in Finished \/ (i < n + 1 /\ y = stack'[i + 1].id)
    <3>1. CASE i = n + 1
      BY <3>1, <1>2, <1>3, <2>3
    <3>2. CASE i = n
      <4>1. n \in 1..n /\ n > 0 /\ stack'[n] = below[n]
        BY <3>2, <1>1, <1>3
      <4>2. y = x \/ y \in needs[stack[n].id] \ stack[n].rest
        BY <4>1, <3>2, <2>3
      <4>3. y = x \/ y \in Finished
        BY <4>1, <4>2, <2>2
      <4> QED BY <4>3, <3>2, <1>1, <1>2, <1>3
    <3>3. CASE i < n
      <4>1. i \in 1..n - 1 /\ i \in 1..n /\ i + 1 \in 1..n
        BY <3>3, <1>1
      <4>2. y \in needs[stack[i].id] \ stack[i].rest
        BY <4>1, <2>3, <1>3
      <4>3. y \in Finished \/ y = stack[i + 1].id
        BY <4>1, <4>2, <2>2
      <4> QED BY <4>1, <4>3, <1>3, <3>3, <1>1
    <3> QED BY <3>1, <3>2, <3>3, <1>1
  <2> QED BY <2>1, <2>2, <2>3, <1>3 DEF NothingStuckBehind, Stuck
<1>9. AllSearched'
  BY DEF AllSearched
<1> QED BY <1>6, <1>7, <1>8, <1>9 DEF SearchInv

LEMMA RootKeeps ==
  ASSUME GraphInv, Root
  PROVE  SearchInv'
<1>1. at = "search" /\ stack = <<>> /\ UNCHANGED <<at, nodes, needs, cycles>>
  BY DEF Root
<1>2. PICK x \in nodes : colour[x] = 0 /\ Visit(x, <<>>)
  BY DEF Root
<1>3. /\ <<>> \in Seq(Frames) /\ Len(<<>>) = Len(stack) /\ ~(Len(stack) > 0)
      /\ \A i \in 1..Len(stack) : FALSE
      /\ \A i \in 1..Len(stack) - 1 : FALSE
  BY <1>1
<1>4. GraphShape /\ SearchInv
  BY DEF GraphInv
<1> QED BY <1>1, <1>2, <1>3, <1>4, VisitKeeps

\* A cycle is the part of the path from the package that closes it.
LEMMA PathCloses ==
  ASSUME GraphShape, StackIsPath, stack # <<>>, NEW x \in Top.rest, colour[x] = 1
  PROVE  LET c == CycleFrom(x) IN c # <<>> /\ c \in Seq(nodes) /\ IsCycle(c)
<1> DEFINE n == Len(stack)
           ids == [i \in DOMAIN stack |-> stack[i].id]
           m == CHOOSE i \in DOMAIN ids : ids[i] = x
           c == SubSeq(ids, m, Len(ids))
<1>1. n \in Nat /\ n > 0 /\ stack \in Seq(Frames) /\ DOMAIN stack = 1..n
  BY DEF StackIsPath
<1>2. \A i \in 1..n : stack[i].id \in nodes /\ stack[i].rest \subseteq nodes
  <2>1. \A i \in 1..n : stack[i] \in Frames
    BY <1>1
  <2> QED BY <2>1 DEF Frames
<1>3. ids \in Seq(nodes) /\ Len(ids) = n /\ DOMAIN ids = 1..n /\ \A i \in 1..n : ids[i] = stack[i].id
  BY <1>1, <1>2
<1>4. Top.rest \subseteq needs[ids[n]] /\ x \in nodes
  <2>1. Top.rest \subseteq needs[ids[n]]
    BY <1>1, <1>3 DEF StackIsPath, Top
  <2>2. Top.rest \subseteq nodes
    BY <1>1, <1>2 DEF Top
  <2> QED BY <2>1, <2>2
<1>5. \E i \in 1..n : stack[i].id = x
  BY <1>4 DEF StackIsPath
<1>6. m \in 1..n /\ ids[m] = x
  BY <1>3, <1>5
<1> HIDE DEF m
<1>7. /\ c \in Seq(nodes) /\ Len(c) = n - m + 1
      /\ \A k \in 1..n - m + 1 : c[k] = ids[m + k - 1]
  BY <1>3, <1>6
<1>8. \A k \in 1..n - 1 : ids[k + 1] \in needs[ids[k]]
  BY <1>1, <1>3 DEF StackIsPath
<1>9. ASSUME NEW k \in DOMAIN c
      PROVE  c[IF k = Len(c) THEN 1 ELSE k + 1] \in needs[c[k]]
  <2>1. k \in 1..n - m + 1 /\ c[k] = ids[m + k - 1] /\ 1 \in 1..n - m + 1
    BY <1>6, <1>7, <1>1
  <2>2. CASE k = n - m + 1
    <3>1. c[k] = ids[n] /\ c[1] = ids[m]
      BY <2>1, <2>2, <1>6, <1>7, <1>1
    <3> QED BY <3>1, <2>2, <1>4, <1>6, <1>7
  <2>3. CASE k # n - m + 1
    <3>1. k + 1 \in 1..n - m + 1 /\ m + k - 1 \in 1..n - 1
      BY <2>1, <2>3, <1>6, <1>1
    <3>2. c[k + 1] = ids[m + k]
      BY <3>1, <1>6, <1>7, <1>1
    <3>3. ids[(m + k - 1) + 1] \in needs[ids[m + k - 1]]
      BY <3>1, <1>8
    <3>4. (m + k - 1) + 1 = m + k
      BY <3>1, <1>6, <1>1
    <3> QED BY <2>1, <2>3, <3>2, <3>3, <3>4, <1>7
  <2> QED BY <2>2, <2>3
<1>10. c = CycleFrom(x)
  BY DEF CycleFrom, m
<1>11. c # <<>>
  <2>1. Len(c) > 0
    BY <1>6, <1>7, <1>1
  <2>2. Len(<<>>) = 0
    OBVIOUS
  <2> HIDE DEF c
  <2> QED BY <2>1, <2>2
<1> QED BY <1>7, <1>9, <1>10, <1>11 DEF IsCycle

LEMMA RestShrinks ==
  ASSUME NEW f, NEW i, NEW r, NEW x, f = [id |-> i, rest |-> r]
  PROVE  [f EXCEPT !.rest = @ \ {x}] = [id |-> i, rest |-> r \ {x}]
OBVIOUS

LEMMA EdgeKeeps ==
  ASSUME GraphInv, Edge
  PROVE  SearchInv'
<1> DEFINE n == Len(stack)
           below(x) == [stack EXCEPT ![Len(stack)].rest = @ \ {x}]
<1>0. GraphShape /\ SearchInv /\ StackIsPath
  BY DEF GraphInv, SearchInv
<1>1. /\ at = "search" /\ stack # <<>> /\ UNCHANGED <<at, nodes, needs>>
      /\ n \in Nat /\ n > 0 /\ stack \in Seq(Frames) /\ Top = stack[n]
  BY <1>0 DEF Edge, StackIsPath, Top
<1>2. PICK x \in Top.rest :
        IF colour[x] = 0 THEN Visit(x, below(x)) /\ UNCHANGED cycles
        ELSE /\ stack' = below(x)
             /\ cycles' = IF Closes(x) THEN cycles \cup {CycleFrom(x)} ELSE cycles
             /\ UNCHANGED colour
  BY DEF Edge
<1>3. stack[n] \in Frames
  BY <1>1
<1>4. /\ x \in nodes /\ x \in stack[n].rest
      /\ stack[n] = [id |-> stack[n].id, rest |-> stack[n].rest]
      /\ [id |-> stack[n].id, rest |-> stack[n].rest \ {x}] \in Frames
  BY <1>1, <1>2, <1>3 DEF Frames
<1>5. /\ below(x) \in Seq(Frames) /\ Len(below(x)) = n
      /\ below(x)[n].id = stack[n].id /\ below(x)[n].rest = stack[n].rest \ {x}
      /\ \A i \in 1..n - 1 : below(x)[i] = stack[i]
  <2> DEFINE new == [id |-> stack[n].id, rest |-> stack[n].rest \ {x}]
  <2>1. [stack[n] EXCEPT !.rest = @ \ {x}] = new
    <3>1. PICK f : f = stack[n]
      OBVIOUS
    <3>2. PICK i, r : i = stack[n].id /\ r = stack[n].rest
      OBVIOUS
    <3>3. f = [id |-> i, rest |-> r]
      BY <1>4, <3>1, <3>2
    <3>4. [f EXCEPT !.rest = @ \ {x}] = [id |-> i, rest |-> r \ {x}]
      BY <3>3, RestShrinks
    <3> QED BY <3>1, <3>2, <3>4
  <2>2. below(x) = [stack EXCEPT ![n] = new]
    BY <2>1, <1>1
  <2> HIDE DEF below
  <2>3. new \in Frames /\ new.id = stack[n].id /\ new.rest = stack[n].rest \ {x}
    BY <1>4
  <2> HIDE DEF new
  <2> QED BY <2>2, <2>3, <1>1
<1> HIDE DEF below
<1>6. /\ \A i \in 1..n : below(x)[i].id = stack[i].id
      /\ \A i \in 1..n - 1 : below(x)[i].rest = stack[i].rest
      /\ \A i \in 1..n : below(x)[i].rest \subseteq stack[i].rest
  <2>1. \A i \in 1..n : i = n \/ i \in 1..n - 1
    BY <1>1
  <2> QED BY <2>1, <1>5
<1>7. CASE colour[x] = 0
  <2>1. Visit(x, below(x)) /\ UNCHANGED <<at, nodes, needs, cycles>>
    BY <1>1, <1>2, <1>7
  <2> QED BY <1>0, <1>1, <1>4, <1>5, <1>6, <1>7, <2>1, VisitKeeps
<1>8. CASE colour[x] # 0
  <2>1. /\ stack' = below(x) /\ UNCHANGED colour
        /\ cycles' = IF Closes(x) THEN cycles \cup {CycleFrom(x)} ELSE cycles
    BY <1>2, <1>8
  <2>2. Len(stack') = n /\ Frames' = Frames
    BY <2>1, <1>1, <1>5 DEF Frames
  <2>3. StackIsPath'
    <3>1. /\ colour \in [nodes -> 0..2]
          /\ \A y \in nodes : (colour[y] = 1) <=> (\E i \in 1..n : stack[i].id = y)
          /\ \A i, j \in 1..n : stack[i].id = stack[j].id => i = j
          /\ \A i \in 1..n : stack[i].rest \subseteq needs[stack[i].id]
          /\ \A i \in 1..n - 1 : stack[i + 1].id \in needs[stack[i].id]
      BY <1>0 DEF StackIsPath
    <3>2. \A i \in 1..n : stack'[i].id = stack[i].id /\ stack'[i].rest \subseteq stack[i].rest
      BY <2>1, <1>6
    <3>3. \A i \in 1..n - 1 : i \in 1..n /\ i + 1 \in 1..n
      BY <1>1
    <3>4. /\ \A y \in nodes : (colour[y] = 1) <=> (\E i \in 1..n : stack'[i].id = y)
          /\ \A i, j \in 1..n : stack'[i].id = stack'[j].id => i = j
          /\ \A i \in 1..n : stack'[i].rest \subseteq needs[stack'[i].id]
          /\ \A i \in 1..n - 1 : stack'[i + 1].id \in needs[stack'[i].id]
      BY ZenonT(40), <3>1, <3>2, <3>3
    <3>5. stack' \in Seq(Frames') /\ nodes' = nodes /\ needs' = needs /\ colour' = colour
      BY <1>1, <1>5, <2>1, <2>2
    <3> HIDE DEF n
    <3> QED BY <3>1, <3>4, <3>5, <2>2 DEF StackIsPath
  <2>4. CyclesAreCycles'
    <3>1. \A c \in cycles' : c # <<>> /\ c \in Seq(nodes) /\ IsCycle(c)
      <4>1. \A c \in cycles : c # <<>> /\ c \in Seq(nodes) /\ IsCycle(c)
        BY <1>0 DEF SearchInv, CyclesAreCycles
      <4>2. CASE Closes(x)
        <5>1. CycleFrom(x) # <<>> /\ CycleFrom(x) \in Seq(nodes) /\ IsCycle(CycleFrom(x))
          BY <4>2, <1>0, <1>1, <1>2, PathCloses DEF Closes
        <5> QED BY <5>1, <4>1, <4>2, <2>1
      <4>3. CASE ~ Closes(x)
        BY <4>1, <4>3, <2>1
      <4> QED BY <4>2, <4>3
    <3> QED BY <3>1, <1>1 DEF CyclesAreCycles, IsCycle
  <2>5. NothingStuckBehind'
    <3> SUFFICES ASSUME cycles' = {} PROVE NothingStuckBehind'
      BY DEF NothingStuckBehind
    <3>1. cycles = {} /\ ~ Closes(x)
      BY <2>1
    <3>2. colour[x] = 2
      BY <3>1, <1>0, <1>4, <1>8 DEF StackIsPath, Closes
    <3>3. Finished' = Finished /\ x \in Finished
      BY <3>2, <2>1, <1>1, <1>4 DEF Finished
    <3>4. /\ \A y \in Finished : needs[y] \subseteq Finished
          /\ \A set \in SUBSET Finished : Stuck(set) => set = {}
          /\ \A i \in 1..n : \A y \in needs[stack[i].id] \ stack[i].rest :
               y \in Finished \/ (i < n /\ y = stack[i + 1].id)
      BY <3>1, <1>0 DEF SearchInv, NothingStuckBehind
    <3>5. ASSUME NEW i \in 1..n, NEW y \in needs[stack'[i].id] \ stack'[i].rest
          PROVE  y \in Finished \/ (i < n /\ y = stack'[i + 1].id)
      <4>1. stack'[i].id = stack[i].id
        BY <2>1, <1>6
      <4>2. CASE i = n
        BY <4>1, <4>2, <3>3, <3>4, <3>5, <2>1, <1>5, <1>1
      <4>3. CASE i # n
        <5>1. i \in 1..n - 1 /\ i + 1 \in 1..n
          BY <4>3, <1>1
        <5>2. stack'[i] = stack[i] /\ stack'[i + 1].id = stack[i + 1].id
          BY <5>1, <2>1, <1>5, <1>6
        <5> QED BY <5>2, <3>4, <3>5
      <4> QED BY <4>2, <4>3
    <3> HIDE DEF n
    <3> QED BY <3>3, <3>4, <3>5, <2>2, <1>1 DEF NothingStuckBehind, Stuck
  <2>6. AllSearched'
    BY <1>1 DEF AllSearched
  <2> QED BY <2>3, <2>4, <2>5, <2>6 DEF SearchInv
<1> QED BY <1>7, <1>8

LEMMA ReturnKeeps ==
  ASSUME GraphInv, Return
  PROVE  SearchInv'
<1> DEFINE n == Len(stack)
           x == stack[n].id
<1>0. GraphShape /\ SearchInv /\ StackIsPath
  BY DEF GraphInv, SearchInv
<1>1. /\ at = "search" /\ stack # <<>> /\ UNCHANGED <<at, nodes, needs, cycles>>
      /\ n \in Nat /\ n > 0 /\ stack \in Seq(Frames) /\ stack[n].rest = {}
      /\ colour' = [colour EXCEPT ![x] = 2]
      /\ stack' = SubSeq(stack, 1, n - 1)
  BY <1>0 DEF Return, StackIsPath, Top, Front
<1>2. \A i \in 1..n : stack[i].id \in nodes
  <2>1. \A i \in 1..n : stack[i] \in Frames
    BY <1>1
  <2> QED BY <2>1 DEF Frames
<1>3. /\ n \in 1..n /\ \A i \in 1..n - 1 : i \in 1..n
      /\ \A i \in 1..n : i = n \/ i \in 1..n - 1
  BY <1>1
<1>4. /\ stack' \in Seq(Frames) /\ Frames' = Frames /\ Len(stack') = n - 1
      /\ \A i \in 1..n - 1 : stack'[i] = stack[i]
  <2>1. Frames' = Frames
    BY <1>1 DEF Frames
  <2>2. \A i \in 1..n - 1 : stack[i] \in Frames
    BY <1>1, <1>3
  <2>3. stack' = SubSeq(stack, 1, n - 1) /\ n - 1 \in Nat /\ stack \in Seq(Frames) /\ n - 1 <= Len(stack)
    BY <1>1
  <2> HIDE DEF n
  <2>4. stack' \in Seq(Frames)
    BY <2>2, <2>3
  <2>5. Len(stack') = n - 1
    BY <2>3
  <2>6. \A i \in 1..n - 1 : stack'[i] = stack[i]
    BY <2>3
  <2> QED BY <2>1, <2>4, <2>5, <2>6
<1>5. /\ colour \in [nodes -> 0..2] /\ x \in nodes
      /\ \A y \in nodes : (colour[y] = 1) <=> (\E i \in 1..n : stack[i].id = y)
      /\ \A i, j \in 1..n : stack[i].id = stack[j].id => i = j
      /\ \A i \in 1..n : stack[i].rest \subseteq needs[stack[i].id]
      /\ \A i \in 1..n - 1 : stack[i + 1].id \in needs[stack[i].id]
  BY <1>0, <1>2, <1>3 DEF StackIsPath
<1>6. /\ colour' \in [nodes -> 0..2] /\ colour'[x] = 2
      /\ \A y \in nodes : y # x => colour'[y] = colour[y]
  BY <1>1, <1>5
<1> HIDE DEF x
<1>7. x = stack[n].id /\ colour[x] = 1
  BY <1>3, <1>5 DEF x
<1>8. StackIsPath'
  <2>1. \A y \in nodes : (colour'[y] = 1) <=> (\E i \in 1..n - 1 : stack'[i].id = y)
    <3> SUFFICES ASSUME NEW y \in nodes
                 PROVE (colour'[y] = 1) <=> (\E i \in 1..n - 1 : stack'[i].id = y)
      OBVIOUS
    <3>1. (\E i \in 1..n - 1 : stack'[i].id = y) <=> (\E i \in 1..n - 1 : stack[i].id = y)
      BY <1>4
    <3>2. CASE y = x
      <4>1. \A i \in 1..n - 1 : stack[i].id # x
        <5> SUFFICES ASSUME NEW i \in 1..n - 1, stack[i].id = x PROVE FALSE
          OBVIOUS
        <5>1. i = n
          BY <1>3, <1>5, <1>7
        <5> QED BY <5>1, <1>1
      <4> QED BY <4>1, <3>1, <3>2, <1>6
    <3>3. CASE y # x
      BY <3>1, <3>3, <1>3, <1>5, <1>6, <1>7
    <3> QED BY <3>2, <3>3
  <2>2. \A i, j \in 1..n - 1 : stack'[i].id = stack'[j].id => i = j
    BY <1>3, <1>4, <1>5
  <2>3. \A i \in 1..n - 1 : stack'[i].rest \subseteq needs[stack'[i].id]
    BY <1>3, <1>4, <1>5
  <2>4. \A i \in 1..(n - 1) - 1 : stack'[i + 1].id \in needs[stack'[i].id]
    <3>1. \A i \in 1..(n - 1) - 1 : i \in 1..n - 1 /\ i + 1 \in 1..n - 1
      BY <1>1
    <3> QED BY <3>1, <1>4, <1>5
  <2>5. /\ nodes' = nodes /\ needs' = needs /\ stack' \in Seq(Frames')
    BY <1>1, <1>4
  <2> HIDE DEF n
  <2> QED BY <2>1, <2>2, <2>3, <2>4, <2>5, <1>4, <1>6 DEF StackIsPath
<1>9. CyclesAreCycles'
  BY <1>0, <1>1 DEF SearchInv, CyclesAreCycles, IsCycle
<1>10. NothingStuckBehind'
  <2> SUFFICES ASSUME cycles = {} PROVE NothingStuckBehind'
    BY <1>1 DEF NothingStuckBehind
  <2>1. /\ \A y \in Finished : needs[y] \subseteq Finished
        /\ \A set \in SUBSET Finished : Stuck(set) => set = {}
        /\ \A i \in 1..n : \A y \in needs[stack[i].id] \ stack[i].rest :
             y \in Finished \/ (i < n /\ y = stack[i + 1].id)
    BY <1>0 DEF SearchInv, NothingStuckBehind
  <2>2. Finished' = Finished \cup {x}
    BY <1>1, <1>5, <1>6 DEF Finished
  <2>3. needs[x] \subseteq Finished /\ x \notin Finished
    <3>1. ASSUME NEW y \in needs[x] PROVE y \in Finished
      <4>1. n \in 1..n /\ y \in needs[stack[n].id] \ stack[n].rest
        BY <3>1, <1>1, <1>3, <1>7
      <4>2. ~ (n < n)
        BY <1>1
      <4> HIDE DEF n
      <4> QED BY <4>1, <4>2, <2>1
    <3> QED BY <3>1, <1>7 DEF Finished
  <2>4. \A y \in Finished' : needs[y] \subseteq Finished'
    BY <2>1, <2>2, <2>3
  <2>5. ASSUME NEW set \in SUBSET (Finished \cup {x}), \A y \in set : needs[y] \cap set # {}
        PROVE  set = {}
    <3> DEFINE rest == set \ {x}
    <3>1. rest \in SUBSET Finished
      OBVIOUS
    <3>2. \A y \in rest : needs[y] \cap rest # {}
      <4> SUFFICES ASSUME NEW y \in rest PROVE needs[y] \cap rest # {}
        OBVIOUS
      <4>1. needs[y] \subseteq Finished /\ needs[y] \cap set # {}
        BY <2>1, <2>5, <3>1
      <4> QED BY <4>1, <2>3
    <3>3. rest = {}
      BY <2>1, <3>1, <3>2 DEF Stuck
    <3> SUFFICES ASSUME x \in set PROVE FALSE
      BY <3>3
    <3>4. needs[x] \cap set # {}
      BY <2>5
    <3> QED BY <3>3, <3>4, <2>3
  <2>6. ASSUME NEW i \in 1..n - 1, NEW y \in needs[stack'[i].id] \ stack'[i].rest
        PROVE  y \in Finished' \/ (i < n - 1 /\ y = stack'[i + 1].id)
    <3>1. i \in 1..n /\ stack'[i] = stack[i]
      BY <1>3, <1>4
    <3>2. y \in Finished \/ y = stack[i + 1].id
      BY <2>1, <2>6, <3>1
    <3>3. CASE i = n - 1
      BY <3>2, <3>3, <2>2, <1>1, <1>7
    <3>4. CASE i # n - 1
      <4>1. i < n - 1 /\ i + 1 \in 1..n - 1
        BY <3>4, <1>1
      <4> QED BY <4>1, <3>2, <2>2, <1>4
    <3> QED BY <3>3, <3>4
  <2>7. nodes' = nodes /\ needs' = needs
    BY <1>1
  <2>8. \A set \in SUBSET Finished' : Stuck(set)' => set = {}
    BY <2>2, <2>5, <2>7 DEF Stuck
  <2> HIDE DEF n
  <2> QED BY <2>4, <2>6, <2>7, <2>8, <1>4 DEF NothingStuckBehind
<1>11. AllSearched'
  BY <1>1 DEF AllSearched
<1> QED BY <1>8, <1>9, <1>10, <1>11 DEF SearchInv

LEMMA SearchedKeeps ==
  ASSUME GraphInv, Searched
  PROVE  SearchInv'
<1>1. /\ stack = <<>> /\ \A x \in nodes : colour[x] # 0
      /\ UNCHANGED <<nodes, needs, colour, stack, cycles>>
  BY DEF Searched, searching
<1> QED BY <1>1 DEF GraphInv, SearchInv, StackIsPath, CyclesAreCycles, NothingStuckBehind,
                    AllSearched, Frames, Finished, Stuck, IsCycle

LEMMA SearchStands ==
  ASSUME SearchInv, UNCHANGED <<nodes, needs, searching>>, at # "search"
  PROVE  SearchInv'
BY DEF SearchInv, StackIsPath, CyclesAreCycles, NothingStuckBehind, AllSearched, Frames,
       Finished, Stuck, IsCycle, searching

LEMMA SortStands ==
  ASSUME SortInv, UNCHANGED <<nodes, needs, sorting>>, at' # "end" \/ ready = {}
  PROVE  SortInv'
<1>1. Ordered' = Ordered
  BY DEF Ordered, sorting
<1> QED BY <1>1 DEF SortInv, Stuck, sorting

LEMMA TakeKeeps ==
  ASSUME GraphInv, TakeReady
  PROVE  SortInv'
<1> DEFINE n == Len(order)
<1>0. /\ nodes \subseteq Ids /\ needs \in [nodes -> SUBSET nodes]
      /\ order \in Seq(nodes) /\ n \in Nat
      /\ \A i, j \in 1..n : order[i] = order[j] => i = j
      /\ inDegree \in [nodes -> Nat]
      /\ \A y \in nodes : inDegree[y] = Cardinality(needs[y] \ Ordered)
      /\ ready = {y \in nodes \ Ordered : needs[y] \subseteq Ordered}
      /\ \A i \in 1..n : needs[order[i]] \subseteq {order[j] : j \in 1..i - 1}
      /\ \A set \in SUBSET nodes : Stuck(set) => set \cap Ordered = {}
  BY DEF GraphInv, GraphShape, SortInv
<1>1. PICK x \in ready :
        /\ order' = Append(order, x)
        /\ inDegree' = [y \in nodes |-> IF y \in Dependents(x) THEN inDegree[y] - 1 ELSE inDegree[y]]
        /\ ready' = (ready \ {x}) \cup {y \in Dependents(x) : FreedBy(y)}
  BY DEF TakeReady
<1>2. at' = "sort" /\ UNCHANGED <<nodes, needs>>
  BY DEF TakeReady
<1>3. x \in nodes /\ x \notin Ordered /\ needs[x] \subseteq Ordered /\ x \notin needs[x]
  BY <1>0
<1>4. /\ order' \in Seq(nodes) /\ Len(order') = n + 1 /\ order'[n + 1] = x
      /\ \A i \in 1..n : order'[i] = order[i]
  BY <1>0, <1>1, <1>3
<1>5. \A i \in 1..n + 1 : i \in 1..n \/ i = n + 1
  BY <1>0
<1>6. Ordered' = Ordered \cup {x} /\ \A i \in 1..n : order[i] \in Ordered
  <2>1. Ordered' = {order'[i] : i \in 1..n + 1}
    BY <1>4 DEF Ordered
  <2>2. n + 1 \in 1..n + 1 /\ \A i \in 1..n : i \in 1..n + 1
    BY <1>0
  <2> QED BY <2>1, <2>2, <1>4, <1>5 DEF Ordered
<1>7. \A y \in Ordered : needs[y] \subseteq Ordered
  <2> SUFFICES ASSUME NEW i \in 1..n PROVE needs[order[i]] \subseteq Ordered
    BY DEF Ordered
  <2>1. \A j \in 1..i - 1 : j \in 1..n
    BY <1>0
  <2> QED BY <2>1, <1>0, <1>6
<1>8. \A y \in Dependents(x) : y \in nodes /\ x \in needs[y] /\ y \notin Ordered \cup {x}
  BY <1>3, <1>7 DEF Dependents
<1>9. \A y \in nodes : /\ IsFiniteSet(needs[y] \ Ordered)
                       /\ Cardinality(needs[y] \ Ordered') =
                            IF y \in Dependents(x) THEN inDegree[y] - 1 ELSE inDegree[y]
                       /\ Cardinality(needs[y] \ Ordered') \in Nat
  <2> SUFFICES ASSUME NEW y \in nodes
               PROVE  /\ IsFiniteSet(needs[y] \ Ordered)
                      /\ Cardinality(needs[y] \ Ordered') =
                            IF y \in Dependents(x) THEN inDegree[y] - 1 ELSE inDegree[y]
                      /\ Cardinality(needs[y] \ Ordered') \in Nat
    OBVIOUS
  <2>1. needs[y] \ Ordered \in SUBSET nodes /\ needs[y] \ Ordered' \in SUBSET nodes
    BY <1>0
  <2>2. IsFiniteSet(needs[y] \ Ordered)
    BY <2>1, <1>0, FinitePackages
  <2>3. Cardinality(needs[y] \ Ordered') \in Nat
    BY <2>1, <1>0, FinitePackages
  <2>4. needs[y] \ Ordered' = (needs[y] \ Ordered) \ {x}
    BY <1>6
  <2>5. Cardinality((needs[y] \ Ordered) \ {x}) =
          IF x \in needs[y] \ Ordered THEN Cardinality(needs[y] \ Ordered) - 1
          ELSE Cardinality(needs[y] \ Ordered)
    BY <2>2, FS_RemoveElement
  <2>6. x \in needs[y] \ Ordered <=> y \in Dependents(x)
    BY <1>3 DEF Dependents
  <2> QED BY <2>2, <2>3, <2>4, <2>5, <2>6, <1>0
<1>10. /\ inDegree' \in [nodes -> Nat]
       /\ \A y \in nodes : inDegree'[y] = Cardinality(needs[y] \ Ordered')
  BY <1>1, <1>9
<1>11. \A y \in Dependents(x) : FreedBy(y) <=> needs[y] \subseteq Ordered'
  <2> SUFFICES ASSUME NEW y \in Dependents(x)
               PROVE  FreedBy(y) <=> needs[y] \subseteq Ordered'
    OBVIOUS
  <2>1. y \in nodes /\ x \in needs[y] \ Ordered /\ IsFiniteSet(needs[y] \ Ordered)
    BY <1>3, <1>8, <1>9
  <2>2. Cardinality(needs[y] \ Ordered) = 1 <=> \E z : needs[y] \ Ordered = {z}
    BY <2>1, FS_Singleton
  <2>3. (\E z : needs[y] \ Ordered = {z}) <=> needs[y] \ Ordered = {x}
    BY <2>1
  <2>4. needs[y] \ Ordered = {x} <=> needs[y] \subseteq Ordered \cup {x}
    BY <2>1
  <2> QED BY <2>1, <2>2, <2>3, <2>4, <1>0, <1>6 DEF FreedBy
<1>12. ready' = {y \in nodes \ Ordered' : needs[y] \subseteq Ordered'}
  <2>1. ASSUME NEW y \in ready' PROVE y \in nodes \ Ordered' /\ needs[y] \subseteq Ordered'
    BY <2>1, <1>0, <1>1, <1>6, <1>8, <1>11
  <2>2. ASSUME NEW y \in nodes \ Ordered', needs[y] \subseteq Ordered' PROVE y \in ready'
    <3>1. CASE x \in needs[y]
      BY <3>1, <2>2, <1>1, <1>11 DEF Dependents
    <3>2. CASE x \notin needs[y]
      BY <3>2, <2>2, <1>0, <1>1, <1>6
    <3> QED BY <3>1, <3>2
  <2> QED BY <2>1, <2>2
<1>13. \A i, j \in 1..n + 1 : order'[i] = order'[j] => i = j
  BY <1>0, <1>3, <1>4, <1>5, <1>6
<1>14. \A i \in 1..n + 1 : needs[order'[i]] \subseteq {order'[j] : j \in 1..i - 1}
  <2> SUFFICES ASSUME NEW i \in 1..n + 1
               PROVE  needs[order'[i]] \subseteq {order'[j] : j \in 1..i - 1}
    OBVIOUS
  <2>1. \A j \in 1..i - 1 : order'[j] = order[j]
    BY <1>0, <1>4
  <2>2. {order'[j] : j \in 1..i - 1} = {order[j] : j \in 1..i - 1}
    BY <2>1
  <2>3. CASE i \in 1..n
    BY <2>2, <2>3, <1>0, <1>4
  <2>4. CASE i = n + 1
    <3>1. i - 1 = n
      BY <2>4, <1>0
    <3> QED BY <2>2, <2>4, <3>1, <1>3, <1>4 DEF Ordered
  <2> QED BY <2>3, <2>4, <1>5
<1>15. \A set \in SUBSET nodes : Stuck(set)' => set \cap Ordered' = {}
  <2> SUFFICES ASSUME NEW set \in SUBSET nodes, Stuck(set) PROVE set \cap Ordered' = {}
    BY <1>2 DEF Stuck
  <2>1. set \cap Ordered = {}
    BY <1>0
  <2>2. x \notin set
    BY <2>1, <1>3 DEF Stuck
  <2> QED BY <2>1, <2>2, <1>6
<1>16. nodes' = nodes /\ needs' = needs
  BY <1>2
<1> HIDE DEF n
<1> QED BY <1>2, <1>4, <1>10, <1>12, <1>13, <1>14, <1>15, <1>16 DEF SortInv

LEMMA GraphStep ==
  ASSUME GraphInv, [GraphNext]_graphVars
  PROVE  GraphInv'
<1>0. GraphShape /\ SearchInv /\ SortInv
  BY DEF GraphInv
<1>1. GraphShape'
  BY <1>0 DEF GraphShape, GraphNext, Root, Edge, Return, Searched, TakeReady, Sorted, graphVars
<1>2. CASE Root
  BY <1>0, <1>1, <1>2, RootKeeps, SortStands DEF Root, GraphInv
<1>3. CASE Edge
  BY <1>0, <1>1, <1>3, EdgeKeeps, SortStands DEF Edge, GraphInv
<1>4. CASE Return
  BY <1>0, <1>1, <1>4, ReturnKeeps, SortStands DEF Return, GraphInv
<1>5. CASE Searched
  BY <1>0, <1>1, <1>5, SearchedKeeps, SortStands DEF Searched, GraphInv
<1>6. CASE TakeReady
  BY <1>0, <1>1, <1>6, TakeKeeps, SearchStands DEF TakeReady, GraphInv
<1>7. CASE Sorted
  <2>1. SortInv'
    BY <1>0, <1>7, SortStands DEF Sorted
  <2>2. SearchInv'
    <3>1. at = "sort" /\ at' = "end" /\ UNCHANGED <<nodes, needs, searching>>
      BY <1>7 DEF Sorted
    <3> QED BY <3>1, <1>0, SearchStands
  <2> QED BY <1>1, <2>1, <2>2 DEF GraphInv
<1>8. CASE UNCHANGED graphVars
  <2>1. at' = at /\ UNCHANGED <<nodes, needs, searching, sorting>>
    BY <1>8 DEF graphVars
  <2>2. SortInv'
    BY <2>1, <1>0, SortStands DEF SortInv
  <2>3. SearchInv'
    BY <2>1, <1>0 DEF SearchInv, StackIsPath, CyclesAreCycles, NothingStuckBehind, AllSearched,
                     Frames, Finished, Stuck, IsCycle, searching
  <2> QED BY <1>1, <2>2, <2>3 DEF GraphInv
<1> QED BY <1>2, <1>3, <1>4, <1>5, <1>6, <1>7, <1>8 DEF GraphNext

LEMMA CycleIsStuck ==
  ASSUME NEW c \in Seq(nodes), c # <<>>, IsCycle(c)
  PROVE  ToSet(c) \in SUBSET nodes /\ ToSet(c) # {} /\ Stuck(ToSet(c))
<1>1. Len(c) \in Nat /\ Len(c) > 0 /\ DOMAIN c = 1..Len(c)
  OBVIOUS
<1>2. ToSet(c) = {c[i] : i \in 1..Len(c)}
  BY <1>1 DEF ToSet
<1>3. ToSet(c) \in SUBSET nodes
  <2>1. \A i \in 1..Len(c) : c[i] \in nodes
    BY <1>1
  <2> QED BY <2>1, <1>2
<1>4. 1 \in 1..Len(c)
  BY <1>1
<1>5. ASSUME NEW i \in 1..Len(c) PROVE needs[c[i]] \cap ToSet(c) # {}
  <2> DEFINE k == IF i = Len(c) THEN 1 ELSE i + 1
  <2>1. k \in 1..Len(c)
    <3>1. PICK n \in Nat : n = Len(c)
      BY <1>1
    <3>2. i \in 1..n /\ n > 0
      BY <1>1, <3>1
    <3>3. 1 \in 1..n /\ (i # n => i + 1 \in 1..n)
      BY <3>2
    <3> QED BY <3>1, <3>3
  <2>2. c[k] \in needs[c[i]]
    <3>1. \A j \in 1..Len(c) : c[IF j = Len(c) THEN 1 ELSE j + 1] \in needs[c[j]]
      BY <1>1 DEF IsCycle
    <3> QED BY <3>1
  <2> HIDE DEF k
  <2> QED BY <2>1, <2>2, <1>2
<1> QED BY <1>2, <1>3, <1>4, <1>5 DEF Stuck

LEMMA GraphInvIsRight == GraphInv => SearchIsRight
<1> SUFFICES ASSUME GraphInv PROVE SearchIsRight
  OBVIOUS
<1>0. GraphShape /\ SearchInv /\ SortInv
  BY DEF GraphInv
<1>1. Len(order) \in Nat /\ DOMAIN order = 1..Len(order) /\ ToSet(order) = Ordered
  BY <1>0 DEF SortInv, ToSet, Ordered
<1>2. Topological
  BY <1>0, <1>1 DEF SortInv, Topological
<1>3. \A c \in cycles : IsCycle(c)
  BY <1>0 DEF SearchInv, CyclesAreCycles
<1>4. ASSUME at # "search"
      PROVE  cycles # {} <=> \E set \in SUBSET nodes : set # {} /\ Stuck(set)
  <2>1. ASSUME cycles # {} PROVE \E set \in SUBSET nodes : set # {} /\ Stuck(set)
    <3>1. PICK c \in cycles : TRUE
      BY <2>1
    <3>2. c # <<>> /\ c \in Seq(nodes) /\ IsCycle(c)
      BY <1>0 DEF SearchInv, CyclesAreCycles
    <3> QED BY <3>2, CycleIsStuck
  <2>2. ASSUME cycles = {}, NEW set \in SUBSET nodes, Stuck(set) PROVE set = {}
    <3>1. stack = <<>> /\ \A x \in nodes : colour[x] # 0
      BY <1>0, <1>4 DEF SearchInv, AllSearched
    <3>2. Len(stack) = 0
      BY <3>1
    <3>3. \A x \in nodes : colour[x] # 1 /\ colour[x] \in 0..2
      BY <1>0, <3>2 DEF SearchInv, StackIsPath
    <3>4. Finished = nodes
      BY <3>1, <3>3 DEF Finished
    <3> QED BY <2>2, <3>4, <1>0 DEF SearchInv, NothingStuckBehind
  <2> QED BY <2>1, <2>2
<1>5. ASSUME at = "end"
      PROVE  /\ Stuck(Cyclic) /\ \A set \in SUBSET nodes : Stuck(set) => set \subseteq Cyclic
             /\ Cyclic = {} <=> cycles = {}
  <2>1. ready = {} /\ ready = {y \in nodes \ Ordered : needs[y] \subseteq Ordered}
    BY <1>0, <1>5 DEF SortInv
  <2>2. Cyclic = nodes \ Ordered
    BY <1>1 DEF Cyclic
  <2>3. Stuck(Cyclic)
    BY <2>1, <2>2, <1>0 DEF Stuck, GraphShape
  <2>4. \A set \in SUBSET nodes : Stuck(set) => set \subseteq Cyclic
    BY <2>2, <1>0 DEF SortInv
  <2>5. Cyclic \in SUBSET nodes
    BY <2>2
  <2> QED BY <2>3, <2>4, <2>5, <1>4, <1>5
<1> QED BY <1>2, <1>3, <1>4, <1>5 DEF SearchIsRight

THEOREM GraphInvariant == GraphSpec => []GraphInv
<1>1. GraphInit => GraphInv
  BY GraphInitInv
<1>2. GraphInv /\ [GraphNext]_graphVars => GraphInv'
  BY GraphStep
<1> QED BY <1>1, <1>2, PTL DEF GraphSpec

\* detectCycle and topoSort on every graph: what is reported is a cycle, a cycle
\* is reported when there is one, and the sort leaves out the largest set of
\* packages that wait for each other (topo-sort.ts).
THEOREM SearchAndSortAgree == GraphSpec => []SearchIsRight
<1>1. GraphInv => SearchIsRight
  BY GraphInvIsRight
<1> QED BY <1>1, GraphInvariant, PTL

-----------------------------------------------------------------------------
(* The merge.                                                              *)

\* A package that ran, and the graph was not being replaced at its dispatch.
RanWhole(w) == latest[w] # "none" /\ w \notin overtaken

KeepsWhatRan(g) == \A w \in Packages : RanWhole(w) => w \in DOMAIN g /\ g[w] = ranWith[w]

HandlerInv(h) ==
  /\ h \in Handlers
  /\ h.pc = "read" => Sound(h.msg.wps) /\ Structural(h.existing) /\ KeepsWhatRan(h.existing)
  /\ h.pc = "upsert" => Sound(h.graph) /\ KeepsWhatRan(h.graph)

RedecomposeInv ==
  /\ stored \in Graphs /\ Sound(stored) /\ KeepsWhatRan(stored)
  /\ intent \in {"none", "spec"}
  /\ latest \in [Packages -> States]
  /\ ranWith \in [Packages -> SUBSET Packages]
  /\ inbox \in Seq(Messages)
  /\ \A w \in briefs \cap Packages : latest[w] # "none"
  /\ consumers = [c \in Consumers |-> consumers[c]]
  /\ \A c \in Consumers : HandlerInv(consumers[c])

LEMMA GraphIsFunction ==
  ASSUME NEW g
  PROVE  g \in Graphs <=> \E set \in SUBSET Packages : g \in [set -> SUBSET Packages]
BY DEF Graphs

LEMMA HandlerShapes ==
  ASSUME NEW h \in Handlers
  PROVE  /\ h.pc \in {"idle", "read", "upsert"}
         /\ h.pc = "read" => /\ h.msg \in Messages /\ h.existing \in Graphs
                             /\ h.intent \in {"none", "spec"}
         /\ h.pc = "upsert" => h.graph \in Graphs /\ h.intent \in {"none", "spec"}
<1>1. CASE h \in [pc : {"idle"}]
  BY <1>1
<1>2. CASE h \in [pc : {"read"}, msg : Messages, existing : Graphs, intent : {"none", "spec"}]
  BY <1>2
<1>3. CASE h \in [pc : {"upsert"}, graph : Graphs, intent : {"none", "spec"}]
  BY <1>3
<1> QED BY <1>1, <1>2, <1>3 DEF Handlers

LEMMA MessageShape ==
  ASSUME NEW m \in Messages
  PROVE  m.wps \in Graphs /\ m.intent \in {"none", "spec"}
BY DEF Messages

\* The merge names no package it does not have, and keeps what is in flight.
LEMMA MergeKeeps ==
  ASSUME NEW existing \in Graphs, NEW incoming \in Graphs,
         Structural(existing), Structural(incoming)
  PROVE  /\ Merge(existing, incoming) \in Graphs
         /\ Structural(Merge(existing, incoming))
         /\ \A w \in Inflight \cap DOMAIN existing :
              /\ w \in DOMAIN Merge(existing, incoming)
              /\ Merge(existing, incoming)[w] = existing[w]
<1> DEFINE kept == Inflight \cap DOMAIN existing
           base == DOMAIN incoming \cup kept
           Whole(set) == /\ kept \subseteq set
                         /\ \A w \in set : (existing[w] \cap DOMAIN existing) \ base \subseteq set
           reach == {x \in DOMAIN existing :
                       \A set \in SUBSET DOMAIN existing : Whole(set) => x \in set}
           all == base \cup reach
           merged == [w \in all |-> IF w \in DOMAIN incoming \ kept THEN incoming[w] ELSE existing[w]]
<1>1. /\ DOMAIN existing \in SUBSET Packages
      /\ \A w \in DOMAIN existing : existing[w] \in SUBSET Packages
  BY GraphIsFunction
<1>2. /\ DOMAIN incoming \in SUBSET Packages
      /\ \A w \in DOMAIN incoming : incoming[w] \in SUBSET Packages
  BY GraphIsFunction
<1>3. Merge(existing, incoming) = merged
  BY DEF Merge, Closure
<1>4. kept \subseteq reach /\ reach \subseteq DOMAIN existing
  OBVIOUS
<1>5. \A w \in all : w \in DOMAIN incoming \ kept \/ w \in reach
  BY <1>4
<1>6. ASSUME NEW w \in reach PROVE existing[w] \subseteq all
  <2> SUFFICES ASSUME NEW y \in existing[w], y \notin base PROVE y \in reach
    OBVIOUS
  <2>1. w \in DOMAIN existing
    BY <1>4
  <2>2. y \in DOMAIN existing
    BY <2>1 DEF Structural
  <2>3. ASSUME NEW set \in SUBSET DOMAIN existing, Whole(set) PROVE y \in set
    <3>1. w \in set
      BY <2>3
    <3> QED BY <3>1, <2>2, <2>3
  <2> QED BY <2>2, <2>3
<1> HIDE DEF reach, kept
<1>7. all \in SUBSET Packages
  BY <1>1, <1>2, <1>4, <1>5
<1>8. ASSUME NEW w \in all
      PROVE  /\ merged[w] \in SUBSET Packages
             /\ merged[w] \subseteq all
             /\ w \notin DOMAIN incoming \ kept => merged[w] = existing[w]
  <2>1. CASE w \in DOMAIN incoming \ kept
    BY <2>1, <1>2 DEF Structural
  <2>2. CASE w \notin DOMAIN incoming \ kept
    BY <2>2, <1>1, <1>4, <1>5, <1>6
  <2> QED BY <2>1, <2>2
<1>9. DOMAIN merged = all
  OBVIOUS
<1>10. merged \in [all -> SUBSET Packages]
  BY <1>8
<1>11. merged \in Graphs
  BY <1>7, <1>10, GraphIsFunction
<1>12. Structural(merged)
  BY <1>8, <1>9 DEF Structural
<1>13. \A w \in kept : w \in DOMAIN merged /\ merged[w] = existing[w]
  BY <1>8, <1>9, <1>4
<1> QED BY <1>3, <1>11, <1>12, <1>13 DEF kept

LEMMA RedecomposeInitInv == RedecomposeInit => RedecomposeInv
<1> SUFFICES ASSUME RedecomposeInit PROVE RedecomposeInv
  OBVIOUS
<1> USE DEF RedecomposeInit
<1>1. stored = [w \in {} |-> {}] /\ DOMAIN stored = {}
  BY DEF NoGraph
<1>2. stored \in [{} -> SUBSET Packages]
  BY <1>1
<1>3. stored \in Graphs
  BY <1>2, GraphIsFunction
<1>4. Sound(stored)
  BY <1>1 DEF Sound, Structural, Acyclic
<1>5. KeepsWhatRan(stored)
  BY DEF KeepsWhatRan, RanWhole
<1>6. \A k \in Consumers : consumers[k] = [pc |-> "idle"] /\ HandlerInv(consumers[k])
  BY DEF HandlerInv, Handlers
<1> QED BY <1>3, <1>4, <1>5, <1>6 DEF RedecomposeInv, States

\* A step that leaves the log of the packages alone and moves one consumer at
\* most, to what its invariant allows, and the graph to what it may be.
LEMMA ConsumerMoves ==
  ASSUME RedecomposeInv, UNCHANGED <<latest, briefs, ranWith, overtaken>>,
         NEW k \in Consumers, NEW h, consumers' = [consumers EXCEPT ![k] = h],
         HandlerInv(h),
         stored' \in Graphs, Sound(stored'), KeepsWhatRan(stored'),
         intent' \in {"none", "spec"}, inbox' \in Seq(Messages)
  PROVE  RedecomposeInv'
<1>1. \A g : KeepsWhatRan(g)' <=> KeepsWhatRan(g)
  BY DEF KeepsWhatRan, RanWhole
<1>2. \A g : HandlerInv(g)' <=> HandlerInv(g)
  BY DEF HandlerInv, KeepsWhatRan, RanWhole
<1>3. consumers = [c \in Consumers |-> consumers[c]] /\ \A c \in Consumers : HandlerInv(consumers[c])
  BY DEF RedecomposeInv
<1>4. consumers' = [c \in Consumers |-> IF c = k THEN h ELSE consumers[c]]
  BY <1>3
<1>5. consumers' = [c \in Consumers |-> consumers'[c]]
  BY <1>4
<1>6. \A c \in Consumers : HandlerInv(consumers'[c])
  BY <1>3, <1>4
<1>7. \A c \in Consumers : HandlerInv(consumers[c])'
  BY <1>6 DEF HandlerInv, KeepsWhatRan, RanWhole
<1>8. KeepsWhatRan(stored)'
  BY DEF KeepsWhatRan, RanWhole
<1> QED BY <1>5, <1>7, <1>8 DEF RedecomposeInv

\* A step of one package, which leaves the graph and the consumers alone.
LEMMA PackageMoves ==
  ASSUME RedecomposeInv, UNCHANGED <<stored, intent, consumers>>,
         latest' \in [Packages -> States], ranWith' \in [Packages -> SUBSET Packages],
         inbox' \in Seq(Messages),
         \A w \in briefs' \cap Packages : latest'[w] # "none",
         \A w \in Packages : RanWhole(w)' =>
           \/ RanWhole(w) /\ ranWith'[w] = ranWith[w]
           \/ /\ w \in DOMAIN stored /\ ranWith'[w] = stored[w]
              /\ \A k \in Consumers : consumers[k].pc = "idle"
  PROVE  RedecomposeInv'
<1>1. stored \in Graphs /\ Sound(stored) /\ KeepsWhatRan(stored) /\ intent \in {"none", "spec"}
      /\ consumers = [c \in Consumers |-> consumers[c]] /\ \A c \in Consumers : HandlerInv(consumers[c])
  BY DEF RedecomposeInv
<1>2. KeepsWhatRan(stored)'
  BY <1>1 DEF KeepsWhatRan
<1>3. ASSUME NEW c \in Consumers PROVE HandlerInv(consumers[c])'
  <2>0. HandlerInv(consumers[c])
    BY <1>1
  <2>1. CASE consumers[c].pc = "read"
    <3>1. KeepsWhatRan(consumers[c].existing)'
      BY <2>0, <2>1 DEF HandlerInv, KeepsWhatRan
    <3> QED BY <2>0, <2>1, <3>1 DEF HandlerInv
  <2>2. CASE consumers[c].pc = "upsert"
    <3>1. KeepsWhatRan(consumers[c].graph)'
      BY <2>0, <2>2 DEF HandlerInv, KeepsWhatRan
    <3> QED BY <2>0, <2>2, <3>1 DEF HandlerInv
  <2>3. CASE consumers[c].pc # "read" /\ consumers[c].pc # "upsert"
    BY <2>0, <2>3 DEF HandlerInv
  <2> QED BY <2>1, <2>2, <2>3
<1> QED BY <1>1, <1>2, <1>3 DEF RedecomposeInv

LEMMA InboxTaken ==
  ASSUME inbox \in Seq(Messages), inbox # <<>>
  PROVE  Head(inbox) \in Messages /\ Tail(inbox) \in Seq(Messages)
OBVIOUS

LEMMA Emitted ==
  ASSUME inbox \in Seq(Messages), NEW g \in Incoming, NEW text \in {"none", "spec"}, Emit(g, text)
  PROVE  inbox' \in Seq(Messages)
<1>1. [wps |-> g, intent |-> text] \in Messages
  BY RedecomposeAssumption DEF Messages
<1> QED BY <1>1 DEF Emit

LEMMA RedecomposeStep ==
  ASSUME RedecomposeInv, [RedecomposeNext]_redecomposeVars
  PROVE  RedecomposeInv'
<1>0. /\ stored \in Graphs /\ Sound(stored) /\ KeepsWhatRan(stored) /\ intent \in {"none", "spec"}
      /\ latest \in [Packages -> States] /\ ranWith \in [Packages -> SUBSET Packages]
      /\ inbox \in Seq(Messages)
      /\ \A w \in briefs \cap Packages : latest[w] # "none"
      /\ \A c \in Consumers : HandlerInv(consumers[c])
  BY DEF RedecomposeInv
<1>1. CASE Request
  <2>1. inbox' \in Seq(Messages)
    BY <1>0, <1>1, Emitted DEF Request
  <2> QED BY <2>1, <1>0, <1>1, PackageMoves DEF Request, RanWhole
<1>2. CASE Refuse
  <2>1. inbox' \in Seq(Messages)
    BY <1>0, <1>2, InboxTaken DEF Refuse, Taken
  <2> QED BY <2>1, <1>0, <1>2, PackageMoves DEF Refuse, RanWhole
<1>3. CASE ReadPlan
  BY <1>0, <1>3, PackageMoves DEF ReadPlan, RanWhole
<1>4. ASSUME NEW k \in Consumers, ReadStored(k) PROVE RedecomposeInv'
  <2> DEFINE h == [pc |-> "read", msg |-> Head(inbox), existing |-> stored, intent |-> intent]
  <2>1. /\ inbox # <<>> /\ Sound(Head(inbox).wps) /\ inbox' = Tail(inbox)
        /\ consumers' = [consumers EXCEPT ![k] = h]
        /\ UNCHANGED <<stored, intent, latest, briefs, ranWith, overtaken>>
    BY <1>4 DEF ReadStored, Taken
  <2>2. Head(inbox) \in Messages /\ inbox' \in Seq(Messages)
    BY <2>1, <1>0, InboxTaken
  <2>3. h \in Handlers
    BY <2>2, <1>0 DEF Handlers
  <2>4. HandlerInv(h)
    BY <2>1, <2>3, <1>0 DEF HandlerInv, Sound
  <2> HIDE DEF h
  <2> QED BY <2>1, <2>2, <2>4, <1>0, ConsumerMoves
<1>5. ASSUME NEW k \in Consumers, MergeInflight(k) PROVE RedecomposeInv'
  <2> DEFINE old == consumers[k]
             merged == IF DOMAIN old.existing = {} THEN old.msg.wps
                       ELSE Merge(old.existing, old.msg.wps)
             h == IF Sound(merged)
                  THEN [pc |-> "upsert", graph |-> merged, intent |-> IntentOf(old)]
                  ELSE [pc |-> "idle"]
  <2>1. /\ old.pc = "read" /\ consumers' = [consumers EXCEPT ![k] = h]
        /\ UNCHANGED <<stored, intent, latest, inbox, briefs, ranWith, overtaken>>
    BY <1>5 DEF MergeInflight
  <2>2. /\ HandlerInv(old) /\ old \in Handlers
        /\ Sound(old.msg.wps) /\ Structural(old.existing) /\ KeepsWhatRan(old.existing)
    BY <2>1, <1>0 DEF HandlerInv
  <2>3. old.msg \in Messages /\ old.existing \in Graphs /\ old.intent \in {"none", "spec"}
    BY <2>1, <2>2, HandlerShapes
  <2>4. old.msg.wps \in Graphs /\ old.msg.intent \in {"none", "spec"} /\ Structural(old.msg.wps)
    BY <2>2, <2>3, MessageShape DEF Sound
  <2>5. IntentOf(old) \in {"none", "spec"}
    BY <2>3, <2>4 DEF IntentOf
  <2> HIDE DEF old
  <2>6. merged \in Graphs /\ KeepsWhatRan(merged)
    <3>1. CASE DOMAIN old.existing = {}
      BY <3>1, <2>2, <2>4 DEF KeepsWhatRan
    <3>2. CASE DOMAIN old.existing # {}
      <4>1. /\ Merge(old.existing, old.msg.wps) \in Graphs
            /\ \A w \in Inflight \cap DOMAIN old.existing :
                 /\ w \in DOMAIN Merge(old.existing, old.msg.wps)
                 /\ Merge(old.existing, old.msg.wps)[w] = old.existing[w]
        BY <2>2, <2>3, <2>4, MergeKeeps
      <4>2. \A w \in Packages : RanWhole(w) => w \in Inflight
        BY <1>0 DEF RanWhole, Inflight, States
      <4>3. KeepsWhatRan(Merge(old.existing, old.msg.wps))
        BY <4>1, <4>2, <2>2 DEF KeepsWhatRan
      <4> QED BY <3>2, <4>1, <4>3
    <3> QED BY <3>1, <3>2
  <2> HIDE DEF merged
  <2>7. HandlerInv(h)
    <3>1. CASE Sound(merged)
      <4>1. [pc |-> "upsert", graph |-> merged, intent |-> IntentOf(old)] \in Handlers
        BY <2>5, <2>6 DEF Handlers
      <4> QED BY <3>1, <4>1, <2>6 DEF HandlerInv
    <3>2. CASE ~ Sound(merged)
      <4>1. [pc |-> "idle"] \in Handlers
        BY DEF Handlers
      <4> QED BY <3>2, <4>1 DEF HandlerInv
    <3> QED BY <3>1, <3>2
  <2> HIDE DEF h
  <2> QED BY <2>1, <2>7, <1>0, ConsumerMoves
<1>6. ASSUME NEW k \in Consumers, UpsertGraph(k) PROVE RedecomposeInv'
  <2>1. /\ consumers[k].pc = "upsert"
        /\ stored' = consumers[k].graph /\ intent' = consumers[k].intent
        /\ consumers' = [consumers EXCEPT ![k] = [pc |-> "idle"]]
        /\ UNCHANGED <<latest, inbox, briefs, ranWith, overtaken>>
    BY <1>6 DEF UpsertGraph
  <2>2. /\ consumers[k] \in Handlers /\ Sound(consumers[k].graph)
        /\ KeepsWhatRan(consumers[k].graph)
    BY <2>1, <1>0 DEF HandlerInv
  <2>3. consumers[k].graph \in Graphs /\ consumers[k].intent \in {"none", "spec"}
    BY <2>1, <2>2, HandlerShapes
  <2>4. HandlerInv([pc |-> "idle"])
    BY DEF HandlerInv, Handlers
  <2>5. stored' \in Graphs /\ Sound(stored') /\ KeepsWhatRan(stored')
    BY <2>1, <2>2, <2>3
  <2> QED BY <2>1, <2>3, <2>4, <2>5, <1>0, ConsumerMoves
<1>7. ASSUME NEW w \in Packages, SpecFix(w) PROVE RedecomposeInv'
  <2>1. inbox' \in Seq(Messages)
    BY <1>0, <1>7, Emitted DEF SpecFix
  <2> QED BY <2>1, <1>0, <1>7, PackageMoves DEF SpecFix, RanWhole
<1>8. ASSUME NEW w \in Packages, DispatchReady(w) PROVE RedecomposeInv'
  <2>0. UNCHANGED <<stored, intent, inbox, consumers, briefs>>
    BY <1>8 DEF DispatchReady
  <2>1. CASE latest[w] = "none"
    <3>1. /\ latest' = [latest EXCEPT ![w] = "DISPATCHED"]
          /\ ranWith' = [ranWith EXCEPT ![w] = IF w \in DOMAIN stored THEN stored[w] ELSE {}]
          /\ overtaken' = IF \/ \E c \in Consumers : consumers[c].pc # "idle"
                             \/ w \notin DOMAIN stored
                          THEN overtaken \cup {w} ELSE overtaken
      BY <1>8, <2>1 DEF DispatchReady
    <3>2. w \in DOMAIN stored => stored[w] \in SUBSET Packages
      BY <1>0, GraphIsFunction
    <3>3. latest' \in [Packages -> States] /\ ranWith' \in [Packages -> SUBSET Packages]
      BY <3>1, <3>2, <1>0 DEF States
    <3>4. ASSUME NEW v \in Packages, RanWhole(v)'
          PROVE  \/ RanWhole(v) /\ ranWith'[v] = ranWith[v]
                 \/ /\ v \in DOMAIN stored /\ ranWith'[v] = stored[v]
                    /\ \A k \in Consumers : consumers[k].pc = "idle"
      <4>1. CASE v = w
        BY <4>1, <3>1, <3>4, <1>0 DEF RanWhole
      <4>2. CASE v # w
        BY <4>2, <3>1, <3>4, <1>0 DEF RanWhole
      <4> QED BY <4>1, <4>2
    <3>5. \A v \in briefs' \cap Packages : latest'[v] # "none"
      BY <2>0, <3>1, <1>0
    <3> QED BY <2>0, <3>3, <3>4, <3>5, <1>0, PackageMoves
  <2>2. CASE latest[w] # "none"
    <3>1. UNCHANGED <<latest, ranWith, overtaken>>
      BY <1>8, <2>2 DEF DispatchReady
    <3> QED BY <2>0, <3>1, <1>0, PackageMoves DEF RanWhole
  <2> QED BY <2>1, <2>2
<1>9. ASSUME NEW w \in Packages, Finish(w) \/ Escalate(w) \/ Reverify(w) PROVE RedecomposeInv'
  <2>0. latest[w] # "none"
    BY <1>0, <1>9 DEF Finish, Escalate, Reverify
  <2>1. PICK s \in {"DISPATCHED", "DONE", "ESCALATED"} : latest' = [latest EXCEPT ![w] = s]
    BY <1>9 DEF Finish, Escalate, Reverify
  <2>2. UNCHANGED <<stored, intent, inbox, consumers, ranWith, overtaken>>
    BY <1>9 DEF Finish, Escalate, Reverify
  <2>3. latest' \in [Packages -> States] /\ \A v \in Packages : RanWhole(v)' => RanWhole(v)
    BY <2>0, <2>1, <2>2, <1>0 DEF States, RanWhole
  <2>4. briefs' \subseteq briefs \cup {w}
    BY <1>9 DEF Finish, Escalate, Reverify
  <2>5. \A v \in briefs' \cap Packages : latest'[v] # "none"
    BY <2>1, <2>4, <1>0
  <2>6. \A v \in Packages : RanWhole(v)' => RanWhole(v) /\ ranWith'[v] = ranWith[v]
    BY <2>2, <2>3
  <2> QED BY <2>2, <2>3, <2>5, <2>6, <1>0, PackageMoves
<1>11. CASE UNCHANGED redecomposeVars
  BY <1>0, <1>11, PackageMoves DEF redecomposeVars, RanWhole
<1> QED BY <1>1, <1>2, <1>3, <1>4, <1>5, <1>6, <1>7, <1>8, <1>9, <1>11 DEF RedecomposeNext

LEMMA RedecomposeIsRight == RedecomposeInv => MergeIsRight
<1> SUFFICES ASSUME RedecomposeInv PROVE MergeIsRight
  OBVIOUS
<1>1. Structural(stored) /\ Acyclic(stored)
  BY DEF RedecomposeInv, Sound
<1>2. \A w \in Packages \ overtaken :
        latest[w] # "none" => w \in DOMAIN stored /\ stored[w] = ranWith[w]
  BY DEF RedecomposeInv, KeepsWhatRan, RanWhole
<1>3. ASSUME NEW k \in Consumers, consumers[k].pc = "read"
      PROVE  Structural(Merge(consumers[k].existing, consumers[k].msg.wps))
  <2>1. /\ consumers[k] \in Handlers
        /\ Sound(consumers[k].msg.wps) /\ Structural(consumers[k].existing)
    BY <1>3 DEF RedecomposeInv, HandlerInv
  <2>2. consumers[k].msg.wps \in Graphs /\ consumers[k].existing \in Graphs
    BY <1>3, <2>1, HandlerShapes, MessageShape
  <2> QED BY <2>1, <2>2, MergeKeeps DEF Sound
<1> QED BY <1>1, <1>2, <1>3 DEF MergeIsRight

THEOREM RedecomposeInvariant == RedecomposeSpec => []RedecomposeInv
<1>1. RedecomposeInit => RedecomposeInv
  BY RedecomposeInitInv
<1>2. RedecomposeInv /\ [RedecomposeNext]_redecomposeVars => RedecomposeInv'
  BY RedecomposeStep
<1> QED BY <1>1, <1>2, PTL DEF RedecomposeSpec

\* Whatever decompositions come while packages run, the stored graph is sound and
\* a package that ran keeps the dependencies it ran with, for any number of
\* decomposition consumers (stable-merge.ts, decomposition-consumer.ts).
THEOREM WhatRanStays == RedecomposeSpec => []MergeIsRight
<1>1. RedecomposeInv => MergeIsRight
  BY RedecomposeIsRight
<1> QED BY <1>1, RedecomposeInvariant, PTL

\* With one consumer what is being stored was made from what is stored.
IntentInv ==
  \A k \in Consumers :
    /\ consumers[k].pc = "read" => consumers[k].intent = intent
    /\ consumers[k].pc = "upsert" /\ intent = "spec" => consumers[k].intent = "spec"

\* A stored specification survives a message without one, so that spec_fix can
\* run again, as long as one consumer stores graphs: of two the slower may have
\* read before the other stored it (decomposition-consumer.ts).
THEOREM IntentIsNeverLost ==
  ASSUME \A j, k \in Consumers : j = k
  PROVE  RedecomposeSpec => IntentKept
<1>1. RedecomposeInit => IntentInv
  BY DEF RedecomposeInit, IntentInv
<1>2. ASSUME RedecomposeInv, IntentInv, [RedecomposeNext]_redecomposeVars
      PROVE  IntentInv' /\ (intent = "spec" => intent' = "spec")
  <2>0. /\ inbox \in Seq(Messages) /\ intent \in {"none", "spec"}
        /\ \A c \in Consumers : HandlerInv(consumers[c])
        /\ consumers = [c \in Consumers |-> consumers[c]]
    BY <1>2 DEF RedecomposeInv
  <2>1. CASE UNCHANGED <<intent, consumers>>
    BY <1>2, <2>1 DEF IntentInv
  <2>2. ASSUME NEW k \in Consumers, ReadStored(k)
        PROVE  IntentInv' /\ (intent = "spec" => intent' = "spec")
    <3>1. consumers'[k].pc = "read" /\ consumers'[k].intent = intent /\ intent' = intent
      BY <2>0, <2>2 DEF ReadStored
    <3> QED BY <3>1 DEF IntentInv
  <2>3. ASSUME NEW k \in Consumers, MergeInflight(k)
        PROVE  IntentInv' /\ (intent = "spec" => intent' = "spec")
    <3>1. consumers[k].pc = "read" /\ intent' = intent /\ consumers[k] \in Handlers
      BY <2>0, <2>3 DEF MergeInflight, HandlerInv
    <3>2. consumers[k].intent = intent /\ consumers[k].msg.intent \in {"none", "spec"}
      BY <3>1, <1>2, HandlerShapes, MessageShape DEF IntentInv
    <3>3. \/ consumers'[k].pc = "idle"
          \/ consumers'[k].pc = "upsert" /\ consumers'[k].intent = IntentOf(consumers[k])
      BY <2>0, <2>3 DEF MergeInflight
    <3>4. intent = "spec" => IntentOf(consumers[k]) = "spec"
      BY <3>2 DEF IntentOf
    <3> QED BY <3>1, <3>3, <3>4 DEF IntentInv
  <2>4. ASSUME NEW k \in Consumers, UpsertGraph(k)
        PROVE  IntentInv' /\ (intent = "spec" => intent' = "spec")
    <3>1. consumers'[k].pc = "idle" /\ consumers[k].pc = "upsert" /\ intent' = consumers[k].intent
      BY <2>0, <2>4 DEF UpsertGraph
    <3> QED BY <3>1, <1>2 DEF IntentInv
  <2>5. UNCHANGED <<intent, consumers>> \/ \E k \in Consumers : ReadStored(k) \/ MergeInflight(k) \/ UpsertGraph(k)
    BY <1>2 DEF RedecomposeNext, Request, Refuse, ReadPlan, SpecFix, DispatchReady, Finish,
                Escalate, Reverify, redecomposeVars
  <2> QED BY <2>1, <2>2, <2>3, <2>4, <2>5
<1>3. RedecomposeSpec => []RedecomposeInv
  BY RedecomposeInvariant
<1>4. RedecomposeInv /\ IntentInv /\ [RedecomposeNext]_redecomposeVars => IntentInv'
  BY <1>2
<1>5. RedecomposeInv /\ IntentInv /\ [RedecomposeNext]_redecomposeVars
        => [intent = "spec" => intent' = "spec"]_redecomposeVars
  BY <1>2
<1> QED BY <1>1, <1>3, <1>4, <1>5, PTL DEF RedecomposeSpec, IntentKept

-----------------------------------------------------------------------------
(* GitHub.                                                                 *)

Calls == CommitIds \ {"root"}
Before == {"repo", "create", "poll", "parent", "commit"}

\* Each commit contains itself, and what is contained in what it contains.
ContainsAll ==
  /\ \A c \in CommitIds : c \in history[c]
  /\ \A c \in CommitIds : \A d \in history[c] : history[d] \subseteq history[c]

\* A commit that is not made yet is nobody's head, parent or ancestor.
UnmadeIsUnknown ==
  \A x \in Calls : calls[x].pc \in Before =>
    /\ history[x] = {x}
    /\ \A c \in CommitIds \ {x} : x \notin history[c]
    /\ \A b \in DOMAIN heads : heads[b] # x
    /\ \A y \in Calls : calls[y].parent # x

\* There are branches only when the default branch is there, and whoever has
\* read a head has seen one.
BranchesAfterInit ==
  /\ DOMAIN heads # {} => repo = "ready"
  /\ \A x \in Calls : calls[x].pc \in {"commit", "ref", "create_ref"} => repo = "ready"

GitInv == GitTypeOK /\ ContainsAll /\ UnmadeIsUnknown /\ BranchesAfterInit /\ PushesStay

\* Every branch keeps its head in what it points to.
Forward == \A b \in DOMAIN heads : b \in DOMAIN heads' /\ heads[b] \in history'[heads'[b]]

-----------------------------------------------------------------------------
LEMMA InitHolds == GitInit => GitInv
<1> SUFFICES ASSUME GitInit PROVE GitInv
  OBVIOUS
<1> USE GitAssumption
<1>1. GitTypeOK
  BY DEF GitInit, GitTypeOK, CommitIds, Steps
<1>2. ContainsAll
  BY DEF GitInit, ContainsAll
<1>3. UnmadeIsUnknown
  BY DEF GitInit, UnmadeIsUnknown, Calls, CommitIds
<1>4. BranchesAfterInit
  BY DEF GitInit, BranchesAfterInit, Calls
<1>5. PushesStay
  BY DEF GitInit, PushesStay, At
<1>6. QED
  BY <1>1, <1>2, <1>3, <1>4, <1>5 DEF GitInv

\* A step that leaves branches and commits alone, and only takes call x on to
\* another point, forgetting nothing it has done.
LEMMA QuietStep ==
  ASSUME GitInv, GitTypeOK',
         NEW x \in Calls, NEW pc, Goes(x, pc),
         UNCHANGED <<heads, history>>, repo' = repo \/ (repo = "absent" /\ repo' = "created"),
         calls[x].pc \notin {"done"}, pc # "done",
         pc \in Before => calls[x].pc \in Before,
         pc \in {"commit", "ref", "create_ref"} => repo = "ready"
  PROVE  GitInv' /\ Forward
<1>1. \A y \in Calls : calls'[y] = IF y = x THEN [calls[y] EXCEPT !.pc = pc] ELSE calls[y]
  BY DEF GitInv, GitTypeOK, Goes, Calls
<1>2. \A y \in Calls : /\ calls'[y].parent = calls[y].parent /\ calls'[y].branch = calls[y].branch
                       /\ calls'[y].pc = IF y = x THEN pc ELSE calls[y].pc
  BY <1>1 DEF GitInv, GitTypeOK, Calls
<1>3. DOMAIN calls = Calls /\ DOMAIN calls' = Calls
  BY DEF GitInv, GitTypeOK, Goes, Calls
<1>4. ContainsAll'
  BY DEF GitInv, ContainsAll
<1>5. UnmadeIsUnknown'
  BY <1>2 DEF GitInv, UnmadeIsUnknown
<1>6. BranchesAfterInit'
  BY <1>2 DEF GitInv, BranchesAfterInit, GitTypeOK, Calls
<1>7. PushesStay'
  BY <1>2, <1>3 DEF GitInv, PushesStay, At, Branch, Exists
<1>8. Forward
  BY DEF GitInv, Forward, ContainsAll, GitTypeOK
<1>9. QED
  BY <1>4, <1>5, <1>6, <1>7, <1>8 DEF GitInv

\* A branch b is created at commit c, or moved to a commit that contains its
\* head; call x, if any, has made it so.
LEMMA PointStep ==
  ASSUME GitInv, GitTypeOK',
         NEW b \in Branches, NEW c \in CommitIds, Point(b, c), UNCHANGED history,
         c \in Calls => calls[c].pc \notin Before,
         Exists(b) => heads[b] \in history[c],
         repo' = "ready",
         \/ UNCHANGED calls
         \/ c \in Calls /\ Goes(c, "done") /\ Branch(c) = b
  PROVE  GitInv' /\ Forward
<1>1. \A y \in Calls : /\ calls'[y].parent = calls[y].parent /\ calls'[y].branch = calls[y].branch
                       /\ \/ calls'[y].pc = calls[y].pc
                          \/ y = c /\ calls'[y].pc = "done" /\ calls[y].branch = b
  BY DEF GitInv, GitTypeOK, Goes, Calls, Branch
<1>2. DOMAIN calls = Calls /\ DOMAIN calls' = Calls
  BY DEF GitInv, GitTypeOK, Goes, Calls
<1>3. /\ DOMAIN heads' = DOMAIN heads \cup {b}
      /\ \A d \in DOMAIN heads' : heads'[d] = IF d = b THEN c ELSE heads[d]
  BY DEF Point
<1>4. /\ DOMAIN heads \subseteq Branches /\ \A d \in DOMAIN heads : heads[d] \in CommitIds
  BY DEF GitInv, GitTypeOK
<1>5. ContainsAll'
  BY DEF GitInv, ContainsAll
<1>6. Forward
  BY <1>3, <1>4 DEF GitInv, Forward, ContainsAll, Exists
<1>7. UnmadeIsUnknown'
  <2> SUFFICES ASSUME NEW x \in Calls, calls'[x].pc \in Before
               PROVE  /\ history[x] = {x}
                      /\ \A d \in CommitIds \ {x} : x \notin history[d]
                      /\ \A d \in DOMAIN heads' : heads'[d] # x
                      /\ \A y \in Calls : calls'[y].parent # x
    BY DEF UnmadeIsUnknown
  <2>1. calls[x].pc \in Before
    BY <1>1 DEF Before
  <2>2. x # c
    BY <2>1
  <2>3. QED
    BY <1>1, <1>3, <2>1, <2>2 DEF GitInv, UnmadeIsUnknown
<1>8. BranchesAfterInit'
  BY <1>1 DEF BranchesAfterInit
<1>9. PushesStay'
  <2> SUFFICES ASSUME NEW x \in Calls, calls'[x].pc = "done"
               PROVE  Branch(x)' \in DOMAIN heads' /\ x \in history[heads'[Branch(x)']]
    BY <1>2 DEF PushesStay, At, Exists
  <2>1. Branch(x)' = Branch(x)
    BY <1>1 DEF Branch
  <2>2. CASE calls[x].pc = "done"
    <3>1. Branch(x) \in DOMAIN heads /\ x \in history[heads[Branch(x)]]
      BY <1>2, <2>2 DEF GitInv, PushesStay, At, Exists
    <3>2. CASE Branch(x) = b
      <4>1. history[heads[b]] \subseteq history[c]
        BY <3>1, <3>2 DEF GitInv, ContainsAll, Exists
      <4>2. QED
        BY <1>3, <2>1, <3>1, <3>2, <4>1
    <3>3. CASE Branch(x) # b
      BY <1>3, <2>1, <3>1, <3>3
    <3>4. QED
      BY <3>2, <3>3
  <2>3. CASE calls[x].pc # "done"
    <3>1. x = c /\ Branch(x) = b
      BY <1>1, <2>3 DEF Branch
    <3>2. QED
      BY <1>3, <2>1, <3>1 DEF GitInv, ContainsAll
  <2>4. QED
    BY <2>2, <2>3
<1>10. QED
  BY <1>5, <1>6, <1>7, <1>8, <1>9 DEF GitInv

\* Call x makes its commit: what it contains beside itself is closed.
LEMMA CommitMade ==
  ASSUME GitInv, NEW x \in Calls, calls[x].pc \in Before,
         NEW older \in SUBSET CommitIds, x \notin older,
         \A d \in older : history[d] \subseteq older,
         history' = [history EXCEPT ![x] = {x} \cup older]
  PROVE  ContainsAll' /\ \A c \in CommitIds : history[c] \subseteq history'[c]
<1>1. x \in CommitIds /\ history \in [CommitIds -> SUBSET CommitIds]
  BY DEF GitInv, GitTypeOK, Calls
<1>2. \A c \in CommitIds : history'[c] = IF c = x THEN {x} \cup older ELSE history[c]
  BY <1>1
<1>3. \A c \in CommitIds : c \in history'[c]
  BY <1>2 DEF GitInv, ContainsAll
<1>4. ASSUME NEW c \in CommitIds, NEW d \in history'[c] PROVE history'[d] \subseteq history'[c]
  <2>1. CASE d = x
    <3>1. c = x
      BY <1>2, <2>1 DEF GitInv, UnmadeIsUnknown
    <3>2. QED
      BY <2>1, <3>1
  <2>2. CASE d # x
    <3>1. d \in CommitIds /\ history'[d] = history[d]
      BY <1>1, <1>2, <2>2
    <3>2. CASE c = x
      BY <1>2, <2>2, <3>1, <3>2
    <3>3. CASE c # x
      BY <1>2, <3>1, <3>3 DEF GitInv, ContainsAll
    <3>4. QED
      BY <3>2, <3>3
  <2>3. QED
    BY <2>1, <2>2
<1>5. history[x] = {x}
  BY DEF GitInv, UnmadeIsUnknown
<1>6. QED
  BY <1>2, <1>3, <1>4, <1>5 DEF ContainsAll

-----------------------------------------------------------------------------
LEMMA TypeKept == GitTypeOK /\ BranchesAfterInit /\ [GitNext]_gitVars => GitTypeOK'
<1> SUFFICES ASSUME GitTypeOK, BranchesAfterInit, [GitNext]_gitVars PROVE GitTypeOK'
  OBVIOUS
<1> USE GitAssumption DEF GitTypeOK, Steps, Goes, At
<1>0. DOMAIN calls = Calls /\ Calls \subseteq CommitIds /\ "root" \in CommitIds
  BY DEF Calls, CommitIds
<1>1. CASE AutoInit
  BY <1>0, <1>1 DEF AutoInit, Point
<1>2. ASSUME NEW x \in DOMAIN calls,
             Throws(x) \/ GetRepo(x) \/ CreateRepo(x) \/ PollEnds(x)
      PROVE  GitTypeOK'
  BY <1>0, <1>2 DEF Throws, ApiFails, GetRepo, CreateRepo, PollEnds
<1>3. ASSUME NEW x \in DOMAIN calls, DeployReadsParent(x) \/ PushReadsParent(x) PROVE GitTypeOK'
  BY <1>0, <1>3 DEF DeployReadsParent, PushReadsParent, ReadHead, ApiFails, Branch, Exists
<1>4. ASSUME NEW x \in DOMAIN calls, CreateCommit(x) PROVE GitTypeOK'
  <2>1. CommitOn(x) \in SUBSET CommitIds
    BY <1>0 DEF CommitOn
  <2>2. QED
    BY <1>0, <1>4, <2>1 DEF CreateCommit
<1>5. ASSUME NEW x \in DOMAIN calls, UpdateRef(x) \/ CreateRef(x) PROVE GitTypeOK'
  <2>1. x \in Calls /\ x \in CommitIds /\ Branch(x) \in Branches
    BY <1>0 DEF Branch
  <2>2. CASE UpdateRef(x)
    BY <1>0, <2>1, <2>2 DEF UpdateRef, ApiFails, Point, Exists
  <2>3. CASE CreateRef(x)
    BY <1>0, <2>1, <2>3 DEF CreateRef, Point, Exists, Creates, BranchesAfterInit
  <2>4. QED
    BY <1>5, <2>2, <2>3
<1>6. ASSUME NEW x \in DOMAIN calls, NEW head \in Branches, MergeBranch(x, head) PROVE GitTypeOK'
  <2>1. x \in Calls /\ x \in CommitIds /\ Branch(x) \in Branches
    BY <1>0 DEF Branch
  <2>2. {x} \cup history[heads[Branch(x)]] \cup history[heads[head]] \in SUBSET CommitIds
    BY <1>6, <2>1 DEF MergeBranch, Exists
  <2>3. QED
    BY <1>0, <1>6, <2>1, <2>2 DEF MergeBranch, Exists, Point
<1>7. ASSUME NEW b \in Branches, NEW from \in Branches, CreateBranch(b, from) PROVE GitTypeOK'
  <2>1. \A c \in history[heads[from]] : c \in CommitIds
    BY <1>7 DEF CreateBranch, Exists
  <2>2. repo = "ready"
    BY <1>7 DEF CreateBranch, Exists, BranchesAfterInit
  <2>3. QED
    BY <1>7, <2>1, <2>2 DEF CreateBranch, Point, Exists
<1>8. CASE UNCHANGED gitVars
  BY <1>8 DEF gitVars
<1>9. QED
  BY <1>1, <1>2, <1>3, <1>4, <1>5, <1>6, <1>7, <1>8 DEF GitNext

LEMMA StepHolds == GitInv /\ [GitNext]_gitVars => GitInv' /\ (Forward \/ UNCHANGED gitVars)
<1> SUFFICES ASSUME GitInv, [GitNext]_gitVars PROVE GitInv' /\ (Forward \/ UNCHANGED gitVars)
  OBVIOUS
<1> USE GitAssumption
<1>0. /\ GitTypeOK' /\ DOMAIN calls = Calls
      /\ \A x \in Calls : Branch(x) \in Branches /\ calls[x].parent \in CommitIds /\ x \in CommitIds
  BY TypeKept DEF GitInv, GitTypeOK, Branch, Calls
<1>1. CASE AutoInit
  <2>1. Main \in Branches /\ "root" \in CommitIds /\ ~Exists(Main) /\ "root" \notin Calls
    BY <1>1 DEF AutoInit, CommitIds, Exists, GitInv, GitTypeOK, Calls
  <2>2. QED
    BY <1>0, <1>1, <2>1, PointStep DEF AutoInit
<1>2. ASSUME NEW x \in DOMAIN calls,
             Throws(x) \/ GetRepo(x) \/ CreateRepo(x) \/ PollEnds(x)
      PROVE  GitInv' /\ Forward
  <2> USE <1>0, QuietStep DEF At, Before
  <2>1. CASE Throws(x)
    BY <2>1 DEF Throws, ApiFails
  <2>2. CASE GetRepo(x)
    BY <2>2 DEF GetRepo
  <2>3. CASE CreateRepo(x)
    BY <2>3 DEF CreateRepo
  <2>4. CASE PollEnds(x)
    BY <2>4 DEF PollEnds
  <2>5. QED
    BY <1>2, <2>1, <2>2, <2>3, <2>4
<1>3. ASSUME NEW x \in DOMAIN calls, DeployReadsParent(x) \/ PushReadsParent(x)
      PROVE  GitInv' /\ Forward
  <2>1. calls[x].pc = "parent" /\ UNCHANGED <<repo, heads, history>>
    BY <1>3 DEF DeployReadsParent, PushReadsParent, At, ApiFails
  <2>2. PICK b : Goes(x, "failed") \/ ReadHead(x, b)
    BY <1>3 DEF DeployReadsParent, PushReadsParent
  <2>3. CASE Goes(x, "failed")
    BY <1>0, <2>1, <2>3, QuietStep DEF Before
  <2>4. CASE ~Goes(x, "failed")
    <3>1. Exists(b) /\ calls' = [calls EXCEPT ![x].pc = "commit", ![x].parent = heads[b]]
      BY <2>2, <2>4 DEF ReadHead
    <3>2. heads[b] \in CommitIds /\ repo = "ready"
      BY <3>1 DEF Exists, GitInv, GitTypeOK, BranchesAfterInit
    <3>3. \A y \in Calls : /\ calls'[y].branch = calls[y].branch
                           /\ calls'[y].pc = IF y = x THEN "commit" ELSE calls[y].pc
                           /\ calls'[y].parent = IF y = x THEN heads[b] ELSE calls[y].parent
      BY <1>0, <3>1 DEF GitInv, GitTypeOK, Calls
    <3>4. DOMAIN calls' = Calls
      BY <1>0, <3>1
    <3>5. ContainsAll' /\ Forward
      BY <2>1 DEF GitInv, ContainsAll, Forward, GitTypeOK
    <3>6. BranchesAfterInit'
      BY <2>1, <3>2, <3>3 DEF BranchesAfterInit
    <3>7. UnmadeIsUnknown'
      BY <1>0, <2>1, <3>1, <3>3 DEF GitInv, UnmadeIsUnknown, Exists, Before
    <3>8. PushesStay'
      BY <1>0, <2>1, <3>3, <3>4 DEF GitInv, PushesStay, At, Branch, Exists
    <3>9. QED
      BY <1>0, <3>5, <3>6, <3>7, <3>8 DEF GitInv
  <2>5. QED
    BY <2>3, <2>4
<1>4. ASSUME NEW x \in DOMAIN calls, CreateCommit(x) PROVE GitInv' /\ Forward
  <2>1. /\ calls[x].pc = "commit" /\ Goes(x, "ref") /\ UNCHANGED <<repo, heads>>
        /\ history' = [history EXCEPT ![x] = {x} \cup history[calls[x].parent]]
    BY <1>4 DEF CreateCommit, CommitOn, At
  <2>2. calls[x].pc \in Before
    BY <2>1 DEF Before
  <2>3. /\ history[calls[x].parent] \in SUBSET CommitIds /\ x \notin history[calls[x].parent]
        /\ \A d \in history[calls[x].parent] : history[d] \subseteq history[calls[x].parent]
    BY <1>0, <2>2 DEF GitInv, GitTypeOK, UnmadeIsUnknown, ContainsAll
  <2>4. ContainsAll' /\ \A c \in CommitIds : history[c] \subseteq history'[c]
    BY <1>0, <2>1, <2>2, <2>3, CommitMade
  <2>5. \A c \in CommitIds : c # x => history'[c] = history[c]
    BY <2>1 DEF GitInv, GitTypeOK
  <2>6. \A y \in Calls : /\ calls'[y].branch = calls[y].branch /\ calls'[y].parent = calls[y].parent
                         /\ calls'[y].pc = IF y = x THEN "ref" ELSE calls[y].pc
    BY <1>0, <2>1 DEF Goes, GitInv, GitTypeOK, Calls
  <2>7. DOMAIN calls' = Calls
    BY <1>0, <2>1 DEF Goes
  <2>8. BranchesAfterInit'
    BY <1>0, <2>1, <2>6 DEF GitInv, BranchesAfterInit
  <2>9. UnmadeIsUnknown'
    <3> SUFFICES ASSUME NEW y \in Calls, calls'[y].pc \in Before
                 PROVE  /\ history'[y] = {y}
                        /\ \A c \in CommitIds \ {y} : y \notin history'[c]
                        /\ \A b \in DOMAIN heads' : heads'[b] # y
                        /\ \A z \in Calls : calls'[z].parent # y
      BY DEF UnmadeIsUnknown
    <3>1. y # x /\ calls[y].pc \in Before
      BY <2>6 DEF Before
    <3>2. y \notin history[calls[x].parent]
      BY <1>0, <3>1 DEF GitInv, UnmadeIsUnknown
    <3>3. \A c \in CommitIds \ {y} : y \notin history'[c]
      BY <2>1, <2>5, <3>1, <3>2 DEF GitInv, UnmadeIsUnknown, GitTypeOK
    <3>4. QED
      BY <1>0, <2>1, <2>5, <2>6, <3>1, <3>3 DEF GitInv, UnmadeIsUnknown
  <2>10. PushesStay'
    <3>1. \A y \in Calls : calls[y].pc = "done" =>
            Branch(y) \in DOMAIN heads /\ heads[Branch(y)] \in CommitIds
      BY <1>0 DEF GitInv, PushesStay, At, Exists, GitTypeOK
    <3>2. QED
      BY <1>0, <2>1, <2>4, <2>6, <2>7, <3>1 DEF GitInv, PushesStay, At, Branch, Exists
  <2>11. Forward
    BY <2>1, <2>4 DEF Forward, GitInv, ContainsAll, GitTypeOK
  <2>12. QED
    BY <1>0, <2>4, <2>8, <2>9, <2>10, <2>11 DEF GitInv
<1>5. ASSUME NEW x \in DOMAIN calls, UpdateRef(x) PROVE GitInv' /\ Forward
  <2>1. calls[x].pc = "ref" /\ repo = "ready" /\ UNCHANGED <<repo, history>>
    BY <1>0, <1>5 DEF UpdateRef, At, ApiFails, GitInv, BranchesAfterInit
  <2>2. CASE Point(Branch(x), x) /\ Goes(x, "done") /\ Exists(Branch(x)) /\ FastForward(x)
    BY <1>0, <2>1, <2>2, PointStep DEF FastForward, Before
  <2>3. CASE UNCHANGED heads /\ (Goes(x, "failed") \/ Goes(x, "create_ref"))
    BY <1>0, <2>1, <2>3, QuietStep DEF Before
  <2>4. QED
    BY <1>5, <2>2, <2>3 DEF UpdateRef, ApiFails
<1>6. ASSUME NEW x \in DOMAIN calls, CreateRef(x) PROVE GitInv' /\ Forward
  <2>1. calls[x].pc = "create_ref" /\ repo = "ready" /\ UNCHANGED <<repo, history>>
    BY <1>0, <1>6 DEF CreateRef, At, GitInv, BranchesAfterInit
  <2>2. CASE Creates(Branch(x))
    BY <1>0, <1>6, <2>1, <2>2, PointStep DEF CreateRef, Creates, Before
  <2>3. CASE ~Creates(Branch(x))
    BY <1>0, <1>6, <2>1, <2>3, QuietStep DEF CreateRef, Before
  <2>4. QED
    BY <2>2, <2>3
<1>7. ASSUME NEW x \in DOMAIN calls, NEW head \in Branches, MergeBranch(x, head)
      PROVE  GitInv' /\ Forward
  <2> DEFINE base == Branch(x)
             older == history[heads[base]] \cup history[heads[head]]
  <2>1. /\ calls[x].pc = "parent" /\ base \in DOMAIN heads /\ head \in DOMAIN heads
        /\ history' = [history EXCEPT ![x] = {x} \cup older]
        /\ Point(base, x) /\ Goes(x, "done") /\ UNCHANGED repo
    BY <1>7 DEF MergeBranch, At, Exists
  <2>2. heads[base] \in CommitIds /\ heads[head] \in CommitIds /\ repo = "ready" /\ calls[x].pc \in Before
    BY <2>1 DEF GitInv, GitTypeOK, BranchesAfterInit, Before
  <2>3. older \in SUBSET CommitIds /\ x \notin older /\ \A d \in older : history[d] \subseteq older
    BY <1>0, <2>1, <2>2 DEF GitInv, GitTypeOK, UnmadeIsUnknown, ContainsAll
  <2> HIDE DEF older
  <2>4. ContainsAll' /\ \A c \in CommitIds : history[c] \subseteq history'[c]
    BY <1>0, <2>1, <2>2, <2>3, CommitMade
  <2>5. /\ \A c \in CommitIds : c # x => history'[c] = history[c]
        /\ history'[x] = {x} \cup older /\ history[heads[base]] \subseteq older
    BY <1>0, <2>1 DEF GitInv, GitTypeOK, older
  <2>6. \A y \in Calls : /\ calls'[y].branch = calls[y].branch /\ calls'[y].parent = calls[y].parent
                         /\ calls'[y].pc = IF y = x THEN "done" ELSE calls[y].pc
    BY <1>0, <2>1 DEF Goes, GitInv, GitTypeOK, Calls
  <2>7. DOMAIN calls' = Calls
    BY <1>0, <2>1 DEF Goes
  <2>8. /\ DOMAIN heads' = DOMAIN heads
        /\ \A d \in DOMAIN heads : heads'[d] = IF d = base THEN x ELSE heads[d]
    BY <2>1 DEF Point
  <2>9. Forward
    BY <1>0, <2>2, <2>4, <2>5, <2>8 DEF Forward, GitInv, GitTypeOK, ContainsAll
  <2>10. BranchesAfterInit'
    BY <2>1, <2>2 DEF BranchesAfterInit
  <2>11. UnmadeIsUnknown'
    <3> SUFFICES ASSUME NEW y \in Calls, calls'[y].pc \in Before
                 PROVE  /\ history'[y] = {y}
                        /\ \A c \in CommitIds \ {y} : y \notin history'[c]
                        /\ \A b \in DOMAIN heads' : heads'[b] # y
                        /\ \A z \in Calls : calls'[z].parent # y
      BY DEF UnmadeIsUnknown
    <3>1. y # x /\ calls[y].pc \in Before
      BY <2>6 DEF Before
    <3>2. y \notin older
      BY <2>1, <2>2, <3>1 DEF older, GitInv, UnmadeIsUnknown
    <3>3. \A c \in CommitIds \ {y} : y \notin history'[c]
      BY <2>5, <3>1, <3>2 DEF GitInv, UnmadeIsUnknown
    <3>4. QED
      BY <1>0, <2>5, <2>6, <2>8, <3>1, <3>3 DEF GitInv, UnmadeIsUnknown
  <2>12. PushesStay'
    <3> SUFFICES ASSUME NEW y \in Calls, calls'[y].pc = "done"
                 PROVE  Branch(y)' \in DOMAIN heads' /\ y \in history'[heads'[Branch(y)']]
      BY <2>7 DEF PushesStay, At, Exists
    <3>1. Branch(y)' = Branch(y)
      BY <2>6 DEF Branch
    <3>2. CASE y = x
      BY <2>1, <2>5, <2>8, <3>1, <3>2
    <3>3. CASE y # x
      <4>1. Branch(y) \in DOMAIN heads /\ y \in history[heads[Branch(y)]] /\ heads[Branch(y)] \in CommitIds
        BY <1>0, <2>6, <3>3 DEF GitInv, PushesStay, At, Exists, GitTypeOK
      <4>2. QED
        BY <2>4, <2>5, <2>8, <3>1, <4>1
    <3>4. QED
      BY <3>2, <3>3
  <2>13. QED
    BY <1>0, <2>4, <2>9, <2>10, <2>11, <2>12 DEF GitInv
<1>8. ASSUME NEW b \in Branches, NEW from \in Branches, CreateBranch(b, from)
      PROVE  GitInv' /\ Forward
  <2>1. PICK c \in history[heads[from]] : Point(b, c)
    BY <1>8 DEF CreateBranch
  <2>2. /\ from \in DOMAIN heads /\ heads[from] \in CommitIds /\ c \in CommitIds /\ ~Exists(b)
        /\ repo = "ready" /\ UNCHANGED <<repo, history, calls>>
    BY <1>8 DEF CreateBranch, Exists, Creates, GitInv, GitTypeOK, BranchesAfterInit
  <2>3. c \in Calls => calls[c].pc \notin Before
    BY <2>2 DEF GitInv, UnmadeIsUnknown
  <2>4. QED
    BY <1>0, <2>1, <2>2, <2>3, PointStep
<1>9. CASE UNCHANGED gitVars
  BY <1>0, <1>9 DEF gitVars, GitInv, ContainsAll, UnmadeIsUnknown, BranchesAfterInit, PushesStay, At, Branch, Exists
<1>10. QED
  BY <1>1, <1>2, <1>3, <1>4, <1>5, <1>6, <1>7, <1>8, <1>9 DEF GitNext

-----------------------------------------------------------------------------
\* The inductive invariant: types, "contains", unmade commits, and what was
\* pushed is still there (deploy-project.ts, github-ops.ts).
THEOREM GitInvariant == GitSpec => []GitInv
<1>1. GitInit => GitInv
  BY InitHolds
<1>2. GitInv /\ [GitNext]_gitVars => GitInv'
  BY StepHolds
<1>3. QED
  BY <1>1, <1>2, PTL DEF GitSpec

\* No deployment, push or merge that was reported as done loses its commit,
\* whatever the others do and whichever API calls fail.
THEOREM NothingPushedIsLost == GitSpec => []PushesStay
<1>1. GitInv => PushesStay
  BY DEF GitInv
<1>2. QED
  BY <1>1, GitInvariant, PTL

\* Branches only move forward, although deploy_project may build on the default
\* branch when it fails to read its own.
THEOREM BranchesMoveForward == GitSpec => HistoryKept
<1>1. GitInv /\ [GitNext]_gitVars =>
        [\A b \in DOMAIN heads : b \in DOMAIN heads' /\ heads[b] \in history'[heads'[b]]]_gitVars
  BY StepHolds DEF Forward
<1>2. QED
  BY <1>1, GitInvariant, PTL DEF GitSpec, HistoryKept
=============================================================================

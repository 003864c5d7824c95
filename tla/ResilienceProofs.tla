-------------------------- MODULE ResilienceProofs --------------------------
(***************************************************************************)
(* Theorems about what stands in front of the calls of Claude and of the   *)
(* agents: for any callers, caps and costs, what a workflow has spent      *)
(* together with what its calls on their way may still cost (CallGuards),  *)
(* and for any requests and limits the slots of the queue (Bulkhead).      *)
(***************************************************************************)
EXTENDS CallGuards, Bulkhead, FiniteSetTheorems, TLAPS

-----------------------------------------------------------------------------
(* CallGuards.  What a workflow has spent and what its calls on their way  *)
(* may yet cost never exceed the cap by more than a call of each caller.   *)

LEMMA MoreCallsCostMore ==
  ASSUME NEW m \in Nat, NEW n \in Nat, NEW k \in Nat, m <= n
  PROVE  m * k <= n * k /\ (m + 1) * k = m * k + k /\ m * k \in Nat
<1>1. PICK d \in Nat : n = m + d
  <2>1. n - m \in Nat /\ n = m + (n - m)
    OBVIOUS
  <2> QED BY <2>1
<1>2. n * k = m * k + d * k
  BY <1>1
<1>3. d * k \in Nat /\ m * k \in Nat
  BY <1>1
<1>4. (m + 1) * k = m * k + k
  OBVIOUS
<1> QED BY <1>2, <1>3, <1>4

CallingOf(w) == {c \in ClientsOf(w) : clients[c] = "calling"}
SpendInv ==
  /\ clients = [c \in Clients |-> clients[c]]
  /\ workflowSpend \in [Workflows -> Nat]
  /\ \A w \in Workflows :
       workflowSpend[w] + InFlight(ClientsOf(w)) * MaxCost
         <= PerWorkflow - 1 + Cardinality(ClientsOf(w)) * MaxCost
DayInv ==
  /\ day \in 0..MaxDays /\ dayKey \in 0..day /\ daySpend \in Nat
  /\ charged \in [0..MaxDays -> Nat]
  /\ \A d \in 0..MaxDays : d > dayKey => charged[d] = 0
  /\ SpentToday = charged[day] /\ daySpend = charged[dayKey]

LEMMA Callers ==
  ASSUME NEW w
  PROVE  /\ IsFiniteSet(ClientsOf(w)) /\ IsFiniteSet(CallingOf(w)) /\ CallingOf(w) \subseteq ClientsOf(w)
         /\ Cardinality(ClientsOf(w)) \in Nat /\ Cardinality(CallingOf(w)) \in Nat
         /\ Cardinality(CallingOf(w)) <= Cardinality(ClientsOf(w))
         /\ InFlight(ClientsOf(w)) = Cardinality(CallingOf(w))
<1>1. ClientsOf(w) \subseteq Clients /\ CallingOf(w) \subseteq ClientsOf(w) /\ IsFiniteSet(Clients)
  BY CallGuardsAssumption DEF ClientsOf, CallingOf
<1>2. IsFiniteSet(ClientsOf(w))
  BY <1>1, FS_Subset
<1>3. IsFiniteSet(CallingOf(w)) /\ Cardinality(CallingOf(w)) <= Cardinality(ClientsOf(w))
  BY <1>1, <1>2, FS_Subset
<1>4. InFlight(ClientsOf(w)) = Cardinality(CallingOf(w))
  BY DEF InFlight, CallingOf
<1> QED BY <1>1, <1>2, <1>3, <1>4, FS_CardinalityType

(* A caller whose workflow is not exhausted goes.                          *)
LEMMA CallBegins ==
  ASSUME SpendInv, NEW c \in Clients, clients[c] = "idle", Goes(c), UNCHANGED workflowSpend,
         workflowSpend[WorkflowOf[c]] < PerWorkflow
  PROVE  SpendInv'
<1>1. clients' = [d \in Clients |-> IF d = c THEN "calling" ELSE clients[d]]
  BY DEF Goes, SpendInv
<1>2. ASSUME NEW w \in Workflows
      PROVE  workflowSpend[w] + InFlight(ClientsOf(w))' * MaxCost
               <= PerWorkflow - 1 + Cardinality(ClientsOf(w)) * MaxCost
  <2>1. CASE w = WorkflowOf[c]
    <3>1. CallingOf(w)' \subseteq ClientsOf(w) /\ InFlight(ClientsOf(w))' = Cardinality(CallingOf(w)')
      BY DEF CallingOf, InFlight, ClientsOf
    <3> PICK S : S = CallingOf(w)'
      OBVIOUS
    <3>2. Cardinality(S) <= Cardinality(ClientsOf(w)) /\ Cardinality(S) \in Nat
      BY <3>1, Callers, FS_Subset, FS_CardinalityType
    <3>3. Cardinality(S) * MaxCost <= Cardinality(ClientsOf(w)) * MaxCost
      BY <3>2, Callers, MoreCallsCostMore, CallGuardsAssumption
    <3>4. /\ Cardinality(S) * MaxCost \in Nat /\ Cardinality(ClientsOf(w)) * MaxCost \in Nat
          /\ workflowSpend[w] \in Nat /\ PerWorkflow \in Nat /\ workflowSpend[w] < PerWorkflow
      BY <2>1, <3>2, Callers, MoreCallsCostMore, CallGuardsAssumption DEF SpendInv
    <3> QED BY <3>1, <3>3, <3>4
  <2>2. CASE w # WorkflowOf[c]
    <3>1. InFlight(ClientsOf(w))' = InFlight(ClientsOf(w))
      BY <1>1, <2>2 DEF InFlight, ClientsOf
    <3> QED BY <3>1 DEF SpendInv
  <2> QED BY <2>1, <2>2
<1> QED BY <1>1, <1>2 DEF SpendInv, ClientsOf

(* A call comes back and costs no more than one may.                       *)
LEMMA CallEnds ==
  ASSUME SpendInv, NEW c \in Clients, Returns(c), NEW cost \in 0..MaxCost,
         workflowSpend' = [workflowSpend EXCEPT ![WorkflowOf[c]] = @ + cost]
  PROVE  SpendInv'
<1>1. clients' = [d \in Clients |-> IF d = c THEN "idle" ELSE clients[d]] /\ clients[c] = "calling"
  BY DEF Returns, SpendInv
<1>2. workflowSpend' \in [Workflows -> Nat] /\ WorkflowOf[c] \in Workflows /\ MaxCost \in Nat
  BY CallGuardsAssumption DEF SpendInv, Workflows
<1>3. ASSUME NEW w \in Workflows
      PROVE  workflowSpend'[w] + InFlight(ClientsOf(w))' * MaxCost
               <= PerWorkflow - 1 + Cardinality(ClientsOf(w)) * MaxCost
  <2>1. CASE w = WorkflowOf[c]
    <3> PICK S, n : S = CallingOf(w) /\ n = Cardinality(CallingOf(w) \ {c})
      OBVIOUS
    <3>1. CallingOf(w)' = S \ {c} /\ c \in S
      BY <1>1, <2>1 DEF CallingOf, ClientsOf
    <3>2. InFlight(ClientsOf(w))' = n
      <4>1. InFlight(ClientsOf(w))' = Cardinality(CallingOf(w)')
        BY DEF InFlight, CallingOf, ClientsOf
      <4> QED BY <3>1, <4>1
    <3>3. n \in Nat /\ InFlight(ClientsOf(w)) = n + 1
      <4>1. S \subseteq ClientsOf(w) /\ IsFiniteSet(ClientsOf(w))
        BY Callers DEF CallingOf
      <4>2. IsFiniteSet(S)
        BY <4>1, FS_Subset
      <4>3. IsFiniteSet(S \ {c}) /\ Cardinality(S \ {c}) = Cardinality(S) - 1
        BY <3>1, <4>2, FS_RemoveElement
      <4>4. Cardinality(S) \in Nat /\ Cardinality(S \ {c}) \in Nat
        BY <4>2, <4>3, FS_CardinalityType
      <4>5. InFlight(ClientsOf(w)) = Cardinality(S)
        BY DEF InFlight, CallingOf
      <4> QED BY <4>3, <4>4, <4>5
    <3>4. (n + 1) * MaxCost = n * MaxCost + MaxCost /\ n * MaxCost \in Nat
      BY <1>2, <3>3, MoreCallsCostMore
    <3>5. Cardinality(ClientsOf(w)) * MaxCost \in Nat
      BY <1>2, Callers, MoreCallsCostMore
    <3>6. workflowSpend'[w] = workflowSpend[w] + cost /\ workflowSpend[w] \in Nat /\ cost \in Nat /\ cost <= MaxCost
      BY <1>2, <2>1 DEF SpendInv
    <3>7. workflowSpend[w] + (n * MaxCost + MaxCost) <= PerWorkflow - 1 + Cardinality(ClientsOf(w)) * MaxCost
      BY <3>3, <3>4 DEF SpendInv
    <3>8. PerWorkflow \in Nat
      BY CallGuardsAssumption
    <3> QED BY <1>2, <3>2, <3>4, <3>5, <3>6, <3>7, <3>8
  <2>2. CASE w # WorkflowOf[c]
    <3>1. InFlight(ClientsOf(w))' = InFlight(ClientsOf(w)) /\ workflowSpend'[w] = workflowSpend[w]
      BY <1>1, <2>2 DEF InFlight, ClientsOf, SpendInv
    <3> QED BY <3>1 DEF SpendInv
  <2> QED BY <2>1, <2>2
<1> QED BY <1>1, <1>2, <1>3 DEF SpendInv, ClientsOf

LEMMA SpendKept ==
  ASSUME SpendInv, UNCHANGED <<clients, workflowSpend>>
  PROVE  SpendInv'
  BY DEF SpendInv, InFlight, ClientsOf

(* The day on the books changes, and with it what counts as spent.         *)
LEMMA DayRecorded ==
  ASSUME DayInv, UNCHANGED day, NEW cost \in Nat, dayKey' = day, daySpend' = SpentToday + cost,
         charged' = [charged EXCEPT ![day] = @ + cost]
  PROVE  DayInv'
<1>1. SpentToday = charged[day] /\ charged[day] \in Nat
  BY DEF DayInv
<1>2. charged' \in [0..MaxDays -> Nat] /\ charged'[day] = charged[day] + cost
  BY <1>1 DEF DayInv
<1>3. \A d \in 0..MaxDays : d > day => charged'[d] = 0
  BY DEF DayInv
<1>4. SpentToday' = daySpend'
  BY DEF SpentToday
<1> QED BY <1>1, <1>2, <1>3, <1>4 DEF DayInv

LEMMA RollsOver ==
  ASSUME DayInv, UNCHANGED <<day, charged>>, Rollover
  PROVE  DayInv'
<1>1. SpentToday = charged[day] /\ charged[day] \in Nat
  BY DEF DayInv
<1>2. dayKey' = day /\ daySpend' = charged[day] /\ SpentToday' = daySpend'
  BY <1>1 DEF Rollover, SpentToday
<1>3. \A d \in 0..MaxDays : d > day => charged[d] = 0
  BY DEF DayInv
<1> QED BY <1>1, <1>2, <1>3 DEF DayInv

LEMMA DayKept ==
  ASSUME DayInv, UNCHANGED <<budget, day, charged>>
  PROVE  DayInv'
  BY DEF DayInv, budget, SpentToday

\* The cap of a workflow is overrun by at most one call of each of its callers,
\* and the daily spend is what was charged on the day it is booked for.
THEOREM GuardsInvariant == GuardsSpec => [](SpendInv /\ DayInv)
<1>1. GuardsInit => SpendInv /\ DayInv
  <2> SUFFICES ASSUME GuardsInit PROVE SpendInv /\ DayInv
    OBVIOUS
  <2>1. \A w \in Workflows : InFlight(ClientsOf(w)) = 0
    BY FS_EmptySet DEF GuardsInit, InFlight, ClientsOf
  <2>2. \A w \in Workflows : Cardinality(ClientsOf(w)) * MaxCost \in Nat /\ MaxCost \in Nat /\ PerWorkflow \in Nat \ {0}
    BY Callers, MoreCallsCostMore, CallGuardsAssumption
  <2>3. SpendInv
    BY <2>1, <2>2 DEF GuardsInit, SpendInv
  <2>4. DayInv
    BY CallGuardsAssumption DEF GuardsInit, DayInv, SpentToday
  <2> QED BY <2>3, <2>4
<1>2. SpendInv /\ DayInv /\ [GuardsNext]_guardVars => SpendInv' /\ DayInv'
  <2> SUFFICES ASSUME SpendInv, DayInv, [GuardsNext]_guardVars PROVE SpendInv' /\ DayInv'
    OBVIOUS
  <2>0. /\ \A w \in Workflows : Exhausted(w) \/ workflowSpend[w] < PerWorkflow
        /\ \A c \in Clients : WorkflowOf[c] \in Workflows
        /\ Runs \subseteq Clients /\ Stages \subseteq Clients
    BY CallGuardsAssumption DEF Exhausted, SpendInv, Workflows, Clients
  <2>1. CASE UNCHANGED <<clients, budget, day, charged>>
    BY <2>1, SpendKept, DayKept DEF budget
  <2>2. ASSUME NEW c \in Runs, BeginRun(c) PROVE SpendInv' /\ DayInv'
    <3>1. DayInv'
      BY <2>2, RollsOver DEF BeginRun
    <3>2. UNCHANGED clients \/ (Goes(c) /\ ~Exhausted(WorkflowOf[c]))
      BY <2>2 DEF BeginRun
    <3>3. SpendInv'
      BY <2>0, <2>2, <3>2, CallBegins, SpendKept DEF BeginRun
    <3> QED BY <3>1, <3>3
  <2>3. ASSUME NEW c \in Stages, BeginStage(c) PROVE SpendInv' /\ DayInv'
    <3>1. DayInv'
      BY <2>3, RollsOver DEF BeginStage
    <3>2. UNCHANGED clients \/ (Goes(c) /\ ~Exhausted(WorkflowOf[c]))
      BY <2>3 DEF BeginStage
    <3>3. SpendInv'
      BY <2>0, <2>3, <3>2, CallBegins, SpendKept DEF BeginStage
    <3> QED BY <3>1, <3>3
  <2>4. ASSUME NEW c \in Clients, Answers(c) PROVE SpendInv' /\ DayInv'
    <3>1. PICK cost \in 1..MaxCost : Record(WorkflowOf[c], cost)
      BY <2>4 DEF Answers
    <3>2. cost \in 0..MaxCost /\ cost \in Nat
      BY CallGuardsAssumption
    <3>3. SpendInv'
      BY <2>4, <3>1, <3>2, CallEnds DEF Answers, Record
    <3>4. DayInv'
      BY <2>4, <3>1, <3>2, DayRecorded DEF Answers, Record
    <3> QED BY <3>3, <3>4
  <2>5. ASSUME NEW c \in Clients, ProviderFails(c) \/ OtherwiseFails(c) PROVE SpendInv' /\ DayInv'
    <3>1. Returns(c) /\ UNCHANGED <<budget, day, charged>>
      BY <2>5 DEF ProviderFails, OtherwiseFails
    <3>2. 0 \in 0..MaxCost
      BY CallGuardsAssumption
    <3>3. workflowSpend' = [workflowSpend EXCEPT ![WorkflowOf[c]] = @ + 0]
      BY <2>0, <3>1 DEF SpendInv, budget
    <3>4. SpendInv'
      BY <3>1, <3>2, <3>3, CallEnds
    <3> QED BY <3>1, <3>4, DayKept
  <2>6. CASE CooldownPasses
    BY <2>1, <2>6 DEF CooldownPasses
  <2>7. CASE NextDay
    <3>1. SpendInv'
      BY <2>7, SpendKept DEF NextDay, budget
    <3>2. DayInv'
      <4>1. UNCHANGED <<workflowSpend, dayKey, daySpend, charged>> /\ day' = day + 1 /\ day < MaxDays
        BY <2>7 DEF NextDay, budget
      <4>2. day \in Nat /\ MaxDays \in Nat /\ day' \in 0..MaxDays /\ dayKey # day' /\ dayKey \in 0..day'
        BY <4>1, CallGuardsAssumption DEF DayInv
      <4>3. SpentToday' = 0 /\ charged[day'] = 0
        BY <4>1, <4>2 DEF DayInv, SpentToday
      <4>4. \A d \in 0..MaxDays : d > day' => charged[d] = 0
        BY <4>1, <4>2 DEF DayInv
      <4> QED BY <4>1, <4>2, <4>3, <4>4 DEF DayInv
    <3> QED BY <3>1, <3>2
  <2> QED BY <2>1, <2>2, <2>3, <2>4, <2>5, <2>6, <2>7 DEF GuardsNext, guardVars
<1> QED BY <1>1, <1>2, PTL DEF GuardsSpec

\* The budget of a workflow is overrun by no more than one call of each of its
\* callers, and the day's spend is the day's charges (budget-circuit.ts).
THEOREM OvershootIsBounded == GuardsSpec => []OvershootBounded
<1>1. SpendInv /\ DayInv => OvershootBounded
  BY DEF SpendInv, DayInv, OvershootBounded
<1> QED BY <1>1, GuardsInvariant, PTL
-----------------------------------------------------------------------------
(* Bulkhead.  The counters are the numbers of those who run; a waiter who   *)
(* was passed over stays blocked by those who were woken before and after.  *)

Running == {u \in Users : user[u].phase = "running"}
BulkheadInv ==
  /\ user \in [Users -> Requests] /\ globalActive \in Int /\ perKeyActive \in [Keys -> Int]
  /\ SlotsAreUsed

\* What the two kinds of request look like.
LEMMA RequestKinds ==
  /\ NoRequest.phase = "idle"
  /\ \A r \in Requests : r # NoRequest => r.phase \in {"waiting", "running"} /\ r.key \in Keys
  /\ \A r \in Requests : r.phase = "waiting" =>
       /\ [r EXCEPT !.phase = "running"] \in Requests
       /\ [r EXCEPT !.phase = "running"].phase = "running"
       /\ [r EXCEPT !.phase = "running"].key = r.key
<1>1. NoRequest.phase = "idle"
  BY DEF NoRequest
<1>2. ASSUME NEW r \in Requests, r # NoRequest
      PROVE  r \in [phase : {"waiting", "running"}, key : Keys]
  BY <1>2 DEF Requests
<1> QED BY <1>1, <1>2 DEF Requests

\* Slots for more users leave a blocked kind blocked.
LEMMA BlockedStays ==
  ASSUME NEW n, n.all \in Int, n.per \in [Keys -> Int], NEW more \in SUBSET Users,
         NEW users \in SUBSET more, NEW k \in Keys, ~CanRun(Granted(n, users), k)
  PROVE  ~CanRun(Granted(n, more), k)
<1> DEFINE of(set) == {u \in set : user[u].key = k}
<1>1. IsFiniteSet(more) /\ IsFiniteSet(of(more))
  BY BulkheadAssumption, FS_Subset
<1>2. Cardinality(users) \in Nat /\ Cardinality(users) <= Cardinality(more)
  BY <1>1, FS_Subset, FS_CardinalityType
<1>3. Cardinality(of(users)) \in Nat /\ Cardinality(of(users)) <= Cardinality(of(more))
  <2>1. of(users) \subseteq of(more)
    OBVIOUS
  <2> QED BY <1>1, <2>1, FS_Subset, FS_CardinalityType
<1>4. Cardinality(more) \in Nat /\ Cardinality(of(more)) \in Nat
  BY <1>1, FS_CardinalityType
<1>5. /\ Granted(n, users).all = n.all + Cardinality(users)
      /\ Granted(n, users).per[k] = n.per[k] + Cardinality(of(users))
      /\ Granted(n, more).all = n.all + Cardinality(more)
      /\ Granted(n, more).per[k] = n.per[k] + Cardinality(of(more))
  BY DEF Granted
<1>6. n.per[k] \in Int /\ {GlobalLimit, PerKeyLimit} \subseteq Nat
  BY BulkheadAssumption
<1> HIDE DEF of
<1> QED BY <1>2, <1>3, <1>4, <1>5, <1>6 DEF CanRun

LEMMA BulkheadStarts == BulkheadInit => BulkheadInv
<1> SUFFICES ASSUME BulkheadInit PROVE BulkheadInv
  OBVIOUS
<1>1. user \in [Users -> Requests] /\ globalActive \in Int /\ perKeyActive \in [Keys -> Int]
  BY DEF BulkheadInit, Requests
<1>2. Waiting = {} /\ Running = {} /\ \A k \in Keys : HoldersOf(k) = {}
  BY RequestKinds DEF BulkheadInit, Waiting, Running, HoldersOf
<1> QED BY <1>1, <1>2, FS_EmptySet DEF BulkheadInv, SlotsAreUsed, BulkheadInit, Running

LEMMA AcquireKeeps ==
  ASSUME BulkheadInv, NEW u \in Users, NEW k \in Keys, Acquire(u, k)
  PROVE  BulkheadInv'
<1> USE DEF BulkheadInv
<1>1. user[u].phase = "idle" /\ [phase |-> "running", key |-> k] \in Requests
      /\ [phase |-> "waiting", key |-> k] \in Requests
  BY RequestKinds DEF Acquire, Requests
<1>2. IsFiniteSet(Running) /\ Cardinality(Running) \in Nat
      /\ \A j \in Keys : IsFiniteSet(HoldersOf(j)) /\ Cardinality(HoldersOf(j)) \in Nat
  BY BulkheadAssumption, FS_Subset, FS_CardinalityType DEF Running, HoldersOf
<1>3. CASE CanRun(Counters, k)
  <2>1. /\ user' = [user EXCEPT ![u] = [phase |-> "running", key |-> k]]
        /\ globalActive' = globalActive + 1
        /\ perKeyActive' = [perKeyActive EXCEPT ![k] = @ + 1]
    BY <1>3 DEF Acquire, SetCounters, Grant, Counters
  <2>2. Running' = Running \cup {u} /\ u \notin Running
    BY <1>1, <2>1 DEF Running
  <2>3. HoldersOf(k)' = HoldersOf(k) \cup {u} /\ u \notin HoldersOf(k)
    BY <1>1, <2>1 DEF HoldersOf
  <2>4. \A j \in Keys \ {k} : HoldersOf(j)' = HoldersOf(j)
    BY <1>1, <2>1 DEF HoldersOf
  <2>5. Waiting' = Waiting /\ \A v \in Waiting : user'[v] = user[v] /\ user[v].key \in Keys
    BY <1>1, <2>1, RequestKinds DEF Waiting
  <2>6. user' \in [Users -> Requests] /\ globalActive' \in Int /\ perKeyActive' \in [Keys -> Int]
    BY <1>1, <2>1
  <2>7. Cardinality(Running') = Cardinality(Running) + 1
        /\ Cardinality(HoldersOf(k)') = Cardinality(HoldersOf(k)) + 1
    BY <1>2, <2>2, <2>3, FS_AddElement
  <2>8. ASSUME NEW v \in Waiting' PROVE ~CanRun(Counters, user[v].key)'
    <3>1. v \in Waiting /\ ~CanRun(Counters, user[v].key) /\ user'[v].key = user[v].key
          /\ user[v].key \in Keys
      BY <2>5 DEF SlotsAreUsed
    <3> QED BY <2>1, <3>1, BulkheadAssumption DEF CanRun, Counters
  <2>9. \A j \in Keys : perKeyActive'[j] = Cardinality(HoldersOf(j)')
    BY <2>1, <2>4, <2>7 DEF SlotsAreUsed
  <2> QED BY <2>1, <2>6, <2>7, <2>8, <2>9 DEF SlotsAreUsed, Running
<1>4. CASE ~CanRun(Counters, k)
  <2>1. user' = [user EXCEPT ![u] = [phase |-> "waiting", key |-> k]]
        /\ UNCHANGED <<globalActive, perKeyActive>>
    BY <1>4 DEF Acquire
  <2>2. Running' = Running /\ \A j \in Keys : HoldersOf(j)' = HoldersOf(j)
    BY <1>1, <2>1 DEF Running, HoldersOf
  <2>3. \A v \in Waiting' : (v \in Waiting /\ user'[v] = user[v]) \/ user'[v].key = k
    BY <2>1 DEF Waiting
  <2>4. ASSUME NEW v \in Waiting' PROVE ~CanRun(Counters, user[v].key)'
    <3>1. ~CanRun(Counters, user'[v].key)
      BY <1>4, <2>3 DEF SlotsAreUsed
    <3> QED BY <2>1, <3>1 DEF CanRun, Counters
  <2>5. user' \in [Users -> Requests]
    BY <1>1, <2>1
  <2> QED BY <2>1, <2>2, <2>4, <2>5 DEF SlotsAreUsed, Running
<1> QED BY <1>3, <1>4

LEMMA ReleaseKeeps ==
  ASSUME BulkheadInv, NEW u \in Users, Release(u)
  PROVE  BulkheadInv'
<1> USE DEF BulkheadInv
<1> DEFINE freed == Freed(Counters, user[u].key)
<1>1. PICK woken \in SUBSET Waiting :
        /\ Pumps(woken, freed) /\ SetCounters(Granted(freed, woken))
        /\ user' = [v \in Users |->
                      IF v = u THEN NoRequest
                      ELSE IF v \in woken THEN [user[v] EXCEPT !.phase = "running"] ELSE user[v]]
  BY DEF Release
<1>2. user[u].phase = "running" /\ user[u].key \in Keys /\ u \notin woken
  BY RequestKinds DEF Release, Waiting
<1>3. /\ freed.all = globalActive - 1 /\ freed.all \in Int /\ freed.per \in [Keys -> Int]
      /\ freed.per = [perKeyActive EXCEPT ![user[u].key] = @ - 1]
  BY <1>2 DEF Freed, Counters
<1>4. \A v \in Waiting : user[v].phase = "waiting" /\ v \in Users /\ user[v].key \in Keys /\ v # u
  BY <1>2, RequestKinds DEF Waiting
<1>5. \A v \in woken : user'[v].phase = "running" /\ user'[v].key = user[v].key /\ user'[v] \in Requests
  BY <1>1, <1>4, RequestKinds
<1>6. user'[u] = NoRequest /\ \A v \in Users \ (woken \cup {u}) : user'[v] = user[v]
  BY <1>1
<1>7. user' \in [Users -> Requests]
  <2>1. \A v \in Users : user'[v] \in Requests
    BY <1>5, <1>6 DEF Requests
  <2> QED BY <1>1, <2>1
<1>8. Running' = (Running \ {u}) \cup woken /\ u \in Running /\ (Running \ {u}) \cap woken = {}
  BY <1>2, <1>4, <1>5, <1>6, RequestKinds DEF Running
<1> DEFINE of(k) == {v \in woken : user[v].key = k}
<1>9. \A k \in Keys : HoldersOf(k)' = (HoldersOf(k) \ {u}) \cup of(k) /\ (HoldersOf(k) \ {u}) \cap of(k) = {}
  BY <1>2, <1>4, <1>5, <1>6, RequestKinds DEF HoldersOf
<1>10. IsFiniteSet(Running) /\ IsFiniteSet(woken)
       /\ \A k \in Keys : IsFiniteSet(HoldersOf(k)) /\ IsFiniteSet(of(k))
  BY BulkheadAssumption, FS_Subset DEF Running, HoldersOf, Waiting
<1>11. /\ globalActive' = freed.all + Cardinality(woken)
       /\ perKeyActive' = [k \in Keys |-> freed.per[k] + Cardinality(of(k))]
  BY <1>1 DEF SetCounters, Granted
<1> HIDE DEF of
<1>12. globalActive' = Cardinality(Running') /\ globalActive' \in Int
  <2>1. Cardinality(Running \ {u}) = Cardinality(Running) - 1 /\ IsFiniteSet(Running \ {u})
    BY <1>8, <1>10, FS_RemoveElement
  <2>2. Cardinality(Running') = Cardinality(Running \ {u}) + Cardinality(woken)
    <3>1. (Running \ {u}) \cap woken = {} /\ Cardinality({}) = 0
      BY <1>8, FS_EmptySet
    <3>2. Cardinality((Running \ {u}) \cup woken)
            = Cardinality(Running \ {u}) + Cardinality(woken) - Cardinality((Running \ {u}) \cap woken)
      BY <1>10, <2>1, FS_Union
    <3>3. Cardinality(Running \ {u}) \in Nat /\ Cardinality(woken) \in Nat
      BY <1>10, <2>1, FS_CardinalityType
    <3>4. Cardinality((Running \ {u}) \cap woken) = 0
      BY <3>1
    <3>5. Cardinality((Running \ {u}) \cup woken) = Cardinality(Running \ {u}) + Cardinality(woken)
      BY <3>2, <3>3, <3>4
    <3> QED BY <1>8, <3>5
  <2>3. globalActive = Cardinality(Running)
    BY DEF SlotsAreUsed, Running
  <2>4. Cardinality(woken) \in Nat
    BY <1>10, FS_CardinalityType
  <2> QED BY <1>3, <1>11, <2>1, <2>2, <2>3, <2>4
<1>13. ASSUME NEW k \in Keys
       PROVE  perKeyActive'[k] = Cardinality(HoldersOf(k)') /\ perKeyActive'[k] \in Int
  <2>1. Cardinality(HoldersOf(k)') = Cardinality(HoldersOf(k) \ {u}) + Cardinality(of(k))
    <3>1. (HoldersOf(k) \ {u}) \cap of(k) = {} /\ Cardinality({}) = 0
      BY <1>9, FS_EmptySet
    <3>2. IsFiniteSet(HoldersOf(k) \ {u}) /\ IsFiniteSet(of(k))
      BY <1>10, FS_Subset
    <3>3. Cardinality((HoldersOf(k) \ {u}) \cup of(k))
            = Cardinality(HoldersOf(k) \ {u}) + Cardinality(of(k)) - Cardinality((HoldersOf(k) \ {u}) \cap of(k))
      BY <3>2, FS_Union
    <3>4. Cardinality(HoldersOf(k) \ {u}) \in Nat /\ Cardinality(of(k)) \in Nat
      BY <3>2, FS_CardinalityType
    <3>5. Cardinality((HoldersOf(k) \ {u}) \cap of(k)) = 0
      BY <3>1
    <3>6. Cardinality((HoldersOf(k) \ {u}) \cup of(k)) = Cardinality(HoldersOf(k) \ {u}) + Cardinality(of(k))
      BY <3>3, <3>4, <3>5
    <3>7. HoldersOf(k)' = (HoldersOf(k) \ {u}) \cup of(k)
      BY <1>9
    <3> QED BY <3>6, <3>7
  <2>2. Cardinality(of(k)) \in Nat /\ Cardinality(HoldersOf(k)) \in Nat
    BY <1>10, FS_CardinalityType
  <2>3. perKeyActive[k] = Cardinality(HoldersOf(k))
    BY DEF SlotsAreUsed
  <2>4. perKeyActive'[k] = freed.per[k] + Cardinality(of(k))
    BY <1>11
  <2>5. CASE k = user[u].key
    <3>1. u \in HoldersOf(k)
      BY <1>2, <2>5 DEF HoldersOf
    <3>2. Cardinality(HoldersOf(k) \ {u}) = Cardinality(HoldersOf(k)) - 1
      BY <1>10, <3>1, FS_RemoveElement
    <3>3. freed.per[k] = perKeyActive[k] - 1
      BY <1>3, <2>5
    <3> QED BY <2>1, <2>2, <2>3, <2>4, <3>2, <3>3
  <2>6. CASE k # user[u].key
    <3>1. Cardinality(HoldersOf(k) \ {u}) = Cardinality(HoldersOf(k))
      <4>1. HoldersOf(k) \ {u} = HoldersOf(k)
        BY <2>6 DEF HoldersOf
      <4> QED BY <4>1
    <3>2. freed.per[k] = perKeyActive[k]
      BY <1>3, <2>6
    <3> QED BY <2>1, <2>2, <2>3, <2>4, <3>1, <3>2
  <2> QED BY <2>5, <2>6
<1>14. ASSUME NEW v \in Waiting' PROVE ~CanRun(Counters, user[v].key)'
  <2>1. v \in Waiting /\ v \notin woken /\ user'[v] = user[v] /\ v \in Users
    BY <1>5, <1>6, RequestKinds DEF Waiting
  <2>2. ~CanRun(Granted(freed, Before(woken, v)), user[v].key)
    BY <1>1, <2>1 DEF Pumps
  <2>3. woken \subseteq Users /\ Before(woken, v) \subseteq woken /\ user[v].key \in Keys
    BY <1>4, <2>1 DEF Before
  <2>4. ~CanRun(Granted(freed, woken), user[v].key)
    <3> HIDE DEF freed
    <3> QED BY <1>3, <2>2, <2>3, BlockedStays
  <2>5. /\ Granted(freed, woken).all = globalActive'
        /\ Granted(freed, woken).per[user[v].key] = perKeyActive'[user[v].key]
    BY <1>1 DEF SetCounters
  <2> QED BY <2>1, <2>4, <2>5 DEF CanRun, Counters
<1>15. perKeyActive' \in [Keys -> Int]
  BY <1>11, <1>13
<1> QED BY <1>7, <1>12, <1>13, <1>14, <1>15 DEF SlotsAreUsed, Running

\* The inductive invariant: the property itself, with its types.
THEOREM SlotsInvariant == BulkheadSpec => []BulkheadInv
<1>1. BulkheadInv /\ [BulkheadNext]_bulkheadVars => BulkheadInv'
  <2> SUFFICES ASSUME BulkheadInv, [BulkheadNext]_bulkheadVars PROVE BulkheadInv'
    OBVIOUS
  <2>1. CASE UNCHANGED bulkheadVars
    BY <2>1 DEF bulkheadVars, BulkheadInv, SlotsAreUsed, HoldersOf, Waiting, CanRun, Counters
  <2> QED BY <2>1, AcquireKeeps, ReleaseKeeps DEF BulkheadNext
<1> QED BY <1>1, BulkheadStarts, PTL DEF BulkheadSpec

\* No slot is lost, used twice, or kept from a waiter who could use it, for any
\* limits and any number of requests of any kinds (bulkhead.ts pump).
THEOREM NoSlotIsIdle == BulkheadSpec => []SlotsAreUsed
  BY SlotsInvariant, PTL DEF BulkheadInv
=============================================================================

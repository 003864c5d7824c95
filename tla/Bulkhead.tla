------------------------------- MODULE Bulkhead -------------------------------
(***************************************************************************)
(* The bulkhead of the Manager (xzawedShared/src/resilience/bulkhead.ts):  *)
(* requests to agents take a slot of the whole and one of their kind of    *)
(* agent, or wait in one queue.  RedisAgentHandler.execute wraps every     *)
(* request in run, which releases the slot however the request ends.       *)
(***************************************************************************)
EXTENDS Integers, FiniteSets

CONSTANTS
  Users,        \* requests that may be under way
  Keys,         \* kinds of agents
  GlobalLimit, PerKeyLimit

ASSUME BulkheadAssumption ==
  /\ IsFiniteSet(Users)
  /\ {GlobalLimit, PerKeyLimit} \subseteq Nat \ {0}

VARIABLES
  user,         \* user[u]: the kind of agent it asks, and how far it got
  globalActive, perKeyActive,
  place         \* place[u]: where u stands in the queue of waiters, 0 if nowhere

bulkheadVars == <<user, globalActive, perKeyActive, place>>

NoRequest == [phase |-> "idle"]
Requests == {NoRequest} \cup [phase : {"waiting", "running"}, key : Keys]

Waiting == {u \in Users : user[u].phase = "waiting"}

BulkheadTypeOK ==
  /\ user \in [Users -> Requests]
  /\ globalActive \in 0..GlobalLimit
  /\ perKeyActive \in [Keys -> 0..PerKeyLimit]
  /\ place \in [Users -> 0..Cardinality(Users)]
  /\ {place[u] : u \in Waiting} = 1..Cardinality(Waiting)

BulkheadInit ==
  /\ user = [u \in Users |-> NoRequest]
  /\ globalActive = 0 /\ perKeyActive = [k \in Keys |-> 0]
  /\ place = [u \in Users |-> 0]

\* The counters, as one record that pump passes along.
Counters == [all |-> globalActive, per |-> perKeyActive]
SetCounters(n) == globalActive' = n.all /\ perKeyActive' = n.per
CanRun(n, k) == n.all < GlobalLimit /\ n.per[k] < PerKeyLimit
Grant(n, k) == [all |-> n.all + 1, per |-> [n.per EXCEPT ![k] = @ + 1]]
Freed(n, k) == [all |-> n.all - 1, per |-> [n.per EXCEPT ![k] = @ - 1]]

\* A slot for each of these users.
Granted(n, users) ==
  [all |-> n.all + Cardinality(users),
   per |-> [k \in Keys |-> n.per[k] + Cardinality({u \in users : user[u].key = k})]]

\* pump: wake who can run, in the order of the queue, skipping who cannot.
Before(users, u) == {v \in users : place[v] < place[u]}

PumpsHead(woken, n) ==  \* mutant
  \A u \in Waiting :
    u \in woken <=> /\ Before(Waiting, u) \subseteq woken
                   /\ CanRun(Granted(n, Before(woken, u)), user[u].key)

Pumps(woken, n) ==
  \A u \in Waiting : u \in woken <=> CanRun(Granted(n, Before(woken, u)), user[u].key)

\* acquire: a slot at once, or the last place in the queue.
Enqueue(u) == place' = [place EXCEPT ![u] = Cardinality(Waiting) + 1]

Acquire(u, k) ==
  /\ user[u] = NoRequest
  /\ IF CanRun(Counters, k)
     THEN /\ user' = [user EXCEPT ![u] = [phase |-> "running", key |-> k]]
          /\ SetCounters(Grant(Counters, k)) /\ UNCHANGED place
     ELSE /\ user' = [user EXCEPT ![u] = [phase |-> "waiting", key |-> k]]
          /\ Enqueue(u) /\ UNCHANGED <<globalActive, perKeyActive>>

\* The request ends, well or not: release, then pump.
Release(u) ==
  /\ user[u].phase = "running"
  /\ \E woken \in SUBSET Waiting :
       LET freed == Freed(Counters, user[u].key) IN
       /\ Pumps(woken, freed) /\ SetCounters(Granted(freed, woken))
       /\ place' = [v \in Users |->
                     IF v \in woken THEN 0 ELSE place[v] - Cardinality(Before(woken, v))]
       /\ user' = [v \in Users |->
                     IF v = u THEN NoRequest
                     ELSE IF v \in woken THEN [user[v] EXCEPT !.phase = "running"] ELSE user[v]]

BulkheadNext == \E u \in Users : Release(u) \/ \E k \in Keys : Acquire(u, k)
BulkheadSpec == BulkheadInit /\ [][BulkheadNext]_bulkheadVars

-----------------------------------------------------------------------------
HoldersOf(k) == {u \in Users : user[u].phase = "running" /\ user[u].key = k}

(* No slot is lost or used twice, over any sequence of requests: what is   *)
(* counted as active is what runs.  And nobody waits who could run: a      *)
(* queue whose head is blocked by its own kind of agent holds up no other  *)
(* kind, and a release passes its slot on (bulkhead.ts pump).              *)
SlotsAreUsed ==
  /\ \A k \in Keys : perKeyActive[k] = Cardinality(HoldersOf(k))
  /\ globalActive = Cardinality({u \in Users : user[u].phase = "running"})
  /\ \A u \in Waiting : ~CanRun(Counters, user[u].key)
=============================================================================

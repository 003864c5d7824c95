----------------------------- MODULE Redecompose -----------------------------
(***************************************************************************)
(* Decomposing a workflow again while its packages are under way           *)
(* (streams/decomposition-consumer.ts, decomposition/stable-merge.ts of    *)
(* xzawedShared, db/task-graph.repo.ts): requests and the spec_fix of an   *)
(* escalated package (streams/spec-fix.ts) emit a decomposition, which the *)
(* consumer checks, merges into the stored graph and stores, while         *)
(* handleDispatch (streams/dispatch.ts) plans from the graph it has read.  *)
(*                                                                         *)
(* A graph is a function from its packages to their dependencies.  What    *)
(* the model of the pipeline comes up with is an input.  A package is      *)
(* dispatched, completed and escalated as in TaskDispatch.                 *)
(***************************************************************************)
EXTENDS Integers, Sequences, FiniteSets

CONSTANTS
  Packages,        \* ids of work packages
  Incoming,   \* graphs that decompositions emit
  Consumers,  \* decomposition consumers, one per Manager process
  MaxEmitted  \* bound on decompositions

Graphs == UNION {[set -> SUBSET Packages] : set \in SUBSET Packages}

ASSUME RedecomposeAssumption == Incoming \subseteq Graphs /\ MaxEmitted \in Nat

VARIABLES
  stored,     \* task_graphs.graph_dag: the packages; empty before the first
  intent,     \* ... and the specification it was made from: "none" or "spec"
  latest,     \* latestStates of wp_state_log; "none" is a package without a row
  emitted,    \* decompositions so far (bounded by MaxEmitted)
  inbox,      \* decomposition.emitted messages not yet taken
  consumers,  \* consumers[c]: a handler in progress and what it has read
  plan,       \* handleDispatch: the packages it is going to dispatch
  briefs,     \* escalated packages with a PENDING defect brief
  ranWith,    \* ghost: the dependencies with which a package was dispatched
  overtaken   \* ghost: packages dispatched while the graph was being replaced,
              \* or from a plan older than the graph

redecomposeVars == <<stored, intent, latest, emitted, inbox, consumers, plan, briefs,
                     ranWith, overtaken>>

States == {"none", "DISPATCHED", "DONE", "ESCALATED"}
Messages == [wps : Graphs, intent : {"none", "spec"}]
Handlers == [pc : {"idle"}] \cup [pc : {"read"}, msg : Messages, existing : Graphs,
                                  intent : {"none", "spec"}]
            \cup [pc : {"upsert"}, graph : Graphs, intent : {"none", "spec"}]

RedecomposeTypeOK ==
  /\ stored \in Graphs /\ intent \in {"none", "spec"}
  /\ latest \in [Packages -> States]
  /\ emitted \in 0..MaxEmitted /\ Len(inbox) <= MaxEmitted
  /\ \A i \in DOMAIN inbox : inbox[i] \in Messages
  /\ \A c \in Consumers : consumers[c] \in Handlers
  /\ plan \subseteq Packages /\ briefs \subseteq Packages
  /\ ranWith \in [Packages -> SUBSET Packages] /\ overtaken \subseteq Packages

NoGraph == [w \in {} |-> {}]

RedecomposeInit ==
  /\ stored = NoGraph /\ intent = "none"
  /\ latest = [w \in Packages |-> "none"]
  /\ emitted = 0 /\ inbox = <<>>
  /\ consumers = [c \in Consumers |-> [pc |-> "idle"]]
  /\ plan = {} /\ briefs = {}
  /\ ranWith = [w \in Packages |-> {}] /\ overtaken = {}

-----------------------------------------------------------------------------
(* Graphs.                                                                 *)

\* buildTaskGraph throws for an unknown dependency.
Structural(g) == \A w \in DOMAIN g : g[w] \subseteq DOMAIN g
\* detectCycle finds nothing; TaskGraph has the search.
Acyclic(g) ==
  ~\E set \in SUBSET DOMAIN g : set # {} /\ \A w \in set : g[w] \cap set # {}
Sound(g) == Structural(g) /\ Acyclic(g)

\* WP_INFLIGHT_STATES, judged by latestStates.
Inflight == {w \in Packages : latest[w] \in {"DISPATCHED", "DONE", "ESCALATED"}}

ClosureOfNothing(existing, base, keeping) == base  \* mutant
\* What is kept, and what it needs of the stored graph: the least set of it that
\* has with a package each of its dependencies that the result is without.
Closure(existing, base, keeping) ==
  base \cup {x \in DOMAIN existing :
               \A set \in SUBSET DOMAIN existing :
                 (/\ keeping \subseteq set
                  /\ \A w \in set : (existing[w] \cap DOMAIN existing) \ base \subseteq set)
                 => x \in set}

\* mergeKeepInflight
Merge(existing, incoming) ==
  LET kept == Inflight \cap DOMAIN existing
      base == DOMAIN incoming \cup kept
  IN  [w \in Closure(existing, base, kept) |->
         IF w \in DOMAIN incoming \ kept THEN incoming[w] ELSE existing[w]]

-----------------------------------------------------------------------------
(* Emitting a decomposition.                                               *)

Emit(g, text) ==
  /\ emitted < MaxEmitted /\ emitted' = emitted + 1
  /\ inbox' = Append(inbox, [wps |-> g, intent |-> text])

\* A decompose_request, or a publisher that sends no intent or a blank one.
Request ==
  /\ \E g \in Incoming, text \in {"none", "spec"} : Emit(g, text)
  /\ UNCHANGED <<stored, intent, latest, consumers, plan, briefs, ranWith, overtaken>>

\* A person chooses spec_fix: the stored specification and the feedback are
\* decomposed again; without a stored one nothing is done.  The stages may
\* fail to cover the specification and emit nothing.
SpecFix(w) ==
  /\ w \in briefs /\ briefs' = briefs \ {w}
  /\ \/ /\ DOMAIN stored # {} /\ intent = "spec"
        /\ \E g \in Incoming : Emit(g, "spec")
     \/ UNCHANGED <<emitted, inbox>>
  /\ UNCHANGED <<stored, intent, latest, consumers, plan, ranWith, overtaken>>

-----------------------------------------------------------------------------
(* handleDecompositionEmitted.                                             *)

Taken == inbox' = Tail(inbox)

\* What is not a graph, or has a cycle, is refused before anything is read.
Refuse ==
  /\ inbox # <<>> /\ ~Sound(Head(inbox).wps) /\ Taken
  /\ UNCHANGED <<stored, intent, latest, emitted, consumers, plan, briefs, ranWith,
                 overtaken>>

ReadStored(c) ==
  /\ consumers[c].pc = "idle" /\ inbox # <<>> /\ Sound(Head(inbox).wps) /\ Taken
  /\ consumers' = [consumers EXCEPT ![c] =
       [pc |-> "read", msg |-> Head(inbox), existing |-> stored, intent |-> intent]]
  /\ UNCHANGED <<stored, intent, latest, emitted, plan, briefs, ranWith, overtaken>>

\* normalizeIntent(payload.intent) ?? storedIntent
IntentOf(h) == IF h.msg.intent = "none" THEN h.intent ELSE h.msg.intent

\* latestStates, the merge and the second check; a refusal goes to a person.
MergeInflight(c) ==
  /\ consumers[c].pc = "read"
  /\ LET h == consumers[c]
         merged == IF DOMAIN h.existing = {} THEN h.msg.wps ELSE Merge(h.existing, h.msg.wps) IN
       consumers' = [consumers EXCEPT ![c] =
         IF Sound(merged)
         THEN [pc |-> "upsert", graph |-> merged, intent |-> IntentOf(h)]
         ELSE [pc |-> "idle"]]
  /\ UNCHANGED <<stored, intent, latest, emitted, inbox, plan, briefs, ranWith, overtaken>>

\* upsertGraph replaces the whole row; then handleDispatch.
UpsertGraph(c) ==
  /\ consumers[c].pc = "upsert"
  /\ stored' = consumers[c].graph /\ intent' = consumers[c].intent
  /\ consumers' = [consumers EXCEPT ![c] = [pc |-> "idle"]]
  /\ UNCHANGED <<latest, emitted, inbox, plan, briefs, ranWith, overtaken>>

-----------------------------------------------------------------------------
(* Dispatching and the fate of a package.                                  *)

\* getGraph, latestStates and the plan made from them.
ReadPlan ==
  /\ plan = {}
  /\ plan' = {w \in DOMAIN stored : latest[w] = "none" /\ \A d \in stored[w] : latest[d] = "DONE"}
  /\ plan' # {}
  /\ UNCHANGED <<stored, intent, latest, emitted, inbox, consumers, briefs, ranWith,
                 overtaken>>

\* The graph may be another one by now than the plan was made from.
DispatchReady(w) ==
  /\ w \in plan /\ plan' = plan \ {w}
  /\ IF latest[w] = "none"
     THEN /\ latest' = [latest EXCEPT ![w] = "DISPATCHED"]
          /\ ranWith' = [ranWith EXCEPT ![w] = IF w \in DOMAIN stored THEN stored[w] ELSE {}]
          /\ overtaken' = IF \/ \E c \in Consumers : consumers[c].pc # "idle"
                             \/ w \notin DOMAIN stored
                          THEN overtaken \cup {w} ELSE overtaken
     ELSE UNCHANGED <<latest, ranWith, overtaken>>
  /\ UNCHANGED <<stored, intent, emitted, inbox, consumers, briefs>>

Finish(w) ==
  /\ latest[w] = "DISPATCHED"
  /\ latest' = [latest EXCEPT ![w] = "DONE"]
  /\ UNCHANGED <<stored, intent, emitted, inbox, consumers, plan, briefs, ranWith,
                 overtaken>>

\* The lease has run out of attempts; the defect brief goes to a person.
Escalate(w) ==
  /\ latest[w] = "DISPATCHED"
  /\ latest' = [latest EXCEPT ![w] = "ESCALATED"]
  /\ briefs' = briefs \cup {w}
  /\ UNCHANGED <<stored, intent, emitted, inbox, consumers, plan, ranWith, overtaken>>

\* fix_reverify: the package runs again.
Reverify(w) ==
  /\ w \in briefs /\ briefs' = briefs \ {w}
  /\ latest' = [latest EXCEPT ![w] = "DISPATCHED"]
  /\ UNCHANGED <<stored, intent, emitted, inbox, consumers, plan, ranWith, overtaken>>

RedecomposeNext ==
  \/ Request \/ Refuse \/ ReadPlan
  \/ \E c \in Consumers : ReadStored(c) \/ MergeInflight(c) \/ UpsertGraph(c)
  \/ \E w \in Packages : SpecFix(w) \/ DispatchReady(w) \/ Finish(w) \/ Escalate(w) \/ Reverify(w)

RedecomposeSpec == RedecomposeInit /\ [][RedecomposeNext]_redecomposeVars

-----------------------------------------------------------------------------
(* Properties.                                                             *)

\* The stored graph has no unknown dependency and no cycle: dispatch.ts relies
\* on it, and topoSort would leave the packages of a cycle out without a word.
\* A package that has run stays in the graph with the dependencies it ran with,
\* unless it was dispatched while the graph was being replaced or from a plan
\* older than it.  And the merge adds what the kept packages depend on, so that
\* no sound re-decomposition is refused for it (stable-merge.ts).  All this
\* holds through every later decomposition while packages move.
MergeIsRight ==
  /\ Structural(stored) /\ Acyclic(stored)
  /\ \A w \in Packages \ overtaken :
       latest[w] # "none" => w \in DOMAIN stored /\ stored[w] = ranWith[w]
  /\ \A k \in Consumers : consumers[k].pc = "read" =>
       Structural(Merge(consumers[k].existing, consumers[k].msg.wps))

\* A stored specification is never lost to a message without one: spec_fix
\* could not run again (decomposition-consumer.ts).
IntentKept == [][intent = "spec" => intent' = "spec"]_redecomposeVars
=============================================================================

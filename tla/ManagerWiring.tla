---------------------------- MODULE ManagerWiring ----------------------------
(***************************************************************************)
(* What a configuration of the Manager starts, and what can happen then.   *)
(* The environment names the flags that are on; a profile adds its own;    *)
(* buildServer makes the stores, the relay, the consumers and the routes   *)
(* they call for, and says which flags miss what they need.  After that    *)
(* work flows through the parts that are there: seen collects what can     *)
(* happen, in rounds, each enabled by the ones before.                     *)
(***************************************************************************)
EXTENDS Naturals, FiniteSets

CONSTANT Environments   \* the environments the Manager is started with

VARIABLES
  env,      \* the environment: flags that are on and off, profile, min risk
  on,       \* the flags of the configuration
  stage,    \* "loading", "refused", "building" or "serving"
  parts,    \* what buildServer made
  warned,   \* the flags a warning of the start is about
  seen      \* what has happened while serving

wiringVars == <<env, on, stage, parts, warned, seen>>

\* Flags whose effect depends on other flags or on the database; what is not a
\* flag of its own but counts as one: the database, the secret, the remote mode.
Features ==
  {"EVENT_SOURCED", "TASK_MANAGER", "TASK_WORKER", "DECOMPOSE", "ORACLE_DOR",
   "ORACLE_DRAFT", "ORACLE_INVARIANTS", "ORACLE_DECISION", "GOLDEN_SIGNOFF",
   "WP_VERIFY", "WP_CONFORMANCE", "WP_IMPACT", "WP_PROPERTY", "WP_MUTATION",
   "WP_SECURITY", "WP_ADVISORY", "RELEASE_GATE", "RELEASE_SIGNOFF", "DEPLOY_GATE",
   "DECISION_BRIEF", "DECISION_ROUTING", "DECISION_EXPIRY", "RISK_CLASSIFY",
   "RISK_ROUTING", "RISK_DECISION", "MODEL_ROUTING", "DEGRADED_MODE",
   "DEGRADED_ENFORCE", "DEGRADED_SIGNOFF"}
Settings ==
  {"DATABASE", "SECRET", "SHORT_SECRET", "REMOTE", "BUDGET_WORKFLOW", "BUDGET_DAILY",
   "PROVIDER_CIRCUIT"}

ASSUME WiringAssumption == \A e \in Environments : e.on \subseteq Features \cup Settings

\* What the autonomous profile turns on unless the environment says otherwise.
Profile == {"TASK_MANAGER", "DECOMPOSE", "TASK_WORKER", "WP_VERIFY", "BUDGET_WORKFLOW", "BUDGET_DAILY"}
ProfiledFlags == env.on \cup (IF env.autonomous THEN Profile \ env.off ELSE {})

WiringInit ==
  /\ env \in Environments
  /\ stage = "loading"
  /\ on = {} /\ parts = {} /\ warned = {} /\ seen = {}

\* A remote or autonomous Manager without a secret, an autonomous one without a
\* database and one whose secret is short do not start.
Refused(flags) ==
  \/ "SHORT_SECRET" \in flags
  \/ "REMOTE" \in flags /\ "SECRET" \notin flags
  \/ env.autonomous /\ ~({"SECRET", "DATABASE"} \subseteq flags)

LoadConfig ==
  /\ stage = "loading"
  /\ on' = ProfiledFlags
  /\ stage' = IF Refused(ProfiledFlags) THEN "refused" ELSE "building"
  /\ UNCHANGED <<env, parts, warned, seen>>

---------------------------------------------------------------------------
(* buildServer *)

AnyOf(flags) == on \cap flags # {}
Pool == "DATABASE" \in on

WritersForgottenDecompose ==  \* mutant
  {"EVENT_SOURCED", "TASK_MANAGER", "ORACLE_DOR", "ORACLE_DRAFT", "WP_ADVISORY",
   "DECISION_ROUTING", "RELEASE_GATE", "RELEASE_SIGNOFF", "DECISION_EXPIRY", "RISK_ROUTING",
   "DEGRADED_SIGNOFF", "ORACLE_DECISION", "GOLDEN_SIGNOFF"}
\* The features that start the relay of the outbox.
Writers ==
  {"EVENT_SOURCED", "TASK_MANAGER", "ORACLE_DOR", "ORACLE_DRAFT", "DECOMPOSE", "WP_ADVISORY",
   "DECISION_ROUTING", "RELEASE_GATE", "RELEASE_SIGNOFF", "DECISION_EXPIRY", "RISK_ROUTING",
   "DEGRADED_SIGNOFF", "ORACLE_DECISION", "GOLDEN_SIGNOFF"}

RiskFeaturesOfClassify == {"RISK_CLASSIFY"}  \* mutant
\* The features that use the classification of risks.
RiskFeatures == {"RISK_CLASSIFY", "RISK_ROUTING", "MODEL_ROUTING"}

\* The stores and the relay.
Stores ==
  [relay |-> Pool /\ AnyOf(Writers),
   oracleStore |-> Pool /\ AnyOf({"ORACLE_DOR", "ORACLE_DRAFT", "WP_CONFORMANCE", "WP_IMPACT",
                                "WP_PROPERTY", "GOLDEN_SIGNOFF"}),
   decisionStore |-> Pool /\ AnyOf({"DECISION_BRIEF", "DECISION_ROUTING", "DECISION_EXPIRY",
                                  "RISK_DECISION", "DEGRADED_SIGNOFF", "ORACLE_DECISION",
                                  "GOLDEN_SIGNOFF"}),
   advisoryStore |-> Pool /\ "WP_ADVISORY" \in on,
   releaseStore |-> Pool /\ "RELEASE_GATE" \in on,
   riskStore |-> Pool /\ AnyOf(RiskFeatures),
   deployGate |-> Pool /\ {"DEPLOY_GATE", "RELEASE_GATE"} \subseteq on]

\* What guards the calls to the model.
Guards ==
  [budget |-> AnyOf({"BUDGET_WORKFLOW", "BUDGET_DAILY"}),
   providerCircuit |-> "PROVIDER_CIRCUIT" \in on,
   modeController |-> "DEGRADED_MODE" \in on]

\* The supervisor and its consumers, which need one store or more.
Supervised == Pool /\ "TASK_MANAGER" \in on
Works == Supervised /\ "TASK_WORKER" \in on
SupervisorParts(stores) ==
  LET oracle == stores.oracleStore /\ Supervised
      decision == stores.decisionStore /\ Supervised
      routing == decision /\ "DECISION_ROUTING" \in on IN
  [supervisor |-> Supervised,
   dor |-> oracle /\ "ORACLE_DOR" \in on,
   oracleBrief |-> oracle /\ decision /\ "ORACLE_DECISION" \in on,
   goldenBrief |-> Works /\ oracle /\ decision /\ "GOLDEN_SIGNOFF" \in on,
   defectBrief |-> decision /\ "DECISION_BRIEF" \in on,
   failureBrief |-> routing,
   decisionConsumer |-> routing,
   riskApprover |-> routing /\ stores.riskStore /\ AnyOf({"RISK_DECISION", "MODEL_ROUTING"}),
   signoffConsumer |-> routing /\ stores.releaseStore /\ "RELEASE_SIGNOFF" \in on,
   expiry |-> decision /\ "DECISION_EXPIRY" \in on,
   riskConsumer |-> Supervised /\ "RISK_ROUTING" \in on,
   enforcement |-> Supervised /\ {"DEGRADED_ENFORCE", "DEGRADED_MODE"} \subseteq on,
   degradedBrief |-> decision /\ "DEGRADED_SIGNOFF" \in on]

\* The worker with its channels; those that read oracles need their store.
WorkerParts(stores) ==
  LET channel(flag) == Works /\ flag \in on
      oracleChannel(flag) == channel(flag) /\ stores.oracleStore IN
  [worker |-> Works,
   verify |-> channel("WP_VERIFY"),
   conformance |-> oracleChannel("WP_CONFORMANCE"),
   impact |-> oracleChannel("WP_IMPACT"),
   property |-> oracleChannel("WP_PROPERTY"),
   mutation |-> channel("WP_MUTATION"),
   security |-> channel("WP_SECURITY"),
   advisory |-> channel("WP_ADVISORY") /\ stores.advisoryStore,
   evidence |-> Works /\ stores.releaseStore,
   modelRouting |-> channel("MODEL_ROUTING") /\ stores.riskStore]

\* The producers behind a request to decompose.
Producers(stores) ==
  [decompose |-> "DECOMPOSE" \in on,
   riskClassify |-> stores.riskStore,
   riskBrief |-> stores.riskStore /\ stores.decisionStore /\ "RISK_DECISION" \in on]

\* The route for the answers of people needs the secret.
Routes ==
  [decisionRoute |-> Pool /\ {"DECISION_ROUTING", "SECRET"} \subseteq on,
   restore |-> Pool /\ "EVENT_SOURCED" \in on]

Made(record) == {p \in DOMAIN record : record[p]}
Wired ==
  UNION {Made(Stores), Made(Guards), Made(SupervisorParts(Stores)), Made(WorkerParts(Stores)),
         Made(Producers(Stores)), Made(Routes)}

\* What the warnings ask of each flag.  Some ask for a store or a signal and
\* not for the flag that brings it.
Needs ==
  [EVENT_SOURCED |-> {"DATABASE"},
   TASK_MANAGER |-> {"DATABASE", "TASK_WORKER"},
   TASK_WORKER |-> {"TASK_MANAGER", "DATABASE"},
   DECOMPOSE |-> {"DATABASE", "DECISION_ROUTING"},
   ORACLE_DOR |-> {},
   ORACLE_DRAFT |-> {"TASK_MANAGER", "DATABASE"},
   ORACLE_INVARIANTS |-> {"ORACLE_DRAFT", "WP_PROPERTY"},
   ORACLE_DECISION |-> {"DATABASE", "ORACLE_DRAFT", "DECISION_ROUTING"},
   GOLDEN_SIGNOFF |-> {"DATABASE", "WP_IMPACT", "DECISION_ROUTING", "TASK_WORKER"},
   WP_VERIFY |-> {"TASK_WORKER"},
   WP_CONFORMANCE |-> {"WP_VERIFY", "oracleStore"},
   WP_IMPACT |-> {"WP_VERIFY", "oracleStore"},
   WP_PROPERTY |-> {"WP_VERIFY", "oracleStore"},
   WP_MUTATION |-> {"WP_VERIFY"} \cup
     IF env.minRisk = "HIGH" THEN {"RISK_CLASSIFY", "RISK_ROUTING"} ELSE {},
   WP_SECURITY |-> {"WP_VERIFY"},
   WP_ADVISORY |-> {"WP_VERIFY", "TASK_MANAGER", "DATABASE", "TASK_WORKER"},
   RELEASE_GATE |-> {"DATABASE", "TASK_MANAGER", "WP_VERIFY"},
   RELEASE_SIGNOFF |-> {"RELEASE_GATE", "DECISION_ROUTING"},
   DEPLOY_GATE |-> {"RELEASE_GATE", "DATABASE"},
   DECISION_BRIEF |-> {},
   DECISION_ROUTING |-> {"DECISION_BRIEF"} \cup IF Pool THEN {"SECRET"} ELSE {},
   DECISION_EXPIRY |-> {"DATABASE", "TASK_MANAGER"},
   RISK_CLASSIFY |-> {"DATABASE", "DECOMPOSE"},
   RISK_ROUTING |-> {"DATABASE", "TASK_MANAGER"},
   RISK_DECISION |-> {"DATABASE", "RISK_CLASSIFY", "DECISION_ROUTING"},
   MODEL_ROUTING |-> {"DATABASE", "TASK_WORKER"},
   DEGRADED_MODE |-> {"signal"},
   DEGRADED_ENFORCE |-> {"DEGRADED_MODE", "TASK_MANAGER"},
   DEGRADED_SIGNOFF |-> {"DATABASE", "DEGRADED_ENFORCE", "DECISION_ROUTING"}]

StartupWarnings(made) ==
  LET given == on \cup made \cup
               (IF made \cap {"budget", "providerCircuit"} # {} THEN {"signal"} ELSE {})
  IN {f \in Features \cap on : ~(Needs[f] \subseteq given)}

BuildServer ==
  /\ stage = "building" /\ stage' = "serving"
  /\ parts' = Wired
  /\ warned' = StartupWarnings(Wired)
  /\ UNCHANGED <<env, on, seen>>

---------------------------------------------------------------------------
(* Serving *)

Has(p) == p \in parts
Did(e) == e \in seen

\* A person's answer arrives over the route, is recorded, relayed and handled.
Answers == Has("decisionRoute") /\ Has("relay") /\ Has("decisionConsumer")

\* What can happen, given what has.  A graph may also come from a producer that
\* is not this Manager; it then brings no drafts and has no classification.  A
\* person writes and approves oracles, and approves risks, over the API.
Decomposing ==
  [decomposed |-> Has("decompose"),
   graph |-> Has("supervisor"),
   drafted |-> Did("decomposed") /\ Did("graph") /\ Has("oracleStore") /\ "ORACLE_DRAFT" \in on,
   classified |-> Did("decomposed") /\ Has("riskClassify"),
   failureAsked |-> Did("graph") /\ Has("failureBrief")]

Approving ==
  [oracleApproved |-> Has("oracleStore"),
   oracleAsked |-> Did("drafted") /\ Has("oracleBrief"),
   oracleAnswered |-> Did("oracleAsked") /\ Answers,
   redispatched |-> Did("oracleApproved") /\ Did("graph") /\ Has("dor") /\ Has("relay"),
   riskAsked |-> Did("classified") /\ Has("riskBrief"),
   riskAnswered |-> Did("riskAsked") /\ Answers /\ Has("riskApprover"),
   riskApproved |-> Did("classified"),
   riskWritten |-> Did("riskApproved") /\ Did("graph") /\ Has("riskConsumer") /\ Has("relay")]

Executing ==
  [dispatched |-> Did("graph"),
   executed |-> Did("dispatched") /\ Has("worker"),
   modelRouted |-> Did("executed") /\ Did("riskApproved") /\ Has("modelRouting"),
   verified |-> Did("executed") /\ Has("verify"),
   conformed |-> Did("verified") /\ Did("oracleApproved") /\ Has("conformance"),
   goldenAsked |-> Did("executed") /\ Did("oracleApproved") /\ Has("goldenBrief"),
   goldenFrozen |-> Did("goldenAsked") /\ Answers,
   compared |-> Did("verified") /\ Did("goldenFrozen") /\ Has("impact"),
   invariantsChecked |-> Did("verified") /\ Did("oracleApproved") /\ Has("property"),
   draftsChecked |-> Did("invariantsChecked") /\ Did("drafted") /\ "ORACLE_INVARIANTS" \in on,
   mutated |-> Did("verified") /\ Has("mutation") /\ (env.minRisk = "HIGH" => Did("riskWritten")),
   scanned |-> Did("verified") /\ Has("security"),
   advised |-> Did("verified") /\ Has("advisory"),
   proven |-> Did("verified") /\ Has("evidence")]

\* Only questions about defects, sign-offs and degraded dispatch expire.
Deciding ==
  [restored |-> Has("restore"),
   blocked |-> Did("executed") /\ Has("releaseStore"),
   signoffAsked |-> Did("blocked") /\ Has("signoffConsumer") /\ Has("relay"),
   signedOff |-> Did("signoffAsked") /\ Answers,
   deployChecked |-> Has("deployGate"),
   escalated |-> Did("dispatched"),
   defectAsked |-> Did("escalated") /\ Has("defectBrief"),
   answered |-> (Did("defectAsked") \/ Did("failureAsked")) /\ Answers,
   expired |-> (Did("defectAsked") \/ Did("signoffAsked") \/ Did("degradedAsked"))
                 /\ Has("expiry"),
   degraded |-> Has("modeController") /\ (Has("providerCircuit") \/ "BUDGET_DAILY" \in on),
   held |-> Did("graph") /\ Has("enforcement") /\ "BUDGET_DAILY" \in on,
   degradedAsked |-> Did("degraded") /\ Did("riskWritten") /\ Has("enforcement")
                       /\ Has("degradedBrief"),
   degradedAnswered |-> Did("degradedAsked") /\ Answers]

Possible == UNION {Made(Decomposing), Made(Approving), Made(Executing), Made(Deciding)}

Serve ==
  /\ stage = "serving"
  /\ seen' = seen \cup Possible
  /\ seen' # seen
  /\ UNCHANGED <<env, on, stage, parts, warned>>

WiringNext == LoadConfig \/ BuildServer \/ Serve
WiringSpec == WiringInit /\ [][WiringNext]_wiringVars

---------------------------------------------------------------------------
(* Properties *)

\* The event that shows a feature at work.
Mark ==
  [EVENT_SOURCED |-> "restored", TASK_MANAGER |-> "dispatched", TASK_WORKER |-> "executed",
   DECOMPOSE |-> "decomposed", ORACLE_DOR |-> "redispatched", ORACLE_DRAFT |-> "drafted",
   ORACLE_INVARIANTS |-> "draftsChecked", ORACLE_DECISION |-> "oracleAnswered",
   GOLDEN_SIGNOFF |-> "goldenFrozen", WP_VERIFY |-> "verified", WP_CONFORMANCE |-> "conformed",
   WP_IMPACT |-> "compared", WP_PROPERTY |-> "invariantsChecked", WP_MUTATION |-> "mutated",
   WP_SECURITY |-> "scanned", WP_ADVISORY |-> "advised", RELEASE_GATE |-> "proven",
   RELEASE_SIGNOFF |-> "signedOff", DEPLOY_GATE |-> "deployChecked",
   DECISION_BRIEF |-> "defectAsked", DECISION_ROUTING |-> "answered",
   DECISION_EXPIRY |-> "expired", RISK_CLASSIFY |-> "classified", RISK_ROUTING |-> "riskWritten",
   RISK_DECISION |-> "riskAnswered", MODEL_ROUTING |-> "modelRouted",
   DEGRADED_MODE |-> "degraded", DEGRADED_ENFORCE |-> "held",
   DEGRADED_SIGNOFF |-> "degradedAnswered"]

\* The flags that a flag's warning leads to, and theirs.
With(flags) == flags \cup UNION {Needs[f] : f \in flags \cap Features}
LeadsTo(f) == With(With(With({f})))

\* What no warning says: questions and oracles that need the supervisor, a sweep
\* with nothing to expire, drafts and risks that only a decomposition brings,
\* goldens that only the sign-off freezes, a mode that only the daily cap and
\* the provider move, and that only the daily cap takes to SAFE.
Unwarned(f) ==
  \/ f \in {"DECISION_BRIEF", "DECISION_ROUTING", "ORACLE_DOR", "RISK_DECISION"}
       /\ ~({"DATABASE", "TASK_MANAGER"} \subseteq on)
  \/ f = "DECISION_EXPIRY" /\ "DECISION_BRIEF" \notin on
  \/ f \in {"ORACLE_DRAFT", "ORACLE_INVARIANTS", "ORACLE_DECISION", "RISK_ROUTING",
             "MODEL_ROUTING", "DEGRADED_SIGNOFF"} /\ "DECOMPOSE" \notin on
  \/ f = "DEGRADED_SIGNOFF" /\ "RISK_ROUTING" \notin on
  \/ f = "WP_IMPACT" /\ ~({"GOLDEN_SIGNOFF", "DECISION_ROUTING", "SECRET"} \subseteq on)
  \/ f \in {"DEGRADED_MODE", "DEGRADED_SIGNOFF"} /\ ~AnyOf({"BUDGET_DAILY", "PROVIDER_CIRCUIT"})
  \/ f = "DEGRADED_ENFORCE" /\ "BUDGET_DAILY" \notin on

\* A feature that is on either shows its effect or is warned about, itself or by
\* way of what its warning asks for: no flag is silently without effect.
NoFlagIsSilent ==
  (stage = "serving" /\ Possible \subseteq seen) =>
    \A f \in on \cap Features :
      Mark[f] \in seen \/ LeadsTo(f) \cap warned # {} \/ Unwarned(f)

\* What writes to the outbox, but for the approval of an oracle over the API: it
\* is possible whenever a channel needs oracles, which does not start the relay.
Writes == {"decomposed", "riskApproved", "dispatched", "blocked", "advised",
           "oracleAnswered", "answered", "expired", "restored"}

\* A Manager that writes rows to its outbox relays them; without the relay they
\* stay there and whoever waits for them does so for ever.
RowsAreRelayed == Pool /\ seen \cap Writes # {} => Has("relay")
=============================================================================

--------------------------- MODULE StreamConsumer ---------------------------
(***************************************************************************)
(* One Redis stream with its consumer group, the consumers of the shared   *)
(* library (xzawedShared/src/streams/base-consumer.ts), the dead-letter    *)
(* stream and the operator's redrive (streams/dlq.ts), which every agent   *)
(* and the Manager's own loops are built on.                               *)
(*                                                                         *)
(* The Redis side (log, pending list, markers) is external: it is modelled *)
(* from the commands RedisEventBus sends.  A command is one step, and any  *)
(* other process may act between two commands.                             *)
(*                                                                         *)
(* Time: an entry that stayed unacknowledged for PENDING_MIN_IDLE_MS is    *)
(* "stale"; when that happens is left open.  Back-off delays are not       *)
(* modelled, nor the expiry of markers, which outlive every redelivery.    *)
(***************************************************************************)
EXTENDS Integers, Sequences, FiniteSets, FiniteSetsExt

CONSTANTS
  Msgs,           \* the messages producers send
  Broken,         \* no data field or too large: skipped without a trace
  Invalid,        \* refused by JSON.parse or the schema
  Keyless,        \* without a deduplication key
  Consumers,      \* consumer processes of the group
  Operators,      \* concurrent calls of redriveDlq
  IdemEnabled,    \* SHARED_IDEMPOTENT_CONSUME
  MaxDeliveries,  \* in-process tries of a handler
  BatchCount,     \* COUNT of XREADGROUP
  ClaimCount,     \* COUNT of XAUTOCLAIM
  RedriveCount,   \* COUNT of the redrive's XRANGE
  Copies,         \* bound: how often producers send a message
  StreamBound,    \* bound: no new send or redrive beyond this stream length
  Faults,         \* the kinds of faults that happen
  MaxFaults       \* bound on their number

FaultKinds == {"crash", "stop", "ack", "dlq", "setnx", "claim", "redrive"}

ASSUME ConsumerAssumption ==
  /\ Broken \subseteq Msgs /\ Invalid \subseteq Msgs /\ Keyless \subseteq Msgs
  /\ IdemEnabled \in BOOLEAN
  /\ {MaxDeliveries, BatchCount, ClaimCount, RedriveCount} \subseteq Nat \ {0}
  /\ {Copies, StreamBound, MaxFaults} \subseteq Nat
  /\ Faults \subseteq FaultKinds

VARIABLES
  stream,    \* the entries of the stream; an entry's id is its position
  group,     \* last-delivered-id of the consumer group, NoGroup before it exists
  born,      \* last-delivered-id the group was created with
  pel,       \* ids delivered and not acknowledged
  stale,     \* ... for at least PENDING_MIN_IDLE_MS
  markers,   \* messages whose idem: key is set
  dlq,       \* entries of the dead-letter stream
  buried,    \* number of entries ever added to it
  consumer,  \* consumer[c]: what c is doing
  operator,  \* operator[o]: a redrive in progress
  handled,   \* handled[m]: how often a handler completed m
  sent,      \* sent[m]: how often producers sent m
  lost,      \* messages whose handler a crash cut short behind their marker
  faults

redis == <<stream, group, born, pel, stale, markers, dlq, buried>>
vars == <<redis, consumer, operator, handled, sent, lost, faults>>

-----------------------------------------------------------------------------
NoGroup == -1
DeadLetters == [id : Nat, msg : Msgs, reason : {"handler_failed", "invalid_schema"}]

\* claim, read: about to call Redis; check, run: on the first of todo.
Down == [pc |-> "down", todo |-> {}, acks |-> {}, try |-> 0]
At(pc) == [Down EXCEPT !.pc = pc]
Batch(ids) == [pc |-> "check", todo |-> ids, acks |-> {}, try |-> 0]

TypeOK ==
  /\ stream \in Seq(Msgs)
  /\ {group, born} \subseteq Nat \cup {NoGroup}
  /\ stale \subseteq pel /\ pel \subseteq 1..Len(stream)
  /\ markers \subseteq Msgs
  /\ dlq \subseteq DeadLetters /\ buried \in Nat
  /\ consumer \in [Consumers ->
       [pc : {"down", "claim", "read", "check", "run", "ack"},
        todo : SUBSET (1..Len(stream)), acks : SUBSET (1..Len(stream)),
        try : 0..MaxDeliveries]]
  /\ operator \in [Operators -> [step : 1..3, items : SUBSET DeadLetters]]
  /\ handled \in [Msgs -> Nat] /\ sent \in [Msgs -> 0..Copies] /\ lost \subseteq Msgs
  /\ faults \in 0..MaxFaults

Init ==
  /\ stream = <<>> /\ group = NoGroup /\ born = NoGroup
  /\ pel = {} /\ stale = {} /\ markers = {} /\ dlq = {} /\ buried = 0
  /\ consumer = [c \in Consumers |-> Down]
  /\ operator = [o \in Operators |-> [step |-> 1, items |-> {}]]
  /\ handled = [m \in Msgs |-> 0] /\ sent = [m \in Msgs |-> 0]
  /\ lost = {} /\ faults = 0

Fault(kind) == kind \in Faults /\ faults < MaxFaults /\ faults' = faults + 1

Becomes(c, state) == consumer' = [consumer EXCEPT ![c] = state]

\* The first n members of a set of ids.
FirstIds(ids, n) == {i \in ids : Cardinality({j \in ids : j <= i}) <= n}

\* The entry at hand, and its message.
Current(c) == Min(consumer[c].todo)
Msg(c) == stream[Current(c)]

\* Done with the entry at hand: it will be acknowledged with its batch.
Finish(c) ==
  LET rest == consumer[c].todo \ {Current(c)} IN
  Becomes(c, [pc |-> IF rest = {} THEN "ack" ELSE "check", todo |-> rest,
              acks |-> consumer[c].acks \cup {Current(c)}, try |-> 0])

\* routeToDlq: a failed publish is logged and forgotten.
BuryNothing(m, reason) == UNCHANGED <<dlq, buried, faults>>  \* mutant
Bury(m, reason) ==
  \/ /\ dlq' = dlq \cup {[id |-> buried, msg |-> m, reason |-> reason]}
     /\ buried' = buried + 1
     /\ UNCHANGED faults
  \/ Fault("dlq") /\ UNCHANGED <<dlq, buried>>

-----------------------------------------------------------------------------
(* Producers and time (external). *)

Send(m) ==
  /\ sent[m] < Copies /\ Len(stream) < StreamBound
  /\ sent' = [sent EXCEPT ![m] = @ + 1]
  /\ stream' = Append(stream, m)
  /\ UNCHANGED <<group, born, pel, stale, markers, dlq, buried, consumer, operator, handled, lost, faults>>

GoStale(i) ==
  /\ i \in pel \ stale
  /\ stale' = stale \cup {i}
  /\ UNCHANGED <<stream, born, group, pel, markers, dlq, buried, consumer, operator, handled, sent, lost, faults>>

-----------------------------------------------------------------------------
(* BaseConsumer. *)

\* start: the group is created at the end of the stream unless it exists.
Start(c) ==
  /\ consumer[c].pc = "down"
  /\ IF group = NoGroup THEN group' = Len(stream) /\ born' = Len(stream)
                        ELSE UNCHANGED <<group, born>>
  /\ Becomes(c, At("claim"))
  /\ UNCHANGED <<stream, pel, stale, markers, dlq, buried, operator, handled, sent, lost, faults>>

\* claimPendingMessages, once per start.
Claim(c) ==
  /\ consumer[c].pc = "claim"
  /\ LET ids == FirstIds(stale, ClaimCount) IN
       \/ /\ ids # {}
          /\ Becomes(c, Batch(ids)) /\ stale' = stale \ ids /\ UNCHANGED faults
       \/ ids = {} /\ Becomes(c, At("read")) /\ UNCHANGED <<stale, faults>>
       \/ Fault("claim") /\ Becomes(c, At("read")) /\ UNCHANGED stale
  /\ UNCHANGED <<stream, born, group, pel, markers, dlq, buried, operator, handled, sent, lost>>

Undelivered == (group + 1)..Len(stream)

\* readOnce: entries never delivered to the group before.
Read(c) ==
  /\ consumer[c].pc = "read" /\ group < Len(stream)
  /\ LET ids == FirstIds(Undelivered, BatchCount) IN
       /\ group' = group + Cardinality(ids)
       /\ pel' = pel \cup ids
       /\ Becomes(c, Batch(ids))
  /\ UNCHANGED <<stream, born, stale, markers, dlq, buried, operator, handled, sent, lost, faults>>

\* isDuplicate looks at the marker and sets it in one command (SET NX).
Deduplicated(m) == IdemEnabled /\ m \notin Keyless
IsDuplicateNever(m) == FALSE  \* mutant
IsDuplicate(m) == Deduplicated(m) /\ m \in markers

\* parseOrDlq.
Reject(c) ==
  /\ consumer[c].pc = "check" /\ Msg(c) \in Broken \cup Invalid
  /\ IF Msg(c) \in Broken THEN UNCHANGED <<dlq, buried, faults>>
                          ELSE Bury(Msg(c), "invalid_schema")
  /\ Finish(c)
  /\ UNCHANGED <<stream, born, group, pel, stale, markers, operator, handled, sent, lost>>

SkipDuplicate(c) ==
  /\ consumer[c].pc = "check" /\ Msg(c) \notin Broken \cup Invalid
  /\ IsDuplicate(Msg(c))
  /\ Finish(c)
  /\ UNCHANGED <<redis, operator, handled, sent, lost, faults>>

\* The marker is set before the handler runs; without Redis the handler runs
\* unprotected (fail-open).
Admit(c) ==
  /\ consumer[c].pc = "check" /\ Msg(c) \notin Broken \cup Invalid
  /\ \/ /\ ~IsDuplicate(Msg(c))
        /\ markers' = IF Deduplicated(Msg(c)) THEN markers \cup {Msg(c)} ELSE markers
        /\ UNCHANGED faults
     \/ Deduplicated(Msg(c)) /\ Fault("setnx") /\ UNCHANGED markers
  /\ Becomes(c, [consumer[c] EXCEPT !.pc = "run", !.try = 1])
  /\ UNCHANGED <<stream, born, group, pel, stale, dlq, buried, operator, handled, sent, lost>>

HandlerSucceeds(c) ==
  /\ consumer[c].pc = "run"
  /\ handled' = [handled EXCEPT ![Msg(c)] = @ + 1]
  /\ Finish(c)
  /\ UNCHANGED <<redis, operator, sent, lost, faults>>

\* dispatchWithRetry: another try, or the dead letters.
HandlerFails(c) ==
  /\ consumer[c].pc = "run"
  /\ IF consumer[c].try < MaxDeliveries
     THEN /\ Becomes(c, [consumer[c] EXCEPT !.try = @ + 1])
          /\ UNCHANGED <<dlq, buried, faults>>
     ELSE Bury(Msg(c), "handler_failed") /\ Finish(c)
  /\ UNCHANGED <<stream, born, group, pel, stale, markers, operator, handled, sent, lost>>

\* ackAll, once per batch.  A failure leaves the batch pending: readOnce goes
\* on with new entries.
Ack(c) ==
  /\ consumer[c].pc = "ack"
  /\ \/ pel' = pel \ consumer[c].acks /\ stale' = stale \ consumer[c].acks /\ UNCHANGED faults
     \/ Fault("ack") /\ UNCHANGED <<pel, stale>>
  /\ Becomes(c, At("read"))
  /\ UNCHANGED <<stream, born, group, markers, dlq, buried, operator, handled, sent, lost>>

\* stop takes effect between two batches.
Stop(c) ==
  /\ consumer[c].pc = "read" /\ Fault("stop")
  /\ Becomes(c, Down)
  /\ UNCHANGED <<redis, operator, handled, sent, lost>>

\* Whoever crashes in a handler leaves the marker behind, and the message is
\* skipped when it is delivered again.
Crash(c) ==
  /\ consumer[c].pc # "down" /\ Fault("crash")
  /\ Becomes(c, Down)
  /\ lost' = IF consumer[c].pc = "run" /\ Msg(c) \in markers THEN lost \cup {Msg(c)} ELSE lost
  /\ UNCHANGED <<redis, operator, handled, sent>>

-----------------------------------------------------------------------------
(* redriveDlq. *)

\* The order in which an entry goes back: marker, message, dead letter.
RedriveStepsSwapped == <<"publish", "unmark", "delete">>  \* mutant
RedriveSteps == <<"unmark", "publish", "delete">>

Item(o) == CHOOSE e \in operator[o].items : \A f \in operator[o].items : e.id <= f.id
NextItem(o) == [step |-> 1, items |-> operator[o].items \ {Item(o)}]
NextStep(o) == [operator[o] EXCEPT !.step = @ + 1]

RedriveStart(o) ==
  /\ operator[o].items = {} /\ Len(stream) < StreamBound
  /\ \E reasons \in {{"handler_failed"}, {"handler_failed", "invalid_schema"}} :
       LET ids == FirstIds({e.id : e \in dlq}, RedriveCount)
           items == {e \in dlq : e.id \in ids /\ e.reason \in reasons} IN
       /\ items # {}
       /\ operator' = [operator EXCEPT ![o] = [step |-> 1, items |-> items]]
  /\ UNCHANGED <<redis, consumer, handled, sent, lost, faults>>

RedriveStep(o) ==
  /\ operator[o].items # {}
  /\ LET e == Item(o)
         step == RedriveSteps[operator[o].step] IN
       /\ markers' = IF step = "unmark" THEN markers \ {e.msg} ELSE markers
       /\ stream' = IF step = "publish" THEN Append(stream, e.msg) ELSE stream
       /\ dlq' = IF step = "delete" THEN dlq \ {e} ELSE dlq
       /\ operator' = [operator EXCEPT
            ![o] = IF step = "delete" THEN NextItem(o) ELSE NextStep(o)]
  /\ UNCHANGED <<group, born, pel, stale, buried, consumer, handled, sent, lost, faults>>

\* A command fails: the entry is kept, and the next one is taken up.
RedriveFails(o) ==
  /\ operator[o].items # {} /\ Fault("redrive")
  /\ operator' = [operator EXCEPT ![o] = NextItem(o)]
  /\ UNCHANGED <<redis, consumer, handled, sent, lost>>

-----------------------------------------------------------------------------
Handle(c) == HandlerSucceeds(c) \/ HandlerFails(c)

ConsumerStep(c) ==
  \/ Claim(c) \/ Read(c) \/ Reject(c) \/ SkipDuplicate(c) \/ Admit(c) \/ Handle(c) \/ Ack(c)

Next ==
  \/ \E m \in Msgs : Send(m)
  \/ \E i \in pel : GoStale(i)
  \/ \E c \in Consumers : Start(c) \/ ConsumerStep(c) \/ Stop(c) \/ Crash(c)
  \/ \E o \in Operators : RedriveStart(o) \/ RedriveStep(o) \/ RedriveFails(o)

Spec == Init /\ [][Next]_vars

\* A consumer that runs goes on, its handlers end, and one that is down is
\* started again; a redrive in progress goes on, and time passes.
Fairness ==
  /\ \A c \in Consumers : WF_vars(Start(c)) /\ WF_vars(ConsumerStep(c))
  /\ \A o \in Operators : WF_vars(RedriveStep(o))
  /\ WF_vars(\E i \in pel : GoStale(i))

FairSpec == Spec /\ Fairness

-----------------------------------------------------------------------------
(* Properties. *)

Sendable == Msgs \ Broken

\* The message is with a handler.
InHand(m) == \E c \in Consumers : consumer[c].pc = "run" /\ Msg(c) = m

\* A handler completed it, or a person can find it among the dead letters.
Settled(m) == handled[m] > 0 \/ \E e \in dlq : e.msg = m

\* Settled, or lost to a crash, which the design accepts
\* (p1b-idempotent-consume-design.md).
AccountedFor(m) == Settled(m) \/ m \in lost

\* A copy of it will reach a handler: not yet delivered, or pending, and no
\* marker stands in its way.
Deliverable(m) ==
  /\ ~(Deduplicated(m) /\ m \in markers)
  /\ \E i \in 1..Len(stream) : stream[i] = m /\ (i > group \/ i \in pel)

\* A keyed message takes effect once, however often it is sent, redelivered
\* to another consumer while the first still works on it, redriven, or left
\* pending by a crash (base-consumer.ts: a redelivery is skipped).
HandledOnce == \A m \in Msgs \ Keyless : handled[m] <= 1

\* A message the group has received is never forgotten: it waits, is being
\* handled, was handled, or is a dead letter.  The marker, set before the
\* handler runs, must not be left behind without any of these, unless a crash
\* cut short the handler behind it, which the design accepts (AccountedFor).
NeverForgotten ==
  \A m \in Sendable :
    (group # NoGroup /\ \E i \in (born + 1)..group : stream[i] = m /\ i \notin pel)
      => AccountedFor(m) \/ InHand(m) \/ Deliverable(m)

\* Pending for so long that the next consumer to start claims it.  Those that
\* run do not look at it again.
LeftPending(m) ==
  \E i \in stale :
    /\ stream[i] = m
    /\ \A c \in Consumers : i \notin consumer[c].todo \cup consumer[c].acks

\* What the group has yet to deliver is handled or ends as a dead letter, except
\* for what a crash cuts short: lost behind its marker, or left for the next
\* consumer to start (p1b-idempotent-consume-design: redelivery is
\* at-least-once).
EventuallySettled ==
  \A m \in Sendable :
    (group # NoGroup /\ \E i \in 1..Len(stream) : stream[i] = m /\ i > group)
      ~> AccountedFor(m) \/ LeftPending(m)
=============================================================================

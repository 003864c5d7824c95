------------------------------ MODULE WatchEvents ------------------------------
(***************************************************************************)
(* How the Manager hears of changed files (watcher-event-consumer.ts): one *)
(* loop reads the streams that the Watcher agent writes, of all sessions   *)
(* watched at the time, and asks for a run of the session for each change  *)
(* (server.ts).  A group is made when the loop first reads a stream, at    *)
(* its end.  The Watcher's own side is FileWatch; what a task request      *)
(* starts is ManagedSession.                                               *)
(***************************************************************************)
EXTENDS Naturals, Sequences, FiniteSets

CONSTANTS
  Flows,            \* sessions
  MaxHeard,         \* MAX_SESSIONS
  ReadCount,        \* entries of a stream one read takes at most
  MaxPublished,     \* bound on events
  MaxHearingFaults

ASSUME HearAssumption == ReadCount \in Nat /\ MaxPublished \in Nat

VARIABLES
  watching,    \* _watchedSessions
  eventStreams, \* the stream of a session: its entries and the position of the group
  fates,       \* what became of the events
  listener,    \* the loop: where it is, the sessions of this round
  hand,        \* hand[s]: the events read from the stream of s and not yet handled
  batches,     \* history: the events that one read handed over, for each read
  hearingFaults

hearVars == <<watching, eventStreams, fates, listener, hand, batches, hearingFaults>>

NoEventGroup == MaxPublished + 1
\* The data is a change, no JSON, the JSON value null, or anything else.
EventKinds == {"file_changed", "garbled", "null", "other"}
Numbers == DOMAIN fates
None == [s \in Flows |-> << >>]
IsIn(e, list) == \E i \in DOMAIN list : list[i] = e
AtHand == {e \in Numbers : \E s \in Flows : IsIn(e, hand[s])}
HearingFault == hearingFaults < MaxHearingFaults /\ hearingFaults' = hearingFaults + 1

HearInit ==
  /\ watching = {}
  /\ eventStreams = [s \in Flows |-> [entries |-> << >>, group |-> NoEventGroup]]
  /\ fates = << >>
  /\ listener = [at |-> "top", round |-> {}]
  /\ hand = None
  /\ batches = {}
  /\ hearingFaults = 0

---------------------------------------------------------------------------
(* The sessions and the agent *)

\* One too many is not heard of, without a word.
WatchSession(s) ==
  /\ s \notin watching /\ Cardinality(watching) < MaxHeard
  /\ watching' = watching \cup {s}
  /\ UNCHANGED <<eventStreams, fates, listener, hand, batches, hearingFaults>>
UnwatchSession(s) ==
  /\ s \in watching /\ watching' = watching \ {s}
  /\ UNCHANGED <<eventStreams, fates, listener, hand, batches, hearingFaults>>

PublishEvent(s, kind) ==
  /\ Len(fates) < MaxPublished
  /\ fates' = Append(fates, [kind |-> kind, fate |-> "unread"])
  /\ eventStreams' = [eventStreams EXCEPT ![s].entries = Append(@, Len(fates) + 1)]
  /\ UNCHANGED <<watching, listener, hand, batches, hearingFaults>>

\* The stream of a session that is over expires, with its group.
StreamExpires(s) ==
  /\ s \notin watching /\ eventStreams[s].group # NoEventGroup
  /\ fates' = [e \in Numbers |->
                 IF fates[e].fate = "unread" /\ IsIn(e, eventStreams[s].entries)
                 THEN [fates[e] EXCEPT !.fate = "expired"] ELSE fates[e]]
  /\ eventStreams' = [eventStreams EXCEPT ![s] = [entries |-> << >>, group |-> NoEventGroup]]
  /\ UNCHANGED <<watching, listener, hand, batches, hearingFaults>>

---------------------------------------------------------------------------
(* The loop *)

\* A round is for the sessions watched when it begins; without any it waits.
BeginRound ==
  /\ listener.at = "top" /\ watching # {}
  /\ listener' = [at |-> "groups", round |-> watching]
  /\ UNCHANGED <<watching, eventStreams, fates, hand, batches, hearingFaults>>

\* XGROUP CREATE at the end of each stream that has none, which passes over
\* what is in it; an error is ignored.
EnsureGroups ==
  /\ listener.at = "groups"
  /\ \E made \in SUBSET {s \in listener.round : eventStreams[s].group = NoEventGroup} :
       /\ IF \E s \in listener.round \ made : eventStreams[s].group = NoEventGroup
          THEN HearingFault ELSE UNCHANGED hearingFaults
       /\ eventStreams' = [s \in Flows |->
            IF s \in made THEN [eventStreams[s] EXCEPT !.group = Len(eventStreams[s].entries)] ELSE eventStreams[s]]
       /\ fates' = [e \in Numbers |->
            IF fates[e].fate = "unread" /\ \E s \in made : IsIn(e, eventStreams[s].entries)
            THEN [fates[e] EXCEPT !.fate = "passed over"] ELSE fates[e]]
  /\ listener' = [listener EXCEPT !.at = "read"]
  /\ UNCHANGED <<watching, hand, batches>>

\* What one XREADGROUP hands over, stream after stream.
NextEntries(s) ==
  LET st == eventStreams[s]
      upTo == IF st.group + ReadCount < Len(st.entries) THEN st.group + ReadCount ELSE Len(st.entries) IN
  SubSeq(st.entries, st.group + 1, upTo)

\* Without its group a stream makes the whole read fail, which begins the next
\* round, as any failed read does in the end.
ReadRound ==
  /\ listener.at = "read"
  /\ \/ /\ \A s \in listener.round : eventStreams[s].group # NoEventGroup
        /\ hand' = [s \in Flows |-> IF s \in listener.round THEN NextEntries(s) ELSE << >>]
        /\ fates' = [e \in Numbers |->
             IF \E s \in Flows : IsIn(e, hand'[s]) THEN [fates[e] EXCEPT !.fate = "read"] ELSE fates[e]]
        /\ eventStreams' = [s \in Flows |-> [eventStreams[s] EXCEPT !.group = @ + Len(hand'[s])]]
        /\ batches' = batches \cup ({AtHand'} \ {{}})
        /\ UNCHANGED hearingFaults
     \/ /\ \E s \in listener.round : eventStreams[s].group = NoEventGroup
        /\ UNCHANGED <<hand, eventStreams, fates, batches, hearingFaults>>
     \/ HearingFault /\ UNCHANGED <<hand, eventStreams, fates, batches>>
  /\ listener' = [at |-> IF hand' = None THEN "top" ELSE "hand", round |-> {}]
  /\ UNCHANGED watching

\* What is left of what was read, after an event that cannot be used as after
\* any other; but data that is null throws where its type is looked up, and that
\* ends the round.
TakenUnlessUnusable(s) ==  \* mutant
  IF fates[Head(hand[s])].kind \in {"other", "null"} THEN None ELSE [hand EXCEPT ![s] = Tail(@)]
Taken(s) ==
  IF fates[Head(hand[s])].kind = "null" THEN None ELSE [hand EXCEPT ![s] = Tail(@)]
Continue(rest) ==
  /\ hand' = rest
  /\ listener' = IF rest = None THEN [at |-> "top", round |-> {}] ELSE listener
Settle(e, fate) == fates' = [fates EXCEPT ![e].fate = fate]

Outcome(kind) ==
  CASE kind = "file_changed" -> "requested" [] kind = "garbled" -> "buried" [] OTHER -> "dropped"

\* The next event of a stream, the streams in any order: a change asks for a
\* run, what is no JSON goes to the dead letters, the rest is dropped.  A request
\* or a dead letter that cannot be published is logged.  The event is
\* acknowledged in any case; if that fails, the round ends too.  What is left of
\* a batch whose round ends stays pending and is not read again.
HandleEvent(s) ==
  /\ listener.at = "hand" /\ hand[s] # << >>
  /\ LET e == Head(hand[s]) IN
       \/ Settle(e, Outcome(fates[e].kind)) /\ Continue(Taken(s)) /\ UNCHANGED hearingFaults
       \/ /\ fates[e].kind \in {"file_changed", "garbled"}
          /\ Settle(e, "lost") /\ Continue(Taken(s)) /\ HearingFault
       \/ Settle(e, Outcome(fates[e].kind)) /\ Continue(None) /\ HearingFault
  /\ UNCHANGED <<watching, eventStreams, batches>>

HearNext ==
  \/ BeginRound \/ EnsureGroups \/ ReadRound
  \/ \E s \in Flows :
       \/ HandleEvent(s) \/ WatchSession(s) \/ UnwatchSession(s) \/ StreamExpires(s)
       \/ \E kind \in EventKinds : PublishEvent(s, kind)

HearSpec == HearInit /\ [][HearNext]_hearVars

---------------------------------------------------------------------------
(* Properties *)

\* Unless a command fails, an event that was read is settled or still at hand,
\* also when its neighbour in the batch is no JSON or of another type and when
\* its session or its stream ends meanwhile.  Nothing reads it a second time, so
\* whatever drops out of the hand is lost without a trace.  The one event that
\* costs others theirs is one whose data is null, and only those that one read
\* handed over together with it.
ReadIsSettled ==
  hearingFaults = 0 =>
    \A e \in Numbers : fates[e].fate = "read" =>
      \/ e \in AtHand
      \/ \E b \in batches : e \in b /\ \E n \in b : fates[n].kind = "null"

\* An event that nobody has read is still in a stream, after the position of
\* its group.
UnreadIsAhead ==
  \A e \in Numbers : fates[e].fate = "unread" =>
    \E s \in Flows : \E i \in DOMAIN eventStreams[s].entries :
      eventStreams[s].entries[i] = e /\ (eventStreams[s].group = NoEventGroup \/ i > eventStreams[s].group)
=============================================================================

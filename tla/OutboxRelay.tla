----------------------------- MODULE OutboxRelay ----------------------------
(***************************************************************************)
(* The outbox relay (internal/outbox) with the dispatch function main      *)
(* gives it: one goroutine that takes the oldest due row of event_outbox,  *)
(* publishes it on the event bus, appends article events to the VayuFlow   *)
(* inbox, marks the row delivered and records the event id, each a         *)
(* statement of its own that may be lost or cut short by a crash.          *)
(***************************************************************************)
EXTENDS Integers, Sequences, FiniteSets

CONSTANTS
    MaxEvents,         \* bound on the rows of event_outbox
    RelayRetries,      \* maxRetries (3 in the code)
    MaxLostWrites,     \* bound on failing reads and status writes
    MaxFailedAppends,  \* bound on failing appends to the VayuFlow inbox
    MaxRelayCrashes    \* bound on crashes

VARIABLES
    outbox,         \* event_outbox, in id order
    ostatus,        \* event_outbox.status
    oretries,       \* event_outbox.retries
    owaiting,       \* rows whose retry_at lies in the future
    deliveredIds,   \* delivered_events, by row
    flowInbox,      \* vayuflow_inbox, by row (UNIQUE on event_id)
    published,      \* times the bus handed the event to its subscribers
    rpc, current,   \* the relay: where processOne stands, and on which row
    lostWrites, failedAppends, crashes

rowVars   == <<ostatus, oretries, owaiting, deliveredIds>>
relayVars == <<rowVars, flowInbox, published, rpc, current, lostWrites,
               failedAppends, crashes>>
outboxVars == <<outbox, relayVars>>

EventIds     == 1..MaxEvents
ArticleTypes == {"article.created", "article.updated", "article.deleted"}
IsArticle(e) == outbox[e].type \in ArticleTypes

ASSUME RelayAssumption == RelayRetries \in Nat
ASSUME RelayBounds ==
    /\ MaxEvents \in Nat
    /\ MaxLostWrites \in Nat
    /\ MaxFailedAppends \in Nat
    /\ MaxRelayCrashes \in Nat

InitRelay ==
    /\ ostatus = [e \in EventIds |-> "pending"]
    /\ oretries = [e \in EventIds |-> 0]
    /\ owaiting = {}
    /\ deliveredIds = {}
    /\ flowInbox = {}
    /\ published = [e \in EventIds |-> 0]
    /\ rpc = "idle"
    /\ current = 0
    /\ lostWrites = 0
    /\ failedAppends = 0
    /\ crashes = 0

InitOutbox == outbox = <<>> /\ InitRelay

-----------------------------------------------------------------------------
(* The queue's transaction (WriteQueue!Commit): an article event and its   *)
(* cache invalidation, together.                                           *)
Emit(type) ==
    /\ Len(outbox) + 2 <= MaxEvents
    /\ outbox' = outbox \o <<[type |-> type], [type |-> "cache.invalidated"]>>
    /\ UNCHANGED relayVars

LostWrite == lostWrites < MaxLostWrites /\ lostWrites' = lostWrites + 1

DueEvents ==
    {e \in 1..Len(outbox) : ostatus[e] = "pending" /\ e \notin owaiting}

(* Marked delivered before anything is dispatched.                         *)
FetchMarksFirst ==
    /\ rpc = "idle"
    /\ \E e \in DueEvents :
          /\ \A d \in DueEvents : e <= d
          /\ current' = e
          /\ ostatus' = [ostatus EXCEPT ![e] = "delivered"]
    /\ rpc' = "publishing"
    /\ UNCHANGED <<outbox, oretries, owaiting, deliveredIds, flowInbox,
                   published, lostWrites, failedAppends, crashes>>

(* processOne, the SELECT and the probe of delivered_events: both only     *)
(* read what this goroutine alone writes.  A failed probe counts as "not   *)
(* delivered".                                                             *)
Fetch ==
    /\ rpc = "idle"
    /\ \E e \in DueEvents :
          /\ \A d \in DueEvents : e <= d
          /\ current' = e
          /\ \/ /\ rpc' = IF e \in deliveredIds THEN "known" ELSE "publishing"
                /\ UNCHANGED lostWrites
             \/ e \in deliveredIds /\ rpc' = "publishing" /\ LostWrite
    /\ UNCHANGED <<outbox, rowVars, flowInbox, published, failedAppends,
                   crashes>>

Return == rpc' = "idle" /\ current' = 0

(* UPDATE event_outbox SET status=s, with its error ignored.               *)
SetOutboxStatus(s) ==
    \/ ostatus' = [ostatus EXCEPT ![current] = s] /\ UNCHANGED lostWrites
    \/ LostWrite /\ UNCHANGED ostatus

(* The event was delivered before: only the row is brought up to date.     *)
MarkKnown ==
    /\ rpc = "known"
    /\ SetOutboxStatus("delivered")
    /\ Return
    /\ UNCHANGED <<outbox, oretries, owaiting, deliveredIds, flowInbox,
                   published, failedAppends, crashes>>

(* The dispatch function, first half: Bus.Publish runs the subscribers one *)
(* by one, a panic in one of them notwithstanding.                         *)
Publish ==
    /\ rpc = "publishing"
    /\ published' = [published EXCEPT ![current] = @ + 1]
    /\ rpc' = IF IsArticle(current) THEN "appending" ELSE "dispatched"
    /\ UNCHANGED <<outbox, rowVars, flowInbox, current, lostWrites,
                   failedAppends, crashes>>

(* A bridge that logs the failed append and reports success.               *)
AppendFlowSwallowed ==
    /\ rpc = "appending"
    /\ \/ flowInbox' = flowInbox \cup {current} /\ UNCHANGED failedAppends
       \/ /\ failedAppends < MaxFailedAppends
          /\ failedAppends' = failedAppends + 1
          /\ UNCHANGED flowInbox
    /\ rpc' = "dispatched"
    /\ UNCHANGED <<outbox, rowVars, published, current, lostWrites, crashes>>

(* Second half, in an install whose VayuFlow engine runs: the durable      *)
(* trigger, whose failure fails the dispatch; a duplicate is a success.    *)
AppendFlow ==
    /\ rpc = "appending"
    /\ \/ /\ flowInbox' = flowInbox \cup {current}
          /\ rpc' = "dispatched"
          /\ UNCHANGED failedAppends
       \/ /\ failedAppends < MaxFailedAppends
          /\ failedAppends' = failedAppends + 1
          /\ rpc' = "failed"
          /\ UNCHANGED flowInbox
    /\ UNCHANGED <<outbox, rowVars, published, current, lostWrites, crashes>>

MarkDelivered ==
    /\ rpc = "dispatched"
    /\ SetOutboxStatus("delivered")
    /\ rpc' = "recording"
    /\ UNCHANGED <<outbox, oretries, owaiting, deliveredIds, flowInbox,
                   published, current, failedAppends, crashes>>

(* The dedup table left to a later release.                                *)
RecordDeliveredSkipped ==
    /\ rpc = "recording"
    /\ Return
    /\ UNCHANGED <<outbox, rowVars, flowInbox, published, lostWrites,
                   failedAppends, crashes>>

(* INSERT OR IGNORE INTO delivered_events, best effort.                    *)
RecordDelivered ==
    /\ rpc = "recording"
    /\ \/ deliveredIds' = deliveredIds \cup {current} /\ UNCHANGED lostWrites
       \/ LostWrite /\ UNCHANGED deliveredIds
    /\ Return
    /\ UNCHANGED <<outbox, ostatus, oretries, owaiting, flowInbox, published,
                   failedAppends, crashes>>

(* A failed dispatch: the row stays pending and waits, or is given up.     *)
RetryEvent ==
    /\ rpc = "failed"
    /\ oretries[current] < RelayRetries
    /\ \/ /\ oretries' = [oretries EXCEPT ![current] = @ + 1]
          /\ owaiting' = owaiting \cup {current}
          /\ UNCHANGED lostWrites
       \/ LostWrite /\ UNCHANGED <<oretries, owaiting>>
    /\ Return
    /\ UNCHANGED <<outbox, ostatus, deliveredIds, flowInbox, published,
                   failedAppends, crashes>>

GiveUp ==
    /\ rpc = "failed"
    /\ oretries[current] >= RelayRetries
    /\ SetOutboxStatus("dead_letter")
    /\ Return
    /\ UNCHANGED <<outbox, oretries, owaiting, deliveredIds, flowInbox,
                   published, failedAppends, crashes>>

EventBackoffElapses(e) ==
    /\ e \in owaiting
    /\ owaiting' = owaiting \ {e}
    /\ UNCHANGED <<outbox, ostatus, oretries, deliveredIds, flowInbox,
                   published, rpc, current, lostWrites, failedAppends,
                   crashes>>

(* The process dies wherever the relay stands; the tables survive.         *)
Crash ==
    /\ crashes < MaxRelayCrashes
    /\ crashes' = crashes + 1
    /\ Return
    /\ UNCHANGED <<outbox, rowVars, flowInbox, published, lostWrites,
                   failedAppends>>

processOne ==
    \/ Fetch \/ MarkKnown \/ Publish \/ AppendFlow \/ MarkDelivered
    \/ RecordDelivered \/ RetryEvent \/ GiveUp

NextRelay ==
    \/ \E type \in ArticleTypes : Emit(type)
    \/ processOne
    \/ \E e \in EventIds : EventBackoffElapses(e)
    \/ Crash

RelaySpec == InitOutbox /\ [][NextRelay]_outboxVars

(* The relay ticks every 200 ms and time passes.                           *)
RelayFairness ==
    /\ WF_outboxVars(processOne)
    /\ \A e \in EventIds : WF_outboxVars(EventBackoffElapses(e))

FairRelaySpec == RelaySpec /\ RelayFairness

-----------------------------------------------------------------------------
TypeOK ==
    /\ outbox \in Seq([type : ArticleTypes \cup {"cache.invalidated"}])
    /\ Len(outbox) <= MaxEvents
    /\ ostatus \in [EventIds -> {"pending", "delivered", "dead_letter"}]
    /\ oretries \in [EventIds -> 0..RelayRetries]
    /\ owaiting \in SUBSET EventIds
    /\ deliveredIds \in SUBSET EventIds
    /\ flowInbox \in SUBSET EventIds
    /\ published \in [EventIds -> Nat]
    /\ rpc \in {"idle", "known", "publishing", "appending", "dispatched",
                "recording", "failed"}
    /\ current \in 0..MaxEvents
    /\ lostWrites \in Nat
    /\ failedAppends \in Nat
    /\ crashes \in Nat

(* A delivered row is one its consumers saw: the bus published the event,  *)
(* and an article event stands in the VayuFlow inbox, whatever was lost or *)
(* cut short on the way (main.go: "Returning the error here keeps the row  *)
(* pending so it is retried").                                             *)
DeliveredReachedConsumers ==
    \A e \in EventIds : ostatus[e] = "delivered" =>
        /\ published[e] > 0
        /\ IsArticle(e) => e \in flowInbox

(* ADR-0052: subscribers see an event once "under normal operation".       *)
(* Every further publication of an event is paid for by a crash, a failed  *)
(* append, or two lost statements: one lost write alone is caught by the   *)
(* other of the status column and delivered_events.                        *)
RepublishedOnlyAfterFailure ==
    \A e \in EventIds :
        published[e] <= 1 + crashes + failedAppends + (lostWrites \div 2)

(* The relay implements EventDelivery: an event's consumers have it once   *)
(* the bus published it and, for article events, the inbox holds it.       *)
Delivery == INSTANCE EventDelivery WITH
    committed <- Len(outbox),
    handed    <- {e \in 1..Len(outbox) : /\ published[e] > 0
                                         /\ IsArticle(e) => e \in flowInbox},
    delivered <- {e \in EventIds : ostatus[e] = "delivered"},
    abandoned <- {e \in EventIds : ostatus[e] = "dead_letter"}

(* Every committed event is delivered or dead-lettered in the end, and     *)
(* never both: the relay's fair behaviours are behaviours of EventDelivery *)
(* (ADR-0051: "retried ... up to 3 times, then dead-lettered").            *)
ImplementsDelivery == Delivery!DeliverySpec
=============================================================================

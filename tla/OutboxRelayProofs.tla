-------------------------- MODULE OutboxRelayProofs -------------------------
(***************************************************************************)
(* Machine-checked facts about OutboxRelay: whatever writes are lost and   *)
(* wherever the process dies, the relay delivers what EventDelivery allows *)
(* it to; and about RetryClock, the retry times it shares with the queue.  *)
(***************************************************************************)
EXTENDS OutboxRelay, RetryClock, SequenceTheorems, TLAPS

Rows == 1..Len(outbox)

(* The consumers of event e have it.                                       *)
Reached(e) == published[e] > 0 /\ (IsArticle(e) => e \in flowInbox)

(* What the relay knows where it stands: the row in hand exists and is     *)
(* pending until it is marked, and behind a dispatch its consumers had it. *)
InHand ==
    /\ rpc # "idle" => current \in Rows
    /\ rpc \notin {"idle", "recording"} => ostatus[current] = "pending"
    /\ rpc = "known" => current \in deliveredIds
    /\ rpc = "appending" => published[current] > 0
    /\ rpc \in {"dispatched", "recording"} => Reached(current)

(* Only rows that exist were published or settled, and both records of a   *)
(* delivery, the status column and delivered_events, are true.             *)
Records ==
    /\ \A e \in EventIds : (published[e] > 0 \/ ostatus[e] # "pending")
                              => e \in Rows
    /\ \A e \in EventIds : ostatus[e] = "delivered" => Reached(e)
    /\ \A e \in deliveredIds : e \in Rows /\ Reached(e)

RelayInv == TypeOK /\ InHand /\ Records

(* The rows are among the event ids.                                       *)
LEMMA RowsAreIds ==
    ASSUME TypeOK
    PROVE  /\ Len(outbox) \in Nat
           /\ Rows \subseteq EventIds
           /\ EventIds \subseteq Nat
  BY LenProperties, RelayBounds DEF TypeOK, Rows, EventIds

(* A transaction adds two rows and leaves the others.                      *)
LEMMA EmitAppends ==
    ASSUME TypeOK, NEW type \in ArticleTypes, Emit(type)
    PROVE  /\ outbox' \in Seq([type : ArticleTypes \cup {"cache.invalidated"}])
           /\ Len(outbox') = Len(outbox) + 2
           /\ Len(outbox') <= MaxEvents
           /\ \A e \in Rows : outbox'[e] = outbox[e]
<1> DEFINE Ev == [type : ArticleTypes \cup {"cache.invalidated"}]
           a  == [type |-> type]
           c  == [type |-> "cache.invalidated"]
<1>1. outbox \in Seq(Ev) /\ a \in Ev /\ c \in Ev
  BY DEF TypeOK
<1>2. <<a, c>> \in Seq(Ev) /\ Len(<<a, c>>) = 2
  BY <1>1
<1>3. outbox' = outbox \o <<a, c>> /\ Len(outbox) + 2 <= MaxEvents
  BY DEF Emit
<1> HIDE DEF Ev, a, c
<1>4. /\ outbox \o <<a, c>> \in Seq(Ev)
      /\ Len(outbox \o <<a, c>>) = Len(outbox) + 2
      /\ \A e \in 1..Len(outbox) : (outbox \o <<a, c>>)[e] = outbox[e]
  BY <1>1, <1>2, ConcatProperties
<1> QED
  BY <1>3, <1>4 DEF Rows, Ev

LEMMA RelayInit == InitOutbox => RelayInv
<1> SUFFICES ASSUME InitOutbox PROVE RelayInv
  OBVIOUS
<1>1. TypeOK
  <2>1. outbox \in Seq([type : ArticleTypes \cup {"cache.invalidated"}])
    BY EmptySeq DEF InitOutbox
  <2>2. Len(outbox) <= MaxEvents /\ current \in 0..MaxEvents
    BY RelayBounds, EmptySeq DEF InitOutbox, InitRelay
  <2>3. oretries \in [EventIds -> 0..RelayRetries]
    BY RelayAssumption DEF InitOutbox, InitRelay
  <2> QED
    BY <2>1, <2>2, <2>3 DEF InitOutbox, InitRelay, TypeOK
<1> QED
  BY <1>1 DEF InitOutbox, InitRelay, RelayInv, InHand, Records

(* Every step keeps the types.                                             *)
LEMMA RelayTypes ==
    ASSUME RelayInv, [NextRelay]_outboxVars
    PROVE  TypeOK'
<1> USE DEF rowVars, relayVars, Return, SetOutboxStatus, LostWrite
<1>0. /\ TypeOK
      /\ Rows \subseteq EventIds
      /\ EventIds \subseteq 0..MaxEvents
      /\ 0 \in 0..MaxEvents
      /\ rpc # "idle" => current \in EventIds
  BY RowsAreIds, RelayBounds DEF RelayInv, InHand, EventIds
<1>1. ASSUME NEW type \in ArticleTypes, Emit(type)
      PROVE  TypeOK'
  BY <1>0, <1>1, EmitAppends DEF Emit, TypeOK
<1>2. CASE Fetch
  <2>1. PICK e \in DueEvents : current' = e
    BY <1>2 DEF Fetch
  <2>2. e \in 0..MaxEvents
    BY <1>0, <2>1 DEF DueEvents, Rows
  <2>3. rpc' \in {"known", "publishing"} /\ lostWrites' \in Nat
    BY <1>0, <1>2 DEF Fetch, TypeOK
  <2> QED
    BY <1>0, <1>2, <2>1, <2>2, <2>3 DEF Fetch, TypeOK
<1>3. CASE MarkKnown
  BY <1>0, <1>3 DEF MarkKnown, TypeOK
<1>4. CASE Publish
  <2>0. published \in [EventIds -> Nat] /\ current \in EventIds
    BY <1>0, <1>4 DEF Publish, TypeOK
  <2>1. published' \in [EventIds -> Nat]
    BY <1>4, <2>0 DEF Publish
  <2>2. rpc' \in {"appending", "dispatched"}
    BY <1>4 DEF Publish
  <2> QED
    BY <1>0, <1>4, <2>1, <2>2 DEF Publish, TypeOK
<1>5. CASE AppendFlow
  <2>0. /\ flowInbox \in SUBSET EventIds
        /\ failedAppends \in Nat
        /\ current \in EventIds
    BY <1>0, <1>5 DEF AppendFlow, TypeOK
  <2>1. flowInbox' \in SUBSET EventIds /\ failedAppends' \in Nat
    BY <1>5, <2>0 DEF AppendFlow
  <2>2. rpc' \in {"dispatched", "failed"}
    BY <1>5 DEF AppendFlow
  <2> QED
    BY <1>0, <1>5, <2>1, <2>2 DEF AppendFlow, TypeOK
<1>6. CASE MarkDelivered
  <2>1. /\ current \in EventIds
        /\ lostWrites \in Nat
        /\ ostatus \in [EventIds -> {"pending", "delivered", "dead_letter"}]
    BY <1>0, <1>6 DEF MarkDelivered, TypeOK
  <2>2. /\ ostatus' \in [EventIds -> {"pending", "delivered", "dead_letter"}]
        /\ lostWrites' \in Nat
    BY <1>6, <2>1 DEF MarkDelivered
  <2> QED
    BY <1>0, <1>6, <2>2 DEF MarkDelivered, TypeOK
<1>7. CASE RecordDelivered
  <2>0. /\ deliveredIds \in SUBSET EventIds
        /\ lostWrites \in Nat
        /\ current \in EventIds
    BY <1>0, <1>7 DEF RecordDelivered, TypeOK
  <2>1. deliveredIds' \in SUBSET EventIds /\ lostWrites' \in Nat
    BY <1>7, <2>0 DEF RecordDelivered
  <2> QED
    BY <1>0, <1>7, <2>1 DEF RecordDelivered, TypeOK
<1>8. CASE RetryEvent
  <2>1. oretries' \in [EventIds -> 0..RelayRetries]
    <3>1. oretries \in [EventIds -> 0..RelayRetries] /\ current \in EventIds
      BY <1>0, <1>8 DEF RetryEvent, TypeOK
    <3>2. oretries[current] + 1 \in 0..RelayRetries
      BY <1>8, <3>1, RelayAssumption DEF RetryEvent
    <3>3. \/ oretries' = oretries
          \/ oretries' = [oretries EXCEPT ![current] = oretries[current] + 1]
      BY <1>8 DEF RetryEvent
    <3> QED
      BY <3>1, <3>2, <3>3
  <2>2. owaiting' \in SUBSET EventIds /\ lostWrites' \in Nat
    <3>1. /\ owaiting \in SUBSET EventIds
          /\ lostWrites \in Nat
          /\ current \in EventIds
      BY <1>0, <1>8 DEF RetryEvent, TypeOK
    <3> QED
      BY <1>8, <3>1 DEF RetryEvent
  <2> QED
    BY <1>0, <1>8, <2>1, <2>2 DEF RetryEvent, TypeOK
<1>9. CASE GiveUp
  <2>1. /\ current \in EventIds
        /\ lostWrites \in Nat
        /\ ostatus \in [EventIds -> {"pending", "delivered", "dead_letter"}]
    BY <1>0, <1>9 DEF GiveUp, TypeOK
  <2>2. /\ ostatus' \in [EventIds -> {"pending", "delivered", "dead_letter"}]
        /\ lostWrites' \in Nat
    BY <1>9, <2>1 DEF GiveUp
  <2> QED
    BY <1>0, <1>9, <2>2 DEF GiveUp, TypeOK
<1>10. ASSUME NEW e \in EventIds, EventBackoffElapses(e)
       PROVE  TypeOK'
  BY <1>0, <1>10 DEF EventBackoffElapses, TypeOK
<1>11. CASE Crash
  BY <1>0, <1>11 DEF Crash, TypeOK
<1>12. CASE UNCHANGED outboxVars
  BY <1>0, <1>12 DEF outboxVars, TypeOK
<1> QED
  BY <1>1, <1>2, <1>3, <1>4, <1>5, <1>6, <1>7, <1>8, <1>9, <1>10, <1>11,
     <1>12 DEF NextRelay, processOne


(* The consumers of an event do not lose it.                               *)
LEMMA ReachedStays ==
    ASSUME RelayInv, [NextRelay]_outboxVars, NEW e \in Rows, Reached(e)
    PROVE  Reached(e)'
<1> USE DEF rowVars, relayVars
<1>0. TypeOK /\ e \in EventIds
  BY RowsAreIds DEF RelayInv
<1>1. outbox'[e] = outbox[e]
  <2>1. ASSUME NEW type \in ArticleTypes, Emit(type)
        PROVE  outbox'[e] = outbox[e]
    BY <1>0, <2>1, EmitAppends
  <2> QED
    BY <2>1 DEF NextRelay, processOne, Fetch, MarkKnown, Publish, AppendFlow,
       MarkDelivered, RecordDelivered, RetryEvent, GiveUp,
       EventBackoffElapses, Crash, outboxVars
<1>2. flowInbox \subseteq flowInbox'
  BY DEF NextRelay, processOne, Emit, Fetch, MarkKnown, Publish, AppendFlow,
     MarkDelivered, RecordDelivered, RetryEvent, GiveUp, EventBackoffElapses,
     Crash, outboxVars
<1>3. published'[e] > 0
  <2>1. published[e] \in Nat /\ published[e] > 0
    BY <1>0 DEF TypeOK, Reached
  <2>2. CASE Publish
    <3>1. published' = [published EXCEPT ![current] = published[current] + 1]
      BY <2>2 DEF Publish
    <3>2. published'[e] \in {published[e], published[e] + 1}
      BY <1>0, <3>1 DEF TypeOK
    <3> QED
      BY <2>1, <3>2
  <2>3. CASE UNCHANGED published
    BY <2>1, <2>3
  <2> QED
    BY <2>2, <2>3 DEF NextRelay, processOne, Emit, Fetch, MarkKnown,
       AppendFlow, MarkDelivered, RecordDelivered, RetryEvent, GiveUp,
       EventBackoffElapses, Crash, outboxVars
<1> QED
  BY <1>1, <1>2, <1>3 DEF Reached, IsArticle

(* The rows stay, and a step without a transaction adds none.              *)
LEMMA RowsStay ==
    ASSUME RelayInv, [NextRelay]_outboxVars
    PROVE  Rows \subseteq Rows'
<1>1. ASSUME NEW type \in ArticleTypes, Emit(type)
      PROVE  Rows \subseteq Rows'
  BY <1>1, EmitAppends, RowsAreIds DEF RelayInv, Rows
<1>2. CASE UNCHANGED outbox
  BY <1>2 DEF Rows
<1> QED
  BY <1>1, <1>2 DEF NextRelay, processOne, Fetch, MarkKnown, Publish,
     AppendFlow, MarkDelivered, RecordDelivered, RetryEvent, GiveUp,
     EventBackoffElapses, Crash, outboxVars

(* A row reaches its consumers with the publication, or with the append    *)
(* that follows it.                                                        *)
LEMMA DispatchReaches ==
    ASSUME RelayInv, Publish \/ AppendFlow, rpc' = "dispatched"
    PROVE  Reached(current)'
<1> USE DEF rowVars
<1>0. /\ TypeOK
      /\ current \in EventIds
      /\ published \in [EventIds -> Nat]
      /\ current' = current
      /\ outbox' = outbox
  BY RowsAreIds DEF RelayInv, InHand, Publish, AppendFlow, TypeOK
<1>1. CASE Publish
  <2>1. published'[current] = published[current] + 1 /\ ~IsArticle(current)
    BY <1>0, <1>1 DEF Publish
  <2>2. published'[current] > 0
    BY <1>0, <2>1
  <2> QED
    BY <1>0, <2>1, <2>2 DEF Reached, IsArticle
<1>2. CASE AppendFlow
  <2>1. published' = published /\ published[current] > 0
    BY <1>2 DEF AppendFlow, RelayInv, InHand
  <2>2. current \in flowInbox'
    BY <1>2 DEF AppendFlow
  <2> QED
    BY <1>0, <2>1, <2>2 DEF Reached
<1> QED
  BY <1>1, <1>2

-----------------------------------------------------------------------------
(* What the relay knows of the row in hand stays true.                     *)
LEMMA InHandStep ==
    ASSUME RelayInv, [NextRelay]_outboxVars
    PROVE  InHand'
<1> USE DEF rowVars, relayVars, Return
<1>0. /\ TypeOK
      /\ Rows \subseteq Rows'
      /\ \A e \in Rows : Reached(e) => Reached(e)'
      /\ rpc # "idle" => current \in Rows
  BY RowsStay, ReachedStays DEF RelayInv, InHand
<1>1. CASE rpc' = "idle"
  BY <1>1 DEF InHand
<1>2. CASE UNCHANGED <<rpc, current, ostatus, published, deliveredIds>>
  BY <1>0, <1>2 DEF RelayInv, InHand, Reached
<1>3. CASE Fetch
  <2>1. PICK e \in DueEvents : current' = e
    BY <1>3 DEF Fetch
  <2>2. e \in Rows /\ ostatus[e] = "pending"
    BY DEF DueEvents, Rows
  <2>3. /\ rpc' \in {"known", "publishing"}
        /\ rpc' = "known" => e \in deliveredIds
        /\ UNCHANGED <<ostatus, deliveredIds>>
    BY <1>3, <2>1 DEF Fetch
  <2> QED
    BY <1>0, <2>1, <2>2, <2>3 DEF InHand
<1>4. CASE Publish \/ AppendFlow
  <2>1. /\ current' = current
        /\ current \in Rows
        /\ ostatus[current] = "pending"
        /\ ostatus' = ostatus
        /\ rpc' \in {"appending", "dispatched", "failed"}
    BY <1>0, <1>4 DEF Publish, AppendFlow, RelayInv, InHand
  <2>2. rpc' = "appending" => published'[current] > 0
    <3>1. SUFFICES ASSUME Publish PROVE published'[current] > 0
      BY <1>4 DEF AppendFlow
    <3>2. published \in [EventIds -> Nat] /\ current \in EventIds
      BY <1>0, <2>1, RowsAreIds DEF TypeOK
    <3> QED
      BY <3>1, <3>2 DEF Publish
  <2>3. rpc' = "dispatched" => Reached(current)'
    BY <1>4, DispatchReaches
  <2> QED
    BY <1>0, <2>1, <2>2, <2>3 DEF InHand, Reached
<1>5. CASE MarkDelivered
  <2>1. /\ current' = current
        /\ current \in Rows
        /\ Reached(current)
        /\ rpc' = "recording"
    BY <1>0, <1>5 DEF MarkDelivered, RelayInv, InHand
  <2>2. Reached(current)'
    BY <1>0, <2>1
  <2> QED
    BY <1>0, <2>1, <2>2 DEF InHand
<1> QED
  BY <1>1, <1>2, <1>3, <1>4, <1>5 DEF NextRelay, processOne, Emit, MarkKnown,
     RecordDelivered, RetryEvent, GiveUp, EventBackoffElapses, Crash,
     outboxVars

(* Both records of a delivery stay true.                                   *)
LEMMA RecordsStep ==
    ASSUME RelayInv, [NextRelay]_outboxVars
    PROVE  Records'
<1> USE DEF rowVars, relayVars
<1>0. /\ TypeOK
      /\ Rows \subseteq EventIds
      /\ Rows \subseteq Rows'
      /\ \A e \in Rows : Reached(e) => Reached(e)'
      /\ rpc # "idle" => current \in Rows
  BY RowsStay, RowsAreIds, ReachedStays DEF RelayInv, InHand
<1>1. \A e \in EventIds : ostatus'[e] # ostatus[e] =>
          /\ e \in Rows
          /\ ostatus[e] = "pending"
          /\ ostatus'[e] = "delivered" => Reached(e)
  <2>1. ASSUME MarkKnown \/ MarkDelivered \/ GiveUp
        PROVE  /\ current \in EventIds
               /\ current \in Rows
               /\ ostatus[current] = "pending"
               /\ MarkKnown \/ MarkDelivered => Reached(current)
    BY <1>0, <2>1 DEF MarkKnown, MarkDelivered, GiveUp, RelayInv, InHand,
       Records
  <2>2. ASSUME NEW s, SetOutboxStatus(s)
        PROVE  \/ ostatus' = ostatus
               \/ ostatus' = [ostatus EXCEPT ![current] = s]
    BY <2>2 DEF SetOutboxStatus
  <2>3. CASE MarkKnown \/ MarkDelivered
    <3>1. \/ ostatus' = ostatus
          \/ ostatus' = [ostatus EXCEPT ![current] = "delivered"]
      BY <2>2, <2>3 DEF MarkKnown, MarkDelivered
    <3> QED
      BY <1>0, <2>1, <2>3, <3>1 DEF TypeOK
  <2>4. CASE GiveUp
    <3>1. \/ ostatus' = ostatus
          \/ ostatus' = [ostatus EXCEPT ![current] = "dead_letter"]
      BY <2>2, <2>4 DEF GiveUp
    <3> QED
      BY <1>0, <2>1, <2>4, <3>1 DEF TypeOK
  <2>5. CASE UNCHANGED ostatus
    BY <2>5
  <2> QED
    BY <2>3, <2>4, <2>5 DEF NextRelay, processOne, Emit, Fetch, Publish,
       AppendFlow, RecordDelivered, RetryEvent, EventBackoffElapses, Crash,
       outboxVars
<1>2. \A e \in EventIds : published'[e] # published[e] => e \in Rows
  <2>1. CASE Publish
    BY <1>0, <2>1 DEF Publish, TypeOK
  <2>2. CASE UNCHANGED published
    BY <2>2
  <2> QED
    BY <2>1, <2>2 DEF NextRelay, processOne, Emit, Fetch, MarkKnown,
       AppendFlow, MarkDelivered, RecordDelivered, RetryEvent, GiveUp,
       EventBackoffElapses, Crash, outboxVars
<1>3. \A e \in deliveredIds' : e \in Rows /\ Reached(e)
  <2>1. CASE RecordDelivered
    <3>1. deliveredIds' \subseteq deliveredIds \cup {current}
      BY <2>1 DEF RecordDelivered
    <3>2. current \in Rows /\ Reached(current)
      BY <2>1 DEF RecordDelivered, RelayInv, InHand
    <3> QED
      BY <3>1, <3>2 DEF RelayInv, Records
  <2>2. CASE UNCHANGED deliveredIds
    BY <2>2 DEF RelayInv, Records
  <2> QED
    BY <2>1, <2>2 DEF NextRelay, processOne, Emit, Fetch, MarkKnown, Publish,
       AppendFlow, MarkDelivered, RetryEvent, GiveUp, EventBackoffElapses,
       Crash, outboxVars
<1>4. \A e \in EventIds : (published'[e] > 0 \/ ostatus'[e] # "pending")
                              => e \in Rows'
  BY <1>0, <1>1, <1>2 DEF RelayInv, Records
<1>5. \A e \in EventIds : ostatus'[e] = "delivered" => Reached(e)'
  <2> SUFFICES ASSUME NEW e \in EventIds, ostatus'[e] = "delivered"
               PROVE  Reached(e)'
    OBVIOUS
  <2>1. e \in Rows /\ Reached(e)
    BY <1>1 DEF RelayInv, Records
  <2> QED
    BY <1>0, <2>1
<1>6. \A e \in deliveredIds' : e \in Rows' /\ Reached(e)'
  BY <1>0, <1>3
<1>7. EventIds' = EventIds
  BY DEF EventIds
<1> QED
  BY <1>4, <1>5, <1>6, <1>7 DEF Records

LEMMA RelayStep ==
    ASSUME RelayInv, [NextRelay]_outboxVars
    PROVE  RelayInv'
  BY RelayTypes, InHandStep, RecordsStep DEF RelayInv

(* The invariant of the relay, from which the theorems below follow.       *)
LEMMA RelayInvariant == RelaySpec => []RelayInv
  BY RelayInit, RelayStep, PTL DEF RelaySpec

(* The relay's state is well typed: in particular no row is retried more   *)
(* often than RelayRetries times.                                          *)
THEOREM RelayTypeCorrect == RelaySpec => []TypeOK
<1>1. RelayInv => TypeOK
  BY DEF RelayInv
<1> QED
  BY <1>1, RelayInvariant, PTL

(* A delivered row is one its consumers saw, whatever was lost or cut      *)
(* short on the way.                                                       *)
THEOREM DeliveredReachedConsumersHolds ==
    RelaySpec => []DeliveredReachedConsumers
<1>1. RelayInv => DeliveredReachedConsumers
  BY DEF RelayInv, Records, Reached, DeliveredReachedConsumers
<1> QED
  BY <1>1, RelayInvariant, PTL

-----------------------------------------------------------------------------
(* What failures paid for, in half publications: a crash or a failed       *)
(* append is worth one, a lost statement half of one.                      *)
Paid == 2 * (crashes + failedAppends) + lostWrites

(* The part of a publication of event e not paid for yet.  A row that will *)
(* be published again owes nothing; one that is pending, but known to      *)
(* delivered_events, still needs a lost probe for that.                    *)
Credit(e) ==
    IF rpc # "idle" /\ e = current
    THEN IF rpc \in {"publishing", "failed"} THEN 0
         ELSE IF \/ rpc = "known"
                 \/ rpc = "recording" /\ ostatus[e] = "pending" THEN 1
         ELSE 2
    ELSE IF ostatus[e] # "pending" THEN 2
         ELSE IF e \in deliveredIds THEN 1 ELSE 0

Settled == \A e \in EventIds : 2 * published[e] <= Paid + Credit(e)

(* Every step of the relay keeps the accounts.                             *)
LEMMA SettledStep ==
    ASSUME RelayInv, Settled, [NextRelay]_outboxVars
    PROVE  Settled'
<1> USE DEF rowVars, relayVars, Return, SetOutboxStatus, LostWrite
<1> SUFFICES ASSUME NEW e \in EventIds
             PROVE  2 * published'[e] <= Paid' + Credit(e)'
  BY DEF Settled
<1>0. /\ TypeOK /\ InHand
      /\ 2 * published[e] <= Paid + Credit(e)
      /\ published[e] \in Nat
      /\ crashes \in Nat /\ failedAppends \in Nat /\ lostWrites \in Nat
      /\ rpc # "idle" => current \in EventIds
  BY RowsAreIds DEF RelayInv, TypeOK, InHand, Settled
<1> HIDE DEF EventIds
<1>1. CASE UNCHANGED <<relayVars>>
  BY <1>0, <1>1 DEF Paid, Credit
<1>2. CASE Fetch
  BY <1>0, <1>2 DEF Fetch, DueEvents, Paid, Credit
<1>3. CASE MarkKnown
  BY <1>0, <1>3 DEF MarkKnown, InHand, Paid, Credit, TypeOK
<1>4. CASE Publish
  BY <1>0, <1>4 DEF Publish, Paid, Credit, TypeOK
<1>5. CASE AppendFlow
  BY <1>0, <1>5 DEF AppendFlow, Paid, Credit
<1>6. CASE MarkDelivered
  BY <1>0, <1>6 DEF MarkDelivered, Paid, Credit, TypeOK
<1>7. CASE RecordDelivered
  BY <1>0, <1>7 DEF RecordDelivered, Paid, Credit
<1>8. CASE RetryEvent
  BY <1>0, <1>8 DEF RetryEvent, Paid, Credit
<1>9. CASE GiveUp
  BY <1>0, <1>9 DEF GiveUp, Paid, Credit, TypeOK
<1>10. CASE Crash
  BY <1>0, <1>10 DEF Crash, Paid, Credit
<1>11. ASSUME NEW d \in EventIds, EventBackoffElapses(d)
       PROVE  2 * published'[e] <= Paid' + Credit(e)'
  BY <1>0, <1>11 DEF EventBackoffElapses, Paid, Credit
<1>12. ASSUME NEW type \in ArticleTypes, Emit(type)
       PROVE  UNCHANGED relayVars
  BY <1>12 DEF Emit
<1> QED
  BY <1>1, <1>2, <1>3, <1>4, <1>5, <1>6, <1>7, <1>8, <1>9, <1>10, <1>11,
     <1>12 DEF NextRelay, processOne, outboxVars

(* No event is published twice without failures that pay for it: a crash   *)
(* or a failed append each allow one further publication, lost statements  *)
(* of processOne one for every two of them.                                *)
THEOREM RepublishedOnlyAfterFailureHolds ==
    RelaySpec => []RepublishedOnlyAfterFailure
<1>1. InitOutbox => Settled
  BY DEF InitOutbox, InitRelay, Settled, Paid, Credit
<1>2. RelayInv /\ Settled /\ [NextRelay]_outboxVars => Settled'
  BY SettledStep
<1>3. RelayInv /\ Settled => RepublishedOnlyAfterFailure
  <2> SUFFICES ASSUME RelayInv, Settled, NEW e \in EventIds
               PROVE  published[e] <= 1 + crashes + failedAppends
                                        + (lostWrites \div 2)
    BY DEF RepublishedOnlyAfterFailure
  <2>1. /\ published[e] \in Nat
        /\ crashes \in Nat /\ failedAppends \in Nat /\ lostWrites \in Nat
    BY DEF RelayInv, TypeOK
  <2>2. 2 * published[e] <= 2 * (crashes + failedAppends) + lostWrites + 2
    BY <2>1 DEF Settled, Paid, Credit
  <2> QED
    BY <2>1, <2>2
<1> QED
  BY <1>1, <1>2, <1>3, RelayInvariant, PTL DEF RelaySpec

-----------------------------------------------------------------------------
(* The refinement, step by step: what the abstract variables do.           *)
Handed    == {e \in 1..Len(outbox) : /\ published[e] > 0
                                     /\ IsArticle(e) => e \in flowInbox}
Delivered == {e \in EventIds : ostatus[e] = "delivered"}
Abandoned == {e \in EventIds : ostatus[e] = "dead_letter"}

(* A pending row is owed.                                                  *)
LEMMA PendingIsOwed ==
    ASSUME RelayInv, NEW e \in Rows, ostatus[e] = "pending"
    PROVE  /\ e \in 1..MaxEvents
           /\ e \in (1..Len(outbox)) \ (Delivered \cup Abandoned)
<1>1. e \in EventIds
  BY RowsAreIds DEF RelayInv
<1> QED
  BY <1>1 DEF Rows, EventIds, Delivered, Abandoned

(* Steps that touch neither the outbox, the statuses, the bus nor the      *)
(* inbox are stutters of EventDelivery.                                    *)
LEMMA Stutters ==
    ASSUME UNCHANGED <<outbox, ostatus, published, flowInbox>>
    PROVE  UNCHANGED <<Len(outbox), Handed, Delivered, Abandoned>>
  BY DEF Handed, Delivered, Abandoned, IsArticle, EventIds

(* A transaction commits events, and hands over none.                      *)
LEMMA EmitRefines ==
    ASSUME RelayInv, NEW type \in ArticleTypes, Emit(type)
    PROVE  /\ Len(outbox') \in Len(outbox)..MaxEvents
           /\ UNCHANGED <<Handed, Delivered, Abandoned>>
<1>1. /\ TypeOK
      /\ Len(outbox) \in Nat
      /\ Rows \subseteq EventIds
      /\ UNCHANGED <<ostatus, published, flowInbox>>
  BY RowsAreIds DEF RelayInv, Emit, relayVars, rowVars
<1>2. /\ Len(outbox') = Len(outbox) + 2
      /\ Len(outbox') <= MaxEvents
      /\ \A e \in 1..Len(outbox) : outbox'[e] = outbox[e]
  BY <1>1, EmitAppends DEF Rows
<1>3. \A e \in 1..Len(outbox') : published[e] > 0 => e \in 1..Len(outbox)
  <2> SUFFICES ASSUME NEW e \in 1..Len(outbox'), published[e] > 0
               PROVE  e \in 1..Len(outbox)
    OBVIOUS
  <2>1. e \in EventIds
    BY <1>1, <1>2, RelayBounds DEF EventIds
  <2> QED
    BY <2>1 DEF RelayInv, Records, Rows
<1>4. 1..Len(outbox) \subseteq 1..Len(outbox')
  BY <1>1, <1>2
<1>5. Handed' = Handed
  BY <1>1, <1>2, <1>3, <1>4 DEF Handed, IsArticle
<1>6. Len(outbox') \in Len(outbox)..MaxEvents
  BY <1>1, <1>2, RelayBounds
<1> QED
  BY <1>1, <1>5, <1>6 DEF Delivered, Abandoned, EventIds

(* A publication, or an append, hands the row in hand over or does not yet *)
(* complete its delivery to the consumers.                                 *)
LEMMA DispatchRefines ==
    ASSUME RelayInv, Publish \/ AppendFlow
    PROVE  /\ current \in Rows /\ ostatus[current] = "pending"
           /\ Handed' = Handed \/ Handed' = Handed \cup {current}
           /\ UNCHANGED <<Len(outbox), Delivered, Abandoned>>
<1> USE DEF rowVars
<1>1. /\ current \in Rows /\ current \in EventIds
      /\ ostatus[current] = "pending"
      /\ UNCHANGED <<outbox, ostatus>>
      /\ published \in [EventIds -> Nat]
      /\ Rows \subseteq EventIds
  BY RowsAreIds DEF Publish, AppendFlow, RelayInv, InHand, TypeOK
<1>2. \A e \in Rows : e # current =>
          published'[e] = published[e] /\ (e \in flowInbox' <=> e \in flowInbox)
  BY <1>1 DEF Publish, AppendFlow
<1>3. current \in Handed => current \in Handed'
  <2>1. published'[current] = published[current] \/
        published'[current] = published[current] + 1
    BY <1>1 DEF Publish, AppendFlow
  <2>2. published[current] \in Nat
    BY <1>1
  <2>3. published[current] > 0 => published'[current] > 0
    BY <2>1, <2>2
  <2>4. flowInbox \subseteq flowInbox'
    BY DEF Publish, AppendFlow
  <2> QED
    BY <1>1, <2>3, <2>4 DEF Handed, IsArticle, Rows
<1>4. \A e \in Rows : e # current => (e \in Handed' <=> e \in Handed)
  BY <1>1, <1>2 DEF Handed, IsArticle, Rows
<1>5. Handed \subseteq Rows /\ Handed' \subseteq Rows
  BY <1>1 DEF Handed, Rows
<1>6. CASE current \in Handed'
  <2>1. Handed' = Handed \cup {current}
    BY <1>1, <1>4, <1>5, <1>6
  <2> QED
    BY <1>1, <2>1 DEF Delivered, Abandoned, EventIds
<1>7. CASE current \notin Handed'
  <2>1. Handed' = Handed
    BY <1>3, <1>4, <1>5, <1>7
  <2> QED
    BY <1>1, <2>1 DEF Delivered, Abandoned, EventIds
<1> QED
  BY <1>6, <1>7

(* Marking a row settles it, or is lost.                                   *)
LEMMA MarkRefines ==
    ASSUME RelayInv, NEW s \in {"delivered", "dead_letter"},
           SetOutboxStatus(s), rpc \notin {"idle", "recording"},
           UNCHANGED <<outbox, published, flowInbox>>
    PROVE  /\ UNCHANGED <<Len(outbox), Handed>>
           /\ \/ UNCHANGED <<Delivered, Abandoned>>
              \/ /\ s = "delivered"
                 /\ Delivered' = Delivered \cup {current}
                 /\ UNCHANGED Abandoned
              \/ /\ s = "dead_letter"
                 /\ Abandoned' = Abandoned \cup {current}
                 /\ UNCHANGED Delivered
<1>1. /\ current \in EventIds /\ ostatus[current] = "pending"
      /\ ostatus \in [EventIds -> {"pending", "delivered", "dead_letter"}]
  BY RowsAreIds DEF RelayInv, InHand, TypeOK
<1>2. UNCHANGED <<Len(outbox), Handed>>
  BY DEF Handed, IsArticle
<1>3. CASE ostatus' = ostatus
  BY <1>2, <1>3 DEF Delivered, Abandoned, EventIds
<1>4. CASE ostatus' = [ostatus EXCEPT ![current] = s]
  BY <1>1, <1>2, <1>4 DEF Delivered, Abandoned, EventIds
<1> QED
  BY <1>3, <1>4 DEF SetOutboxStatus

(* Every step of the relay is a step, or a stutter, of EventDelivery.      *)
LEMMA RefinementStep ==
    ASSUME RelayInv, [NextRelay]_outboxVars
    PROVE  [Delivery!NextDelivery]_(Delivery!deliveryVars)
<1> USE DEF rowVars, relayVars
<1>1. CASE UNCHANGED <<Len(outbox), Handed, Delivered, Abandoned>>
  BY <1>1 DEF Delivery!deliveryVars, Handed, Delivered, Abandoned
<1>2. ASSUME NEW type \in ArticleTypes, Emit(type)
      PROVE  Delivery!NextDelivery
  <2>1. Delivery!CommitEvents
    BY <1>2, EmitRefines DEF Delivery!CommitEvents, Handed, Delivered,
       Abandoned
  <2> QED
    BY <2>1 DEF Delivery!NextDelivery
<1>3. CASE Publish \/ AppendFlow
  <2>1. CASE Handed' = Handed
    BY <1>1, <1>3, <2>1, DispatchRefines
  <2>2. CASE Handed' = Handed \cup {current}
    <3>0. PICK e : e = current
      OBVIOUS
    <3>1. e \in 1..MaxEvents /\ Delivery!HandOver(e)
      BY <3>0, <1>3, <2>2, DispatchRefines, PendingIsOwed DEF Delivery!HandOver,
         Delivery!Owed, Handed, Delivered, Abandoned
    <3> QED
      BY <3>1 DEF Delivery!NextDelivery
  <2> QED
    BY <1>3, <2>1, <2>2, DispatchRefines
<1>4. CASE MarkKnown \/ MarkDelivered
  <2>1. /\ current \in Rows /\ ostatus[current] = "pending"
        /\ current \in Handed
        /\ SetOutboxStatus("delivered")
        /\ rpc \notin {"idle", "recording"}
        /\ UNCHANGED <<outbox, published, flowInbox>>
    BY <1>4 DEF MarkKnown, MarkDelivered, RelayInv, InHand, Records, Reached,
       Handed, Rows
  <2>2. CASE UNCHANGED <<Delivered, Abandoned>>
    BY <1>1, <2>1, <2>2, MarkRefines
  <2>3. CASE Delivered' = Delivered \cup {current} /\ UNCHANGED Abandoned
    <3>0. PICK e : e = current
      OBVIOUS
    <3>1. e \in 1..MaxEvents /\ Delivery!Deliver(e)
      BY <3>0, <2>1, <2>3, MarkRefines, PendingIsOwed DEF Delivery!Deliver,
         Delivery!Owed, Handed, Delivered, Abandoned
    <3> QED
      BY <3>1 DEF Delivery!NextDelivery
  <2> QED
    BY <2>1, <2>2, <2>3, MarkRefines
<1>5. CASE GiveUp
  <2>1. /\ current \in Rows /\ ostatus[current] = "pending"
        /\ SetOutboxStatus("dead_letter")
        /\ rpc \notin {"idle", "recording"}
        /\ UNCHANGED <<outbox, published, flowInbox>>
    BY <1>5 DEF GiveUp, RelayInv, InHand
  <2>2. CASE UNCHANGED <<Delivered, Abandoned>>
    BY <1>1, <2>1, <2>2, MarkRefines
  <2>3. CASE Abandoned' = Abandoned \cup {current} /\ UNCHANGED Delivered
    <3>0. PICK e : e = current
      OBVIOUS
    <3>1. e \in 1..MaxEvents /\ Delivery!Abandon(e)
      BY <3>0, <2>1, <2>3, MarkRefines, PendingIsOwed DEF Delivery!Abandon,
         Delivery!Owed, Handed, Delivered, Abandoned
    <3> QED
      BY <3>1 DEF Delivery!NextDelivery
  <2> QED
    BY <2>1, <2>2, <2>3, MarkRefines
<1>6. CASE UNCHANGED <<outbox, ostatus, published, flowInbox>>
  BY <1>1, <1>6, Stutters
<1> QED
  BY <1>2, <1>3, <1>4, <1>5, <1>6 DEF NextRelay, processOne, Fetch,
     RecordDelivered, RetryEvent, EventBackoffElapses, Crash, outboxVars

(* The relay implements the safety part of EventDelivery: for any number   *)
(* of events, retries, lost writes and crashes, no event counts as         *)
(* delivered before its consumers had it, and each is delivered or given   *)
(* up at most once.                                                        *)
THEOREM RelayImplementsDelivery == RelaySpec => Delivery!DeliverySafety
<1>1. InitOutbox => Delivery!InitDelivery
  BY EmptySeq DEF InitOutbox, InitRelay, Delivery!InitDelivery
<1> QED
  BY <1>1, RelayInvariant, RefinementStep, PTL
  DEF RelaySpec, Delivery!DeliverySafety

-----------------------------------------------------------------------------
(* Of two instants on different dates, the one with the earlier date is    *)
(* the earlier one.                                                        *)
LEMMA EarlierDate ==
    ASSUME NEW a \in Int, NEW b \in Int, Day(a) < Day(b)
    PROVE  a <= b
  BY ClockAssumption DEF Day

(* A stored time with a T is due by the text of the clock only when its    *)
(* date is past: on the same date the T sorts behind the blank.            *)
LEMMA DueByDate ==
    ASSUME NEW a \in Int, NEW b \in Int
    PROVE  TextLeq(TextWithT(a), datetime(b)) <=> Day(a) < Day(b)
<1>1. Day(a) \in Int /\ Day(b) \in Int
  BY ClockAssumption DEF Day
<1> HIDE DEF Day
<1> QED
  BY <1>1 DEF TextLeq, TextWithT, datetime, TextWithBlank, T, Blank

(* The stored text stands for the instant the backoff ends.                *)
ClockInv ==
    /\ now \in Int
    /\ dueTime \in Int
    /\ tries \in Nat
    /\ retryAt \in {NeverTried, TextWithT(dueTime)}

(* A row of the queue or the outbox is never tried before its backoff has  *)
(* passed, for any length of a day, any limits and any cap.                *)
THEOREM NeverTriedEarlyHolds == ClockSpec => []NeverTriedEarly
<1>1. InitClock => ClockInv
  BY ClockAssumption DEF InitClock, ClockInv
<1>2. ClockInv /\ [NextClock]_clockVars => ClockInv'
  <2> SUFFICES ASSUME ClockInv, [NextClock]_clockVars PROVE ClockInv'
    OBVIOUS
  <2>1. CASE Tick
    BY <2>1 DEF Tick, ClockInv
  <2>2. CASE TryAndFail
    <3>1. Backoff(tries) \in Int
      <4>1. 2 ^ (tries + 1) \in Int
        BY DEF ClockInv
      <4> QED
        BY <4>1, ClockAssumption DEF Backoff
    <3>2. CASE tries < RetryLimit
      <4>1. /\ now' = now
            /\ tries' = tries + 1
            /\ dueTime' = now + Backoff(tries)
            /\ retryAt' = TextWithT(now + Backoff(tries))
        BY <2>2, <3>2 DEF TryAndFail
      <4>2. retryAt' = TextWithT(dueTime')
        BY <4>1
      <4> QED
        BY <3>1, <4>1, <4>2 DEF ClockInv
    <3>3. CASE ~(tries < RetryLimit)
      BY <2>2, <3>3 DEF TryAndFail, ClockInv
    <3> QED
      BY <3>2, <3>3
  <2>3. CASE UNCHANGED clockVars
    BY <2>3 DEF clockVars, ClockInv
  <2> QED
    BY <2>1, <2>2, <2>3 DEF NextClock
<1>3. ClockInv => NeverTriedEarly
  <2> SUFFICES ASSUME ClockInv, retryAt # NeverTried, IsDue
               PROVE  now >= dueTime
    BY DEF NeverTriedEarly
  <2>1. Day(dueTime) < Day(now)
    BY DueByDate DEF IsDue, ClockInv
  <2>2. dueTime <= now
    BY <2>1, EarlierDate DEF ClockInv
  <2> QED
    BY <2>2 DEF ClockInv
<1> QED
  BY <1>1, <1>2, <1>3, PTL DEF ClockSpec

=============================================================================

------------------------- MODULE ScheduledMailProofs -------------------------
(***************************************************************************)
(* Machine-checked facts about ScheduledMail and the MailQueue below it:   *)
(* whoever meets at a held row and wherever the process dies, a message is *)
(* composed once for each choice of its sender and is not lost.            *)
(***************************************************************************)
EXTENDS ScheduledMail, SequenceTheorems, TLAPS

QueueRows == [state: {"pending", "delivered", "failed", "gone"},
              attempts: Nat, due: BOOLEAN]

PassRecords == [items: SUBSET Items, at: Items \cup {NoItem},
                outcome: {"none", "ok", "error", "refused"}]

(* The two halves of TypeOK.                                               *)
QueueTypes ==
    /\ queue \in Seq(QueueRows)
    /\ Len(queue) <= MaxRows
    /\ pass \in [Passes -> PassRecords]
    /\ kicked \subseteq Passes
    /\ handed \subseteq RowIds
    /\ resends \in 0..MaxResends
    /\ lost \in 0..MaxLost

HeldTypes ==
    /\ open \in BOOLEAN
    /\ held \in [Messages -> [state: HeldStates, due: BOOLEAN]]
    /\ listed \subseteq Messages
    /\ work \in [Actors -> [pc: WorkStates, msg: Messages \cup {"none"}]]
    /\ composed \in [Messages -> Nat]
    /\ drafts \in [Messages -> Nat]
    /\ again \in [Messages -> Nat]
    /\ removed \subseteq Messages
    /\ cancelled \subseteq Messages
    /\ choices \in 0..MaxChoices
    /\ crashes \in 0..MaxCrashes

LEMMA TypeHalves == TypeOK <=> QueueTypes /\ HeldTypes
  BY DEF TypeOK, QueueTypes, HeldTypes, QueueRows, PassRecords

-----------------------------------------------------------------------------
(* The queue.                                                              *)

(* What a pass has in hand is a row, and an outcome "ok" is true.          *)
InHand ==
    \A p \in Passes :
        /\ \A it \in pass[p].items : it.id \in 1..Len(queue)
        /\ pass[p].at # NoItem => pass[p].at.id \in 1..Len(queue)
        /\ pass[p].outcome = "ok" => pass[p].at.id \in handed

QueueInv == QueueTypes /\ InHand /\ DeliveredWasHanded

LEMMA QueueFacts ==
    ASSUME QueueTypes
    PROVE  /\ Len(queue) \in Nat
           /\ DOMAIN queue = 1..Len(queue)
           /\ \A i \in 1..Len(queue) : queue[i] \in QueueRows /\ i \in RowIds
           /\ RowIds \subseteq Nat
  BY LenProperties, ElementOfSeq, QueueBounds DEF QueueTypes, RowIds

LEMMA NewRowTyped == NewRow \in QueueRows
  BY DEF NewRow, QueueRows

LEMMA QueueStart == QueueInit => QueueInv
<1> SUFFICES ASSUME QueueInit PROVE QueueInv
  OBVIOUS
<1>1. queue \in Seq(QueueRows) /\ Len(queue) = 0
  BY EmptySeq DEF QueueInit
<1>2. DOMAIN queue = 1..0
  BY <1>1, LenProperties
<1>3. QueueTypes
  BY <1>1, QueueBounds DEF QueueInit, QueueTypes, PassRecords, Idle, Items, NoItem
<1>4. InHand
  BY DEF QueueInit, InHand, Idle
<1> QED
  BY <1>2, <1>3, <1>4 DEF QueueInv, DeliveredWasHanded

(* One row written: the table keeps its length and its other rows.         *)
LEMMA RowWritten ==
    ASSUME QueueTypes, NEW i \in 1..Len(queue), NEW row \in QueueRows,
           queue' = [queue EXCEPT ![i] = row]
    PROVE  /\ queue' \in Seq(QueueRows)
           /\ Len(queue') = Len(queue)
           /\ DOMAIN queue' = 1..Len(queue)
           /\ \A j \in 1..Len(queue) : queue'[j] = IF j = i THEN row ELSE queue[j]
  BY ExceptSeq, LenProperties DEF QueueTypes

LEMMA PassKeepsQueue ==
    ASSUME QueueInv, NEW p \in Passes, PassStep(p)
    PROVE  QueueInv'
<1>0. /\ QueueTypes /\ InHand /\ DeliveredWasHanded
      /\ Len(queue) \in Nat /\ DOMAIN queue = 1..Len(queue)
      /\ \A i \in 1..Len(queue) : queue[i] \in QueueRows /\ i \in RowIds
      /\ RowIds \subseteq Nat
  BY QueueFacts DEF QueueInv
<1>1. CASE StartPass(p)
  <2> DEFINE new == {[id |-> i, attempts |-> queue[i].attempts] : i \in DueRows}
  <2>1. new \subseteq Items /\ \A it \in new : it.id \in 1..Len(queue)
    BY <1>0 DEF DueRows, Items, QueueRows
  <2>2. pass' = [pass EXCEPT ![p].items = new]
    BY <1>1 DEF StartPass
  <2> HIDE DEF new
  <2>3. pass' \in [Passes -> PassRecords]
    BY <1>0, <2>1, <2>2 DEF QueueTypes, PassRecords
  <2>4. QueueTypes'
    BY <1>0, <1>1, <2>3 DEF StartPass, QueueTypes
  <2>5. InHand'
    BY <1>0, <1>1, <2>1, <2>2 DEF StartPass, QueueTypes, PassRecords, InHand
  <2> QED
    BY <1>0, <1>1, <2>4, <2>5 DEF StartPass, QueueInv, DeliveredWasHanded
<1>2. CASE Deliver(p)
  <2>1. PICK it \in pass[p].items, result \in {"ok", "error", "refused"} :
            /\ \/ handed' = handed \cup {it.id}
               \/ result # "ok" /\ UNCHANGED handed
            /\ pass' = [pass EXCEPT ![p] =
                   [items |-> @.items \ {it}, at |-> it, outcome |-> result]]
    BY <1>2 DEF Deliver
  <2>2. it \in Items /\ it.id \in 1..Len(queue) /\ it.id \in RowIds
    BY <1>0, <2>1 DEF QueueTypes, PassRecords, InHand
  <2>3. UNCHANGED <<queue, kicked, resends, lost>>
    BY <1>2 DEF Deliver
  <2>4. QueueTypes'
    BY <1>0, <2>1, <2>2, <2>3 DEF QueueTypes, PassRecords
  <2>5. InHand'
    BY <1>0, <2>1, <2>2, <2>3 DEF QueueTypes, PassRecords, InHand
  <2> QED
    BY <1>0, <2>1, <2>3, <2>4, <2>5 DEF QueueInv, DeliveredWasHanded
<1>3. CASE Record(p)
  <2> DEFINE id == pass[p].at.id
  <2>1. /\ id \in 1..Len(queue) /\ pass[p].at \in Items
        /\ queue[id] \in QueueRows
        /\ pass[p].outcome = "ok" => id \in handed
    BY <1>0, <1>3 DEF Record, InHand, QueueTypes, PassRecords
  <2>2. /\ Recorded(p) \in QueueRows
        /\ Recorded(p).state = "delivered" =>
               queue[id].state = "delivered" \/ pass[p].outcome = "ok"
    <3> DEFINE row == queue[id]
               n   == pass[p].at.attempts + 1
    <3>1. row \in QueueRows /\ n \in Nat
      BY <2>1 DEF Items
    <3>2. Recorded(p) =
              IF row.state = "gone" THEN row
              ELSE IF pass[p].outcome = "ok"
                   THEN [row EXCEPT !.state = "delivered"]
              ELSE IF GiveUp(p)
                   THEN [row EXCEPT !.state = "failed", !.attempts = n]
              ELSE [row EXCEPT !.attempts = n, !.due = FALSE]
      BY Zenon DEF Recorded
    <3> HIDE DEF row, n
    <3>3. /\ Recorded(p) \in QueueRows
          /\ Recorded(p).state = "delivered" =>
                 row.state = "delivered" \/ pass[p].outcome = "ok"
      BY <3>1, <3>2 DEF QueueRows
    <3> QED
      BY <3>3 DEF row
  <2>3. pass' = [pass EXCEPT ![p].at = NoItem, ![p].outcome = "none"]
    BY <1>3 DEF Record
  <2>4. UNCHANGED <<kicked, handed, resends>>
    BY <1>3 DEF Record
  <2>5. pass' \in [Passes -> PassRecords]
    BY <1>0, <2>3 DEF QueueTypes, PassRecords
  <2>6. CASE queue' = [queue EXCEPT ![id] = Recorded(p)] /\ UNCHANGED lost
    <3>1. /\ queue' \in Seq(QueueRows)
          /\ Len(queue') = Len(queue)
          /\ DOMAIN queue' = 1..Len(queue)
          /\ \A j \in 1..Len(queue) :
                 queue'[j] = IF j = id THEN Recorded(p) ELSE queue[j]
      BY <1>0, <2>1, <2>2, <2>6, RowWritten
    <3>2. QueueTypes'
      BY <1>0, <2>4, <2>5, <2>6, <3>1 DEF QueueTypes
    <3>3. InHand'
      BY <1>0, <2>3, <2>4, <3>1 DEF QueueTypes, PassRecords, InHand
    <3>4. DeliveredWasHanded'
      BY <1>0, <2>1, <2>2, <2>4, <3>1 DEF DeliveredWasHanded
    <3> QED
      BY <3>2, <3>3, <3>4 DEF QueueInv
  <2>7. CASE LoseStatement /\ UNCHANGED queue
    <3>1. lost' \in 0..MaxLost
      BY <1>0, <2>7, QueueBounds DEF LoseStatement, QueueTypes
    <3>2. QueueTypes'
      BY <1>0, <2>4, <2>5, <2>7, <3>1 DEF QueueTypes
    <3>3. InHand'
      BY <1>0, <2>3, <2>4, <2>7 DEF QueueTypes, PassRecords, InHand
    <3> QED
      BY <1>0, <2>4, <2>7, <3>2, <3>3 DEF QueueInv, DeliveredWasHanded
  <2> QED
    BY <1>3, <2>6, <2>7 DEF Record
<1> QED
  BY <1>1, <1>2, <1>3 DEF PassStep

(* The other ways to change the table: the backoff's end and the Outbox.   *)
LEMMA OutboxKeepsQueue ==
    ASSUME QueueInv, FallDue \/ Outbox
    PROVE  QueueInv'
<1>0. /\ QueueTypes /\ InHand /\ DeliveredWasHanded
      /\ Len(queue) \in Nat /\ DOMAIN queue = 1..Len(queue)
      /\ \A i \in 1..Len(queue) : queue[i] \in QueueRows /\ i \in RowIds
  BY QueueFacts DEF QueueInv
<1>1. ASSUME /\ queue' \in Seq(QueueRows) /\ Len(queue') = Len(queue)
             /\ \A j \in 1..Len(queue) :
                    queue'[j].state = "delivered" => queue[j].state = "delivered",
             UNCHANGED <<pass, handed, lost>>,
             kicked' \subseteq Passes, resends' \in 0..MaxResends
      PROVE  QueueInv'
  <2>1. QueueTypes'
    BY <1>0, <1>1 DEF QueueTypes
  <2>2. InHand'
    BY <1>0, <1>1 DEF InHand
  <2>3. DOMAIN queue' = 1..Len(queue)
    BY <1>1, LenProperties
  <2> QED
    BY <1>0, <1>1, <2>1, <2>2, <2>3 DEF QueueInv, DeliveredWasHanded
<1>2. ASSUME NEW i \in 1..Len(queue), NEW row \in QueueRows,
             row.state # "delivered" \/ row.state = queue[i].state,
             queue' = [queue EXCEPT ![i] = row]
      PROVE  /\ queue' \in Seq(QueueRows) /\ Len(queue') = Len(queue)
             /\ \A j \in 1..Len(queue) :
                    queue'[j].state = "delivered" => queue[j].state = "delivered"
  BY <1>0, <1>2, RowWritten
<1>3. ASSUME Resend PROVE resends' \in 0..MaxResends
  BY <1>0, <1>3, QueueBounds DEF Resend, QueueTypes
<1>4. kicked \subseteq Passes /\ kicked \cup {"kick"} \subseteq Passes
      /\ resends \in 0..MaxResends
  BY <1>0 DEF QueueTypes, Passes
<1>5. CASE FallDue
  <2>1. PICK i \in 1..Len(queue) :
            queue' = [queue EXCEPT ![i].due = TRUE]
    BY <1>0, <1>5 DEF FallDue
  <2> DEFINE row == [queue[i] EXCEPT !.due = TRUE]
  <2>2. row \in QueueRows /\ row.state = queue[i].state
    BY <1>0 DEF QueueRows
  <2>3. queue' = [queue EXCEPT ![i] = row]
    BY <2>1, Zenon
  <2> HIDE DEF row
  <2>4. UNCHANGED <<pass, kicked, handed, resends, lost>>
    BY <1>5 DEF FallDue
  <2>5. /\ queue' \in Seq(QueueRows) /\ Len(queue') = Len(queue)
        /\ \A j \in 1..Len(queue) :
               queue'[j].state = "delivered" => queue[j].state = "delivered"
    BY <2>2, <2>3, <1>2
  <2> QED
    BY <2>4, <2>5, <1>1, <1>4
<1>6. ASSUME NEW i \in 1..Len(queue), ResendQueued(i) PROVE QueueInv'
  <2>1. /\ queue' = [queue EXCEPT ![i] = NewRow]
        /\ kicked' = kicked \cup {"kick"}
        /\ UNCHANGED <<pass, handed, lost>>
        /\ resends' \in 0..MaxResends
    BY <1>6, <1>3 DEF ResendQueued
  <2>2. /\ queue' \in Seq(QueueRows) /\ Len(queue') = Len(queue)
        /\ \A j \in 1..Len(queue) :
               queue'[j].state = "delivered" => queue[j].state = "delivered"
    <3>1. NewRow.state # "delivered"
      BY DEF NewRow
    <3> QED
      BY <2>1, <3>1, <1>2, NewRowTyped
  <2> QED
    BY <2>1, <2>2, <1>1, <1>4
<1>7. ASSUME NEW i \in 1..Len(queue), DeleteQueued(i) PROVE QueueInv'
  <2> DEFINE row == [queue[i] EXCEPT !.state = "gone"]
  <2>1. row \in QueueRows /\ row.state = "gone"
    BY <1>0 DEF QueueRows
  <2>2. queue' = [queue EXCEPT ![i] = row]
    BY <1>7, Zenon DEF DeleteQueued
  <2> HIDE DEF row
  <2>3. UNCHANGED <<pass, kicked, handed, resends, lost>>
    BY <1>7 DEF DeleteQueued
  <2>4. /\ queue' \in Seq(QueueRows) /\ Len(queue') = Len(queue)
        /\ \A j \in 1..Len(queue) :
               queue'[j].state = "delivered" => queue[j].state = "delivered"
    BY <2>1, <2>2, <1>2
  <2> QED
    BY <2>3, <2>4, <1>1, <1>4
<1>8. CASE RetryAllFailed
  <2>1. /\ queue' = [i \in 1..Len(queue) |->
               IF queue[i].state = "failed" THEN NewRow ELSE queue[i]]
        /\ kicked' = kicked \cup {"kick"}
        /\ UNCHANGED <<pass, handed, lost>>
        /\ resends' \in 0..MaxResends
    BY <1>0, <1>8, <1>3 DEF RetryAllFailed
  <2>2. \A i \in 1..Len(queue) :
            (IF queue[i].state = "failed" THEN NewRow ELSE queue[i]) \in QueueRows
    BY <1>0, NewRowTyped
  <2>3. /\ queue' \in [1..Len(queue) -> QueueRows]
        /\ \A j \in 1..Len(queue) :
               queue'[j].state = "delivered" => queue[j].state = "delivered"
    BY <2>1, <2>2 DEF NewRow
  <2>4. queue' \in Seq(QueueRows) /\ Len(queue') = Len(queue)
    BY <1>0, <2>3, SeqDef, LenProperties
  <2> QED
    BY <2>1, <2>3, <2>4, <1>1, <1>4
<1> QED
  BY <1>0, <1>5, <1>6, <1>7, <1>8 DEF Outbox

(* What a step on a held message does to the queue: nothing, a row added   *)
(* behind the others, a pass asked for, a statement lost, or a restart.    *)
LEMMA HeldKeepsQueue ==
    ASSUME QueueInv,
           queue' = queue \/ (Len(queue) < MaxRows /\ queue' = Append(queue, NewRow)),
           pass' = pass \/ pass' = [p \in Passes |-> Idle],
           kicked' \subseteq Passes,
           UNCHANGED <<handed, resends>>,
           UNCHANGED lost \/ LoseStatement
    PROVE  QueueInv'
<1>0. /\ QueueTypes /\ InHand /\ DeliveredWasHanded
      /\ Len(queue) \in Nat /\ DOMAIN queue = 1..Len(queue)
  BY QueueFacts DEF QueueInv
<1>1. lost' \in 0..MaxLost
  BY <1>0, QueueBounds DEF LoseStatement, QueueTypes
<1>2. /\ queue' \in Seq(QueueRows)
      /\ Len(queue') \in Len(queue)..MaxRows
      /\ \A i \in 1..Len(queue') :
             queue'[i].state = "delivered" =>
                 i \in 1..Len(queue) /\ queue[i].state = "delivered"
  <2>1. CASE queue' = queue
    BY <1>0, <2>1, QueueBounds DEF QueueTypes
  <2>2. CASE Len(queue) < MaxRows /\ queue' = Append(queue, NewRow)
    <3>0. /\ Append(queue, NewRow) \in Seq(QueueRows)
          /\ Len(Append(queue, NewRow)) = Len(queue) + 1
          /\ \A i \in 1..Len(queue) : Append(queue, NewRow)[i] = queue[i]
          /\ Append(queue, NewRow)[Len(queue) + 1] = NewRow
      BY <1>0, NewRowTyped, AppendProperties DEF QueueTypes
    <3>1. /\ queue' \in Seq(QueueRows)
          /\ Len(queue') = Len(queue) + 1
          /\ \A i \in 1..Len(queue) : queue'[i] = queue[i]
          /\ queue'[Len(queue) + 1] = NewRow
      BY <2>2, <3>0, Zenon
    <3>2. NewRow.state # "delivered"
      BY DEF NewRow
    <3>3. Len(queue') \in Len(queue)..MaxRows
      <4>1. Len(queue) < MaxRows
        BY <2>2
      <4> QED
        BY <1>0, <3>1, <4>1, QueueBounds
    <3>4. \A i \in 1..Len(queue') :
              queue'[i].state = "delivered" => i \in 1..Len(queue)
      BY <1>0, <3>1, <3>2
    <3> QED
      BY <3>1, <3>3, <3>4
  <2> QED
    BY <2>1, <2>2
<1>3. pass' \in [Passes -> PassRecords]
  BY <1>0 DEF QueueTypes, PassRecords, Idle, Items, NoItem
<1>4. QueueTypes'
  BY <1>0, <1>1, <1>2, <1>3, QueueBounds DEF QueueTypes
<1>5. InHand'
  <2>1. CASE pass' = pass
    BY <1>0, <1>2, <2>1 DEF InHand
  <2>2. CASE pass' = [p \in Passes |-> Idle]
    BY <2>2 DEF InHand, Idle
  <2> QED
    BY <2>1, <2>2
<1>6. DOMAIN queue' = 1..Len(queue')
  BY <1>2, LenProperties
<1> QED
  BY <1>0, <1>2, <1>4, <1>5, <1>6 DEF QueueInv, DeliveredWasHanded

-----------------------------------------------------------------------------
(* The held messages.                                                      *)

Busy(x) == work[x].pc # "idle"

(* The claim is a lock: who has one works on a row no other has, and that  *)
(* no claim can take.  Nobody works before the accounts are open.          *)
ClaimIsLock ==
    /\ \A x \in Actors : Busy(x) =>
           /\ work[x].msg \in Messages
           /\ held[work[x].msg].state \in {"sending", "cancelling", "gone"}
    /\ \A x, y \in Actors : Busy(x) /\ Busy(y) /\ x # y => work[x].msg # work[y].msg
    /\ ~open => listed = {} /\ \A x \in Actors : ~Busy(x)

(* Who is about to compose may: the message has not gone out since the     *)
(* last choice of its sender.                                              *)
ComposeIsOwed ==
    /\ \A x \in Actors : work[x].pc \in {"claimed", "read"} =>
           composed[work[x].msg] <= again[work[x].msg]
    /\ \A m \in Messages : held[m].state \in {"none", "waiting"} => composed[m] = 0

(* A row that is about to be deleted has gone out, or to Drafts.           *)
DeleteIsEarned ==
    \A x \in Actors :
        /\ work[x].pc = "sent" => composed[work[x].msg] > 0
        /\ work[x].pc = "filed" => drafts[work[x].msg] > 0

(* Nobody works on a message whose Cancel was answered.                    *)
CancelIsLast ==
    \A m \in cancelled :
        /\ held[m].state = "gone"
        /\ \A x \in Actors : Busy(x) => work[x].msg # m

HeldInv ==
    /\ HeldTypes
    /\ ClaimIsLock
    /\ ComposeIsOwed
    /\ DeleteIsEarned
    /\ CancelIsLast
    /\ ComposedOnce
    /\ NothingVanishes

(* What the steps below need of the types.                                 *)
LEMMA SweepActs == "sweep" \in Actors /\ \A x \in Senders : x \in Actors
  BY DEF Actors

LEMMA HeldStart == Init => HeldInv
<1> SUFFICES ASSUME Init PROVE HeldInv
  OBVIOUS
<1>1. HeldTypes
  BY ScheduledBounds DEF Init, HeldTypes, HeldStates, WorkStates, NoWork
<1>2. ClaimIsLock /\ DeleteIsEarned /\ CancelIsLast
  BY DEF Init, ClaimIsLock, DeleteIsEarned, CancelIsLast, Busy, NoWork
<1>3. ComposeIsOwed /\ ComposedOnce /\ NothingVanishes
  BY DEF Init, ComposeIsOwed, ComposedOnce, NothingVanishes, NoWork
<1> QED
  BY <1>1, <1>2, <1>3 DEF HeldInv

(* A claim, by the sweep or a sender, of a row no one works on.            *)
LEMMA ClaimKeeps ==
    ASSUME HeldInv, NEW x \in Actors, NEW m \in Messages,
           open \/ m \in listed,
           work[x] = NoWork,
           NEW state \in {"sending", "cancelling"}, NEW pc \in {"claimed", "filing"},
           Claimed(x, m, state, pc),
           \/ Claim(m, {"waiting"}) /\ UNCHANGED again
           \/ /\ Claim(m, {"waiting", "failed"})
              /\ \/ pc = "filing" /\ UNCHANGED again
                 \/ again' = IF held[m].state = "failed"
                             THEN [again EXCEPT ![m] = @ + 1] ELSE again,
           listed' \subseteq listed,
           choices' \in 0..MaxChoices,
           UNCHANGED <<open, composed, drafts, removed, cancelled, crashes>>
    PROVE  HeldInv'
<1> USE DEF Busy
<1>1. /\ HeldTypes /\ ClaimIsLock /\ ComposeIsOwed /\ DeleteIsEarned
      /\ CancelIsLast /\ ComposedOnce /\ NothingVanishes
  BY DEF HeldInv
<1>2. /\ held[m].state \in {"waiting", "failed"}
      /\ held' = [held EXCEPT ![m].state = state]
      /\ work' = [work EXCEPT ![x] = [pc |-> pc, msg |-> m]]
      /\ ~Busy(x) /\ open
  BY <1>1 DEF Claim, Claimed, NoWork, ClaimIsLock
<1>3. /\ again' \in [Messages -> Nat]
      /\ \A n \in Messages : again'[n] >= again[n]
      /\ held[m].state = "failed" /\ pc = "claimed" => again'[m] = again[m] + 1
  <2>1. again \in [Messages -> Nat]
    BY <1>1 DEF HeldTypes
  <2>2. CASE again' = again /\ (held[m].state # "failed" \/ pc = "filing")
    BY <2>1, <2>2
  <2>3. CASE held[m].state = "failed" /\ again' = [again EXCEPT ![m] = @ + 1]
    BY <2>1, <2>3
  <2> QED
    BY <1>2, <2>2, <2>3 DEF Claim
<1>4. HeldTypes'
  BY <1>1, <1>2, <1>3 DEF HeldTypes, HeldStates, WorkStates
<1>5. /\ \A n \in Messages : n # m => held'[n] = held[n]
      /\ held'[m].state = state
      /\ \A y \in Actors : y # x => work'[y] = work[y]
      /\ work'[x].pc = pc /\ work'[x].msg = m
  BY <1>1, <1>2 DEF HeldTypes
<1>6. \A y \in Actors : Busy(y) => work[y].msg # m
  BY <1>1, <1>2 DEF ClaimIsLock
<1>7. ClaimIsLock'
  BY <1>1, <1>2, <1>5, <1>6 DEF ClaimIsLock
<1>8. ComposeIsOwed'
  <2>1. composed[m] \in Nat /\ again[m] \in Nat /\ again'[m] \in Nat
    BY <1>1, <1>3 DEF HeldTypes
  <2>2. pc = "claimed" => composed[m] <= again'[m]
    BY <1>1, <1>2, <1>3, <2>1 DEF ComposeIsOwed, ComposedOnce
  <2>3. \A y \in Actors : y # x /\ work[y].pc \in {"claimed", "read"} =>
            composed[work[y].msg] <= again'[work[y].msg]
    <3> SUFFICES ASSUME NEW y \in Actors, y # x,
                        work[y].pc \in {"claimed", "read"}
                 PROVE  composed[work[y].msg] <= again'[work[y].msg]
      OBVIOUS
    <3>1. /\ work[y].msg \in Messages
          /\ composed[work[y].msg] <= again[work[y].msg]
      BY <1>1 DEF ClaimIsLock, ComposeIsOwed
    <3> QED
      BY <1>1, <1>3, <3>1 DEF HeldTypes
  <2>4. \A y \in Actors : work'[y].pc \in {"claimed", "read"} =>
            composed'[work'[y].msg] <= again'[work'[y].msg]
    BY <1>5, <2>2, <2>3
  <2> QED
    BY <1>1, <1>5, <2>4 DEF ComposeIsOwed
<1>9. DeleteIsEarned' /\ CancelIsLast'
  BY <1>1, <1>2, <1>5 DEF DeleteIsEarned, CancelIsLast
<1>10. ComposedOnce'
  BY <1>1, <1>3 DEF HeldTypes, ComposedOnce
<1>11. NothingVanishes'
  BY <1>1, <1>5 DEF NothingVanishes
<1> QED
  BY <1>4, <1>7, <1>8, <1>9, <1>10, <1>11 DEF HeldInv

(* A step of who has claimed m, on m alone.                                *)
LEMMA WorkKeeps ==
    ASSUME HeldInv, HeldTypes', NEW x \in Actors, Busy(x),
           NEW m, m = work[x].msg,
           \A y \in Actors : y # x => work'[y] = work[y],
           \A n \in Messages : n # m =>
               /\ held'[n].state = held[n].state
               /\ composed'[n] = composed[n]
               /\ drafts'[n] = drafts[n],
           work'[x].pc = "idle" \/ work'[x].msg = m,
           held'[m].state \in {"sending", "cancelling", "failed", "gone"},
           held'[m].state = "failed" => work'[x].pc = "idle",
           composed'[m] >= composed[m], composed'[m] <= 1 + again[m],
           work'[x].pc \in {"claimed", "read"} => composed'[m] <= again[m],
           work'[x].pc = "sent" => composed'[m] > 0,
           drafts'[m] >= drafts[m],
           work'[x].pc = "filed" => drafts'[m] > 0,
           held'[m].state = "gone" =>
               held[m].state = "gone" \/ composed[m] > 0 \/ drafts[m] > 0,
           \/ UNCHANGED cancelled
           \/ /\ cancelled' = cancelled \cup {m}
              /\ held'[m].state = "gone" /\ work'[x].pc = "idle",
           UNCHANGED <<open, listed, again, removed>>
    PROVE  HeldInv'
<1>1. /\ HeldTypes /\ ClaimIsLock /\ ComposeIsOwed /\ DeleteIsEarned
      /\ CancelIsLast /\ ComposedOnce /\ NothingVanishes
  BY DEF HeldInv
<1>2. /\ m \in Messages
      /\ held[m].state \in {"sending", "cancelling", "gone"}
      /\ \A y \in Actors : y # x /\ Busy(y) =>
             work[y].msg # m /\ work[y].msg \in Messages
      /\ open
  BY <1>1 DEF ClaimIsLock
<1>3. ClaimIsLock'
  <2>1. \A y \in Actors : Busy(y)' =>
            /\ work'[y].msg \in Messages
            /\ held'[work'[y].msg].state \in {"sending", "cancelling", "gone"}
    BY <1>1, <1>2 DEF ClaimIsLock, Busy
  <2>2. \A y, z \in Actors : Busy(y)' /\ Busy(z)' /\ y # z =>
            work'[y].msg # work'[z].msg
    BY <1>1, <1>2 DEF ClaimIsLock, Busy
  <2> QED
    BY <1>2, <2>1, <2>2 DEF ClaimIsLock
<1>4. ComposeIsOwed'
  <2>1. \A y \in Actors : work'[y].pc \in {"claimed", "read"} =>
            composed'[work'[y].msg] <= again'[work'[y].msg]
    BY <1>1, <1>2 DEF ComposeIsOwed, Busy
  <2>2. \A n \in Messages :
            held'[n].state \in {"none", "waiting"} => composed'[n] = 0
    BY <1>1 DEF ComposeIsOwed
  <2> QED
    BY <2>1, <2>2 DEF ComposeIsOwed
<1>5. DeleteIsEarned'
  BY <1>1, <1>2 DEF DeleteIsEarned, Busy
<1>6. CancelIsLast'
  <2>1. m \notin cancelled
    BY <1>1 DEF CancelIsLast
  <2>2. \A y \in Actors : Busy(y)' => y = x \/ Busy(y)
    BY DEF Busy
  <2>3. \A n \in cancelled :
            /\ held'[n].state = "gone"
            /\ \A y \in Actors : Busy(y)' => work'[y].msg # n
    BY <1>1, <2>1, <2>2 DEF CancelIsLast, HeldTypes, Busy
  <2>4. CASE cancelled' = cancelled
    BY <2>3, <2>4 DEF CancelIsLast
  <2>5. CASE cancelled' = cancelled \cup {m} /\ held'[m].state = "gone"
             /\ work'[x].pc = "idle"
    <3>1. \A y \in Actors : Busy(y)' => work'[y].msg # m
      BY <1>2, <2>5 DEF Busy
    <3> QED
      BY <2>3, <2>5, <3>1 DEF CancelIsLast
  <2> QED
    BY <2>4, <2>5
<1>7. ComposedOnce'
  BY <1>1 DEF ComposedOnce
<1>8. NothingVanishes'
  <2> SUFFICES ASSUME NEW n \in Messages, held'[n].state = "gone"
               PROVE  composed'[n] > 0 \/ drafts'[n] > 0 \/ n \in removed'
    BY DEF NothingVanishes
  <2>1. CASE n # m
    BY <1>1, <2>1 DEF NothingVanishes
  <2>2. CASE n = m
    <3>1. composed[m] > 0 \/ drafts[m] > 0 \/ m \in removed
      BY <1>1, <1>2, <2>2 DEF NothingVanishes
    <3>2. /\ composed[m] \in Nat /\ composed'[m] \in Nat
          /\ drafts[m] \in Nat /\ drafts'[m] \in Nat
      BY <1>1, <1>2 DEF HeldTypes
    <3> QED
      BY <2>2, <3>1, <3>2
  <2> QED
    BY <2>1, <2>2
<1> QED
  BY <1>3, <1>4, <1>5, <1>6, <1>7, <1>8 DEF HeldInv

(* What the claimed row may be left as, and how a claim ends.              *)
LEMMA SettleFacts ==
    ASSUME HeldInv, NEW x \in Actors, Busy(x),
           NEW state \in {"failed", "gone"},
           Settle(x, state) \/ LoseSettle(x)
    PROVE  /\ held' \in [Messages -> [state: HeldStates, due: BOOLEAN]]
           /\ work' \in [Actors -> [pc: WorkStates, msg: Messages \cup {"none"}]]
           /\ \A y \in Actors : y # x => work'[y] = work[y]
           /\ work'[x].pc = "idle"
           /\ \A n \in Messages : n # work[x].msg => held'[n].state = held[n].state
           /\ held'[work[x].msg].state \in {held[work[x].msg].state, state}
           /\ Settle(x, state) =>
                  held'[work[x].msg].state \in {"gone", state}
           /\ UNCHANGED lost \/ LoseStatement
<1>1. HeldTypes /\ work[x].msg \in Messages
  BY DEF HeldInv, ClaimIsLock
<1>2. work' = [work EXCEPT ![x] = NoWork]
  BY DEF Settle, LoseSettle, Stop
<1>3. CASE Settle(x, state)
  <2>1. held' = [held EXCEPT ![work[x].msg].state = IF @ = "gone" THEN @ ELSE state]
    BY <1>3 DEF Settle
  <2> QED
    BY <1>1, <1>2, <1>3, <2>1 DEF HeldTypes, HeldStates, WorkStates, NoWork, Settle
<1>4. CASE LoseSettle(x) /\ ~Settle(x, state)
  BY <1>1, <1>2, <1>4 DEF HeldTypes, WorkStates, NoWork, LoseSettle
<1> QED
  BY <1>3, <1>4

LEMMA WorkStepKeeps ==
    ASSUME QueueInv, HeldInv, NEW x \in Actors, WorkStep(x)
    PROVE  QueueInv' /\ HeldInv'
<1> DEFINE m == work[x].msg
<1>0. /\ HeldTypes /\ ClaimIsLock /\ ComposeIsOwed /\ DeleteIsEarned
      /\ ComposedOnce /\ kicked \subseteq Passes
  BY DEF HeldInv, QueueInv, QueueTypes
<1>1. ASSUME Busy(x)
      PROVE  /\ m \in Messages
             /\ held[m].state \in {"sending", "cancelling", "gone"}
             /\ composed[m] \in Nat /\ drafts[m] \in Nat /\ again[m] \in Nat
             /\ composed[m] <= 1 + again[m]
             /\ work[x].pc = "read" => composed[m] <= again[m]
             /\ work[x].pc = "sent" => composed[m] > 0
             /\ work[x].pc = "filed" => drafts[m] > 0
  BY <1>0, <1>1 DEF ClaimIsLock, ComposeIsOwed, DeleteIsEarned, ComposedOnce, HeldTypes
<1>2. CASE ReadHeld(x)
  <2>1. Busy(x) /\ work[x].pc = "claimed"
    BY <1>2 DEF ReadHeld, Busy
  <2>2. /\ UNCHANGED <<open, queue, pass, kicked, handed, resends, held, listed,
                       composed, drafts, again, removed, cancelled, choices,
                       crashes>>
        /\ UNCHANGED lost \/ LoseStatement
        /\ Go(x, "read") \/ Stop(x)
    BY <1>2 DEF ReadHeld
  <2>3. /\ work' \in [Actors -> [pc: WorkStates, msg: Messages \cup {"none"}]]
        /\ \A y \in Actors : y # x => work'[y] = work[y]
        /\ work'[x].pc = "idle" \/ work'[x] = [pc |-> "read", msg |-> m]
    BY <1>0, <2>2 DEF HeldTypes, Go, Stop, NoWork, WorkStates
  <2>4. HeldTypes'
    BY <1>0, <2>2, <2>3 DEF HeldTypes
  <2>5. composed[m] <= again[m]
    BY <1>0, <2>1 DEF ComposeIsOwed
  <2>6. HeldInv'
    BY <1>1, <2>1, <2>2, <2>3, <2>4, <2>5, WorkKeeps
  <2>7. QueueInv'
    BY <1>0, <2>2, HeldKeepsQueue
  <2> QED
    BY <2>6, <2>7
<1>3. CASE Compose(x)
  <2>1. Busy(x) /\ work[x].pc = "read"
    BY <1>3 DEF Compose, Busy
  <2>2. /\ UNCHANGED <<open, pass, kicked, handed, resends, lost, held, listed,
                       drafts, again, removed, cancelled, choices, crashes>>
        /\ \/ Go(x, "failing") /\ UNCHANGED composed
           \/ /\ Go(x, "failing") \/ Go(x, "sent")
              /\ composed' = [composed EXCEPT ![m] = @ + 1]
    BY <1>3, Zenon DEF Compose
  <2>3. /\ work' \in [Actors -> [pc: WorkStates, msg: Messages \cup {"none"}]]
        /\ \A y \in Actors : y # x => work'[y] = work[y]
        /\ work'[x].msg = m /\ work'[x].pc \in {"failing", "sent"}
        /\ work'[x].pc = "sent" => composed' = [composed EXCEPT ![m] = @ + 1]
    BY <1>0, <2>2 DEF HeldTypes, Go, WorkStates
  <2>4. /\ composed' \in [Messages -> Nat]
        /\ \A n \in Messages : n # m => composed'[n] = composed[n]
        /\ composed'[m] \in {composed[m], composed[m] + 1}
        /\ work'[x].pc = "sent" => composed'[m] = composed[m] + 1
    BY <1>0, <1>1, <2>1, <2>2, <2>3 DEF HeldTypes
  <2>5. HeldTypes'
    BY <1>0, <2>2, <2>3, <2>4 DEF HeldTypes
  <2>6. HeldInv'
    <3>1. composed'[m] >= composed[m] /\ composed'[m] <= 1 + again[m]
          /\ (work'[x].pc = "sent" => composed'[m] > 0)
      BY <1>1, <2>1, <2>4
    <3> QED
      BY <1>1, <2>1, <2>2, <2>3, <2>4, <2>5, <3>1, WorkKeeps
  <2>7. \/ queue' = queue
        \/ Len(queue) < MaxRows /\ queue' = Append(queue, NewRow)
    BY <1>3, Zenon DEF Compose
  <2>8. QueueInv'
    BY <1>0, <2>2, <2>7, HeldKeepsQueue
  <2> QED
    BY <2>6, <2>8
<1>4. CASE FileDraft(x)
  <2>1. Busy(x) /\ work[x].pc = "filing"
    BY <1>4 DEF FileDraft, Busy
  <2>2. /\ UNCHANGED <<mailVars, open, held, listed, composed, again, removed,
                       cancelled, choices, crashes>>
        /\ \/ Go(x, "filed") /\ drafts' = [drafts EXCEPT ![m] = @ + 1]
           \/ Go(x, "failing") /\ UNCHANGED drafts
    BY <1>4 DEF FileDraft
  <2>3. /\ work' \in [Actors -> [pc: WorkStates, msg: Messages \cup {"none"}]]
        /\ \A y \in Actors : y # x => work'[y] = work[y]
        /\ work'[x].msg = m /\ work'[x].pc \in {"failing", "filed"}
        /\ work'[x].pc = "filed" => drafts' = [drafts EXCEPT ![m] = @ + 1]
    BY <1>0, <2>2 DEF HeldTypes, Go, WorkStates
  <2>4. /\ drafts' \in [Messages -> Nat]
        /\ \A n \in Messages : n # m => drafts'[n] = drafts[n]
        /\ drafts'[m] >= drafts[m]
        /\ work'[x].pc = "filed" => drafts'[m] > 0
    BY <1>0, <1>1, <2>1, <2>2, <2>3 DEF HeldTypes
  <2>5. HeldTypes'
    BY <1>0, <2>2, <2>3, <2>4 DEF HeldTypes
  <2>6. HeldInv'
    BY <1>1, <2>1, <2>2, <2>3, <2>4, <2>5, WorkKeeps
  <2>7. QueueInv'
    BY <1>0, <2>2, HeldKeepsQueue DEF mailVars
  <2> QED
    BY <2>6, <2>7
<1>5. CASE Fail(x)
  <2>1. Busy(x) /\ work[x].pc = "failing"
    BY <1>5 DEF Fail, Busy
  <2>2. /\ UNCHANGED <<open, queue, pass, kicked, handed, resends, listed, composed,
                       drafts, again, removed, cancelled, choices, crashes>>
        /\ Settle(x, "failed") \/ LoseSettle(x)
    BY <1>5 DEF Fail
  <2>3. /\ held' \in [Messages -> [state: HeldStates, due: BOOLEAN]]
        /\ work' \in [Actors -> [pc: WorkStates, msg: Messages \cup {"none"}]]
        /\ \A y \in Actors : y # x => work'[y] = work[y]
        /\ work'[x].pc = "idle"
        /\ \A n \in Messages : n # m => held'[n].state = held[n].state
        /\ held'[m].state \in {held[m].state, "failed"}
        /\ UNCHANGED lost \/ LoseStatement
    BY <2>1, <2>2, SettleFacts
  <2>4. HeldTypes'
    BY <1>0, <2>2, <2>3 DEF HeldTypes
  <2>5. HeldInv'
    BY <1>1, <2>1, <2>2, <2>3, <2>4, WorkKeeps
  <2>6. QueueInv'
    BY <1>0, <2>2, <2>3, HeldKeepsQueue
  <2> QED
    BY <2>5, <2>6
<1>6. CASE DeleteSent(x)
  <2>1. Busy(x) /\ work[x].pc = "sent"
    BY <1>6 DEF DeleteSent, Busy
  <2>2. /\ UNCHANGED <<open, queue, pass, handed, resends, listed, composed,
                       drafts, again, removed, cancelled, choices, crashes>>
        /\ Settle(x, "gone") \/ LoseSettle(x)
        /\ kicked' \subseteq Passes
    BY <1>0, <1>6 DEF DeleteSent, Passes
  <2>3. /\ held' \in [Messages -> [state: HeldStates, due: BOOLEAN]]
        /\ work' \in [Actors -> [pc: WorkStates, msg: Messages \cup {"none"}]]
        /\ \A y \in Actors : y # x => work'[y] = work[y]
        /\ work'[x].pc = "idle"
        /\ \A n \in Messages : n # m => held'[n].state = held[n].state
        /\ held'[m].state \in {held[m].state, "gone"}
        /\ UNCHANGED lost \/ LoseStatement
    BY <2>1, <2>2, SettleFacts
  <2>4. HeldTypes'
    BY <1>0, <2>2, <2>3 DEF HeldTypes
  <2>5. HeldInv'
    BY <1>1, <2>1, <2>2, <2>3, <2>4, WorkKeeps
  <2>6. QueueInv'
    BY <1>0, <2>2, <2>3, HeldKeepsQueue
  <2> QED
    BY <2>5, <2>6
<1>7. CASE DeleteFiled(x)
  <2>1. Busy(x) /\ work[x].pc = "filed"
    BY <1>7 DEF DeleteFiled, Busy
  <2>2. /\ UNCHANGED <<open, queue, pass, kicked, handed, resends, listed,
                       composed, drafts, again, removed, choices, crashes>>
        /\ \/ Settle(x, "gone") /\ cancelled' = cancelled \cup {m}
           \/ LoseSettle(x) /\ UNCHANGED cancelled
    BY <1>7 DEF DeleteFiled
  <2>3. /\ held' \in [Messages -> [state: HeldStates, due: BOOLEAN]]
        /\ work' \in [Actors -> [pc: WorkStates, msg: Messages \cup {"none"}]]
        /\ \A y \in Actors : y # x => work'[y] = work[y]
        /\ work'[x].pc = "idle"
        /\ \A n \in Messages : n # m => held'[n].state = held[n].state
        /\ held'[m].state \in {held[m].state, "gone"}
        /\ Settle(x, "gone") => held'[m].state = "gone"
        /\ UNCHANGED lost \/ LoseStatement
    BY <2>1, <2>2, SettleFacts
  <2>4. HeldTypes'
    BY <1>0, <1>1, <2>1, <2>2, <2>3 DEF HeldTypes
  <2>5. HeldInv'
    BY <1>1, <2>1, <2>2, <2>3, <2>4, WorkKeeps
  <2>6. QueueInv'
    BY <1>0, <2>2, <2>3, HeldKeepsQueue
  <2> QED
    BY <2>5, <2>6
<1> QED
  BY <1>2, <1>3, <1>4, <1>5, <1>6, <1>7 DEF WorkStep

(* The steps that take no claim and end none.                              *)
LEMMA RowKeeps ==
    ASSUME QueueInv, HeldInv, NEW m \in Messages,
           Schedule(m) \/ ComesDue(m) \/ RemoveAccount(m)
    PROVE  QueueInv' /\ HeldInv'
<1>0. /\ HeldTypes /\ ClaimIsLock /\ ComposeIsOwed /\ DeleteIsEarned
      /\ CancelIsLast /\ ComposedOnce /\ NothingVanishes /\ kicked \subseteq Passes
  BY DEF HeldInv, QueueInv, QueueTypes
<1>1. /\ UNCHANGED mailVars
      /\ UNCHANGED <<open, listed, work, composed, drafts, again, cancelled,
                     choices, crashes>>
  BY DEF Schedule, ComesDue, RemoveAccount
<1>2. /\ held' \in [Messages -> [state: HeldStates, due: BOOLEAN]]
      /\ \A n \in Messages : n # m => held'[n] = held[n]
      /\ \/ held[m].state = "none" /\ held'[m].state = "waiting"
         \/ held[m].state = "waiting" /\ held'[m].state = "waiting"
         \/ /\ held[m].state \notin {"none", "gone"}
            /\ held'[m].state = "gone" /\ m \in removed'
      /\ removed \subseteq removed' /\ removed' \subseteq Messages
  <2>1. CASE Schedule(m)
    BY <1>0, <2>1 DEF Schedule, HeldTypes, HeldStates
  <2>2. CASE ComesDue(m)
    BY <1>0, <2>2 DEF ComesDue, HeldTypes, HeldStates
  <2>3. CASE RemoveAccount(m)
    BY <1>0, <2>3 DEF RemoveAccount, HeldTypes, HeldStates
  <2> QED
    BY <2>1, <2>2, <2>3
<1>3. HeldTypes'
  BY <1>0, <1>1, <1>2 DEF HeldTypes
<1>4. ClaimIsLock'
  <2>1. \A x \in Actors : Busy(x) =>
            held'[work[x].msg].state \in {"sending", "cancelling", "gone"}
    BY <1>0, <1>2 DEF ClaimIsLock
  <2> QED
    BY <1>0, <1>1, <2>1 DEF ClaimIsLock, Busy
<1>5. ComposeIsOwed'
  BY <1>0, <1>1, <1>2 DEF ComposeIsOwed
<1>6. DeleteIsEarned' /\ CancelIsLast'
  <2>1. \A n \in cancelled : n # m \/ held'[m].state = "gone"
    BY <1>0, <1>2 DEF CancelIsLast
  <2>2. \A n \in cancelled : n \in Messages
    BY <1>0 DEF HeldTypes
  <2> QED
    BY <1>0, <1>1, <1>2, <2>1, <2>2 DEF DeleteIsEarned, CancelIsLast, Busy
<1>7. ComposedOnce' /\ NothingVanishes'
  BY <1>0, <1>1, <1>2 DEF ComposedOnce, NothingVanishes
<1>8. QueueInv'
  BY <1>0, <1>1, HeldKeepsQueue DEF mailVars
<1> QED
  BY <1>3, <1>4, <1>5, <1>6, <1>7, <1>8 DEF HeldInv

LEMMA SweepKeeps ==
    ASSUME QueueInv, HeldInv, Sweep \/ \E m \in Messages : SweepNext(m)
    PROVE  QueueInv' /\ HeldInv'
<1>0. /\ HeldTypes /\ ClaimIsLock /\ ComposeIsOwed /\ DeleteIsEarned
      /\ CancelIsLast /\ ComposedOnce /\ NothingVanishes /\ kicked \subseteq Passes
  BY DEF HeldInv, QueueInv, QueueTypes
<1>1. ASSUME UNCHANGED <<open, held, work, composed, drafts, again, removed,
                         cancelled, choices, crashes>>,
             listed' \subseteq Messages, open \/ listed' \subseteq listed
      PROVE  HeldInv'
  <2>1. HeldTypes' /\ ClaimIsLock'
    BY <1>0, <1>1 DEF HeldTypes, ClaimIsLock, Busy
  <2>2. ComposeIsOwed' /\ DeleteIsEarned' /\ CancelIsLast'
    BY <1>0, <1>1 DEF ComposeIsOwed, DeleteIsEarned, CancelIsLast, Busy
  <2> QED
    BY <1>0, <1>1, <2>1, <2>2 DEF HeldInv, ComposedOnce, NothingVanishes
<1>2. CASE Sweep
  <2>1. HeldInv'
    BY <1>1, <1>2 DEF Sweep, Due
  <2>2. QueueInv'
    BY <1>0, <1>2, HeldKeepsQueue DEF Sweep, mailVars
  <2> QED
    BY <2>1, <2>2
<1>3. ASSUME NEW m \in Messages, SweepNext(m) PROVE QueueInv' /\ HeldInv'
  <2>1. /\ work["sweep"] = NoWork /\ m \in listed
        /\ listed' \subseteq listed /\ listed' \subseteq Messages
        /\ UNCHANGED <<open, queue, pass, kicked, handed, resends, composed,
                       drafts, again, removed, cancelled, choices, crashes>>
        /\ UNCHANGED lost \/ LoseStatement
        /\ \/ Claim(m, {"waiting"}) /\ Claimed("sweep", m, "sending", "claimed")
           \/ UNCHANGED <<held, work>>
    BY <1>0, <1>3 DEF SweepNext, HeldTypes
  <2>2. choices' \in 0..MaxChoices
    BY <1>0, <2>1 DEF HeldTypes
  <2>3. HeldInv'
    <3>1. CASE Claim(m, {"waiting"}) /\ Claimed("sweep", m, "sending", "claimed")
      BY <2>1, <2>2, <3>1, SweepActs, ClaimKeeps
    <3>2. CASE UNCHANGED <<held, work>>
      BY <1>1, <2>1, <3>2
    <3> QED
      BY <2>1, <3>1, <3>2
  <2>4. QueueInv'
    BY <1>0, <2>1, HeldKeepsQueue
  <2> QED
    BY <2>3, <2>4
<1> QED
  BY <1>2, <1>3

LEMMA SenderKeeps ==
    ASSUME QueueInv, HeldInv, NEW x \in Senders, NEW m \in Messages,
           SendNow(x, m) \/ Cancel(x, m)
    PROVE  QueueInv' /\ HeldInv'
<1>0. HeldTypes /\ kicked \subseteq Passes /\ x \in Actors
  BY SweepActs DEF HeldInv, QueueInv, QueueTypes
<1>1. /\ open /\ work[x] = NoWork
      /\ choices < MaxChoices /\ choices' = choices + 1
      /\ Claim(m, {"waiting", "failed"})
      /\ UNCHANGED mailVars
      /\ UNCHANGED <<open, listed, composed, drafts, removed, cancelled, crashes>>
  BY DEF SendNow, Cancel, Choose
<1>2. choices' \in 0..MaxChoices
  BY <1>0, <1>1, ScheduledBounds DEF HeldTypes
<1>3. QueueInv'
  BY <1>0, <1>1, HeldKeepsQueue DEF mailVars
<1>4. CASE SendNow(x, m)
  <2>1. /\ Claimed(x, m, "sending", "claimed")
        /\ again' = IF held[m].state = "failed"
                    THEN [again EXCEPT ![m] = @ + 1] ELSE again
    BY <1>4 DEF SendNow
  <2> QED
    BY <1>0, <1>1, <1>2, <1>3, <2>1, ClaimKeeps
<1>5. CASE Cancel(x, m)
  <2>1. Claimed(x, m, "cancelling", "filing") /\ UNCHANGED again
    BY <1>5 DEF Cancel
  <2> QED
    BY <1>0, <1>1, <1>2, <1>3, <2>1, ClaimKeeps
<1> QED
  BY <1>4, <1>5

LEMMA RestartKeeps ==
    ASSUME QueueInv, HeldInv, Crash \/ OpenAccounts
    PROVE  QueueInv' /\ HeldInv'
<1>0. /\ HeldTypes /\ ClaimIsLock /\ ComposeIsOwed /\ DeleteIsEarned
      /\ CancelIsLast /\ ComposedOnce /\ NothingVanishes /\ kicked \subseteq Passes
  BY DEF HeldInv, QueueInv, QueueTypes
<1>1. CASE Crash
  <2>1. /\ crashes' = crashes + 1 /\ crashes < MaxCrashes
        /\ open' = FALSE /\ listed' = {} /\ kicked' = {}
        /\ pass' = [p \in Passes |-> Idle]
        /\ work' = [x \in Actors |-> NoWork]
        /\ UNCHANGED <<queue, handed, resends, lost, held, composed, drafts,
                       again, removed, cancelled, choices>>
    BY <1>1 DEF Crash
  <2>2. HeldTypes'
    <3>1. work' \in [Actors -> [pc: WorkStates, msg: Messages \cup {"none"}]]
      BY <2>1 DEF NoWork, WorkStates
    <3>2. crashes' \in 0..MaxCrashes
      BY <1>0, <2>1, ScheduledBounds DEF HeldTypes
    <3> QED
      BY <1>0, <2>1, <3>1, <3>2 DEF HeldTypes
  <2>3. ClaimIsLock' /\ ComposeIsOwed' /\ DeleteIsEarned' /\ CancelIsLast'
    BY <1>0, <2>1
       DEF ClaimIsLock, ComposeIsOwed, DeleteIsEarned, CancelIsLast, Busy, NoWork
  <2>4. ComposedOnce' /\ NothingVanishes'
    BY <1>0, <2>1 DEF ComposedOnce, NothingVanishes
  <2>5. QueueInv'
    BY <2>1, HeldKeepsQueue
  <2> QED
    BY <2>2, <2>3, <2>4, <2>5 DEF HeldInv
<1>2. CASE OpenAccounts
  <2>1. /\ ~open /\ open' = TRUE
        /\ held' = FailInterrupted \/ held' = held
        /\ UNCHANGED lost \/ LoseStatement
        /\ UNCHANGED <<queue, pass, kicked, handed, resends, listed, work,
                       composed, drafts, again, removed, cancelled, choices,
                       crashes>>
    BY <1>2 DEF OpenAccounts
  <2>2. /\ held' \in [Messages -> [state: HeldStates, due: BOOLEAN]]
        /\ \A m \in Messages :
               \/ held'[m].state = held[m].state
               \/ /\ held'[m].state = "failed"
                  /\ held[m].state \in {"sending", "cancelling"}
    BY <1>0, <2>1 DEF FailInterrupted, HeldTypes, HeldStates
  <2>3. HeldTypes'
    BY <1>0, <2>1, <2>2 DEF HeldTypes
  <2>4. ClaimIsLock'
    BY <1>0, <2>1 DEF ClaimIsLock, Busy
  <2>5. ComposeIsOwed' /\ DeleteIsEarned'
    BY <1>0, <2>1, <2>2 DEF ComposeIsOwed, DeleteIsEarned
  <2>6. CancelIsLast'
    BY <1>0, <2>1, <2>2 DEF CancelIsLast, HeldTypes, Busy
  <2>7. ComposedOnce' /\ NothingVanishes'
    BY <1>0, <2>1, <2>2 DEF ComposedOnce, NothingVanishes
  <2>8. QueueInv'
    BY <1>0, <2>1, HeldKeepsQueue
  <2> QED
    BY <2>3, <2>4, <2>5, <2>6, <2>7, <2>8 DEF HeldInv
<1> QED
  BY <1>1, <1>2

LEMMA QueueStepKeepsHeld ==
    ASSUME HeldInv, UNCHANGED heldVars
    PROVE  HeldInv'
<1>1. UNCHANGED <<open, held, listed, work, composed, drafts, again, removed,
                  cancelled, choices, crashes>>
  BY DEF heldVars
<1>2. HeldTypes' /\ ClaimIsLock'
  BY <1>1 DEF HeldInv, HeldTypes, ClaimIsLock, Busy
<1>3. ComposeIsOwed' /\ DeleteIsEarned' /\ CancelIsLast'
  BY <1>1 DEF HeldInv, ComposeIsOwed, DeleteIsEarned, CancelIsLast, Busy
<1> QED
  BY <1>1, <1>2, <1>3 DEF HeldInv, ComposedOnce, NothingVanishes

-----------------------------------------------------------------------------
(* The invariant of the whole, and what follows from it.                   *)

MailInv == QueueInv /\ HeldInv

LEMMA MailStart == Init => MailInv
  BY QueueStart, HeldStart DEF Init, MailInv

LEMMA MailStep == MailInv /\ [Next]_vars => MailInv'
<1> SUFFICES ASSUME QueueInv, HeldInv, [Next]_vars PROVE QueueInv' /\ HeldInv'
  BY DEF MailInv
<1>1. CASE WorkerStep
  BY <1>1, PassKeepsQueue, QueueStepKeepsHeld DEF WorkerStep, Passes
<1>2. CASE SweepStep
  <2>1. ASSUME PassStep("sweep"), UNCHANGED heldVars PROVE QueueInv' /\ HeldInv'
    BY <2>1, PassKeepsQueue, QueueStepKeepsHeld DEF Passes
  <2> QED
    BY <1>2, <2>1, SweepKeeps, WorkStepKeeps, SweepActs DEF SweepStep
<1>3. CASE OpenAccounts \/ Crash
  BY <1>3, RestartKeeps
<1>4. CASE (FallDue \/ Outbox) /\ UNCHANGED heldVars
  BY <1>4, OutboxKeepsQueue, QueueStepKeepsHeld
<1>5. CASE PassStep("kick") /\ UNCHANGED heldVars
  BY <1>5, PassKeepsQueue, QueueStepKeepsHeld DEF Passes
<1>6. CASE \E m \in Messages : Schedule(m) \/ ComesDue(m) \/ RemoveAccount(m)
  BY <1>6, RowKeeps
<1>7. ASSUME NEW x \in Senders,
             WorkStep(x) \/ \E m \in Messages : SendNow(x, m) \/ Cancel(x, m)
      PROVE  QueueInv' /\ HeldInv'
  BY <1>7, WorkStepKeeps, SenderKeeps, SweepActs
<1>8. CASE UNCHANGED vars
  <2>1. UNCHANGED mailVars /\ UNCHANGED heldVars
    BY <1>8 DEF vars
  <2>2. kicked \subseteq Passes
    BY DEF QueueInv, QueueTypes
  <2> QED
    BY <2>1, <2>2, HeldKeepsQueue, QueueStepKeepsHeld DEF mailVars
<1> QED
  BY <1>1, <1>2, <1>3, <1>4, <1>5, <1>6, <1>7, <1>8 DEF Next

LEMMA MailSafe == Spec => []MailInv
  BY MailStart, MailStep, PTL DEF Spec

(* The tables, the passes and the actors of scheduled mail are well typed    *)
(* for any number of messages, requests, rows and crashes.                   *)
THEOREM MailTypes == Spec => []TypeOK
<1>1. MailInv => TypeOK
  BY TypeHalves DEF MailInv, QueueInv, HeldInv
<1> QED
  BY <1>1, MailSafe, PTL

(* A held message is composed once for each choice of its sender, whatever   *)
(* the sweep, the requests, the removal of accounts and crashes do           *)
(* (claimScheduled, failInterruptedScheduled).                               *)
THEOREM MailComposedOnce == Spec => []ComposedOnce
<1>1. MailInv => ComposedOnce
  BY DEF MailInv, HeldInv
<1> QED
  BY <1>1, MailSafe, PTL

(* A row leaves the schedule only for Sent or the queue, for Drafts or with  *)
(* its account (sendClaimed, CancelScheduled).                               *)
THEOREM MailNothingVanishes == Spec => []NothingVanishes
<1>1. MailInv => NothingVanishes
  BY DEF MailInv, HeldInv
<1> QED
  BY <1>1, MailSafe, PTL

(* However many passes overlap, a row that says delivered was taken by a     *)
(* receiving server (ProcessDue).                                            *)
THEOREM MailDeliveredWasHanded == Spec => []DeliveredWasHanded
<1>1. MailInv => DeliveredWasHanded
  BY DEF MailInv, QueueInv
<1> QED
  BY <1>1, MailSafe, PTL

(* A message whose Cancel was answered is not composed again afterwards      *)
(* (CancelScheduled).                                                        *)
THEOREM MailCancelledStaysBack == Spec => CancelledStaysBack
<1>1. MailInv /\ [Next]_vars => [\A m \in cancelled : composed'[m] = composed[m]]_vars
  <2> SUFFICES ASSUME HeldInv, Next, NEW m \in cancelled
               PROVE  composed'[m] = composed[m]
    BY DEF MailInv
  <2>1. ASSUME NEW x \in Actors, Compose(x) PROVE composed'[m] = composed[m]
    <3>1. /\ HeldTypes /\ Busy(x)
          /\ \/ UNCHANGED composed
             \/ composed' = [composed EXCEPT ![work[x].msg] = @ + 1]
      BY <2>1 DEF Compose, Busy, HeldInv
    <3>2. work[x].msg # m
      BY <3>1 DEF HeldInv, CancelIsLast
    <3> QED
      BY <3>1, <3>2 DEF HeldTypes
  <2>2. ASSUME NEW x \in Actors, WorkStep(x) PROVE composed'[m] = composed[m]
    BY <2>1, <2>2
       DEF WorkStep, ReadHeld, FileDraft, Fail, DeleteSent, DeleteFiled
  <2>3. ASSUME UNCHANGED heldVars PROVE composed'[m] = composed[m]
    BY <2>3 DEF heldVars
  <2>4. CASE SweepStep
    BY <2>2, <2>3, <2>4, SweepActs DEF SweepStep, Sweep, SweepNext
  <2>5. CASE OpenAccounts \/ Crash
    BY <2>5 DEF OpenAccounts, Crash
  <2>6. CASE \E n \in Messages : Schedule(n) \/ ComesDue(n) \/ RemoveAccount(n)
    BY <2>6 DEF Schedule, ComesDue, RemoveAccount
  <2>7. ASSUME NEW x \in Senders,
               WorkStep(x) \/ \E n \in Messages : SendNow(x, n) \/ Cancel(x, n)
        PROVE  composed'[m] = composed[m]
    BY <2>2, <2>7, SweepActs DEF SendNow, Cancel
  <2> QED
    BY <2>3, <2>4, <2>5, <2>6, <2>7 DEF Next, WorkerStep
<1> QED
  BY <1>1, MailSafe, PTL DEF Spec, CancelledStaysBack
=============================================================================

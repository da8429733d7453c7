-------------------------- MODULE WriteQueueProofs --------------------------
(***************************************************************************)
(* Machine-checked facts about WriteQueue, for any number of workers,      *)
(* producers and slugs, any limits and any bounds; and, at the end, about  *)
(* WriteQueueRefusal, how far a refusal of content writes reaches.         *)
(***************************************************************************)
EXTENDS WriteQueueRefusal, SequenceTheorems, FiniteSetTheorems, TLAPS

(* Every row that exists carries a request, and whatever a worker holds or *)
(* a replay sweep has read is a row that exists.                           *)
RowsKnown ==
    /\ \A j \in Jobs : status[j] # "absent" => job[j] \in Requests
    /\ \A w \in Workers : pc[w] # "idle" =>
          held[w] \in Jobs /\ status[held[w]] # "absent"
    /\ \A j \in sweep.quarantine : status[j] # "absent"

TypeInv == QueueTypeOK /\ RowsKnown

(* The fields of a request.                                                *)
LEMMA RequestFields ==
    ASSUME NEW r \in Requests
    PROVE  /\ r.op \in {"insert", "update", "delete", "other"}
           /\ r.slug \in Slugs
           /\ r.kind \in Kinds
  BY DEF Requests, Kinds

(* The transaction leaves a well-formed row, or none.                      *)
LEMMA AppliedType ==
    ASSUME QueueTypeOK, NEW r \in Requests, r.op # "other", NEW j \in Jobs
    PROVE  Applied(r, j) \in Rows \cup {NoRow}
<1>1. r.op \in {"insert", "update", "delete"} /\ r.slug \in Slugs /\ r.kind \in Kinds
  BY RequestFields
<1>2. articles[r.slug] \in Rows \cup {NoRow}
  BY <1>1 DEF QueueTypeOK
<1> QED
  BY <1>1, <1>2 DEF Applied, Rows

(* What a worker that is not idle holds: a row with a request.             *)
LEMMA HeldRow ==
    ASSUME TypeInv, NEW w \in Workers, pc[w] # "idle"
    PROVE  /\ held[w] \in Jobs
           /\ status[held[w]] # "absent"
           /\ job[held[w]] \in Requests
  BY DEF TypeInv, QueueTypeOK, RowsKnown

(* A committing worker appends its two events to the outbox and leaves     *)
(* what was there.                                                         *)
LEMMA CommitAppends ==
    ASSUME TypeInv, NEW w \in Workers, Commit(w)
    PROVE  LET j == held[w]
               r == job[j]
               n == Len(outbox)
           IN  /\ outbox' \in Seq(Events)
               /\ n \in Nat
               /\ Len(outbox') = n + 2
               /\ \A i \in 1..n : outbox'[i] = outbox[i]
               /\ outbox'[n + 1] = [type |-> EventType(r.op), slug |-> r.slug,
                                    job |-> j]
               /\ outbox'[n + 2] = [type |-> "cache.invalidated",
                                    slug |-> r.slug, job |-> j]
<1> DEFINE j == held[w]
           r == job[j]
           n == Len(outbox)
           a == [type |-> EventType(r.op), slug |-> r.slug, job |-> j]
           c == [type |-> "cache.invalidated", slug |-> r.slug, job |-> j]
           q == Append(outbox, a)
<1>1. j \in Jobs /\ r \in Requests /\ r.op # "other"
  BY HeldRow DEF Commit
<1>2. a \in Events /\ c \in Events
  BY <1>1, RequestFields DEF Events, EventType
<1>3. outbox \in Seq(Events) /\ n \in Nat
  BY LenProperties DEF TypeInv, QueueTypeOK
<1>4. outbox' = Append(q, c)
  BY DEF Commit, writeOutboxEvent
<1> HIDE DEF a, c, j, r
<1>5. /\ q \in Seq(Events)
      /\ Len(q) = n + 1
      /\ \A i \in 1..n : q[i] = outbox[i]
      /\ q[n + 1] = a
  BY <1>2, <1>3, AppendProperties
<1> HIDE DEF q
<1>6. /\ Append(q, c) \in Seq(Events)
      /\ Len(Append(q, c)) = n + 2
      /\ \A i \in 1..(n + 1) : Append(q, c)[i] = q[i]
      /\ Append(q, c)[n + 2] = c
  BY <1>2, <1>3, <1>5, AppendProperties
<1>7. /\ \A i \in 1..n : Append(q, c)[i] = outbox[i]
      /\ Append(q, c)[n + 1] = a
  BY <1>3, <1>5, <1>6
<1> QED
  BY <1>3, <1>4, <1>6, <1>7 DEF a, c, j, r

-----------------------------------------------------------------------------
(* The initial state is well typed.                                        *)
LEMMA TypeInit == Init => TypeInv
<1> SUFFICES ASSUME Init PROVE TypeInv
  OBVIOUS
<1>1. QueueTypeOK
  <2>1. outbox \in Seq(Events)
    BY EmptySeq DEF Init
  <2>2. sweep \in [quarantine : SUBSET Jobs, replay : SUBSET Jobs]
    BY DEF Init
  <2>3. /\ status \in [Jobs -> Statuses]
        /\ pc \in [Workers -> Labels]
    BY DEF Init, Statuses, Labels
  <2>4. /\ age \in [Jobs -> 0..2]
        /\ held \in [Workers -> 0..MaxJobs]
    BY WorkBounds DEF Init
  <2> QED
    BY <2>1, <2>2, <2>3, <2>4 DEF Init, QueueTypeOK
<1>2. RowsKnown
  BY DEF Init, RowsKnown
<1> QED
  BY <1>1, <1>2 DEF TypeInv

(* A step that neither adds nor removes rows, and a step after which no    *)
(* worker holds a row it did not hold before.                              *)
RowsStay ==
    /\ status' \in [Jobs -> Statuses]
    /\ \A i \in Jobs : status'[i] = "absent" <=> status[i] = "absent"

HoldsNothingNew ==
    /\ pc' \in [Workers -> Labels]
    /\ held' \in [Workers -> 0..MaxJobs]
    /\ \A w \in Workers : pc'[w] # "idle" => pc[w] # "idle" /\ held'[w] = held[w]

(* Such steps leave every held and every swept row known.                  *)
LEMMA RowsStayKnown ==
    ASSUME TypeInv, RowsStay, HoldsNothingNew, UNCHANGED job,
           sweep'.quarantine \subseteq sweep.quarantine
    PROVE  RowsKnown'
<1>1. sweep.quarantine \subseteq Jobs
  BY DEF TypeInv, QueueTypeOK
<1>2. \A j \in Jobs : status'[j] # "absent" => job'[j] \in Requests
  BY DEF TypeInv, RowsKnown, RowsStay
<1>3. \A w \in Workers : pc'[w] # "idle" =>
          held'[w] \in Jobs /\ status'[held'[w]] # "absent"
  BY DEF TypeInv, RowsKnown, RowsStay, HoldsNothingNew
<1>4. \A j \in sweep'.quarantine : status'[j] # "absent"
  BY <1>1 DEF TypeInv, RowsKnown, RowsStay
<1> QED
  BY <1>2, <1>3, <1>4 DEF RowsKnown

(* A status update of a row that exists, applied or lost, adds no row.     *)
LEMMA SetStatusStays ==
    ASSUME TypeInv, NEW j \in Jobs, status[j] # "absent",
           NEW s \in Statuses \ {"absent"}, SetStatus(j, s)
    PROVE  RowsStay /\ faults' \in Nat
<1>1. status \in [Jobs -> Statuses] /\ faults \in Nat
  BY DEF TypeInv, QueueTypeOK
<1>2. faults' \in Nat
  BY <1>1 DEF SetStatus, Fault
<1>3. CASE status' = status
  BY <1>1, <1>2, <1>3 DEF RowsStay
<1>4. CASE status' = [status EXCEPT ![j] = s]
  BY <1>1, <1>2, <1>4 DEF RowsStay
<1> QED
  BY <1>3, <1>4 DEF SetStatus, WithStatus

(* The statuses the code writes.                                           *)
LEMMA StatusNames ==
    {"pending", "processing", "completed", "dead_letter", "quarantined",
     "pruned"} = Statuses \ {"absent"}
  BY DEF Statuses, Live, Settled

(* A busy worker that moves on, or returns, picks up nothing new.          *)
LEMMA GotoHolds ==
    ASSUME TypeInv, NEW w \in Workers, pc[w] # "idle", NEW l \in Labels,
           Goto(w, l), UNCHANGED held
    PROVE  HoldsNothingNew
  BY DEF TypeInv, QueueTypeOK, HoldsNothingNew, Goto

LEMMA FinishHolds ==
    ASSUME TypeInv, NEW w \in Workers, Finish(w)
    PROVE  HoldsNothingNew
<1>1. 0 \in 0..MaxJobs
  BY WorkBounds
<1> QED
  BY <1>1 DEF TypeInv, QueueTypeOK, HoldsNothingNew, Goto, Finish, Labels

(* A step that leaves the workers alone.                                   *)
LEMMA IdleHolds ==
    ASSUME TypeInv, UNCHANGED <<pc, held>>
    PROVE  HoldsNothingNew
  BY DEF TypeInv, QueueTypeOK, HoldsNothingNew

LEMMA SameRows ==
    ASSUME TypeInv, UNCHANGED status
    PROVE  RowsStay
  BY DEF TypeInv, QueueTypeOK, RowsStay

(* The steps of a worker keep the types and leave every row known.         *)
LEMMA WorkType ==
    ASSUME TypeInv, NEW w \in Workers, Work(w)
    PROVE  TypeInv'
<1> USE DEF jobVars, siteVars, workerVars, bounds
<1>1. CASE Pick(w)
  <2>1. PICK j \in Due : held' = [held EXCEPT ![w] = j]
    BY <1>1 DEF Pick
  <2>2. j \in Jobs /\ j \in 0..MaxJobs /\ status[j] # "absent"
    BY WorkBounds DEF Due, Pending, Jobs
  <2>3. /\ pc' \in [Workers -> Labels]
        /\ held' \in [Workers -> 0..MaxJobs]
    BY <1>1, <2>1, <2>2 DEF Pick, Goto, Labels, TypeInv, QueueTypeOK
  <2>4. \A v \in Workers : pc'[v] # "idle" =>
            held'[v] \in Jobs /\ status[held'[v]] # "absent"
    BY <1>1, <2>1, <2>2 DEF Pick, Goto, TypeInv, QueueTypeOK, RowsKnown
  <2> QED
    BY <1>1, <2>3, <2>4 DEF TypeInv, QueueTypeOK, RowsKnown, Pick
<1>2. CASE Claim(w)
  <2>0. pc[w] # "idle"
    BY <1>2 DEF Claim
  <2>1. HoldsNothingNew
    BY <1>2, <2>0, GotoHolds DEF Claim, Labels
  <2>2. RowsStay /\ faults' \in Nat
    BY <1>2, <2>0, HeldRow, SetStatusStays, StatusNames DEF Claim
  <2>5. RowsKnown'
    BY <1>2, <2>1, <2>2, RowsStayKnown DEF Claim
  <2> QED
    BY <1>2, <2>1, <2>2, <2>5 DEF TypeInv, QueueTypeOK, Claim, RowsStay,
       HoldsNothingNew
<1>3. CASE Reject(w)
  <2>0. pc[w] # "idle"
    BY <1>3 DEF Reject
  <2>1. HoldsNothingNew
    BY <1>3, FinishHolds DEF Reject
  <2>2. RowsStay /\ faults' \in Nat
    BY <1>3, <2>0, HeldRow, SetStatusStays, StatusNames DEF Reject
  <2>5. RowsKnown'
    BY <1>3, <2>1, <2>2, RowsStayKnown DEF Reject
  <2> QED
    BY <1>3, <2>1, <2>2, <2>5 DEF TypeInv, QueueTypeOK, Reject, RowsStay,
       HoldsNothingNew
<1>4. CASE Commit(w)
  <2>0. pc[w] # "idle"
    BY <1>4 DEF Commit
  <2>1. HoldsNothingNew
    BY <1>4, <2>0, GotoHolds DEF Commit, Labels
  <2>2. RowsStay /\ faults' \in Nat
    BY <1>4, SameRows DEF Commit, Fault, TypeInv, QueueTypeOK
  <2>3. outbox' \in Seq(Events)
    BY <1>4, CommitAppends
  <2>4. articles' \in [Slugs -> Rows \cup {NoRow}]
    BY <1>4, <2>0, HeldRow, AppliedType DEF Commit, TypeInv, QueueTypeOK
  <2>5. RowsKnown'
    BY <1>4, <2>1, <2>2, RowsStayKnown DEF Commit
  <2> QED
    BY <1>4, <2>1, <2>2, <2>5, <2>3, <2>4 DEF TypeInv, QueueTypeOK, Commit, RowsStay,
       HoldsNothingNew
<1>5. CASE Rollback(w)
  <2>0. pc[w] # "idle"
    BY <1>5 DEF Rollback
  <2>1. HoldsNothingNew
    BY <1>5, <2>0, GotoHolds DEF Rollback, Labels
  <2>2. RowsStay /\ faults' \in Nat
    BY <1>5, SameRows DEF Rollback, Fault, TypeInv, QueueTypeOK
  <2>5. RowsKnown'
    BY <1>5, <2>1, <2>2, RowsStayKnown DEF Rollback
  <2> QED
    BY <1>5, <2>1, <2>2, <2>5 DEF TypeInv, QueueTypeOK, Rollback, RowsStay,
       HoldsNothingNew
<1>6. CASE ReadRetries(w)
  <2>0. pc[w] # "idle"
    BY <1>6 DEF ReadRetries
  <2>1. HoldsNothingNew
    BY <1>6, <2>0, GotoHolds DEF ReadRetries, Labels
  <2>2. RowsStay /\ faults' \in Nat
    BY <1>6, SameRows DEF ReadRetries, Fault, TypeInv, QueueTypeOK
  <2>5. RowsKnown'
    BY <1>6, <2>1, <2>2, RowsStayKnown DEF ReadRetries
  <2> QED
    BY <1>6, <2>1, <2>2, <2>5 DEF TypeInv, QueueTypeOK, ReadRetries, RowsStay,
       HoldsNothingNew
<1>7. CASE Requeue(w)
  <2>0. pc[w] # "idle"
    BY <1>7 DEF Requeue
  <2>1. HoldsNothingNew
    BY <1>7, FinishHolds DEF Requeue
  <2>2. RowsStay /\ faults' \in Nat
    <3>1. /\ status \in [Jobs -> Statuses]
          /\ faults \in Nat
          /\ held[w] \in Jobs
          /\ status[held[w]] # "absent"
          /\ "pending" \in Statuses
      BY <2>0, HeldRow, StatusNames DEF TypeInv, QueueTypeOK
    <3>2. faults' \in Nat
      BY <1>7, <3>1 DEF Requeue, Fault
    <3>3. CASE status' = status
      BY <3>1, <3>2, <3>3 DEF RowsStay
    <3>4. CASE status' = [status EXCEPT ![held[w]] = "pending"]
      BY <3>1, <3>2, <3>4 DEF RowsStay
    <3> QED
      BY <1>7, <3>3, <3>4 DEF Requeue
  <2>3. /\ retries' \in [Jobs -> Nat]
        /\ waiting' \in SUBSET Jobs
        /\ returned' \in SUBSET Jobs
    <3>1. /\ held[w] \in Jobs
          /\ retries \in [Jobs -> Nat]
          /\ waiting \in SUBSET Jobs
          /\ returned \in SUBSET Jobs
      BY <2>0, HeldRow DEF TypeInv, QueueTypeOK
    <3>2. \/ UNCHANGED <<retries, waiting, returned>>
          \/ /\ retries' = [retries EXCEPT ![held[w]] = @ + 1]
             /\ waiting' = waiting \cup {held[w]}
             /\ returned' = returned \cup {held[w]}
      BY <1>7 DEF Requeue
    <3> QED
      BY <3>1, <3>2
  <2>5. RowsKnown'
    BY <1>7, <2>1, <2>2, RowsStayKnown DEF Requeue
  <2> QED
    BY <1>7, <2>1, <2>2, <2>5, <2>3 DEF TypeInv, QueueTypeOK, Requeue, RowsStay,
       HoldsNothingNew
<1>8. CASE DeadLetter(w)
  <2>0. pc[w] # "idle"
    BY <1>8 DEF DeadLetter
  <2>1. HoldsNothingNew
    BY <1>8, FinishHolds DEF DeadLetter
  <2>2. RowsStay /\ faults' \in Nat
    BY <1>8, <2>0, HeldRow, SetStatusStays, StatusNames DEF DeadLetter
  <2>5. RowsKnown'
    BY <1>8, <2>1, <2>2, RowsStayKnown DEF DeadLetter
  <2> QED
    BY <1>8, <2>1, <2>2, <2>5 DEF TypeInv, QueueTypeOK, DeadLetter, RowsStay,
       HoldsNothingNew
<1>9. CASE ReadRow(w)
  <2>0. pc[w] # "idle"
    BY <1>9 DEF ReadRow
  <2>1. HoldsNothingNew
    BY <1>9, <2>0, GotoHolds DEF ReadRow, Labels
  <2>2. RowsStay /\ faults' \in Nat
    BY <1>9, SameRows DEF ReadRow, Fault, TypeInv, QueueTypeOK
  <2>5. RowsKnown'
    BY <1>9, <2>1, <2>2, RowsStayKnown DEF ReadRow
  <2> QED
    BY <1>9, <2>1, <2>2, <2>5 DEF TypeInv, QueueTypeOK, ReadRow, RowsStay,
       HoldsNothingNew
<1>10. CASE Render(w)
  <2>0. pc[w] # "idle"
    BY <1>10 DEF Render
  <2>1. HoldsNothingNew
    BY <1>10, <2>0, GotoHolds DEF Render, Labels
  <2>2. RowsStay /\ faults' \in Nat
    BY <1>10, SameRows DEF Render, Fault, TypeInv, QueueTypeOK
  <2>5. RowsKnown'
    BY <1>10, <2>1, <2>2, RowsStayKnown DEF Render
  <2> QED
    BY <1>10, <2>1, <2>2, <2>5 DEF TypeInv, QueueTypeOK, Render, RowsStay,
       HoldsNothingNew
<1>11. CASE Complete(w)
  <2>0. pc[w] # "idle"
    BY <1>11 DEF Complete
  <2>1. HoldsNothingNew
    BY <1>11, FinishHolds DEF Complete
  <2>2. RowsStay /\ faults' \in Nat
    BY <1>11, <2>0, HeldRow, SetStatusStays, StatusNames DEF Complete
  <2>5. RowsKnown'
    BY <1>11, <2>1, <2>2, RowsStayKnown DEF Complete
  <2> QED
    BY <1>11, <2>1, <2>2, <2>5 DEF TypeInv, QueueTypeOK, Complete, RowsStay,
       HoldsNothingNew
<1> QED
  BY <1>1, <1>2, <1>3, <1>4, <1>5, <1>6, <1>7, <1>8, <1>9, <1>10, <1>11 DEF Work

(* Every step of the queue keeps the types and leaves every row known.     *)
LEMMA TypeStep ==
    ASSUME TypeInv, [Next]_vars
    PROVE  TypeInv'
<1> USE DEF jobVars, siteVars, workerVars, bounds
<1>1. CASE UNCHANGED vars
  BY <1>1 DEF TypeInv, QueueTypeOK, RowsKnown, vars
<1>2. ASSUME NEW p \in Producers, NEW r \in Offered, Submit(p, r)
      PROVE  TypeInv'
  <2>1. request' \in [Producers -> Requests \cup {NoRequest}]
    BY <1>2, OfferedAssumption DEF Submit, TypeInv, QueueTypeOK
  <2>2. faults' \in Nat
    BY <1>2 DEF Submit, Fault, TypeInv, QueueTypeOK
  <2> QED
    BY <1>2, <2>1, <2>2 DEF TypeInv, QueueTypeOK, RowsKnown, Submit
<1>3. ASSUME NEW p \in Producers, InsertJob(p)
      PROVE  TypeInv'
  <2>1. request[p] \in Requests
    BY <1>3 DEF InsertJob, TypeInv, QueueTypeOK
  <2>2. request' \in [Producers -> Requests \cup {NoRequest}] /\ faults' \in Nat
    BY <1>3 DEF InsertJob, Fault, TypeInv, QueueTypeOK
  <2>3. CASE UNCHANGED <<job, status>>
    BY <1>3, <2>2, <2>3 DEF TypeInv, QueueTypeOK, RowsKnown, InsertJob
  <2>4. ASSUME NEW j \in Absent, job' = [job EXCEPT ![j] = request[p]],
               status' = [status EXCEPT ![j] = "pending"]
        PROVE  TypeInv'
    <3>1. j \in Jobs /\ "pending" \in Statuses
      BY StatusNames DEF Absent
    <3>2. /\ job' \in [Jobs -> Requests \cup {NoRequest}]
          /\ status' \in [Jobs -> Statuses]
          /\ \A i \in Jobs : status[i] # "absent" =>
                status'[i] # "absent" /\ job'[i] = job[i]
      BY <2>1, <2>4, <3>1 DEF TypeInv, QueueTypeOK, Absent
    <3>3. \A i \in Jobs : status'[i] # "absent" => job'[i] \in Requests
      BY <2>1, <2>4, <3>1 DEF TypeInv, QueueTypeOK, RowsKnown
    <3>4. sweep.quarantine \subseteq Jobs
      BY DEF TypeInv, QueueTypeOK
    <3>5. RowsKnown'
      BY <1>3, <3>2, <3>3, <3>4 DEF TypeInv, RowsKnown, InsertJob
    <3> QED
      BY <1>3, <2>2, <3>2, <3>5 DEF TypeInv, QueueTypeOK, InsertJob
  <2> QED
    BY <1>3, <2>3, <2>4 DEF InsertJob
<1>4. ASSUME NEW w \in Workers, Work(w)
      PROVE  TypeInv'
  BY <1>4, WorkType
<1>5. CASE Reap
  <2>1. HoldsNothingNew
    BY <1>5, IdleHolds DEF Reap
  <2>2. RowsStay
    BY <1>5, StatusNames DEF Reap, Stuck, RowsStay, TypeInv, QueueTypeOK
  <2>3. returned' \in SUBSET Jobs /\ earlyResets' \in Nat
    BY <1>5 DEF Reap, Stuck, TypeInv, QueueTypeOK
  <2>4. RowsKnown'
    BY <1>5, <2>1, <2>2, RowsStayKnown DEF Reap
  <2> QED
    BY <1>5, <2>1, <2>2, <2>3, <2>4 DEF TypeInv, QueueTypeOK, Reap, RowsStay,
       HoldsNothingNew
<1>6. CASE Prune
  <2>1. HoldsNothingNew
    BY <1>6, IdleHolds DEF Prune
  <2>2. RowsStay
    BY <1>6, StatusNames DEF Prune, Expired, RowsStay, Settled, TypeInv,
       QueueTypeOK
  <2>4. RowsKnown'
    BY <1>6, <2>1, <2>2, RowsStayKnown DEF Prune
  <2> QED
    BY <1>6, <2>1, <2>2, <2>4 DEF TypeInv, QueueTypeOK, Prune, RowsStay,
       HoldsNothingNew
<1>7. ASSUME NEW j \in Jobs, BackoffElapses(j)
      PROVE  TypeInv'
  BY <1>7 DEF TypeInv, QueueTypeOK, RowsKnown, BackoffElapses
<1>8. ASSUME NEW j \in Jobs, GrowOlder(j)
      PROVE  TypeInv'
  <2>1. age' \in [Jobs -> 0..2]
    <3>1. age \in [Jobs -> 0..2] /\ MaxAge \in 0..2
      BY WorkBounds DEF TypeInv, QueueTypeOK
    <3>2. age[j] < MaxAge /\ age' = [age EXCEPT ![j] = age[j] + 1]
      BY <1>8 DEF GrowOlder
    <3>3. age[j] + 1 \in 0..2
      BY <3>1, <3>2
    <3> QED
      BY <3>1, <3>2, <3>3
  <2> QED
    BY <1>8, <2>1 DEF TypeInv, QueueTypeOK, RowsKnown, GrowOlder
<1>9. ASSUME NEW j \in Jobs, ReplayJob(j)
      PROVE  TypeInv'
  <2>1. HoldsNothingNew
    BY <1>9, IdleHolds DEF ReplayJob
  <2>2. RowsStay
    BY <1>9, StatusNames DEF ReplayJob, ReplayRow, Dead, RowsStay, TypeInv,
       QueueTypeOK
  <2>3. /\ retries' \in [Jobs -> Nat]
        /\ replays' \in [Jobs -> Nat]
        /\ waiting' \in SUBSET Jobs
        /\ returned' \in SUBSET Jobs
        /\ faults' \in Nat
        /\ sweep' \in [quarantine : SUBSET Jobs, replay : SUBSET Jobs]
        /\ sweep'.quarantine \subseteq sweep.quarantine
    <3>1. /\ retries \in [Jobs -> Nat]
          /\ replays \in [Jobs -> Nat]
          /\ waiting \in SUBSET Jobs
          /\ returned \in SUBSET Jobs
          /\ faults \in Nat
          /\ sweep \in [quarantine : SUBSET Jobs, replay : SUBSET Jobs]
      BY DEF TypeInv, QueueTypeOK
    <3>2. \/ UNCHANGED <<retries, replays, waiting, returned>>
          \/ /\ retries' = [retries EXCEPT ![j] = 0]
             /\ replays' = [replays EXCEPT ![j] = @ + 1]
             /\ waiting' = waiting \ {j}
             /\ returned' = returned \cup {j}
      BY <1>9 DEF ReplayJob, ReplayRow
    <3>3. faults' \in Nat
      BY <1>9, <3>1 DEF ReplayJob, Fault
    <3>4. /\ sweep' \in [quarantine : SUBSET Jobs, replay : SUBSET Jobs]
          /\ sweep'.quarantine \subseteq sweep.quarantine
      BY <1>9, <3>1 DEF ReplayJob
    <3>5. /\ retries' \in [Jobs -> Nat]
          /\ replays' \in [Jobs -> Nat]
      BY <3>1, <3>2
    <3>6. /\ waiting' \in SUBSET Jobs
          /\ returned' \in SUBSET Jobs
      BY <3>1, <3>2
    <3> QED
      BY <3>3, <3>4, <3>5, <3>6
  <2>4. RowsKnown'
    BY <1>9, <2>1, <2>2, RowsStayKnown DEF ReplayJob
  <2> QED
    BY <1>9, <2>1, <2>2, <2>3, <2>4 DEF TypeInv, QueueTypeOK, ReplayJob, RowsStay,
       HoldsNothingNew
<1>10. ASSUME NEW j \in Jobs, QuarantineRow(j)
       PROVE  TypeInv'
  <2>1. HoldsNothingNew
    BY <1>10, IdleHolds DEF QuarantineRow
  <2>2. status[j] # "absent"
    BY <1>10 DEF QuarantineRow, TypeInv, RowsKnown
  <2>3. RowsStay /\ faults' \in Nat
    BY <1>10, <2>2, SetStatusStays, StatusNames DEF QuarantineRow
  <2>4. /\ sweep' \in [quarantine : SUBSET Jobs, replay : SUBSET Jobs]
        /\ sweep'.quarantine \subseteq sweep.quarantine
    BY <1>10 DEF QuarantineRow, TypeInv, QueueTypeOK
  <2>5. RowsKnown'
    BY <1>10, <2>1, <2>3, <2>4, RowsStayKnown DEF QuarantineRow
  <2> QED
    BY <1>10, <2>1, <2>3, <2>4, <2>5 DEF TypeInv, QueueTypeOK, QuarantineRow,
       RowsStay, HoldsNothingNew
<1>11. ASSUME NEW j \in Jobs, ReplayBatchRow(j)
       PROVE  TypeInv'
  <2>1. HoldsNothingNew
    BY <1>11, IdleHolds DEF ReplayBatchRow
  <2>2. RowsStay
    BY <1>11, StatusNames DEF ReplayBatchRow, ReplayRow, Dead, RowsStay,
       TypeInv, QueueTypeOK
  <2>3. /\ retries' \in [Jobs -> Nat]
        /\ replays' \in [Jobs -> Nat]
        /\ waiting' \in SUBSET Jobs
        /\ returned' \in SUBSET Jobs
        /\ faults' \in Nat
        /\ sweep' \in [quarantine : SUBSET Jobs, replay : SUBSET Jobs]
        /\ sweep'.quarantine \subseteq sweep.quarantine
    <3>1. /\ retries \in [Jobs -> Nat]
          /\ replays \in [Jobs -> Nat]
          /\ waiting \in SUBSET Jobs
          /\ returned \in SUBSET Jobs
          /\ faults \in Nat
          /\ sweep \in [quarantine : SUBSET Jobs, replay : SUBSET Jobs]
      BY DEF TypeInv, QueueTypeOK
    <3>2. \/ UNCHANGED <<retries, replays, waiting, returned>>
          \/ /\ retries' = [retries EXCEPT ![j] = 0]
             /\ replays' = [replays EXCEPT ![j] = @ + 1]
             /\ waiting' = waiting \ {j}
             /\ returned' = returned \cup {j}
      BY <1>11 DEF ReplayBatchRow, ReplayRow
    <3>3. faults' \in Nat
      BY <1>11, <3>1 DEF ReplayBatchRow, Fault
    <3>4. /\ sweep' \in [quarantine : SUBSET Jobs, replay : SUBSET Jobs]
          /\ sweep'.quarantine \subseteq sweep.quarantine
      BY <1>11, <3>1 DEF ReplayBatchRow
    <3>5. /\ retries' \in [Jobs -> Nat]
          /\ replays' \in [Jobs -> Nat]
      BY <3>1, <3>2
    <3>6. /\ waiting' \in SUBSET Jobs
          /\ returned' \in SUBSET Jobs
      BY <3>1, <3>2
    <3> QED
      BY <3>3, <3>4, <3>5, <3>6
  <2>4. RowsKnown'
    BY <1>11, <2>1, <2>2, <2>3, RowsStayKnown DEF ReplayBatchRow
  <2> QED
    BY <1>11, <2>1, <2>2, <2>3, <2>4 DEF TypeInv, QueueTypeOK, ReplayBatchRow, RowsStay,
       HoldsNothingNew
<1>12. CASE ReplaySweep
  <2>1. PICK poison \in SUBSET Dead, batch \in SUBSET Dead :
           sweep' = [quarantine |-> poison, replay |-> batch]
    <3>1. PICK read \in SUBSET Dead :
            LET poison == {j \in read : replays[j] >= MaxReplayCount}
            IN  \E batch \in SomeOf(read \ poison, ReplayBatchLimit) :
                   sweep' = [quarantine |-> poison, replay |-> batch]
      BY <1>12 DEF ReplaySweep, SomeOf
    <3> DEFINE poison == {j \in read : replays[j] >= MaxReplayCount}
    <3>2. PICK batch \in SUBSET (read \ poison) :
            sweep' = [quarantine |-> poison, replay |-> batch]
      BY <3>1 DEF SomeOf
    <3>3. poison \in SUBSET Dead /\ batch \in SUBSET Dead
      OBVIOUS
    <3> HIDE DEF poison
    <3> QED
      BY <3>2, <3>3
  <2>2. Dead \subseteq Jobs /\ \A j \in Dead : status[j] # "absent"
    BY DEF Dead
  <2>3. sweep' \in [quarantine : SUBSET Jobs, replay : SUBSET Jobs]
    BY <2>1, <2>2
  <2>4. \A j \in sweep'.quarantine : status[j] # "absent"
    BY <2>1, <2>2
  <2> QED
    BY <1>12, <2>3, <2>4 DEF TypeInv, QueueTypeOK, RowsKnown, ReplaySweep
<1>13. ASSUME NEW m \in OfferedModes, SetMode(m)
       PROVE  TypeInv'
  BY <1>13, OfferedAssumption DEF TypeInv, QueueTypeOK, RowsKnown, SetMode
<1>14. CASE Restart
  <2>1. /\ HoldsNothingNew
        /\ request' \in [Producers -> Requests \cup {NoRequest}]
    BY <1>14, WorkBounds DEF Restart, HoldsNothingNew, Labels
  <2>2. RowsStay
    BY <1>14, StatusNames DEF Restart, Processing, RowsStay, TypeInv, QueueTypeOK
  <2>3. /\ returned' \in SUBSET Jobs
        /\ restarts' \in Nat
        /\ faults' \in Nat
        /\ sweep' \in [quarantine : SUBSET Jobs, replay : SUBSET Jobs]
        /\ sweep'.quarantine \subseteq sweep.quarantine
    BY <1>14 DEF Restart, Fault, Processing, TypeInv, QueueTypeOK
  <2>4. RowsKnown'
    BY <1>14, <2>1, <2>2, <2>3, RowsStayKnown DEF Restart
  <2> QED
    BY <1>14, <2>1, <2>2, <2>3, <2>4 DEF TypeInv, QueueTypeOK, Restart, RowsStay,
       HoldsNothingNew
<1> QED
  BY <1>1, <1>2, <1>3, <1>4, <1>5, <1>6, <1>7, <1>8, <1>9, <1>10, <1>11,
     <1>12, <1>13, <1>14 DEF Next, Step

(* Of the queue's steps only Render stores a page.                         *)
LEMMA PageByRender ==
    ASSUME [Next]_vars
    PROVE  UNCHANGED cache \/ \E w \in Workers : Render(w)
<1> USE DEF siteVars
<1>1. ASSUME NEW w \in Workers, Work(w), ~Render(w)
      PROVE  UNCHANGED cache
  BY <1>1 DEF Work, Pick, Claim, Reject, Commit, Rollback, ReadRetries,
     Requeue, DeadLetter, ReadRow, Complete
<1>2. CASE Step /\ ~\E w \in Workers : Work(w)
  BY <1>2 DEF Step, Submit, InsertJob, Reap, Prune, BackoffElapses, GrowOlder,
     ReplayJob, QuarantineRow, ReplayBatchRow, ReplaySweep, SetMode
<1>3. CASE Restart
  BY <1>3 DEF Restart
<1> QED
  BY <1>1, <1>2, <1>3 DEF Next, vars

LEMMA PageStep ==
    ASSUME TypeInv, TypeOK, [Next]_vars
    PROVE  cache' \in [Slugs -> 0..MaxJobs]
<1>1. ASSUME NEW w \in Workers, Render(w)
      PROVE  cache' \in [Slugs -> 0..MaxJobs]
  <2>1. /\ held[w] \in 0..MaxJobs
        /\ job[held[w]].slug \in Slugs
    BY <1>1, HeldRow, RequestFields DEF Render, TypeOK, QueueTypeOK
  <2> QED
    BY <1>1, <2>1 DEF Render, TypeOK
<1> QED
  BY <1>1, PageByRender DEF TypeOK

(* Every variable of the queue keeps its type in every behaviour, and no   *)
(* worker ever holds a row that was not enqueued.                          *)
THEOREM TypeCorrect == Spec => []TypeOK
<1>1. Init => TypeInv /\ TypeOK
  <2>1. Init => cache \in [Slugs -> 0..MaxJobs]
    BY WorkBounds DEF Init
  <2> QED
    BY <2>1, TypeInit DEF TypeInv, TypeOK
<1>2. TypeInv /\ TypeOK /\ [Next]_vars => TypeInv' /\ TypeOK'
  <2> SUFFICES ASSUME TypeInv, TypeOK, [Next]_vars
               PROVE  TypeInv' /\ cache' \in [Slugs -> 0..MaxJobs]
    BY DEF TypeInv, TypeOK
  <2> QED
    BY TypeStep, PageStep
<1> QED
  BY <1>1, <1>2, PTL DEF Spec
-----------------------------------------------------------------------------
(* What a worker behind a committed transaction is about to do.            *)
Behind == {"applied", "rendering", "done"}

Committed(j) == \E i \in 1..Len(outbox) : outbox[i].job = j

CommitInv ==
    /\ CompletedWasCommitted
    /\ \A w \in Workers : pc[w] \in Behind => Committed(held[w])

(* What one step can do to these: only a worker at the end of its job      *)
(* completes a row, only a commit brings a worker behind a transaction,    *)
(* and only a commit touches the articles and the outbox.                  *)
CompletedByWorker ==
    \A j \in Jobs : status'[j] = "completed" =>
        \/ status[j] = "completed"
        \/ \E w \in Workers : pc[w] = "done" /\ held[w] = j

BehindByCommit ==
    \A w \in Workers : pc'[w] \in Behind =>
        \/ pc[w] \in Behind /\ held'[w] = held[w]
        \/ Commit(w)

SiteByCommit == UNCHANGED <<articles, outbox>> \/ \E w \in Workers : Commit(w)

LEMMA SetStatusCompletes ==
    ASSUME TypeInv, NEW j \in Jobs, NEW s \in Statuses, SetStatus(j, s)
    PROVE  \A i \in Jobs : status'[i] = "completed" =>
               status[i] = "completed" \/ (i = j /\ s = "completed")
<1>1. status \in [Jobs -> Statuses]
  BY DEF TypeInv, QueueTypeOK
<1>2. CASE status' = status
  BY <1>2
<1>3. CASE status' = [status EXCEPT ![j] = s]
  BY <1>1, <1>3
<1> QED
  BY <1>2, <1>3 DEF SetStatus, WithStatus

LEMMA GotoBehind ==
    ASSUME TypeInv, NEW w \in Workers, NEW l, Goto(w, l), UNCHANGED held,
           l \in Behind => pc[w] \in Behind \/ Commit(w)
    PROVE  BehindByCommit
  BY DEF TypeInv, QueueTypeOK, Goto, BehindByCommit

LEMMA FinishBehind ==
    ASSUME TypeInv, NEW w \in Workers, Finish(w)
    PROVE  BehindByCommit
  BY DEF TypeInv, QueueTypeOK, Finish, Goto, BehindByCommit, Behind

(* The steps of a worker.                                                  *)
LEMMA WorkEffects ==
    ASSUME TypeInv, NEW w \in Workers, Work(w)
    PROVE  CompletedByWorker /\ BehindByCommit /\ SiteByCommit
<1> USE DEF jobVars, siteVars, workerVars, bounds
<1>1. CASE Pick(w)
  <2>1. PICK j \in Due : held' = [held EXCEPT ![w] = j]
    BY <1>1 DEF Pick
  <2>2. BehindByCommit
    BY <1>1, <2>1 DEF Pick, Goto, BehindByCommit, Behind, TypeInv, QueueTypeOK
  <2> QED
    BY <1>1, <2>2 DEF Pick, CompletedByWorker, SiteByCommit
<1>2. CASE Claim(w)
  <2>1. BehindByCommit
    BY <1>2, GotoBehind DEF Claim, Behind
  <2>2. CompletedByWorker
    BY <1>2, HeldRow, SetStatusCompletes, StatusNames DEF Claim,
       CompletedByWorker
  <2> QED
    BY <1>2, <2>1, <2>2 DEF Claim, SiteByCommit
<1>3. CASE Reject(w)
  <2>1. BehindByCommit
    BY <1>3, FinishBehind DEF Reject
  <2>2. CompletedByWorker
    BY <1>3, HeldRow, SetStatusCompletes, StatusNames DEF Reject,
       CompletedByWorker
  <2> QED
    BY <1>3, <2>1, <2>2 DEF Reject, SiteByCommit
<1>4. CASE Commit(w)
  <2>1. BehindByCommit
    BY <1>4, GotoBehind DEF Commit, Behind
  <2>2. CompletedByWorker
    BY <1>4 DEF Commit, CompletedByWorker
  <2> QED
    BY <1>4, <2>1, <2>2 DEF Commit, SiteByCommit
<1>5. CASE Rollback(w)
  <2>1. BehindByCommit
    BY <1>5, GotoBehind DEF Rollback, Behind
  <2>2. CompletedByWorker
    BY <1>5 DEF Rollback, CompletedByWorker
  <2> QED
    BY <1>5, <2>1, <2>2 DEF Rollback, SiteByCommit
<1>6. CASE ReadRetries(w)
  <2>1. BehindByCommit
    BY <1>6, GotoBehind DEF ReadRetries, Behind
  <2>2. CompletedByWorker
    BY <1>6 DEF ReadRetries, CompletedByWorker
  <2> QED
    BY <1>6, <2>1, <2>2 DEF ReadRetries, SiteByCommit
<1>7. CASE Requeue(w)
  <2>1. BehindByCommit
    BY <1>7, FinishBehind DEF Requeue
  <2>2. CompletedByWorker
    <3>1. status \in [Jobs -> Statuses] /\ held[w] \in Jobs
      BY <1>7, HeldRow DEF Requeue, TypeInv, QueueTypeOK
    <3>2. status' = status \/ status' = [status EXCEPT ![held[w]] = "pending"]
      BY <1>7 DEF Requeue
    <3> QED
      BY <3>1, <3>2 DEF CompletedByWorker
  <2> QED
    BY <1>7, <2>1, <2>2 DEF Requeue, SiteByCommit
<1>8. CASE DeadLetter(w)
  <2>1. BehindByCommit
    BY <1>8, FinishBehind DEF DeadLetter
  <2>2. CompletedByWorker
    BY <1>8, HeldRow, SetStatusCompletes, StatusNames DEF DeadLetter,
       CompletedByWorker
  <2> QED
    BY <1>8, <2>1, <2>2 DEF DeadLetter, SiteByCommit
<1>9. CASE ReadRow(w)
  <2>1. BehindByCommit
    BY <1>9, GotoBehind DEF ReadRow, Behind
  <2>2. CompletedByWorker
    BY <1>9 DEF ReadRow, CompletedByWorker
  <2> QED
    BY <1>9, <2>1, <2>2 DEF ReadRow, SiteByCommit
<1>10. CASE Render(w)
  <2>1. BehindByCommit
    BY <1>10, GotoBehind DEF Render, Behind
  <2>2. CompletedByWorker
    BY <1>10 DEF Render, CompletedByWorker
  <2> QED
    BY <1>10, <2>1, <2>2 DEF Render, SiteByCommit
<1>11. CASE Complete(w)
  <2>1. BehindByCommit
    BY <1>11, FinishBehind DEF Complete
  <2>2. CompletedByWorker
    BY <1>11, HeldRow, SetStatusCompletes, StatusNames DEF Complete,
       CompletedByWorker
  <2> QED
    BY <1>11, <2>1, <2>2 DEF Complete, SiteByCommit
<1> QED
  BY <1>1, <1>2, <1>3, <1>4, <1>5, <1>6, <1>7, <1>8, <1>9, <1>10, <1>11 DEF Work

(* Every other step leaves the site and the workers' progress alone.       *)
LEMMA StepEffects ==
    ASSUME TypeInv, [Next]_vars
    PROVE  CompletedByWorker /\ BehindByCommit /\ SiteByCommit
<1> USE DEF jobVars, siteVars, workerVars, bounds
<1> DEFINE Idle == UNCHANGED <<articles, outbox, pc, held>>
<1>0. ASSUME Idle, CompletedByWorker
      PROVE  BehindByCommit /\ SiteByCommit
  BY <1>0 DEF BehindByCommit, SiteByCommit
<1>1. CASE UNCHANGED vars
  BY <1>0, <1>1 DEF vars, CompletedByWorker
<1>2. ASSUME NEW p \in Producers, NEW r \in Offered, Submit(p, r)
      PROVE  Idle /\ CompletedByWorker
  BY <1>2 DEF Submit, CompletedByWorker
<1>3. ASSUME NEW p \in Producers, InsertJob(p)
      PROVE  Idle /\ CompletedByWorker
  <2>1. \/ status' = status
        \/ \E j \in Absent : status' = [status EXCEPT ![j] = "pending"]
    BY <1>3 DEF InsertJob
  <2>2. CompletedByWorker
    BY <2>1 DEF CompletedByWorker, TypeInv, QueueTypeOK, Absent
  <2> QED
    BY <1>3, <2>2 DEF InsertJob
<1>4. ASSUME NEW w \in Workers, Work(w)
      PROVE  CompletedByWorker /\ BehindByCommit /\ SiteByCommit
  BY <1>4, WorkEffects
<1>5. CASE Reap
  BY <1>0, <1>5 DEF Reap, CompletedByWorker
<1>6. CASE Prune
  BY <1>0, <1>6 DEF Prune, CompletedByWorker
<1>7. ASSUME NEW j \in Jobs, BackoffElapses(j) \/ GrowOlder(j)
      PROVE  Idle /\ CompletedByWorker
  BY <1>7 DEF BackoffElapses, GrowOlder, CompletedByWorker
<1>8. ASSUME NEW j \in Jobs, ReplayJob(j) \/ ReplayBatchRow(j)
      PROVE  Idle /\ CompletedByWorker
  <2>1. status' = status \/ status' = [status EXCEPT ![j] = "pending"]
    BY <1>8 DEF ReplayJob, ReplayBatchRow, ReplayRow
  <2>2. CompletedByWorker
    BY <2>1 DEF CompletedByWorker, TypeInv, QueueTypeOK
  <2> QED
    BY <1>8, <2>2 DEF ReplayJob, ReplayBatchRow
<1>9. ASSUME NEW j \in Jobs, QuarantineRow(j)
      PROVE  Idle /\ CompletedByWorker
  <2>1. CompletedByWorker
    BY <1>9, SetStatusCompletes, StatusNames DEF QuarantineRow,
       CompletedByWorker
  <2> QED
    BY <1>9, <2>1 DEF QuarantineRow
<1>10. CASE ReplaySweep
  BY <1>0, <1>10 DEF ReplaySweep, CompletedByWorker
<1>11. ASSUME NEW m \in OfferedModes, SetMode(m)
       PROVE  Idle /\ CompletedByWorker
  BY <1>11 DEF SetMode, CompletedByWorker
<1>12. CASE Restart
  BY <1>12 DEF Restart, CompletedByWorker, BehindByCommit, SiteByCommit,
     Behind
<1> HIDE DEF Idle
<1> QED
  BY <1>0, <1>1, <1>2, <1>3, <1>4, <1>5, <1>6, <1>7, <1>8, <1>9, <1>10,
     <1>11, <1>12 DEF Next, Step

(* A job that was committed stays so: the outbox only grows.               *)
LEMMA CommittedStays ==
    ASSUME TypeInv, SiteByCommit
    PROVE  \A j : (\E i \in 1..Len(outbox) : outbox[i].job = j)
                   => \E i \in 1..Len(outbox') : outbox'[i].job = j
<1>1. CASE UNCHANGED <<articles, outbox>>
  BY <1>1
<1>2. ASSUME NEW w \in Workers, Commit(w)
      PROVE  \A j : (\E i \in 1..Len(outbox) : outbox[i].job = j)
                   => \E i \in 1..Len(outbox') : outbox'[i].job = j
  <2>1. /\ Len(outbox) \in Nat
        /\ Len(outbox') = Len(outbox) + 2
        /\ \A i \in 1..Len(outbox) : outbox'[i] = outbox[i]
    BY <1>2, CommitAppends
  <2> SUFFICES ASSUME NEW j, NEW i \in 1..Len(outbox), outbox[i].job = j
               PROVE  \E k \in 1..Len(outbox') : outbox'[k].job = j
    OBVIOUS
  <2>2. i \in 1..Len(outbox')
    BY <2>1
  <2>3. outbox'[i].job = j
    BY <2>1
  <2> QED
    BY <2>2, <2>3
<1> QED
  BY <1>1, <1>2 DEF SiteByCommit

(* A worker that commits has its own job's events in the outbox.           *)
LEMMA CommitCommits ==
    ASSUME TypeInv, NEW w \in Workers, Commit(w)
    PROVE  /\ held'[w] = held[w]
           /\ \E i \in 1..Len(outbox') : outbox'[i].job = held[w]
<1>1. /\ Len(outbox) \in Nat
      /\ Len(outbox') = Len(outbox) + 2
      /\ outbox'[Len(outbox) + 2] =
            [type |-> "cache.invalidated", slug |-> job[held[w]].slug,
             job |-> held[w]]
  BY CommitAppends
<1>2. Len(outbox) + 2 \in 1..Len(outbox')
  BY <1>1
<1>3. outbox'[Len(outbox) + 2].job = held[w]
  BY <1>1
<1> QED
  BY <1>2, <1>3 DEF Commit

LEMMA CommitStep ==
    ASSUME TypeInv, CommitInv, [Next]_vars
    PROVE  CommitInv'
<1>1. CompletedByWorker /\ BehindByCommit /\ SiteByCommit
  BY StepEffects
<1>2. \A j : (\E i \in 1..Len(outbox) : outbox[i].job = j)
              => \E i \in 1..Len(outbox') : outbox'[i].job = j
  BY <1>1, CommittedStays
<1>3. \A w \in Workers : pc[w] \in Behind =>
          \E i \in 1..Len(outbox) : outbox[i].job = held[w]
  BY DEF CommitInv, Committed
<1>4. ASSUME NEW j \in Jobs, status'[j] = "completed"
      PROVE  \E i \in 1..Len(outbox') : outbox'[i].job = j
  <2>1. CASE status[j] = "completed"
    BY <1>2, <2>1 DEF CommitInv, CompletedWasCommitted
  <2>2. ASSUME NEW w \in Workers, pc[w] = "done", held[w] = j
        PROVE  \E i \in 1..Len(outbox') : outbox'[i].job = j
    BY <1>2, <1>3, <2>2 DEF Behind
  <2> QED
    BY <1>1, <1>4, <2>1, <2>2 DEF CompletedByWorker
<1>5. ASSUME NEW w \in Workers, pc'[w] \in Behind
      PROVE  \E i \in 1..Len(outbox') : outbox'[i].job = held'[w]
  <2>1. CASE pc[w] \in Behind /\ held'[w] = held[w]
    BY <1>2, <1>3, <2>1
  <2>2. CASE Commit(w)
    BY <2>2, CommitCommits
  <2> QED
    BY <1>1, <1>5, <2>1, <2>2 DEF BehindByCommit
<1> QED
  BY <1>4, <1>5 DEF CommitInv, CompletedWasCommitted, Committed

LEMMA CommitInit == Init => CommitInv
  BY DEF Init, CommitInv, CompletedWasCommitted, Behind

(* A row that reads "completed" was applied: for any number of workers,    *)
(* however often the reaper, replays, lost writes and crashes hand one row *)
(* to several of them.                                                     *)
THEOREM CompletedWasCommittedHolds == Spec => []CompletedWasCommitted
<1>1. Init => TypeInv /\ CommitInv
  BY CommitInit, TypeInit
<1>2. TypeInv /\ CommitInv /\ [Next]_vars => TypeInv' /\ CommitInv'
  BY TypeStep, CommitStep
<1>3. CommitInv => CompletedWasCommitted
  BY DEF CommitInv
<1> QED
  BY <1>1, <1>2, <1>3, PTL DEF Spec

-----------------------------------------------------------------------------
(* The two halves of ArticlesFollowEvents, for an outbox q: the row of     *)
(* slug s written by job b is told of, or s is told to be gone.            *)
Told(q, s, b) ==
    \E i \in 1..Len(q) :
        /\ q[i].slug = s
        /\ q[i].type \in {"article.created", "article.updated"}
        /\ q[i].job = b
        /\ \A k \in (i + 1)..Len(q) :
              q[k].slug = s => q[k].type = "cache.invalidated"

Gone(q, s) ==
    \A i \in 1..Len(q) :
        (q[i].slug = s /\ q[i].type = "article.created")
            => \E k \in (i + 1)..Len(q) :
                  q[k].slug = s /\ q[k].type = "article.deleted"

(* p is q followed by the two events of job j about slug t.                *)
Extends(p, q, type, t, j) ==
    /\ Len(q) \in Nat
    /\ Len(p) = Len(q) + 2
    /\ \A i \in 1..Len(q) : p[i] = q[i]
    /\ p[Len(q) + 1].type = type
    /\ p[Len(q) + 1].slug = t
    /\ p[Len(q) + 1].job = j
    /\ p[Len(q) + 2].type = "cache.invalidated"
    /\ p[Len(q) + 2].slug = t

(* A story about another slug goes on unchanged.                           *)
LEMMA OtherStory ==
    ASSUME NEW p, NEW q, NEW type, NEW t, NEW j, Extends(p, q, type, t, j),
           NEW s, s # t, NEW b
    PROVE  (Told(q, s, b) => Told(p, s, b)) /\ (Gone(q, s) => Gone(p, s))
<1> DEFINE n == Len(q)
<1>1. n \in Nat /\ Len(p) = n + 2 /\ \A i \in 1..n : p[i] = q[i]
  BY DEF Extends
<1>2. \A i \in 1..Len(p) : p[i].slug = s => i \in 1..n
  <2> SUFFICES ASSUME NEW i \in 1..Len(p), i \notin 1..n
               PROVE  p[i].slug = t
    OBVIOUS
  <2>1. i = n + 1 \/ i = n + 2
    BY <1>1
  <2> QED
    BY <2>1 DEF Extends
<1> HIDE DEF n
<1>3. Told(q, s, b) => Told(p, s, b)
  <2> SUFFICES ASSUME Told(q, s, b) PROVE Told(p, s, b)
    OBVIOUS
  <2>1. PICK i \in 1..n :
          /\ q[i].slug = s
          /\ q[i].type \in {"article.created", "article.updated"}
          /\ q[i].job = b
          /\ \A k \in (i + 1)..n :
                q[k].slug = s => q[k].type = "cache.invalidated"
    BY DEF Told, n
  <2>2. i \in 1..Len(p) /\ p[i] = q[i]
    BY <1>1
  <2>3. ASSUME NEW k \in (i + 1)..Len(p), p[k].slug = s
        PROVE  p[k].type = "cache.invalidated"
    <3>1. k \in 1..Len(p)
      BY <1>1
    <3>2. k \in 1..n
      BY <1>2, <2>3, <3>1
    <3>3. k \in (i + 1)..n /\ p[k] = q[k]
      BY <1>1, <3>2
    <3> QED
      BY <2>1, <2>3, <3>3
  <2> QED
    BY <2>1, <2>2, <2>3 DEF Told
<1>4. Gone(q, s) => Gone(p, s)
  <2> SUFFICES ASSUME Gone(q, s),
                      NEW i \in 1..Len(p),
                      p[i].slug = s, p[i].type = "article.created"
               PROVE  \E k \in (i + 1)..Len(p) :
                          p[k].slug = s /\ p[k].type = "article.deleted"
    BY DEF Gone
  <2>1. i \in 1..n /\ p[i] = q[i]
    BY <1>1, <1>2
  <2>2. PICK k \in (i + 1)..n : q[k].slug = s /\ q[k].type = "article.deleted"
    BY <2>1 DEF Gone, n
  <2>3. k \in (i + 1)..Len(p) /\ p[k] = q[k]
    BY <1>1, <2>1
  <2> QED
    BY <2>2, <2>3
<1> QED
  BY <1>3, <1>4

(* A created or updated row is told of by the first of the two events.     *)
LEMMA StoryOfRow ==
    ASSUME NEW p, NEW q, NEW t, NEW j,
           NEW type \in {"article.created", "article.updated"},
           Extends(p, q, type, t, j)
    PROVE  Told(p, t, j)
<1>1. /\ Len(q) \in Nat
      /\ Len(p) = Len(q) + 2
      /\ Len(q) + 1 \in 1..Len(p)
  BY DEF Extends
<1>2. ASSUME NEW k \in ((Len(q) + 1) + 1)..Len(p)
      PROVE  p[k].type = "cache.invalidated"
  <2>1. k = Len(q) + 2
    BY <1>1
  <2> QED
    BY <2>1 DEF Extends
<1> QED
  BY <1>1, <1>2 DEF Told, Extends

(* After a deletion the slug is gone, and an update without a row does not *)
(* bring it back.                                                          *)
LEMMA StoryOfNoRow ==
    ASSUME NEW p, NEW q, NEW t, NEW j, NEW type, Extends(p, q, type, t, j),
           \/ type = "article.deleted"
           \/ type = "article.updated" /\ Gone(q, t)
    PROVE  Gone(p, t)
<1>1. /\ Len(q) \in Nat
      /\ Len(p) = Len(q) + 2
      /\ \A i \in 1..Len(q) : p[i] = q[i]
  BY DEF Extends
<1> SUFFICES ASSUME NEW i \in 1..Len(p),
                    p[i].slug = t, p[i].type = "article.created"
             PROVE  \E k \in (i + 1)..Len(p) :
                        p[k].slug = t /\ p[k].type = "article.deleted"
  BY DEF Gone
<1>2. i # Len(q) + 1 /\ i # Len(q) + 2
  BY DEF Extends
<1>3. i \in 1..Len(q) /\ p[i] = q[i]
  BY <1>1, <1>2
<1>4. CASE type = "article.deleted"
  <2>1. Len(q) + 1 \in (i + 1)..Len(p)
    BY <1>1, <1>3
  <2> QED
    BY <1>4, <2>1 DEF Extends
<1>5. CASE Gone(q, t)
  <2>1. PICK k \in (i + 1)..Len(q) :
          q[k].slug = t /\ q[k].type = "article.deleted"
    BY <1>3, <1>5 DEF Gone
  <2>2. k \in (i + 1)..Len(p) /\ p[k] = q[k]
    BY <1>1, <1>3
  <2> QED
    BY <2>1, <2>2
<1> QED
  BY <1>4, <1>5

(* The outbox keeps up with the articles: only a commit touches either,    *)
(* and it touches both.                                                    *)
LEMMA StoryStep ==
    ASSUME TypeInv, ArticlesFollowEvents, SiteByCommit
    PROVE  ArticlesFollowEvents'
<1> DEFINE Follows(s) == IF articles[s] # NoRow
                         THEN Told(outbox, s, articles[s].by)
                         ELSE Gone(outbox, s)
<1>1. \A s \in Slugs : Follows(s)
  BY DEF ArticlesFollowEvents, Told, Gone
<1> SUFFICES ASSUME NEW s \in Slugs
             PROVE  IF articles'[s] # NoRow
                    THEN Told(outbox', s, articles'[s].by)
                    ELSE Gone(outbox', s)
  BY DEF ArticlesFollowEvents, Told, Gone
<1>2. CASE UNCHANGED <<articles, outbox>>
  BY <1>1, <1>2
<1>3. ASSUME NEW w \in Workers, Commit(w)
      PROVE  IF articles'[s] # NoRow
             THEN Told(outbox', s, articles'[s].by)
             ELSE Gone(outbox', s)
  <2> DEFINE j == held[w]
             r == job[j]
  <2>1. /\ j \in Jobs /\ r \in Requests
        /\ r.op \in {"insert", "update", "delete"} /\ r.slug \in Slugs
    BY <1>3, HeldRow, RequestFields DEF Commit
  <2>2. /\ articles \in [Slugs -> Rows \cup {NoRow}]
        /\ articles' = [articles EXCEPT ![r.slug] = Applied(r, j)]
        /\ r.op = "insert" => articles[r.slug] = NoRow
    BY <1>3 DEF Commit, Conflict, TypeInv, QueueTypeOK
  <2>3. Extends(outbox', outbox, EventType(r.op), r.slug, j)
    <3>1. /\ Len(outbox) \in Nat
          /\ Len(outbox') = Len(outbox) + 2
          /\ \A i \in 1..Len(outbox) : outbox'[i] = outbox[i]
          /\ outbox'[Len(outbox) + 1] =
                [type |-> EventType(r.op), slug |-> r.slug, job |-> j]
          /\ outbox'[Len(outbox) + 2] =
                [type |-> "cache.invalidated", slug |-> r.slug, job |-> j]
      BY <1>3, CommitAppends
    <3> HIDE DEF j, r
    <3> QED
      BY <3>1 DEF Extends
  <2>4. NoRow.by = 0 /\ 0 \notin Jobs
    BY DEF NoRow, Jobs
  <2> HIDE DEF j, r
  <2>5. CASE s # r.slug
    <3>1. articles'[s] = articles[s]
      BY <2>1, <2>2, <2>5
    <3> QED
      BY <1>1, <2>3, <2>5, <3>1, OtherStory
  <2>6. CASE s = r.slug /\ r.op = "insert"
    <3>1. articles'[s] = [kind |-> r.kind, by |-> j]
      BY <2>1, <2>2, <2>6 DEF Applied
    <3>2. articles'[s].by = j /\ articles'[s] # NoRow
      BY <2>1, <2>4, <3>1
    <3>3. Told(outbox', s, j)
      BY <2>3, <2>6, StoryOfRow DEF EventType
    <3> QED
      BY <3>2, <3>3
  <2>7. CASE s = r.slug /\ r.op = "update" /\ articles[s] # NoRow
    <3>1. articles'[s] = [kind |-> articles[s].kind, by |-> j]
      BY <2>1, <2>2, <2>7 DEF Applied
    <3>2. articles'[s].by = j /\ articles'[s] # NoRow
      BY <2>1, <2>4, <3>1
    <3>3. Told(outbox', s, j)
      BY <2>3, <2>7, StoryOfRow DEF EventType
    <3> QED
      BY <3>2, <3>3
  <2>8. CASE s = r.slug /\ r.op = "update" /\ articles[s] = NoRow
    <3>1. articles'[s] = NoRow
      BY <2>1, <2>2, <2>8 DEF Applied
    <3>2. Gone(outbox, s)
      BY <1>1, <2>8
    <3>3. EventType(r.op) = "article.updated"
      BY <2>8 DEF EventType
    <3>4. Gone(outbox', s)
      BY <2>3, <2>8, <3>2, <3>3, StoryOfNoRow
    <3> QED
      BY <3>1, <3>4
  <2>9. CASE s = r.slug /\ r.op = "delete"
    <3>1. articles'[s] = NoRow
      BY <2>1, <2>2, <2>9 DEF Applied
    <3>2. EventType(r.op) = "article.deleted"
      BY <2>9 DEF EventType
    <3>3. Gone(outbox', s)
      BY <2>3, <2>9, <3>2, StoryOfNoRow
    <3> QED
      BY <3>1, <3>3
  <2> QED
    BY <2>1, <2>5, <2>6, <2>7, <2>8, <2>9
<1> QED
  BY <1>2, <1>3 DEF SiteByCommit

(* The outbox tells the whole story of the articles table, whichever       *)
(* workers apply one job twice and whichever transactions fail.            *)
THEOREM ArticlesFollowEventsHolds == Spec => []ArticlesFollowEvents
<1>1. Init => TypeInv /\ ArticlesFollowEvents
  <2>1. Init => ArticlesFollowEvents
    BY DEF Init, ArticlesFollowEvents
  <2> QED
    BY <2>1, TypeInit
<1>2. TypeInv /\ ArticlesFollowEvents /\ [Next]_vars
          => TypeInv' /\ ArticlesFollowEvents'
  BY TypeStep, StepEffects, StoryStep
<1> QED
  BY <1>1, <1>2, PTL DEF Spec

-----------------------------------------------------------------------------
(* The workers that decided to put job j back and have not done so yet.    *)
(* Each of them may still add one to its retries, which makes the bound    *)
(* inductive; a deleted row is read as zero retries and never written.     *)
RetryingIn(c, h, j) == {w \in Workers : c[w] = "retrying" /\ h[w] = j}

RetryBound == MaxRetries + Cardinality(Workers) - 1

RetryInv ==
    /\ RetriesBounded
    /\ \A j \in Jobs : status[j] # "pruned" =>
          retries[j] + Cardinality(RetryingIn(pc, held, j))
              <= RetryBound + faults

(* What one step can do to a row's retries and to the workers about to     *)
(* retry it.                                                               *)
RetryEffect(j) ==
    LET before == RetryingIn(pc, held, j)
        after  == RetryingIn(pc', held', j)
    IN  \/ retries'[j] = retries[j] /\ after \subseteq before
        \/ retries'[j] = 0
        \/ /\ retries'[j] = retries[j]
           /\ retries[j] < MaxRetries \/ status'[j] = "pruned"
        \/ /\ retries'[j] = retries[j]
           /\ faults' = faults + 1
           /\ \E w \in Workers : after \subseteq before \cup {w}
        \/ /\ retries'[j] = retries[j] + 1
           /\ status[j] # "pruned"
           /\ \E w \in before : after \subseteq before \ {w}

RetryEffects ==
    /\ \A j \in Jobs : status[j] = "pruned" => status'[j] = "pruned"
    /\ faults' \in Nat /\ faults <= faults'
    /\ \A j \in Jobs : RetryEffect(j)

LEMMA RetryingCount ==
    ASSUME NEW S \in SUBSET Workers
    PROVE  /\ IsFiniteSet(S)
           /\ Cardinality(S) \in Nat
           /\ Cardinality(Workers) \in Nat
           /\ Cardinality(S) <= Cardinality(Workers)
  BY PoolAssumption, FS_Subset, FS_CardinalityType

(* A step with these effects preserves the bound.                          *)
LEMMA RetryPreserved ==
    ASSUME TypeInv, TypeInv', RetryInv, RetryEffects
    PROVE  RetryInv'
<1> SUFFICES ASSUME NEW j \in Jobs
             PROVE  /\ retries'[j] <= RetryBound + faults'
                    /\ status'[j] # "pruned" =>
                          retries'[j] + Cardinality(RetryingIn(pc', held', j))
                              <= RetryBound + faults'
  BY DEF RetryInv, RetriesBounded, RetryBound, RetryingIn
<1> DEFINE before == RetryingIn(pc, held, j)
           after  == RetryingIn(pc', held', j)
           b == Cardinality(before)
           a == Cardinality(after)
           n == Cardinality(Workers)
<1>1. before \in SUBSET Workers /\ after \in SUBSET Workers
  BY DEF RetryingIn
<1>2. /\ a \in Nat /\ b \in Nat /\ n \in Nat
      /\ a <= n /\ b <= n
      /\ IsFiniteSet(before) /\ IsFiniteSet(after)
  BY <1>1, RetryingCount
<1>3. /\ retries[j] \in Nat /\ retries'[j] \in Nat
      /\ faults \in Nat /\ faults' \in Nat /\ faults <= faults'
      /\ MaxRetries \in Nat /\ MaxRetries >= 1
  BY LimitsAssumption DEF TypeInv, QueueTypeOK, RetryEffects
<1>4. /\ RetryBound = MaxRetries + n - 1
      /\ retries[j] <= RetryBound + faults
      /\ status[j] # "pruned" => retries[j] + b <= RetryBound + faults
      /\ status[j] = "pruned" => status'[j] = "pruned"
  BY DEF RetryInv, RetriesBounded, RetryBound, RetryEffects
<1>5. RetryEffect(j)
  BY DEF RetryEffects
<1> HIDE DEF a, b, n, before, after
<1> SUFFICES /\ retries'[j] <= RetryBound + faults'
             /\ status'[j] # "pruned" =>
                   retries'[j] + a <= RetryBound + faults'
  BY DEF a, after
<1>6. CASE retries'[j] = retries[j] /\ after \subseteq before
  <2>1. a <= b
    BY <1>2, <1>6, FS_Subset DEF a, b
  <2> QED
    BY <1>2, <1>3, <1>4, <1>6, <2>1
<1>7. CASE retries'[j] = 0
  <2>1. a \in Nat /\ n \in Nat /\ a <= n /\ faults' \in Nat
    BY <1>2, <1>3
  <2>2. n <= RetryBound /\ RetryBound \in Nat
    BY <1>2, <1>3, <1>4
  <2>3. a <= RetryBound
    BY <2>1, <2>2
  <2>4. \A x, y, z \in Nat : x <= y => 0 <= y + z /\ 0 + x <= y + z
    OBVIOUS
  <2>5. 0 <= RetryBound + faults' /\ 0 + a <= RetryBound + faults'
    BY <2>1, <2>2, <2>3, <2>4, Zenon
  <2> QED
    BY <1>7, <2>5, Zenon
<1>8. CASE /\ retries'[j] = retries[j]
           /\ retries[j] < MaxRetries \/ status'[j] = "pruned"
  <2>1. retries'[j] <= RetryBound + faults'
    BY <1>2, <1>3, <1>4, <1>8
  <2>2. CASE retries[j] < MaxRetries
    BY <1>2, <1>3, <1>4, <1>8, <2>1, <2>2
  <2> QED
    BY <1>8, <2>1, <2>2
<1>9. CASE /\ retries'[j] = retries[j]
           /\ faults' = faults + 1
           /\ \E w \in Workers : after \subseteq before \cup {w}
  <2>1. PICK w \in Workers : after \subseteq before \cup {w}
    BY <1>9
  <2>2. /\ IsFiniteSet(before \cup {w})
        /\ Cardinality(before \cup {w}) \in {b, b + 1}
    BY <1>2, FS_AddElement DEF b
  <2>3. a <= Cardinality(before \cup {w})
    BY <2>1, <2>2, FS_Subset DEF a
  <2>4. a <= b + 1
    BY <1>2, <2>2, <2>3
  <2> QED
    BY <1>2, <1>3, <1>4, <1>9, <2>4
<1>10. CASE /\ retries'[j] = retries[j] + 1
            /\ status[j] # "pruned"
            /\ \E w \in before : after \subseteq before \ {w}
  <2>1. PICK w \in before : after \subseteq before \ {w}
    BY <1>10
  <2>2. IsFiniteSet(before \ {w}) /\ Cardinality(before \ {w}) = b - 1
    BY <1>2, FS_RemoveElement DEF b
  <2>3. a <= b - 1
    BY <2>1, <2>2, FS_Subset DEF a
  <2> QED
    BY <1>2, <1>3, <1>4, <1>10, <2>3
<1> QED
  BY <1>5, <1>6, <1>7, <1>8, <1>9, <1>10 DEF RetryEffect, before, after

(* A step that changes no retries and brings no worker to "retrying".      *)
Quiet ==
    /\ UNCHANGED retries
    /\ \A w \in Workers : pc'[w] = "retrying" =>
          pc[w] = "retrying" /\ held'[w] = held[w]

LEMMA QuietEffect ==
    ASSUME Quiet
    PROVE  \A j \in Jobs : RetryEffect(j)
  BY DEF Quiet, RetryEffect, RetryingIn

LEMMA GotoQuiet ==
    ASSUME TypeInv, NEW w \in Workers, NEW l, Goto(w, l), l # "retrying",
           UNCHANGED <<held, retries>>
    PROVE  Quiet
  BY DEF TypeInv, QueueTypeOK, Goto, Quiet

LEMMA FinishQuiet ==
    ASSUME TypeInv, NEW w \in Workers, Finish(w), UNCHANGED retries
    PROVE  Quiet
  BY DEF TypeInv, QueueTypeOK, Finish, Goto, Quiet

(* A status update leaves a deleted row deleted.                           *)
LEMMA SetStatusPruned ==
    ASSUME TypeInv, NEW i \in Jobs, NEW x, SetStatus(i, x)
    PROVE  /\ \A j \in Jobs : status[j] = "pruned" => status'[j] = "pruned"
           /\ faults' \in Nat /\ faults <= faults'
<1>1. status \in [Jobs -> Statuses] /\ faults \in Nat
  BY DEF TypeInv, QueueTypeOK
<1>2. faults' \in Nat /\ faults <= faults'
  BY <1>1 DEF SetStatus, Fault
<1>3. CASE status' = status
  BY <1>2, <1>3
<1>4. CASE status' = [status EXCEPT ![i] = x] /\ status[i] # "pruned"
  BY <1>1, <1>2, <1>4
<1> QED
  BY <1>3, <1>4 DEF SetStatus, WithStatus

(* What the steps of a worker do to the retries.                           *)
LEMMA WorkRetries ==
    ASSUME TypeInv, NEW w \in Workers, Work(w)
    PROVE  RetryEffects
<1> USE DEF jobVars, siteVars, workerVars, bounds
<1>0. /\ faults \in Nat
      /\ faults <= faults
      /\ Fault => faults' \in Nat /\ faults <= faults'
  BY DEF TypeInv, QueueTypeOK, Fault
<1>1. CASE Pick(w)
  <2>1. PICK j \in Due : held' = [held EXCEPT ![w] = j]
    BY <1>1 DEF Pick
  <2>2. Quiet
    BY <1>1, <2>1 DEF Pick, Goto, Quiet, TypeInv, QueueTypeOK
  <2> QED
    BY <1>0, <1>1, <2>2, QuietEffect DEF Pick, RetryEffects
<1>2. CASE Claim(w)
  <2>1. Quiet
    BY <1>2, GotoQuiet DEF Claim
  <2>2. held[w] \in Jobs
    BY <1>2, HeldRow DEF Claim
  <2> QED
    BY <1>2, <2>1, <2>2, QuietEffect, SetStatusPruned DEF Claim, RetryEffects
<1>3. CASE Reject(w)
  <2>1. Quiet
    BY <1>3, FinishQuiet DEF Reject
  <2>2. held[w] \in Jobs
    BY <1>3, HeldRow DEF Reject
  <2> QED
    BY <1>3, <2>1, <2>2, QuietEffect, SetStatusPruned DEF Reject, RetryEffects
<1>4. CASE Commit(w)
  <2>1. Quiet
    BY <1>4, GotoQuiet DEF Commit
  <2> QED
    BY <1>0, <1>4, <2>1, QuietEffect DEF Commit, RetryEffects
<1>5. CASE Rollback(w)
  <2>1. Quiet
    BY <1>5, GotoQuiet DEF Rollback
  <2> QED
    BY <1>0, <1>5, <2>1, QuietEffect DEF Rollback, RetryEffects
<1>6. CASE ReadRetries(w)
  <2>0. /\ held[w] \in Jobs
        /\ pc \in [Workers -> Labels]
        /\ UNCHANGED <<retries, held, status>>
    BY <1>6, HeldRow DEF ReadRetries, TypeInv, QueueTypeOK
  <2>1. \A j \in Jobs : j # held[w] =>
            RetryingIn(pc', held', j) \subseteq RetryingIn(pc, held, j)
    BY <1>6, <2>0 DEF ReadRetries, Goto, RetryingIn
  <2>2. \A j \in Jobs : j # held[w] => RetryEffect(j)
    BY <2>0, <2>1 DEF RetryEffect
  <2>3. RetryEffect(held[w])
    <3>1. CASE Goto(w, "giving-up")
      <4>1. Quiet
        BY <2>0, <3>1, GotoQuiet
      <4> QED
        BY <2>0, <4>1, QuietEffect
    <3>2. CASE retries[held[w]] < MaxRetries \/ status[held[w]] = "pruned"
      BY <2>0, <3>2 DEF RetryEffect
    <3>3. CASE Goto(w, "retrying") /\ Fault
      <4>1. RetryingIn(pc', held', held[w])
                \subseteq RetryingIn(pc, held, held[w]) \cup {w}
        BY <2>0, <3>3 DEF Goto, RetryingIn
      <4> QED
        BY <2>0, <3>3, <4>1 DEF RetryEffect, Fault
    <3> QED
      BY <1>6, <3>1, <3>2, <3>3 DEF ReadRetries
  <2> QED
    BY <1>0, <1>6, <2>0, <2>2, <2>3 DEF ReadRetries, RetryEffects
<1>7. CASE Requeue(w)
  <2>0. /\ held[w] \in Jobs
        /\ pc[w] = "retrying"
        /\ pc \in [Workers -> Labels]
        /\ held \in [Workers -> 0..MaxJobs]
        /\ status \in [Jobs -> Statuses]
        /\ retries \in [Jobs -> Nat]
        /\ 0 \notin Jobs
    BY <1>7, HeldRow DEF Requeue, TypeInv, QueueTypeOK, Jobs
  <2>1. /\ \A j \in Jobs : status[j] = "pruned" => status'[j] = "pruned"
        /\ faults' \in Nat /\ faults <= faults'
    <3>1. \/ status' = status
          \/ /\ status' = [status EXCEPT ![held[w]] = "pending"]
             /\ status[held[w]] # "pruned"
      BY <1>7 DEF Requeue
    <3>2. \A j \in Jobs : status[j] = "pruned" => status'[j] = "pruned"
      BY <2>0, <3>1
    <3> QED
      BY <1>0, <1>7, <3>2 DEF Requeue
  <2>2. \A j \in Jobs : RetryingIn(pc', held', j)
                            \subseteq RetryingIn(pc, held, j) \ {w}
    BY <1>7, <2>0 DEF Requeue, Finish, Goto, RetryingIn
  <2>3. ASSUME NEW j \in Jobs PROVE RetryEffect(j)
    <3>1. CASE retries'[j] = retries[j]
      BY <2>2, <3>1 DEF RetryEffect
    <3>2. CASE retries'[j] # retries[j]
      <4>1. /\ retries' = [retries EXCEPT ![held[w]] = @ + 1]
            /\ status[held[w]] # "pruned"
        BY <1>7, <3>2 DEF Requeue
      <4>2. /\ j = held[w]
            /\ retries'[j] = retries[j] + 1
            /\ status[j] # "pruned"
        BY <2>0, <3>2, <4>1
      <4>3. w \in RetryingIn(pc, held, j)
        BY <2>0, <4>2 DEF RetryingIn
      <4> QED
        BY <2>2, <4>2, <4>3 DEF RetryEffect
    <3> QED
      BY <3>1, <3>2
  <2> QED
    BY <2>1, <2>3 DEF RetryEffects
<1>8. CASE DeadLetter(w)
  <2>1. Quiet
    BY <1>8, FinishQuiet DEF DeadLetter
  <2>2. held[w] \in Jobs
    BY <1>8, HeldRow DEF DeadLetter
  <2> QED
    BY <1>8, <2>1, <2>2, QuietEffect, SetStatusPruned DEF DeadLetter, RetryEffects
<1>9. CASE ReadRow(w)
  <2>1. Quiet
    BY <1>9, GotoQuiet DEF ReadRow
  <2> QED
    BY <1>0, <1>9, <2>1, QuietEffect DEF ReadRow, RetryEffects
<1>10. CASE Render(w)
  <2>1. Quiet
    BY <1>10, GotoQuiet DEF Render
  <2> QED
    BY <1>0, <1>10, <2>1, QuietEffect DEF Render, RetryEffects
<1>11. CASE Complete(w)
  <2>1. Quiet
    BY <1>11, FinishQuiet DEF Complete
  <2>2. held[w] \in Jobs
    BY <1>11, HeldRow DEF Complete
  <2> QED
    BY <1>11, <2>1, <2>2, QuietEffect, SetStatusPruned DEF Complete, RetryEffects
<1> QED
  BY <1>1, <1>2, <1>3, <1>4, <1>5, <1>6, <1>7, <1>8, <1>9, <1>10, <1>11 DEF Work

(* What any step does to the retries: only a worker adds to them, and a    *)
(* replay sets them to zero.                                               *)
LEMMA StepRetries ==
    ASSUME TypeInv, [Next]_vars
    PROVE  RetryEffects
<1> USE DEF jobVars, siteVars, workerVars, bounds
<1> DEFINE Kept == \A j \in Jobs : status[j] = "pruned" => status'[j] = "pruned"
<1>0. /\ faults \in Nat
      /\ Fault => faults' \in Nat /\ faults <= faults'
      /\ UNCHANGED faults => faults' \in Nat /\ faults <= faults'
  BY DEF TypeInv, QueueTypeOK, Fault
<1>00. ASSUME Kept, UNCHANGED <<retries, pc, held>>,
              UNCHANGED faults \/ Fault
       PROVE  RetryEffects
  <2>1. Quiet
    BY <1>00 DEF Quiet
  <2> QED
    BY <1>0, <1>00, <2>1, QuietEffect DEF RetryEffects
<1>1. CASE UNCHANGED vars
  BY <1>00, <1>1 DEF vars
<1>2. ASSUME NEW p \in Producers, NEW r \in Offered, Submit(p, r)
      PROVE  RetryEffects
  BY <1>00, <1>2 DEF Submit
<1>3. ASSUME NEW p \in Producers, InsertJob(p)
      PROVE  RetryEffects
  <2>1. \/ status' = status
        \/ \E j \in Absent : status' = [status EXCEPT ![j] = "pending"]
    BY <1>3 DEF InsertJob
  <2>2. Kept
    BY <2>1 DEF TypeInv, QueueTypeOK, Absent
  <2> QED
    BY <1>00, <1>3, <2>2 DEF InsertJob
<1>4. ASSUME NEW w \in Workers, Work(w)
      PROVE  RetryEffects
  BY <1>4, WorkRetries
<1>5. CASE Reap
  <2>1. Kept
    BY <1>5 DEF Reap, Stuck
  <2> QED
    BY <1>00, <1>5, <2>1 DEF Reap
<1>6. CASE Prune
  <2>1. Kept
    BY <1>6 DEF Prune, Expired
  <2> QED
    BY <1>00, <1>6, <2>1 DEF Prune
<1>7. ASSUME NEW j \in Jobs, BackoffElapses(j) \/ GrowOlder(j)
      PROVE  RetryEffects
  BY <1>00, <1>7 DEF BackoffElapses, GrowOlder
<1>8. ASSUME NEW i \in Jobs, ReplayJob(i) \/ ReplayBatchRow(i)
      PROVE  RetryEffects
  <2>1. \/ UNCHANGED <<status, retries>>
        \/ /\ status' = [status EXCEPT ![i] = "pending"]
           /\ retries' = [retries EXCEPT ![i] = 0]
           /\ status[i] # "pruned"
    BY <1>8 DEF ReplayJob, ReplayBatchRow, ReplayRow, Dead
  <2>2. UNCHANGED <<pc, held>> /\ (UNCHANGED faults \/ Fault)
    BY <1>8 DEF ReplayJob, ReplayBatchRow
  <2>3. CASE UNCHANGED <<status, retries>>
    BY <1>00, <2>2, <2>3
  <2>4. CASE /\ status' = [status EXCEPT ![i] = "pending"]
             /\ retries' = [retries EXCEPT ![i] = 0]
             /\ status[i] # "pruned"
    <3>1. Kept
      BY <2>4 DEF TypeInv, QueueTypeOK
    <3>2. \A j \in Jobs : retries'[j] = retries[j] \/ retries'[j] = 0
      BY <2>4 DEF TypeInv, QueueTypeOK
    <3>3. \A j \in Jobs : RetryEffect(j)
      BY <2>2, <3>2 DEF RetryEffect
    <3> QED
      BY <1>0, <2>2, <3>1, <3>3 DEF RetryEffects
  <2> QED
    BY <2>1, <2>3, <2>4
<1>9. ASSUME NEW i \in Jobs, QuarantineRow(i)
      PROVE  RetryEffects
  <2>1. Kept
    BY <1>9, SetStatusPruned DEF QuarantineRow
  <2> QED
    BY <1>00, <1>9, <2>1 DEF QuarantineRow, SetStatus
<1>10. CASE ReplaySweep
  BY <1>00, <1>10 DEF ReplaySweep
<1>11. ASSUME NEW m \in OfferedModes, SetMode(m)
       PROVE  RetryEffects
  BY <1>00, <1>11 DEF SetMode
<1>12. CASE Restart
  <2>1. Kept
    BY <1>12 DEF Restart, Processing
  <2>2. Quiet
    BY <1>12 DEF Restart, Quiet
  <2> QED
    BY <1>0, <1>12, <2>1, <2>2, QuietEffect DEF Restart, RetryEffects
<1> QED
  BY <1>1, <1>2, <1>3, <1>4, <1>5, <1>6, <1>7, <1>8, <1>9, <1>10, <1>11,
     <1>12 DEF Next, Step

LEMMA RetryInit == Init => RetryInv
<1> SUFFICES ASSUME Init PROVE RetryInv
  OBVIOUS
<1>1. /\ MaxRetries \in Nat /\ MaxRetries >= 1 /\ faults = 0
      /\ \A j \in Jobs : retries[j] = 0
  BY LimitsAssumption DEF Init
<1>2. ASSUME NEW j \in Jobs
      PROVE  /\ Cardinality(RetryingIn(pc, held, j)) \in Nat
             /\ Cardinality(Workers) \in Nat
             /\ Cardinality(RetryingIn(pc, held, j)) <= Cardinality(Workers)
  BY RetryingCount DEF RetryingIn
<1>3. ASSUME NEW j \in Jobs
      PROVE  /\ retries[j] + Cardinality(RetryingIn(pc, held, j))
                    <= MaxRetries + Cardinality(Workers) - 1 + faults
             /\ retries[j] <= MaxRetries + Cardinality(Workers) - 1 + faults
  BY <1>1, <1>2
<1> QED
  BY <1>3 DEF RetryInv, RetriesBounded, RetryBound

(* Workers on one job push its retries past the limit by at most one less  *)
(* than their number, failed reads of the counter aside.                   *)
THEOREM RetriesBoundedHolds == Spec => []RetriesBounded
<1>1. Init => TypeInv /\ RetryInv
  BY TypeInit, RetryInit
<1>2. TypeInv /\ RetryInv /\ [Next]_vars => TypeInv' /\ RetryInv'
  BY TypeStep, StepRetries, RetryPreserved
<1>3. RetryInv => RetriesBounded
  BY DEF RetryInv
<1> QED
  BY <1>1, <1>2, <1>3, PTL DEF Spec

-----------------------------------------------------------------------------
(* The rows that are pending for the first time.                           *)
Fresh == Pending \ returned

(* A step that takes no row and no call into the queue.                    *)
TakesNothingIn ==
    /\ Fresh' \subseteq Fresh
    /\ Admitted' \subseteq Admitted
    /\ faults' \in Nat /\ faults <= faults'

(* A row that turns pending again is on the record of those that did.      *)
LEMMA NothingIn ==
    ASSUME TypeInv, UNCHANGED request, UNCHANGED faults \/ Fault,
           returned \subseteq returned',
           \A j \in Jobs : status'[j] = "pending" =>
               status[j] = "pending" \/ j \in returned'
    PROVE  TakesNothingIn
<1>1. Fresh' \subseteq Fresh
  BY DEF Fresh, Pending
<1>2. Admitted' \subseteq Admitted
  BY DEF Admitted
<1>3. faults' \in Nat /\ faults <= faults'
  BY DEF Fault, TypeInv, QueueTypeOK
<1> QED
  BY <1>1, <1>2, <1>3 DEF TakesNothingIn

LEMMA SetStatusTakesNothingIn ==
    ASSUME TypeInv, NEW i \in Jobs, NEW x, x # "pending", SetStatus(i, x),
           UNCHANGED <<request, returned>>
    PROVE  TakesNothingIn
<1>1. status \in [Jobs -> Statuses] /\ (UNCHANGED faults \/ Fault)
  BY DEF TypeInv, QueueTypeOK, SetStatus
<1>2. \A j \in Jobs : status'[j] = "pending" => status[j] = "pending"
  <2>1. CASE status' = status
    BY <2>1
  <2>2. CASE status' = [status EXCEPT ![i] = x]
    BY <1>1, <2>2
  <2> QED
    BY <2>1, <2>2 DEF SetStatus, WithStatus
<1> QED
  BY <1>1, <1>2, NothingIn

(* A worker takes nothing in: the row it puts back is on the record.       *)
LEMMA WorkTakesNothingIn ==
    ASSUME TypeInv, NEW w \in Workers, Work(w)
    PROVE  TakesNothingIn
<1> USE DEF jobVars, siteVars, workerVars, bounds
<1>1. CASE Pick(w) \/ Commit(w) \/ Rollback(w) \/ ReadRetries(w) \/ ReadRow(w)
             \/ Render(w)
  <2>1. /\ UNCHANGED <<request, returned, status>>
        /\ UNCHANGED faults \/ Fault
    BY <1>1 DEF Pick, Commit, Rollback, ReadRetries, ReadRow, Render
  <2> QED
    BY <2>1, NothingIn
<1>2. CASE Claim(w)
  BY <1>2, HeldRow, SetStatusTakesNothingIn DEF Claim
<1>3. CASE Reject(w)
  BY <1>3, HeldRow, SetStatusTakesNothingIn DEF Reject
<1>4. CASE DeadLetter(w)
  BY <1>4, HeldRow, SetStatusTakesNothingIn DEF DeadLetter
<1>5. CASE Complete(w)
  BY <1>5, HeldRow, SetStatusTakesNothingIn DEF Complete
<1>6. CASE Requeue(w)
  <2>1. /\ UNCHANGED request
        /\ UNCHANGED faults \/ Fault
        /\ \/ UNCHANGED <<status, returned>>
           \/ /\ status' = [status EXCEPT ![held[w]] = "pending"]
              /\ returned' = returned \cup {held[w]}
    BY <1>6 DEF Requeue
  <2>2. status \in [Jobs -> Statuses]
    BY DEF TypeInv, QueueTypeOK
  <2>3. \A j \in Jobs : status'[j] = "pending" =>
            status[j] = "pending" \/ j \in returned'
    BY <2>1, <2>2
  <2> QED
    BY <2>1, <2>3, NothingIn
<1> QED
  BY <1>1, <1>2, <1>3, <1>4, <1>5, <1>6 DEF Work

(* Only the two halves of Enqueue take anything into the queue.            *)
LEMMA StepTakesNothingIn ==
    ASSUME TypeInv, [Next]_vars,
           ~ \E p \in Producers, r \in Offered : Submit(p, r),
           ~ \E p \in Producers : InsertJob(p)
    PROVE  TakesNothingIn
<1> USE DEF jobVars, siteVars, workerVars, bounds
<1>0. status \in [Jobs -> Statuses]
  BY DEF TypeInv, QueueTypeOK
<1>1. CASE UNCHANGED vars
  BY <1>1, NothingIn DEF vars
<1>2. ASSUME NEW w \in Workers, Work(w)
      PROVE  TakesNothingIn
  BY <1>2, WorkTakesNothingIn
<1>3. CASE Reap
  <2>1. \A j \in Jobs : status'[j] = "pending" =>
            status[j] = "pending" \/ j \in returned'
    BY <1>3 DEF Reap
  <2> QED
    BY <1>3, <2>1, NothingIn DEF Reap
<1>4. CASE Prune
  <2>1. \A j \in Jobs : status'[j] = "pending" => status[j] = "pending"
    BY <1>4 DEF Prune
  <2> QED
    BY <1>4, <2>1, NothingIn DEF Prune
<1>5. ASSUME NEW j \in Jobs, BackoffElapses(j) \/ GrowOlder(j)
      PROVE  TakesNothingIn
  BY <1>5, NothingIn DEF BackoffElapses, GrowOlder
<1>6. ASSUME NEW i \in Jobs, ReplayJob(i) \/ ReplayBatchRow(i)
      PROVE  TakesNothingIn
  <2>1. /\ UNCHANGED request
        /\ UNCHANGED faults \/ Fault
        /\ \/ UNCHANGED <<status, returned>>
           \/ /\ status' = [status EXCEPT ![i] = "pending"]
              /\ returned' = returned \cup {i}
    BY <1>6 DEF ReplayJob, ReplayBatchRow, ReplayRow
  <2>2. \A j \in Jobs : status'[j] = "pending" =>
            status[j] = "pending" \/ j \in returned'
    BY <1>0, <2>1
  <2> QED
    BY <2>1, <2>2, NothingIn
<1>7. ASSUME NEW i \in Jobs, QuarantineRow(i)
      PROVE  TakesNothingIn
  BY <1>7, SetStatusTakesNothingIn DEF QuarantineRow
<1>8. CASE ReplaySweep
  BY <1>8, NothingIn DEF ReplaySweep
<1>9. ASSUME NEW m \in OfferedModes, SetMode(m)
      PROVE  TakesNothingIn
  BY <1>9, NothingIn DEF SetMode
<1>10. CASE Restart
  <2>1. \A j \in Jobs : status'[j] = "pending" =>
            status[j] = "pending" \/ j \in returned'
    BY <1>10 DEF Restart
  <2>2. Fresh' \subseteq Fresh
    BY <1>10, <2>1 DEF Restart, Fresh, Pending
  <2>3. Admitted' = {}
    BY <1>10 DEF Restart, Admitted
  <2>4. faults' \in Nat /\ faults <= faults'
    BY <1>10 DEF Restart, Fault, TypeInv, QueueTypeOK
  <2> QED
    BY <2>2, <2>3, <2>4 DEF TakesNothingIn
<1> QED
  BY <1>1, <1>2, <1>3, <1>4, <1>5, <1>6, <1>7, <1>8, <1>9, <1>10
     DEF Next, Step

(* The sets that are counted are finite.                                   *)
LEMMA QueueCounts ==
    /\ IsFiniteSet(Pending) /\ IsFiniteSet(Fresh) /\ IsFiniteSet(Admitted)
    /\ Cardinality(Fresh) \in Nat /\ Cardinality(Admitted) \in Nat
    /\ Cardinality(Pending) \in Nat /\ Cardinality(Producers) \in Nat
    /\ Cardinality(Fresh) <= Cardinality(Pending)
    /\ Cardinality(Admitted) <= Cardinality(Producers)
<1>1. IsFiniteSet(Jobs)
  BY WorkBounds, FS_Interval DEF Jobs
<1>2. Pending \subseteq Jobs /\ Fresh \subseteq Pending /\ Admitted \subseteq Producers
  BY DEF Pending, Fresh, Admitted
<1> QED
  BY <1>1, <1>2, PoolAssumption, FS_Subset, FS_CardinalityType

(* One more element counts one more at most.                               *)
LEMMA OneMore ==
    ASSUME NEW S, IsFiniteSet(S), NEW x
    PROVE  /\ IsFiniteSet(S \cup {x})
           /\ Cardinality(S \cup {x}) \in Nat
           /\ Cardinality(S \cup {x}) <= Cardinality(S) + 1
<1>1. IsFiniteSet(S \cup {x})
  BY FS_AddElement
<1>2. Cardinality(S) \in Nat /\ Cardinality(S \cup {x}) \in Nat
  BY <1>1, FS_CardinalityType
<1>3. CASE x \in S
  <2>1. S \cup {x} = S
    BY <1>3
  <2>2. Cardinality(S \cup {x}) = Cardinality(S)
    BY <2>1, Zenon
  <2> QED
    BY <1>1, <1>2, <2>2
<1>4. CASE x \notin S
  <2>1. Cardinality(S \cup {x}) = Cardinality(S) + 1
    BY <1>4, FS_AddElement
  <2> QED
    BY <1>1, <1>2, <2>1
<1> QED
  BY <1>3, <1>4

(* The bound holds whatever is requested.                                  *)
LEMMA BacklogKept ==
    ASSUME TypeInv, TypeInv', FreshBacklogBounded,
           \/ \E p \in Producers, r \in Requests : Submit(p, r)
           \/ \E p \in Producers : InsertJob(p)
           \/ TakesNothingIn
    PROVE  FreshBacklogBounded'
<1> DEFINE f  == Cardinality(Fresh)
           a  == Cardinality(Admitted)
           f2 == Cardinality(Fresh')
           a2 == Cardinality(Admitted')
           n  == Cardinality(Producers)
<1> SUFFICES ASSUME HardLimit > 0
             PROVE  f2 + a2 <= HardLimit + n - 1 + faults'
  BY DEF FreshBacklogBounded, Fresh
<1>0. /\ f + a <= HardLimit + n - 1 + faults
      /\ faults \in Nat /\ faults' \in Nat /\ HardLimit \in Nat
      /\ f \in Nat /\ a \in Nat /\ n \in Nat
      /\ IsFiniteSet(Fresh) /\ IsFiniteSet(Admitted)
      /\ f <= Cardinality(Pending) /\ Cardinality(Pending) \in Nat
  BY QueueCounts, LimitsAssumption DEF FreshBacklogBounded, Fresh, TypeInv, QueueTypeOK
<1>00. f2 \in Nat /\ a2 \in Nat /\ a2 <= n
  <2>1. Fresh' \subseteq Jobs /\ Admitted' \subseteq Producers
    BY DEF Fresh, Pending, Admitted
  <2>2. IsFiniteSet(Jobs)
    BY WorkBounds, FS_Interval DEF Jobs
  <2> QED
    BY <2>1, <2>2, PoolAssumption, FS_Subset, FS_CardinalityType
<1>1. ASSUME NEW p \in Producers, NEW r \in Requests, Submit(p, r)
      PROVE  f2 + a2 <= HardLimit + n - 1 + faults'
  <2>1. Fresh' = Fresh
    BY <1>1 DEF Submit, jobVars, Fresh, Pending
  <2>2. Admitted' \subseteq Admitted \cup {p}
    BY <1>1 DEF Submit, Admitted, TypeInv, QueueTypeOK
  <2>3. a2 <= a + 1
    <3>1. /\ IsFiniteSet(Admitted \cup {p})
          /\ Cardinality(Admitted \cup {p}) <= a + 1
          /\ Cardinality(Admitted \cup {p}) \in Nat
      BY <1>0, OneMore
    <3>2. a2 <= Cardinality(Admitted \cup {p})
      BY <2>2, <3>1, FS_Subset
    <3> QED
      BY <1>0, <1>00, <3>1, <3>2
  <2>4. CASE Cardinality(Pending) < HardLimit /\ UNCHANGED faults
    BY <1>0, <1>00, <2>1, <2>4
  <2>5. CASE Fault
    BY <1>0, <1>00, <2>1, <2>3, <2>5 DEF Fault
  <2> QED
    BY <1>1, <2>4, <2>5 DEF Submit
<1>2. ASSUME NEW p \in Producers, InsertJob(p)
      PROVE  f2 + a2 <= HardLimit + n - 1 + faults'
  <2>1. /\ status \in [Jobs -> Statuses]
        /\ request \in [Producers -> Requests \cup {NoRequest}]
    BY DEF TypeInv, QueueTypeOK
  <2>2. PICK j \in Jobs \cup {0} : Fresh' \subseteq Fresh \cup {j}
    <3>1. /\ UNCHANGED returned
          /\ \/ UNCHANGED status
             \/ \E i \in Absent : status' = [status EXCEPT ![i] = "pending"]
      BY <1>2 DEF InsertJob
    <3>2. CASE UNCHANGED status
      BY <3>1, <3>2 DEF Fresh, Pending
    <3>3. CASE \E i \in Absent : status' = [status EXCEPT ![i] = "pending"]
      <4>1. PICK i \in Absent : status' = [status EXCEPT ![i] = "pending"]
        BY <3>3
      <4>2. Fresh' \subseteq Fresh \cup {i}
        BY <2>1, <3>1, <4>1 DEF Fresh, Pending
      <4> QED
        BY <4>2 DEF Absent
    <3> QED
      BY <3>1, <3>2, <3>3
  <2>3. f2 <= f + 1
    <3>1. /\ IsFiniteSet(Fresh \cup {j})
          /\ Cardinality(Fresh \cup {j}) <= f + 1
          /\ Cardinality(Fresh \cup {j}) \in Nat
      BY <1>0, OneMore
    <3>2. f2 <= Cardinality(Fresh \cup {j})
      BY <2>2, <3>1, FS_Subset
    <3> QED
      BY <1>0, <1>00, <3>1, <3>2
  <2>4. a2 = a - 1
    <3>1. p \in Admitted /\ Admitted' = Admitted \ {p}
      BY <1>2, <2>1 DEF InsertJob, Admitted
    <3> QED
      BY <1>0, <3>1, FS_RemoveElement
  <2>5. faults <= faults'
    BY <1>0, <1>2 DEF InsertJob, Fault
  <2> QED
    BY <1>0, <1>00, <2>3, <2>4, <2>5
<1>3. CASE TakesNothingIn
  <2>1. f2 <= f /\ a2 <= a
    BY <1>0, <1>3, FS_Subset DEF TakesNothingIn
  <2> QED
    BY <1>0, <1>00, <1>3, <2>1 DEF TakesNothingIn
<1> QED
  BY <1>1, <1>2, <1>3

(* The bound holds through every step.                                     *)
LEMMA BacklogStep ==
    ASSUME TypeInv, TypeInv', FreshBacklogBounded, [Next]_vars
    PROVE  FreshBacklogBounded'
  BY StepTakesNothingIn, BacklogKept, OfferedAssumption

LEMMA BacklogInit == Init => FreshBacklogBounded
<1> SUFFICES ASSUME Init, HardLimit > 0
             PROVE  Cardinality(Fresh) + Cardinality(Admitted)
                      <= HardLimit + Cardinality(Producers) - 1 + faults
  BY DEF FreshBacklogBounded, Fresh
<1>1. Fresh = {} /\ faults = 0 /\ HardLimit \in Nat
  BY LimitsAssumption DEF Init, Fresh, Pending
<1>2. Cardinality(Fresh) = 0
  BY <1>1, FS_EmptySet
<1> QED
  BY <1>1, <1>2, QueueCounts

(* Concurrent calls of Enqueue pass the limit together by at most one less *)
(* than their number, failed reads of the depth aside.                     *)
THEOREM FreshBacklogBoundedHolds == Spec => []FreshBacklogBounded
<1>1. TypeInv /\ FreshBacklogBounded /\ [Next]_vars
          => TypeInv' /\ FreshBacklogBounded'
  BY TypeStep, BacklogStep
<1> QED
  BY <1>1, BacklogInit, TypeInit, PTL DEF Spec

-----------------------------------------------------------------------------
(* A worker with a job in hand that it has not yet applied.                *)
Before == {"picked", "claimed"}

(* The bound alone is not inductive: a worker that may still commit has    *)
(* not done so since the refusal began, and in an open mode none counts.   *)
RefusalInv ==
    /\ pc \in [Workers -> Labels]
    /\ late \in [Workers -> {0, 1}]
    /\ \A w \in Workers : mode # "refused" => late[w] = 0
    /\ \A w \in Workers : pc[w] \in Before => late[w] = 0

(* What a step may do to the program counters, the outbox and the mode: no *)
(* worker takes a job while the mode refuses, and one that writes the      *)
(* outbox had claimed its job and is done with it.                         *)
Progress ==
    /\ pc' \in [Workers -> Labels]
    /\ \A w \in Workers : pc'[w] \in Before =>
          pc[w] \in Before \/ (mode # "refused" /\ mode' # "refused")
    /\ \A w \in Workers : Commits(w) => pc[w] = "claimed" /\ pc'[w] \notin Before

(* A worker that goes on without a commit, and without taking a job.       *)
LEMMA GoesOn ==
    ASSUME pc \in [Workers -> Labels], NEW v \in Workers, NEW l \in Labels,
           Goto(v, l), UNCHANGED outbox, l \in Before => pc[v] \in Before
    PROVE  Progress
  BY DEF Progress, Goto, Commits

LEMMA Returns ==
    ASSUME pc \in [Workers -> Labels], NEW v \in Workers, Finish(v),
           UNCHANGED outbox
    PROVE  Progress
<1>1. "idle" \in Labels /\ "idle" \notin Before
  BY DEF Labels, Before
<1> QED
  BY <1>1, GoesOn DEF Finish

(* The steps of a worker.                                                  *)
LEMMA WorkProgress ==
    ASSUME pc \in [Workers -> Labels], NEW v \in Workers, Work(v)
    PROVE  Progress
<1> USE DEF siteVars
<1>0. Before \subseteq Labels
  BY DEF Before, Labels
<1>1. CASE Pick(v)
  <2>1. Goto(v, "picked") /\ UNCHANGED <<mode, outbox>> /\ mode # "refused"
    BY <1>1 DEF Pick
  <2> QED
    BY <1>0, <2>1 DEF Progress, Goto, Commits, Before
<1>2. CASE Claim(v)
  <2>1. Goto(v, "claimed") /\ UNCHANGED outbox /\ pc[v] = "picked"
    BY <1>2 DEF Claim
  <2> QED
    BY <1>0, <2>1, GoesOn DEF Before
<1>3. CASE Reject(v)
  BY <1>3, Returns DEF Reject
<1>4. CASE Commit(v)
  <2>1. PICK l \in {"done", "applied"} : Goto(v, l)
    BY <1>4 DEF Commit
  <2>2. l \in Labels /\ l \notin Before /\ pc[v] = "claimed"
    BY <1>4 DEF Commit, Labels, Before
  <2> QED
    BY <2>1, <2>2 DEF Progress, Goto, Commits
<1>5. CASE Rollback(v)
  BY <1>5, GoesOn DEF Rollback, Labels, Before
<1>6. CASE ReadRetries(v)
  BY <1>6, GoesOn DEF ReadRetries, Labels, Before
<1>7. CASE Requeue(v)
  BY <1>7, Returns DEF Requeue
<1>8. CASE DeadLetter(v)
  BY <1>8, Returns DEF DeadLetter
<1>9. CASE ReadRow(v)
  BY <1>9, GoesOn DEF ReadRow, Labels, Before
<1>10. CASE Render(v)
  BY <1>10, GoesOn DEF Render, Labels, Before
<1>11. CASE Complete(v)
  BY <1>11, Returns DEF Complete
<1> QED
  BY <1>1, <1>2, <1>3, <1>4, <1>5, <1>6, <1>7, <1>8, <1>9, <1>10, <1>11
  DEF Work

(* Every step.                                                             *)
LEMMA StepProgress ==
    ASSUME pc \in [Workers -> Labels], [Next]_vars
    PROVE  Progress
<1> USE DEF siteVars, workerVars
<1> DEFINE Apart == UNCHANGED <<outbox, pc>>
<1>0. ASSUME Apart PROVE Progress
  BY <1>0 DEF Progress, Commits
<1>1. CASE UNCHANGED vars
  BY <1>0, <1>1 DEF vars
<1>2. ASSUME NEW p \in Producers, NEW r \in Offered, Submit(p, r) PROVE Apart
  BY <1>2 DEF Submit
<1>3. ASSUME NEW p \in Producers, InsertJob(p) PROVE Apart
  BY <1>3 DEF InsertJob
<1>4. ASSUME NEW v \in Workers, Work(v) PROVE Progress
  BY <1>4, WorkProgress
<1>5. CASE Reap \/ Prune \/ ReplaySweep
  BY <1>0, <1>5 DEF Reap, Prune, ReplaySweep
<1>6. ASSUME NEW j \in Jobs, BackoffElapses(j) \/ GrowOlder(j) PROVE Apart
  BY <1>6 DEF BackoffElapses, GrowOlder
<1>7. ASSUME NEW j \in Jobs,
             ReplayJob(j) \/ QuarantineRow(j) \/ ReplayBatchRow(j)
      PROVE  Apart
  BY <1>7 DEF ReplayJob, QuarantineRow, ReplayBatchRow
<1>8. ASSUME NEW m \in OfferedModes, SetMode(m) PROVE Apart
  BY <1>8 DEF SetMode
<1>9. CASE Restart
  BY <1>9 DEF Restart, Progress, Commits, Labels, Before
<1> HIDE DEF Apart
<1> QED
  BY <1>0, <1>1, <1>2, <1>3, <1>4, <1>5, <1>6, <1>7, <1>8, <1>9
  DEF Next, Step

LEMMA RefusalStep ==
    ASSUME RefusalInv, [RefusalNext]_refusalVars
    PROVE  RefusalInv'
<1>1. CASE UNCHANGED refusalVars
  BY <1>1 DEF RefusalInv, refusalVars, vars, workerVars
<1>2. CASE RefusalNext
  <2>1. Progress
    BY <1>2, StepProgress DEF RefusalNext, RefusalInv
  <2>2. late' = [w \in Workers |->
                    IF mode' # "refused" THEN 0
                    ELSE IF Commits(w) THEN late[w] + 1
                    ELSE late[w]]
    BY <1>2 DEF RefusalNext
  <2>3. ASSUME NEW w \in Workers
        PROVE  /\ late'[w] \in {0, 1}
               /\ mode' # "refused" => late'[w] = 0
               /\ pc'[w] \in Before => late'[w] = 0
    <3>1. CASE mode' # "refused"
      BY <2>2, <3>1
    <3>2. CASE mode' = "refused" /\ Commits(w)
      <4>1. pc[w] \in Before /\ pc'[w] \notin Before
        BY <2>1, <3>2 DEF Progress, Before
      <4>2. late[w] = 0
        BY <4>1 DEF RefusalInv
      <4> QED
        BY <2>2, <3>2, <4>1, <4>2
    <3>3. CASE mode' = "refused" /\ ~Commits(w)
      <4>1. late'[w] = late[w] /\ late[w] \in {0, 1}
        BY <2>2, <3>3 DEF RefusalInv
      <4>2. ASSUME pc'[w] \in Before PROVE late[w] = 0
        BY <2>1, <3>3, <4>2 DEF Progress, RefusalInv
      <4> QED
        BY <3>3, <4>1, <4>2
    <3> QED
      BY <3>1, <3>2, <3>3
  <2>4. late' \in [Workers -> {0, 1}]
    BY <2>2, <2>3
  <2> QED
    BY <2>1, <2>3, <2>4 DEF RefusalInv, Progress
<1> QED
  BY <1>1, <1>2

(* Once the mode refuses content writes, each worker commits at most the   *)
(* one job it had taken before (processOneJob).                            *)
THEOREM RefusalTakesEffectHolds == RefusalSpec => []RefusalTakesEffect
<1>1. RefusalInit => RefusalInv
  BY DEF RefusalInit, Init, RefusalInv, Labels, Before
<1>2. RefusalInv /\ [RefusalNext]_refusalVars => RefusalInv'
  BY RefusalStep
<1>3. RefusalInv => RefusalTakesEffect
  BY DEF RefusalInv, RefusalTakesEffect
<1> QED
  BY <1>1, <1>2, <1>3, PTL DEF RefusalSpec

=============================================================================

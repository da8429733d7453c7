-------------------------- MODULE SystemModeProofs --------------------------
(***************************************************************************)
(* Machine-checked facts about SystemMode, for any set of console          *)
(* operators, any thresholds and any bounds.                               *)
(***************************************************************************)
EXTENDS SystemMode, SequenceTheorems, TLAPS

(* A recorded transition is a transition row, whoever caused it.           *)
LEMMA RecordType ==
    ASSUME TypeOK, NEW to \in Modes, NEW c \in Causes
    PROVE  Record(to, c) \in Transitions
  BY DEF TypeOK, Record, Transitions

(* The placeholder for "no forced transition in progress" is well typed.   *)
LEMMA NoTransitionType == NoTransition \in Transitions
  BY DEF NoTransition, Transitions, Modes, Causes

(* Writing a row keeps the journal a sequence of rows.                     *)
LEMMA WriteType ==
    ASSUME TypeOK, NEW t \in Transitions, write(t)
    PROVE  /\ journal' \in Seq(Transitions)
           /\ lostRows' \in Nat
<1>1. CASE journal' = Append(journal, t) /\ UNCHANGED lostRows
  BY <1>1, AppendProperties DEF TypeOK
<1>2. CASE lostRows' = lostRows + 1 /\ UNCHANGED journal
  BY <1>2 DEF TypeOK
<1>3. CASE UNCHANGED <<journal, lostRows>>
  BY <1>3 DEF TypeOK
<1> QED
  BY <1>1, <1>2, <1>3 DEF write

(* Manager.Transition keeps the types, refused or not.                     *)
LEMMA TransitionType ==
    ASSUME TypeOK, NEW to \in Modes, NEW c \in Causes, Transition(to, c)
    PROVE  /\ current' \in Modes
           /\ history' \in Seq(Transitions)
           /\ journal' \in Seq(Transitions)
           /\ clock' \in Nat
           /\ lostRows' \in Nat
<1>1. CASE Refused(to) /\ UNCHANGED <<current, history, journal, clock, lostRows>>
  BY <1>1 DEF TypeOK
<1>2. CASE /\ clock' = clock + 1
           /\ current' = to
           /\ history' = Append(history, Record(to, c))
           /\ write(Record(to, c))
  <2>1. Record(to, c) \in Transitions
    BY RecordType
  <2>2. journal' \in Seq(Transitions) /\ lostRows' \in Nat
    BY <1>2, <2>1, WriteType
  <2> QED
    BY <1>2, <2>1, <2>2 DEF TypeOK
<1> QED
  BY <1>1, <1>2 DEF Transition

(* What a restart carries into memory is a sequence of rows ending, when   *)
(* it is not empty, in the journal's last row.                             *)
LEMMA RestoreKeepsTail ==
    ASSUME TypeOK, Restore
    PROVE  /\ history' \in Seq(Transitions)
           /\ restored' = Len(history')
           /\ history' = <<>> <=> journal = <<>>
           /\ journal # <<>> => history'[Len(history')] = journal[Len(journal)]
<1> DEFINE m == Len(journal) - RestoredHistory + 1
           past == SubSeq(journal, m, Len(journal))
<1>0. Len(journal) \in Nat /\ RestoredHistory \in Nat \ {0}
  BY HistoryAssumption, LenProperties DEF TypeOK
<1>1. CASE Len(journal) > RestoredHistory
  <2>1. history' = past /\ restored' = Len(past)
    BY <1>1 DEF Restore
  <2>2. m \in 1..Len(journal) + 1
    BY <1>0, <1>1
  <2>3. /\ past \in Seq(Transitions)
        /\ Len(past) = Len(journal) - m + 1
        /\ \A i \in 1..Len(journal) - m + 1 : past[i] = journal[m + i - 1]
    BY <2>2, <1>0, <1>1, SubSeqProperties DEF TypeOK
  <2>4. Len(past) = RestoredHistory
    BY <2>3, <1>0
  <2>5. past[RestoredHistory] = journal[Len(journal)]
    BY <2>3, <2>4, <1>0
  <2>6. past # <<>> /\ journal # <<>>
    <3>1. Len(past) # 0 /\ Len(journal) # 0
      BY <2>4, <1>0, <1>1
    <3> HIDE DEF past
    <3> QED
      BY <3>1
  <2> QED
    BY <2>1, <2>3, <2>4, <2>5, <2>6
<1>2. CASE ~(Len(journal) > RestoredHistory)
  BY <1>2 DEF Restore, TypeOK
<1> QED
  BY <1>1, <1>2

-----------------------------------------------------------------------------
(* Every variable keeps its type.                                          *)
LEMMA TypeStep ==
    ASSUME TypeOK, [Next]_vars
    PROVE  TypeOK'
<1>1. CASE UNCHANGED vars
  BY <1>1 DEF TypeOK, vars
<1>2. ASSUME NEW to \in Modes, OperatorTransition(to)
      PROVE  TypeOK'
  <2>1. "operator" \in Causes
    BY DEF Causes
  <2> QED
    BY <1>2, <2>1, TransitionType DEF TypeOK, OperatorTransition
<1>3. ASSUME NEW o \in Operators, NEW to \in Modes, ForceTransition(o, to)
      PROVE  TypeOK'
  <2>1. Record(to, "operator.force") \in Transitions
    BY RecordType DEF Causes
  <2> QED
    BY <1>3, <2>1, AppendProperties DEF TypeOK, ForceTransition
<1>4. ASSUME NEW o \in Operators, ForceHooks(o)
      PROVE  TypeOK'
  <2>1. forcing[o] \in Transitions
    BY DEF TypeOK
  <2>2. journal' \in Seq(Transitions) /\ lostRows' \in Nat
    BY <1>4, <2>1, WriteType DEF ForceHooks
  <2> QED
    BY <1>4, <2>2, NoTransitionType DEF TypeOK, ForceHooks
<1>5. ASSUME NEW f \in Faults, NEW late \in BOOLEAN, RecordFault(f, late)
      PROVE  TypeOK'
  <2>1. windowCount' \in [Faults -> Nat]
    BY <1>5 DEF RecordFault, TypeOK
  <2>2. TargetMode(f) \in Modes /\ "fault" \in Causes
    BY DEF TargetMode, Faults, Modes, Causes
  <2>3. \/ Transition(TargetMode(f), "fault")
        \/ UNCHANGED <<current, history, journal, clock, lostRows>>
    BY <1>5 DEF RecordFault
  <2>4. UNCHANGED <<hooks, forcing, exhausted, restored, restarts>>
    BY <1>5 DEF RecordFault
  <2> QED
    BY <2>1, <2>2, <2>3, <2>4, TransitionType DEF TypeOK
<1>6. ASSUME NEW b \in Budgets, NEW e \in BOOLEAN, EvaluateBudget(b, e)
      PROVE  TypeOK'
  <2>1. exhausted' \in SUBSET Budgets
    BY <1>6 DEF EvaluateBudget, TypeOK
  <2>2. targetModeFor(b) \in Modes /\ "budget" \in Causes
    BY DEF targetModeFor, Modes, Causes
  <2>3. \/ Transition(targetModeFor(b), "budget")
        \/ UNCHANGED <<current, history, journal, clock, lostRows>>
    BY <1>6 DEF EvaluateBudget
  <2>4. UNCHANGED <<hooks, forcing, windowCount, restored, restarts>>
    BY <1>6 DEF EvaluateBudget
  <2> QED
    BY <2>1, <2>2, <2>3, <2>4, TransitionType DEF TypeOK
<1>7. ASSUME Restart
      PROVE  TypeOK'
  <2>1. /\ UNCHANGED <<journal, clock, lostRows>>
        /\ restarts' = restarts + 1
        /\ forcing' = [o \in Operators |-> NoTransition]
        /\ windowCount' = [f \in Faults |-> 0]
        /\ exhausted' = {}
        /\ hooks' \in SUBSET {"journal"}
    BY <1>7 DEF Restart
  <2>2. CASE Restore
    <3>1. history' \in Seq(Transitions) /\ restored' = Len(history')
      BY <2>2, RestoreKeepsTail
    <3>2. current' \in Modes
      <4>1. CASE journal = <<>>
        BY <2>2, <4>1 DEF Restore, Modes
      <4>2. CASE journal # <<>>
        <5>1. journal[Len(journal)] \in Transitions
          BY <4>2, LenProperties DEF TypeOK
        <5> QED
          BY <2>2, <4>2, <5>1 DEF Restore, Transitions
      <4> QED
        BY <4>1, <4>2
    <3> QED
      BY <2>1, <3>1, <3>2, NoTransitionType, LenProperties DEF TypeOK
  <2>3. CASE BootWithoutJournal
    <3>1. history' \in Seq(Transitions) /\ restored' \in Nat /\ current' \in Modes
      BY <2>3 DEF BootWithoutJournal, Modes
    <3> QED
      BY <2>1, <3>1, NoTransitionType DEF TypeOK
  <2> QED
    BY <1>7, <2>2, <2>3 DEF Restart
<1> QED
  BY <1>1, <1>2, <1>3, <1>4, <1>5, <1>6, <1>7 DEF Next

(* The initial state is well typed.                                        *)
LEMMA TypeInit == Init => TypeOK
  BY NoTransitionType DEF Init, TypeOK, Modes

(* Type correctness of the mode manager, its journal and its drivers.      *)
THEOREM TypeCorrect == Spec => []TypeOK
  BY TypeInit, TypeStep, PTL DEF Spec

-----------------------------------------------------------------------------
(* What a step does to the history, the journal and the forced             *)
(* transitions in progress, whichever action it is: either nothing at all; *)
(* or one entry made by Transition, with its row (MadeAndJournalled); or   *)
(* one made by ForceTransition, its row still to come (Forced); or the     *)
(* hooks of an earlier forced one (Hooked); or a restart.                  *)
MadeAndJournalled(to, c) ==
    /\ ~Refused(to)
    /\ clock' = clock + 1
    /\ current' = to
    /\ history' = Append(history, Record(to, c))
    /\ write(Record(to, c))
    /\ UNCHANGED <<hooks, forcing, restored, restarts>>

Quiet == UNCHANGED <<current, history, journal, hooks, forcing, restored,
                     clock, restarts, lostRows>>

(* The automatic drivers only ever ask for these modes.                    *)
AutomaticTargets == {"degraded", "read-only", "quarantined"}

(* Every step is of one of those five kinds, and a step of the escalator   *)
(* or the actuator asks for one of the automatic targets.                  *)
LEMMA StepKinds ==
    ASSUME TypeOK, [Next]_vars
    PROVE  \/ Quiet
           \/ \E to \in Modes, c \in Causes \ {"operator.force"} :
                 /\ MadeAndJournalled(to, c)
                 /\ c # "operator" => to \in AutomaticTargets
           \/ \E o \in Operators, to \in Modes : ForceTransition(o, to)
           \/ \E o \in Operators : ForceHooks(o)
           \/ Restart
<1>1. CASE UNCHANGED vars
  BY <1>1 DEF vars, Quiet
<1>2. ASSUME NEW to \in Modes, OperatorTransition(to)
      PROVE  MadeAndJournalled(to, "operator")
  BY <1>2 DEF OperatorTransition, Transition, MadeAndJournalled
<1>3. ASSUME NEW f \in Faults, NEW late \in BOOLEAN, RecordFault(f, late)
      PROVE  \/ Quiet
             \/ MadeAndJournalled(TargetMode(f), "fault")
  BY <1>3 DEF RecordFault, Transition, MadeAndJournalled, Quiet
<1>4. ASSUME NEW b \in Budgets, NEW e \in BOOLEAN, EvaluateBudget(b, e)
      PROVE  \/ Quiet
             \/ MadeAndJournalled(targetModeFor(b), "budget")
  BY <1>4 DEF EvaluateBudget, Transition, MadeAndJournalled, Quiet
<1>5. \A f \in Faults : TargetMode(f) \in Modes \cap AutomaticTargets
  BY DEF Faults, TargetMode, Modes, AutomaticTargets
<1>6. \A b \in Budgets : targetModeFor(b) \in Modes \cap AutomaticTargets
  BY DEF Budgets, targetModeFor, Modes, AutomaticTargets
<1>7. {"operator", "fault", "budget"} \subseteq Causes \ {"operator.force"}
  BY DEF Causes
<1>8. "fault" # "operator" /\ "budget" # "operator"
  OBVIOUS
<1> QED
  <2>1. ASSUME NEW to \in Modes, OperatorTransition(to)
        PROVE  \E c \in Causes \ {"operator.force"} :
                 /\ MadeAndJournalled(to, c)
                 /\ c # "operator" => to \in AutomaticTargets
    BY <2>1, <1>2, <1>7
  <2>2. ASSUME NEW f \in Faults, NEW late \in BOOLEAN, RecordFault(f, late)
        PROVE  \/ Quiet
               \/ \E to \in Modes, c \in Causes \ {"operator.force"} :
                    /\ MadeAndJournalled(to, c)
                    /\ c # "operator" => to \in AutomaticTargets
    BY <2>2, <1>3, <1>5, <1>7
  <2>3. ASSUME NEW b \in Budgets, NEW e \in BOOLEAN, EvaluateBudget(b, e)
        PROVE  \/ Quiet
               \/ \E to \in Modes, c \in Causes \ {"operator.force"} :
                    /\ MadeAndJournalled(to, c)
                    /\ c # "operator" => to \in AutomaticTargets
    BY <2>3, <1>4, <1>6, <1>7
  <2> QED
    BY <1>1, <2>1, <2>2, <2>3 DEF Next

(* What Append leaves alone and what it adds.                              *)
LEMMA AppendFacts ==
    ASSUME NEW S, NEW s \in Seq(S), NEW e \in S
    PROVE  /\ Len(Append(s, e)) = Len(s) + 1
           /\ Append(s, e) # <<>>
           /\ Append(s, e)[Len(s) + 1] = e
           /\ \A i \in 1..Len(s) : Append(s, e)[i] = s[i]
  BY AppendProperties

-----------------------------------------------------------------------------
(* The lineage in memory: a new entry starts in the mode the last one      *)
(* ended in, because Record reads the present mode; a restart ends it in   *)
(* the mode it restores.                                                   *)
LEMMA LineageStep ==
    ASSUME TypeOK, LineageUnbroken, [Next]_vars
    PROVE  LineageUnbroken'
<1>1. CASE Quiet
  BY <1>1 DEF Quiet, LineageUnbroken
<1>2. ASSUME NEW to \in Modes, NEW c \in Causes,
             current' = to, history' = Append(history, Record(to, c)),
             UNCHANGED restored
      PROVE  LineageUnbroken'
  <2> DEFINE r == Record(to, c)
  <2>1. r \in Transitions /\ r.from = current /\ r.to = to
    BY RecordType DEF Record
  <2>2. history \in Seq(Transitions) /\ Len(history) \in Nat /\ restored \in Nat
    BY LenProperties DEF TypeOK
  <2>3. /\ Len(history') = Len(history) + 1
        /\ history' # <<>>
        /\ history'[Len(history) + 1] = r
        /\ \A i \in 1..Len(history) : history'[i] = history[i]
    BY <1>2, <2>1, <2>2, AppendFacts
  <2> HIDE DEF r
  <2>4. current' = history'[Len(history')].to
    BY <1>2, <2>1, <2>3
  <2>5. ASSUME NEW i \in 2..Len(history'), i > restored'
        PROVE  history'[i].from = history'[i - 1].to
    <3>1. CASE i \in 2..Len(history)
      <4>1. history'[i] = history[i] /\ history'[i - 1] = history[i - 1]
        BY <3>1, <2>2, <2>3
      <4> QED
        BY <3>1, <4>1, <2>5, <1>2 DEF LineageUnbroken
    <3>2. CASE i = Len(history) + 1
      <4>1. Len(history) >= 1 /\ history # <<>>
        BY <3>2, <2>2, <2>5
      <4>2. history'[i] = r /\ history'[i - 1] = history[Len(history)]
        BY <3>2, <4>1, <2>2, <2>3
      <4> QED
        BY <4>1, <4>2, <2>1 DEF LineageUnbroken
    <3> QED
      BY <3>1, <3>2, <2>2, <2>3
  <2> QED
    BY <2>3, <2>4, <2>5 DEF LineageUnbroken
<1>3. ASSUME NEW o \in Operators, NEW to \in Modes, ForceTransition(o, to)
      PROVE  LineageUnbroken'
  BY <1>3, <1>2 DEF ForceTransition, Causes
<1>4. ASSUME NEW o \in Operators, ForceHooks(o)
      PROVE  LineageUnbroken'
  BY <1>4 DEF ForceHooks, LineageUnbroken
<1>5. ASSUME Restart
      PROVE  LineageUnbroken'
  <2>1. CASE Restore
    <3>1. /\ history' \in Seq(Transitions)
          /\ restored' = Len(history')
          /\ history' = <<>> <=> journal = <<>>
          /\ journal # <<>> => history'[Len(history')] = journal[Len(journal)]
      BY <2>1, RestoreKeepsTail
    <3>2. Len(history') \in Nat
      BY <3>1, LenProperties
    <3>3. current' = IF journal = <<>> THEN "normal" ELSE journal[Len(journal)].to
      BY <2>1 DEF Restore
    <3> QED
      BY <3>1, <3>2, <3>3 DEF LineageUnbroken
  <2>2. CASE BootWithoutJournal
    BY <2>2 DEF BootWithoutJournal, LineageUnbroken
  <2> QED
    BY <1>5, <2>1, <2>2 DEF Restart
<1>6. ASSUME NEW to \in Modes, NEW c \in Causes, MadeAndJournalled(to, c)
      PROVE  LineageUnbroken'
  BY <1>6, <1>2 DEF MadeAndJournalled
<1> QED
  BY <1>1, <1>3, <1>4, <1>5, <1>6, StepKinds

(* The lineage the console shows is unbroken, whatever races for the       *)
(* manager.                                                                *)
THEOREM LineageHolds == Spec => []LineageUnbroken
<1>1. Init => LineageUnbroken
  BY DEF Init, LineageUnbroken
<1>2. TypeOK /\ LineageUnbroken /\ [Next]_vars => LineageUnbroken'
  BY LineageStep
<1> QED
  BY <1>1, <1>2, TypeCorrect, PTL DEF Spec

-----------------------------------------------------------------------------
(* The escalator and the actuator never lift a refusal: the graph has no   *)
(* edge from a refusing mode to a writable mode they ask for.              *)
LEMMA AutomaticKeepsRefusal ==
    ASSUME NEW m \in Modes, RefusesContentWrites(m),
           NEW to \in AutomaticTargets, isAllowed(m, to)
    PROVE  RefusesContentWrites(to)
<1>1. m = "read-only" \/ m = "quarantined"
  BY DEF RefusesContentWrites
<1>2. allowed("read-only") = {"recovery", "maintenance"}
  BY DEF allowed
<1>3. allowed("quarantined") = {"normal", "maintenance"}
  BY DEF allowed
<1> QED
  BY <1>1, <1>2, <1>3 DEF isAllowed, AutomaticTargets

(* A refusing mode is left only by a console request or a restart.         *)
THEOREM RefusalHolds == Spec => RefusalLiftedByHand
<1> DEFINE ByHand ==
      (RefusesContentWrites(current) /\ ~RefusesContentWrites(current'))
         => \/ restarts' # restarts
            \/ history'[Len(history')].cause \in {"operator", "operator.force"}
<1>1. ASSUME TypeOK, [Next]_vars
      PROVE  [ByHand]_vars
  <2> SUFFICES ASSUME RefusesContentWrites(current),
                      ~RefusesContentWrites(current')
               PROVE  \/ restarts' # restarts
                      \/ history'[Len(history')].cause
                           \in {"operator", "operator.force"}
    OBVIOUS
  <2>1. CASE Quiet
    BY <2>1 DEF Quiet
  <2>2. ASSUME NEW to \in Modes, NEW c \in Causes,
               history' = Append(history, Record(to, c))
        PROVE  history'[Len(history')].cause = c
    <3>1. Record(to, c) \in Transitions
      BY <1>1, RecordType
    <3>2. history \in Seq(Transitions) /\ Len(history) \in Nat
      BY <1>1, LenProperties DEF TypeOK
    <3>3. history'[Len(history')] = Record(to, c)
      BY <2>2, <3>1, <3>2, AppendFacts
    <3> QED
      BY <3>3 DEF Record
  <2>3. ASSUME NEW to \in Modes, NEW c \in Causes, MadeAndJournalled(to, c),
               c # "operator" => to \in AutomaticTargets
        PROVE  history'[Len(history')].cause = "operator"
    <3>1. isAllowed(current, to) /\ current' = to
      BY <2>3 DEF MadeAndJournalled, Refused
    <3>2. c = "operator"
      BY <1>1, <2>3, <3>1, AutomaticKeepsRefusal DEF TypeOK
    <3> QED
      BY <2>2, <2>3, <3>2 DEF MadeAndJournalled
  <2>4. ASSUME NEW o \in Operators, NEW to \in Modes, ForceTransition(o, to)
        PROVE  history'[Len(history')].cause = "operator.force"
    BY <2>2, <2>4 DEF ForceTransition, Causes
  <2>5. ASSUME NEW o \in Operators, ForceHooks(o)
        PROVE  FALSE
    BY <2>5 DEF ForceHooks
  <2>6. CASE Restart
    BY <1>1, <2>6 DEF Restart, TypeOK
  <2> QED
    BY <1>1, <2>1, <2>3, <2>4, <2>5, <2>6, StepKinds
<1> QED
  BY <1>1, TypeCorrect, PTL DEF Spec, RefusalLiftedByHand

-----------------------------------------------------------------------------
(* Rows and pending hooks never run ahead of the clock, and what waits in  *)
(* a forced transition is a forced entry.  With it, a late row is forced.  *)
JournalOrderInv ==
    /\ \A i \in 1..Len(journal) : journal[i].at <= clock
    /\ \A o \in Operators : forcing[o] # NoTransition
                              => /\ forcing[o].cause = "operator.force"
                                 /\ forcing[o].at <= clock
    /\ OnlyForcedRowsLate

(* The rows of the journal carry natural-number times.                     *)
LEMMA RowTimes ==
    ASSUME TypeOK
    PROVE  \A i \in 1..Len(journal) : journal[i].at \in Nat
<1> SUFFICES ASSUME NEW i \in 1..Len(journal)
             PROVE  journal[i].at \in Nat
  OBVIOUS
<1>1. journal[i] \in Transitions
  BY ElementOfSeq DEF TypeOK
<1> QED
  BY <1>1 DEF Transitions

(* Appending a row keeps the order invariant when the row is forced or is  *)
(* the newest of all.                                                      *)
LEMMA AppendKeepsOrder ==
    ASSUME TypeOK, JournalOrderInv, NEW t \in Transitions,
           clock' \in Nat, clock <= clock', t.at <= clock',
           t.cause = "operator.force" \/ clock < t.at,
           \/ journal' = Append(journal, t)
           \/ UNCHANGED journal
    PROVE  /\ \A i \in 1..Len(journal') : journal'[i].at <= clock'
           /\ OnlyForcedRowsLate'
<1>0. /\ journal \in Seq(Transitions) /\ Len(journal) \in Nat /\ clock \in Nat
      /\ t.at \in Nat
      /\ \A i \in 1..Len(journal) : journal[i].at \in Nat
  <2>1. t.at \in Nat
    BY DEF Transitions
  <2> QED
    BY <2>1, RowTimes, LenProperties DEF TypeOK
<1>1. CASE UNCHANGED journal
  BY <1>0, <1>1 DEF JournalOrderInv, OnlyForcedRowsLate
<1>2. CASE journal' = Append(journal, t)
  <2>1. /\ Len(journal') = Len(journal) + 1
        /\ journal'[Len(journal) + 1] = t
        /\ \A i \in 1..Len(journal) : journal'[i] = journal[i]
    BY <1>0, <1>2, AppendFacts
  <2>2. ASSUME NEW i \in 1..Len(journal')
        PROVE  journal'[i].at <= clock'
    BY <1>0, <2>1 DEF JournalOrderInv
  <2>3. ASSUME NEW i \in 1..Len(journal'), NEW j \in 1..Len(journal'),
               i < j, journal'[i].at > journal'[j].at
        PROVE  journal'[j].cause = "operator.force"
    <3>1. i \in 1..Len(journal) /\ journal'[i] = journal[i]
      BY <2>3, <1>0, <2>1
    <3>2. CASE j \in 1..Len(journal)
      BY <2>3, <3>1, <3>2, <2>1 DEF JournalOrderInv, OnlyForcedRowsLate
    <3>3. CASE j = Len(journal) + 1
      BY <2>3, <3>1, <3>3, <2>1, <1>0 DEF JournalOrderInv
    <3> QED
      BY <3>2, <3>3, <1>0, <2>1
  <2> QED
    BY <2>2, <2>3 DEF OnlyForcedRowsLate
<1> QED
  BY <1>1, <1>2

(* Every step keeps the order invariant.                                   *)
LEMMA OrderStep ==
    ASSUME TypeOK, JournalOrderInv, [Next]_vars
    PROVE  JournalOrderInv'
<1>0. clock \in Nat
  BY DEF TypeOK
<1>1. CASE Quiet
  BY <1>1 DEF Quiet, JournalOrderInv, OnlyForcedRowsLate
<1>2. ASSUME NEW to \in Modes, NEW c \in Causes, MadeAndJournalled(to, c)
      PROVE  JournalOrderInv'
  <2>1. /\ Record(to, c) \in Transitions
        /\ Record(to, c).at = clock + 1
    BY RecordType DEF Record
  <2>2. /\ clock' = clock + 1
        /\ UNCHANGED forcing
        /\ \/ journal' = Append(journal, Record(to, c))
           \/ UNCHANGED journal
    BY <1>2 DEF MadeAndJournalled, write
  <2>3. /\ \A i \in 1..Len(journal') : journal'[i].at <= clock'
        /\ OnlyForcedRowsLate'
    BY <1>0, <2>1, <2>2, AppendKeepsOrder
  <2>4. \A o \in Operators : forcing[o].at \in Nat
    BY DEF TypeOK, Transitions
  <2> QED
    BY <1>0, <2>2, <2>3, <2>4 DEF JournalOrderInv
<1>3. ASSUME NEW o \in Operators, NEW to \in Modes, ForceTransition(o, to)
      PROVE  JournalOrderInv'
  <2>1. /\ clock' = clock + 1
        /\ UNCHANGED journal
        /\ forcing' = [forcing EXCEPT ![o] = Record(to, "operator.force")]
    BY <1>3 DEF ForceTransition
  <2>2. /\ Record(to, "operator.force").cause = "operator.force"
        /\ Record(to, "operator.force").at = clock + 1
    BY DEF Record
  <2>3. \A p \in Operators : forcing[p].at \in Nat
    BY DEF TypeOK, Transitions
  <2>4. \A i \in 1..Len(journal) : journal[i].at \in Nat
    BY RowTimes
  <2>5. \A i \in 1..Len(journal') : journal'[i].at <= clock'
    BY <1>0, <2>1, <2>4 DEF JournalOrderInv
  <2>6. ASSUME NEW p \in Operators, forcing'[p] # NoTransition
        PROVE  forcing'[p].cause = "operator.force" /\ forcing'[p].at <= clock'
    BY <1>0, <2>1, <2>2, <2>3, <2>6 DEF JournalOrderInv, TypeOK
  <2> QED
    BY <2>1, <2>5, <2>6 DEF JournalOrderInv, OnlyForcedRowsLate
<1>4. ASSUME NEW o \in Operators, ForceHooks(o)
      PROVE  JournalOrderInv'
  <2>1. /\ clock' = clock
        /\ forcing' = [forcing EXCEPT ![o] = NoTransition]
        /\ \/ journal' = Append(journal, forcing[o])
           \/ UNCHANGED journal
    BY <1>4 DEF ForceHooks, write
  <2>2. /\ forcing[o] \in Transitions
        /\ forcing[o].cause = "operator.force"
        /\ forcing[o].at <= clock
    BY <1>4 DEF ForceHooks, JournalOrderInv, TypeOK
  <2>3. /\ \A i \in 1..Len(journal') : journal'[i].at <= clock'
        /\ OnlyForcedRowsLate'
    BY <1>0, <2>1, <2>2, AppendKeepsOrder
  <2>4. ASSUME NEW p \in Operators, forcing'[p] # NoTransition
        PROVE  forcing'[p].cause = "operator.force" /\ forcing'[p].at <= clock'
    BY <2>1, <2>4 DEF JournalOrderInv, TypeOK
  <2> QED
    BY <2>3, <2>4 DEF JournalOrderInv
<1>5. ASSUME Restart
      PROVE  JournalOrderInv'
  <2>1. /\ UNCHANGED <<journal, clock>>
        /\ forcing' = [o \in Operators |-> NoTransition]
    BY <1>5 DEF Restart
  <2> QED
    BY <2>1 DEF JournalOrderInv, OnlyForcedRowsLate
<1> QED
  BY <1>1, <1>2, <1>3, <1>4, <1>5, StepKinds

(* Only ForceTransition's rows can stand out of order in the journal.      *)
THEOREM OnlyForcedRowsLateHolds == Spec => []OnlyForcedRowsLate
<1>1. Init => JournalOrderInv
  BY DEF Init, JournalOrderInv, OnlyForcedRowsLate
<1>2. TypeOK /\ JournalOrderInv /\ [Next]_vars => JournalOrderInv'
  BY OrderStep
<1>3. JournalOrderInv => OnlyForcedRowsLate
  BY DEF JournalOrderInv
<1> QED
  BY <1>1, <1>2, <1>3, TypeCorrect, PTL DEF Spec
-----------------------------------------------------------------------------
(* The transition that set the present mode is a row of the journal, or a  *)
(* forcing operator still has its hooks to run.                            *)
OnRecord(t) ==
    \/ \E i \in 1..Len(journal) : journal[i] = t
    \/ \E o \in Operators : forcing[o] = t /\ t # NoTransition

Journalled ==
    (hooks # {} /\ lostRows = 0 /\ history # <<>>)
        => OnRecord(history[Len(history)])

(* A row that is written joins the rows there are, unless it is lost.      *)
LEMMA WriteRecords ==
    ASSUME TypeOK, NEW t \in Transitions, write(t), hooks # {}, lostRows' = 0
    PROVE  /\ lostRows = 0
           /\ \E i \in 1..Len(journal') : journal'[i] = t
           /\ \A i \in 1..Len(journal) : i \in 1..Len(journal')
                                         /\ journal'[i] = journal[i]
<1>1. lostRows \in Nat /\ journal \in Seq(Transitions) /\ Len(journal) \in Nat
  BY LenProperties DEF TypeOK
<1>2. journal' = Append(journal, t) /\ UNCHANGED lostRows
  BY <1>1 DEF write
<1>3. /\ Len(journal') = Len(journal) + 1
      /\ journal'[Len(journal) + 1] = t
      /\ \A i \in 1..Len(journal) : journal'[i] = journal[i]
  BY <1>1, <1>2, AppendFacts
<1> QED
  BY <1>1, <1>2, <1>3

(* Every step keeps the present mode on record.                            *)
LEMMA JournalledStep ==
    ASSUME TypeOK, Journalled, [Next]_vars
    PROVE  Journalled'
<1>0. SUFFICES ASSUME hooks' # {}, lostRows' = 0, history' # <<>>
               PROVE  OnRecord(history[Len(history)])'
  BY DEF Journalled
<1>1. CASE Quiet
  BY <1>0, <1>1 DEF Quiet, Journalled, OnRecord
<1>2. ASSUME NEW to \in Modes, NEW c \in Causes,
             history' = Append(history, Record(to, c))
      PROVE  /\ Record(to, c) \in Transitions
             /\ Record(to, c) # NoTransition
             /\ history'[Len(history')] = Record(to, c)
  <2>1. Record(to, c) \in Transitions /\ Record(to, c).at = clock + 1
    BY RecordType DEF Record
  <2>2. history \in Seq(Transitions) /\ Len(history) \in Nat /\ clock \in Nat
    BY LenProperties DEF TypeOK
  <2>3. NoTransition.at = 0
    BY DEF NoTransition
  <2>4. history'[Len(history')] = Record(to, c)
    BY <1>2, <2>1, <2>2, AppendFacts
  <2>5. Record(to, c) # NoTransition
    BY <2>1, <2>2, <2>3
  <2> QED
    BY <2>1, <2>4, <2>5
<1>3. ASSUME NEW to \in Modes, NEW c \in Causes, MadeAndJournalled(to, c)
      PROVE  OnRecord(history[Len(history)])'
  <2>1. /\ history' = Append(history, Record(to, c))
        /\ write(Record(to, c))
        /\ hooks # {}
    BY <1>0, <1>3 DEF MadeAndJournalled
  <2>2. \E i \in 1..Len(journal') : journal'[i] = Record(to, c)
    BY <1>0, <1>2, <2>1, WriteRecords
  <2> QED
    BY <1>2, <2>1, <2>2 DEF OnRecord
<1>4. ASSUME NEW o \in Operators, NEW to \in Modes, ForceTransition(o, to)
      PROVE  OnRecord(history[Len(history)])'
  <2> DEFINE r == Record(to, "operator.force")
  <2>1. /\ history' = Append(history, r)
        /\ forcing' = [forcing EXCEPT ![o] = r]
        /\ "operator.force" \in Causes
    BY <1>4 DEF ForceTransition, Causes
  <2>2. r # NoTransition /\ history'[Len(history')] = r
    BY <1>2, <2>1
  <2>3. forcing'[o] = r
    BY <2>1 DEF TypeOK
  <2> QED
    BY <2>2, <2>3 DEF OnRecord
<1>5. ASSUME NEW o \in Operators, ForceHooks(o)
      PROVE  OnRecord(history[Len(history)])'
  <2>1. /\ history' = history /\ hooks' = hooks
        /\ write(forcing[o])
        /\ forcing' = [forcing EXCEPT ![o] = NoTransition]
        /\ forcing[o] \in Transitions
    BY <1>5 DEF ForceHooks, TypeOK
  <2>2. /\ lostRows = 0
        /\ \E i \in 1..Len(journal') : journal'[i] = forcing[o]
        /\ \A i \in 1..Len(journal) : i \in 1..Len(journal')
                                      /\ journal'[i] = journal[i]
    BY <1>0, <2>1, WriteRecords
  <2>3. \A p \in Operators \ {o} : forcing'[p] = forcing[p]
    BY <2>1 DEF TypeOK
  <2>4. PICK t : t = history[Len(history)]
    OBVIOUS
  <2>5. OnRecord(t)
    BY <1>0, <2>1, <2>2, <2>4 DEF Journalled
  <2>6. CASE \E i \in 1..Len(journal) : journal[i] = t
    BY <2>1, <2>2, <2>4, <2>6 DEF OnRecord
  <2>7. CASE \E p \in Operators : forcing[p] = t /\ t # NoTransition
    <3>1. PICK p \in Operators : forcing[p] = t /\ t # NoTransition
      BY <2>7
    <3>2. CASE p = o
      BY <2>1, <2>2, <2>4, <3>1, <3>2 DEF OnRecord
    <3>3. CASE p # o
      BY <2>1, <2>3, <2>4, <3>1, <3>3 DEF OnRecord
    <3> QED
      BY <3>2, <3>3
  <2> QED
    BY <2>5, <2>6, <2>7 DEF OnRecord
<1>6. CASE Restart
  <2>1. Restore /\ UNCHANGED journal
    BY <1>0, <1>6 DEF Restart
  <2>2. journal # <<>> /\ history'[Len(history')] = journal[Len(journal)]
    BY <1>0, <2>1, RestoreKeepsTail
  <2>3. Len(journal) \in 1..Len(journal)
    BY <2>2, EmptySeq, LenProperties DEF TypeOK
  <2> QED
    BY <2>1, <2>2, <2>3 DEF OnRecord
<1> QED
  BY <1>1, <1>3, <1>4, <1>5, <1>6, StepKinds

(* Whatever operators, faults, budgets and restarts do, the transition     *)
(* that set the present mode is durable once no hook is still to run,      *)
(* provided no row failed to be written.                                   *)
THEOREM ModeIsJournalledHolds == Spec => []ModeIsJournalled
<1>1. Init => Journalled
  BY DEF Init, Journalled
<1>2. TypeOK /\ Journalled /\ [Next]_vars => Journalled'
  BY JournalledStep
<1>3. Journalled => ModeIsJournalled
  BY DEF Journalled, ModeIsJournalled, OnRecord
<1> QED
  BY <1>1, <1>2, <1>3, TypeCorrect, PTL DEF Spec
=============================================================================

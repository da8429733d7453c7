----------------------------- MODULE SystemMode -----------------------------
(***************************************************************************)
(* The system mode of one VayuPress process (internal/mode), the journal   *)
(* that carries it across restarts, and everything that drives it: the     *)
(* console's transition endpoint, the fault escalator (internal/fault) and *)
(* the budget actuator (internal/budget).                                  *)
(*                                                                         *)
(* Manager.Transition runs its hooks under the manager's lock, so the      *)
(* change and its journal row are one step.  Manager.ForceTransition       *)
(* changes the mode under the lock and runs the hooks after unlocking, so  *)
(* the row is a later step, and other transitions may come in between.     *)
(***************************************************************************)
EXTENDS Integers, Sequences

CONSTANTS
    Operators,        \* concurrent console requests that may force a mode
    Threshold,        \* EscalationRule.Threshold, per fault
    RestoredHistory,  \* rows of the journal a restart carries into memory
    MaxTransitions,   \* bound on the transitions of a behaviour
    MaxRestarts,      \* bound on crashes and restarts
    MaxLostRows       \* bound on journal rows that fail to be written

VARIABLES
    current,      \* Manager.current
    history,      \* Manager.history
    journal,      \* mode_transitions, the durable rows in id order
    hooks,        \* Manager.hooks: the journal's writer, once it opened
    forcing,      \* per operator: the transition whose hooks are still to run
    windowCount,  \* Escalator: faults counted in the present window
    exhausted,    \* Actuator.exhausted: budgets in the exhausted edge state
    restored,     \* length of the history that came back from the journal
    clock,        \* stands for OccurredAt: transitions made so far
    restarts,
    lostRows

vars == <<current, history, journal, hooks, forcing, windowCount, exhausted,
          restored, clock, restarts, lostRows>>

Modes == {"normal", "degraded", "read-only", "recovery", "maintenance",
          "quarantined"}

RefusesContentWrites(m) == m \in {"read-only", "quarantined"}

(* A graph with an edge from read-only to degraded.                        *)
allowedLiftingReadOnly(m) ==
    CASE m = "normal"      -> {"degraded", "read-only", "recovery",
                               "maintenance", "quarantined"}
      [] m = "degraded"    -> {"normal", "read-only", "quarantined",
                               "maintenance"}
      [] m = "read-only"   -> {"recovery", "maintenance", "degraded"}
      [] m = "recovery"    -> {"normal", "read-only"}
      [] m = "maintenance" -> {"normal"}
      [] m = "quarantined" -> {"normal", "maintenance"}

allowed(m) ==
    CASE m = "normal"      -> {"degraded", "read-only", "recovery",
                               "maintenance", "quarantined"}
      [] m = "degraded"    -> {"normal", "read-only", "quarantined",
                               "maintenance"}
      [] m = "read-only"   -> {"recovery", "maintenance"}
      [] m = "recovery"    -> {"normal", "read-only"}
      [] m = "maintenance" -> {"normal"}
      [] m = "quarantined" -> {"normal", "maintenance"}

isAllowed(from, to) == to \in allowed(from)

(* DefaultRules: the mode each fault escalates to, and whether its count   *)
(* runs in a window (0 is a lifetime count).                               *)
Faults == {"wal.write", "migrations.apply", "plugin.invoke", "outbox.commit"}

TargetMode(f) ==
    CASE f \in {"wal.write", "migrations.apply"} -> "read-only"
      [] f = "plugin.invoke"                     -> "quarantined"
      [] f = "outbox.commit"                     -> "degraded"

Windowed(f) == f # "migrations.apply"

(* The default budgets whose exhaustion implies a mode (targetModeFor of   *)
(* their OnExhaust): the two informational ones change nothing.            *)
Budgets == {"governance-breach", "integrity-exhaustion"}

targetModeFor(b) == IF b = "governance-breach" THEN "degraded" ELSE "read-only"

Causes == {"operator", "operator.force", "fault", "budget"}

Transitions == [from : Modes, to : Modes, cause : Causes, at : Nat]

NoTransition == [from |-> "normal", to |-> "normal", cause |-> "operator",
                 at |-> 0]

ASSUME ThresholdAssumption == Threshold \in [Faults -> Nat \ {0}]
ASSUME HistoryAssumption   == RestoredHistory \in Nat \ {0}
ASSUME BoundsAssumption    == /\ MaxTransitions \in Nat
                              /\ MaxRestarts \in Nat
                              /\ MaxLostRows \in Nat

Init ==
    /\ current = "normal"
    /\ history = <<>>
    /\ journal = <<>>
    /\ hooks = {"journal"}
    /\ forcing = [o \in Operators |-> NoTransition]
    /\ windowCount = [f \in Faults |-> 0]
    /\ exhausted = {}
    /\ restored = 0
    /\ clock = 0
    /\ restarts = 0
    /\ lostRows = 0

-----------------------------------------------------------------------------
(* Journal.write: one INSERT whose error is ignored; without an open       *)
(* journal no hook is registered and nothing is written.                   *)
write(t) ==
    \/ /\ hooks # {}
       /\ journal' = Append(journal, t)
       /\ UNCHANGED lostRows
    \/ /\ hooks # {}
       /\ lostRows < MaxLostRows
       /\ lostRows' = lostRows + 1
       /\ UNCHANGED journal
    \/ hooks = {} /\ UNCHANGED <<journal, lostRows>>

Record(to, cause) == [from |-> current, to |-> to, cause |-> cause,
                      at |-> clock + 1]

(* Manager.Transition: a no-op when already there, refused when the graph  *)
(* has no such edge, otherwise the change and its hooks in one critical    *)
(* section.                                                                *)
Refused(to) == current = to \/ ~isAllowed(current, to)

Transition(to, cause) ==
    \/ Refused(to) /\ UNCHANGED <<current, history, journal, clock, lostRows>>
    \/ /\ ~Refused(to)
       /\ clock < MaxTransitions
       /\ clock' = clock + 1
       /\ current' = to
       /\ history' = Append(history, Record(to, cause))
       /\ write(Record(to, cause))

(* handleModeTransition without force: the operator's request goes through *)
(* the graph.                                                              *)
OperatorTransition(to) ==
    /\ ~Refused(to)
    /\ Transition(to, "operator")
    /\ UNCHANGED <<hooks, forcing, windowCount, exhausted, restored, restarts>>

(* A forced transition that leaves no history entry.                       *)
ForceTransitionNoHistory(o, to) ==
    /\ forcing[o] = NoTransition
    /\ clock < MaxTransitions
    /\ clock' = clock + 1
    /\ current' = to
    /\ forcing' = [forcing EXCEPT ![o] = Record(to, "operator.force")]
    /\ UNCHANGED <<history, journal, hooks, windowCount, exhausted, restored,
                   restarts, lostRows>>

(* ForceTransition, first half: the mode and the history change under the  *)
(* lock, any target allowed, the present mode included.                    *)
ForceTransition(o, to) ==
    /\ forcing[o] = NoTransition
    /\ clock < MaxTransitions
    /\ clock' = clock + 1
    /\ current' = to
    /\ history' = Append(history, Record(to, "operator.force"))
    /\ forcing' = [forcing EXCEPT ![o] = Record(to, "operator.force")]
    /\ UNCHANGED <<journal, hooks, windowCount, exhausted, restored, restarts,
                   lostRows>>

(* A forced transition that runs no hooks.                                 *)
ForceHooksSkipped(o) ==
    /\ forcing[o] # NoTransition
    /\ forcing' = [forcing EXCEPT ![o] = NoTransition]
    /\ UNCHANGED <<current, history, journal, hooks, windowCount, exhausted,
                   restored, clock, restarts, lostRows>>

(* ForceTransition, second half: the hooks run outside the lock.           *)
ForceHooks(o) ==
    /\ forcing[o] # NoTransition
    /\ write(forcing[o])
    /\ forcing' = [forcing EXCEPT ![o] = NoTransition]
    /\ UNCHANGED <<current, history, hooks, windowCount, exhausted, restored,
                   clock, restarts>>

(* Escalator.Record: late says that the window expired since it started.   *)
(* At the threshold the count is reset whether or not the graph lets the   *)
(* transition through.                                                     *)
RecordFault(f, late) ==
    /\ late => Windowed(f)
    /\ LET count == (IF late THEN 0 ELSE windowCount[f]) + 1
       IN  IF count >= Threshold[f]
           THEN /\ windowCount' = [windowCount EXCEPT ![f] = 0]
                /\ Transition(TargetMode(f), "fault")
           ELSE /\ windowCount' = [windowCount EXCEPT ![f] = count]
                /\ UNCHANGED <<current, history, journal, clock, lostRows>>
    /\ UNCHANGED <<hooks, forcing, exhausted, restored, restarts>>

(* Actuator.Evaluate, one budget of its loop: the edge state is set first, *)
(* so a refused transition is not asked for again while the budget stays   *)
(* exhausted.                                                              *)
EvaluateBudget(b, isExhausted) ==
    /\ exhausted' = IF isExhausted THEN exhausted \cup {b} ELSE exhausted \ {b}
    /\ IF isExhausted /\ b \notin exhausted
       THEN Transition(targetModeFor(b), "budget")
       ELSE UNCHANGED <<current, history, journal, clock, lostRows>>
    /\ UNCHANGED <<hooks, forcing, windowCount, restored, restarts>>

-----------------------------------------------------------------------------
(* A crash loses what is in memory, hooks still to run included.  At boot  *)
(* OpenJournal registers the hook and Restore takes the last journalled    *)
(* mode and the rows that led there, at most RestoredHistory of them.      *)
Restore ==
    LET past == SubSeq(journal, Len(journal) - RestoredHistory + 1,
                       Len(journal))
        kept == IF Len(journal) > RestoredHistory THEN past ELSE journal
    IN  /\ history' = kept
        /\ restored' = Len(kept)
        /\ current' = IF journal = <<>> THEN "normal"
                      ELSE journal[Len(journal)].to

(* The journal cannot be opened: main logs it and boots without one.       *)
BootWithoutJournal ==
    /\ history' = <<>>
    /\ restored' = 0
    /\ current' = "normal"

(* A restart after which OccurredAt starts over.                           *)
RestartClockReset ==
    /\ restarts < MaxRestarts
    /\ restarts' = restarts + 1
    /\ forcing' = [o \in Operators |-> NoTransition]
    /\ windowCount' = [f \in Faults |-> 0]
    /\ exhausted' = {}
    /\ hooks' = {"journal"}
    /\ Restore
    /\ clock' = 0
    /\ UNCHANGED <<journal, lostRows>>

Restart ==
    /\ restarts < MaxRestarts
    /\ restarts' = restarts + 1
    /\ forcing' = [o \in Operators |-> NoTransition]
    /\ windowCount' = [f \in Faults |-> 0]
    /\ exhausted' = {}
    /\ \/ hooks' = {"journal"} /\ Restore
       \/ hooks' = {} /\ BootWithoutJournal
    /\ UNCHANGED <<journal, clock, lostRows>>

Next ==
    \/ \E to \in Modes : OperatorTransition(to)
    \/ \E o \in Operators, to \in Modes : ForceTransition(o, to)
    \/ \E o \in Operators : ForceHooks(o)
    \/ \E f \in Faults, late \in BOOLEAN : RecordFault(f, late)
    \/ \E b \in Budgets, e \in BOOLEAN : EvaluateBudget(b, e)
    \/ Restart

Spec == Init /\ [][Next]_vars

-----------------------------------------------------------------------------
TypeOK ==
    /\ current \in Modes
    /\ history \in Seq(Transitions)
    /\ journal \in Seq(Transitions)
    /\ hooks \in SUBSET {"journal"}
    /\ forcing \in [Operators -> Transitions]
    /\ windowCount \in [Faults -> Nat]
    /\ exhausted \in SUBSET Budgets
    /\ restored \in Nat
    /\ clock \in Nat
    /\ restarts \in Nat
    /\ lostRows \in Nat

(* The in-memory lineage the console shows has no gap and no fork: the     *)
(* last entry ends in the present mode, and every entry made since boot    *)
(* starts in the mode the one before it ended in, although console         *)
(* requests, the escalator and the actuator race for the manager           *)
(* (mode.go: from is read, and the entry appended, under one lock).        *)
LineageUnbroken ==
    /\ history # <<>> => current = history[Len(history)].to
    /\ history = <<>> => current = "normal"
    /\ \A i \in 2..Len(history) :
          i > restored => history[i].from = history[i - 1].to

(* Only a forced transition can reach the journal late: whenever a row     *)
(* stands behind a row of a later transition, it is one that               *)
(* ForceTransition wrote after releasing the lock.                         *)
OnlyForcedRowsLate ==
    \A i, j \in 1..Len(journal) :
        (i < j /\ journal[i].at > journal[j].at)
            => journal[j].cause = "operator.force"

(* With the journal open, every row written and no hook still to run, the  *)
(* transition that set the present mode is a durable row: nothing that     *)
(* changes the mode bypasses Journal.write.                                *)
ModeIsJournalled ==
    ( /\ hooks # {}
      /\ lostRows = 0
      /\ \A o \in Operators : forcing[o] = NoTransition
      /\ history # <<>> )
        => \E i \in 1..Len(journal) : journal[i] = history[Len(history)]

(* A mode that refuses content writes is left only by a console request or *)
(* by a restart: neither the escalator nor the actuator, whose targets     *)
(* include the writable "degraded", ever lifts the refusal.                *)
RefusalLiftedByHand ==
    [][ (RefusesContentWrites(current) /\ ~RefusesContentWrites(current'))
          => \/ restarts' # restarts
             \/ history'[Len(history')].cause \in {"operator",
                                                    "operator.force"} ]_vars
=============================================================================

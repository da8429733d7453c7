----------------------------- MODULE RetryClock -----------------------------
(***************************************************************************)
(* When a failed row is tried again.  The write queue and the outbox relay *)
(* store retry_at as text in the layout "2006-01-02T15:04:05Z" and select  *)
(* the rows with retry_at <= datetime('now'), whose text has a blank where *)
(* the other has a T: SQLite compares the two as texts.                    *)
(***************************************************************************)
EXTENDS Integers

CONSTANTS
    TicksPerDay,   \* a day, in units of the base backoff of five seconds
    RetryLimit,    \* failures before the row is given up (3 in the code)
    MaxBackoff,    \* maxBackoffSeconds, in the same unit
    MaxDays        \* bound on the days of a behaviour

VARIABLES
    now,        \* the clock, in ticks since midnight of the first day
    fate,       \* "pending" or "dead_letter"
    tries,      \* retries
    retryAt,    \* retry_at, as the text that is stored; NeverTried is NULL
    dueTime     \* history: the instant retry_at stands for

clockVars == <<now, fate, tries, retryAt, dueTime>>

ASSUME ClockAssumption ==
    /\ TicksPerDay \in Nat \ {0}
    /\ RetryLimit \in Nat
    /\ MaxBackoff \in Nat \ {0}
    /\ MaxDays \in Nat \ {0}

Day(t) == t \div TicksPerDay
Sec(t) == t % TicksPerDay

(* A timestamp's text: the date, the character after it, the time of day.  *)
(* In ASCII the blank sorts before the T.                                  *)
Blank == 32
T     == 84
NeverTried == <<0, 0, 0>>

TextWithT(t)     == <<Day(t), T, Sec(t)>>
TextWithBlank(t) == <<Day(t), Blank, Sec(t)>>

(* Texts compare character by character from the left.                     *)
TextLeq(a, b) ==
    \/ a[1] < b[1]
    \/ a[1] = b[1] /\ a[2] < b[2]
    \/ a[1] = b[1] /\ a[2] = b[2] /\ a[3] <= b[3]

(* datetime('now') of a host whose clock is local time, a day ahead.       *)
datetimeLocal(t) == TextWithBlank(t + TicksPerDay)

(* The time of day without its date.                                       *)
datetimeNoDate(t) == TextWithBlank(Sec(t))

datetime(t) == TextWithBlank(t)

(* retry_at IS NULL OR retry_at <= datetime('now')                         *)
IsDue == retryAt = NeverTried \/ TextLeq(retryAt, datetime(now))

(* 2^(retries+1) times the base, capped.                                   *)
Backoff(r) ==
    LET b == 2 ^ (r + 1) IN IF b > MaxBackoff THEN MaxBackoff ELSE b

InitClock ==
    /\ now \in 0..(TicksPerDay - 1)
    /\ fate = "pending"
    /\ tries = 0
    /\ retryAt = NeverTried
    /\ dueTime = 0

Tick ==
    /\ now < MaxDays * TicksPerDay - 1
    /\ now' = now + 1
    /\ UNCHANGED <<fate, tries, retryAt, dueTime>>

(* The row is selected and fails: it waits, or is given up.                *)
TryAndFail ==
    /\ fate = "pending"
    /\ IsDue
    /\ IF tries < RetryLimit
       THEN /\ tries' = tries + 1
            /\ dueTime' = now + Backoff(tries)
            /\ retryAt' = TextWithT(now + Backoff(tries))
            /\ UNCHANGED fate
       ELSE fate' = "dead_letter" /\ UNCHANGED <<tries, dueTime, retryAt>>
    /\ UNCHANGED now

NextClock == Tick \/ TryAndFail

ClockSpec == InitClock /\ [][NextClock]_clockVars

FairClockSpec == ClockSpec /\ WF_clockVars(Tick)

-----------------------------------------------------------------------------
(* No row is tried before its backoff has passed, although the selection   *)
(* compares texts of two layouts, across midnight too (queue.go, outbox.go *)
(* : retry_at <= datetime('now')).                                         *)
NeverTriedEarly == retryAt # NeverTried /\ IsDue => now >= dueTime

(* The clock alone brings a waiting row back: it becomes due, at the       *)
(* latest when the date of its retry time is past, as long as the bounded  *)
(* clock has a day left for that.                                          *)
DueInTheEnd ==
    (retryAt # NeverTried /\ Day(dueTime) < MaxDays - 1)
        ~> (IsDue \/ fate # "pending")
=============================================================================

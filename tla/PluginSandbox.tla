---------------------------- MODULE PluginSandbox ----------------------------
(***************************************************************************)
(* A pool of sandboxed plugin processes (internal/sandbox): Pool.Invoke    *)
(* picks a member in turn, SubprocessPlugin.Invoke holds the member's lock *)
(* from the write of the request to the end of the select that waits for   *)
(* the reply.  The write has no deadline.  The plugin process is the       *)
(* environment: it reads one request a line and writes one reply a line,   *)
(* and may stop reading or exit at any moment; the goroutine that waits    *)
(* for it sees that only later.                                            *)
(***************************************************************************)
EXTENDS Integers, Sequences

CONSTANTS
    Callers,       \* goroutines that invoke hooks
    PoolSize,      \* members of the pool
    MaxRestarts,   \* Manifest.effectiveMaxRestarts
    MaxMessage,    \* Manifest.effectiveMaxMessageBytes, in units of a short reply
    MaxCalls,      \* bound on invocations, which also bounds the processes
    LongCalls      \* invocations whose request is longer than what the pipe holds

ASSUME CallersAssumption == "nobody" \notin Callers
ASSUME SizesAssumption == /\ PoolSize \in Nat \ {0} /\ MaxRestarts \in Nat \ {0}
                          /\ MaxMessage \in Nat \ {0} /\ MaxCalls \in Nat

Members == 0 .. (PoolSize - 1)
Pids    == 1 .. (PoolSize + MaxCalls)
NoPid   == 0
Calls   == 1 .. MaxCalls

ASSUME LongAssumption == LongCalls \subseteq Calls

VARIABLES
    next,          \* Pool.next: the invocations handed to a member so far
    denied,        \* the system mode is quarantined
    stopping,      \* the host is shutting its plugins down
    pc,            \* per caller: "idle", "waiting" for the lock, "writing", "reading"
    member,        \* per caller: the member it was given
    call,          \* per caller: the number of its invocation
    sc,            \* per caller: the process whose stdout it captured
    cmd,           \* per member: the process p.cmd names, or NoPid
    crashes,       \* per member
    quarantined,   \* per member
    life,          \* per process: "unborn", "alive", "exited", "killed"
    reaped,        \* per process: cmd.Wait has returned, ProcessState is set
    stdin,         \* per process: requests written and not yet read
    stdout,        \* per process: replies written and not yet read
    taken,         \* per process: how much of its stdout has been read
    scratch,       \* processes whose scratch directory is on disk
    born           \* processes started so far

control  == <<denied, stopping>>
callVars == <<next, pc, member, call, sc>>
procVars == <<life, reaped, stdin, stdout, taken, scratch, born>>
vars     == <<control, callVars, cmd, crashes, quarantined, procVars>>

(* What an outcome says, or a line that does not parse, changes nothing    *)
(* here: the call returns and the process stays.                           *)
Replies == [call : Calls, size : 1 .. MaxMessage]

(* NewPool has started every member; a member that does not start keeps    *)
(* the plugin from being loaded at all.                                    *)
Init ==
    /\ next = 0 /\ denied = FALSE /\ stopping = FALSE
    /\ pc = [c \in Callers |-> "idle"]
    /\ member = [c \in Callers |-> 0]
    /\ call = [c \in Callers |-> 0]
    /\ sc = [c \in Callers |-> NoPid]
    /\ cmd = [m \in Members |-> m + 1]
    /\ crashes = [m \in Members |-> 0]
    /\ quarantined = [m \in Members |-> FALSE]
    /\ life = [p \in Pids |-> IF p <= PoolSize THEN "alive" ELSE "unborn"]
    /\ reaped = [p \in Pids |-> FALSE]
    /\ stdin = [p \in Pids |-> <<>>]
    /\ stdout = [p \in Pids |-> <<>>]
    /\ taken = [p \in Pids |-> 0]
    /\ scratch = 1 .. PoolSize
    /\ born = PoolSize

-----------------------------------------------------------------------------
(* The plugin process, and the goroutine that waits for its exit.          *)

(* One reply for the oldest request, of any length a message may have.  A  *)
(* plugin that writes lines nobody asked for is left out: replies carry no *)
(* name of their request, so that its lines would answer the wrong calls.  *)
Answer(p) ==
    /\ life[p] = "alive"
    /\ stdin[p] # <<>>
    /\ \E r \in Replies :
         /\ r.call = Head(stdin[p])
         /\ stdout' = [stdout EXCEPT ![p] = Append(@, r)]
    /\ stdin' = [stdin EXCEPT ![p] = Tail(@)]
    /\ UNCHANGED <<control, callVars, cmd, crashes, quarantined, life, reaped, taken,
                   scratch, born>>

Exit(p) ==
    /\ life[p] = "alive"
    /\ life' = [life EXCEPT ![p] = "exited"]
    /\ UNCHANGED <<control, callVars, cmd, crashes, quarantined, reaped, stdin, stdout,
                   taken, scratch, born>>

(* cmd.Wait returns: it sets ProcessState and closes the read end of the   *)
(* stdout pipe, with whatever had not been read from it.  For a process    *)
(* that was killed p.cmd is nil by then, and nobody looks.                 *)
Reap(p) ==
    /\ life[p] = "exited"
    /\ ~reaped[p]
    /\ reaped' = [reaped EXCEPT ![p] = TRUE]
    /\ stdout' = [stdout EXCEPT ![p] = <<>>]
    /\ UNCHANGED <<control, callVars, cmd, crashes, quarantined, life, stdin, taken,
                   scratch, born>>

(* mode.Global enters or leaves Quarantined.                               *)
SetMode ==
    /\ denied' = ~denied
    /\ UNCHANGED <<stopping, callVars, cmd, crashes, quarantined, procVars>>

-----------------------------------------------------------------------------
(* Killing and starting, with the member's lock held.                      *)

(* The process a member lets go of, if any.                                *)
LetGo(m) == {cmd[m]} \ {NoPid}

(* Its pipes are dropped: no call will read or write them again.           *)
DropPipes(m) ==
    /\ stdin' = [p \in Pids |-> IF p \in LetGo(m) THEN <<>> ELSE stdin[p]]
    /\ stdout' = [p \in Pids |-> IF p \in LetGo(m) THEN <<>> ELSE stdout[p]]
    /\ taken' = [p \in Pids |-> IF p \in LetGo(m) THEN 0 ELSE taken[p]]

(* A kill that leaves the scratch directory.                               *)
killLeavingScratch(m) ==
    /\ cmd' = [cmd EXCEPT ![m] = NoPid]
    /\ life' = [p \in Pids |-> IF p \in LetGo(m) /\ life[p] = "alive"
                               THEN "killed" ELSE life[p]]
    /\ UNCHANGED scratch
    /\ DropPipes(m)

(* A kill that only forgets the process.                                   *)
forgetSubprocess(m) ==
    /\ cmd' = [cmd EXCEPT ![m] = NoPid]
    /\ scratch' = scratch \ LetGo(m)
    /\ UNCHANGED life
    /\ DropPipes(m)

(* killSubprocess.                                                         *)
killSubprocess(m) ==
    /\ cmd' = [cmd EXCEPT ![m] = NoPid]
    /\ life' = [p \in Pids |-> IF p \in LetGo(m) /\ life[p] = "alive"
                               THEN "killed" ELSE life[p]]
    /\ scratch' = scratch \ LetGo(m)
    /\ DropPipes(m)

(* The accounting of handleCrash.                                          *)
CountCrash(m) ==
    /\ crashes' = [crashes EXCEPT ![m] = @ + 1]
    /\ quarantined' = [quarantined EXCEPT ![m] = crashes[m] + 1 >= MaxRestarts]

(* handleCrash.                                                            *)
handleCrash(m) == killSubprocess(m) /\ CountCrash(m)

-----------------------------------------------------------------------------
(* Pool.Invoke and SubprocessPlugin.Invoke.                                *)

(* Where a call has its member's lock.                                     *)
Holding == {"writing", "reading"}

Locked(m) == \E c \in Callers : pc[c] \in Holding /\ member[c] = m

(* Pool.Invoke: the member whose turn it is; its lock is taken later.      *)
Invoke(c) ==
    /\ pc[c] = "idle"
    /\ next < MaxCalls
    /\ next' = next + 1
    /\ pc' = [pc EXCEPT ![c] = "waiting"]
    /\ member' = [member EXCEPT ![c] = next % PoolSize]
    /\ call' = [call EXCEPT ![c] = next + 1]
    /\ UNCHANGED <<control, sc, cmd, crashes, quarantined, procVars>>

(* The call returns; what it held is of no more account.                   *)
Return(c) ==
    /\ pc' = [pc EXCEPT ![c] = "idle"]
    /\ member' = [member EXCEPT ![c] = 0]
    /\ call' = [call EXCEPT ![c] = 0]
    /\ sc' = [sc EXCEPT ![c] = NoPid]

(* The refusals at the top: quarantined, the mode, or EnforceCapabilities. *)
Refuse(c) ==
    /\ pc[c] = "waiting"
    /\ ~Locked(member[c])
    /\ Return(c)
    /\ UNCHANGED <<control, next, cmd, crashes, quarantined,
                   procVars>>

(* An admission that looks only at the system mode.                        *)
AdmittedByMode(c) ==
    /\ pc[c] = "waiting"
    /\ ~Locked(member[c])
    /\ ~denied

Admitted(c) ==
    /\ pc[c] = "waiting"
    /\ ~Locked(member[c])
    /\ ~quarantined[member[c]]
    /\ ~denied

(* p.cmd == nil || p.cmd.ProcessState != nil                               *)
NeedsStart(m) == IF cmd[m] = NoPid THEN TRUE ELSE reaped[cmd[m]]

(* The request is written to the process p.cmd names, which may have       *)
(* exited without having been waited for.                                  *)
Send(c) ==
    /\ Admitted(c)
    /\ ~NeedsStart(member[c])
    /\ sc' = [sc EXCEPT ![c] = cmd[member[c]]]
    /\ pc' = [pc EXCEPT ![c] = "writing"]
    /\ UNCHANGED <<control, next, member, call, cmd, crashes, quarantined, procVars>>

(* restart: start takes a new scratch directory and a new process, and     *)
(* lets go of the old ones without a cleanup; then the request is written. *)
StartAndSend(c) ==
    LET m == member[c]
        p == born + 1
    IN  /\ Admitted(c)
        /\ NeedsStart(m)
        /\ p \in Pids
        /\ born' = p
        /\ cmd' = [cmd EXCEPT ![m] = p]
        /\ life' = [life EXCEPT ![p] = "alive"]
        /\ scratch' = scratch \cup {p}
        /\ sc' = [sc EXCEPT ![c] = p]
        /\ pc' = [pc EXCEPT ![c] = "writing"]
        /\ UNCHANGED <<control, next, member, call, crashes, quarantined, reaped, stdin,
                       stdout, taken>>

(* restart when start fails.  A hash that differs fails it before the new  *)
(* scratch directory is made, so that the old one is removed; after that   *)
(* it is the new one that is removed, and the old one stays.               *)
StartFails(c) ==
    LET m == member[c] IN
    /\ Admitted(c)
    /\ NeedsStart(m)
    /\ CountCrash(m)
    /\ cmd' = [cmd EXCEPT ![m] = NoPid]
    /\ scratch' \in {scratch, scratch \ {cmd[m]}}
    /\ Return(c)
    /\ UNCHANGED <<control, next, life, reaped, stdin,
                   stdout, taken, born>>

-----------------------------------------------------------------------------
(* The write of the request, with the lock held and before the select: it  *)
(* looks at neither the deadline nor the caller's context.                 *)

(* Flush returns: the pipe holds the request, or the plugin has read what  *)
(* the pipe does not hold.                                                 *)
Flush(c) ==
    /\ pc[c] = "writing"
    /\ life[sc[c]] = "alive"
    /\ stdin' = [stdin EXCEPT ![sc[c]] = Append(@, call[c])]
    /\ pc' = [pc EXCEPT ![c] = "reading"]
    /\ UNCHANGED <<control, next, member, call, sc, cmd, crashes, quarantined, life, reaped,
                   stdout, taken, scratch, born>>

(* Nobody has the other end of the pipe: the write, or the flush, fails.   *)
WriteFails(c) ==
    /\ pc[c] = "writing"
    /\ life[sc[c]] # "alive"
    /\ handleCrash(member[c])
    /\ Return(c)
    /\ UNCHANGED <<control, next, reaped, born>>

-----------------------------------------------------------------------------
(* The select.                                                             *)

(* What the LimitReader still lets through of the process's stdout.        *)
Room(p) == MaxMessage - taken[p]

(* A line arrives: the whole of it, or what the limit left of it, which    *)
(* does not parse; either way the call returns and the process stays.      *)
Receive(c) ==
    LET p == sc[c] IN
    /\ pc[c] = "reading"
    /\ stdout[p] # <<>>
    /\ Room(p) > 0
    /\ taken' = [taken EXCEPT ![p] =
                   IF Head(stdout[p]).size <= Room(p) THEN @ + Head(stdout[p]).size
                                                      ELSE MaxMessage]
    /\ stdout' = [stdout EXCEPT ![p] = Tail(@)]
    /\ Return(c)
    /\ UNCHANGED <<control, next, cmd, crashes, quarantined, life,
                   reaped, stdin, scratch, born>>

(* The scan ends without a line: the process is gone and left none, or the *)
(* limit is used up.                                                       *)
ReadFails(c) ==
    LET p == sc[c] IN
    /\ pc[c] = "reading"
    /\ (life[p] # "alive" /\ stdout[p] = <<>>) \/ Room(p) = 0
    /\ handleCrash(member[c])
    /\ Return(c)
    /\ UNCHANGED <<control, next, reaped, born>>

(* A timeout that is looked at only once the process has gone.             *)
TimeoutWhenGone(c) ==
    /\ pc[c] = "reading"
    /\ life[sc[c]] # "alive"
    /\ handleCrash(member[c])
    /\ Return(c)
    /\ UNCHANGED <<control, next, reaped, born>>

(* The manifest's timeout passes: kill, then handleCrash.                  *)
Timeout(c) ==
    /\ pc[c] = "reading"
    /\ handleCrash(member[c])
    /\ Return(c)
    /\ UNCHANGED <<control, next, reaped, born>>

(* A cancelled call that leaves the process running.                       *)
CancelOnly(c) ==
    /\ pc[c] = "reading"
    /\ Return(c)
    /\ UNCHANGED <<control, next, cmd, crashes, quarantined, procVars>>

(* The caller's context ends first: kill, and no crash is counted.         *)
Cancel(c) ==
    /\ pc[c] = "reading"
    /\ killSubprocess(member[c])
    /\ Return(c)
    /\ UNCHANGED <<control, next, crashes, quarantined, reaped, born>>

(* The host begins to stop: Manager.Shutdown has returned, drained or      *)
(* after its ten seconds.  Invoke does not know of it.                     *)
StopHost ==
    /\ ~stopping
    /\ stopping' = TRUE
    /\ UNCHANGED <<denied, callVars, cmd, crashes, quarantined, procVars>>

(* SubprocessPlugin.Shutdown, from ShutdownSubprocesses.                   *)
Shutdown(m) ==
    /\ stopping
    /\ ~Locked(m)
    /\ cmd[m] # NoPid
    /\ killSubprocess(m)
    /\ UNCHANGED <<control, callVars, crashes, quarantined, reaped, born>>

-----------------------------------------------------------------------------
Enter(c)  == Refuse(c) \/ Send(c) \/ StartAndSend(c) \/ StartFails(c)
Write(c)  == Flush(c) \/ WriteFails(c)
Select(c) == Receive(c) \/ ReadFails(c) \/ Timeout(c) \/ Cancel(c)

Next ==
    \/ \E p \in Pids : Answer(p) \/ Exit(p) \/ Reap(p)
    \/ SetMode \/ StopHost
    \/ \E c \in Callers : Invoke(c) \/ Enter(c) \/ Write(c) \/ Select(c)
    \/ \E m \in Members : Shutdown(m)

Spec == Init /\ [][Next]_vars

(* The manifest's timer fires once the select runs, and Go's mutex hands   *)
(* itself to a waiter that has waited a millisecond.  A write ends when    *)
(* the pipe holds the request, and when the process is gone; the rest of a *)
(* longer one is read by the plugin, and nothing makes the plugin read.    *)
FairSpec ==
    /\ Spec
    /\ \A c \in Callers :
          /\ WF_vars(Timeout(c))
          /\ SF_vars(Enter(c))
          /\ WF_vars(WriteFails(c))
          /\ WF_vars(call[c] \notin LongCalls /\ Flush(c))

-----------------------------------------------------------------------------
(* A line that a call finds on the stdout it captured is the reply to its  *)
(* own request, whatever became of the calls before it: a call that gives  *)
(* up on its reply takes the process with it.                              *)
RepliesReachTheirCall ==
    \A c \in Callers : pc[c] = "reading" =>
        \A i \in 1 .. Len(stdout[sc[c]]) : stdout[sc[c]][i].call = call[c]

(* No plugin process runs that no member of the pool would kill: none is   *)
(* let go of by a timeout, a cancelled call, a restart or a shutdown.      *)
NoOrphanProcess ==
    \A p \in Pids : life[p] = "alive" => \E m \in Members : cmd[m] = p

(* A scratch directory that no member owns was left by a process that      *)
(* exited on its own; every kill removes the directory with the process.   *)
LeftoverScratch ==
    \A p \in scratch : life[p] = "exited" \/ \E m \in Members : cmd[m] = p

(* A member is quarantined for good: no later step starts a process for    *)
(* it, whatever invocations were waiting for its lock.                     *)
QuarantineIsFinal ==
    [][\A m \in Members : quarantined[m] =>
          quarantined'[m] /\ cmd'[m] = NoPid]_vars

(* The write of a request comes to an end.  Nothing in Invoke ensures it   *)
(* for a request the pipe does not hold: that is for the plugin to do.     *)
WriteEnds ==
    \A c \in Callers : pc[c] = "writing" ~> pc[c] # "writing"

(* As long as the writes end, every invocation returns to the hook worker  *)
(* that made it: a plugin that takes its request and then hangs, dies or   *)
(* answers too much, and a lock that others wait for, hold no worker for   *)
(* ever.  Only the write itself has no deadline.                           *)
InvocationReturns ==
    WriteEnds => \A c \in Callers : pc[c] = "waiting" ~> pc[c] = "idle"
==============================================================================

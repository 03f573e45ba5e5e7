-------------------------- MODULE TerminalCommands --------------------------
(***************************************************************************)
(* run_terminal_cmd: the sandbox is looked for and checked, the proxy is   *)
(* ensured, and the command runs under a retry loop, next to the stream    *)
(* timeout and the user's abort, each of which may give the result first.  *)
(* The process itself lives in the sandbox, whatever becomes of its call.  *)
(***************************************************************************)
EXTENDS ProxySetup

CONSTANT MaxAttempts       \* maxRetries of the command's retryWithBackoff
ASSUME AttemptsAssumption == MaxAttempts \in Nat \ {0}

Attempts == 1 .. MaxAttempts

VARIABLES
    aborted,    \* the request's abort signal
    home,       \* the sandbox the command was given
    attempt,    \* the last attempt at commands.run, 0 before the first
    loop,       \* retryWithBackoff: "no", "sent", "backoff", "settled"
    proc,       \* the process of each attempt: "none", "asked" for,
                \* "running", "ended", "killed"
    timer,      \* the stream timeout: "off", "armed", "finding" a PID
    resolved,   \* the flag of the call's promise
    abort,      \* onAbort: "no", "finding" a PID, "killing", "missed",
                \* "done"
    blind       \* history: a reply or a kill of the call was lost

runVars == <<home, attempt, loop, proc, timer, resolved, abort, blind>>
vars == <<sandboxVars, pc, proxyVars, aborted, runVars>>

sandboxRest == <<kind, box, creates, faults>>
elsewhere == <<sandboxRest, manager, target, back, messy, proxyVars>>

----------------------------------------------------------------------------
(* Until the sandbox is ready. *)

Start(c) ==
    /\ pc[c] = "idle" /\ kind[c] # "none"
    /\ IF Tool(c)
       THEN Goto(c, "ensure") /\ UNCHANGED <<target, back, messy>>
       ELSE GetSandbox(c, "check")
    /\ UNCHANGED <<sandboxRest, manager, result, proxyVars, aborted, runVars>>

\* The call takes the sandbox and goes on to the proxy.
Settle(c) ==
    /\ home' = [home EXCEPT ![c] = target[c]]
    /\ Goto(c, "ensure")
    /\ UNCHANGED result

\* A sandbox given up for this request, the first command, or a check.
Check(c) ==
    /\ pc[c] = "check"
    /\ \/ /\ SandboxUnavailable
          /\ Return(c, "unavailable")
          /\ UNCHANGED <<justBooted, home>>
       \/ /\ ~SandboxUnavailable /\ justBooted
          /\ justBooted' = FALSE
          /\ Settle(c)
       \/ /\ ~SandboxUnavailable /\ ~justBooted
          /\ Goto(c, "health")
          /\ UNCHANGED <<result, justBooted, home>>
    /\ UNCHANGED <<sandboxRest, sandbox, healthFailures, target, back, messy,
                   proxyVars, aborted, attempt, loop, proc, timer, resolved,
                   abort, blind>>

\* waitForSandboxReady, of the cached sandbox or of a fresh one.
HealthOk(c) ==
    /\ pc[c] \in {"health", "fresh"}
    /\ Reaches(target[c])
    /\ healthFailures' = 0
    /\ Settle(c)
    /\ UNCHANGED <<sandboxRest, sandbox, justBooted, target, back, messy,
                   proxyVars, aborted, attempt, loop, proc, timer, resolved,
                   abort, blind>>

\* The signal is looked at before each try, so that a try may still decide.
HealthAborted(c) ==
    /\ pc[c] \in {"health", "fresh"}
    /\ aborted
    /\ Return(c, "error")
    /\ UNCHANGED <<elsewhere, aborted, runVars>>

\* The retries are used up.  The first time the call waits and looks for the
\* sandbox again, unless the request has seen too many failures.
HealthFails(c) ==
    /\ pc[c] \in {"health", "fresh"}
    /\ \/ ~Reaches(target[c]) /\ UNCHANGED faults
       \/ Reaches(target[c]) /\ Fault
    /\ healthFailures' = IF healthFailures < MaxHealthFailures
                         THEN healthFailures + 1
                         ELSE healthFailures
    /\ \/ /\ pc[c] = "health" /\ healthFailures' < MaxHealthFailures
          /\ Goto(c, "waiting")
          /\ UNCHANGED result
       \/ /\ pc[c] = "health" /\ healthFailures' >= MaxHealthFailures
          /\ Return(c, "unavailable")
       \/ /\ pc[c] = "fresh"
          /\ Return(c, "error")
    /\ UNCHANGED <<kind, box, creates, sandbox, justBooted, target, back,
                   messy, proxyVars, aborted, runVars>>

\* setSandbox(null) and getSandbox, with nothing in between.
LookAgain(c) ==
    /\ pc[c] = "waiting"
    /\ sandbox' = None
    /\ Locate(c, "fresh")
    /\ UNCHANGED <<sandboxRest, healthFailures, justBooted, result, proxyVars,
                   aborted, runVars>>

NoSandbox(c) ==
    /\ pc[c] = "threw" /\ back[c] \in {"check", "fresh"}
    /\ Return(c, "error")
    /\ UNCHANGED <<elsewhere, aborted, runVars>>

----------------------------------------------------------------------------
(* The command. *)

Background(c) == kind[c] = "background"
Current(c) == proc[c][attempt[c]]

\* The promise takes the first result it is given.
Resolve(c, what) == IF result[c] = "none" THEN Return(c, what)
                                          ELSE UNCHANGED <<pc, result>>

\* commands.run: the request is on its way to the sandbox.
SendAttempt(c) ==
    LET k == attempt[c] + 1 IN
    /\ attempt' = [attempt EXCEPT ![c] = k]
    /\ loop' = [loop EXCEPT ![c] = "sent"]
    /\ proc' = [proc EXCEPT ![c][k] = "asked"]

Launch(c) ==
    /\ pc[c] = "launch"
    /\ IF aborted
       THEN /\ Return(c, "aborted")
            /\ UNCHANGED runVars
       ELSE /\ Goto(c, "running")
            /\ timer' = [timer EXCEPT ![c] = "armed"]
            /\ SendAttempt(c)
            /\ UNCHANGED <<result, home, resolved, abort, blind>>
    /\ UNCHANGED <<elsewhere, aborted>>

\* handler.cleanup, and the result if nothing else has given one.
Settled(c, what) ==
    /\ loop' = [loop EXCEPT ![c] = "settled"]
    /\ timer' = [timer EXCEPT ![c] = IF @ = "armed" THEN "off" ELSE @]
    /\ resolved' = [resolved EXCEPT ![c] = TRUE]
    /\ IF resolved[c]
       THEN UNCHANGED <<pc, result>>
       ELSE Resolve(c, what)
    /\ UNCHANGED <<elsewhere, aborted, home, attempt, proc, abort, blind>>

\* Mutant of ReplyExit: a CommandExitError is retried like any other.
ReplyExitRetried(c) ==
    /\ loop[c] = "sent" /\ ~Background(c)
    /\ Current(c) = "ended"
    /\ \/ Settled(c, "exit")
       \/ /\ attempt[c] < MaxAttempts
          /\ loop' = [loop EXCEPT ![c] = "backoff"]
          /\ UNCHANGED <<elsewhere, pc, result, aborted, home, attempt, proc,
                         timer, resolved, abort, blind>>

\* The exit code comes back: commands.run returns, or throws CommandExitError.
ReplyExit(c) ==
    /\ loop[c] = "sent" /\ ~Background(c)
    /\ Current(c) = "ended"
    /\ Settled(c, "exit")

\* A background command has started.
ReplyStarted(c) ==
    /\ loop[c] = "sent" /\ Background(c)
    /\ Current(c) # "asked"
    /\ Settled(c, "started")

\* "signal: killed", or a sandbox that is not there any more: no retry.
ReplyPermanent(c) ==
    /\ loop[c] = "sent"
    /\ \/ Current(c) = "killed" /\ ~Background(c)
       \/ box[home[c]] = "dead"
    /\ Settled(c, "error")

\* Any other error, the timeout of commands.run among them: the process, if it
\* started, goes on.
ReplyLost(c) ==
    /\ loop[c] = "sent"
    /\ \/ ~Reaches(home[c]) /\ UNCHANGED faults
       \/ Reaches(home[c]) /\ Fault
    /\ blind' = [blind EXCEPT ![c] = TRUE]
    /\ IF attempt[c] < MaxAttempts
       THEN /\ loop' = [loop EXCEPT ![c] = "backoff"]
            /\ UNCHANGED <<pc, result, timer, resolved>>
       ELSE /\ loop' = [loop EXCEPT ![c] = "settled"]
            /\ timer' = [timer EXCEPT ![c] = IF @ = "armed" THEN "off" ELSE @]
            /\ resolved' = [resolved EXCEPT ![c] = TRUE]
            /\ IF resolved[c] THEN UNCHANGED <<pc, result>>
                              ELSE Resolve(c, "error")
    /\ UNCHANGED <<kind, box, creates, manager, target, back, messy, proxyVars,
                   aborted, home, attempt, proc, abort>>

\* Neither the abort signal nor the promise's flag is looked at.
Retry(c) ==
    /\ loop[c] = "backoff"
    /\ SendAttempt(c)
    /\ UNCHANGED <<elsewhere, pc, result, aborted, home, timer, resolved,
                   abort, blind>>

----------------------------------------------------------------------------
(* The stream timeout and the abort signal. *)

EndTimer(c) ==
    /\ resolved' = [resolved EXCEPT ![c] = TRUE]
    /\ timer' = [timer EXCEPT ![c] = "off"]
    /\ Resolve(c, "timeout")

\* A foreground command's PID is searched for before the flag is set.
TimerFires(c) ==
    /\ timer[c] = "armed"
    /\ IF resolved[c] \/ ~Background(c)
       THEN /\ timer' = [timer EXCEPT ![c] =
                            IF resolved[c] THEN "off" ELSE "finding"]
            /\ UNCHANGED <<pc, result, resolved>>
       ELSE EndTimer(c)
    /\ UNCHANGED <<elsewhere, aborted, home, attempt, loop, proc, abort,
                   blind>>

TimeoutEnds(c) ==
    /\ timer[c] = "finding"
    /\ EndTimer(c)
    /\ UNCHANGED <<elsewhere, aborted, home, attempt, loop, proc, abort,
                   blind>>

Live(c) == {k \in Attempts : proc[c][k] = "running"}

\* The user stops the answer: onAbort of every command that has no result.
Abort ==
    LET hit == {c \in Calls : pc[c] = "running" /\ ~resolved[c]} IN
    /\ ~aborted
    /\ aborted' = TRUE
    /\ resolved' = [c \in Calls |-> resolved[c] \/ c \in hit]
    /\ abort' = [c \in Calls |-> IF c \in hit THEN "finding" ELSE abort[c]]
    /\ UNCHANGED <<elsewhere, pc, result, home, attempt, loop, proc, timer,
                   blind>>

\* findProcessPid: pgrep sees what runs now.  A search that fails is taken
\* for one that found nothing.
FindPid(c) ==
    /\ abort[c] = "finding"
    /\ \/ /\ Reaches(home[c]) /\ Live(c) # {}
          /\ abort' = [abort EXCEPT ![c] = "killing"]
          /\ UNCHANGED <<pc, result, faults>>
       \/ /\ \/ ~(Reaches(home[c]) /\ Live(c) # {}) /\ UNCHANGED faults
             \/ Fault
          /\ abort' = [abort EXCEPT ![c] = "missed"]
          /\ Resolve(c, "aborted")
    /\ UNCHANGED <<kind, box, creates, manager, target, back, messy, proxyVars,
                   aborted, home, attempt, loop, proc, timer, resolved, blind>>

\* terminateProcessReliably; what it cannot do is only logged.
KillProcess(c) ==
    /\ abort[c] = "killing"
    /\ \/ \E k \in Live(c) :
             /\ Reaches(home[c])
             /\ proc' = [proc EXCEPT ![c][k] = "killed"]
             /\ UNCHANGED <<faults, blind>>
       \/ /\ Live(c) = {}
          /\ UNCHANGED <<proc, faults, blind>>
       \/ /\ \/ ~Reaches(home[c]) /\ UNCHANGED faults
             \/ Fault
          /\ blind' = [blind EXCEPT ![c] = TRUE]
          /\ UNCHANGED proc
    /\ abort' = [abort EXCEPT ![c] = "done"]
    /\ Resolve(c, "aborted")
    /\ UNCHANGED <<kind, box, creates, manager, target, back, messy, proxyVars,
                   aborted, home, attempt, loop, timer, resolved>>

\* The request arrives in the sandbox.
ProcessStarts(c) ==
    /\ \E k \in Attempts : /\ proc[c][k] = "asked"
                           /\ Reaches(home[c])
                           /\ proc' = [proc EXCEPT ![c][k] = "running"]
    /\ UNCHANGED <<elsewhere, pc, result, aborted, home, attempt, loop, timer,
                   resolved, abort, blind>>

\* A process ends by itself, or with its sandbox.
ProcessEnds(c) ==
    /\ \E k \in Live(c) : proc' = [proc EXCEPT ![c][k] = "ended"]
    /\ UNCHANGED <<elsewhere, pc, result, aborted, home, attempt, loop, timer,
                   resolved, abort, blind>>

----------------------------------------------------------------------------

CommandStep(c) ==
    \/ Start(c) \/ Check(c) \/ HealthOk(c) \/ HealthAborted(c)
    \/ HealthFails(c) \/ LookAgain(c) \/ NoSandbox(c) \/ Launch(c)
    \/ ReplyExit(c) \/ ReplyStarted(c) \/ ReplyPermanent(c) \/ ReplyLost(c)
    \/ Retry(c) \/ TimerFires(c) \/ TimeoutEnds(c)
    \/ FindPid(c) \/ KillProcess(c)

CallStep(c) ==
    \/ CommandStep(c)
    \/ ProxyStep(c) /\ UNCHANGED <<aborted, runVars>>
    \/ GetSandboxStep(c) /\ UNCHANGED <<proxyVars, aborted, runVars>>

World ==
    \/ Service /\ UNCHANGED <<pc, proxyVars, aborted, runVars>>
    \/ (\E s \in Boxes : ProxyBreaks(s)) /\ UNCHANGED <<aborted, runVars>>
    \/ \E c \in Calls : ProcessStarts(c) \/ ProcessEnds(c)
    \/ Abort

Init ==
    /\ SandboxInit
    /\ ProxyInit
    /\ aborted = FALSE
    /\ home = [c \in Calls |-> None]
    /\ attempt = [c \in Calls |-> 0]
    /\ loop = [c \in Calls |-> "no"]
    /\ proc = [c \in Calls |-> [k \in Attempts |-> "none"]]
    /\ timer = [c \in Calls |-> "off"]
    /\ resolved = [c \in Calls |-> FALSE]
    /\ abort = [c \in Calls |-> "no"]
    /\ blind = [c \in Calls |-> FALSE]

Next == (\E c \in Calls : CallStep(c)) \/ World

Spec == Init /\ [][Next]_vars /\ \A c \in Calls : WF_vars(CallStep(c))

----------------------------------------------------------------------------

Places ==
    {"idle", "check", "health", "waiting", "fresh", "ensure", "awaiting",
     "script", "starting", "confirming", "reach", "query", "kill", "launch",
     "running", "over", "threw"} \cup Locating

\* Where a call goes on when its sandbox is found.
Returns == {"check", "fresh", "script", "query", "kill"}

RunTypeOK ==
    /\ aborted \in BOOLEAN
    /\ home \in [Calls -> Boxes \cup {None}]
    /\ attempt \in [Calls -> 0 .. MaxAttempts]
    /\ loop \in [Calls -> {"no", "sent", "backoff", "settled"}]
    /\ proc \in [Calls -> [Attempts ->
                    {"none", "asked", "running", "ended", "killed"}]]
    /\ timer \in [Calls -> {"off", "armed", "finding"}]
    /\ resolved \in [Calls -> BOOLEAN]
    /\ abort \in [Calls -> {"no", "finding", "killing", "missed", "done"}]
    /\ blind \in [Calls -> BOOLEAN]

TypeOK ==
    /\ SandboxTypeOK /\ ProxyTypeOK /\ RunTypeOK
    /\ pc \in [Calls -> Places]
    /\ back \in [Calls -> Returns \cup {"none"}]

\* The user has one sandbox at a time, so that his files and what he pays for
\* are in one place, as long as no two calls look for one at once and no
\* kill or creation is lost: sandbox.ts kills what it cannot use before it
\* creates another.
OneSandbox == ~messy => Cardinality(Listed) <= 1

\* A resolved setup in caidoLock means that the proxy it started is there:
\* commands are given the proxy's environment on its word alone.  A kill that
\* was on its way when the setup began may still hit it.
LockIsTrue == lock # NoCall /\ ~SettingUp(lock) /\ ~raced
                 => setupAt # None /\ proxy[setupAt] # "off"

\* Unless a reply or a kill is lost, a command is asked for once, and when its
\* call answers with an exit code, or that it was aborted and its PID had been
\* found, nothing of it runs in the sandbox or will: the timeout and the abort
\* handler share one flag, and an exit, a kill and a start end the retry loop,
\* which does not read it.  After a lost reply the loop starts the command
\* again even when its call has answered, which this excuses.
Accounted ==
    \A c \in Calls :
       ~blind[c] =>
          /\ Cardinality({k \in Attempts : proc[c][k] # "none"}) <= 1
          /\ result[c] = "exit" \/ abort[c] = "done"
                => \A k \in Attempts : proc[c][k] \notin {"asked", "running"}

\* Every call ends with a result: whoever waits for another's setup is told,
\* and a command that hangs is answered by the stream timeout.
CallsEnd == <>(\A c \in Calls : kind[c] # "none" => result[c] # "none")

=============================================================================

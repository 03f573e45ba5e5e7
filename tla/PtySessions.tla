----------------------------- MODULE PtySessions -----------------------------
(***************************************************************************)
(* The interactive terminals of one chat: PtySessionManager, the tool call *)
(* that kills a session, and the closeAll calls that end a response.  A    *)
(* session is a shell process in the sandbox and an entry of the manager's *)
(* map; the two agree only as far as the calls to the sandbox allow.  A    *)
(* step is what runs between two awaits of the single-threaded program.    *)
(* Output, its ring buffer and the choice of session ids are left out.     *)
(***************************************************************************)
EXTENDS Integers, FiniteSets

CONSTANTS
    Sessions,       \* the calls of create(), and the session of each
    MaxPtys,        \* MAX_CONCURRENT_PTYS_PER_CHAT
    Parallel,       \* tool calls the model makes at once
    MaxFaults       \* bound: sandbox calls that fail in a behaviour

ASSUME PtyAssumption ==
    /\ IsFiniteSet(Sessions)
    /\ MaxPtys \in Nat \ {0}
    /\ Parallel \in Nat \ {0}
    /\ MaxFaults \in Nat

VARIABLES
    pc,             \* where create() stands
    running,        \* the shell runs in the sandbox
    exited,         \* the handle's `exited` promise is resolved
    registered,     \* the session is in the chat's map
    armed,          \* its idle and lifetime timers are set
    closing,        \* where killAndRemove stands
    tool,           \* where the kill tool call stands
    kills,          \* history: calls of handle.kill()
    faults          \* history: sandbox calls that failed, by session

ptyVars == <<pc, running, exited, registered, armed, closing, tool, kills,
             faults>>

Init ==
    /\ pc = [s \in Sessions |-> "idle"]
    /\ running = [s \in Sessions |-> FALSE]
    /\ exited = [s \in Sessions |-> FALSE]
    /\ registered = [s \in Sessions |-> FALSE]
    /\ armed = [s \in Sessions |-> FALSE]
    /\ closing = [s \in Sessions |-> "no"]
    /\ tool = [s \in Sessions |-> "none"]
    /\ kills = [s \in Sessions |-> 0]
    /\ faults = {}

Goto(s, label)  == pc' = [pc EXCEPT ![s] = label]
Fault(s, what)  == /\ Cardinality(faults) < MaxFaults
                   /\ faults' = faults \cup {<<s, what>>}
Registered      == {s \in Sessions : registered[s]}
Spawning        == {s \in Sessions : pc[s] = "spawning"}

-----------------------------------------------------------------------------
(* create *)

\* Mutant of UnderCap: off by one.
UnderOrAtCap == Cardinality(Registered) <= MaxPtys

UnderCap == Cardinality(Registered) < MaxPtys

\* The cap is checked on the map before the await, which later adds to it.
Create(s) ==
    /\ pc[s] = "idle"
    /\ Cardinality(Spawning) < Parallel
    /\ Goto(s, IF UnderCap THEN "spawning" ELSE "refused")
    /\ UNCHANGED <<running, exited, registered, armed, closing, tool, kills,
                   faults>>

\* createHandle resolves; the session is wired up and registered in one go.
Wire(s) ==
    /\ pc[s] = "spawning"
    /\ running' = [running EXCEPT ![s] = TRUE]
    /\ armed' = [armed EXCEPT ![s] = TRUE]
    /\ registered' = [registered EXCEPT ![s] = TRUE]
    /\ Goto(s, "created")
    /\ UNCHANGED <<exited, closing, tool, kills, faults>>

\* createHandle rejects, before or after the sandbox started the shell.
SpawnErrs(s) ==
    /\ pc[s] = "spawning"
    /\ \/ UNCHANGED <<running, faults>>
       \/ running' = [running EXCEPT ![s] = TRUE] /\ Fault(s, "spawn")
    /\ Goto(s, "failed")
    /\ UNCHANGED <<exited, registered, armed, closing, tool, kills>>

\* Mutant of WiringFails: the error is passed on and the shell forgotten.
WiringFailsOnly(s) ==
    /\ pc[s] = "spawning"
    /\ running' = [running EXCEPT ![s] = TRUE]
    /\ Goto(s, "failed")
    /\ UNCHANGED <<exited, registered, armed, closing, tool, kills, faults>>

\* Wiring the new handle up throws: the orphan is killed.
WiringFails(s) ==
    /\ pc[s] = "spawning"
    /\ running' = [running EXCEPT ![s] = TRUE]
    /\ kills' = [kills EXCEPT ![s] = @ + 1]
    /\ Goto(s, "orphan")
    /\ UNCHANGED <<exited, registered, armed, closing, tool, faults>>

OrphanKilled(s) ==
    /\ pc[s] = "orphan"
    /\ \/ running' = [running EXCEPT ![s] = FALSE] /\ UNCHANGED faults
       \/ Fault(s, "kill") /\ UNCHANGED running
    /\ Goto(s, "failed")
    /\ UNCHANGED <<exited, registered, armed, closing, tool, kills>>

-----------------------------------------------------------------------------
(* killAndRemove, and who calls it *)

MayKill(s) == registered[s] /\ closing[s] = "no"

\* Mutant of StartKill: a shell that has exited is left alone.
StartKillUnlessExited(S) ==
    /\ closing' = [s \in Sessions |-> IF s \in S /\ ~exited[s] THEN "killing"
                                      ELSE closing[s]]
    /\ armed' = [s \in Sessions |-> armed[s] /\ s \notin S]
    /\ kills' = [s \in Sessions |-> IF s \in S THEN kills[s] + 1
                                    ELSE kills[s]]
    /\ UNCHANGED <<pc, running, exited, registered, faults>>

\* Up to the await of handle.kill(): flag, timers, call.
StartKill(S) ==
    /\ closing' = [s \in Sessions |-> IF s \in S THEN "killing"
                                      ELSE closing[s]]
    /\ armed' = [s \in Sessions |-> armed[s] /\ s \notin S]
    /\ kills' = [s \in Sessions |-> IF s \in S THEN kills[s] + 1
                                    ELSE kills[s]]
    /\ UNCHANGED <<pc, running, exited, registered, faults>>

\* The idle or the lifetime timer; their bodies are discarded promises.
TimerFires(s) ==
    /\ armed[s]
    /\ MayKill(s)
    /\ StartKill({s})
    /\ UNCHANGED tool

\* onFinish, onError, onAbort and the handler's outer catch.  A session whose
\* create() is still waiting is not in the map.
CloseAll ==
    /\ \E s \in Sessions : MayKill(s)
    /\ StartKill({s \in Sessions : MayKill(s)})
    /\ UNCHANGED tool

\* action=kill finds the session, and closes it or waits for who does.
ToolKills(s) ==
    /\ registered[s]
    /\ tool[s] = "none"
    /\ tool' = [tool EXCEPT ![s] = IF MayKill(s) THEN "owner" ELSE "waiter"]
    /\ IF MayKill(s)
       THEN StartKill({s})
       ELSE UNCHANGED <<pc, running, exited, registered, armed, closing,
                        kills, faults>>

\* handle.kill() returns, or throws: the shell was gone, or survives.
KillReturns(s) ==
    /\ closing[s] = "killing"
    /\ closing' = [closing EXCEPT ![s] = "draining"]
    /\ \/ running' = [running EXCEPT ![s] = FALSE] /\ UNCHANGED faults
       \/ running[s] /\ Fault(s, "kill") /\ UNCHANGED running
    /\ UNCHANGED <<pc, exited, registered, armed, tool, kills>>

\* Mutant of Remove: no fallback when the shell never exits.
RemoveOnExit(s) ==
    /\ closing[s] = "draining"
    /\ exited[s]
    /\ closing' = [closing EXCEPT ![s] = "removed"]
    /\ registered' = [registered EXCEPT ![s] = FALSE]
    /\ UNCHANGED <<pc, running, exited, armed, tool, kills, faults>>

\* After the exit, or two seconds.
Remove(s) ==
    /\ closing[s] = "draining"
    /\ closing' = [closing EXCEPT ![s] = "removed"]
    /\ registered' = [registered EXCEPT ![s] = FALSE]
    /\ UNCHANGED <<pc, running, exited, armed, tool, kills, faults>>

\* Mutant of CloseReturns: a call that found the session closing hangs.
CloseReturnsToOwner(s) ==
    /\ tool[s] = "owner" /\ closing[s] = "removed"
    /\ tool' = [tool EXCEPT ![s] = "awaitsExit"]
    /\ UNCHANGED <<pc, running, exited, registered, armed, closing, kills,
                   faults>>

\* Mutant of CloseReturns: success is reported as soon as close() returns.
CloseReportsSuccess(s) ==
    /\ \/ tool[s] = "owner" /\ closing[s] = "removed"
       \/ tool[s] = "waiter"
    /\ tool' = [tool EXCEPT ![s] = "reported"]
    /\ UNCHANGED <<pc, running, exited, registered, armed, closing, kills,
                   faults>>

\* close() returns to the tool call.  A call that found the session closing
\* waits for the exit or two seconds of its own.
CloseReturns(s) ==
    /\ \/ tool[s] = "owner" /\ closing[s] = "removed"
       \/ tool[s] = "waiter"
    /\ tool' = [tool EXCEPT ![s] = "awaitsExit"]
    /\ UNCHANGED <<pc, running, exited, registered, armed, closing, kills,
                   faults>>

\* The tool call awaits `exited` before it reports success.
ToolReports(s) ==
    /\ tool[s] = "awaitsExit"
    /\ exited[s]
    /\ tool' = [tool EXCEPT ![s] = "reported"]
    /\ UNCHANGED <<pc, running, exited, registered, armed, closing, kills,
                   faults>>

-----------------------------------------------------------------------------
(* The sandbox *)

ShellExits(s) ==
    /\ running[s]
    /\ running' = [running EXCEPT ![s] = FALSE]
    /\ UNCHANGED <<pc, exited, registered, armed, closing, tool, kills,
                   faults>>

\* wait() resolves some time after the shell is gone; the session stays.
ExitSeen(s) ==
    /\ pc[s] = "created"
    /\ ~running[s] /\ ~exited[s]
    /\ exited' = [exited EXCEPT ![s] = TRUE]
    /\ UNCHANGED <<pc, running, registered, armed, closing, tool, kills,
                   faults>>

\* wait() rejects: the adapter resolves `exited` although the shell runs.
WaitErrs(s) ==
    /\ pc[s] = "created"
    /\ running[s] /\ ~exited[s]
    /\ exited' = [exited EXCEPT ![s] = TRUE]
    /\ Fault(s, "wait")
    /\ UNCHANGED <<pc, running, registered, armed, closing, tool, kills>>

\* Nothing need happen once every session is over.
AllOver ==
    /\ \A s \in Sessions : pc[s] # "spawning" /\ ~registered[s]
    /\ UNCHANGED ptyVars

KillStep(s) == KillReturns(s) \/ Remove(s)
ToolStep(s) == CloseReturns(s) \/ ToolReports(s)

Next ==
    \/ \E s \in Sessions :
          \/ Create(s) \/ Wire(s) \/ SpawnErrs(s) \/ WiringFails(s)
          \/ OrphanKilled(s) \/ TimerFires(s) \/ ToolKills(s)
          \/ KillStep(s) \/ ToolStep(s)
          \/ ShellExits(s) \/ ExitSeen(s) \/ WaitErrs(s)
    \/ CloseAll
    \/ AllOver

Spec == Init /\ [][Next]_ptyVars

\* Timers fire, a kill request returns or fails, and resolved promises are
\* acted on, as long as the process lives.  A spawn may hang: its request has
\* no deadline.
FairSpec ==
    Spec /\ \A s \in Sessions :
              /\ WF_ptyVars(TimerFires(s)) /\ WF_ptyVars(KillStep(s))
              /\ WF_ptyVars(ToolStep(s)) /\ WF_ptyVars(ExitSeen(s))
              /\ WF_ptyVars(OrphanKilled(s))

-----------------------------------------------------------------------------
(* Properties *)

\* A session in the map is one that create() returned.
TypeOK ==
    /\ pc \in [Sessions -> {"idle", "spawning", "refused", "failed",
                            "orphan", "created"}]
    /\ running \in [Sessions -> BOOLEAN]
    /\ exited \in [Sessions -> BOOLEAN]
    /\ registered \in [Sessions -> BOOLEAN]
    /\ armed \in [Sessions -> BOOLEAN]
    /\ closing \in [Sessions -> {"no", "killing", "draining", "removed"}]
    /\ tool \in [Sessions -> {"none", "owner", "waiter", "awaitsExit",
                              "reported"}]
    /\ kills \in [Sessions -> Nat]
    /\ faults \in SUBSET (Sessions \X {"spawn", "kill", "wait"})
    /\ \A s \in Sessions : registered[s] => pc[s] = "created"

\* A shell nobody can stop any more: starting or killing it failed.
Leaked(s) == <<s, "spawn">> \in faults \/ <<s, "kill">> \in faults

\* No shell runs that the manager has forgotten, whoever creates, closes or
\* fails meanwhile (create: "so it doesn't leak in the sandbox").
NoOrphan ==
    \A s \in Sessions :
        running[s] => registered[s] \/ pc[s] = "orphan" \/ Leaked(s)

\* Every session in the map has a timer that will end it, or somebody is
\* ending it: a close that gives up half-way would strand it.
Supervised ==
    \A s \in Sessions :
        registered[s] => armed[s] \/ closing[s] \in {"killing", "draining"}

\* Timers, closeAll and the kill tool may all ask for it; a handle is killed
\* once ("prevents re-entry").
KilledOnce == \A s \in Sessions : kills[s] <= 1

\* The cap is checked before an await, so calls made at once can pass it
\* together, but by no more than the others in flight; one call at a time
\* keeps it (MAX_CONCURRENT_PTYS_PER_CHAT).
CapOverrunBounded == Cardinality(Registered) <= MaxPtys + Parallel - 1

\* The tool reports a kill only when the shell has ended, also when another
\* caller was closing the session, unless the connection that waits for the
\* exit broke (handleKill).
KillReportIsTrue ==
    \A s \in Sessions :
        tool[s] = "reported" => ~running[s] \/ <<s, "wait">> \in faults

\* Every session leaves the map, and its shell ends unless the sandbox failed
\* to start or to kill it properly.
SessionsEnd ==
    \A s \in Sessions :
        running[s] \/ registered[s] ~>
            ~registered[s] /\ (~running[s] \/ Leaked(s))

\* Every kill tool call returns, unless the kill itself failed: it then waits
\* for the shell's exit for ever.
KillCallsEnd ==
    \A s \in Sessions :
        tool[s] # "none" ~> tool[s] = "reported" \/ <<s, "kill">> \in faults

=============================================================================

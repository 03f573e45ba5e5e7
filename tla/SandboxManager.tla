--------------------------- MODULE SandboxManager ---------------------------
(***************************************************************************)
(* HybridSandboxManager and ensureSandboxConnection: how the tool calls of *)
(* one agent request, which run in parallel, come by the user's cloud      *)
(* sandbox.  The service that keeps the sandboxes is external: a sandbox   *)
(* may pause, break or disappear, and each call to the service may fail.   *)
(***************************************************************************)
EXTENDS Integers, FiniteSets

CONSTANTS
    Calls,              \* the tool calls of the request
    Kinds,              \* which kinds of call they may be
    MaxBoxes,           \* sandboxes the service creates at most
    MaxCreateRetries,   \* MAX_CREATE_RETRIES
    MaxHealthFailures,  \* MAX_SANDBOX_HEALTH_FAILURES
    MaxFaults           \* failing calls, sandboxes that pause, break or die

ASSUME KindsAssumption ==
    Kinds \subseteq [Calls -> {"command", "background", "proxy", "none"}]
ASSUME BoxesAssumption == MaxBoxes \in Nat \ {0}
ASSUME LimitsAssumption == /\ MaxCreateRetries \in Nat \ {0}
                           /\ MaxHealthFailures \in Nat \ {0}
                           /\ MaxFaults \in Nat

Boxes == 1 .. MaxBoxes
None == 0

VARIABLES
    kind,            \* "command", "background" (run_terminal_cmd), "proxy",
                     \* "none": the agent makes no such call
    pc,              \* where the call stands
    result,          \* what it has returned, "none" before
    box,             \* the service: the state of each sandbox of the user
    sandbox,         \* the manager's cached sandbox, or None
    healthFailures,  \* healthFailureCount
    justBooted,
    target,          \* the sandbox a call's last getSandbox is about
    back,            \* where a call goes on when getSandbox returns
    creates,         \* attempts at Sandbox.create
    faults,          \* faults so far
    messy            \* history: two calls looked for a sandbox at once, a
                     \* sandbox was not killed or created without our knowing

located == <<pc, target, back, messy>>
manager == <<sandbox, healthFailures, justBooted>>
sandboxVars == <<kind, result, box, manager, creates, faults, located>>

Fault == faults < MaxFaults /\ faults' = faults + 1

----------------------------------------------------------------------------

\* What Sandbox.list shows, and what still costs something.
Listed == {s \in Boxes : box[s] \in {"old", "paused", "up", "broken"}}

Locating == {"listing", "connecting", "killing", "creating"}

\* sandboxUnavailable is set and cleared together with the count.
SandboxUnavailable == healthFailures >= MaxHealthFailures

Goto(c, place) == pc' = [pc EXCEPT ![c] = place]

Return(c, what) == /\ Goto(c, "over")
                   /\ result' = [result EXCEPT ![c] = what]

\* Nothing is cached: look for a sandbox of the user.
Locate(c, ret) ==
    /\ Goto(c, "listing")
    /\ back' = [back EXCEPT ![c] = ret]
    /\ messy' = (messy \/ \E d \in Calls \ {c} : pc[d] \in Locating)
    /\ UNCHANGED target

\* getSandbox() by call c, which goes on at ret. Not cached: ask the service.
GetSandbox(c, ret) ==
    \/ sandbox = None /\ Locate(c, ret)
    \/ /\ sandbox # None
       /\ Goto(c, ret)
       /\ target' = [target EXCEPT ![c] = sandbox]
       /\ back' = [back EXCEPT ![c] = ret]
       /\ UNCHANGED messy

\* Sandbox.list: the first one is taken, and one of another version killed.
List(c) ==
    /\ pc[c] = "listing"
    /\ \/ /\ Listed = {} /\ Goto(c, "creating")
          /\ UNCHANGED target
       \/ \E s \in Listed :
             /\ target' = [target EXCEPT ![c] = s]
             /\ Goto(c, IF box[s] = "old" THEN "killing" ELSE "connecting")
    /\ UNCHANGED <<kind, result, box, manager, creates, faults, back, messy>>

\* getSandbox throws: a listing or creation that fails, or the last retry.
GetSandboxThrows(c) ==
    /\ pc[c] \in {"listing", "creating"}
    /\ Fault
    /\ Goto(c, "threw")
    /\ UNCHANGED <<kind, result, box, manager, creates, target, back, messy>>

\* The sandbox becomes the manager's and the call goes on.
Found(c, s) ==
    /\ sandbox' = s
    /\ target' = [target EXCEPT ![c] = s]
    /\ Goto(c, back[c])

\* Sandbox.connect wakes a paused sandbox.
Connect(c) ==
    LET s == target[c] IN
    /\ pc[c] = "connecting"
    /\ box[s] \in {"paused", "up"}
    /\ box' = [box EXCEPT ![s] = "up"]
    /\ Found(c, s)
    /\ UNCHANGED <<kind, result, healthFailures, justBooted, creates, faults,
                   back, messy>>

\* Mutant of ConnectFails: the broken sandbox is left alone.
ConnectFailsSpared(c) ==
    /\ pc[c] = "connecting"
    /\ \/ box[target[c]] \in {"broken", "dead"} /\ UNCHANGED faults
       \/ Fault
    /\ Goto(c, "creating")
    /\ UNCHANGED <<kind, result, box, manager, creates, target, back, messy>>

\* A sandbox that cannot be resumed is to be killed.
ConnectFails(c) ==
    /\ pc[c] = "connecting"
    /\ \/ box[target[c]] \in {"broken", "dead"} /\ UNCHANGED faults
       \/ Fault
    /\ Goto(c, "killing")
    /\ UNCHANGED <<kind, result, box, manager, creates, target, back, messy>>

\* Sandbox.kill; an error is only logged.
Kill(c) ==
    /\ pc[c] = "killing"
    /\ \/ /\ box' = [box EXCEPT ![target[c]] = "dead"]
          /\ UNCHANGED <<faults, messy>>
       \/ Fault /\ messy' = TRUE /\ UNCHANGED box
    /\ Goto(c, "creating")
    /\ UNCHANGED <<kind, result, manager, creates, target, back>>

\* Sandbox.create.
Create(c) ==
    /\ pc[c] = "creating"
    /\ \E s \in Boxes :
          /\ box[s] = "none"
          /\ \A t \in 1 .. s - 1 : box[t] # "none"
          /\ box' = [box EXCEPT ![s] = "up"]
          /\ \/ Found(c, s) /\ UNCHANGED <<faults, messy>>
             \/ /\ Fault /\ messy' = TRUE  \* created, but the reply is lost
                /\ Goto(c, "threw")
                /\ UNCHANGED <<sandbox, target>>
    /\ creates' = [creates EXCEPT ![c] = 0]
    /\ UNCHANGED <<kind, result, healthFailures, justBooted, back>>

\* E2B answers 429: wait and try again, a bounded number of times.
CreateLimited(c) ==
    /\ pc[c] = "creating"
    /\ Fault
    /\ IF creates[c] + 1 < MaxCreateRetries
       THEN /\ creates' = [creates EXCEPT ![c] = @ + 1]
            /\ UNCHANGED pc
       ELSE /\ creates' = [creates EXCEPT ![c] = 0]
            /\ Goto(c, "threw")
    /\ UNCHANGED <<kind, result, box, manager, target, back, messy>>

----------------------------------------------------------------------------
(* The service. *)

\* A sandbox pauses when its time is up, or breaks, or is deleted.
Disturb(s) ==
    /\ box[s] \in {"paused", "up"}
    /\ Fault
    /\ \E b \in {"paused", "broken", "dead"} :
          b # box[s] /\ box' = [box EXCEPT ![s] = b]
    /\ UNCHANGED <<kind, result, manager, creates, located>>

Service == \E s \in Boxes : Disturb(s)

GetSandboxStep(c) ==
    \/ List(c) \/ Connect(c) \/ ConnectFails(c) \/ Kill(c)
    \/ Create(c) \/ CreateLimited(c) \/ GetSandboxThrows(c)

\* The calls are the first of the request, or earlier ones have booted a
\* sandbox, which may have paused or broken since.
SandboxInit ==
    /\ kind \in Kinds
    /\ pc = [c \in Calls |-> "idle"]
    /\ result = [c \in Calls |-> "none"]
    /\ justBooted \in BOOLEAN
    /\ \E b \in IF justBooted THEN {"none", "old", "paused", "up", "broken"}
                             ELSE {"paused", "up", "broken"} :
          box = [s \in Boxes |-> IF s = 1 THEN b ELSE "none"]
    /\ sandbox = IF justBooted THEN None ELSE 1
    /\ healthFailures \in IF justBooted THEN {0} ELSE 0 .. MaxHealthFailures
    /\ target = [c \in Calls |-> None]
    /\ back = [c \in Calls |-> "none"]
    /\ creates = [c \in Calls |-> 0]
    /\ faults = 0
    /\ messy = FALSE

SandboxTypeOK ==
    /\ kind \in [Calls -> {"command", "background", "proxy", "none"}]
    /\ result \in [Calls -> {"none", "answer", "error", "unavailable",
                             "aborted", "exit", "started", "timeout"}]
    /\ box \in [Boxes -> {"none", "old", "paused", "up", "broken", "dead"}]
    /\ sandbox \in Boxes \cup {None}
    /\ healthFailures \in 0 .. MaxHealthFailures
    /\ justBooted \in BOOLEAN
    /\ target \in [Calls -> Boxes \cup {None}]
    /\ creates \in [Calls -> 0 .. MaxCreateRetries - 1]
    /\ faults \in 0 .. MaxFaults
    /\ messy \in BOOLEAN

=============================================================================

----------------------------- MODULE ProxySetup -----------------------------
(***************************************************************************)
(* The Caido proxy of a sandbox (proxy-manager.ts).  Commands and proxy    *)
(* tools call ensureCaido first; a promise kept per sandbox manager, the   *)
(* lock, makes parallel callers wait for one setup.  A proxy tool that     *)
(* meets a broken proxy takes the lock away and kills the proxy.           *)
(***************************************************************************)
EXTENDS SandboxManager

CONSTANT NoCall
ASSUME NoCallAssumption == NoCall \notin Calls

VARIABLES
    proxy,     \* caido-cli in each sandbox: "off", "on", "broken"
    lock,      \* caidoLock: the call whose setup it holds, or NoCall
    awaits,    \* the call whose setup a call waits for
    disabled,  \* caidoSetupDisabled of the terminal tool
    proxied,   \* the command gets the proxy's environment variables
    setupAt,   \* history: the sandbox of the last setup that succeeded
    raced      \* history: a setup began while a proxy was to be killed

proxyVars == <<proxy, lock, awaits, disabled, proxied, setupAt, raced>>

----------------------------------------------------------------------------

Tool(c) == kind[c] = "proxy"

\* The places of a call that is inside doEnsureCaido.
SettingUp(c) == \/ pc[c] \in {"script", "starting", "confirming"}
                \/ pc[c] \in Locating \cup {"threw"} /\ back[c] = "script"

\* A call between the two halves of invalidateAndKillCaido.
Invalidating(c) == \/ pc[c] = "kill"
                   \/ pc[c] \in Locating \cup {"threw"} /\ back[c] = "kill"

Waiters(c) == {d \in Calls : pc[d] = "awaiting" /\ awaits[d] = c}

\* A command of the sandbox's shell goes through.
Reaches(s) == box[s] = "up"

\* ensureCaido by c: wait for the setup in the lock, or begin one.
EnsureCaido(c) ==
    /\ pc[c] = "ensure"
    /\ \/ /\ ~Tool(c) /\ disabled
          /\ Goto(c, "launch")
          /\ UNCHANGED <<target, back, messy, lock, awaits, proxied, raced>>
       \/ /\ Tool(c) \/ ~disabled
          /\ lock = NoCall
          /\ lock' = c
          /\ raced' = (raced \/ \E d \in Calls : Invalidating(d))
          /\ GetSandbox(c, "script")
          /\ UNCHANGED <<awaits, proxied>>
       \/ /\ Tool(c) \/ ~disabled
          /\ lock # NoCall /\ SettingUp(lock)
          /\ awaits' = [awaits EXCEPT ![c] = lock]
          /\ Goto(c, "awaiting")
          /\ UNCHANGED <<target, back, messy, lock, proxied, raced>>
       \/ /\ Tool(c) \/ ~disabled
          /\ lock # NoCall /\ ~SettingUp(lock)   \* it has succeeded
          /\ proxied' = [proxied EXCEPT ![c] = ~Tool(c)]
          /\ Goto(c, IF Tool(c) THEN "reach" ELSE "launch")
          /\ UNCHANGED <<target, back, messy, lock, awaits, raced>>
    /\ UNCHANGED <<kind, result, box, manager, creates, faults, proxy,
                   disabled, setupAt>>

\* The setup of c succeeds, for c and for those who wait for it.
SetupDone(c) ==
    LET all == {c} \cup Waiters(c) IN
    /\ pc' = [d \in Calls |-> IF d \notin all THEN pc[d]
                              ELSE IF Tool(d) THEN "reach" ELSE "launch"]
    /\ proxied' = [d \in Calls |-> proxied[d] \/ (d \in all /\ ~Tool(d))]
    /\ setupAt' = target[c]
    /\ UNCHANGED <<result, lock, disabled>>

\* Mutant of SetupFails: only the call that made the setup is told.
SetupFailsAlone(c) ==
    /\ pc' = [pc EXCEPT ![c] = IF Tool(c) THEN "over" ELSE "launch"]
    /\ result' = [result EXCEPT ![c] = IF Tool(c) THEN "error" ELSE @]
    /\ lock' = NoCall
    /\ disabled' = (disabled \/ ~Tool(c))
    /\ UNCHANGED <<proxied, setupAt>>

\* It fails, for all of them: whatever setup the lock holds by now, it goes.
SetupFails(c) ==
    LET all == {c} \cup Waiters(c) IN
    /\ pc' = [d \in Calls |-> IF d \notin all THEN pc[d]
                              ELSE IF Tool(d) THEN "over" ELSE "launch"]
    /\ result' = [d \in Calls |-> IF d \in all /\ Tool(d) THEN "error"
                                  ELSE result[d]]
    /\ lock' = NoCall
    /\ disabled' = (disabled \/ \E d \in all : ~Tool(d))
    /\ UNCHANGED <<proxied, setupAt>>

inSetup ==
    <<kind, box, manager, creates, target, back, messy, awaits, raced>>

\* The setup script: a proxy that answers is taken as it is.
Script(c) ==
    /\ pc[c] = "script"
    /\ \/ /\ Reaches(target[c])
          /\ IF proxy[target[c]] = "off"
             THEN /\ Goto(c, "starting")
                  /\ UNCHANGED <<result, lock, disabled, proxied, setupAt>>
             ELSE SetupDone(c)
          /\ UNCHANGED faults
       \/ ~Reaches(target[c]) /\ SetupFails(c) /\ UNCHANGED faults
       \/ Fault /\ SetupFails(c)
    /\ UNCHANGED <<inSetup, proxy>>

Launched(s) == proxy' = [proxy EXCEPT ![s] = IF @ = "off" THEN "on" ELSE @]

\* caido-cli is started as a background process.  A launch that throws may
\* have started it.
StartProxy(c) ==
    /\ pc[c] = "starting"
    /\ \/ /\ Reaches(target[c])
          /\ Launched(target[c])
          /\ Goto(c, "confirming")
          /\ UNCHANGED <<result, lock, disabled, proxied, setupAt, faults>>
       \/ /\ ~Reaches(target[c])
          /\ SetupFails(c)
          /\ UNCHANGED <<proxy, faults>>
       \/ /\ Reaches(target[c]) /\ Fault
          /\ Launched(target[c]) \/ UNCHANGED proxy
          /\ SetupFails(c)
    /\ UNCHANGED inSetup

\* The health poll and the second run of the script, any of which may throw,
\* time out or be refused the login by a proxy that is there.
Confirm(c) ==
    /\ pc[c] = "confirming"
    /\ \/ /\ IF Reaches(target[c]) /\ proxy[target[c]] # "off"
             THEN SetupDone(c)
             ELSE SetupFails(c)
          /\ UNCHANGED faults
       \/ Fault /\ SetupFails(c)
    /\ UNCHANGED <<inSetup, proxy>>

SetupThrows(c) ==
    /\ pc[c] = "threw" /\ back[c] = "script"
    /\ SetupFails(c)
    /\ UNCHANGED <<inSetup, faults, proxy>>

----------------------------------------------------------------------------
(* A proxy tool's query, once the proxy is ensured. *)

onQuery == <<kind, box, manager, creates, faults, awaits, disabled, proxied,
             setupAt, raced>>

\* runGql and sendRequest ask the manager for the sandbox again.
Reach(c) ==
    /\ pc[c] = "reach"
    /\ GetSandbox(c, "query")
    /\ UNCHANGED <<onQuery, result, proxy, lock>>

\* Mutant of Invalidate: the setup is kept.
InvalidateKept(c) ==
    /\ GetSandbox(c, "kill")
    /\ UNCHANGED lock

\* invalidateAndKillCaido up to its call of getSandbox.
Invalidate(c) ==
    /\ lock' = NoCall
    /\ GetSandbox(c, "kill")

Query(c) ==
    LET s == target[c] IN
    /\ pc[c] = "query"
    /\ \/ /\ Reaches(s) /\ proxy[s] = "on"
          /\ Return(c, "answer")
          /\ UNCHANGED <<target, back, messy, lock>>
       \/ /\ Reaches(s) /\ proxy[s] = "broken"
          /\ Invalidate(c)
          /\ UNCHANGED result
       \/ /\ Reaches(s) /\ proxy[s] = "off"     \* connection refused
          /\ \/ lock' = NoCall      \* a GraphQL query
             \/ UNCHANGED lock      \* sendRequest
          /\ Return(c, "error")
          /\ UNCHANGED <<target, back, messy>>
       \/ /\ ~Reaches(s)
          /\ Return(c, "error")
          /\ UNCHANGED <<target, back, messy, lock>>
    /\ UNCHANGED <<onQuery, proxy>>

\* The rest of it: kill caido-cli, as well as that can be done.
KillProxy(c) ==
    LET s == target[c] IN
    /\ \/ /\ pc[c] = "kill" /\ Reaches(s)
          /\ proxy' = [proxy EXCEPT ![s] = "off"]
       \/ /\ \/ pc[c] = "kill" /\ ~Reaches(s)
             \/ pc[c] = "threw" /\ back[c] = "kill"
          /\ UNCHANGED proxy
    /\ Return(c, "error")
    /\ UNCHANGED <<onQuery, target, back, messy, lock>>

ReachThrows(c) ==
    /\ pc[c] = "threw" /\ back[c] = "query"
    /\ Return(c, "error")
    /\ UNCHANGED <<onQuery, target, back, messy, proxy, lock>>

\* Caido loses its database.
ProxyBreaks(s) ==
    /\ proxy[s] = "on"
    /\ Fault
    /\ proxy' = [proxy EXCEPT ![s] = "broken"]
    /\ UNCHANGED <<kind, pc, result, box, manager, creates, target, back,
                   messy, lock, awaits, disabled, proxied, setupAt, raced>>

ProxyStep(c) ==
    \/ EnsureCaido(c) \/ Script(c) \/ StartProxy(c) \/ Confirm(c)
    \/ SetupThrows(c) \/ Reach(c) \/ Query(c) \/ KillProxy(c)
    \/ ReachThrows(c)

ProxyInit ==
    /\ \E p \in IF box[1] \in {"paused", "up"} THEN {"off", "on", "broken"}
                                              ELSE {"off"} :
          proxy = [s \in Boxes |-> IF s = 1 THEN p ELSE "off"]
    /\ lock = NoCall
    /\ awaits = [c \in Calls |-> NoCall]
    /\ disabled = FALSE
    /\ proxied = [c \in Calls |-> FALSE]
    /\ setupAt = None
    /\ raced = FALSE

ProxyTypeOK ==
    /\ proxy \in [Boxes -> {"off", "on", "broken"}]
    /\ lock \in Calls \cup {NoCall}
    /\ awaits \in [Calls -> Calls \cup {NoCall}]
    /\ disabled \in BOOLEAN
    /\ proxied \in [Calls -> BOOLEAN]
    /\ setupAt \in Boxes \cup {None}
    /\ raced \in BOOLEAN

=============================================================================

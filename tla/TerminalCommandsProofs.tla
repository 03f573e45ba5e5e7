----------------------- MODULE TerminalCommandsProofs -----------------------
(***************************************************************************)
(* Proofs about TerminalCommands and the two modules it builds on, for any *)
(* parallel calls, sandboxes, attempts and faults.                         *)
(*                                                                         *)
(* CoreInv ties the place of a call to its sandbox, its attempts and its   *)
(* processes.  SandboxInv adds what the search for a sandbox knows of the  *)
(* service's list at each of its calls, and what the lock of the proxy's   *)
(* setup says of the proxy.                                                *)
(***************************************************************************)
EXTENDS TerminalCommands, FiniteSetTheorems, TLAPS

\* A call that has found its sandbox knows it, and one that looks for it knows
\* where it goes on.
PlaceInv ==
    \A c \in Calls :
       /\ pc[c] \in {"connecting", "killing", "script", "starting",
                     "confirming"} => target[c] \in Boxes
       /\ pc[c] \in Locating \cup {"threw"} => back[c] \in Returns

LEMMA PlacesApart ==
    /\ Locating \cap (Returns \cup {"threw"}) = {}
    /\ Returns \subseteq Places /\ Locating \subseteq Places
  BY DEF Locating, Returns, Places

-----------------------------------------------------------------------------
(* Types *)

LEMMA BoxesFacts == None \notin Boxes /\ Boxes \subseteq Nat
  BY BoxesAssumption DEF Boxes, None

LEMMA InitTypes == Init => TypeOK /\ PlaceInv
<1> SUFFICES ASSUME Init PROVE TypeOK /\ PlaceInv
  OBVIOUS
<1> USE DEF Init
<1>1. SandboxTypeOK
  <2>1. 1 \in Boxes /\ 0 \in 0 .. MaxHealthFailures
          /\ 0 \in 0 .. MaxCreateRetries - 1 /\ 0 \in 0 .. MaxFaults
    BY BoxesAssumption, LimitsAssumption DEF Boxes
  <2>2. kind \in [Calls -> {"command", "background", "proxy", "none"}]
    BY KindsAssumption DEF SandboxInit
  <2>3. box \in [Boxes -> {"none", "old", "paused", "up", "broken", "dead"}]
    BY DEF SandboxInit
  <2>4. justBooted \in BOOLEAN /\ sandbox \in Boxes \cup {None}
          /\ healthFailures \in 0 .. MaxHealthFailures
    BY <2>1 DEF SandboxInit
  <2>5. messy \in BOOLEAN
    BY Zenon DEF SandboxInit
  <2> QED
    BY <2>1, <2>2, <2>3, <2>4, <2>5 DEF SandboxTypeOK, SandboxInit
<1>2. ProxyTypeOK
  <2>1. proxy \in [Boxes -> {"off", "on", "broken"}]
    BY DEF ProxyInit
  <2>2. disabled \in BOOLEAN /\ raced \in BOOLEAN
    BY Zenon DEF ProxyInit
  <2> QED
    BY <2>1, <2>2 DEF ProxyTypeOK, ProxyInit
<1>3. RunTypeOK
  <2>1. aborted \in BOOLEAN
    BY Zenon
  <2> QED
    BY <2>1, AttemptsAssumption DEF RunTypeOK
<1>4. pc \in [Calls -> Places] /\ back \in [Calls -> Returns \cup {"none"}]
        /\ \A c \in Calls : pc[c] = "idle"
  BY DEF SandboxInit, Places
<1> QED
  BY <1>1, <1>2, <1>3, <1>4 DEF TypeOK, PlaceInv, Locating

LEMMA FaultType == ASSUME TypeOK, Fault PROVE faults' \in 0 .. MaxFaults
  BY LimitsAssumption DEF TypeOK, SandboxTypeOK, Fault

\* getSandbox, up to its first call of the service.
LEMMA GetSandboxTypes ==
    ASSUME TypeOK, PlaceInv, NEW c \in Calls, NEW ret \in Returns,
           GetSandbox(c, ret)
    PROVE  /\ pc' \in [Calls -> Places]
           /\ target' \in [Calls -> Boxes \cup {None}]
           /\ back' \in [Calls -> Returns \cup {"none"}]
           /\ messy' \in BOOLEAN
           /\ PlaceInv'
<1> USE PlacesApart DEF TypeOK, SandboxTypeOK
<1>1. CASE sandbox = None /\ Locate(c, ret)
  <2>1. pc' = [pc EXCEPT ![c] = "listing"] /\ back' = [back EXCEPT ![c] = ret]
          /\ target' = target
    BY <1>1 DEF Locate, Goto
  <2>2. messy' \in BOOLEAN
    BY <1>1, Zenon DEF Locate
  <2> QED
    BY <2>1, <2>2 DEF PlaceInv, Locating, Places
<1>2. CASE /\ sandbox # None
           /\ Goto(c, ret)
           /\ target' = [target EXCEPT ![c] = sandbox]
           /\ back' = [back EXCEPT ![c] = ret]
           /\ UNCHANGED messy
  BY <1>2 DEF Goto, PlaceInv, Returns
<1> QED
  BY <1>1, <1>2 DEF GetSandbox

LEMMA SearchTypes ==
    ASSUME TypeOK, PlaceInv, NEW c \in Calls, GetSandboxStep(c),
           UNCHANGED <<proxyVars, aborted, runVars>>
    PROVE  TypeOK' /\ PlaceInv'
<1> USE PlacesApart, BoxesFacts
    DEF TypeOK, SandboxTypeOK, PlaceInv, Goto, manager, located
<1>1. ProxyTypeOK' /\ RunTypeOK'
  BY DEF ProxyTypeOK, RunTypeOK, proxyVars, runVars
<1>2. CASE List(c)
  <2>1. \A s \in Listed : s \in Boxes
    BY DEF Listed
  <2> QED
    BY <1>1, <1>2, <2>1 DEF List, Locating
<1>3. CASE Connect(c)
  BY <1>1, <1>3 DEF Connect, Found, Returns, Locating
<1>4. CASE ConnectFails(c)
  BY <1>1, <1>4, FaultType DEF ConnectFails, Locating
<1>5. CASE Kill(c)
  <2>1. faults' \in 0 .. MaxFaults /\ messy' \in BOOLEAN
    BY <1>5, FaultType DEF Kill
  <2> QED
    BY <1>1, <1>5, <2>1 DEF Kill, Locating
<1>6. CASE Create(c)
  <2>1. PICK s \in Boxes :
           /\ box' = [box EXCEPT ![s] = "up"]
           /\ \/ Found(c, s) /\ UNCHANGED <<faults, messy>>
              \/ /\ Fault /\ messy' = TRUE
                 /\ Goto(c, "threw")
                 /\ UNCHANGED <<sandbox, target>>
    BY <1>6 DEF Create
  <2>2. faults' \in 0 .. MaxFaults /\ messy' \in BOOLEAN
    BY <2>1, FaultType
  <2>3. creates' \in [Calls -> 0 .. MaxCreateRetries - 1]
    BY <1>6, LimitsAssumption DEF Create
  <2> QED
    BY <1>1, <1>6, <2>1, <2>2, <2>3
       DEF Create, Found, Returns, Locating, Places
<1>7. CASE CreateLimited(c)
  <2>1. creates' \in [Calls -> 0 .. MaxCreateRetries - 1]
    BY <1>7, LimitsAssumption DEF CreateLimited
  <2> QED
    BY <1>1, <1>7, <2>1, FaultType DEF CreateLimited, Locating, Places
<1>8. CASE GetSandboxThrows(c)
  BY <1>1, <1>8, FaultType DEF GetSandboxThrows, Locating, Places
<1> QED
  BY <1>2, <1>3, <1>4, <1>5, <1>6, <1>7, <1>8 DEF GetSandboxStep

\* The end of a setup, for the call that made it and those who wait for it.
LEMMA SetupTypes ==
    ASSUME TypeOK, PlaceInv, NEW c \in Calls, SetupDone(c) \/ SetupFails(c),
           inSetup' = inSetup
    PROVE  /\ pc' \in [Calls -> Places]
           /\ result' \in [Calls -> {"none", "answer", "error", "unavailable",
                                     "aborted", "exit", "started", "timeout"}]
           /\ lock' \in Calls \cup {NoCall}
           /\ disabled' \in BOOLEAN
           /\ proxied' \in [Calls -> BOOLEAN]
           /\ setupAt' \in Boxes \cup {None}
           /\ PlaceInv'
<1> USE DEF TypeOK, SandboxTypeOK, ProxyTypeOK, inSetup
<1>1. CASE SetupDone(c)
  <2>1. pc' \in [Calls -> Places]
    BY <1>1 DEF SetupDone, Places
  <2>2. proxied' \in [Calls -> BOOLEAN]
    BY <1>1, Zenon DEF SetupDone
  <2>3. PlaceInv'
    BY <1>1 DEF SetupDone, PlaceInv, Locating
  <2> QED
    BY <1>1, <2>1, <2>2, <2>3 DEF SetupDone
<1>2. CASE SetupFails(c)
  <2>1. pc' \in [Calls -> Places]
    BY <1>2 DEF SetupFails, Places
  <2>2. disabled' \in BOOLEAN
    BY <1>2, Zenon DEF SetupFails
  <2>3. PlaceInv'
    BY <1>2 DEF SetupFails, PlaceInv, Locating
  <2> QED
    BY <1>2, <2>1, <2>2, <2>3 DEF SetupFails
<1> QED
  BY <1>1, <1>2

LEMMA ProxyStepTypes ==
    ASSUME TypeOK, PlaceInv, NEW c \in Calls, ProxyStep(c),
           UNCHANGED <<aborted, runVars>>
    PROVE  TypeOK' /\ PlaceInv'
<1> USE PlacesApart, BoxesFacts, NoCallAssumption
    DEF TypeOK, SandboxTypeOK, ProxyTypeOK, manager
<1>1. RunTypeOK'
  BY DEF RunTypeOK, runVars
<1>2. CASE EnsureCaido(c)
  <2>1. CASE UNCHANGED <<target, back, messy>>
             /\ (Goto(c, "launch") \/ Goto(c, "awaiting") \/ Goto(c, "reach"))
    <3>1. pc' \in [Calls -> Places] /\ PlaceInv'
      BY <2>1 DEF Goto, Places, PlaceInv, Locating
    <3>2. raced' \in BOOLEAN /\ awaits' \in [Calls -> Calls \cup {NoCall}]
            /\ lock' \in Calls \cup {NoCall} /\ proxied' \in [Calls -> BOOLEAN]
      BY <1>2 DEF EnsureCaido
    <3> QED
      BY <1>1, <1>2, <2>1, <3>1, <3>2 DEF EnsureCaido
  <2>2. CASE /\ GetSandbox(c, "script") /\ lock' = c
             /\ UNCHANGED <<awaits, proxied>>
             /\ raced' = (raced \/ \E d \in Calls : Invalidating(d))
    <3>1. /\ pc' \in [Calls -> Places]
          /\ target' \in [Calls -> Boxes \cup {None}]
          /\ back' \in [Calls -> Returns \cup {"none"}]
          /\ messy' \in BOOLEAN
          /\ PlaceInv'
      BY <2>2, GetSandboxTypes DEF Returns
    <3>2. raced' \in BOOLEAN
      BY <2>2, Zenon
    <3> QED
      BY <1>1, <1>2, <2>2, <3>1, <3>2 DEF EnsureCaido
  <2> QED
    BY <1>2, <2>1, <2>2 DEF EnsureCaido
<1>3. CASE Script(c)
  <2>1. faults' \in 0 .. MaxFaults
    BY <1>3, FaultType DEF Script
  <2>2. CASE SetupDone(c) \/ SetupFails(c)
    BY <1>1, <1>3, <2>1, <2>2, SetupTypes DEF Script, inSetup
  <2>3. CASE Goto(c, "starting")
               /\ UNCHANGED <<result, lock, disabled, proxied, setupAt>>
    BY <1>1, <1>3, <2>1, <2>3 DEF Script, inSetup, Goto, PlaceInv, Places,
                                  Locating
  <2> QED
    BY <1>3, <2>2, <2>3 DEF Script
<1>4. CASE StartProxy(c)
  <2>1. proxy' \in [Boxes -> {"off", "on", "broken"}]
    BY <1>4 DEF StartProxy, Launched
  <2>2. faults' \in 0 .. MaxFaults
    BY <1>4, FaultType DEF StartProxy
  <2>3. CASE SetupFails(c)
    BY <1>1, <1>4, <2>1, <2>2, <2>3, SetupTypes DEF StartProxy, inSetup
  <2>4. CASE /\ Goto(c, "confirming")
             /\ UNCHANGED <<result, lock, disabled, proxied, setupAt>>
    BY <1>1, <1>4, <2>1, <2>2, <2>4
       DEF StartProxy, inSetup, Goto, PlaceInv, Places, Locating
  <2> QED
    BY <1>4, <2>3, <2>4 DEF StartProxy
<1>5. CASE Confirm(c)
  <2>1. faults' \in 0 .. MaxFaults
    BY <1>5, FaultType DEF Confirm
  <2> QED
    BY <1>1, <1>5, <2>1, SetupTypes DEF Confirm, inSetup
<1>6. CASE SetupThrows(c)
  BY <1>1, <1>6, SetupTypes DEF SetupThrows, inSetup
<1>7. CASE Reach(c)
  BY <1>1, <1>7, GetSandboxTypes DEF Reach, onQuery, Returns
<1>8. CASE Query(c)
  <2>1. CASE Invalidate(c) /\ UNCHANGED result
    BY <1>1, <1>8, <2>1, GetSandboxTypes
       DEF Query, Invalidate, onQuery, Returns
  <2>2. CASE /\ Return(c, "answer") \/ Return(c, "error")
             /\ UNCHANGED <<target, back, messy>>
             /\ lock' \in {lock, NoCall}
    BY <1>1, <1>8, <2>2
       DEF Query, onQuery, Return, Goto, PlaceInv, Places, Locating
  <2> QED
    BY <1>8, <2>1, <2>2 DEF Query
<1>9. CASE KillProxy(c)
  BY <1>1, <1>9
     DEF KillProxy, onQuery, Return, Goto, PlaceInv, Places, Locating
<1>10. CASE ReachThrows(c)
  BY <1>1, <1>10
     DEF ReachThrows, onQuery, Return, Goto, PlaceInv, Places, Locating
<1> QED
  BY <1>2, <1>3, <1>4, <1>5, <1>6, <1>7, <1>8, <1>9, <1>10 DEF ProxyStep

\* A call that moves to a place where it needs nothing.
Free == Places \ ({"connecting", "killing", "script", "starting",
                   "confirming", "threw"} \cup Locating)

LEMMA FreePlaces ==
    {"check", "health", "waiting", "fresh", "ensure", "launch", "running",
     "over"} \subseteq Free
  BY DEF Free, Places, Locating

LEMMA MoveTypes ==
    ASSUME TypeOK, PlaceInv, NEW c \in Calls, NEW place \in Free,
           Goto(c, place), UNCHANGED <<target, back>>
    PROVE  /\ pc' \in [Calls -> Places]
           /\ back' \in [Calls -> Returns \cup {"none"}]
           /\ target' \in [Calls -> Boxes \cup {None}]
           /\ PlaceInv'
<1>1. pc' = [pc EXCEPT ![c] = place] /\ place \in Places
        /\ place \notin {"connecting", "killing", "script", "starting",
                         "confirming", "threw"}
        /\ place \notin Locating
  BY DEF Goto, Free
<1>2. pc' \in [Calls -> Places]
  BY <1>1 DEF TypeOK
<1>3. \A d \in Calls : pc'[d] = pc[d] \/ (d = c /\ pc'[d] = place)
  BY <1>1 DEF TypeOK
<1>4. PlaceInv'
  BY <1>1, <1>3 DEF PlaceInv
<1> QED
  BY <1>2, <1>4 DEF TypeOK, SandboxTypeOK

LEMMA ReturnTypes ==
    ASSUME TypeOK, PlaceInv, NEW c \in Calls,
           NEW what \in {"error", "unavailable", "aborted", "exit", "started",
                         "timeout"},
           Return(c, what), UNCHANGED <<target, back>>
    PROVE  /\ pc' \in [Calls -> Places]
           /\ result' \in [Calls -> {"none", "answer", "error", "unavailable",
                                     "aborted", "exit", "started", "timeout"}]
           /\ back' \in [Calls -> Returns \cup {"none"}]
           /\ target' \in [Calls -> Boxes \cup {None}]
           /\ PlaceInv'
<1>1. Goto(c, "over") /\ "over" \in Free
  BY FreePlaces DEF Return
<1>2. result' \in [Calls -> {"none", "answer", "error", "unavailable",
                             "aborted", "exit", "started", "timeout"}]
  BY DEF Return, TypeOK, SandboxTypeOK
<1> QED
  BY <1>1, <1>2, MoveTypes

LEMMA ProxySame == ASSUME TypeOK, UNCHANGED proxyVars PROVE ProxyTypeOK'
  BY DEF TypeOK, ProxyTypeOK, proxyVars

LEMMA RunSame == ASSUME TypeOK, UNCHANGED <<aborted, runVars>> PROVE RunTypeOK'
  BY DEF TypeOK, RunTypeOK, runVars

LEMMA SandboxSame ==
    ASSUME TypeOK, PlaceInv, UNCHANGED elsewhere,
           UNCHANGED <<pc, result>>
             \/ \E c \in Calls,
                   what \in {"error", "unavailable", "aborted", "exit",
                             "started", "timeout"} : Return(c, what)
    PROVE  /\ SandboxTypeOK' /\ ProxyTypeOK'
           /\ pc' \in [Calls -> Places]
           /\ back' \in [Calls -> Returns \cup {"none"}]
           /\ PlaceInv'
<1>1. ProxyTypeOK' /\ UNCHANGED <<target, back>>
  BY ProxySame DEF elsewhere
<1>2. CASE UNCHANGED <<pc, result>>
  BY <1>1, <1>2 DEF elsewhere, sandboxRest, manager, TypeOK, SandboxTypeOK,
                    PlaceInv
<1>3. ASSUME NEW c \in Calls,
             NEW what \in {"error", "unavailable", "aborted", "exit",
                           "started", "timeout"},
             Return(c, what)
      PROVE  /\ SandboxTypeOK'
             /\ pc' \in [Calls -> Places]
             /\ back' \in [Calls -> Returns \cup {"none"}]
             /\ PlaceInv'
  <2>1. /\ pc' \in [Calls -> Places]
        /\ result' \in [Calls -> {"none", "answer", "error", "unavailable",
                                  "aborted", "exit", "started", "timeout"}]
        /\ back' \in [Calls -> Returns \cup {"none"}]
        /\ target' \in [Calls -> Boxes \cup {None}]
        /\ PlaceInv'
    BY <1>1, <1>3, ReturnTypes
  <2>2. UNCHANGED <<kind, box, creates, faults, sandbox, healthFailures,
                    justBooted, messy>>
    BY DEF elsewhere, sandboxRest, manager
  <2> QED
    BY <2>1, <2>2 DEF TypeOK, SandboxTypeOK
<1> QED
  BY <1>1, <1>2, <1>3

\* The steps before a command is launched.
LEMMA ReadyTypes ==
    ASSUME TypeOK, PlaceInv, NEW c \in Calls,
           \/ Start(c) \/ Check(c) \/ HealthOk(c) \/ HealthAborted(c)
           \/ HealthFails(c) \/ LookAgain(c) \/ NoSandbox(c)
    PROVE  TypeOK' /\ PlaceInv'
<1> USE PlacesApart, BoxesFacts, FreePlaces
<1>1. CASE Start(c)
  <2>1. ProxyTypeOK' /\ RunTypeOK'
    BY <1>1, ProxySame, RunSame DEF Start
  <2>2. UNCHANGED <<kind, box, creates, faults, sandbox, healthFailures,
                    justBooted, result>>
    BY <1>1 DEF Start, sandboxRest, manager
  <2>3. CASE Goto(c, "ensure") /\ UNCHANGED <<target, back, messy>>
    <3>1. /\ pc' \in [Calls -> Places]
          /\ back' \in [Calls -> Returns \cup {"none"}]
          /\ PlaceInv'
      BY <2>3, MoveTypes
    <3> QED
      BY <2>1, <2>2, <2>3, <3>1 DEF TypeOK, SandboxTypeOK
  <2>4. CASE GetSandbox(c, "check")
    <3>1. "check" \in Returns
      BY DEF Returns
    <3>2. /\ pc' \in [Calls -> Places]
          /\ target' \in [Calls -> Boxes \cup {None}]
          /\ back' \in [Calls -> Returns \cup {"none"}]
          /\ messy' \in BOOLEAN
          /\ PlaceInv'
      BY <2>4, <3>1, GetSandboxTypes
    <3> QED
      BY <2>1, <2>2, <3>2 DEF TypeOK, SandboxTypeOK
  <2> QED
    BY <1>1, <2>3, <2>4 DEF Start
<1>2. CASE Check(c) \/ HealthOk(c)
  <2>1. ProxyTypeOK' /\ UNCHANGED <<kind, box, creates, faults, sandbox,
                                    target, back, messy>>
    BY <1>2, ProxySame DEF Check, HealthOk, sandboxRest
  <2>2. /\ justBooted' \in BOOLEAN
        /\ healthFailures' \in 0 .. MaxHealthFailures
    <3>1. healthFailures' = healthFailures \/ healthFailures' = 0
      BY <1>2 DEF Check, HealthOk
    <3>2. UNCHANGED justBooted \/ justBooted' = FALSE
      BY <1>2, Zenon DEF Check, HealthOk
    <3>3. justBooted' \in BOOLEAN
      BY <3>2, Zenon DEF TypeOK, SandboxTypeOK
    <3> QED
      BY <3>1, <3>3, LimitsAssumption DEF TypeOK, SandboxTypeOK
  <2>3. home' \in [Calls -> Boxes \cup {None}]
    <3>1. home' = home \/ home' = [home EXCEPT ![c] = target[c]]
      BY <1>2 DEF Check, HealthOk, Settle
    <3>2. home \in [Calls -> Boxes \cup {None}]
            /\ target[c] \in Boxes \cup {None}
      BY DEF TypeOK, SandboxTypeOK, RunTypeOK
    <3> QED
      BY <3>1, <3>2
  <2>4. RunTypeOK'
    BY <1>2, <2>3 DEF Check, HealthOk, TypeOK, RunTypeOK
  <2>5. \/ Return(c, "unavailable")
        \/ UNCHANGED result /\ (Goto(c, "ensure") \/ Goto(c, "health"))
    BY <1>2 DEF Check, HealthOk, Settle
  <2>6. /\ pc' \in [Calls -> Places]
        /\ back' \in [Calls -> Returns \cup {"none"}]
        /\ result' \in [Calls -> {"none", "answer", "error", "unavailable",
                                  "aborted", "exit", "started", "timeout"}]
        /\ PlaceInv'
    <3>1. CASE Return(c, "unavailable")
      BY <2>1, <3>1, ReturnTypes
    <3>2. CASE UNCHANGED result /\ (Goto(c, "ensure") \/ Goto(c, "health"))
      BY <2>1, <3>2, MoveTypes DEF TypeOK, SandboxTypeOK
    <3> QED
      BY <2>5, <3>1, <3>2
  <2> QED
    BY <2>1, <2>2, <2>4, <2>6 DEF TypeOK, SandboxTypeOK
<1>3. CASE HealthAborted(c) \/ NoSandbox(c)
  <2>1. Return(c, "error") /\ UNCHANGED <<elsewhere, aborted, runVars>>
    BY <1>3 DEF HealthAborted, NoSandbox
  <2> QED
    BY <2>1, SandboxSame, RunSame DEF TypeOK
<1>4. CASE HealthFails(c)
  <2>1. /\ ProxyTypeOK' /\ RunTypeOK'
        /\ UNCHANGED <<kind, box, creates, sandbox, justBooted, target, back,
                       messy>>
    BY <1>4, ProxySame, RunSame DEF HealthFails
  <2>2. faults' \in 0 .. MaxFaults
    BY <1>4, FaultType DEF HealthFails, TypeOK, SandboxTypeOK
  <2>3. healthFailures' \in 0 .. MaxHealthFailures
    BY <1>4, LimitsAssumption DEF HealthFails, TypeOK, SandboxTypeOK
  <2>4. \/ Return(c, "unavailable") \/ Return(c, "error")
        \/ UNCHANGED result /\ Goto(c, "waiting")
    BY <1>4 DEF HealthFails
  <2>5. /\ pc' \in [Calls -> Places]
        /\ back' \in [Calls -> Returns \cup {"none"}]
        /\ result' \in [Calls -> {"none", "answer", "error", "unavailable",
                                  "aborted", "exit", "started", "timeout"}]
        /\ PlaceInv'
    <3>1. CASE Return(c, "unavailable") \/ Return(c, "error")
      BY <2>1, <3>1, ReturnTypes
    <3>2. CASE UNCHANGED result /\ Goto(c, "waiting")
      BY <2>1, <3>2, MoveTypes DEF TypeOK, SandboxTypeOK
    <3> QED
      BY <2>4, <3>1, <3>2
  <2> QED
    BY <2>1, <2>2, <2>3, <2>5 DEF TypeOK, SandboxTypeOK
<1>5. CASE LookAgain(c)
  <2>1. /\ ProxyTypeOK' /\ RunTypeOK'
        /\ UNCHANGED <<kind, box, creates, faults, healthFailures, justBooted,
                       result, target>>
        /\ sandbox' = None
    BY <1>5, ProxySame, RunSame DEF LookAgain, Locate, sandboxRest
  <2>2. messy' \in BOOLEAN
    BY <1>5, Zenon DEF LookAgain, Locate
  <2>3. /\ pc' = [pc EXCEPT ![c] = "listing"]
        /\ back' = [back EXCEPT ![c] = "fresh"]
    BY <1>5 DEF LookAgain, Locate, Goto
  <2>4. pc' \in [Calls -> Places] /\ back' \in [Calls -> Returns \cup {"none"}]
    BY <2>3 DEF TypeOK, Places, Locating, Returns
  <2>5. PlaceInv'
    BY <2>1, <2>3 DEF PlaceInv, TypeOK, Returns
  <2> QED
    BY <2>1, <2>2, <2>4, <2>5 DEF TypeOK, SandboxTypeOK
<1> QED
  BY <1>1, <1>2, <1>3, <1>4, <1>5

LEMMA SendTypes ==
    ASSUME TypeOK, NEW c \in Calls, SendAttempt(c), attempt[c] < MaxAttempts
    PROVE  /\ attempt' \in [Calls -> 0 .. MaxAttempts]
           /\ loop' \in [Calls -> {"no", "sent", "backoff", "settled"}]
           /\ proc' \in [Calls -> [Attempts ->
                           {"none", "asked", "running", "ended", "killed"}]]
  BY AttemptsAssumption DEF TypeOK, RunTypeOK, SendAttempt, Attempts

LEMMA SettledTypes ==
    ASSUME TypeOK, NEW c \in Calls,
           loop' = [loop EXCEPT ![c] = "settled"],
           timer' = [timer EXCEPT ![c] = IF @ = "armed" THEN "off" ELSE @],
           resolved' = [resolved EXCEPT ![c] = TRUE]
    PROVE  /\ loop' \in [Calls -> {"no", "sent", "backoff", "settled"}]
           /\ timer' \in [Calls -> {"off", "armed", "finding"}]
           /\ resolved' \in [Calls -> BOOLEAN]
  BY DEF TypeOK, RunTypeOK

\* The steps of a command, its retry loop, its timer and its abort handler.
LEMMA RunTypes ==
    ASSUME TypeOK, PlaceInv, NEW c \in Calls,
           \/ Launch(c) /\ attempt[c] = 0
           \/ ReplyExit(c) \/ ReplyStarted(c) \/ ReplyPermanent(c)
           \/ Retry(c) /\ attempt[c] < MaxAttempts
           \/ TimerFires(c) \/ TimeoutEnds(c)
    PROVE  TypeOK' /\ PlaceInv'
<1>1. CASE Launch(c) /\ attempt[c] = 0
  <2>1. attempt[c] < MaxAttempts /\ UNCHANGED <<elsewhere, aborted>>
    BY <1>1, AttemptsAssumption DEF Launch
  <2>2. CASE aborted
    BY <1>1, <2>1, <2>2, SandboxSame, RunSame DEF Launch, TypeOK
  <2>3. CASE ~aborted
    <3>1. Goto(c, "running") /\ SendAttempt(c)
            /\ timer' = [timer EXCEPT ![c] = "armed"]
            /\ UNCHANGED <<result, home, resolved, abort, blind>>
      BY <1>1, <2>3 DEF Launch
    <3>2. RunTypeOK'
      BY <2>1, <3>1, SendTypes DEF TypeOK, RunTypeOK
    <3>3. /\ ProxyTypeOK'
          /\ UNCHANGED <<kind, box, creates, faults, sandbox, healthFailures,
                         justBooted, target, back, messy>>
      BY <2>1, ProxySame DEF elsewhere, sandboxRest, manager
    <3>4. /\ pc' \in [Calls -> Places]
          /\ back' \in [Calls -> Returns \cup {"none"}]
          /\ PlaceInv'
      BY <3>1, <3>3, MoveTypes, FreePlaces
    <3> QED
      BY <3>1, <3>2, <3>3, <3>4 DEF TypeOK, SandboxTypeOK
  <2> QED
    BY <2>2, <2>3
<1>2. CASE ReplyExit(c) \/ ReplyStarted(c) \/ ReplyPermanent(c)
  <2>1. PICK what \in {"error", "exit", "started"} : Settled(c, what)
    BY <1>2 DEF ReplyExit, ReplyStarted, ReplyPermanent
  <2>2. UNCHANGED <<pc, result>> \/ Return(c, what)
    BY <2>1 DEF Settled, Resolve
  <2>3. UNCHANGED <<elsewhere, aborted, home, attempt, proc, abort, blind>>
    BY <2>1 DEF Settled
  <2>4. RunTypeOK'
    BY <2>1, <2>3, SettledTypes DEF Settled, TypeOK, RunTypeOK
  <2> QED
    BY <2>2, <2>3, <2>4, SandboxSame DEF TypeOK
<1>3. CASE Retry(c) /\ attempt[c] < MaxAttempts
  <2>1. UNCHANGED <<elsewhere, pc, result, aborted, home, timer, resolved,
                    abort, blind>>
    BY <1>3 DEF Retry
  <2>2. RunTypeOK'
    BY <1>3, <2>1, SendTypes DEF Retry, TypeOK, RunTypeOK
  <2> QED
    BY <2>1, <2>2, SandboxSame DEF TypeOK
<1>4. CASE TimerFires(c) \/ TimeoutEnds(c)
  <2>1. UNCHANGED <<pc, result>> \/ Return(c, "timeout")
    BY <1>4 DEF TimerFires, TimeoutEnds, EndTimer, Resolve
  <2>2. UNCHANGED <<elsewhere, aborted, home, attempt, loop, proc, abort,
                    blind>>
    BY <1>4 DEF TimerFires, TimeoutEnds
  <2>3. timer' \in [Calls -> {"off", "armed", "finding"}]
    BY <1>4 DEF TimerFires, TimeoutEnds, EndTimer, TypeOK, RunTypeOK
  <2>4. resolved' \in [Calls -> BOOLEAN]
    BY <1>4 DEF TimerFires, TimeoutEnds, EndTimer, TypeOK, RunTypeOK
  <2>5. RunTypeOK'
    BY <2>2, <2>3, <2>4 DEF TypeOK, RunTypeOK
  <2> QED
    BY <2>1, <2>2, <2>5, SandboxSame DEF TypeOK
<1> QED
  BY <1>1, <1>2, <1>3, <1>4

\* Those that may meet a fault.
LEMMA FaultyRunTypes ==
    ASSUME TypeOK, PlaceInv, NEW c \in Calls,
           ReplyLost(c) \/ FindPid(c) \/ KillProcess(c)
    PROVE  TypeOK' /\ PlaceInv'
<1>1. /\ ProxyTypeOK'
      /\ UNCHANGED <<kind, box, creates, sandbox, healthFailures, justBooted,
                     target, back, messy, aborted, home, attempt>>
  BY ProxySame DEF ReplyLost, FindPid, KillProcess, manager
<1>2. faults' \in 0 .. MaxFaults
  BY FaultType DEF ReplyLost, FindPid, KillProcess, TypeOK, SandboxTypeOK
<1>3. UNCHANGED <<pc, result>> \/ Return(c, "error") \/ Return(c, "aborted")
  BY DEF ReplyLost, FindPid, KillProcess, Resolve
<1>4. /\ pc' \in [Calls -> Places]
      /\ back' \in [Calls -> Returns \cup {"none"}]
      /\ result' \in [Calls -> {"none", "answer", "error", "unavailable",
                                "aborted", "exit", "started", "timeout"}]
      /\ PlaceInv'
  <2>1. CASE UNCHANGED <<pc, result>>
    BY <1>1, <2>1 DEF TypeOK, SandboxTypeOK, PlaceInv
  <2>2. CASE Return(c, "error") \/ Return(c, "aborted")
    BY <1>1, <2>2, ReturnTypes
  <2> QED
    BY <1>3, <2>1, <2>2
<1>5. RunTypeOK'
  <2>1. blind' = blind \/ blind' = [blind EXCEPT ![c] = TRUE]
    BY Zenon DEF ReplyLost, FindPid, KillProcess
  <2>2. blind' \in [Calls -> BOOLEAN]
    BY <2>1 DEF TypeOK, RunTypeOK
  <2>3. CASE ReplyLost(c)
    <3>1. UNCHANGED <<proc, abort>>
      BY <2>3 DEF ReplyLost
    <3>2. /\ loop' \in [Calls -> {"no", "sent", "backoff", "settled"}]
          /\ timer' \in [Calls -> {"off", "armed", "finding"}]
          /\ resolved' \in [Calls -> BOOLEAN]
      <4>1. CASE attempt[c] < MaxAttempts
        BY <2>3, <4>1 DEF ReplyLost, TypeOK, RunTypeOK
      <4>2. CASE ~(attempt[c] < MaxAttempts)
        BY <2>3, <4>2, SettledTypes DEF ReplyLost
      <4> QED
        BY <4>1, <4>2
    <3> QED
      BY <1>1, <2>2, <3>1, <3>2 DEF TypeOK, RunTypeOK
  <2>4. CASE KillProcess(c)
    <3>1. UNCHANGED <<loop, timer, resolved>>
            /\ abort' = [abort EXCEPT ![c] = "done"]
      BY <2>4 DEF KillProcess
    <3>2. \/ UNCHANGED proc
          \/ \E k \in Attempts : proc' = [proc EXCEPT ![c][k] = "killed"]
      BY <2>4 DEF KillProcess, Live
    <3>3. proc' \in [Calls -> [Attempts ->
                       {"none", "asked", "running", "ended", "killed"}]]
      <4>1. proc \in [Calls -> [Attempts ->
                       {"none", "asked", "running", "ended", "killed"}]]
        BY DEF TypeOK, RunTypeOK
      <4> QED
        BY <3>2, <4>1
    <3> QED
      BY <1>1, <2>2, <3>1, <3>3 DEF TypeOK, RunTypeOK
  <2>5. CASE FindPid(c)
    <3>1. UNCHANGED <<loop, proc, timer, resolved>>
      BY <2>5 DEF FindPid
    <3>2. abort' \in [Calls -> {"no", "finding", "killing", "missed", "done"}]
      BY <2>5 DEF FindPid, TypeOK, RunTypeOK
    <3> QED
      BY <1>1, <2>2, <3>1, <3>2 DEF TypeOK, RunTypeOK
  <2> QED
    BY <2>3, <2>4, <2>5
<1> QED
  BY <1>1, <1>2, <1>4, <1>5 DEF TypeOK, SandboxTypeOK

LEMMA WorldTypes ==
    ASSUME TypeOK, PlaceInv, World
    PROVE  TypeOK' /\ PlaceInv'
<1>1. CASE Service /\ UNCHANGED <<pc, proxyVars, aborted, runVars>>
  <2>1. PICK s \in Boxes : Disturb(s)
    BY <1>1 DEF Service
  <2>2. ProxyTypeOK' /\ RunTypeOK'
    BY <1>1, ProxySame, RunSame
  <2>3. /\ UNCHANGED <<kind, result, sandbox, healthFailures, justBooted,
                       creates, pc, target, back, messy>>
    BY <2>1 DEF Disturb, manager, located
  <2>4. faults' \in 0 .. MaxFaults
    BY <2>1, FaultType DEF Disturb
  <2>5. box' \in [Boxes -> {"none", "old", "paused", "up", "broken", "dead"}]
    BY <2>1 DEF Disturb, TypeOK, SandboxTypeOK
  <2> QED
    BY <2>2, <2>3, <2>4, <2>5 DEF TypeOK, SandboxTypeOK, PlaceInv
<1>2. CASE (\E s \in Boxes : ProxyBreaks(s)) /\ UNCHANGED <<aborted, runVars>>
  <2>1. PICK s \in Boxes : ProxyBreaks(s)
    BY <1>2
  <2>2. RunTypeOK'
    BY <1>2, RunSame
  <2>3. UNCHANGED <<kind, pc, result, box, creates, target, back, messy, lock,
                    awaits, disabled, proxied, setupAt, raced, sandbox,
                    healthFailures, justBooted>>
    BY <2>1 DEF ProxyBreaks, manager
  <2>4. faults' \in 0 .. MaxFaults
    BY <2>1, FaultType DEF ProxyBreaks
  <2>5. proxy' \in [Boxes -> {"off", "on", "broken"}]
    BY <2>1 DEF ProxyBreaks, TypeOK, ProxyTypeOK
  <2> QED
    BY <2>2, <2>3, <2>4, <2>5
       DEF TypeOK, SandboxTypeOK, ProxyTypeOK, PlaceInv
<1>3. CASE \E c \in Calls : ProcessStarts(c) \/ ProcessEnds(c)
  <2>1. PICK c \in Calls : ProcessStarts(c) \/ ProcessEnds(c)
    BY <1>3
  <2>2. UNCHANGED <<elsewhere, pc, result, aborted, home, attempt, loop,
                    timer, resolved, abort, blind>>
    BY <2>1 DEF ProcessStarts, ProcessEnds
  <2>3. \E k \in Attempts, q \in {"running", "ended"} :
           proc' = [proc EXCEPT ![c][k] = q]
    BY <2>1 DEF ProcessStarts, ProcessEnds, Live
  <2>4. RunTypeOK'
    BY <2>2, <2>3 DEF TypeOK, RunTypeOK
  <2> QED
    BY <2>2, <2>4, SandboxSame DEF TypeOK
<1>4. CASE Abort
  <2>1. UNCHANGED <<elsewhere, pc, result, home, attempt, loop, proc, timer,
                    blind>> /\ aborted' = TRUE
    BY <1>4 DEF Abort
  <2>2. resolved' \in [Calls -> BOOLEAN]
    BY <1>4, Zenon DEF Abort
  <2>3. abort' \in [Calls -> {"no", "finding", "killing", "missed", "done"}]
    BY <1>4 DEF Abort, TypeOK, RunTypeOK
  <2>4. RunTypeOK'
    BY <2>1, <2>2, <2>3 DEF TypeOK, RunTypeOK
  <2> QED
    BY <2>1, <2>4, SandboxSame DEF TypeOK
<1> QED
  BY <1>1, <1>2, <1>3, <1>4 DEF World

-----------------------------------------------------------------------------
(* The command and its process *)

\* What is known of a call whose command has not been launched, of one whose
\* command has, and of one about which nothing was lost.
RunOf(c) ==
    /\ loop[c] = "no" =>
          /\ attempt[c] = 0 /\ timer[c] = "off" /\ abort[c] = "no"
          /\ \A k \in Attempts : proc[c][k] = "none"
    /\ loop[c] # "no" => pc[c] \in {"running", "over"} /\ attempt[c] # 0
    /\ pc[c] = "running" => loop[c] # "no"
    /\ loop[c] = "backoff" => blind[c] /\ attempt[c] < MaxAttempts
    /\ ~blind[c] =>
          /\ attempt[c] <= 1
          /\ \A k \in Attempts : k # 1 => proc[c][k] = "none"
          /\ result[c] = "exit" \/ abort[c] = "done"
                => proc[c][1] \in {"ended", "killed"}
          /\ abort[c] = "killing"
                => proc[c][1] \in {"running", "ended", "killed"}

RunInv == \A c \in Calls : RunOf(c)

\* A call that stays, or moves where no command runs, and is not answered with
\* an exit code.
LEMMA RunKept ==
    ASSUME NEW c \in Calls, RunOf(c),
           \/ pc'[c] = pc[c]
           \/ pc[c] \notin {"running", "over"} /\ pc'[c] # "running"
           \/ pc[c] = "running" /\ pc'[c] = "over",
           result'[c] = "exit" => result[c] = "exit",
           attempt'[c] = attempt[c], loop'[c] = loop[c], proc'[c] = proc[c],
           timer'[c] = timer[c], abort'[c] = abort[c], blind'[c] = blind[c]
    PROVE  RunOf(c)'
  BY DEF RunOf

LEMMA InitRun == ASSUME Init PROVE RunInv
  BY DEF Init, SandboxInit, RunInv, RunOf

\* A step of getSandbox stays in it, throws, or goes on at its return.
LEMMA SearchGoes ==
    ASSUME TypeOK, NEW c \in Calls, GetSandboxStep(c)
    PROVE  /\ pc[c] \in Locating
           /\ UNCHANGED <<result, back>>
           /\ \E place \in Locating \cup {"threw", back[c]} : Goto(c, place)
<1>1. UNCHANGED <<result, back>>
  BY DEF GetSandboxStep, List, Connect, ConnectFails, Kill, Create,
         CreateLimited, GetSandboxThrows
<1>2. pc[c] \in Locating
  BY DEF GetSandboxStep, List, Connect, ConnectFails, Kill, Create,
         CreateLimited, GetSandboxThrows, Locating
<1>3. CASE List(c)
  BY <1>1, <1>2, <1>3 DEF List, Locating
<1>4. CASE Connect(c)
  BY <1>1, <1>2, <1>4 DEF Connect, Found
<1>5. CASE ConnectFails(c) \/ Kill(c)
  BY <1>1, <1>2, <1>5 DEF ConnectFails, Kill, Locating
<1>6. CASE Create(c)
  BY <1>1, <1>2, <1>6 DEF Create, Found
<1>7. CASE CreateLimited(c) \/ GetSandboxThrows(c)
  <2>1. \/ pc' = pc /\ pc[c] = "creating"
        \/ Goto(c, "threw")
    BY <1>7 DEF CreateLimited, GetSandboxThrows
  <2>2. pc' = pc /\ pc[c] = "creating" => Goto(c, "creating")
    BY DEF Goto, TypeOK
  <2> QED
    BY <1>1, <1>2, <2>1, <2>2 DEF Locating
<1> QED
  BY <1>3, <1>4, <1>5, <1>6, <1>7 DEF GetSandboxStep

LEMMA SearchRun ==
    ASSUME TypeOK, PlaceInv, RunInv, NEW c \in Calls, GetSandboxStep(c),
           UNCHANGED runVars
    PROVE  RunInv'
<1>1. pc[c] \in Locating /\ UNCHANGED result
        /\ \E place \in Locating \cup {"threw", back[c]} : Goto(c, place)
  BY SearchGoes
<1>2. back[c] \in Returns
  BY <1>1 DEF PlaceInv
<1>3. \A d \in Calls :
         \/ pc'[d] = pc[d]
         \/ pc[d] \notin {"running", "over"} /\ pc'[d] # "running"
  BY <1>1, <1>2 DEF Goto, TypeOK, Locating, Returns
<1> QED
  BY <1>1, <1>3, RunKept DEF RunInv, runVars

\* getSandbox leads to its return or to the list of the sandboxes.
LEMMA GetSandboxGoes ==
    ASSUME NEW c \in Calls, NEW ret, GetSandbox(c, ret)
    PROVE  Goto(c, ret) \/ Goto(c, "listing")
  BY DEF GetSandbox, Locate

LEMMA ProxyRun ==
    ASSUME TypeOK, PlaceInv, RunInv, NEW c \in Calls, ProxyStep(c),
           UNCHANGED runVars
    PROVE  RunInv'
<1>1. SUFFICES \A d \in Calls :
         /\ \/ pc'[d] = pc[d]
            \/ pc[d] \notin {"running", "over"} /\ pc'[d] # "running"
         /\ result'[d] = "exit" => result[d] = "exit"
  BY RunKept DEF RunInv, runVars
<1> USE DEF TypeOK, SandboxTypeOK
<1>2. CASE EnsureCaido(c)
  <2>1. pc[c] = "ensure" /\ result' = result
    BY <1>2 DEF EnsureCaido
  <2>2. \E place \in {"launch", "awaiting", "reach", "script", "listing"} :
           Goto(c, place)
    BY <1>2, GetSandboxGoes DEF EnsureCaido
  <2> QED
    BY <2>1, <2>2 DEF Goto
<1>3. ASSUME SetupDone(c) \/ SetupFails(c), pc[c] \notin {"running", "over"}
      PROVE  \A d \in Calls :
               /\ \/ pc'[d] = pc[d]
                  \/ pc[d] \notin {"running", "over"} /\ pc'[d] # "running"
               /\ result'[d] = "exit" => result[d] = "exit"
  BY <1>3 DEF SetupDone, SetupFails, Waiters
<1>4. CASE Script(c)
  BY <1>3, <1>4 DEF Script, Goto
<1>5. CASE StartProxy(c)
  BY <1>3, <1>5 DEF StartProxy, Goto
<1>6. CASE Confirm(c) \/ SetupThrows(c)
  BY <1>3, <1>6 DEF Confirm, SetupThrows
<1>7. CASE Reach(c)
  <2>1. pc[c] = "reach" /\ result' = result
    BY <1>7 DEF Reach
  <2>2. Goto(c, "query") \/ Goto(c, "listing")
    BY <1>7, GetSandboxGoes DEF Reach
  <2> QED
    BY <2>1, <2>2 DEF Goto
<1>8. CASE Query(c)
  <2>1. pc[c] = "query"
    BY <1>8 DEF Query
  <2>2. \/ result' = result /\ (Goto(c, "kill") \/ Goto(c, "listing"))
        \/ Return(c, "answer") \/ Return(c, "error")
    BY <1>8, GetSandboxGoes DEF Query, Invalidate
  <2> QED
    BY <2>1, <2>2 DEF Return, Goto
<1>9. CASE KillProxy(c) \/ ReachThrows(c)
  BY <1>9 DEF KillProxy, ReachThrows, Return, Goto
<1> QED
  BY <1>2, <1>4, <1>5, <1>6, <1>7, <1>8, <1>9 DEF ProxyStep

LEMMA ReadyRun ==
    ASSUME TypeOK, PlaceInv, RunInv, NEW c \in Calls,
           \/ Start(c) \/ Check(c) \/ HealthOk(c) \/ HealthAborted(c)
           \/ HealthFails(c) \/ LookAgain(c) \/ NoSandbox(c)
    PROVE  RunInv'
<1>1. UNCHANGED <<attempt, loop, proc, timer, abort, blind>>
  BY DEF Start, Check, HealthOk, HealthAborted, HealthFails, LookAgain,
         NoSandbox, runVars
<1>2. pc[c] \notin {"running", "over"}
  BY DEF Start, Check, HealthOk, HealthAborted, HealthFails, LookAgain,
         NoSandbox
<1>3. \/ result' = result
           /\ \E place \in {"ensure", "check", "health", "waiting",
                            "listing"} : Goto(c, place)
      \/ Return(c, "unavailable") \/ Return(c, "error")
  <2>1. CASE Start(c)
    BY <2>1, GetSandboxGoes DEF Start
  <2>2. CASE LookAgain(c)
    BY <2>2 DEF LookAgain, Locate
  <2>3. CASE Check(c) \/ HealthOk(c) \/ HealthAborted(c) \/ HealthFails(c)
               \/ NoSandbox(c)
    BY <2>3 DEF Check, HealthOk, HealthAborted, HealthFails, NoSandbox, Settle
  <2> QED
    BY <2>1, <2>2, <2>3
<1>4. \A d \in Calls :
         /\ \/ pc'[d] = pc[d]
            \/ pc[d] \notin {"running", "over"} /\ pc'[d] # "running"
         /\ result'[d] = "exit" => result[d] = "exit"
  BY <1>2, <1>3 DEF Return, Goto, TypeOK, SandboxTypeOK
<1> QED
  BY <1>1, <1>4, RunKept DEF RunInv

\* The first attempt of a call about which nothing was lost is its only one.
LEMMA OneAttempt ==
    ASSUME TypeOK, NEW c \in Calls, RunOf(c), ~blind[c]
    PROVE  /\ 1 \in Attempts
           /\ loop[c] # "no" => attempt[c] = 1 /\ Current(c) = proc[c][1]
           /\ \A k \in Live(c) : k = 1
           /\ Live(c) # {} => proc[c][1] = "running"
<1>1. 1 \in Attempts
  BY AttemptsAssumption DEF Attempts
<1>2. loop[c] # "no" => attempt[c] = 1
  <2>1. attempt[c] \in Nat
    BY AttemptsAssumption DEF TypeOK, RunTypeOK
  <2>2. attempt[c] <= 1 /\ (loop[c] # "no" => attempt[c] # 0)
    BY DEF RunOf
  <2> QED
    BY <2>1, <2>2
<1>3. \A k \in Attempts : k # 1 => proc[c][k] = "none"
  BY DEF RunOf
<1> QED
  BY <1>1, <1>2, <1>3 DEF Current, Live

\* What a step of call c leaves to the other calls.
LEMMA OthersKept ==
    ASSUME RunInv, NEW c \in Calls, RunOf(c)',
           \A d \in Calls \ {c} :
              /\ pc'[d] = pc[d] /\ result'[d] = result[d]
              /\ attempt'[d] = attempt[d] /\ loop'[d] = loop[d]
              /\ proc'[d] = proc[d] /\ timer'[d] = timer[d]
              /\ abort'[d] = abort[d] /\ blind'[d] = blind[d]
    PROVE  RunInv'
<1> SUFFICES ASSUME NEW d \in Calls PROVE RunOf(d)'
  BY DEF RunInv
<1>1. CASE d = c
  BY <1>1
<1>2. CASE d # c
  <2>1. RunOf(d)
    BY DEF RunInv
  <2> QED
    BY <1>2, <2>1, RunKept
<1> QED
  BY <1>1, <1>2

LEMMA RunsApart ==
    ASSUME TypeOK, NEW c \in Calls,
           UNCHANGED <<pc, result>>
             \/ \E what \in {"error", "aborted", "exit", "started",
                             "timeout"} : Return(c, what)
    PROVE  \A d \in Calls \ {c} : pc'[d] = pc[d] /\ result'[d] = result[d]
  BY DEF Return, Goto, TypeOK, SandboxTypeOK

LEMMA LaunchRun ==
    ASSUME TypeOK, RunInv, NEW c \in Calls, Launch(c)
    PROVE  RunInv' /\ attempt[c] = 0
<1>1. pc[c] = "launch" /\ RunOf(c)
  BY DEF Launch, RunInv
<1>2. loop[c] = "no" /\ attempt[c] = 0 /\ timer[c] = "off" /\ abort[c] = "no"
        /\ \A k \in Attempts : proc[c][k] = "none"
  BY <1>1 DEF RunOf
<1>3. CASE aborted
  <2>1. Return(c, "aborted") /\ UNCHANGED runVars
    BY <1>3 DEF Launch
  <2>2. \A d \in Calls :
           /\ \/ pc'[d] = pc[d]
              \/ pc[d] \notin {"running", "over"} /\ pc'[d] # "running"
           /\ result'[d] = "exit" => result[d] = "exit"
    BY <1>1, <2>1 DEF Return, Goto, TypeOK, SandboxTypeOK
  <2> QED
    BY <1>2, <2>1, <2>2, RunKept DEF RunInv, runVars
<1>4. CASE ~aborted
  <2>1. /\ pc' = [pc EXCEPT ![c] = "running"]
        /\ timer' = [timer EXCEPT ![c] = "armed"]
        /\ attempt' = [attempt EXCEPT ![c] = attempt[c] + 1]
        /\ loop' = [loop EXCEPT ![c] = "sent"]
        /\ proc' = [proc EXCEPT ![c][attempt[c] + 1] = "asked"]
        /\ UNCHANGED <<result, abort, blind>>
    BY <1>4 DEF Launch, Goto, SendAttempt
  <2>2. /\ pc'[c] = "running" /\ loop'[c] = "sent" /\ attempt'[c] = 1
        /\ result'[c] = result[c] /\ abort'[c] = "no"
    BY <1>2, <2>1 DEF TypeOK, RunTypeOK
  <2>3. \A k \in Attempts : k # 1 => proc'[c][k] = "none"
    BY <1>2, <2>1 DEF TypeOK, RunTypeOK
  <2>4. 1 \in Attempts /\ (~blind[c] => result[c] # "exit")
    <3>1. 1 \in Attempts
      BY AttemptsAssumption DEF Attempts
    <3> QED
      BY <1>1, <1>2, <3>1 DEF RunOf
  <2>5. RunOf(c)'
    BY <2>1, <2>2, <2>3, <2>4 DEF RunOf
  <2>6. \A d \in Calls \ {c} :
           /\ pc'[d] = pc[d] /\ result'[d] = result[d]
           /\ attempt'[d] = attempt[d] /\ loop'[d] = loop[d]
           /\ proc'[d] = proc[d] /\ timer'[d] = timer[d]
           /\ abort'[d] = abort[d] /\ blind'[d] = blind[d]
    BY <2>1 DEF TypeOK, RunTypeOK
  <2> QED
    BY <1>2, <2>5, <2>6, OthersKept
<1> QED
  BY <1>3, <1>4

LEMMA ReplyRun ==
    ASSUME TypeOK, RunInv, NEW c \in Calls,
           ReplyExit(c) \/ ReplyStarted(c) \/ ReplyPermanent(c)
    PROVE  RunInv'
<1>1. PICK what \in {"error", "exit", "started"} :
         /\ Settled(c, what)
         /\ what = "exit" => Current(c) = "ended"
  BY DEF ReplyExit, ReplyStarted, ReplyPermanent
<1>2. loop[c] = "sent" /\ RunOf(c)
  BY DEF ReplyExit, ReplyStarted, ReplyPermanent, RunInv
<1>3. UNCHANGED <<pc, result>> \/ Return(c, what)
  BY <1>1 DEF Settled, Resolve
<1>4. /\ loop' = [loop EXCEPT ![c] = "settled"]
      /\ timer' = [timer EXCEPT ![c] = IF @ = "armed" THEN "off" ELSE @]
      /\ UNCHANGED <<attempt, proc, abort, blind>>
  BY <1>1 DEF Settled
<1>5. pc'[c] \in {"running", "over"} /\ attempt[c] # 0
  BY <1>2, <1>3 DEF RunOf, Return, Goto, TypeOK
<1>6. result'[c] = "exit" => result[c] = "exit" \/ Current(c) = "ended"
  BY <1>1, <1>3 DEF Return, TypeOK, SandboxTypeOK
<1>7. ~blind[c] => Current(c) = proc[c][1]
  BY <1>2, OneAttempt
<1>8. loop'[c] = "settled"
  BY <1>4 DEF TypeOK, RunTypeOK
<1>9. RunOf(c)'
  BY <1>2, <1>4, <1>5, <1>6, <1>7, <1>8 DEF RunOf
<1>10. \A d \in Calls \ {c} : loop'[d] = loop[d] /\ timer'[d] = timer[d]
  BY <1>4 DEF TypeOK, RunTypeOK
<1> QED
  BY <1>3, <1>4, <1>9, <1>10, RunsApart, OthersKept

LEMMA LostRun ==
    ASSUME TypeOK, RunInv, NEW c \in Calls, ReplyLost(c)
    PROVE  RunInv'
<1>1. loop[c] = "sent" /\ RunOf(c)
  BY DEF ReplyLost, RunInv
<1>2. /\ UNCHANGED <<attempt, proc, abort>>
      /\ blind' = [blind EXCEPT ![c] = TRUE]
      /\ UNCHANGED <<pc, result>> \/ Return(c, "error")
      /\ \/ /\ attempt[c] < MaxAttempts
            /\ loop' = [loop EXCEPT ![c] = "backoff"]
            /\ UNCHANGED timer
         \/ /\ loop' = [loop EXCEPT ![c] = "settled"]
            /\ timer' = [timer EXCEPT ![c] = IF @ = "armed" THEN "off" ELSE @]
  BY DEF ReplyLost, Resolve
<1>3. pc'[c] \in {"running", "over"} /\ attempt[c] # 0
  BY <1>1, <1>2 DEF RunOf, Return, Goto, TypeOK
<1>4. /\ blind'[c] = TRUE /\ loop'[c] \in {"backoff", "settled"}
      /\ loop'[c] = "backoff" => attempt[c] < MaxAttempts
  BY <1>2 DEF TypeOK, RunTypeOK
<1>5. RunOf(c)'
  BY <1>2, <1>3, <1>4 DEF RunOf
<1>6. \A d \in Calls \ {c} : /\ loop'[d] = loop[d] /\ timer'[d] = timer[d]
                             /\ blind'[d] = blind[d]
  BY <1>2 DEF TypeOK, RunTypeOK
<1> QED
  BY <1>2, <1>5, <1>6, RunsApart, OthersKept

\* A retry is made only for a call that has lost a reply.
LEMMA RetryRun ==
    ASSUME TypeOK, RunInv, NEW c \in Calls, Retry(c)
    PROVE  RunInv' /\ attempt[c] < MaxAttempts
<1>1. loop[c] = "backoff" /\ RunOf(c)
  BY DEF Retry, RunInv
<1>2. blind[c] /\ attempt[c] < MaxAttempts /\ pc[c] \in {"running", "over"}
  BY <1>1 DEF RunOf
<1>3. /\ attempt' = [attempt EXCEPT ![c] = attempt[c] + 1]
      /\ loop' = [loop EXCEPT ![c] = "sent"]
      /\ proc' = [proc EXCEPT ![c][attempt[c] + 1] = "asked"]
      /\ UNCHANGED <<pc, result, timer, abort, blind>>
  BY DEF Retry, SendAttempt
<1>4. attempt'[c] # 0 /\ loop'[c] = "sent"
  BY <1>3, AttemptsAssumption DEF TypeOK, RunTypeOK
<1>5. RunOf(c)'
  BY <1>2, <1>3, <1>4 DEF RunOf
<1>6. \A d \in Calls \ {c} : /\ attempt'[d] = attempt[d]
                             /\ loop'[d] = loop[d] /\ proc'[d] = proc[d]
  BY <1>3 DEF TypeOK, RunTypeOK
<1> QED
  BY <1>2, <1>3, <1>5, <1>6, OthersKept

LEMMA TimerRun ==
    ASSUME TypeOK, RunInv, NEW c \in Calls, TimerFires(c) \/ TimeoutEnds(c)
    PROVE  RunInv'
<1>1. timer[c] # "off" /\ RunOf(c)
  BY DEF TimerFires, TimeoutEnds, RunInv
<1>2. /\ UNCHANGED <<attempt, loop, proc, abort, blind>>
      /\ UNCHANGED <<pc, result>> \/ Return(c, "timeout")
  BY DEF TimerFires, TimeoutEnds, EndTimer, Resolve
<1>3. \A d \in Calls \ {c} : timer'[d] = timer[d]
  BY DEF TimerFires, TimeoutEnds, EndTimer, TypeOK, RunTypeOK
<1>4. /\ loop[c] # "no" /\ pc'[c] \in {"running", "over"}
      /\ result'[c] = "exit" => result[c] = "exit"
  BY <1>1, <1>2 DEF RunOf, Return, Goto, TypeOK, SandboxTypeOK
<1>5. RunOf(c)'
  BY <1>1, <1>2, <1>4 DEF RunOf
<1> QED
  BY <1>2, <1>3, <1>5, RunsApart, OthersKept

LEMMA AbortHandlerRun ==
    ASSUME TypeOK, RunInv, NEW c \in Calls, FindPid(c) \/ KillProcess(c)
    PROVE  RunInv'
<1>1. abort[c] # "no" /\ RunOf(c)
  BY DEF FindPid, KillProcess, RunInv
<1>2. /\ UNCHANGED <<attempt, loop, timer>>
      /\ UNCHANGED <<pc, result>> \/ Return(c, "aborted")
  BY DEF FindPid, KillProcess, Resolve
<1>3. /\ loop[c] # "no" /\ pc'[c] \in {"running", "over"}
      /\ result'[c] = "exit" => result[c] = "exit"
  BY <1>1, <1>2 DEF RunOf, Return, Goto, TypeOK, SandboxTypeOK
<1>4. CASE FindPid(c)
  <2>1. /\ UNCHANGED <<proc, blind>>
        /\ \/ Live(c) # {} /\ abort' = [abort EXCEPT ![c] = "killing"]
           \/ abort' = [abort EXCEPT ![c] = "missed"]
    BY <1>4 DEF FindPid
  <2>2. /\ abort'[c] \in {"killing", "missed"}
        /\ abort'[c] = "killing" => Live(c) # {}
    BY <2>1 DEF TypeOK, RunTypeOK
  <2>3. ~blind[c] /\ abort'[c] = "killing" => proc[c][1] = "running"
    BY <1>1, <2>2, OneAttempt
  <2>4. RunOf(c)'
    BY <1>1, <1>2, <1>3, <2>1, <2>2, <2>3 DEF RunOf
  <2>5. \A d \in Calls \ {c} : abort'[d] = abort[d]
    BY <2>1 DEF TypeOK, RunTypeOK
  <2> QED
    BY <1>2, <2>1, <2>4, <2>5, RunsApart, OthersKept
<1>5. CASE KillProcess(c)
  <2>1. /\ abort[c] = "killing" /\ abort' = [abort EXCEPT ![c] = "done"]
        /\ \/ /\ UNCHANGED blind
              /\ \E k \in Live(c) : proc' = [proc EXCEPT ![c][k] = "killed"]
           \/ Live(c) = {} /\ UNCHANGED <<proc, blind>>
           \/ blind' = [blind EXCEPT ![c] = TRUE] /\ UNCHANGED proc
    BY <1>5 DEF KillProcess
  <2>2. abort'[c] = "done" /\ \A d \in Calls \ {c} :
           /\ abort'[d] = abort[d] /\ blind'[d] = blind[d]
           /\ proc'[d] = proc[d]
    BY <2>1 DEF TypeOK, RunTypeOK
  <2>3. ~blind'[c] => ~blind[c] /\ proc'[c][1] \in {"ended", "killed"}
          /\ \A k \in Attempts : k # 1 => proc'[c][k] = "none"
    <3> SUFFICES ASSUME ~blind'[c]
                 PROVE  /\ ~blind[c] /\ proc'[c][1] \in {"ended", "killed"}
                        /\ \A k \in Attempts : k # 1 => proc'[c][k] = "none"
      OBVIOUS
    <3>1. UNCHANGED blind /\ ~blind[c]
      BY <2>1 DEF TypeOK, RunTypeOK
    <3>2. /\ 1 \in Attempts /\ \A k \in Live(c) : k = 1
          /\ proc[c][1] \in {"running", "ended", "killed"}
          /\ \A k \in Attempts : k # 1 => proc[c][k] = "none"
      BY <1>1, <2>1, <3>1, OneAttempt DEF RunOf
    <3>3. CASE \E k \in Live(c) : proc' = [proc EXCEPT ![c][k] = "killed"]
      <4>1. proc' = [proc EXCEPT ![c][1] = "killed"]
        BY <3>2, <3>3
      <4> QED
        BY <3>1, <3>2, <4>1 DEF TypeOK, RunTypeOK
    <3>4. CASE Live(c) = {} /\ UNCHANGED proc
      BY <3>1, <3>2, <3>4 DEF Live
    <3>5. blind' # [blind EXCEPT ![c] = TRUE]
      BY <3>1 DEF TypeOK, RunTypeOK
    <3> QED
      BY <2>1, <3>3, <3>4, <3>5
  <2>4. RunOf(c)'
    <3>1. blind[c] => blind'[c]
      BY <2>1 DEF TypeOK, RunTypeOK
    <3> QED
      BY <1>1, <1>2, <1>3, <2>2, <2>3, <3>1 DEF RunOf
  <2> QED
    BY <1>2, <2>2, <2>4, RunsApart, OthersKept
<1> QED
  BY <1>4, <1>5

LEMMA ProcessRun ==
    ASSUME TypeOK, RunInv, NEW c \in Calls, ProcessStarts(c) \/ ProcessEnds(c)
    PROVE  RunInv'
<1>1. UNCHANGED <<pc, result, attempt, loop, timer, abort, blind>> /\ RunOf(c)
  BY DEF ProcessStarts, ProcessEnds, RunInv
<1>2. PICK k \in Attempts, q \in {"running", "ended"} :
         /\ proc' = [proc EXCEPT ![c][k] = q]
         /\ \/ proc[c][k] = "asked" /\ q = "running"
            \/ proc[c][k] = "running" /\ q = "ended"
  BY DEF ProcessStarts, ProcessEnds, Live
<1>3. loop[c] # "no" /\ (~blind[c] => k = 1)
  BY <1>1, <1>2 DEF RunOf
<1>4. /\ proc'[c][k] = q
      /\ \A j \in Attempts : j # k => proc'[c][j] = proc[c][j]
      /\ \A d \in Calls \ {c} : proc'[d] = proc[d]
  BY <1>2 DEF TypeOK, RunTypeOK
<1>5. RunOf(c)'
  BY <1>1, <1>2, <1>3, <1>4 DEF RunOf
<1> QED
  BY <1>1, <1>4, <1>5, OthersKept

LEMMA AbortRun ==
    ASSUME TypeOK, RunInv, Abort
    PROVE  RunInv'
<1> SUFFICES ASSUME NEW c \in Calls PROVE RunOf(c)'
  BY DEF RunInv
<1>1. UNCHANGED <<pc, result, attempt, loop, proc, timer, blind>> /\ RunOf(c)
  BY DEF Abort, RunInv
<1>2. abort'[c] = abort[c] \/ (pc[c] = "running" /\ abort'[c] = "finding")
  BY DEF Abort
<1> QED
  BY <1>1, <1>2 DEF RunOf

LEMMA WorldRun ==
    ASSUME TypeOK, RunInv, World
    PROVE  RunInv'
<1>1. CASE \/ Service /\ UNCHANGED <<pc, proxyVars, aborted, runVars>>
           \/ /\ \E s \in Boxes : ProxyBreaks(s)
              /\ UNCHANGED <<aborted, runVars>>
  <2>1. UNCHANGED <<pc, result, runVars>>
    BY <1>1 DEF Service, Disturb, ProxyBreaks
  <2> QED
    BY <2>1, RunKept DEF RunInv, runVars
<1> QED
  BY <1>1, ProcessRun, AbortRun DEF World

\* Types, places and commands are kept by every step together: a place decides
\* whether a command may be launched, and its attempts are counted there.
CoreInv == TypeOK /\ PlaceInv /\ RunInv

LEMMA CoreNext == ASSUME CoreInv, [Next]_vars PROVE CoreInv'
<1> USE DEF CoreInv
<1>1. ASSUME NEW c \in Calls, CommandStep(c) PROVE CoreInv'
  <2>1. CASE \/ Start(c) \/ Check(c) \/ HealthOk(c) \/ HealthAborted(c)
             \/ HealthFails(c) \/ LookAgain(c) \/ NoSandbox(c)
    BY <2>1, ReadyTypes, ReadyRun
  <2>2. CASE Launch(c)
    BY <2>2, LaunchRun, RunTypes
  <2>3. CASE ReplyExit(c) \/ ReplyStarted(c) \/ ReplyPermanent(c)
    BY <2>3, ReplyRun, RunTypes
  <2>4. CASE ReplyLost(c)
    BY <2>4, LostRun, FaultyRunTypes
  <2>5. CASE Retry(c)
    BY <2>5, RetryRun, RunTypes
  <2>6. CASE TimerFires(c) \/ TimeoutEnds(c)
    BY <2>6, TimerRun, RunTypes
  <2>7. CASE FindPid(c)
    BY <2>7, AbortHandlerRun, FaultyRunTypes
  <2>8. CASE KillProcess(c)
    BY <2>8, AbortHandlerRun, FaultyRunTypes
  <2> QED
    BY <1>1, <2>1, <2>2, <2>3, <2>4, <2>5, <2>6, <2>7, <2>8 DEF CommandStep
<1>2. ASSUME NEW c \in Calls, ProxyStep(c) /\ UNCHANGED <<aborted, runVars>>
      PROVE  CoreInv'
  BY <1>2, ProxyStepTypes, ProxyRun
<1>3. ASSUME NEW c \in Calls,
             GetSandboxStep(c) /\ UNCHANGED <<proxyVars, aborted, runVars>>
      PROVE  CoreInv'
  BY <1>3, SearchTypes, SearchRun
<1>4. CASE World
  BY <1>4, WorldTypes, WorldRun
<1>5. CASE UNCHANGED vars
  <2>1. UNCHANGED <<elsewhere, pc, result, aborted, runVars>>
    BY <1>5 DEF vars, sandboxVars, located, elsewhere, sandboxRest
  <2>2. TypeOK' /\ PlaceInv'
    BY <2>1, SandboxSame, RunSame DEF TypeOK
  <2> QED
    BY <2>1, <2>2, RunKept DEF RunInv, runVars
<1> QED
  BY <1>1, <1>2, <1>3, <1>4, <1>5 DEF Next, CallStep

\* Whatever the calls, the service and the user do, the variables keep the
\* values the code gives them.
THEOREM TypeCorrect == Spec => []TypeOK
<1>1. Init => CoreInv
  BY InitTypes, InitRun DEF CoreInv
<1>2. CoreInv => TypeOK
  BY DEF CoreInv
<1> QED
  BY <1>1, <1>2, CoreNext, PTL DEF Spec

\* Accounted: unless a reply or a kill is lost, a command is asked for once,
\* and a call that answers with an exit code, or that it was aborted and its
\* PID had been found, leaves nothing of it in the sandbox.
THEOREM AccountedCorrect == Spec => []Accounted
<1>1. Init => CoreInv
  BY InitTypes, InitRun DEF CoreInv
<1>2. CoreInv => Accounted
  <2> SUFFICES ASSUME CoreInv, NEW c \in Calls, ~blind[c]
               PROVE  /\ Cardinality({k \in Attempts :
                                         proc[c][k] # "none"}) <= 1
                      /\ result[c] = "exit" \/ abort[c] = "done"
                           => \A k \in Attempts :
                                 proc[c][k] \notin {"asked", "running"}
    BY DEF Accounted
  <2>1. \A k \in Attempts : k # 1 => proc[c][k] = "none"
    BY DEF CoreInv, RunInv, RunOf
  <2>2. {k \in Attempts : proc[c][k] # "none"} \subseteq {1}
    BY <2>1
  <2>3. IsFiniteSet({1}) /\ Cardinality({1}) = 1
    BY FS_Singleton
  <2>4. Cardinality({k \in Attempts : proc[c][k] # "none"}) <= 1
    BY <2>2, <2>3, FS_Subset
  <2>5. result[c] = "exit" \/ abort[c] = "done"
          => proc[c][1] \in {"ended", "killed"}
    BY DEF CoreInv, RunInv, RunOf
  <2> QED
    BY <2>1, <2>4, <2>5
<1> QED
  BY <1>1, <1>2, CoreNext, PTL DEF Spec

-----------------------------------------------------------------------------
(* The user's sandbox and the proxy's lock *)

\* While the searches have come one after the other: the one that goes on has
\* found nothing to use when it creates, and what it connects to or kills is
\* all the user has.
BoxesInv ==
    ~messy =>
       /\ \A c, d \in Calls : pc[c] \in Locating /\ pc[d] \in Locating => c = d
       /\ \A c \in Calls : pc[c] = "creating" => Listed = {}
       /\ \A c \in Calls : pc[c] \in {"connecting", "killing"}
                              => Listed \subseteq {target[c]}
       /\ \A s, t \in Listed : s = t

\* While no setup began during an invalidation: nobody is about to kill the
\* proxy of the setup in the lock, and once that has succeeded it is there.
LockInv ==
    ~raced /\ lock # NoCall =>
       /\ \A d \in Calls : ~Invalidating(d)
       /\ ~SettingUp(lock) => setupAt # None /\ proxy[setupAt] # "off"

\* A call that neither looks for a sandbox, sets the proxy up nor kills it.
Outside(c) == /\ ~SettingUp(c) /\ ~Invalidating(c)
              /\ pc[c] \notin Locating

LEMMA InitLock == ASSUME Init PROVE BoxesInv /\ LockInv
<1>1. \A c \in Calls : pc[c] \notin Locating
  BY DEF Init, SandboxInit, Locating
<1>2. Listed \subseteq {1}
  BY DEF Init, SandboxInit, Listed
<1>3. lock = NoCall
  BY DEF Init, ProxyInit
<1> QED
  BY <1>1, <1>2, <1>3 DEF BoxesInv, LockInv, Locating

\* A step of calls that were and stay outside.
LEMMA AsideBoxes ==
    ASSUME BoxesInv, Listed' \subseteq Listed, UNCHANGED messy,
           \A d \in Calls :
              \/ pc'[d] = pc[d] /\ back'[d] = back[d] /\ target'[d] = target[d]
              \/ Outside(d) /\ Outside(d)'
    PROVE  BoxesInv'
<1>1. \A d \in Calls : pc'[d] \in Locating
         => pc'[d] = pc[d] /\ target'[d] = target[d]
  BY DEF Outside, Locating
<1>2. {"creating", "connecting", "killing"} \subseteq Locating
  BY DEF Locating
<1> QED
  BY <1>1, <1>2 DEF BoxesInv, Locating

LEMMA AsideLock ==
    ASSUME TypeOK, LockInv, UNCHANGED <<lock, setupAt, raced>>,
           \A s \in Boxes : proxy[s] # "off" => proxy'[s] # "off",
           \A d \in Calls :
              \/ pc'[d] = pc[d] /\ back'[d] = back[d] /\ target'[d] = target[d]
              \/ Outside(d) /\ Outside(d)'
    PROVE  LockInv'
<1>1. \A d \in Calls : /\ Invalidating(d)' => Invalidating(d)
                       /\ SettingUp(d) => SettingUp(d)'
  BY DEF Outside, Invalidating, SettingUp
<1>2. lock \in Calls \cup {NoCall} /\ setupAt \in Boxes \cup {None}
  BY DEF TypeOK, ProxyTypeOK
<1> SUFFICES ASSUME ~raced, lock # NoCall
             PROVE  /\ \A d \in Calls : ~Invalidating(d)'
                    /\ ~SettingUp(lock)'
                         => setupAt' # None /\ proxy'[setupAt'] # "off"
  BY DEF LockInv
<1>3. /\ \A d \in Calls : ~Invalidating(d)
      /\ ~SettingUp(lock) => setupAt # None /\ proxy[setupAt] # "off"
  BY DEF LockInv
<1>4. SettingUp(lock) => SettingUp(lock)'
  BY <1>1, <1>2 DEF SettingUp
<1> QED
  BY <1>1, <1>2, <1>3, <1>4

LEMMA NoLock == ASSUME lock' = NoCall PROVE LockInv'
  BY DEF LockInv

\* getSandbox, up to its first call of the service.
LEMMA LocateBoxes ==
    ASSUME TypeOK, BoxesInv, NEW c \in Calls, NEW ret, Locate(c, ret),
           UNCHANGED box
    PROVE  BoxesInv'
<1> SUFFICES ASSUME ~messy' PROVE BoxesInv'
  BY DEF BoxesInv
<1>1. ~messy /\ \A d \in Calls \ {c} : pc[d] \notin Locating
  BY DEF Locate
<1>2. pc'[c] = "listing" /\ \A d \in Calls \ {c} : pc'[d] = pc[d]
  BY DEF Locate, Goto, TypeOK
<1>3. Listed' = Listed
  BY DEF Listed
<1> QED
  BY <1>1, <1>2, <1>3 DEF BoxesInv, Locating

LEMMA GetSandboxBoxes ==
    ASSUME TypeOK, BoxesInv, NEW c \in Calls, Outside(c),
           NEW ret \in Returns, GetSandbox(c, ret), UNCHANGED box
    PROVE  BoxesInv'
<1>1. CASE sandbox = None /\ Locate(c, ret)
  BY <1>1, LocateBoxes
<1>2. CASE /\ sandbox # None
           /\ Goto(c, ret)
           /\ target' = [target EXCEPT ![c] = sandbox]
           /\ back' = [back EXCEPT ![c] = ret]
           /\ UNCHANGED messy
  <2>1. Listed' = Listed
    BY DEF Listed
  <2>2. pc'[c] = ret /\ \A d \in Calls \ {c} :
           pc'[d] = pc[d] /\ back'[d] = back[d] /\ target'[d] = target[d]
    BY <1>2 DEF Goto, TypeOK, SandboxTypeOK
  <2>3. \A d \in Calls : pc'[d] \in Locating
           => pc'[d] = pc[d] /\ target'[d] = target[d]
    BY <2>2, PlacesApart
  <2>4. {"creating", "connecting", "killing"} \subseteq Locating
    BY DEF Locating
  <2> QED
    BY <1>2, <2>1, <2>3, <2>4 DEF BoxesInv, Locating
<1> QED
  BY <1>1, <1>2 DEF GetSandbox

\* The service is asked by one call at a time, unless messy says otherwise.
LEMMA SearchBoxes ==
    ASSUME TypeOK, PlaceInv, BoxesInv, NEW c \in Calls, GetSandboxStep(c)
    PROVE  BoxesInv'
<1>1. messy => messy'
  BY DEF GetSandboxStep, List, Connect, ConnectFails, Kill, Create,
         CreateLimited, GetSandboxThrows
<1> SUFFICES ASSUME ~messy' PROVE BoxesInv'
  BY DEF BoxesInv
<1>2. pc[c] \in Locating /\ back[c] \in Returns
  BY SearchGoes DEF PlaceInv
<1>3. \A d \in Calls \ {c} : pc'[d] = pc[d] /\ pc[d] \notin Locating
  <2>1. \A d \in Calls \ {c} : pc[d] \notin Locating
    BY <1>1, <1>2 DEF BoxesInv
  <2> QED
    BY <2>1, SearchGoes DEF Goto, TypeOK
<1>4. SUFFICES /\ \A s, t \in Listed' : s = t
               /\ pc'[c] = "creating" => Listed' = {}
               /\ pc'[c] \in {"connecting", "killing"}
                    => Listed' \subseteq {target'[c]}
  <2>1. {"creating", "connecting", "killing"} \subseteq Locating
    BY DEF Locating
  <2> QED
    BY <1>3, <1>4, <2>1 DEF BoxesInv, Locating
<1>5. /\ \A s, t \in Listed : s = t
      /\ pc[c] = "creating" => Listed = {}
      /\ pc[c] \in {"connecting", "killing"} => Listed \subseteq {target[c]}
  BY <1>1 DEF BoxesInv
<1>6. CASE List(c)
  <2>1. Listed' = Listed
    BY <1>6 DEF List, Listed
  <2>2. \/ Listed = {} /\ pc'[c] = "creating"
        \/ /\ target'[c] \in Listed
           /\ pc'[c] \in {"connecting", "killing"}
    BY <1>6 DEF List, Goto, TypeOK, SandboxTypeOK
  <2> QED
    BY <1>5, <2>1, <2>2
<1>7. CASE Connect(c)
  <2>1. Listed' \subseteq Listed
    BY <1>7 DEF Connect, Listed, TypeOK, SandboxTypeOK
  <2>2. pc'[c] \notin Locating
    BY <1>2, <1>7, PlacesApart DEF Connect, Found, Goto, TypeOK
  <2> QED
    BY <1>5, <2>1, <2>2 DEF Locating
<1>8. CASE ConnectFails(c)
  <2>1. Listed' = Listed /\ target' = target /\ pc'[c] = "killing"
    BY <1>8 DEF ConnectFails, Listed, Goto, TypeOK
  <2> QED
    BY <1>5, <1>8, <2>1 DEF ConnectFails
<1>9. CASE Kill(c)
  <2>1. pc'[c] = "creating"
    BY <1>9 DEF Kill, Goto, TypeOK
  <2>2. box' = [box EXCEPT ![target[c]] = "dead"]
    BY <1>9 DEF Kill
  <2>3. Listed' \subseteq Listed \ {target[c]}
    BY <2>2 DEF Listed, TypeOK, SandboxTypeOK
  <2>4. Listed' = {}
    BY <1>5, <1>9, <2>3 DEF Kill
  <2> QED
    BY <2>1, <2>4
<1>10. CASE Create(c)
  <2>1. PICK s \in Boxes : box' = [box EXCEPT ![s] = "up"] /\ Found(c, s)
    BY <1>10 DEF Create
  <2>2. Listed' \subseteq Listed \cup {s}
    BY <2>1 DEF Listed, TypeOK, SandboxTypeOK
  <2>3. Listed' \subseteq {s}
    BY <1>5, <1>10, <2>2 DEF Create
  <2>4. pc'[c] \notin Locating
    BY <1>2, <2>1, PlacesApart DEF Found, Goto, TypeOK
  <2> QED
    BY <2>3, <2>4 DEF Locating
<1>11. CASE CreateLimited(c) \/ GetSandboxThrows(c)
  <2>1. Listed' = Listed
    BY <1>11 DEF CreateLimited, GetSandboxThrows, Listed
  <2>2. pc'[c] = "threw" \/ (pc[c] = "creating" /\ pc'[c] = pc[c])
    BY <1>11 DEF CreateLimited, GetSandboxThrows, Goto, TypeOK
  <2> QED
    BY <1>5, <2>1, <2>2
<1> QED
  BY <1>6, <1>7, <1>8, <1>9, <1>10, <1>11 DEF GetSandboxStep

LEMMA SearchLock ==
    ASSUME TypeOK, PlaceInv, LockInv, NEW c \in Calls, GetSandboxStep(c),
           UNCHANGED proxyVars
    PROVE  LockInv'
<1>1. pc[c] \in Locating /\ back[c] \in Returns /\ UNCHANGED back
  BY SearchGoes DEF PlaceInv
<1>2. PICK place \in Locating \cup {"threw", back[c]} : Goto(c, place)
  BY SearchGoes
<1>3. pc'[c] = place /\ \A d \in Calls \ {c} : pc'[d] = pc[d]
  BY <1>2 DEF Goto, TypeOK
<1>4. SettingUp(c) => SettingUp(c)'
  BY <1>1, <1>3, PlacesApart DEF SettingUp, Returns, Locating
<1>5. Invalidating(c)' => Invalidating(c)
  BY <1>1, <1>3, PlacesApart DEF Invalidating, Returns, Locating
<1>6. \A d \in Calls : /\ Invalidating(d)' => Invalidating(d)
                       /\ SettingUp(d) => SettingUp(d)'
  <2> SUFFICES ASSUME NEW d \in Calls
               PROVE  /\ Invalidating(d)' => Invalidating(d)
                      /\ SettingUp(d) => SettingUp(d)'
    OBVIOUS
  <2>1. CASE d = c
    BY <1>4, <1>5, <2>1
  <2>2. CASE d # c
    BY <1>1, <1>3, <2>2 DEF Invalidating, SettingUp
  <2> QED
    BY <2>1, <2>2
<1>7. UNCHANGED <<proxy, lock, setupAt, raced>>
        /\ lock \in Calls \cup {NoCall}
  BY DEF proxyVars, TypeOK, ProxyTypeOK
<1>8. lock # NoCall /\ SettingUp(lock) => SettingUp(lock)'
  BY <1>6, <1>7 DEF SettingUp
<1> QED
  BY <1>6, <1>7, <1>8 DEF LockInv

\* getSandbox by a call outside, which stays outside.
LEMMA GetSandboxLock ==
    ASSUME TypeOK, LockInv, NEW c \in Calls, Outside(c),
           NEW ret \in {"check", "fresh", "query"},
           GetSandbox(c, ret) \/ Locate(c, ret), UNCHANGED proxyVars
    PROVE  LockInv'
<1>1. /\ Goto(c, ret) \/ Goto(c, "listing")
      /\ back' = [back EXCEPT ![c] = ret]
  BY DEF GetSandbox, Locate
<1>2. /\ pc'[c] \in {ret, "listing"} /\ back'[c] = ret
      /\ \A d \in Calls \ {c} : pc'[d] = pc[d] /\ back'[d] = back[d]
  BY <1>1 DEF Goto, TypeOK
<1>3. ~Invalidating(c)' /\ ~SettingUp(c)
  BY <1>2 DEF Outside, Invalidating
<1>4. \A d \in Calls : /\ Invalidating(d)' => Invalidating(d)
                       /\ SettingUp(d) => SettingUp(d)'
  <2> SUFFICES ASSUME NEW d \in Calls
               PROVE  /\ Invalidating(d)' => Invalidating(d)
                      /\ SettingUp(d) => SettingUp(d)'
    OBVIOUS
  <2>1. CASE d = c
    BY <1>3, <2>1
  <2>2. CASE d # c
    BY <1>2, <2>2 DEF Invalidating, SettingUp
  <2> QED
    BY <2>1, <2>2
<1>5. UNCHANGED <<proxy, lock, setupAt, raced>>
        /\ lock \in Calls \cup {NoCall}
  BY DEF proxyVars, TypeOK, ProxyTypeOK
<1>6. lock # NoCall /\ SettingUp(lock) => SettingUp(lock)'
  BY <1>4, <1>5 DEF SettingUp
<1> QED
  BY <1>4, <1>5, <1>6 DEF LockInv

\* A setup that has succeeded: the proxy is where it was set up.
LEMMA DoneLock ==
    ASSUME TypeOK, LockInv, NEW c \in Calls, SetupDone(c),
           target[c] \in Boxes, proxy[target[c]] # "off",
           UNCHANGED <<proxy, back, raced>>
    PROVE  LockInv'
<1>1. \A d \in Calls : pc'[d] = pc[d] \/ pc'[d] \in {"reach", "launch"}
  BY DEF SetupDone
<1>2. \A d \in Calls : Invalidating(d)' => Invalidating(d)
  BY <1>1 DEF Invalidating, Locating
<1>3. lock' = lock /\ setupAt' = target[c]
  BY DEF SetupDone
<1> QED
  BY <1>2, <1>3, BoxesFacts DEF LockInv

LEMMA EnsureLock ==
    ASSUME TypeOK, BoxesInv, LockInv, NEW c \in Calls, EnsureCaido(c)
    PROVE  BoxesInv' /\ LockInv'
<1>1. /\ pc[c] = "ensure" /\ Outside(c)
      /\ UNCHANGED <<box, proxy, setupAt>>
  BY DEF EnsureCaido, Outside, SettingUp, Invalidating, Locating
<1>2. Listed' = Listed
  BY <1>1 DEF Listed
<1>3. CASE /\ GetSandbox(c, "script") /\ lock' = c
           /\ raced' = (raced \/ \E d \in Calls : Invalidating(d))
  <2>1. BoxesInv'
    BY <1>1, <1>3, GetSandboxBoxes DEF Returns
  <2>2. /\ Goto(c, "script") \/ Goto(c, "listing")
        /\ back' = [back EXCEPT ![c] = "script"]
    BY <1>3 DEF GetSandbox, Locate
  <2>3. /\ pc'[c] \in {"script", "listing"} /\ back'[c] = "script"
        /\ \A d \in Calls \ {c} : pc'[d] = pc[d] /\ back'[d] = back[d]
    BY <2>2 DEF Goto, TypeOK
  <2>4. SettingUp(c)' /\ ~Invalidating(c)'
    BY <2>3 DEF SettingUp, Invalidating, Locating
  <2>5. \A d \in Calls : Invalidating(d)' => Invalidating(d)
    <3> SUFFICES ASSUME NEW d \in Calls, Invalidating(d)' PROVE Invalidating(d)
      OBVIOUS
    <3> QED
      BY <2>3, <2>4 DEF Invalidating
  <2>6. SettingUp(lock)'
    BY <1>3, <2>4 DEF SettingUp
  <2> QED
    BY <1>3, <2>1, <2>5, <2>6 DEF LockInv
<1>4. CASE /\ UNCHANGED <<target, back, messy, lock, raced>>
           /\ Goto(c, "launch") \/ Goto(c, "awaiting") \/ Goto(c, "reach")
  <2>1. \A d \in Calls :
           \/ pc'[d] = pc[d]
           \/ d = c /\ pc'[d] \in {"launch", "awaiting", "reach"}
    BY <1>4 DEF Goto, TypeOK
  <2>2. \A d \in Calls :
              \/ pc'[d] = pc[d] /\ back'[d] = back[d] /\ target'[d] = target[d]
              \/ Outside(d) /\ Outside(d)'
    BY <1>1, <1>4, <2>1 DEF Outside, SettingUp, Invalidating, Locating
  <2> QED
    BY <1>1, <1>2, <1>4, <2>2, AsideBoxes, AsideLock
<1> QED
  BY <1>3, <1>4 DEF EnsureCaido

LEMMA SetupLock ==
    ASSUME TypeOK, PlaceInv, BoxesInv, LockInv, NEW c \in Calls,
           Script(c) \/ StartProxy(c) \/ Confirm(c) \/ SetupThrows(c)
    PROVE  BoxesInv' /\ LockInv'
<1>1. UNCHANGED <<box, target, back, messy, raced>>
  BY DEF Script, StartProxy, Confirm, SetupThrows, inSetup
<1>2. \/ SetupDone(c) \/ SetupFails(c) \/ Goto(c, "starting")
      \/ Goto(c, "confirming")
  BY DEF Script, StartProxy, Confirm, SetupThrows
<1>3. \A d \in Calls : pc'[d] = pc[d] \/ pc'[d] \notin Locating
  BY <1>2 DEF SetupDone, SetupFails, Goto, TypeOK, Locating
<1>4. Listed' = Listed
  BY <1>1 DEF Listed
<1>5. {"creating", "connecting", "killing"} \subseteq Locating
  BY DEF Locating
<1>6. BoxesInv'
  BY <1>1, <1>3, <1>4, <1>5 DEF BoxesInv
<1>7. CASE SetupFails(c)
  BY <1>6, <1>7, NoLock DEF SetupFails
<1>8. CASE SetupDone(c)
  <2>1. ~Goto(c, "starting") /\ ~Goto(c, "confirming")
    BY <1>8 DEF SetupDone, Goto, TypeOK
  <2>2. CASE SetupFails(c)
    BY <1>6, <2>2, NoLock DEF SetupFails
  <2>3. CASE ~SetupFails(c)
    <3>1. (Script(c) \/ Confirm(c)) /\ proxy[target[c]] # "off"
      BY <2>1, <2>3 DEF Script, StartProxy, Confirm, SetupThrows
    <3>2. UNCHANGED proxy /\ target[c] \in Boxes
      BY <3>1 DEF Script, Confirm, PlaceInv
    <3> QED
      BY <1>1, <1>6, <1>8, <3>1, <3>2, DoneLock
  <2> QED
    BY <2>2, <2>3
<1>9. CASE ~SetupDone(c) /\ ~SetupFails(c)
  <2>1. /\ pc[c] \in {"script", "starting"}
        /\ Goto(c, "starting") \/ Goto(c, "confirming")
        /\ UNCHANGED <<lock, setupAt>>
    BY <1>9 DEF Script, StartProxy, Confirm, SetupThrows
  <2>2. \A s \in Boxes : proxy[s] # "off" => proxy'[s] # "off"
    BY <1>9 DEF Script, StartProxy, Launched, Confirm, SetupThrows, TypeOK,
                ProxyTypeOK
  <2>3. /\ pc'[c] \in {"starting", "confirming"}
        /\ \A d \in Calls \ {c} : pc'[d] = pc[d]
    BY <2>1 DEF Goto, TypeOK
  <2>4. \A d \in Calls : /\ Invalidating(d)' => Invalidating(d)
                         /\ SettingUp(d) => SettingUp(d)'
    BY <1>1, <2>3 DEF Invalidating, SettingUp, Locating
  <2>5. lock \in Calls \cup {NoCall} /\ setupAt \in Boxes \cup {None}
    BY DEF TypeOK, ProxyTypeOK
  <2>6. lock # NoCall /\ SettingUp(lock) => SettingUp(lock)'
    BY <2>1, <2>4, <2>5 DEF SettingUp
  <2> QED
    BY <1>1, <1>6, <2>1, <2>2, <2>4, <2>5, <2>6 DEF LockInv
<1> QED
  BY <1>7, <1>8, <1>9

LEMMA QueryLock ==
    ASSUME TypeOK, PlaceInv, BoxesInv, LockInv, NEW c \in Calls,
           Reach(c) \/ Query(c) \/ KillProxy(c) \/ ReachThrows(c)
    PROVE  BoxesInv' /\ LockInv'
<1>1. UNCHANGED <<box, setupAt, raced>>
  BY DEF Reach, Query, KillProxy, ReachThrows, onQuery
<1>2. Listed' = Listed
  BY <1>1 DEF Listed
<1>3. ASSUME Return(c, "answer") \/ Return(c, "error"),
             UNCHANGED <<target, back, messy>>
      PROVE  /\ BoxesInv'
             /\ pc'[c] = "over" /\ \A d \in Calls \ {c} : pc'[d] = pc[d]
  <2>1. pc'[c] = "over" /\ \A d \in Calls \ {c} : pc'[d] = pc[d]
    BY <1>3 DEF Return, Goto, TypeOK
  <2>2. {"creating", "connecting", "killing"} \subseteq Locating
          /\ "over" \notin Locating
    BY DEF Locating
  <2>3. BoxesInv'
    BY <1>2, <1>3, <2>1, <2>2 DEF BoxesInv
  <2> QED
    BY <2>1, <2>3
<1>4. CASE Reach(c)
  <2>1. Outside(c) /\ GetSandbox(c, "query") /\ UNCHANGED proxyVars
    BY <1>4 DEF Reach, onQuery, proxyVars, Outside, SettingUp, Invalidating,
                Locating
  <2> QED
    BY <1>1, <2>1, GetSandboxBoxes, GetSandboxLock DEF Returns
<1>5. CASE Query(c)
  <2>1. Outside(c)
    BY <1>5 DEF Query, Outside, SettingUp, Invalidating, Locating
  <2>2. CASE Invalidate(c)
    BY <1>1, <2>1, <2>2, GetSandboxBoxes, NoLock DEF Invalidate, Returns
  <2>3. CASE ~Invalidate(c)
    <3>1. /\ Return(c, "answer") \/ Return(c, "error")
          /\ UNCHANGED <<target, back, messy, proxy>>
          /\ lock' = NoCall \/ UNCHANGED lock
      BY <1>5, <2>3 DEF Query
    <3>2. Outside(c)'
      BY <1>3, <3>1 DEF Outside, SettingUp, Invalidating, Locating
    <3>3. \A d \in Calls :
              \/ pc'[d] = pc[d] /\ back'[d] = back[d] /\ target'[d] = target[d]
              \/ Outside(d) /\ Outside(d)'
      BY <1>3, <2>1, <3>1, <3>2
    <3>4. UNCHANGED lock => LockInv'
      BY <1>1, <3>1, <3>3, AsideLock
    <3> QED
      BY <1>3, <3>1, <3>4, NoLock
  <2> QED
    BY <2>2, <2>3
<1>6. CASE KillProxy(c) \/ ReachThrows(c)
  <2>1. Return(c, "error") /\ UNCHANGED <<target, back, messy, lock>>
    BY <1>6 DEF KillProxy, ReachThrows
  <2>2. CASE KillProxy(c)
    \* Somebody invalidates: there is no setup in the lock, or one that raced.
    <3>1. Invalidating(c)
      BY <2>2 DEF KillProxy, Invalidating
    <3> QED
      BY <1>1, <1>3, <2>1, <3>1 DEF LockInv
  <2>3. CASE ReachThrows(c)
    <3>1. Outside(c) /\ UNCHANGED proxy
      BY <2>3 DEF ReachThrows, Outside, SettingUp, Invalidating, Locating
    <3>2. Outside(c)'
      BY <1>3, <2>1 DEF Outside, SettingUp, Invalidating, Locating
    <3>3. \A d \in Calls :
              \/ pc'[d] = pc[d] /\ back'[d] = back[d] /\ target'[d] = target[d]
              \/ Outside(d) /\ Outside(d)'
      BY <1>3, <2>1, <3>1, <3>2
    <3> QED
      BY <1>1, <1>3, <2>1, <3>1, <3>3, AsideLock
  <2> QED
    BY <1>6, <2>2, <2>3
<1> QED
  BY <1>4, <1>5, <1>6

\* A command's other steps are made outside, and touch neither sandboxes nor
\* the proxy.
LEMMA CommandAside ==
    ASSUME CoreInv, NEW c \in Calls, CommandStep(c), ~Start(c), ~LookAgain(c)
    PROVE  /\ UNCHANGED <<box, messy, target, back, proxyVars>>
           /\ \/ UNCHANGED pc
              \/ /\ Outside(c)
                 /\ \E place \in {"ensure", "health", "waiting", "running",
                                  "over"} : Goto(c, place)
<1>1. UNCHANGED <<box, messy, target, back, proxyVars>>
  BY DEF CommandStep, Check, HealthOk, HealthAborted, HealthFails, NoSandbox,
         Launch, ReplyExit, ReplyStarted, ReplyPermanent, Settled, ReplyLost,
         Retry, TimerFires, TimeoutEnds, FindPid, KillProcess, elsewhere,
         sandboxRest
<1>2. CASE \/ Check(c) \/ HealthOk(c) \/ HealthAborted(c) \/ HealthFails(c)
           \/ NoSandbox(c) \/ Launch(c)
  <2>1. \/ pc[c] \in {"check", "health", "fresh", "launch"}
        \/ pc[c] = "threw" /\ back[c] \in {"check", "fresh"}
    BY <1>2 DEF Check, HealthOk, HealthAborted, HealthFails, NoSandbox, Launch
  <2>2. Outside(c)
    BY <2>1 DEF Outside, SettingUp, Invalidating, Locating
  <2>3. \E place \in {"ensure", "health", "waiting", "running", "over"} :
           Goto(c, place)
    BY <1>2 DEF Check, HealthOk, HealthAborted, HealthFails, NoSandbox, Launch,
                Settle, Return
  <2> QED
    BY <1>1, <2>2, <2>3
<1>3. CASE \/ ReplyExit(c) \/ ReplyStarted(c) \/ ReplyPermanent(c)
           \/ ReplyLost(c) \/ Retry(c) \/ TimerFires(c) \/ TimeoutEnds(c)
           \/ FindPid(c) \/ KillProcess(c)
  <2>1. UNCHANGED pc \/ Goto(c, "over")
    BY <1>3 DEF ReplyExit, ReplyStarted, ReplyPermanent, Settled, ReplyLost,
                Retry, TimerFires, TimeoutEnds, EndTimer, FindPid,
                KillProcess, Resolve, Return
  <2>2. loop[c] # "no" \/ timer[c] # "off" \/ abort[c] # "no"
    BY <1>3 DEF ReplyExit, ReplyStarted, ReplyPermanent, ReplyLost, Retry,
                TimerFires, TimeoutEnds, FindPid, KillProcess
  <2>3. pc[c] \in {"running", "over"}
    BY <2>2 DEF CoreInv, RunInv, RunOf
  <2>4. Outside(c)
    BY <2>3 DEF Outside, SettingUp, Invalidating, Locating
  <2> QED
    BY <1>1, <2>1, <2>4
<1> QED
  BY <1>2, <1>3 DEF CommandStep

LEMMA CommandLock ==
    ASSUME CoreInv, BoxesInv, LockInv, NEW c \in Calls, CommandStep(c)
    PROVE  BoxesInv' /\ LockInv'
<1> USE DEF CoreInv
<1>1. CASE Start(c)
  <2>1. pc[c] = "idle" /\ UNCHANGED <<box, proxyVars>>
    BY <1>1 DEF Start, sandboxRest
  <2>2. Outside(c)
    BY <2>1 DEF Outside, SettingUp, Invalidating, Locating
  <2>3. CASE GetSandbox(c, "check")
    BY <2>1, <2>2, <2>3, GetSandboxBoxes, GetSandboxLock DEF Returns
  <2>4. CASE Goto(c, "ensure") /\ UNCHANGED <<target, back, messy>>
    <3>1. Outside(c)' /\ \A d \in Calls \ {c} : pc'[d] = pc[d]
      BY <2>4 DEF Goto, TypeOK, Outside, SettingUp, Invalidating, Locating
    <3>2. \A d \in Calls :
              \/ pc'[d] = pc[d] /\ back'[d] = back[d] /\ target'[d] = target[d]
              \/ Outside(d) /\ Outside(d)'
      BY <2>2, <2>4, <3>1
    <3>3. Listed' = Listed
      BY <2>1 DEF Listed
    <3> QED
      BY <2>1, <2>4, <3>2, <3>3, AsideBoxes, AsideLock DEF proxyVars
  <2> QED
    BY <1>1, <2>3, <2>4 DEF Start
<1>2. CASE LookAgain(c)
  <2>1. pc[c] = "waiting" /\ Locate(c, "fresh") /\ UNCHANGED <<box, proxyVars>>
    BY <1>2 DEF LookAgain, sandboxRest
  <2>2. Outside(c)
    BY <2>1 DEF Outside, SettingUp, Invalidating, Locating
  <2> QED
    BY <2>1, <2>2, LocateBoxes, GetSandboxLock
<1>3. CASE ~Start(c) /\ ~LookAgain(c)
  <2>1. /\ UNCHANGED <<box, messy, target, back, proxyVars>>
        /\ \/ UNCHANGED pc
           \/ /\ Outside(c)
              /\ \E place \in {"ensure", "health", "waiting", "running",
                               "over"} : Goto(c, place)
    BY <1>3, CommandAside
  <2>2. Listed' = Listed
    BY <2>1 DEF Listed
  <2>3. \A d \in Calls :
              \/ pc'[d] = pc[d] /\ back'[d] = back[d] /\ target'[d] = target[d]
              \/ Outside(d) /\ Outside(d)'
    <3>1. CASE UNCHANGED pc
      BY <2>1, <3>1
    <3>2. CASE /\ Outside(c)
               /\ \E place \in {"ensure", "health", "waiting", "running",
                                "over"} : Goto(c, place)
      <4>1. /\ pc'[c] \in {"ensure", "health", "waiting", "running", "over"}
            /\ \A d \in Calls \ {c} : pc'[d] = pc[d]
        BY <3>2 DEF Goto, TypeOK
      <4>2. Outside(c)'
        BY <4>1 DEF Outside, SettingUp, Invalidating, Locating
      <4> QED
        BY <2>1, <3>2, <4>1, <4>2
    <3> QED
      BY <2>1, <3>1, <3>2
  <2> QED
    BY <2>1, <2>2, <2>3, AsideBoxes, AsideLock DEF proxyVars
<1> QED
  BY <1>1, <1>2, <1>3

LEMMA WorldLock ==
    ASSUME CoreInv, BoxesInv, LockInv, World
    PROVE  BoxesInv' /\ LockInv'
<1>1. /\ UNCHANGED <<pc, target, back, messy, lock, setupAt, raced>>
      /\ Listed' \subseteq Listed
      /\ \A s \in Boxes : proxy[s] # "off" => proxy'[s] # "off"
  <2>1. CASE Service /\ UNCHANGED <<pc, proxyVars, aborted, runVars>>
    <3>1. PICK s \in Boxes : Disturb(s)
      BY <2>1 DEF Service
    <3>2. Listed' \subseteq Listed
      BY <3>1 DEF Disturb, Listed, CoreInv, TypeOK, SandboxTypeOK
    <3> QED
      BY <2>1, <3>1, <3>2 DEF Disturb, located, proxyVars
  <2>2. CASE \E s \in Boxes : ProxyBreaks(s)
    <3>1. PICK s \in Boxes : ProxyBreaks(s)
      BY <2>2
    <3>2. UNCHANGED <<pc, target, back, messy, lock, setupAt, raced, box>>
      BY <3>1 DEF ProxyBreaks
    <3>3. \A t \in Boxes : proxy[t] # "off" => proxy'[t] # "off"
      BY <3>1 DEF ProxyBreaks, CoreInv, TypeOK, ProxyTypeOK
    <3> QED
      BY <3>2, <3>3 DEF Listed
  <2>3. CASE (\E c \in Calls : ProcessStarts(c) \/ ProcessEnds(c)) \/ Abort
    BY <2>3 DEF ProcessStarts, ProcessEnds, Abort, elsewhere, sandboxRest,
                proxyVars, Listed
  <2> QED
    BY <2>1, <2>2, <2>3 DEF World
<1> QED
  BY <1>1, AsideBoxes, AsideLock DEF CoreInv

SandboxInv == CoreInv /\ BoxesInv /\ LockInv

LEMMA SandboxInitial == Init => SandboxInv
  BY InitTypes, InitRun, InitLock DEF SandboxInv, CoreInv

LEMMA SandboxNext == ASSUME SandboxInv, [Next]_vars PROVE SandboxInv'
<1>1. CoreInv'
  BY CoreNext DEF SandboxInv
<1>2. BoxesInv' /\ LockInv'
  <2>1. TypeOK /\ PlaceInv /\ CoreInv /\ BoxesInv /\ LockInv
    BY DEF SandboxInv, CoreInv
  <2>2. ASSUME NEW c \in Calls, CallStep(c) PROVE BoxesInv' /\ LockInv'
    <3>1. CASE CommandStep(c)
      BY <2>1, <3>1, CommandLock
    <3>2. CASE ProxyStep(c)
      BY <2>1, <3>2, EnsureLock, SetupLock, QueryLock DEF ProxyStep
    <3>3. CASE GetSandboxStep(c) /\ UNCHANGED proxyVars
      BY <2>1, <3>3, SearchBoxes, SearchLock
    <3> QED
      BY <2>2, <3>1, <3>2, <3>3 DEF CallStep
  <2>3. CASE World
    BY <2>1, <2>3, WorldLock
  <2>4. CASE UNCHANGED vars
    <3>1. UNCHANGED <<pc, target, back, messy, box, proxy, lock, setupAt,
                      raced>>
      BY <2>4 DEF vars, sandboxVars, located, proxyVars
    <3> QED
      BY <2>1, <3>1, AsideBoxes, AsideLock DEF Listed
  <2> QED
    BY <2>2, <2>3, <2>4 DEF Next, SandboxInv
<1> QED
  BY <1>1, <1>2 DEF SandboxInv

\* OneSandbox: as long as no two calls look for a sandbox at once and no kill
\* or creation is lost, the user has at most one that is not gone.
THEOREM OneSandboxCorrect == Spec => []OneSandbox
<1>1. SandboxInv => OneSandbox
  <2> SUFFICES ASSUME SandboxInv, ~messy PROVE Cardinality(Listed) <= 1
    BY DEF OneSandbox
  <2>1. \A s, t \in Listed : s = t
    BY DEF SandboxInv, BoxesInv
  <2>2. CASE Listed = {}
    BY <2>2, FS_EmptySet
  <2>3. CASE Listed # {}
    <3>1. PICK s \in Listed : Listed = {s}
      BY <2>1, <2>3
    <3> QED
      BY <3>1, FS_Singleton
  <2> QED
    BY <2>2, <2>3
<1> QED
  BY <1>1, SandboxInitial, SandboxNext, PTL DEF Spec

\* LockIsTrue: when the lock holds a setup that has succeeded, and no setup
\* began while a proxy was to be killed, the proxy of that setup is there.
THEOREM LockIsTrueCorrect == Spec => []LockIsTrue
<1>1. SandboxInv => LockIsTrue
  BY DEF SandboxInv, LockInv, LockIsTrue
<1> QED
  BY <1>1, SandboxInitial, SandboxNext, PTL DEF Spec

=============================================================================

------------------------- MODULE PtySessionsProofs -------------------------
(***************************************************************************)
(* Proofs about PtySessions, for any sessions, cap, parallelism and number *)
(* of faults.                                                              *)
(***************************************************************************)
EXTENDS PtySessions, FiniteSetTheorems, TLAPS

\* A close that got past its kill leaves no shell it could have stopped.
Drained(s) ==
    closing[s] \in {"draining", "removed"} => ~running[s] \/ Leaked(s)

\* Only a session that create() returned is closed, and nothing has killed a
\* session that is not closed, except an orphan.
KillsCounted(s) ==
    /\ closing[s] # "no" => pc[s] = "created"
    /\ closing[s] = "no" /\ pc[s] \notin {"orphan", "failed"} => kills[s] = 0

\* `exited` resolves after the exit, or when waiting for it failed.
ExitTrue(s) ==
    /\ exited[s] => pc[s] = "created"
    /\ exited[s] => ~running[s] \/ <<s, "wait">> \in faults
    /\ tool[s] = "reported" => exited[s]

SessionInv(s) ==
    /\ running[s] => registered[s] \/ pc[s] = "orphan" \/ Leaked(s)
    /\ registered[s] => armed[s] \/ closing[s] \in {"killing", "draining"}
    /\ kills[s] <= 1
    /\ Drained(s)
    /\ KillsCounted(s)
    /\ ExitTrue(s)

PtyInv == TypeOK /\ \A s \in Sessions : SessionInv(s)

LEMMA InitPty == Init => PtyInv
  BY DEF Init, PtyInv, TypeOK, SessionInv, Leaked, Drained, KillsCounted,
         ExitTrue

\* A fault is recorded, and none is forgotten.
LEMMA FaultRecorded ==
    ASSUME TypeOK, NEW s \in Sessions, NEW what \in {"spawn", "kill", "wait"},
           Fault(s, what)
    PROVE  /\ faults' \in SUBSET (Sessions \X {"spawn", "kill", "wait"})
           /\ faults \subseteq faults'
           /\ <<s, what>> \in faults'
  BY DEF TypeOK, Fault

-----------------------------------------------------------------------------
(* One lemma per group of actions *)

LEMMA CreateSteps ==
    ASSUME PtyInv, NEW s \in Sessions,
           \/ Create(s) \/ Wire(s) \/ SpawnErrs(s) \/ WiringFails(s)
           \/ OrphanKilled(s)
    PROVE  PtyInv'
<1> USE DEF PtyInv, TypeOK, SessionInv, Leaked, Drained, KillsCounted,
            ExitTrue, Goto
<1>1. CASE Create(s)
  BY <1>1 DEF Create
<1>2. CASE Wire(s)
  <2>1. TypeOK'
    BY <1>2 DEF Wire
  <2>2. ASSUME NEW t \in Sessions
        PROVE  SessionInv(t)'
    <3>1. CASE t = s
      BY <1>2, <3>1 DEF Wire
    <3>2. CASE t # s
      BY <1>2, <3>2 DEF Wire
    <3> QED
      BY <3>1, <3>2
  <2> QED
    BY <2>1, <2>2
<1>3. CASE SpawnErrs(s)
  <2>1. TypeOK'
    BY <1>3, FaultRecorded DEF SpawnErrs
  <2>2. ASSUME NEW t \in Sessions
        PROVE  SessionInv(t)'
    <3>1. CASE t = s
      BY <1>3, <3>1, FaultRecorded DEF SpawnErrs
    <3>2. CASE t # s
      BY <1>3, <3>2, FaultRecorded DEF SpawnErrs
    <3> QED
      BY <3>1, <3>2
  <2> QED
    BY <2>1, <2>2
<1>4. CASE WiringFails(s)
  BY <1>4 DEF WiringFails
<1>5. CASE OrphanKilled(s)
  <2>1. TypeOK'
    BY <1>5, FaultRecorded DEF OrphanKilled
  <2>2. ASSUME NEW t \in Sessions
        PROVE  SessionInv(t)'
    BY <1>5, FaultRecorded DEF OrphanKilled
  <2> QED
    BY <2>1, <2>2
<1> QED
  BY <1>1, <1>2, <1>3, <1>4, <1>5

\* A kill that starts on sessions nobody is closing keeps everything.
LEMMA StartKillStep ==
    ASSUME PtyInv, NEW S \in SUBSET Sessions, \A s \in S : MayKill(s),
           StartKill(S),
           tool' \in [Sessions -> {"none", "owner", "waiter", "awaitsExit",
                                   "reported"}],
           \A s \in Sessions : tool'[s] = "reported" => tool[s] = "reported"
    PROVE  PtyInv'
<1>1. TypeOK'
  BY DEF PtyInv, TypeOK, StartKill
<1>2. ASSUME NEW s \in Sessions
      PROVE  SessionInv(s)'
  <2>1. CASE s \in S
    BY <2>1 DEF PtyInv, TypeOK, StartKill, MayKill, SessionInv, Leaked,
                Drained, KillsCounted, ExitTrue
  <2>2. CASE s \notin S
    BY <2>2 DEF PtyInv, TypeOK, StartKill, SessionInv, Leaked, Drained,
                KillsCounted, ExitTrue
  <2> QED
    BY <2>1, <2>2
<1> QED
  BY <1>1, <1>2 DEF PtyInv

LEMMA CloseSteps ==
    ASSUME PtyInv, NEW s \in Sessions,
           \/ TimerFires(s) \/ ToolKills(s) \/ KillStep(s) \/ ToolStep(s)
    PROVE  PtyInv'
<1>1. CASE TimerFires(s)
  <2>1. {s} \in SUBSET Sessions /\ \A t \in {s} : MayKill(t)
    BY <1>1 DEF TimerFires
  <2> QED
    BY <1>1, <2>1, StartKillStep DEF TimerFires, PtyInv, TypeOK
<1>2. CASE ToolKills(s)
  <2>1. /\ tool' \in [Sessions -> {"none", "owner", "waiter", "awaitsExit",
                                   "reported"}]
        /\ \A t \in Sessions : tool'[t] = "reported" => tool[t] = "reported"
    BY <1>2 DEF ToolKills, PtyInv, TypeOK
  <2>2. CASE MayKill(s)
    <3>1. {s} \in SUBSET Sessions /\ (\A t \in {s} : MayKill(t))
            /\ StartKill({s})
      BY <1>2, <2>2 DEF ToolKills
    <3> QED
      BY <2>1, <3>1, StartKillStep
  <2>3. CASE ~MayKill(s)
    BY <1>2, <2>1, <2>3 DEF ToolKills, PtyInv, TypeOK, SessionInv, Leaked,
                            Drained, KillsCounted, ExitTrue
  <2> QED
    BY <2>2, <2>3
<1> USE DEF PtyInv, TypeOK, SessionInv, Leaked, Drained, KillsCounted,
            ExitTrue
<1>3. CASE KillReturns(s)
  <2>1. TypeOK'
    BY <1>3, FaultRecorded DEF KillReturns
  <2>2. ASSUME NEW t \in Sessions
        PROVE  SessionInv(t)'
    <3>1. CASE t = s
      BY <1>3, <3>1, FaultRecorded DEF KillReturns
    <3>2. CASE t # s
      BY <1>3, <3>2, FaultRecorded DEF KillReturns
    <3> QED
      BY <3>1, <3>2
  <2> QED
    BY <2>1, <2>2
<1>4. CASE Remove(s)
  BY <1>4 DEF Remove
<1>5. CASE CloseReturns(s)
  BY <1>5 DEF CloseReturns
<1>6. CASE ToolReports(s)
  BY <1>6 DEF ToolReports
<1> QED
  BY <1>1, <1>2, <1>3, <1>4, <1>5, <1>6 DEF KillStep, ToolStep

LEMMA CloseAllStep ==
    ASSUME PtyInv, CloseAll
    PROVE  PtyInv'
<1>1. {s \in Sessions : MayKill(s)} \in SUBSET Sessions
        /\ \A t \in {s \in Sessions : MayKill(s)} : MayKill(t)
  OBVIOUS
<1> QED
  BY <1>1, StartKillStep DEF CloseAll, PtyInv, TypeOK

LEMMA SandboxSteps ==
    ASSUME PtyInv, NEW s \in Sessions,
           ShellExits(s) \/ ExitSeen(s) \/ WaitErrs(s)
    PROVE  PtyInv'
<1> USE DEF PtyInv, TypeOK, SessionInv, Leaked, Drained, KillsCounted,
            ExitTrue
<1>1. CASE ShellExits(s)
  BY <1>1 DEF ShellExits
<1>2. CASE ExitSeen(s)
  BY <1>2 DEF ExitSeen
<1>3. CASE WaitErrs(s)
  BY <1>3, FaultRecorded DEF WaitErrs
<1> QED
  BY <1>1, <1>2, <1>3

LEMMA NextPty == PtyInv /\ [Next]_ptyVars => PtyInv'
<1> SUFFICES ASSUME PtyInv, [Next]_ptyVars
             PROVE  PtyInv'
  OBVIOUS
<1>1. CASE UNCHANGED ptyVars
  BY <1>1 DEF ptyVars, PtyInv, TypeOK, SessionInv, Leaked, Drained,
              KillsCounted, ExitTrue
<1>2. CASE AllOver
  BY <1>1, <1>2 DEF AllOver
<1>3. CASE CloseAll
  BY <1>3, CloseAllStep
<1>4. ASSUME NEW s \in Sessions,
             \/ Create(s) \/ Wire(s) \/ SpawnErrs(s) \/ WiringFails(s)
             \/ OrphanKilled(s)
      PROVE  PtyInv'
  BY <1>4, CreateSteps
<1>5. ASSUME NEW s \in Sessions,
             \/ TimerFires(s) \/ ToolKills(s) \/ KillStep(s) \/ ToolStep(s)
      PROVE  PtyInv'
  BY <1>5, CloseSteps
<1>6. ASSUME NEW s \in Sessions,
             ShellExits(s) \/ ExitSeen(s) \/ WaitErrs(s)
      PROVE  PtyInv'
  BY <1>6, SandboxSteps
<1> QED
  BY <1>1, <1>2, <1>3, <1>4, <1>5, <1>6 DEF Next

LEMMA PtyInvariant == Spec => []PtyInv
  BY InitPty, NextPty, PTL DEF Spec

-----------------------------------------------------------------------------
(* The properties *)

\* The variables keep their types, and only sessions that create() returned
\* are in the map.
THEOREM PtyTypeCorrect == Spec => []TypeOK
<1>1. PtyInv => TypeOK
  BY DEF PtyInv
<1> QED
  BY <1>1, PtyInvariant, PTL

\* No shell runs that the manager has forgotten, unless starting or killing
\* it failed (create, killAndRemove).
THEOREM NoOrphanCorrect == Spec => []NoOrphan
<1>1. PtyInv => NoOrphan
  BY DEF PtyInv, SessionInv, NoOrphan
<1> QED
  BY <1>1, PtyInvariant, PTL

\* Every session in the map has a timer, or somebody is ending it.
THEOREM SupervisedCorrect == Spec => []Supervised
<1>1. PtyInv => Supervised
  BY DEF PtyInv, SessionInv, Supervised
<1> QED
  BY <1>1, PtyInvariant, PTL

\* No handle is killed twice (the `closing` flag).
THEOREM KilledOnceCorrect == Spec => []KilledOnce
<1>1. PtyInv => KilledOnce
  BY DEF PtyInv, SessionInv, KilledOnce
<1> QED
  BY <1>1, PtyInvariant, PTL

\* The kill tool reports success only of a shell that has ended, unless
\* waiting for its exit failed (handleKill).
THEOREM KillReportCorrect == Spec => []KillReportIsTrue
<1>1. PtyInv => KillReportIsTrue
  BY DEF PtyInv, SessionInv, ExitTrue, KillReportIsTrue
<1> QED
  BY <1>1, PtyInvariant, PTL

-----------------------------------------------------------------------------
(* The cap *)

\* Once the cap is reached, the calls in flight are all that can still pass it:
\* the bound on the map alone is not inductive.
CapInv ==
    /\ Cardinality(Spawning) <= Parallel
    /\ Cardinality(Registered) >= MaxPtys =>
          Cardinality(Registered) + Cardinality(Spawning)
             <= MaxPtys + Parallel - 1

LEMMA SetsFinite ==
    ASSUME NEW S \in SUBSET Sessions
    PROVE  IsFiniteSet(S) /\ Cardinality(S) \in Nat
  BY FS_Subset, FS_CardinalityType, PtyAssumption

LEMMA BothFinite ==
    /\ IsFiniteSet(Registered) /\ Cardinality(Registered) \in Nat
    /\ IsFiniteSet(Spawning) /\ Cardinality(Spawning) \in Nat
<1>1. Registered \in SUBSET Sessions /\ Spawning \in SUBSET Sessions
  BY DEF Registered, Spawning
<1> QED
  BY <1>1, SetsFinite

LEMMA CreateKeepsCap ==
    ASSUME TypeOK, CapInv, NEW s \in Sessions, Create(s)
    PROVE  CapInv'
<1>1. Registered' = Registered
  BY DEF Create, Registered
<1>2. CASE UnderCap
  <2>1. Spawning' = Spawning \cup {s} /\ s \notin Spawning
    BY <1>2 DEF Create, Goto, Spawning, TypeOK
  <2>2. Cardinality(Spawning') = Cardinality(Spawning) + 1
    BY <2>1, FS_AddElement, BothFinite
  <2>3. Cardinality(Spawning) < Parallel
    BY DEF Create
  <2> QED
    BY <1>1, <1>2, <2>2, <2>3, BothFinite, PtyAssumption DEF CapInv, UnderCap
<1>3. CASE ~UnderCap
  <2>1. Spawning' = Spawning
    BY <1>3 DEF Create, Goto, Spawning, TypeOK
  <2> QED
    BY <1>1, <2>1 DEF CapInv
<1> QED
  BY <1>2, <1>3

LEMMA WireKeepsCap ==
    ASSUME TypeOK, CapInv, NEW s \in Sessions, Wire(s)
    PROVE  CapInv'
<1>1. Spawning' = Spawning \ {s} /\ s \in Spawning
  BY DEF Wire, Goto, Spawning, TypeOK
<1>2. Registered' = Registered \cup {s}
  BY DEF Wire, Registered, TypeOK
<1>3. Cardinality(Spawning') = Cardinality(Spawning) - 1
  BY <1>1, FS_RemoveElement, BothFinite
<1>4. \/ Cardinality(Registered') = Cardinality(Registered)
      \/ Cardinality(Registered') = Cardinality(Registered) + 1
  BY <1>2, FS_AddElement, BothFinite
<1> QED
  BY <1>3, <1>4, BothFinite, PtyAssumption DEF CapInv

\* Every other step leaves the two sets or shrinks them.
LEMMA ShrinkKeepsCap ==
    ASSUME CapInv, Registered' \subseteq Registered,
           Spawning' \subseteq Spawning
    PROVE  CapInv'
<1>1. /\ Cardinality(Registered') <= Cardinality(Registered)
      /\ Cardinality(Registered') \in Nat
  BY BothFinite, FS_Subset, FS_CardinalityType
<1>2. /\ Cardinality(Spawning') <= Cardinality(Spawning)
      /\ Cardinality(Spawning') \in Nat
  BY BothFinite, FS_Subset, FS_CardinalityType
<1> QED
  BY <1>1, <1>2, BothFinite, PtyAssumption DEF CapInv

LEMMA InitCap == Init => CapInv
<1> SUFFICES ASSUME Init
             PROVE  CapInv
  OBVIOUS
<1>1. Registered = {} /\ Spawning = {}
  BY DEF Init, Registered, Spawning
<1> QED
  BY <1>1, FS_EmptySet, PtyAssumption DEF CapInv

LEMMA NextCap == TypeOK /\ CapInv /\ [Next]_ptyVars => CapInv'
<1> SUFFICES ASSUME TypeOK, CapInv, [Next]_ptyVars
             PROVE  CapInv'
  OBVIOUS
<1>1. ASSUME NEW s \in Sessions, Create(s)
      PROVE  CapInv'
  BY <1>1, CreateKeepsCap
<1>2. ASSUME NEW s \in Sessions, Wire(s)
      PROVE  CapInv'
  BY <1>2, WireKeepsCap
<1>3. ASSUME NEW s \in Sessions,
             SpawnErrs(s) \/ WiringFails(s) \/ OrphanKilled(s)
      PROVE  CapInv'
  <2>1. Registered' \subseteq Registered /\ Spawning' \subseteq Spawning
    BY <1>3 DEF SpawnErrs, WiringFails, OrphanKilled, Goto, Registered,
                Spawning, TypeOK
  <2> QED
    BY <2>1, ShrinkKeepsCap
<1>4. ASSUME NEW s \in Sessions,
             \/ TimerFires(s) \/ ToolKills(s) \/ KillStep(s) \/ ToolStep(s)
             \/ ShellExits(s) \/ ExitSeen(s) \/ WaitErrs(s)
      PROVE  CapInv'
  <2>1. pc' = pc
    BY <1>4 DEF TimerFires, ToolKills, KillStep, ToolStep, KillReturns,
                Remove, CloseReturns, ToolReports, ShellExits, ExitSeen,
                WaitErrs, StartKill
  <2>2. \/ registered' = registered
        \/ registered' = [registered EXCEPT ![s] = FALSE]
    BY <1>4 DEF TimerFires, ToolKills, KillStep, ToolStep, KillReturns,
                Remove, CloseReturns, ToolReports, ShellExits, ExitSeen,
                WaitErrs, StartKill
  <2>3. Registered' \subseteq Registered /\ Spawning' \subseteq Spawning
    BY <2>1, <2>2 DEF Registered, Spawning, TypeOK
  <2> QED
    BY <2>3, ShrinkKeepsCap
<1>5. CASE CloseAll \/ AllOver \/ UNCHANGED ptyVars
  <2>1. pc' = pc /\ registered' = registered
    BY <1>5 DEF CloseAll, StartKill, AllOver, ptyVars
  <2>2. Registered' \subseteq Registered /\ Spawning' \subseteq Spawning
    BY <2>1 DEF Registered, Spawning
  <2> QED
    BY <2>2, ShrinkKeepsCap
<1> QED
  BY <1>1, <1>2, <1>3, <1>4, <1>5 DEF Next

\* The map never holds more sessions than the cap and the calls that can race
\* past it; with one call at a time the cap is exact (create).
THEOREM CapOverrunCorrect == Spec => []CapOverrunBounded
<1>1. CapInv => CapOverrunBounded
  BY BothFinite, PtyAssumption DEF CapInv, CapOverrunBounded
<1>2. Spec => []CapInv
  BY InitCap, NextCap, PtyTypeCorrect, PTL DEF Spec
<1> QED
  BY <1>1, <1>2, PTL
=============================================================================

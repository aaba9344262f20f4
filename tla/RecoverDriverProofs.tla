------------------------ MODULE RecoverDriverProofs ------------------------
(*************************************************************************)
(* Proofs about RecoverDriver for every budget, window and time zone:    *)
(* the types, the bound on the emergency reboots of a window, the uptime *)
(* before each of them, and that a watchdog that has been given up on    *)
(* has a driver with its start ahead of it.                              *)
(*************************************************************************)
EXTENDS RecoverDriver, FiniteSetTheorems, TLAPS

Recently(e) == e.ts - Zone >= now - Window
Working     == pc \in {"restart", "decide", "write"}

\* What the record and the driver's copy of it hold is within the budget.
WithinBudget ==
    /\ IsFiniteSet(file) /\ Cardinality(file) <= Budget
    /\ IsFiniteSet(state) /\ Cardinality(state) <= Budget
    /\ IsFiniteSet(forgotten) /\ Cardinality(forgotten) <= Budget * losses

\* A reboot of the last window is in the record or was forgotten; so is a pending
\* one, once the driver that scheduled it has written the record; and the
\* driver's copy misses none either.
Recorded ==
    /\ \A e \in rebooted : Recently(e) => e \in file \cup forgotten
    /\ pc # "write" => \A e \in timers : Recently(e) => e \in file \cup forgotten
    /\ Working => \A e \in rebooted \cup timers : Recently(e) => e \in state \cup forgotten

BudgetInv == TypeOK /\ WithinBudget /\ Recorded

\* A fault leaves a number of faults.
LEMMA FaultType == ASSUME faults \in 0..MaxFaults, Fault PROVE faults' \in 0..MaxFaults
  BY ParametersAssumption DEF Fault

\* A larger clock only makes fewer reboots recent.
LEMMA RecentlyShrinks ==
  ASSUME now \in 0..MaxTime, now' \in 0..MaxTime, now <= now', NEW e \in Entry,
         e.ts - Zone >= now' - Window
  PROVE  Recently(e)
  <1>1. e.ts \in Nat /\ now \in Nat /\ now' \in Nat
    BY ParametersAssumption DEF Entry
  <1>. QED
    BY <1>1, ParametersAssumption DEF Recently

\* Trimming keeps a finite record finite, no larger, and with its recent reboots.
LEMMA RecentKeeps ==
  ASSUME NEW S, IsFiniteSet(S)
  PROVE  /\ Recent(S) \subseteq S
         /\ IsFiniteSet(Recent(S))
         /\ Cardinality(Recent(S)) <= Cardinality(S)
         /\ \A e \in S : Recently(e) => e \in Recent(S)
  <1>1. Recent(S) \subseteq S
    BY DEF Recent
  <1>2. \A e \in S : Recently(e) => e \in Recent(S)
    BY DEF Recent, Recently
  <1>. QED
    BY <1>1, <1>2, FS_Subset

\* The types hold of the initial state.
LEMMA TypeInit == Init => TypeOK
  <1>1. 0 \in 0..MaxTime /\ 0 \in 0..0 /\ MaxFaults \in 0..MaxFaults /\ 0 \in Nat
    BY ParametersAssumption
  <1>. QED
    BY <1>1 DEF Init, TypeOK

\* A boot starts the types afresh.
LEMMA BootType ==
  ASSUME TypeOK, NewBoot, rebooted' \subseteq Entry, UNCHANGED <<forgotten, losses>>,
         faults' \in 0..MaxFaults
  PROVE  TypeOK'
  <1>1. now \in 0..now /\ 0 \in 0..MaxTime
    BY ParametersAssumption DEF TypeOK
  <1>. QED
    BY <1>1 DEF NewBoot, TypeOK, record

\* Every step keeps the types.
LEMMA TypeNext == TypeOK /\ [Next]_vars => TypeOK'
  <1>. SUFFICES ASSUME TypeOK, [Next]_vars PROVE TypeOK'
    OBVIOUS
  <1>a. ASSUME Fault \/ NoFault PROVE faults' \in 0..MaxFaults
    BY <1>a, FaultType DEF NoFault, TypeOK
  <1>1. CASE Tick
    <2>1. now' \in 0..MaxTime /\ booted' \in 0..now'
      BY <1>1, ParametersAssumption DEF Tick, TypeOK
    <2>. QED
      BY <1>1, <2>1 DEF Tick, TypeOK, driver, history, record
  <1>2. CASE Lockout
    BY <1>2 DEF Lockout, TypeOK, history, record
  <1>3. CASE Reboot
    BY <1>3, BootType DEF Reboot, TypeOK
  <1>4. CASE PowerCut
    BY <1>4, <1>a, BootType DEF PowerCut, TypeOK, history
  <1>5. CASE Load
    <2>1. booted <= now
      BY ParametersAssumption DEF TypeOK
    <2>2. faults' \in 0..MaxFaults
      BY <1>5, <1>a DEF Load
    <2>3. losses' \in Nat /\ forgotten' \subseteq Entry /\ state' \subseteq Entry
      BY <1>5 DEF Load, TypeOK
    <2>. QED
      BY <1>5, <2>1, <2>2, <2>3 DEF Load, TypeOK, record
  <1>5a. CASE LoadRaises
    BY <1>5a, ParametersAssumption DEF LoadRaises, End, TypeOK, history, record
  <1>5b. CASE Spoil
    BY <1>5b, <1>a DEF Spoil, TypeOK, driver, history
  <1>6. CASE Restart
    <2>1. faults' \in 0..MaxFaults /\ 0 \in 0..MaxTime
      BY <1>6, <1>a, ParametersAssumption DEF Restart
    <2>. QED
      BY <1>6, <2>1 DEF Restart, End, TypeOK, history, record
  <1>7. CASE Suppress
    <2>1. faults' \in 0..MaxFaults /\ 0 \in 0..MaxTime
      BY <1>7, <1>a, ParametersAssumption DEF Suppress
    <2>2. file' \subseteq Entry
      BY <1>7 DEF Suppress, Recent, TypeOK, record
    <2>. QED
      BY <1>7, <2>1, <2>2 DEF Suppress, End, TypeOK, history, record
  <1>8. CASE Schedule
    <2>1. faults' \in 0..MaxFaults
      BY <1>8, <1>a DEF Schedule
    <2>2. [id |-> scheduled, ts |-> stamp] \in Entry /\ booted <= stamp
      BY <1>8 DEF Schedule, Entry, TypeOK
    <2>3. Recent(state) \subseteq Entry
      BY DEF Recent, TypeOK
    <2>4. /\ state' \subseteq Entry /\ timers' \subseteq Entry /\ scheduled' \in Nat
          /\ \A e \in timers' : booted <= e.ts
      BY <1>8, <2>2, <2>3 DEF Schedule, TypeOK
    <2>5. sentinel' \in BOOLEAN
      BY <1>8 DEF Schedule, TypeOK
    <2>. QED
      BY <1>8, <2>1, <2>2, <2>4, <2>5 DEF Schedule, TypeOK, history, record
  <1>8a. CASE ScheduleTimesOut
    <2>1. faults' \in 0..MaxFaults /\ 0 \in 0..MaxTime
      BY <1>8a, <1>a, ParametersAssumption DEF ScheduleTimesOut
    <2>2. [id |-> scheduled, ts |-> stamp] \in Entry /\ booted <= stamp
      BY <1>8a DEF ScheduleTimesOut, Entry, TypeOK
    <2>3. /\ timers' \subseteq Entry /\ scheduled' \in Nat
          /\ \A e \in timers' : booted <= e.ts
          /\ forgotten' \subseteq Entry /\ losses' \in Nat
      BY <1>8a, <2>2 DEF ScheduleTimesOut, TypeOK
    <2>. QED
      BY <1>8a, <2>1, <2>3 DEF ScheduleTimesOut, End, TypeOK, record
  <1>9. CASE Write
    <2>1. faults' \in 0..MaxFaults /\ 0 \in 0..MaxTime
      BY <1>9, <1>a, ParametersAssumption DEF Write
    <2>2. losses' \in Nat /\ forgotten' \subseteq Entry /\ file' \subseteq Entry
      BY <1>9 DEF Write, TypeOK, record
    <2>. QED
      BY <1>9, <2>1, <2>2 DEF Write, End, TypeOK, record
  <1>10. CASE UNCHANGED vars
    BY <1>10 DEF TypeOK, vars
  <1>. QED
    BY <1>1, <1>2, <1>3, <1>4, <1>5, <1>5a, <1>5b, <1>6, <1>7, <1>8, <1>8a, <1>9, <1>10 DEF Next, Driver

\* The recovery driver's state is always well typed.
THEOREM TypeCorrect == Spec => []TypeOK
  BY TypeInit, TypeNext, PTL DEF Spec

\* One more loss makes room for one more budget of forgotten reboots.
LEMMA ForgetMore ==
  ASSUME WithinBudget, losses \in Nat,
         NEW S, IsFiniteSet(S), Cardinality(S) <= Budget,
         forgotten' = forgotten \cup S, losses' = losses + 1
  PROVE  IsFiniteSet(forgotten') /\ Cardinality(forgotten') <= Budget * losses'
  <1>1. /\ IsFiniteSet(forgotten')
        /\ Cardinality(forgotten') =
              Cardinality(forgotten) + Cardinality(S) - Cardinality(forgotten \cap S)
    BY FS_Union DEF WithinBudget
  <1>2. IsFiniteSet(forgotten \cap S)
    BY FS_Subset
  <1>3. Cardinality(forgotten \cap S) \in Nat
    BY <1>2, FS_CardinalityType
  <1>4. Cardinality(forgotten) \in Nat /\ Cardinality(S) \in Nat
    BY FS_CardinalityType DEF WithinBudget
  <1>5. Cardinality(forgotten') <= Budget * losses + Budget
    <2>1. Cardinality(forgotten) <= Budget * losses /\ Budget * losses \in Nat
      BY ParametersAssumption DEF WithinBudget
    <2>. QED
      BY <1>1, <1>3, <1>4, <2>1, ParametersAssumption
  <1>6. Budget * losses + Budget = Budget * (losses + 1)
    BY ParametersAssumption
  <1>. QED
    BY <1>1, <1>5, <1>6

\* Every step keeps the record and the driver's copy of it within the budget.
LEMMA WithinBudgetNext ==
  ASSUME TypeOK, WithinBudget, [Next]_vars PROVE WithinBudget'
  <1>0. /\ IsFiniteSet({}) /\ Cardinality({}) <= Budget
        /\ losses \in Nat
    BY FS_EmptySet, ParametersAssumption DEF TypeOK
  <1>r. /\ Recent(state) \subseteq state
        /\ IsFiniteSet(Recent(state)) /\ Cardinality(Recent(state)) <= Budget
    <2>1. Cardinality(Recent(state)) \in Nat /\ Cardinality(state) \in Nat
      BY RecentKeeps, FS_CardinalityType DEF WithinBudget
    <2>. QED
      BY <2>1, RecentKeeps, ParametersAssumption DEF WithinBudget
  <1>1. CASE Tick
    BY <1>1 DEF Tick, WithinBudget, driver, history, record
  <1>2. CASE Lockout
    BY <1>2 DEF Lockout, WithinBudget, history, record
  <1>3. CASE Reboot
    BY <1>3, <1>0 DEF Reboot, NewBoot, WithinBudget, record
  <1>4. CASE PowerCut
    BY <1>4, <1>0 DEF PowerCut, NewBoot, WithinBudget, history, record
  <1>5. CASE Load
    <2>1. CASE state' = file /\ UNCHANGED <<forgotten, losses>>
      BY <1>5, <2>1 DEF Load, WithinBudget, record
    <2>2. CASE state' = {} /\ forgotten' = forgotten \cup file /\ losses' = losses + 1
      <3>1. IsFiniteSet(forgotten') /\ Cardinality(forgotten') <= Budget * losses'
        BY <2>2, <1>0, ForgetMore DEF WithinBudget
      <3>. QED
        BY <1>5, <2>2, <1>0, <3>1 DEF Load, WithinBudget, record
    <2>. QED
      BY <1>5, <2>1, <2>2 DEF Load
  <1>5a. CASE LoadRaises
    BY <1>0, <1>5a DEF LoadRaises, End, WithinBudget, history, record
  <1>5b. CASE Spoil
    BY <1>5b DEF Spoil, WithinBudget, driver, history
  <1>6. CASE Restart
    BY <1>6, <1>0 DEF Restart, End, WithinBudget, history, record
  <1>7. CASE Suppress
    BY <1>7, <1>0, <1>r DEF Suppress, End, WithinBudget, history, record
  <1>8. CASE Schedule
    <2>1. CASE state' = Recent(state)
      BY <1>8, <1>r, <2>1 DEF Schedule, WithinBudget, history, record
    <2>2. ASSUME NEW e, state' = Recent(state) \cup {e}
          PROVE  IsFiniteSet(state') /\ Cardinality(state') <= Budget
      <3>1. Cardinality(Recent(state)) < Budget
        BY <1>8 DEF Schedule, Escalate, record
      <3>2. Cardinality(Recent(state)) \in Nat
        BY <1>r, FS_CardinalityType
      <3>3. /\ IsFiniteSet(state')
            /\ \/ Cardinality(state') = Cardinality(Recent(state))
               \/ Cardinality(state') = Cardinality(Recent(state)) + 1
        BY <2>2, <1>r, FS_AddElement
      <3>. QED
        BY <3>1, <3>2, <3>3, ParametersAssumption
    <2>3. \/ state' = Recent(state)
          \/ \E e : state' = Recent(state) \cup {e}
      BY <1>8 DEF Schedule
    <2>4. IsFiniteSet(state') /\ Cardinality(state') <= Budget
      BY <1>r, <2>2, <2>3
    <2>. QED
      BY <1>8, <2>4 DEF Schedule, WithinBudget, history, record
  <1>8a. CASE ScheduleTimesOut
    <2>1. CASE UNCHANGED <<forgotten, losses>>
      BY <1>8a, <2>1, <1>0 DEF ScheduleTimesOut, End, WithinBudget, record
    <2>2. ASSUME NEW e, forgotten' = forgotten \cup {e}, losses' = losses + 1
          PROVE  IsFiniteSet(forgotten') /\ Cardinality(forgotten') <= Budget * losses'
      <3>1. IsFiniteSet({e}) /\ Cardinality({e}) = 1
        BY FS_Singleton
      <3>2. Cardinality(Recent(state)) < Budget /\ Cardinality(Recent(state)) \in Nat
        BY <1>8a, <1>r, FS_CardinalityType DEF ScheduleTimesOut, Escalate, record
      <3>3. Cardinality({e}) <= Budget
        BY <3>1, <3>2, ParametersAssumption
      <3>. QED
        BY <2>2, <1>0, <3>1, <3>3, ForgetMore
    <2>3. \/ UNCHANGED <<forgotten, losses>>
          \/ \E e : forgotten' = forgotten \cup {e} /\ losses' = losses + 1
      BY <1>8a DEF ScheduleTimesOut
    <2>4. IsFiniteSet(forgotten') /\ Cardinality(forgotten') <= Budget * losses'
      BY <2>2, <2>3 DEF WithinBudget
    <2>. QED
      BY <1>8a, <1>0, <2>4 DEF ScheduleTimesOut, End, WithinBudget, record
  <1>9. CASE Write
    <2>1. CASE file' = state /\ UNCHANGED <<forgotten, losses>>
      BY <1>9, <2>1, <1>0 DEF Write, End, WithinBudget, record
    <2>2. CASE /\ forgotten' = forgotten \cup state /\ losses' = losses + 1
               /\ UNCHANGED file
      <3>1. IsFiniteSet(forgotten') /\ Cardinality(forgotten') <= Budget * losses'
        BY <2>2, <1>0, ForgetMore DEF WithinBudget
      <3>. QED
        BY <1>9, <2>2, <1>0, <3>1 DEF Write, End, WithinBudget, record
    <2>. QED
      BY <1>9, <2>1, <2>2 DEF Write, record
  <1>10. CASE UNCHANGED vars
    BY <1>10 DEF WithinBudget, vars
  <1>. QED
    BY <1>1, <1>2, <1>3, <1>4, <1>5, <1>5a, <1>5b, <1>6, <1>7, <1>8, <1>8a, <1>9, <1>10 DEF Next, Driver

\* Every step keeps the recent reboots recorded.
LEMMA RecordedNext ==
  ASSUME TypeOK, WithinBudget, Recorded, [Next]_vars PROVE Recorded'
  <1>t. rebooted \subseteq Entry /\ timers \subseteq Entry
    BY DEF TypeOK
  <1>r. \A e \in state : Recently(e) => e \in Recent(state)
    BY RecentKeeps DEF WithinBudget
  <1>1. CASE Tick
    <2>1. now' \in 0..MaxTime /\ now <= now' /\ now \in 0..MaxTime
      BY <1>1, ParametersAssumption DEF Tick, TypeOK, record
    <2>2. \A e \in rebooted \cup timers : Recently(e)' => Recently(e)
      BY <2>1, <1>t, RecentlyShrinks DEF Recently
    <2>. QED
      BY <1>1, <2>2 DEF Tick, Recorded, Working, driver, history, record
  <1>2. CASE Lockout
    BY <1>2 DEF Lockout, Recorded, Working, Recently, history, record
  <1>3. CASE Reboot
    <2>1. \A e \in rebooted' : e \in rebooted \cup timers
      BY <1>3 DEF Reboot
    <2>2. pc = "off" /\ pc' = "off" /\ timers' = {}
      BY <1>3 DEF Reboot, NewBoot, record
    <2>3. UNCHANGED <<now, file, forgotten>>
      BY <1>3 DEF Reboot, NewBoot, record
    <2>. QED
      BY <2>1, <2>2, <2>3 DEF Recorded, Working, Recently
  <1>4. CASE PowerCut
    BY <1>4 DEF PowerCut, NewBoot, Recorded, Working, Recently, history, record
  <1>5. CASE Load
    BY <1>5 DEF Load, Recorded, Working, Recently, record
  <1>5a. CASE LoadRaises
    BY <1>5a DEF LoadRaises, End, Recorded, Working, Recently, history, record
  <1>5b. CASE Spoil
    BY <1>5b DEF Spoil, Recorded, Working, Recently, driver, history
  <1>6. CASE Restart
    BY <1>6 DEF Restart, End, Recorded, Working, Recently, history, record
  <1>7. CASE Suppress
    BY <1>7, <1>r DEF Suppress, End, Recorded, Working, Recently, history, record
  <1>8. CASE Schedule
    <2>1. pc = "decide" /\ pc' = "write" /\ UNCHANGED <<now, file, rebooted, forgotten>>
      BY <1>8 DEF Schedule, history, record
    <2>2. /\ Recent(state) \subseteq state'
          /\ \A e \in timers' : e \in timers \/ e \in state'
      BY <1>8 DEF Schedule
    <2>. QED
      BY <2>1, <2>2, <1>r DEF Recorded, Working, Recently
  <1>8a. CASE ScheduleTimesOut
    <2>1. pc = "decide" /\ pc' = "off" /\ UNCHANGED <<now, file, rebooted>>
      BY <1>8a DEF ScheduleTimesOut, End, record
    <2>2. /\ forgotten \subseteq forgotten'
          /\ \A e \in timers' : e \in timers \/ e \in forgotten'
      BY <1>8a DEF ScheduleTimesOut
    <2>. QED
      BY <2>1, <2>2 DEF Recorded, Working, Recently
  <1>9. CASE Write
    BY <1>9 DEF Write, End, Recorded, Working, Recently, record
  <1>10. CASE UNCHANGED vars
    BY <1>10 DEF Recorded, Working, Recently, vars
  <1>. QED
    BY <1>1, <1>2, <1>3, <1>4, <1>5, <1>5a, <1>5b, <1>6, <1>7, <1>8, <1>8a, <1>9, <1>10 DEF Next, Driver

\* The budget invariant holds at the start.
LEMMA BudgetInit == Init => BudgetInv
  <1>. SUFFICES ASSUME Init PROVE BudgetInv
    OBVIOUS
  <1>1. TypeOK
    BY TypeInit
  <1>2. IsFiniteSet({}) /\ Cardinality({}) <= Budget /\ Cardinality({}) <= Budget * 0
    BY FS_EmptySet, ParametersAssumption
  <1>. QED
    BY <1>1, <1>2 DEF Init, BudgetInv, WithinBudget, Recorded, Working

\* A recent reboot is recorded, or was forgotten.
LEMMA SinceRecorded == BudgetInv => Since(Window - Zone) \subseteq file \cup forgotten
  <1>. SUFFICES ASSUME BudgetInv, NEW e \in rebooted, e.ts >= now - (Window - Zone)
                PROVE  e \in file \cup forgotten
    BY DEF Since
  <1>1. e.ts \in Int /\ now \in Int
    BY ParametersAssumption DEF BudgetInv, TypeOK, Entry
  <1>2. Recently(e)
    BY <1>1, ParametersAssumption DEF Recently
  <1>. QED
    BY <1>2 DEF BudgetInv, Recorded

\* What is recorded and what was forgotten together bound the recent reboots.
LEMMA BudgetBounds == BudgetInv => RebootsBounded
  <1>. SUFFICES ASSUME BudgetInv PROVE RebootsBounded
    OBVIOUS
  <1>1. Since(Window - Zone) \subseteq file \cup forgotten
    BY SinceRecorded
  <1>2. /\ IsFiniteSet(file \cup forgotten)
        /\ Cardinality(file \cup forgotten) =
              Cardinality(file) + Cardinality(forgotten) - Cardinality(file \cap forgotten)
    BY FS_Union DEF BudgetInv, WithinBudget
  <1>3. IsFiniteSet(file \cap forgotten)
    BY FS_Subset DEF BudgetInv, WithinBudget
  <1>4. /\ Cardinality(file \cap forgotten) \in Nat
        /\ Cardinality(file) \in Nat /\ Cardinality(forgotten) \in Nat
    BY <1>3, FS_CardinalityType DEF BudgetInv, WithinBudget
  <1>5. /\ IsFiniteSet(Since(Window - Zone))
        /\ Cardinality(Since(Window - Zone)) <= Cardinality(file \cup forgotten)
    BY <1>1, <1>2, FS_Subset
  <1>6. Cardinality(Since(Window - Zone)) \in Nat
    BY <1>5, FS_CardinalityType
  <1>7. /\ losses \in Nat
        /\ Cardinality(file) <= Budget /\ Cardinality(forgotten) <= Budget * losses
    BY DEF BudgetInv, WithinBudget, TypeOK
  <1>8. Budget * losses \in Nat /\ Budget * (1 + losses) = Budget + Budget * losses
    BY <1>7, ParametersAssumption
  <1>9. Cardinality(Since(Window - Zone)) <= Budget + Budget * losses
    BY <1>2, <1>4, <1>5, <1>6, <1>7, <1>8, ParametersAssumption
  <1>. QED
    BY <1>8, <1>9 DEF RebootsBounded

\* For every budget, window and time zone, and whatever fails: the emergency
\* reboots of a window never exceed the budget by more than one budget for each
\* time the record was lost.
THEOREM RebootsAreBounded == Spec => []RebootsBounded
  <1>1. BudgetInv /\ [Next]_vars => BudgetInv'
    BY TypeNext, WithinBudgetNext, RecordedNext DEF BudgetInv
  <1>. QED
    BY BudgetInit, <1>1, BudgetBounds, PTL DEF Spec

\* The recent reboots are finitely many.
LEMMA RecentFinite == BudgetInv => IsFiniteSet(Since(Window - Zone))
  <1>. SUFFICES ASSUME BudgetInv PROVE IsFiniteSet(Since(Window - Zone))
    OBVIOUS
  <1>1. Since(Window - Zone) \subseteq file \cup forgotten
    BY SinceRecorded
  <1>2. IsFiniteSet(file \cup forgotten)
    BY FS_Union DEF BudgetInv, WithinBudget
  <1>. QED
    BY <1>1, <1>2, FS_Subset

\* On a device whose time zone is UTC or west of it the budget is what the docstring
\* of gate C says it is, as long as no record is lost: a zone east of UTC is all that
\* breaks it.
THEOREM BudgetKeptWest == ASSUME Zone <= 0 PROVE Spec => []RebootBudget
  <1>1. ASSUME BudgetInv, losses = 0 PROVE Cardinality(Since(Window)) <= Budget
    <2>1. Since(Window) \subseteq Since(Window - Zone)
      <3>. SUFFICES ASSUME NEW e \in rebooted, e.ts >= now - Window
                    PROVE  e.ts >= now - (Window - Zone)
        BY DEF Since
      <3>1. e.ts \in Int /\ now \in Int
        BY <1>1, ParametersAssumption DEF BudgetInv, TypeOK, Entry
      <3>. QED
        BY <3>1, ParametersAssumption
    <2>2. /\ IsFiniteSet(Since(Window))
          /\ Cardinality(Since(Window)) <= Cardinality(Since(Window - Zone))
      BY <1>1, <2>1, RecentFinite, FS_Subset
    <2>3. Cardinality(Since(Window)) \in Nat /\ Cardinality(Since(Window - Zone)) \in Nat
      BY <1>1, <2>2, RecentFinite, FS_CardinalityType
    <2>4. Budget * (1 + losses) = Budget
      BY <1>1, ParametersAssumption
    <2>5. Cardinality(Since(Window - Zone)) <= Budget
      BY <1>1, <2>4, BudgetBounds DEF RebootsBounded
    <2>. QED
      BY <2>2, <2>3, <2>5, ParametersAssumption
  <1>2. BudgetInv => RebootBudget
    BY <1>1 DEF RebootBudget
  <1>3. BudgetInv /\ [Next]_vars => BudgetInv'
    BY TypeNext, WithinBudgetNext, RecordedNext DEF BudgetInv
  <1>. QED
    BY BudgetInit, <1>2, <1>3, PTL DEF Spec

----------------------------------------------------------------------------
(* Gate A, and what comes before the gates                                 *)

\* A reboot is only pending on a device that has been up for UptimeMin.
Waited == timers # {} => now - booted >= UptimeMin

\* Every step keeps pending reboots behind gate A.
LEMMA WaitedNext == ASSUME TypeOK, Waited, [Next]_vars PROVE Waited'
  <1>. USE DEF Waited
  <1>0. now \in Int /\ booted \in Int
    BY ParametersAssumption DEF TypeOK
  <1>1. CASE Tick
    BY <1>0, <1>1, ParametersAssumption DEF Tick
  <1>2. CASE Lockout
    BY <1>2 DEF Lockout
  <1>3. CASE Reboot \/ PowerCut
    BY <1>3 DEF Reboot, PowerCut, NewBoot
  <1>4. CASE Load \/ LoadRaises \/ Spoil
    BY <1>4 DEF Load, LoadRaises, Spoil
  <1>5. CASE Restart
    BY <1>5 DEF Restart
  <1>6. CASE Suppress
    BY <1>6 DEF Suppress
  <1>7. CASE Schedule
    BY <1>7 DEF Schedule, Escalate
  <1>8. CASE ScheduleTimesOut
    BY <1>8 DEF ScheduleTimesOut, Escalate
  <1>9. CASE Write
    BY <1>9 DEF Write
  <1>10. CASE UNCHANGED vars
    BY <1>10 DEF vars
  <1>. QED
    BY <1>1, <1>2, <1>3, <1>4, <1>5, <1>6, <1>7, <1>8, <1>9, <1>10 DEF Next, Driver

\* Only the timer's reboot is an emergency reboot.
LEMMA RebootedBy == ASSUME [Next]_vars, rebooted' # rebooted PROVE timers # {}
  BY DEF Next, Driver, Tick, Lockout, Reboot, PowerCut, Spoil, Load, LoadRaises, Restart, Suppress,
         Schedule, ScheduleTimesOut, Write, history, vars

\* Whatever fails, is lost or is cut short: between a boot and an emergency reboot
\* there is at least UptimeMin, so that they cannot become a loop of fast boots.
THEOREM UptimeIsRespected == Spec => UptimeRespected
  <1>1. Init => Waited
    BY DEF Init, Waited
  <1>2. TypeOK /\ Waited /\ [Next]_vars => Waited'
    BY WaitedNext
  <1>3. Waited /\ [Next]_vars => [rebooted' # rebooted => now - booted >= UptimeMin]_vars
    BY RebootedBy DEF Waited
  <1>. QED
    BY <1>1, <1>2, <1>3, TypeCorrect, PTL DEF Spec, UptimeRespected

\* Every step leaves a failed watchdog to a driver that will start it, or to one whose
\* start failed or whose record raised.
LEMMA AttendedNext ==
  ASSUME LockoutAttended, [Next]_vars PROVE LockoutAttended'
  <1>. USE DEF LockoutAttended
  <1>1. CASE Tick \/ Lockout \/ Spoil
    BY <1>1 DEF Tick, Lockout, Spoil, driver
  <1>2. CASE Reboot \/ PowerCut
    BY <1>2 DEF Reboot, PowerCut, NewBoot
  <1>3. CASE Load \/ LoadRaises
    BY <1>3 DEF Load, LoadRaises
  <1>4. CASE Restart
    BY <1>4 DEF Restart
  <1>5. CASE Suppress
    BY <1>5 DEF Suppress
  <1>6. CASE Schedule
    BY <1>6 DEF Schedule
  <1>7. CASE ScheduleTimesOut
    BY <1>7 DEF ScheduleTimesOut
  <1>8. CASE Write
    BY <1>8 DEF Write
  <1>9. CASE UNCHANGED vars
    BY <1>9 DEF vars
  <1>. QED
    BY <1>1, <1>2, <1>3, <1>4, <1>5, <1>6, <1>7, <1>8, <1>9 DEF Next, Driver

\* Systemd's giving up on the watchdog is always followed up by a driver that has its
\* start ahead of it, whatever was lost, cut or failed before, unless that very start
\* fails or the record raises: no gate comes before it.
THEOREM LockoutsAreAttended == Spec => []LockoutAttended
  <1>1. Init => LockoutAttended
    BY DEF Init, LockoutAttended
  <1>2. LockoutAttended /\ [Next]_vars => LockoutAttended'
    BY AttendedNext
  <1>. QED
    BY <1>1, <1>2, PTL DEF Spec
=============================================================================

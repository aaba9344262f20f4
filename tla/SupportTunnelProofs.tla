-------------------------- MODULE SupportTunnelProofs --------------------------
(*************************************************************************)
(* Proofs about SupportTunnel: the types, that bounces keep their        *)
(* distance through restarts of the watchdog and are held off by no more *)
(* than the clock can be wrong, that a tunnel is not bounced when the    *)
(* discovery service has just been out of reach, and that a tunnel an    *)
(* operator has stopped stays down.                                      *)
(*************************************************************************)
EXTENDS SupportTunnel, TLAPS

\* TypeOK without numbers.
Typed ==
    /\ reach \in Weather
    /\ synced \in BOOLEAN /\ ntpd \in Daemons /\ wedged \in BOOLEAN
    /\ unit \in {"missing", "inactive", "active", "failed"}
    /\ conf \in BOOLEAN /\ up \in BOOLEAN /\ shaken \in BOOLEAN
    /\ pc \in {"idle", "ntp", "wg", "down", "up", "reread"} /\ raised \in BOOLEAN
    /\ hydrated \in BOOLEAN /\ lapse \in BOOLEAN
    /\ excuse \in {"none", "restart", "clock"} /\ seen \in {"up", "down", "unsure"}
    /\ raced \in BOOLEAN
    /\ up => conf
    /\ shaken => up

\* The clock and the ages on it.  Nothing is measured before the clock could be at its
\* farthest ahead, which is what bounds an age from below.
Aged ==
    /\ skew \in Skews
    /\ synced => skew = 0
    /\ age \in Ages(Threshold + 1) /\ age >= skew - Ahead
    /\ ~shaken => age = 0
    /\ sinceBounce \in Ages(Backoff) /\ sinceBounce >= skew - Ahead
    /\ sinceNtp \in Ages(NtpCooldown) /\ sinceNtp >= skew - Ahead
    /\ outage \in Ages(Guard + 1) /\ outage >= skew - Ahead

Bounded ==
    /\ consec \in Counts /\ saved \in Counts /\ strikes \in Counts
    /\ lull \in 0..Backoff /\ faults \in 0..MaxFaults

\* A tunnel that is stopped is not about to be bounced, unless the stop came since the
\* look that began the bounce.
Stopped ==
    /\ unit = "inactive" /\ (up \/ pc \in {"down", "up"}) => raced
    /\ unit = "missing" => ~up /\ pc \notin {"down", "up"}

\* Until the check of the tunnel a failed probe is of this very moment.
Offline == seen = "down" /\ pc \in {"ntp", "wg"} => outage = 0

\* The count the watchdog has, or will read back, is no smaller than the strikes.
Counted ==
    /\ pc \in {"down", "up", "reread"} => hydrated
    /\ ~lapse => Hydrated >= strikes

\* The clock shows no more time since the last bounce than has passed.
Rested == excuse = "none" => sinceBounce <= lull \/ lull = Backoff

Inv == Typed /\ Aged /\ Bounded /\ Stopped /\ Offline /\ Counted /\ Rested

----------------------------------------------------------------------------

LEMMA Types == TypeOK <=> Typed /\ Bounded /\ skew \in Skews /\ (synced => skew = 0)
                          /\ age \in Ages(Threshold + 1) /\ sinceBounce \in Ages(Backoff)
                          /\ sinceNtp \in Ages(NtpCooldown) /\ outage \in Ages(Guard + 1)
  BY DEF TypeOK, Typed, Bounded

\* An age that the clock takes along keeps its bounds.
LEMMA LaterAge ==
  ASSUME NEW n \in Nat, NEW a \in Ages(n), NEW s \in Skews, NEW t \in Skews,
         a >= s - Ahead
  PROVE  Later(a, t - s, n) \in Ages(n) /\ Later(a, t - s, n) >= t - Ahead
  BY ParametersAssumption DEF Later, Ages, Lasting, Skews

LEMMA OlderAge ==
  ASSUME NEW n \in Nat, NEW a \in Ages(n), NEW s \in Skews, a >= s - Ahead
  PROVE  Later(a, 1, n) \in Ages(n) /\ Later(a, 1, n) >= s - Ahead
  BY ParametersAssumption DEF Later, Ages, Lasting, Skews

\* A new age, and one that stands for ever.
LEMMA FirstAge ==
  ASSUME NEW n \in Nat, NEW s \in Skews
  PROVE  /\ 0 \in Ages(n) /\ 0 >= s - Ahead
         /\ Lasting(n) \in Ages(n) /\ Lasting(n) >= s - Ahead
  BY ParametersAssumption DEF Ages, Lasting, Skews

\* What the parameters are.
LEMMA Numbers ==
  /\ Threshold \in Nat /\ Threshold + 1 \in Nat /\ Backoff \in Nat /\ NtpCooldown \in Nat
  /\ Guard \in Nat /\ Guard + 1 \in Nat /\ Cooldown \in Nat /\ Fresh \in Nat
  /\ Ahead \in Nat /\ Behind \in Nat /\ MaxFaults \in Nat
  /\ MaxStrikes \in Nat \ {0} /\ MaxHydrated \in Nat
  /\ Cooldown <= Backoff /\ Fresh <= Threshold
  BY ParametersAssumption

LEMMA ZeroSkew == 0 \in Skews
  BY Numbers DEF Skews

\* Setting the clock.
LEMMA ClockSet ==
  ASSUME Aged, NEW s \in Skews, NEW last \in {0, sinceNtp}, SetClock(s, last)
  PROVE  /\ skew' = s
         /\ age' \in Ages(Threshold + 1) /\ age' >= s - Ahead
         /\ sinceBounce' \in Ages(Backoff) /\ sinceBounce' >= s - Ahead
         /\ sinceNtp' \in Ages(NtpCooldown) /\ sinceNtp' >= s - Ahead
         /\ outage' \in Ages(Guard + 1) /\ outage' >= s - Ahead
<1>1. skew' = s
  BY DEF SetClock
<1>2. /\ Later(age, s - skew, Threshold + 1) \in Ages(Threshold + 1)
      /\ Later(age, s - skew, Threshold + 1) >= s - Ahead
  BY LaterAge, Numbers DEF Aged
<1>3. /\ Later(sinceBounce, s - skew, Backoff) \in Ages(Backoff)
      /\ Later(sinceBounce, s - skew, Backoff) >= s - Ahead
  BY LaterAge, Numbers DEF Aged
<1>4. last \in Ages(NtpCooldown) /\ last >= skew - Ahead
  BY FirstAge, Numbers DEF Aged
<1>5. /\ Later(last, s - skew, NtpCooldown) \in Ages(NtpCooldown)
      /\ Later(last, s - skew, NtpCooldown) >= s - Ahead
  BY <1>4, LaterAge, Numbers DEF Aged
<1>6. /\ Later(outage, s - skew, Guard + 1) \in Ages(Guard + 1)
      /\ Later(outage, s - skew, Guard + 1) >= s - Ahead
  BY LaterAge, Numbers DEF Aged
<1>7. /\ 0 \in Ages(Threshold + 1) /\ 0 >= s - Ahead
  BY FirstAge, Numbers
<1>8. age' \in Ages(Threshold + 1) /\ age' >= s - Ahead
  BY <1>2, <1>7 DEF SetClock, Aged
<1>. QED
  BY <1>1, <1>3, <1>5, <1>6, <1>8 DEF SetClock

LEMMA InitInv == Init => Inv
<1>. SUFFICES ASSUME Init PROVE Inv
  OBVIOUS
<1>1. Typed
  BY DEF Init, Typed
<1>2. Aged
  BY FirstAge, Numbers DEF Init, Aged
<1>3. Bounded
  BY Numbers DEF Init, Bounded, Counts
<1>4. Stopped /\ Offline
  BY DEF Init, Stopped, Offline
<1>5. Counted
  BY Numbers DEF Init, Counted, Hydrated
<1>6. Rested
  BY DEF Init, Rested
<1>. QED
  BY <1>1, <1>2, <1>3, <1>4, <1>5, <1>6 DEF Inv

LEMMA FaultSpent == ASSUME Bounded, Fault \/ NoFault PROVE faults' \in 0..MaxFaults
  BY Numbers DEF Bounded, Fault, NoFault

LEMMA CountType == ASSUME NEW c \in Counts PROVE Count(c + 1) \in Counts /\ Count(c + 1) >= 0
  BY Numbers DEF Count, Counts

LEMMA CountGrows ==
  ASSUME NEW c \in Counts, NEW d \in Counts, c >= d
  PROVE  Count(c + 1) >= Count(d + 1)
  BY Numbers DEF Count, Counts

LEMMA HydratedType == ASSUME Bounded PROVE Hydrated \in Counts
  BY Numbers DEF Bounded, Hydrated, Counts

\* A failed probe is still of this moment when the clock was set to what it was, and
\* only a clock that is set forward makes the last bounce older.
LEMMA ClockTells ==
  ASSUME Aged, NEW s \in Skews, NEW last \in {0, sinceNtp}, SetClock(s, last)
  PROVE  /\ seen' = "down" => seen = "down" /\ outage' = outage
         /\ excuse' = "none" =>
               excuse = "none" /\ (\A l \in Int : sinceBounce <= l => sinceBounce' <= l)
<1>1. /\ skew \in Int /\ s \in Int /\ sinceBounce \in Int /\ outage \in Int
      /\ sinceBounce <= Lasting(Backoff) /\ outage <= Lasting(Guard + 1)
      /\ Lasting(Backoff) \in Int /\ Lasting(Guard + 1) \in Int
  BY Numbers DEF Aged, Skews, Ages, Lasting
<1>2. Later(outage, 0, Guard + 1) = outage
  BY <1>1 DEF Later
<1>3. s - skew = 0 => outage' = outage
  BY <1>2 DEF SetClock
<1>4. s - skew <= 0 => Later(sinceBounce, s - skew, Backoff) <= sinceBounce
  BY <1>1 DEF Later
<1>5. seen' = "down" => seen = "down" /\ s - skew = 0
  BY DEF SetClock
<1>6. excuse' = "none" => excuse = "none" /\ s - skew <= 0
  BY <1>1 DEF SetClock
<1>7. Later(sinceBounce, s - skew, Backoff) \in Int
  BY <1>1 DEF Later
<1>8. s - skew <= 0 => \A l \in Int : sinceBounce <= l => sinceBounce' <= l
  BY <1>1, <1>4, <1>7 DEF SetClock
<1>. QED
  BY <1>3, <1>5, <1>6, <1>8

LEMMA TypedInductive == ASSUME Inv, [Next]_vars PROVE Typed'
<1>. USE DEF Typed
<1>0. Typed
  BY DEF Inv
<1>1. CASE Tick
  BY <1>1, <1>0 DEF Tick, clock, tunnel, counter, Fault, NoFault
<1>2. CASE Synchronise
  BY <1>2, <1>0 DEF Synchronise, SetClock, clock, tunnel, counter, Fault, NoFault
<1>3. CASE ClockJumps
  <2>1. /\ synced' \in BOOLEAN /\ wedged' \in BOOLEAN /\ conf' \in BOOLEAN /\ up' \in BOOLEAN
        /\ shaken' \in BOOLEAN /\ raised' \in BOOLEAN /\ hydrated' \in BOOLEAN
        /\ lapse' \in BOOLEAN /\ raced' \in BOOLEAN
    BY <1>3, <1>0 DEF ClockJumps, SetClock, Daemons, clock, tunnel, counter, Fault, NoFault
  <2>2. (up' => conf') /\ (shaken' => up')
    BY <1>3, <1>0 DEF ClockJumps, SetClock, Daemons, clock, tunnel, counter, Fault, NoFault
  <2>. QED
    BY <1>3, <1>0, <2>1, <2>2 DEF ClockJumps, SetClock, Daemons, clock, tunnel, counter, Fault,
         NoFault
<1>4. CASE NetworkChanges
  BY <1>4, <1>0 DEF NetworkChanges, clock, tunnel, counter, Fault, NoFault
<1>5. CASE Handshake
  BY <1>5, <1>0 DEF Handshake, clock, tunnel, counter, Fault, NoFault
<1>6. CASE Probe
  BY <1>6, <1>0 DEF Probe, clock, tunnel, counter, Fault, NoFault
<1>7. CASE CheckNtp
  <2>1. /\ synced' \in BOOLEAN /\ wedged' \in BOOLEAN /\ conf' \in BOOLEAN /\ up' \in BOOLEAN
        /\ shaken' \in BOOLEAN /\ raised' \in BOOLEAN /\ hydrated' \in BOOLEAN
        /\ lapse' \in BOOLEAN /\ raced' \in BOOLEAN
    BY <1>7, <1>0 DEF CheckNtp, StepChrony, RestartTimesyncd, Corrected, SetClock, Daemons,
         clock, tunnel, counter, Fault, NoFault
  <2>2. (up' => conf') /\ (shaken' => up')
    BY <1>7, <1>0 DEF CheckNtp, StepChrony, RestartTimesyncd, Corrected, SetClock, Daemons,
         clock, tunnel, counter, Fault, NoFault
  <2>. QED
    BY <1>7, <1>0, <2>1, <2>2 DEF CheckNtp, StepChrony, RestartTimesyncd, Corrected, SetClock,
         Daemons, clock, tunnel, counter, Fault, NoFault
<1>8. CASE CheckTunnel
  <2>1. /\ synced' \in BOOLEAN /\ wedged' \in BOOLEAN /\ conf' \in BOOLEAN /\ up' \in BOOLEAN
        /\ shaken' \in BOOLEAN /\ raised' \in BOOLEAN /\ hydrated' \in BOOLEAN
        /\ lapse' \in BOOLEAN /\ raced' \in BOOLEAN
    BY <1>8, <1>0 DEF CheckTunnel, StatusFails, NothingToDo, Healthy, Postponed, Save,
         Witnessed, clock, tunnel, counter, Fault, NoFault
  <2>2. (up' => conf') /\ (shaken' => up')
    BY <1>8, <1>0 DEF CheckTunnel, StatusFails, NothingToDo, Healthy, Postponed, Save,
         Witnessed, clock, tunnel, counter, Fault, NoFault
  <2>. QED
    BY <1>8, <1>0, <2>1, <2>2 DEF CheckTunnel, StatusFails, NothingToDo, Healthy, Postponed,
         Save, Witnessed, clock, tunnel, counter, Fault, NoFault
<1>9. CASE Bounce
  BY <1>9, <1>0 DEF Bounce, Stale, clock, tunnel, counter, Fault, NoFault
<1>9a. CASE TakeDown
  <2>1. up' \in BOOLEAN /\ shaken' \in BOOLEAN
    BY <1>9a, <1>0 DEF TakeDown
  <2>2. (up' => conf') /\ (shaken' => up')
    BY <1>9a, <1>0 DEF TakeDown
  <2>. QED
    BY <1>9a, <1>0, <2>1, <2>2 DEF TakeDown, clock, tunnel, counter, Fault, NoFault
<1>10. CASE BringUp
  <2>1. /\ synced' \in BOOLEAN /\ wedged' \in BOOLEAN /\ conf' \in BOOLEAN /\ up' \in BOOLEAN
        /\ shaken' \in BOOLEAN /\ raised' \in BOOLEAN /\ hydrated' \in BOOLEAN
        /\ lapse' \in BOOLEAN /\ raced' \in BOOLEAN
    BY <1>10, <1>0 DEF BringUp, clock, tunnel, counter, Fault, NoFault
  <2>2. (up' => conf') /\ (shaken' => up')
    BY <1>10, <1>0 DEF BringUp, clock, tunnel, counter, Fault, NoFault
  <2>. QED
    BY <1>10, <1>0, <2>1, <2>2 DEF BringUp, clock, tunnel, counter, Fault, NoFault
<1>11. CASE Reread
  <2>1. /\ synced' \in BOOLEAN /\ wedged' \in BOOLEAN /\ conf' \in BOOLEAN /\ up' \in BOOLEAN
        /\ shaken' \in BOOLEAN /\ raised' \in BOOLEAN /\ hydrated' \in BOOLEAN
        /\ lapse' \in BOOLEAN /\ raced' \in BOOLEAN
    BY <1>11, <1>0 DEF Reread, Save, clock, tunnel, counter, Fault, NoFault
  <2>2. (up' => conf') /\ (shaken' => up')
    BY <1>11, <1>0 DEF Reread, Save, clock, tunnel, counter, Fault, NoFault
  <2>. QED
    BY <1>11, <1>0, <2>1, <2>2 DEF Reread, Save, clock, tunnel, counter, Fault, NoFault
<1>12. CASE Activate
  <2>1. /\ synced' \in BOOLEAN /\ wedged' \in BOOLEAN /\ conf' \in BOOLEAN /\ up' \in BOOLEAN
        /\ shaken' \in BOOLEAN /\ raised' \in BOOLEAN /\ hydrated' \in BOOLEAN
        /\ lapse' \in BOOLEAN /\ raced' \in BOOLEAN
    BY <1>12, <1>0 DEF Activate, StartUnit, clock, tunnel, counter, Fault, NoFault
  <2>2. (up' => conf') /\ (shaken' => up')
    BY <1>12, <1>0 DEF Activate, StartUnit, clock, tunnel, counter, Fault, NoFault
  <2>. QED
    BY <1>12, <1>0, <2>1, <2>2 DEF Activate, StartUnit, clock, tunnel, counter, Fault, NoFault
<1>13. CASE CheckHealth
  BY <1>13, <1>0 DEF CheckHealth, clock, tunnel, counter, Fault, NoFault
<1>14. CASE UnitRestarts
  <2>1. /\ synced' \in BOOLEAN /\ wedged' \in BOOLEAN /\ conf' \in BOOLEAN /\ up' \in BOOLEAN
        /\ shaken' \in BOOLEAN /\ raised' \in BOOLEAN /\ hydrated' \in BOOLEAN
        /\ lapse' \in BOOLEAN /\ raced' \in BOOLEAN
    BY <1>14, <1>0 DEF UnitRestarts, StartUnit, clock, tunnel, counter, Fault, NoFault
  <2>2. (up' => conf') /\ (shaken' => up')
    BY <1>14, <1>0 DEF UnitRestarts, StartUnit, clock, tunnel, counter, Fault, NoFault
  <2>. QED
    BY <1>14, <1>0, <2>1, <2>2 DEF UnitRestarts, StartUnit, clock, tunnel, counter, Fault,
         NoFault
<1>15. CASE OperatorStops
  <2>0. /\ conf' = (conf /\ "support" \notin reach) /\ raced' = (pc \in {"down", "up"})
        /\ up' = FALSE /\ shaken' = FALSE
    BY <1>15 DEF OperatorStops
  <2>a. raced' = TRUE \/ raced' = FALSE
    <3>1. CASE pc \in {"down", "up"}
      BY <2>0, <3>1
    <3>2. CASE pc \notin {"down", "up"}
      BY <2>0, <3>2
    <3>. QED
      BY <3>1, <3>2
  <2>b. conf' \in BOOLEAN
    BY <1>0, <2>0
  <2>1. conf' \in BOOLEAN /\ up' \in BOOLEAN /\ shaken' \in BOOLEAN /\ raced' \in BOOLEAN
    BY <2>0, <2>a, <2>b
  <2>2. ~up' /\ ~shaken' /\ unit' = "inactive" /\ UNCHANGED <<raised, hydrated, lapse>>
    BY <1>15 DEF OperatorStops, counter
  <2>3. UNCHANGED <<reach, synced, ntpd, wedged, pc, excuse, seen>>
    BY <1>15 DEF OperatorStops, clock
  <2>. QED
    BY <1>0, <2>1, <2>2, <2>3
<1>16. CASE Restart
  BY <1>16, <1>0 DEF Restart, NewProcess, clock, tunnel, counter, Fault, NoFault
<1>17. CASE Reboot
  BY <1>17, <1>0 DEF Reboot, NewProcess, clock, tunnel, counter, Fault, NoFault
<1>18. CASE UNCHANGED vars
  BY <1>18, <1>0 DEF vars, clock, tunnel, counter
<1>. QED
  BY <1>1, <1>2, <1>3, <1>4, <1>5, <1>6, <1>7, <1>8, <1>9, <1>9a, <1>10, <1>11, <1>12, <1>13,
       <1>14, <1>15, <1>16, <1>17, <1>18 DEF Next, Environment, Round, Checks, Service

LEMMA AgedInductive == ASSUME Inv, [Next]_vars PROVE Aged'
<1>. USE DEF Aged
<1>0. Aged /\ Typed
  BY DEF Inv
<1>1. CASE Tick
  BY <1>1, <1>0, OlderAge, Numbers DEF Tick, Typed, clock, tunnel, counter, Fault, NoFault
<1>2. CASE Synchronise
  BY <1>2, <1>0, ClockSet, ZeroSkew DEF Synchronise, SetClock, clock, tunnel, counter,
       Fault, NoFault
<1>3. CASE ClockJumps
  BY <1>3, <1>0, ClockSet DEF ClockJumps, SetClock, clock, tunnel, counter, Fault, NoFault
<1>4. CASE Handshake
  BY <1>4, <1>0, FirstAge, Numbers DEF Handshake, clock, tunnel, counter, Fault, NoFault
<1>5. CASE Probe
  BY <1>5, <1>0, FirstAge, Numbers DEF Probe, clock, tunnel, counter, Fault, NoFault
<1>6. CASE CheckNtp
  BY <1>6, <1>0, ClockSet, ZeroSkew, FirstAge, Numbers DEF CheckNtp, StepChrony,
       RestartTimesyncd, Corrected, SetClock, clock, tunnel, counter, Fault, NoFault
<1>7. CASE Bounce
  BY <1>7, <1>0, FirstAge, Numbers DEF Bounce, Stale, clock, tunnel, counter, Fault, NoFault
<1>7a. CASE TakeDown
  BY <1>7a, <1>0, FirstAge, Numbers DEF TakeDown, clock, tunnel, counter, Fault, NoFault
<1>8. CASE OperatorStops
  BY <1>8, <1>0, FirstAge, Numbers DEF OperatorStops, clock, tunnel, counter, Fault, NoFault
<1>9. CASE Restart
  BY <1>9, <1>0, FirstAge, Numbers DEF Restart, NewProcess, clock, tunnel, counter, Fault,
       NoFault
<1>10. CASE Reboot
  BY <1>10, <1>0, FirstAge, Numbers DEF Reboot, NewProcess, clock, tunnel, counter, Fault,
       NoFault
<1>11. CASE \/ NetworkChanges \/ CheckTunnel \/ BringUp \/ Reread \/ Activate \/ CheckHealth
           \/ UnitRestarts
  BY <1>11, <1>0 DEF NetworkChanges, CheckTunnel, StatusFails, NothingToDo, Healthy,
       Postponed, Save, Witnessed, BringUp, Reread, Activate, StartUnit, CheckHealth,
       UnitRestarts, clock, tunnel, counter, Fault, NoFault
<1>12. CASE UNCHANGED vars
  BY <1>12, <1>0 DEF vars, clock, tunnel, counter
<1>. QED
  BY <1>1, <1>2, <1>3, <1>4, <1>5, <1>6, <1>7, <1>7a, <1>8, <1>9, <1>10, <1>11, <1>12 DEF Next,
       Environment, Round, Checks, Service

LEMMA BoundedInductive == ASSUME Inv, [Next]_vars PROVE Bounded'
<1>. USE DEF Bounded
<1>0. Bounded
  BY DEF Inv
<1>1. CASE Tick
  BY <1>1, <1>0, Numbers DEF Tick, Bounded, clock, tunnel, counter, Fault, NoFault
<1>2. CASE ClockJumps
  BY <1>2, <1>0, FaultSpent DEF ClockJumps, Bounded, clock, tunnel, counter, Fault, NoFault
<1>3. CASE Probe
  BY <1>3, <1>0, FaultSpent DEF Probe, Bounded, clock, tunnel, counter, Fault, NoFault
<1>4. CASE CheckNtp
  BY <1>4, <1>0, FaultSpent DEF CheckNtp, StepChrony, RestartTimesyncd, Corrected, Bounded,
       clock, tunnel, counter, Fault, NoFault
<1>5. CASE CheckTunnel
  BY <1>5, <1>0, FaultSpent, HydratedType, Numbers DEF CheckTunnel, StatusFails,
       NothingToDo, Healthy, Postponed, Save, Witnessed, Bounded, Counts, clock, tunnel,
       counter, Fault, NoFault
<1>6. CASE Bounce
  <2>1. Hydrated \in Counts /\ 0 \in 0..Backoff
    BY <1>0, HydratedType, Numbers
  <2>. QED
    BY <1>6, <1>0, <2>1, FaultSpent DEF Bounce, clock, tunnel, counter, Fault, NoFault
<1>6a. CASE TakeDown
  BY <1>6a, <1>0, FaultSpent DEF TakeDown, clock, tunnel, counter, Fault, NoFault
<1>7. CASE BringUp
  BY <1>7, <1>0, FaultSpent DEF BringUp, Bounded, clock, tunnel, counter, Fault, NoFault
<1>8. CASE Reread
  BY <1>8, <1>0, FaultSpent, CountType, Numbers DEF Reread, Save, Bounded, Counts, clock,
       tunnel, counter, Fault, NoFault
<1>9. CASE Activate
  BY <1>9, <1>0, FaultSpent DEF Activate, StartUnit, Bounded, clock, tunnel, counter, Fault,
       NoFault
<1>10. CASE UnitRestarts
  BY <1>10, <1>0, FaultSpent DEF UnitRestarts, StartUnit, Bounded, clock, tunnel, counter,
       Fault, NoFault
<1>11. CASE Restart
  BY <1>11, <1>0, FaultSpent, Numbers DEF Restart, NewProcess, Bounded, Counts, clock,
       tunnel, counter, Fault, NoFault
<1>12. CASE Reboot
  BY <1>12, <1>0, FaultSpent, Numbers DEF Reboot, NewProcess, Bounded, Counts, clock,
       tunnel, counter, Fault, NoFault
<1>13. CASE Synchronise \/ NetworkChanges \/ Handshake \/ CheckHealth \/ OperatorStops
  BY <1>13, <1>0 DEF Synchronise, NetworkChanges, Handshake, CheckHealth, OperatorStops,
       clock, tunnel, counter, Fault, NoFault
<1>14. CASE UNCHANGED vars
  BY <1>14, <1>0 DEF vars, clock, tunnel, counter
<1>. QED
  BY <1>1, <1>2, <1>3, <1>4, <1>5, <1>6, <1>6a, <1>7, <1>8, <1>9, <1>10, <1>11, <1>12, <1>13, <1>14
       DEF Next, Environment, Round, Checks, Service

LEMMA StoppedInductive == ASSUME Inv, [Next]_vars PROVE Stopped'
<1>. USE DEF Stopped
<1>0. Stopped /\ Typed
  BY DEF Inv
<1>1. CASE Tick
  BY <1>1, <1>0 DEF Tick, clock, tunnel, counter, Fault, NoFault
<1>2. CASE Synchronise
  BY <1>2, <1>0 DEF Synchronise, clock, tunnel, counter, Fault, NoFault
<1>3. CASE ClockJumps
  BY <1>3, <1>0 DEF ClockJumps, clock, tunnel, counter, Fault, NoFault
<1>4. CASE NetworkChanges
  BY <1>4, <1>0 DEF NetworkChanges, clock, tunnel, counter, Fault, NoFault
<1>5. CASE Handshake
  BY <1>5, <1>0 DEF Handshake, clock, tunnel, counter, Fault, NoFault
<1>6. CASE Probe
  BY <1>6, <1>0 DEF Probe, clock, tunnel, counter, Fault, NoFault
<1>7. CASE CheckNtp
  BY <1>7, <1>0 DEF CheckNtp, StepChrony, RestartTimesyncd, Corrected, clock, tunnel,
       counter, Fault, NoFault
<1>8. CASE CheckTunnel
  BY <1>8, <1>0 DEF CheckTunnel, StatusFails, NothingToDo, Healthy, Postponed, Save,
       Witnessed, clock, tunnel, counter, Fault, NoFault
<1>9. CASE Bounce
  BY <1>9, <1>0 DEF Bounce, Stale, clock, tunnel, counter, Fault, NoFault
<1>9a. CASE TakeDown
  BY <1>9a, <1>0 DEF TakeDown, clock, tunnel, counter, Fault, NoFault
<1>10. CASE BringUp
  BY <1>10, <1>0 DEF BringUp, Typed, clock, tunnel, counter, Fault, NoFault
<1>11. CASE Reread
  BY <1>11, <1>0 DEF Reread, Save, clock, tunnel, counter, Fault, NoFault
<1>12. CASE Activate
  BY <1>12, <1>0 DEF Activate, StartUnit, clock, tunnel, counter, Fault, NoFault
<1>13. CASE CheckHealth
  BY <1>13, <1>0 DEF CheckHealth, clock, tunnel, counter, Fault, NoFault
<1>14. CASE UnitRestarts
  BY <1>14, <1>0 DEF UnitRestarts, StartUnit, clock, tunnel, counter, Fault, NoFault
<1>15. CASE OperatorStops
  BY <1>15, <1>0 DEF OperatorStops, clock, tunnel, counter, Fault, NoFault
<1>16. CASE Restart
  BY <1>16, <1>0 DEF Restart, NewProcess, clock, tunnel, counter, Fault, NoFault
<1>17. CASE Reboot
  BY <1>17, <1>0 DEF Reboot, NewProcess, clock, tunnel, counter, Fault, NoFault
<1>18. CASE UNCHANGED vars
  BY <1>18, <1>0 DEF vars, clock, tunnel, counter
<1>. QED
  BY <1>1, <1>2, <1>3, <1>4, <1>5, <1>6, <1>7, <1>8, <1>9, <1>9a, <1>10, <1>11, <1>12, <1>13,
       <1>14, <1>15, <1>16, <1>17, <1>18 DEF Next, Environment, Round, Checks, Service

LEMMA OfflineInductive == ASSUME Inv, [Next]_vars PROVE Offline'
<1>. USE DEF Offline
<1>0. Offline /\ Aged
  BY DEF Inv
<1>1. CASE Tick
  BY <1>1, <1>0 DEF Tick, clock, tunnel, counter, Fault, NoFault
<1>2. CASE Synchronise
  BY <1>2, <1>0, ZeroSkew, ClockTells DEF Synchronise, clock, tunnel, counter, Fault,
       NoFault
<1>3. CASE ClockJumps
  BY <1>3, <1>0, ClockTells DEF ClockJumps, clock, tunnel, counter, Fault, NoFault
<1>4. CASE Probe
  BY <1>4, <1>0 DEF Probe, clock, tunnel, counter, Fault, NoFault
<1>5. CASE CheckNtp
  BY <1>5, <1>0, ZeroSkew, ClockTells DEF CheckNtp, StepChrony, RestartTimesyncd, Corrected,
       clock, tunnel, counter, Fault, NoFault
<1>6. CASE CheckTunnel
  BY <1>6, <1>0 DEF CheckTunnel, StatusFails, NothingToDo, Healthy, Postponed, Save,
       Witnessed, clock, tunnel, counter, Fault, NoFault
<1>7. CASE Bounce
  BY <1>7, <1>0 DEF Bounce, Stale, clock, tunnel, counter, Fault, NoFault
<1>7a. CASE TakeDown
  BY <1>7a, <1>0 DEF TakeDown, clock, tunnel, counter, Fault, NoFault
<1>8. CASE Restart
  BY <1>8, <1>0 DEF Restart, NewProcess, clock, tunnel, counter, Fault, NoFault
<1>9. CASE Reboot
  BY <1>9, <1>0 DEF Reboot, NewProcess, clock, tunnel, counter, Fault, NoFault
<1>10. CASE \/ NetworkChanges \/ Handshake \/ BringUp \/ Reread \/ Activate \/ CheckHealth
           \/ UnitRestarts \/ OperatorStops
  BY <1>10, <1>0 DEF NetworkChanges, Handshake, BringUp, Reread, Save, Activate, StartUnit,
       CheckHealth, UnitRestarts, OperatorStops, clock, tunnel, counter, Fault, NoFault
<1>11. CASE UNCHANGED vars
  BY <1>11, <1>0 DEF vars, clock, tunnel, counter
<1>. QED
  BY <1>1, <1>2, <1>3, <1>4, <1>5, <1>6, <1>7, <1>7a, <1>8, <1>9, <1>10, <1>11 DEF Next,
       Environment, Round, Checks, Service

LEMMA CountedInductive == ASSUME Inv, [Next]_vars PROVE Counted'
<1>. USE DEF Counted, Hydrated
<1>0. Counted /\ Bounded
  BY DEF Inv
<1>1. CASE Tick
  BY <1>1, <1>0 DEF Tick, clock, tunnel, counter, Fault, NoFault
<1>2. CASE Synchronise
  BY <1>2, <1>0 DEF Synchronise, clock, tunnel, counter, Fault, NoFault
<1>3. CASE ClockJumps
  BY <1>3, <1>0 DEF ClockJumps, clock, tunnel, counter, Fault, NoFault
<1>4. CASE NetworkChanges
  BY <1>4, <1>0 DEF NetworkChanges, clock, tunnel, counter, Fault, NoFault
<1>5. CASE Handshake
  BY <1>5, <1>0 DEF Handshake, clock, tunnel, counter, Fault, NoFault
<1>6. CASE Probe
  BY <1>6, <1>0 DEF Probe, clock, tunnel, counter, Fault, NoFault
<1>7. CASE CheckNtp
  BY <1>7, <1>0 DEF CheckNtp, StepChrony, RestartTimesyncd, Corrected, clock, tunnel,
       counter, Fault, NoFault
<1>8. CASE CheckTunnel
  <2>1. Hydrated \in Counts /\ strikes \in Counts
    BY <1>0, HydratedType DEF Bounded
  <2>2. pc' = "idle" /\ hydrated' = TRUE
    BY <1>8 DEF CheckTunnel, StatusFails, NothingToDo, Healthy, Postponed, Save
  <2>3. CASE StatusFails
    BY <1>0, <2>1, <2>2, <2>3 DEF StatusFails
  <2>4. CASE NothingToDo \/ Healthy \/ Postponed
    <3>1. consec' \in {Hydrated, 0} /\ (consec' = Hydrated \/ Working)
      BY <2>4, Numbers DEF NothingToDo, Healthy, Postponed, Save, Working
    <3>2. /\ strikes' = IF Working THEN 0 ELSE strikes
          /\ ~lapse' => ~lapse \/ Working
      BY <2>4 DEF NothingToDo, Healthy, Postponed, Witnessed
    <3>. QED
      BY <1>0, <2>1, <2>2, <3>1, <3>2, Numbers DEF Counts
  <2>. QED
    BY <1>8, <2>3, <2>4 DEF CheckTunnel
<1>9. CASE Bounce
  BY <1>9, <1>0, Numbers DEF Bounce, Stale, Bounded, Counts, clock, tunnel, counter, Fault,
       NoFault
<1>9a. CASE TakeDown
  BY <1>9a, <1>0 DEF TakeDown, clock, tunnel, counter, Fault, NoFault
<1>10. CASE BringUp
  BY <1>10, <1>0 DEF BringUp, clock, tunnel, counter, Fault, NoFault
<1>11. CASE Reread
  <2>1. /\ hydrated /\ consec \in Counts /\ strikes \in Counts
        /\ ~lapse => consec >= strikes
    BY <1>11, <1>0 DEF Reread, Bounded
  <2>2. /\ Count(consec + 1) \in Counts /\ Count(consec + 1) >= 0
        /\ ~lapse => Count(consec + 1) >= Count(strikes + 1)
    BY <2>1, CountType, CountGrows
  <2>3. pc' = "idle" /\ hydrated' = TRUE
    BY <1>11 DEF Reread, Save
  <2>4. \/ /\ consec' = IF Recovered THEN 0 ELSE Count(consec + 1)
           /\ strikes' = IF Working THEN 0 ELSE Count(strikes + 1)
           /\ ~lapse' => ~lapse \/ Working
        \/ /\ consec' = Count(consec + 1) /\ strikes' = Count(strikes + 1)
           /\ lapse' = lapse
    BY <1>11 DEF Reread, Save
  <2>5. Recovered => Working
    BY DEF Recovered
  <2>. QED
    BY <2>2, <2>3, <2>4, <2>5
<1>12. CASE Activate
  BY <1>12, <1>0 DEF Activate, StartUnit, clock, tunnel, counter, Fault, NoFault
<1>13. CASE CheckHealth
  BY <1>13, <1>0 DEF CheckHealth, clock, tunnel, counter, Fault, NoFault
<1>14. CASE UnitRestarts
  BY <1>14, <1>0 DEF UnitRestarts, StartUnit, clock, tunnel, counter, Fault, NoFault
<1>15. CASE OperatorStops
  BY <1>15, <1>0 DEF OperatorStops, clock, tunnel, counter, Fault, NoFault
<1>16. CASE Restart
  <2>1. ~lapse' => saved >= strikes /\ saved <= MaxHydrated
    <3>1. ~lapse' => ~(saved < strikes) /\ ~(saved > MaxHydrated)
      BY <1>16 DEF Restart
    <3>. QED
      BY <3>1, <1>0, Numbers DEF Bounded, Counts
  <2>2. saved' = saved /\ strikes' = strikes /\ hydrated' = FALSE /\ pc' = "idle"
    BY <1>16 DEF Restart, NewProcess
  <2>. QED
    BY <2>1, <2>2
<1>17. CASE Reboot
  BY <1>17, <1>0, Numbers DEF Reboot, NewProcess, Bounded, Counts, clock, tunnel, counter,
       Fault, NoFault
<1>18. CASE UNCHANGED vars
  BY <1>18, <1>0 DEF vars, clock, tunnel, counter
<1>. QED
  BY <1>1, <1>2, <1>3, <1>4, <1>5, <1>6, <1>7, <1>8, <1>9, <1>9a, <1>10, <1>11, <1>12, <1>13,
       <1>14, <1>15, <1>16, <1>17, <1>18 DEF Next, Environment, Round, Checks, Service

LEMMA RestedInductive == ASSUME Inv, [Next]_vars PROVE Rested'
<1>. USE DEF Rested
<1>0. Rested /\ Aged /\ Bounded
  BY DEF Inv
<1>1. CASE Tick
  BY <1>1, <1>0, Numbers DEF Tick, Bounded, Aged, Ages, Lasting, Later, clock, tunnel,
       counter, Fault, NoFault
<1>2. CASE Synchronise
  BY <1>2, <1>0, ZeroSkew, ClockTells DEF Synchronise, Bounded, Aged, Ages, Lasting, clock,
       tunnel, counter, Fault, NoFault
<1>3. CASE ClockJumps
  BY <1>3, <1>0, ClockTells DEF ClockJumps, Bounded, Aged, Ages, Lasting, clock, tunnel,
       counter, Fault, NoFault
<1>4. CASE CheckNtp
  BY <1>4, <1>0, ZeroSkew, ClockTells, Numbers DEF CheckNtp, StepChrony, RestartTimesyncd,
       Corrected, Bounded, Aged, Ages, Lasting, clock, tunnel, counter, Fault, NoFault
<1>5. CASE Bounce
  BY <1>5, <1>0, Numbers DEF Bounce, Stale, clock, tunnel, counter, Fault, NoFault
<1>5a. CASE TakeDown
  BY <1>5a, <1>0 DEF TakeDown, clock, tunnel, counter, Fault, NoFault
<1>6. CASE Restart
  BY <1>6, <1>0 DEF Restart, NewProcess, clock, tunnel, counter, Fault, NoFault
<1>7. CASE Reboot
  BY <1>7, <1>0 DEF Reboot, NewProcess, clock, tunnel, counter, Fault, NoFault
<1>8. CASE \/ NetworkChanges \/ Handshake \/ Probe \/ CheckTunnel \/ BringUp \/ Reread
           \/ Activate \/ CheckHealth \/ UnitRestarts \/ OperatorStops
  BY <1>8, <1>0 DEF NetworkChanges, Handshake, Probe, CheckTunnel, StatusFails, NothingToDo,
       Healthy, Postponed, Save, Witnessed, BringUp, Reread, Activate, StartUnit,
       CheckHealth, UnitRestarts, OperatorStops, clock, tunnel, counter, Fault, NoFault
<1>9. CASE UNCHANGED vars
  BY <1>9, <1>0 DEF vars, clock, tunnel, counter
<1>. QED
  BY <1>1, <1>2, <1>3, <1>4, <1>5, <1>5a, <1>6, <1>7, <1>8, <1>9 DEF Next, Environment, Round, Checks,
       Service

LEMMA Invariance == Spec => []Inv
<1>1. Inv /\ [Next]_vars => Inv'
  BY TypedInductive, AgedInductive, BoundedInductive, StoppedInductive, OfflineInductive,
     CountedInductive, RestedInductive DEF Inv
<1>. QED
  BY InitInv, <1>1, PTL DEF Spec

\* The variables have their types however the clock is set: no age leaves its range.
THEOREM TypeCorrect == Spec => []TypeOK
<1>1. Inv => TypeOK
  BY Types DEF Inv, Aged
<1>. QED
  BY <1>1, Invariance, PTL

\* A tunnel that was stopped stays down, unless the stop came between the look at it and
\* the wg-quick up of a bounce.
THEOREM StoppedTunnelsStayDown == Spec => []StoppedStaysDown
<1>1. Inv => StoppedStaysDown
  BY DEF Inv, Stopped, StoppedStaysDown
<1>. QED
  BY <1>1, Invariance, PTL

\* No step but Bounce leads from the check of the tunnel into a bounce.
LEMMA BounceStep ==
  ASSUME Inv, [Next]_vars, pc = "wg", pc' = "down"
  PROVE  Bounce
<1>1. CASE Environment \/ Service
  BY <1>1 DEF Environment, Service, Tick, Synchronise, ClockJumps, NetworkChanges, Handshake,
     Activate, CheckHealth, UnitRestarts, OperatorStops, tunnel, counter
<1>2. CASE Probe \/ CheckNtp \/ CheckTunnel \/ TakeDown \/ BringUp \/ Reread \/ Restart
          \/ Reboot
  BY <1>2 DEF Probe, CheckNtp, CheckTunnel, TakeDown, BringUp, Reread, Restart, Reboot, NewProcess
<1>3. CASE UNCHANGED vars
  BY <1>3 DEF vars
<1>. QED
  BY <1>1, <1>2, <1>3 DEF Next, Round, Checks

\* The watchdog does not bounce a tunnel right after the discovery service was out of
\* reach.
THEOREM OnlineBouncesOnly == Spec => NoBounceOffline
<1>1. ASSUME Inv, [Next]_vars, pc = "wg", pc' = "down" PROVE seen # "down"
  <2>1. Bounce
    BY <1>1, BounceStep
  <2>2. ~(outage \in 0..Guard) /\ pc = "wg"
    BY <2>1 DEF Bounce, InternetLikelyDown
  <2>3. 0 \in 0..Guard
    BY Numbers
  <2>. QED
    BY <1>1, <2>2, <2>3 DEF Inv, Offline
<1>2. Inv /\ [Next]_vars => [pc = "wg" /\ pc' = "down" => seen # "down"]_vars
  BY <1>1
<1>. QED
  BY <1>2, Invariance, PTL DEF Spec, NoBounceOffline

\* Between two bounces the cooldown passes, and the long back-off once MaxStrikes of
\* them have failed, unless the watchdog was restarted, the clock set forward, or the
\* count lost.
THEOREM BouncesAreSpaced == Spec => BackoffKept
<1>1. ASSUME Inv, [Next]_vars, pc = "wg", pc' = "down"
      PROVE  excuse # "none" \/ lapse \/ lull >= Required
  <2>1. Due
    BY <1>1, BounceStep DEF Bounce
  <2>2. /\ Hydrated \in Nat /\ strikes \in Nat /\ lull \in Nat /\ sinceBounce \in Int
    BY <1>1, HydratedType, Numbers DEF Inv, Bounded, Aged, Counts, Ages, Lasting
  <2>3. ~lapse => sinceBounce >= Required
    BY <1>1, <2>1, <2>2, Numbers DEF Inv, Counted, Due, Required
  <2>4. Required \in Nat /\ Required <= Backoff
    BY Numbers DEF Required
  <2>. QED
    BY <1>1, <2>2, <2>3, <2>4 DEF Inv, Rested
<1>2. Inv /\ [Next]_vars
         => [pc = "wg" /\ pc' = "down" => excuse # "none" \/ lapse \/ lull >= Required]_vars
  BY <1>1
<1>. QED
  BY <1>2, Invariance, PTL DEF Spec, BackoffKept

----------------------------------------------------------------------------
(* How far the watchdog's idea of the last bounce can be behind            *)

\* The clock shows as much time since the last bounce as has passed, less what the clock
\* has gone back from its farthest ahead.
Waited == sinceBounce >= lull + skew - Ahead

\* Setting the clock moves the age as it moves the skew.
LEMMA ClockWaits ==
  ASSUME Aged, Bounded, Waited, lull' = lull,
         NEW s \in Skews, NEW last \in {0, sinceNtp}, SetClock(s, last)
  PROVE  Waited'
<1>1. /\ skew \in Int /\ s \in Int /\ sinceBounce \in Int /\ lull \in Int
      /\ lull <= Backoff /\ s <= Ahead
  BY Numbers DEF Aged, Bounded, Skews, Ages, Lasting
<1>2. skew' = s /\ sinceBounce' = Later(sinceBounce, s - skew, Backoff)
  BY DEF SetClock
<1>3. Later(sinceBounce, s - skew, Backoff) >= lull + s - Ahead
  BY <1>1, Numbers DEF Later, Lasting, Waited
<1>. QED
  BY <1>2, <1>3 DEF Waited

LEMMA WaitedNext == ASSUME Inv, Waited, [Next]_vars PROVE Waited'
<1>0. Aged /\ Bounded
  BY DEF Inv
<1>a. skew \in Int /\ skew <= Ahead /\ lull \in Int /\ lull <= Backoff /\ sinceBounce \in Int
  BY <1>0, Numbers DEF Aged, Bounded, Skews, Ages, Lasting
<1>1. CASE Tick
  BY <1>1, <1>a, Numbers DEF Tick, Waited, Later, Lasting, clock
<1>2. CASE Synchronise
  BY <1>2, <1>0, ZeroSkew, ClockWaits DEF Synchronise
<1>3. CASE ClockJumps
  BY <1>3, <1>0, ClockWaits DEF ClockJumps
<1>4. CASE CheckNtp
  <2>1. ASSUME NEW able, Corrected(able) PROVE Waited'
    BY <1>4, <2>1, <1>0, ZeroSkew, ClockWaits DEF CheckNtp, Corrected, Waited
  <2>. QED
    BY <1>4, <2>1 DEF CheckNtp, StepChrony, RestartTimesyncd, clock, Waited
<1>5. CASE Bounce
  BY <1>5, <1>a, Numbers DEF Bounce, Waited, clock
<1>5a. CASE TakeDown
  BY <1>5a DEF TakeDown, Waited, clock
<1>6. CASE Restart
  BY <1>6, <1>a, Numbers DEF Restart, NewProcess, Waited, Lasting, clock
<1>7. CASE Reboot
  <2>1. PICK s \in Skews : skew' = s
    BY <1>7 DEF Reboot
  <2>2. s \in Int /\ s <= Ahead
    BY Numbers DEF Skews
  <2>3. Backoff + Behind + Ahead >= Backoff + s - Ahead
    BY <2>2, Numbers
  <2>4. lull' = Backoff /\ sinceBounce' = Backoff + Behind + Ahead
    BY <1>7 DEF Reboot, NewProcess, Lasting
  <2>. QED
    BY <2>1, <2>3, <2>4 DEF Waited
<1>8. CASE \/ NetworkChanges \/ Handshake \/ Probe \/ CheckTunnel \/ BringUp \/ Reread
           \/ Activate \/ CheckHealth \/ UnitRestarts \/ OperatorStops
  BY <1>8 DEF NetworkChanges, Handshake, Probe, CheckTunnel, BringUp, Reread, Activate,
       CheckHealth, UnitRestarts, OperatorStops, Waited, clock
<1>9. CASE UNCHANGED vars
  BY <1>9 DEF vars, clock, Waited
<1>. QED
  BY <1>1, <1>2, <1>3, <1>4, <1>5, <1>5a, <1>6, <1>7, <1>8, <1>9 DEF Next, Environment, Round, Checks,
       Service

\* However often the clock is set, by whatever amount within its bounds, and however often
\* the process starts again: a bounce is held off by no more than the clock can be wrong.
THEOREM WaitsAreBounded == Spec => []WaitIsBounded
<1>1. Init => Waited
  BY Numbers DEF Init, Waited, Lasting, Skews
<1>2. Inv /\ Waited /\ [Next]_vars => Waited'
  BY WaitedNext
<1>3. Inv /\ Waited => WaitIsBounded
  BY Numbers DEF Inv, Aged, Bounded, Skews, Ages, Lasting, Waited, WaitIsBounded
<1>. QED
  BY <1>1, <1>2, <1>3, Invariance, PTL DEF Spec

=============================================================================

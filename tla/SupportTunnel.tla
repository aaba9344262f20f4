---------------------------- MODULE SupportTunnel ----------------------------
(***************************************************************************)
(* What the readiness watchdog does for the WireGuard support tunnel and   *)
(* for the clock, one after the other in each of its rounds: it probes the *)
(* discovery service, has the clock corrected, and bounces a tunnel whose  *)
(* last handshake is old.                                                  *)
(*                                                                         *)
(* Every delay is measured with the wall clock, which the second of the    *)
(* three checks, the time daemon, a boot and an operator set.  A duration  *)
(* is therefore an age on the wall clock, and setting the clock by d makes *)
(* every age longer by d.  Ages are exact as far as the code can tell them *)
(* apart: an age of Lasting(n) is at least n however the clock is set.      *)
(*                                                                         *)
(* WireGuard, systemd, the time daemon and the network are external.       *)
(***************************************************************************)
EXTENDS Integers, FiniteSets

CONSTANTS
    Threshold,    \* age of a handshake that is no longer healthy, in ticks
    Fresh,        \* fresh_window: the age that proves the tunnel works
    Cooldown,     \* WG_BOUNCE_COOLDOWN_SEC
    Backoff,      \* WG_BOUNCE_BACKOFF_SEC
    MaxStrikes,   \* WG_BOUNCE_MAX_CONSEC_FAIL
    MaxHydrated,  \* the largest consec_failures that is read back, 100 in the code
    Guard,        \* WG_INTERNET_GUARD_WINDOW_SEC
    NtpCooldown,  \* NTP_CORRECT_COOLDOWN_SEC
    Weather,      \* the sets of hosts that can be in reach at the same time
    Behind,       \* bound: how far the clock can be behind
    Ahead,        \* bound: how far it can be ahead
    MaxFaults     \* bound: failed calls and writes, crashes, boots, set clocks

Hosts == {"discovery", "time", "support"}

ASSUME ParametersAssumption ==
    /\ {Threshold, Fresh, Cooldown, Backoff, Guard, NtpCooldown, Behind, Ahead, MaxFaults}
          \subseteq Nat
    /\ Weather \subseteq SUBSET Hosts
    /\ Fresh <= Threshold
    /\ Cooldown <= Backoff
    /\ MaxStrikes \in Nat \ {0}
    /\ MaxHydrated \in Nat /\ MaxStrikes <= MaxHydrated

Daemons == {"chronyd", "systemd-timesyncd", "none"}
Skews   == (0 - Behind)..Ahead

Lasting(n) == n + Behind + Ahead
Ages(n)    == (0 - Behind - Ahead)..Lasting(n)

\* An age a, later by d on the wall clock.
Later(a, d, n) == IF a + d > Lasting(n) THEN Lasting(n) ELSE a + d

\* The count of failed bounces; what exceeds MaxHydrated is all the same.
Counts   == 0..(MaxHydrated + 1)
Count(c) == IF c > MaxHydrated + 1 THEN MaxHydrated + 1 ELSE c

VARIABLES
    reach,        \* the hosts that answer
    skew,         \* wall clock minus time
    synced,       \* NTPSynchronized
    ntpd,         \* the time daemon that runs
    wedged,       \* it runs and no longer moves the clock
    unit,         \* wireguard-support.service: "missing" before install.sh
    conf,         \* support.conf and registration.state exist
    up,           \* the interface exists
    shaken,       \* it has had a handshake
    age,          \* last_handshake_age_sec
    \* the watchdog
    pc,           \* where its round is
    raised,       \* bounce_attempt_ok
    consec,       \* _consec_wg_bounce_failures
    hydrated,     \* _wg_counter_hydrated
    sinceBounce,  \* time.time() - _last_wg_bounce_attempt
    sinceNtp,     \* time.time() - _last_ntp_correct_attempt
    \* files in /run
    saved,        \* consec_failures in fula-wireguard.state; 0 when absent
    outage,       \* age of a failed probe in fula-discovery.state; old when there is none
    \* bookkeeping
    strikes,      \* bounces of this boot that failed since the tunnel was seen fresh
    lapse,        \* a restart could not read that number back
    lull,         \* time since the last bounce of this boot
    excuse,       \* what happened since: "restart", or the "clock" was set forward
    seen,         \* what the last probe saw: "up", "down", or "unsure" of its record
    raced,        \* the operator stopped the tunnel between the look that found it stale
                  \* and the wg-quick up of a bounce
    faults        \* failures still allowed

clock    == <<skew, synced, ntpd, wedged>>
tunnel   == <<unit, conf, up, shaken>>
counter  == <<consec, hydrated, saved, strikes, lapse>>
vars     == <<reach, clock, tunnel, age, pc, raised, counter, sinceBounce, sinceNtp,
              outage, lull, excuse, seen, raced, faults>>

Fault   == faults > 0 /\ faults' = faults - 1
NoFault == UNCHANGED faults

Init ==
    /\ reach \in Weather /\ skew \in Skews /\ synced = FALSE
    /\ ntpd \in Daemons /\ wedged = FALSE
    /\ unit \in {"missing", "inactive"} /\ conf = FALSE /\ up = FALSE /\ shaken = FALSE /\ age = 0
    /\ pc = "idle" /\ raised = FALSE /\ consec = 0 /\ hydrated = FALSE
    /\ sinceBounce = Lasting(Backoff) /\ sinceNtp = Lasting(NtpCooldown)
    /\ saved = 0 /\ outage = Lasting(Guard + 1)
    /\ strikes = 0 /\ lapse = FALSE /\ lull = Backoff /\ excuse = "none"
    /\ seen = "unsure" /\ raced = FALSE
    /\ faults = MaxFaults

----------------------------------------------------------------------------
(* Time, clock, network                                                    *)

Tick ==
    /\ pc = "idle"
    /\ age' = IF shaken THEN Later(age, 1, Threshold + 1) ELSE age
    /\ sinceBounce' = Later(sinceBounce, 1, Backoff)
    /\ sinceNtp' = Later(sinceNtp, 1, NtpCooldown)
    /\ outage' = Later(outage, 1, Guard + 1)
    /\ lull' = IF lull < Backoff THEN lull + 1 ELSE lull
    /\ UNCHANGED <<reach, clock, tunnel, pc, raised, counter, excuse, seen, raced, faults>>

\* The clock is set to skew s; the last correction is as old as last.
SetClock(s, last) ==
    LET d == s - skew
    IN  /\ skew' = s
        /\ age' = IF shaken THEN Later(age, d, Threshold + 1) ELSE age
        /\ sinceBounce' = Later(sinceBounce, d, Backoff)
        /\ sinceNtp' = Later(last, d, NtpCooldown)
        /\ outage' = Later(outage, d, Guard + 1)
        /\ excuse' = IF d > 0 THEN "clock" ELSE excuse
        /\ seen' = IF d # 0 /\ seen = "down" THEN "unsure" ELSE seen

\* The time daemon finds its servers.
Synchronise ==
    /\ ~synced /\ ntpd # "none" /\ ~wedged /\ "time" \in reach
    /\ SetClock(0, sinceNtp)
    /\ synced' = TRUE
    /\ UNCHANGED <<reach, ntpd, wedged, tunnel, pc, raised, counter, lull, raced, faults>>

\* `date -s`, a suspended host: a jump may leave chronyd unable to follow.
ClockJumps ==
    /\ Fault
    /\ \E s \in Skews \ {skew} : SetClock(s, sinceNtp)
    /\ synced' = FALSE
    /\ wedged' \in IF ntpd = "chronyd" THEN BOOLEAN ELSE {FALSE}
    /\ UNCHANGED <<reach, ntpd, tunnel, pc, raised, counter, lull, raced>>

NetworkChanges ==
    /\ reach' \in Weather
    /\ UNCHANGED <<clock, tunnel, age, pc, raised, counter, sinceBounce, sinceNtp, outage,
                   lull, excuse, seen, raced, faults>>

\* The kernel's keepalives.
Handshake ==
    /\ up /\ "support" \in reach
    /\ shaken' = TRUE /\ age' = 0
    /\ UNCHANGED <<reach, clock, unit, conf, up, pc, raised, counter, sinceBounce, sinceNtp,
                   outage, lull, excuse, seen, raced, faults>>

----------------------------------------------------------------------------
(* check_discovery_https_reachable: the record is best effort              *)

Probe ==
    LET ok == "discovery" \in reach
    IN  /\ pc = "idle"
        /\ pc' = "ntp"
        /\ \/ /\ NoFault
              /\ outage' = IF ok THEN Lasting(Guard + 1) ELSE 0
              /\ seen' = IF ok THEN "up" ELSE "down"
           \/ /\ Fault
              /\ seen' = "unsure"
              /\ UNCHANGED outage
        /\ UNCHANGED <<reach, clock, tunnel, age, raised, counter, sinceBounce, sinceNtp,
                       lull, excuse, raced>>

----------------------------------------------------------------------------
(* check_ntp_sync                                                          *)

\* The clock after a daemon was told to correct it, which it can do or not.
Corrected(able) ==
    \/ /\ able /\ "time" \in reach
       /\ SetClock(0, 0) /\ synced' = TRUE
    \/ /\ sinceNtp' = 0
       /\ UNCHANGED <<skew, synced, age, sinceBounce, outage, excuse, seen>>

\* Mutant of StepChrony: rc 0 of makestep is believed.
StepChrony_NoRestart ==
    /\ ntpd = "chronyd"
    /\ Corrected(~wedged)
    /\ UNCHANGED <<ntpd, wedged, faults>>

\* makestep; chronyd is restarted when that succeeded and the clock is still off.
StepChrony ==
    /\ ntpd = "chronyd"
    /\ \/ ~wedged /\ Corrected(TRUE) /\ UNCHANGED <<ntpd, wedged, faults>>
       \/ wedged /\ Corrected(TRUE) /\ wedged' = FALSE /\ UNCHANGED <<ntpd, faults>>
       \/ Fault /\ Corrected(FALSE) /\ UNCHANGED <<ntpd, wedged>>

\* Any other device gets systemd-timesyncd (re)started.
RestartTimesyncd ==
    /\ ntpd # "chronyd"
    /\ \/ Corrected(TRUE) /\ ntpd' = "systemd-timesyncd" /\ UNCHANGED <<wedged, faults>>
       \/ Fault /\ Corrected(FALSE) /\ UNCHANGED <<ntpd, wedged>>

CheckNtp ==
    /\ pc = "ntp"
    /\ pc' = "wg"
    /\ \/ /\ synced \/ sinceNtp < NtpCooldown
          /\ UNCHANGED <<clock, age, sinceBounce, sinceNtp, outage, excuse, seen, faults>>
       \/ /\ Fault                          \* timedatectl fails
          /\ UNCHANGED <<clock, age, sinceBounce, sinceNtp, outage, excuse, seen>>
       \/ /\ ~synced /\ sinceNtp >= NtpCooldown
          /\ StepChrony \/ RestartTimesyncd
    /\ UNCHANGED <<reach, tunnel, raised, counter, lull, raced>>

----------------------------------------------------------------------------
(* check_wireguard_handshake_age                                           *)

\* Mutant of Hydrated: the count starts again with every process.
Hydrated_Never == consec

\* The count of this process, read back by its first check.
Hydrated ==
    IF hydrated THEN consec ELSE IF saved <= MaxHydrated THEN saved ELSE 0

\* Mutant of InternetLikelyDown: the record of this very round is not believed yet.
InternetLikelyDown_Older == outage \in 1..Guard

InternetLikelyDown == outage \in 0..Guard

\* Mutant of Due: three strikes and the tunnel is given up.
Due_GivesUp == Hydrated < MaxStrikes /\ sinceBounce >= Cooldown

Due == sinceBounce >= IF Hydrated >= MaxStrikes THEN Backoff ELSE Cooldown

\* The end of a check: the count c is kept and written, if the file can be.
Save(c) ==
    /\ consec' = c
    /\ hydrated' = TRUE
    /\ \/ saved' = c /\ NoFault
       \/ Fault /\ UNCHANGED saved

\* A handshake that proves that the tunnel works.
Working == up /\ shaken /\ age \in 0..Fresh

\* What a check that sees the tunnel makes of the strikes.
Witnessed ==
    /\ strikes' = IF Working THEN 0 ELSE strikes
    /\ lapse' = (lapse /\ ~Working)

\* The handshake is recent enough; only a fresh one clears the count.
Healthy ==
    /\ up /\ shaken /\ age \in 0..Threshold
    /\ Save(IF age <= Fresh THEN 0 ELSE Hydrated)
    /\ Witnessed

\* Not up, no handshake yet, or one that the clock puts into the future.
NothingToDo ==
    /\ ~up \/ ~shaken \/ age < 0
    /\ Save(Hydrated)
    /\ Witnessed

\* status.sh fails.
StatusFails ==
    /\ Fault
    /\ consec' = Hydrated /\ hydrated' = TRUE /\ saved' = Hydrated
    /\ UNCHANGED <<strikes, lapse>>

Stale == up /\ shaken /\ age > Threshold

\* Stale, but there is no internet, or the last bounce is too recent.
Postponed ==
    /\ Stale
    /\ InternetLikelyDown \/ ~Due
    /\ Save(Hydrated)
    /\ Witnessed

CheckTunnel ==
    /\ pc = "wg"
    /\ pc' = "idle"
    /\ StatusFails \/ NothingToDo \/ Healthy \/ Postponed
    /\ UNCHANGED <<reach, clock, tunnel, age, raised, sinceBounce, sinceNtp, outage, lull,
                   excuse, seen, raced>>

\* Stale, as status.sh saw it, and due: the bounce begins.
Bounce ==
    /\ pc = "wg" /\ Stale
    /\ ~InternetLikelyDown /\ Due
    /\ pc' = "down"
    /\ consec' = Hydrated /\ hydrated' = TRUE
    /\ sinceBounce' = 0 /\ lull' = 0 /\ excuse' = "none"
    /\ UNCHANGED <<reach, clock, tunnel, age, raised, saved, strikes, lapse, sinceNtp, outage,
                   seen, raced, faults>>

\* wg-quick down, whose failure is only noted; it fails when the interface has gone.
TakeDown ==
    /\ pc = "down"
    /\ pc' = "up"
    /\ \/ up /\ up' = FALSE /\ shaken' = FALSE /\ age' = 0 /\ NoFault
       \/ ~up /\ UNCHANGED <<up, shaken, age>> /\ NoFault
       \/ Fault /\ UNCHANGED <<up, shaken, age>>
    /\ UNCHANGED <<reach, clock, unit, conf, raised, counter, sinceBounce, sinceNtp, outage,
                   lull, excuse, seen, raced>>

\* wg-quick up: it fails when the interface is there, may fail when the endpoint is not.
BringUp ==
    /\ pc = "up"
    /\ pc' = "reread"
    /\ \/ ~up /\ conf /\ up' = TRUE /\ raised' = TRUE /\ NoFault
       \/ /\ up \/ ~conf \/ "support" \notin reach
          /\ raised' = FALSE /\ UNCHANGED up /\ NoFault
       \/ Fault /\ raised' = FALSE /\ UNCHANGED up
    /\ UNCHANGED <<reach, clock, unit, conf, shaken, age, counter, sinceBounce, sinceNtp, outage,
                   lull, excuse, seen, raced>>

\* bounce_recovered: only a fresh handshake proves that the bounce helped.
Recovered == raised /\ Working

Reread ==
    /\ pc = "reread"
    /\ pc' = "idle"
    /\ raised' = FALSE
    /\ \/ /\ Save(IF Recovered THEN 0 ELSE Count(consec + 1))
          /\ strikes' = IF Working THEN 0 ELSE Count(strikes + 1)
          /\ lapse' = (lapse /\ ~Working)
       \/ /\ Fault                          \* status.sh fails
          /\ consec' = Count(consec + 1) /\ hydrated' = TRUE /\ saved' = consec'
          /\ strikes' = Count(strikes + 1)
          /\ UNCHANGED lapse
    /\ UNCHANGED <<reach, clock, tunnel, age, sinceBounce, sinceNtp, outage, lull, excuse,
                   seen, raced>>

----------------------------------------------------------------------------
(* wireguard-support.service and who starts and stops it                   *)

\* start.sh: registers when it has to, brings the interface up unless it is.
StartUnit ==
    \/ /\ conf \/ "support" \in reach
       /\ unit' = "active" /\ conf' = TRUE /\ up' = TRUE /\ raced' = FALSE
       /\ UNCHANGED <<shaken, age>> /\ NoFault
    \/ /\ ~up /\ unit' = "failed"
       /\ \/ "support" \notin reach /\ NoFault /\ UNCHANGED conf
          \/ Fault /\ conf' \in {conf, conf \/ "support" \in reach}
       /\ UNCHANGED <<up, shaken, age, raced>>

\* activate_wireguard_support: an active unit is left alone.
Activate ==
    /\ pc = "idle"
    /\ \/ unit \in {"missing", "inactive", "failed"} /\ StartUnit
       \/ /\ unit = "missing" /\ Fault      \* install.sh fails
          /\ UNCHANGED <<tunnel, age, raced>>
    /\ UNCHANGED <<reach, clock, pc, raised, counter, sinceBounce, sinceNtp, outage, lull,
                   excuse, seen>>

\* check_wireguard_health: installs what is missing on a healthy device.
CheckHealth ==
    /\ pc = "idle" /\ unit = "missing"
    /\ unit' = "inactive"
    /\ UNCHANGED <<reach, clock, conf, up, shaken, age, pc, raised, counter, sinceBounce,
                   sinceNtp, outage, lull, excuse, seen, raced, faults>>

\* Restart=on-failure
UnitRestarts ==
    /\ unit = "failed"
    /\ StartUnit
    /\ UNCHANGED <<reach, clock, pc, raised, counter, sinceBounce, sinceNtp, outage, lull,
                   excuse, seen>>

\* Mutant of OperatorStops: no `ip link delete` when wg-quick could not remove it.
OperatorStops_LinkStays ==
    /\ unit = "active"
    /\ unit' = "inactive"
    /\ raced' = (pc \in {"down", "up"})
    /\ UNCHANGED <<reach, clock, conf, up, shaken, age, pc, raised, counter, sinceBounce,
                   sinceNtp, outage, lull, excuse, seen, faults>>

\* wireguard/stop of the local command server or over Bluetooth.  The registration
\* goes with it when the support server answers.
OperatorStops ==
    /\ unit = "active"
    /\ unit' = "inactive" /\ up' = FALSE /\ shaken' = FALSE /\ age' = 0
    /\ conf' = (conf /\ "support" \notin reach)
    /\ raced' = (pc \in {"down", "up"})
    /\ UNCHANGED <<reach, clock, pc, raised, counter, sinceBounce, sinceNtp, outage, lull,
                   excuse, seen, faults>>

----------------------------------------------------------------------------
(* The watchdog dies, the device boots                                     *)

\* Mutant of NewProcess: the start of the process counts as a bounce.
NewProcess_JustBounced ==
    /\ pc' = "idle" /\ raised' = FALSE /\ consec' = 0 /\ hydrated' = FALSE
    /\ sinceBounce' = 0 /\ sinceNtp' = Lasting(NtpCooldown)

\* The memory of a new process; a count is lost when the file did not hold it.
NewProcess ==
    /\ pc' = "idle" /\ raised' = FALSE /\ consec' = 0 /\ hydrated' = FALSE
    /\ sinceBounce' = Lasting(Backoff) /\ sinceNtp' = Lasting(NtpCooldown)

Restart ==
    /\ Fault
    /\ NewProcess
    /\ excuse' = IF excuse = "clock" THEN "clock" ELSE "restart"
    /\ lapse' = (lapse \/ saved < strikes \/ saved > MaxHydrated)
    /\ UNCHANGED <<reach, clock, tunnel, age, saved, strikes, outage, lull, seen, raced>>

\* /run is empty, the unit is started on demand only, the clock may be anything.
Reboot ==
    /\ Fault
    /\ NewProcess
    /\ skew' \in Skews /\ synced' = FALSE /\ wedged' = FALSE
    /\ unit' = IF unit = "missing" THEN "missing" ELSE "inactive"
    /\ up' = FALSE /\ shaken' = FALSE /\ age' = 0
    /\ saved' = 0 /\ outage' = Lasting(Guard + 1)
    /\ strikes' = 0 /\ lapse' = FALSE /\ lull' = Backoff /\ excuse' = "none"
    /\ seen' = "unsure" /\ raced' = FALSE
    /\ UNCHANGED <<reach, ntpd, conf>>

Environment == Tick \/ Synchronise \/ ClockJumps \/ NetworkChanges \/ Handshake
Checks      == CheckNtp \/ CheckTunnel \/ Bounce \/ TakeDown \/ BringUp \/ Reread
Round       == Probe \/ Checks
Service     == Activate \/ CheckHealth \/ UnitRestarts \/ OperatorStops

Next == Environment \/ Round \/ Service \/ Restart \/ Reboot

Spec == Init /\ [][Next]_vars

\* Time passes, the checks of a round follow each other (their calls have time-outs),
\* keepalives are sent, a time daemon that is not wedged does its work.  That a round
\* begins is not promised: main() calls the monitor, which has them, only when the
\* conditions pass and there is a connection (readiness-check.py:4415-4424).
Fairness == SF_vars(Tick) /\ WF_vars(Checks) /\ WF_vars(Handshake) /\ WF_vars(Synchronise)

FairSpec == Spec /\ Fairness

----------------------------------------------------------------------------
(* Properties                                                              *)

\* The variables have their types; a synchronised clock is right, an interface has a
\* configuration, and a handshake needs an interface.
TypeOK ==
    /\ reach \in Weather
    /\ skew \in Skews /\ synced \in BOOLEAN /\ ntpd \in Daemons /\ wedged \in BOOLEAN
    /\ unit \in {"missing", "inactive", "active", "failed"}
    /\ conf \in BOOLEAN /\ up \in BOOLEAN /\ shaken \in BOOLEAN
    /\ age \in Ages(Threshold + 1)
    /\ pc \in {"idle", "ntp", "wg", "down", "up", "reread"} /\ raised \in BOOLEAN
    /\ consec \in Counts /\ hydrated \in BOOLEAN /\ saved \in Counts
    /\ sinceBounce \in Ages(Backoff) /\ sinceNtp \in Ages(NtpCooldown)
    /\ outage \in Ages(Guard + 1)
    /\ strikes \in Counts /\ lapse \in BOOLEAN /\ lull \in 0..Backoff
    /\ excuse \in {"none", "restart", "clock"} /\ seen \in {"up", "down", "unsure"}
    /\ raced \in BOOLEAN /\ faults \in 0..MaxFaults
    /\ synced => skew = 0
    /\ up => conf
    /\ shaken => up

Required == IF strikes >= MaxStrikes THEN Backoff ELSE Cooldown

\* Real time between two bounces is at least the cooldown, and the long one once MaxStrikes
\* bounces in a row have failed, restarts of the watchdog included: only the first
\* bounce after a restart, one after the clock was set forward, and a count that the file
\* could not give back come earlier (readiness-check.py:95-100, 664-672).
BackoffKept ==
    [][pc = "wg" /\ pc' = "down" => excuse # "none" \/ lapse \/ lull >= Required]_vars

\* The tunnel is not bounced when the last probe of the discovery service failed, unless
\* the record was not written or the clock was set since (readiness-check.py:515-534, 657).
NoBounceOffline == [][pc = "wg" /\ pc' = "down" => seen # "down"]_vars

\* What an operator has stopped stays down until it is started again, except when the
\* stop came between the look at the tunnel and the up of a bounce: no other stop is
\* undone by a round, a restart of the unit or a new process of the watchdog
\* (readiness-check.py:600, 682, 691).
StoppedStaysDown == unit = "inactive" /\ up => raced

\* The watchdog's idea of the time since the last bounce falls behind the real one by no
\* more than the clock can be wrong: a clock set back, however often, and a process that
\* starts again hold a bounce off for a bounded time only (readiness-check.py:664-672).
WaitIsBounded == sinceBounce >= lull - (Behind + Ahead)

\* Rounds begin again and again, however far apart: the conditions pass and there is a
\* connection each time main() has come to look often enough.
Monitored == []<>(pc = "ntp")

\* With the discovery service in reach for good, no tunnel of a device that is monitored
\* stays stale: it is bounced, whatever was counted, set or lost before
\* (readiness-check.py:557-779).
StaleIsBounced == <>[]("discovery" \in reach) /\ Monitored => []<>~Stale

\* With time servers in reach for good the clock of a device that is monitored is
\* corrected for good, also when chronyd runs and no longer moves it
\* (readiness-check.py:478-503).
ClockIsCorrected == <>[]("time" \in reach) /\ Monitored => <>[]synced
=============================================================================

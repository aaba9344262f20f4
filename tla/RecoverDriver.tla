---------------------------- MODULE RecoverDriver ----------------------------
(***************************************************************************)
(* The recovery driver of the readiness watchdog                           *)
(* (readiness-check-recover.py): started by OnFailure= when systemd has    *)
(* given up on fula-readiness-check.service, it starts the watchdog again  *)
(* and, behind three gates, schedules an emergency reboot.  The record of  *)
(* its reboots is a file in /var/log/fula, the mark that one is scheduled  *)
(* a file in /run, the reboot itself a transient timer of systemd.         *)
(*                                                                         *)
(* A reboot is named by the timestamp of the driver that scheduled it, and *)
(* by a number, since several may fall into one tick of the clock.         *)
(***************************************************************************)
EXTENDS Integers, FiniteSets

CONSTANTS
    UptimeMin,     \* UPTIME_MIN_SEC, in ticks
    Budget,        \* REBOOT_BUDGET
    Window,        \* REBOOT_BUDGET_WINDOW_SEC, in ticks
    Zone,          \* how far the device's time zone is ahead of UTC, in ticks
    MaxTime,       \* bound: ticks
    MaxFaults      \* bound: failed calls, failed reads and writes, power cuts

ASSUME ParametersAssumption ==
    /\ UptimeMin \in Nat \ {0}
    /\ Budget \in Nat
    /\ Window \in Nat
    /\ Zone \in Int
    /\ MaxTime \in Nat
    /\ MaxFaults \in Nat

Entry == [id : Nat, ts : 0..MaxTime]

VARIABLES
    now,        \* the clock
    booted,     \* when the device booted
    main,       \* fula-readiness-check.service: "running" or "failed"
    pc,         \* where the driver is: "off" when it does not run
    state,      \* the reboots of the state it loaded
    stamp,      \* the timestamp it took
    file,       \* the reboots in recover-state.json; none when absent
    spoiled,    \* that file cannot be decoded, or its attempts are no list
    sentinel,   \* /run/fula-recover-rebooted exists
    timers,     \* the scheduled reboots
    \* bookkeeping
    scheduled,  \* reboots scheduled so far
    rebooted,   \* the emergency reboots that took place
    forgotten,  \* reboots in a record that could not be read, or was not written
    losses,     \* times that happened
    missed,     \* the last driver ended without having started the watchdog
    faults      \* failures still allowed

driver  == <<pc, state, stamp>>
record  == <<file, spoiled>>
history == <<rebooted, forgotten, losses>>
vars    == <<now, booted, main, pc, state, stamp, file, spoiled, sentinel, timers,
             scheduled, rebooted, forgotten, losses, missed, faults>>

Fault   == faults > 0 /\ faults' = faults - 1
NoFault == UNCHANGED faults

Init ==
    /\ now = 0 /\ booted = 0
    /\ main = "running"
    /\ pc = "off" /\ state = {} /\ stamp = 0
    /\ file = {} /\ spoiled = FALSE /\ sentinel = FALSE /\ timers = {}
    /\ scheduled = 0 /\ rebooted = {} /\ forgotten = {} /\ losses = 0
    /\ missed = FALSE /\ faults = MaxFaults

----------------------------------------------------------------------------
(* systemd                                                                 *)

Tick ==
    /\ now < MaxTime
    /\ now' = now + 1
    /\ UNCHANGED <<booted, main, driver, record, sentinel, timers, scheduled, history, missed,
                   faults>>

\* StartLimitBurst: the watchdog has failed, OnFailure= starts the driver.  Ten
\* starts take longer than what the driver has left to do after its own start of
\* the watchdog, so the driver is not running.
Lockout ==
    /\ main = "running"
    /\ pc = "off"
    /\ main' = "failed"
    /\ pc' = "load"
    /\ missed' = FALSE
    /\ UNCHANGED <<now, booted, state, stamp, record, sentinel, timers, scheduled, history,
                   faults>>

\* Mutant of NewBoot: the timer of a scheduled reboot is kept across boots.
NewBoot_TimersKept ==
    /\ booted' = now
    /\ main' = "running"
    /\ pc' = "off" /\ state' = {} /\ stamp' = 0
    /\ sentinel' = FALSE /\ missed' = FALSE
    /\ UNCHANGED <<now, record, timers, scheduled>>

\* A new boot: the watchdog is enabled, /run is empty, transient timers are gone.
NewBoot ==
    /\ booted' = now
    /\ main' = "running"
    /\ pc' = "off" /\ state' = {} /\ stamp' = 0
    /\ sentinel' = FALSE /\ missed' = FALSE
    /\ timers' = {}
    /\ UNCHANGED <<now, record, scheduled>>

\* The timer fires, after the driver that set it has ended (300 s against the
\* 180 s systemd lets it run).
Reboot ==
    /\ pc = "off"
    /\ \E e \in timers : rebooted' = rebooted \cup {e}
    /\ NewBoot
    /\ UNCHANGED <<forgotten, losses, faults>>

PowerCut == Fault /\ NewBoot /\ UNCHANGED history

\* The record is damaged on the disk so that reading it raises.
Spoil ==
    /\ Fault
    /\ spoiled' = TRUE
    /\ UNCHANGED <<now, booted, main, driver, file, sentinel, timers, scheduled, history,
                   missed>>

----------------------------------------------------------------------------
(* main                                                                    *)

\* _trim_old: the timestamps are in UTC and are read as local time.
Recent(entries) == {e \in entries : e.ts - Zone >= now - Window}

\* The driver ends.
End == pc' = "off" /\ state' = {} /\ stamp' = 0

\* _load_state: no file, or one that is not JSON, is an empty record.
Load ==
    /\ pc = "load"
    /\ ~spoiled
    /\ pc' = "restart"
    /\ \/ /\ NoFault
          /\ state' = file
          /\ UNCHANGED <<forgotten, losses>>
       \/ /\ Fault
          /\ state' = {}
          /\ forgotten' = forgotten \cup file
          /\ losses' = losses + 1
    /\ stamp' = now
    /\ UNCHANGED <<now, booted, main, record, sentinel, timers, scheduled, rebooted, missed>>

\* A record that raises (UnicodeDecodeError, or no list to append to) ends the driver
\* in the last except of main, before its start of the watchdog.
LoadRaises ==
    /\ pc = "load"
    /\ spoiled
    /\ End
    /\ missed' = TRUE
    /\ UNCHANGED <<now, booted, main, record, sentinel, timers, scheduled, history, faults>>

\* Mutant of Restart: the watchdog is only started when the gates let a reboot by.
Restart_BehindGates ==
    /\ pc = "restart"
    /\ pc' = "decide"
    /\ NoFault
    /\ main' = IF now - booted < UptimeMin \/ sentinel THEN main ELSE "running"
    /\ UNCHANGED <<now, booted, state, stamp, record, sentinel, timers, scheduled, history,
                   missed>>

\* reset-failed and start.  A start that fails leaves the watchdog failed; a call
\* that times out raises, and the driver ends having written nothing.
Restart ==
    /\ pc = "restart"
    /\ \/ /\ NoFault
          /\ main' = "running"
          /\ pc' = "decide"
          /\ UNCHANGED <<state, stamp, missed>>
       \/ /\ Fault
          /\ UNCHANGED <<main, state, stamp>>
          /\ pc' = "decide"
          /\ missed' = TRUE
       \/ /\ Fault
          /\ UNCHANGED main
          /\ End
          /\ missed' = TRUE
    /\ UNCHANGED <<now, booted, record, sentinel, timers, scheduled, history>>

\* Mutant of Escalate: the reboots of other boots are not counted.
Escalate_NoBudget == now - booted >= UptimeMin /\ ~sentinel

\* decide_escalation: the three gates.
Escalate ==
    /\ now - booted >= UptimeMin
    /\ ~sentinel
    /\ Cardinality(Recent(state)) < Budget

\* The gates hold the reboot back, or /proc/uptime cannot be read.  The trimmed
\* record is written; a failure to write is logged.
Suppress ==
    /\ pc = "decide"
    /\ \/ ~Escalate /\ NoFault /\ file' = Recent(state) /\ spoiled' = FALSE
       \/ ~Escalate /\ Fault /\ UNCHANGED record
       \/ Escalate /\ Fault /\ file' = Recent(state) /\ spoiled' = FALSE
    /\ End
    /\ UNCHANGED <<now, booted, main, sentinel, timers, scheduled, history, missed>>

\* systemd-run and, when it has succeeded, the sentinel and the record.
Schedule ==
    /\ pc = "decide"
    /\ Escalate
    /\ \/ LET e == [id |-> scheduled, ts |-> stamp] IN
          /\ scheduled' = scheduled + 1
          /\ timers' = timers \cup {e}
          /\ state' = Recent(state) \cup {e}
          /\ \/ NoFault /\ sentinel' = TRUE
             \/ Fault /\ UNCHANGED sentinel
       \/ /\ Fault
          /\ state' = Recent(state)
          /\ UNCHANGED <<scheduled, timers, sentinel>>
    /\ pc' = "write"
    /\ UNCHANGED <<now, booted, main, stamp, record, history, missed>>

\* systemd-run times out: the driver ends with nothing recorded, of a reboot that
\* may be scheduled all the same.
ScheduleTimesOut ==
    /\ pc = "decide"
    /\ Escalate
    /\ Fault
    /\ \/ UNCHANGED <<timers, scheduled, forgotten, losses>>
       \/ LET e == [id |-> scheduled, ts |-> stamp] IN
          /\ scheduled' = scheduled + 1
          /\ timers' = timers \cup {e}
          /\ forgotten' = forgotten \cup {e}
          /\ losses' = losses + 1
    /\ End
    /\ UNCHANGED <<now, booted, main, record, sentinel, rebooted, missed>>

\* The last _atomic_write.
Write ==
    /\ pc = "write"
    /\ \/ /\ NoFault
          /\ file' = state /\ spoiled' = FALSE
          /\ UNCHANGED <<forgotten, losses>>
       \/ /\ Fault
          /\ forgotten' = forgotten \cup state
          /\ losses' = losses + 1
          /\ UNCHANGED record
    /\ End
    /\ UNCHANGED <<now, booted, main, sentinel, timers, scheduled, rebooted, missed>>

----------------------------------------------------------------------------
Driver == Load \/ LoadRaises \/ Restart \/ Suppress \/ Schedule \/ ScheduleTimesOut \/ Write

Next == Tick \/ Lockout \/ Reboot \/ PowerCut \/ Spoil \/ Driver

Spec == Init /\ [][Next]_vars

\* The driver runs to its end: each of its calls has a timeout.
FairSpec == Spec /\ WF_vars(Driver)

----------------------------------------------------------------------------
(* Properties                                                              *)

\* The types, and that no reboot scheduled before a boot is pending after it.
TypeOK ==
    /\ now \in 0..MaxTime /\ booted \in 0..now
    /\ main \in {"running", "failed"}
    /\ pc \in {"off", "load", "restart", "decide", "write"}
    /\ state \subseteq Entry /\ file \subseteq Entry
    /\ stamp \in 0..MaxTime
    /\ pc \in {"restart", "decide", "write"} => booted <= stamp
    /\ spoiled \in BOOLEAN /\ sentinel \in BOOLEAN /\ missed \in BOOLEAN
    /\ timers \subseteq Entry /\ \A e \in timers : booted <= e.ts
    /\ scheduled \in Nat
    /\ rebooted \subseteq Entry /\ forgotten \subseteq Entry
    /\ losses \in Nat
    /\ faults \in 0..MaxFaults

\* The emergency reboots of the last w ticks.
Since(w) == {e \in rebooted : e.ts >= now - w}

\* A watchdog that fails again and again does not reboot the device for ever: the
\* record bounds the reboots of any window (less the time zone's offset),
\* through reboots, power cuts and calls that fail; each time the record itself
\* is lost buys at most one more budget.
RebootsBounded == Cardinality(Since(Window - Zone)) <= Budget * (1 + losses)

\* Docstring of the driver, gate C: "< REBOOT_BUDGET reboots in the last
\* REBOOT_BUDGET_WINDOW_SEC (persistent across boots ...)": with no record lost,
\* no window has more reboots than the budget.
RebootBudget == losses = 0 => Cardinality(Since(Window)) <= Budget

\* Gate A of the driver: no emergency reboot comes sooner than UptimeMin after the
\* boot before it, whatever became of the record, the sentinel and the timers of
\* earlier boots: a device that reboots for another reason is not rebooted faster.
UptimeRespected == [][rebooted' # rebooted => now - booted >= UptimeMin]_vars

\* A watchdog that systemd has given up on has a driver that has not come to its
\* start yet, unless that driver's own start of it failed or the record made it end
\* before: the gates, the sentinel and the reboots of the record come after it, and
\* no other ending of the driver skips it.
LockoutAttended == main = "failed" => pc \in {"load", "restart"} \/ missed

\* Whatever the gates say of a reboot, and whatever was lost, cut or failed before,
\* a watchdog systemd has given up on is started again, unless the start itself
\* fails or the record cannot be decoded.
WatchdogRestarted == main = "failed" ~> main = "running" \/ missed
=============================================================================

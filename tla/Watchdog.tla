------------------------------ MODULE Watchdog ------------------------------
(***************************************************************************)
(* The readiness watchdog (readiness-check.py): the main loop on the       *)
(* device's conditions and its network, the monitor loop with its count of *)
(* restart attempts, the repair of ext4, and the escalation that commands  *)
(* a re-partition behind the age of .reboot_flag.  Around it: fula.service *)
(* whose script removes that flag, commands.sh and resize.sh that carry    *)
(* the command out and reboot, and boots.                                  *)
(*                                                                         *)
(* Hours are not counted: a flag is "young" or "old" (12 hours).  What is  *)
(* wrong with the device is one trouble at a time.                         *)
(***************************************************************************)
EXTENDS Naturals

CONSTANTS
    Troubles,      \* what may go wrong with the device
    Links,         \* the network connections it may have
    WifiCycles,    \* cycles without Wi-Fi before the hotspot is tried (6 in the code)
    MaxTroubles,   \* bound: troubles that begin
    MaxFaults      \* bound: power cuts, uncaught exceptions, failed repairs

AllTroubles == {"mount",        \* /uniondrive is not a mergerfs
                "unmountable",  \* ext4 so damaged that it cannot be mounted
                "readonly",     \* ext4 remounted read-only, or dead, or EBADMSG
                "foreign",      \* a large drive that is not ext4
                "docker",       \* docker.service has failed
                "container",    \* a watched container other than fula_go is down
                "env",          \* .env is corrupt
                "config",       \* what check_and_fix_ipfs_host and the like repair
                "proxy"}        \* go-fula's ports do not answer

AllLinks == {"hotspot",   \* FxBlox
             "none",
             "lan",       \* connected, without internet
             "wan"}

ASSUME WatchdogAssumption ==
    /\ Troubles \subseteq AllTroubles
    /\ Links \subseteq AllLinks /\ Links # {}
    /\ WifiCycles \in Nat \ {0}
    /\ MaxTroubles \in Nat
    /\ MaxFaults \in Nat

Steps == {"main", "round", "check", "checkDown", "restart", "docker", "inspect",
          "fixUp", "fixDown", "boundary", "flag", "command", "red", "repair",
          "repaired", "dead"}

VARIABLES
    \* the device
    trouble,        \* what is wrong, "none" when nothing is
    link,           \* the network connection
    fula,           \* fula.service: "off", "up", or in ExecStartPre: "ordered" when the
                    \* watchdog's systemctl waits for it, "starting" otherwise
    go,             \* the container fula_go: "absent", "stopped" or "running"
    wg,             \* wireguard-support.service is active
    \* files
    flag,           \* .reboot_flag: "none", "young" or "old"
    gaveUp,         \* .readiness_gave_up
    partCmd,        \* .command_partition: "none", "seen" by inotifywait, or "missed"
    \* the watchdog
    pc,
    back,           \* where check_and_repair_ext4 was called from
    fulaAttempts,   \* fula_restart_attempts
    offline,        \* cycles_with_no_wifi
    attempts,       \* restart_attempts
    cooldown,       \* less than FSCK_COOLDOWN since last_fsck_time
    \* bookkeeping
    rounds,         \* failed rounds of this call since the last healthy one
    restarts,       \* restarts of docker.service inside a round since then
    wiped,          \* check_external_drive formatted a drive in this call
    commanded,      \* the last re-partition commanded: "never", "young" or "old"
    fulaRan,        \* fula.sh has started since then: "no", "yes", or "between" the
                    \* two touches of an escalation under way
    troubles, faults

device  == <<trouble, link, fula, go, wg>>
files   == <<flag, gaveUp, partCmd>>
counts  == <<fulaAttempts, offline, attempts>>
tries   == <<rounds, restarts>>
history == <<tries, wiped, commanded, fulaRan>>
bounds  == <<troubles, faults>>
vars    == <<device, files, pc, back, counts, cooldown, history, bounds>>

Fault == faults > 0 /\ faults' = faults - 1 /\ UNCHANGED troubles

Init ==
    /\ trouble = "none" /\ link \in Links
    /\ fula = "starting" /\ go = "absent" /\ wg = FALSE
    /\ flag = "none" /\ gaveUp = FALSE /\ partCmd = "none"
    /\ pc = "main" /\ back = "main"
    /\ fulaAttempts = 0 /\ offline = 0 /\ attempts = 0
    /\ cooldown = FALSE
    /\ rounds = 0 /\ restarts = 0 /\ wiped = FALSE /\ commanded = "never" /\ fulaRan = "no"
    /\ troubles = MaxTroubles /\ faults = MaxFaults

----------------------------------------------------------------------------
(* The device                                                              *)

\* uniondrive.service comes up; docker.service too, as fula.service requires.
Storage   == trouble \notin {"mount", "unmountable"}
Startable == Storage /\ trouble # "docker"

Break ==
    /\ trouble = "none" /\ troubles > 0
    /\ trouble' \in Troubles
    /\ troubles' = troubles - 1
    /\ UNCHANGED <<link, fula, go, wg, files, pc, back, counts, cooldown, history, faults>>

\* What was wrong ends; union-drive.sh starts fula when it has remounted.
Heal ==
    /\ trouble # "none"
    /\ trouble' = "none"
    /\ \/ UNCHANGED fula
       \/ trouble = "mount" /\ fula = "off" /\ fula' = "starting"
    /\ UNCHANGED <<link, go, wg, files, pc, back, counts, cooldown, history, bounds>>

Connect ==
    /\ link' \in Links \ {link}
    /\ UNCHANGED <<trouble, fula, go, wg, files, pc, back, counts, cooldown, history, bounds>>

\* fula.sh start: the beginning of restart() removes the flag.
FulaScript ==
    /\ fula \in {"starting", "ordered"}
    /\ fula' = "up"
    /\ flag' = "none"
    /\ fulaRan' = IF pc = "command" THEN "between" ELSE "yes"
    /\ UNCHANGED <<trouble, link, go, wg, gaveUp, partCmd, pc, back, counts, cooldown,
                   tries, wiped, commanded, bounds>>

\* Later, when setup.done is there, dockerComposeUp, which a corrupt .env prevents.
ComposeUp ==
    /\ fula = "up" /\ go = "absent"
    /\ Startable /\ trouble # "env"
    /\ go' = "running"
    /\ UNCHANGED <<trouble, link, fula, wg, files, pc, back, counts, cooldown, history, bounds>>

\* fula_go exits, and restart: always.
GoExits ==
    /\ go = "running" /\ troubles > 0
    /\ go' = "stopped"
    /\ troubles' = troubles - 1
    /\ UNCHANGED <<trouble, link, fula, wg, files, pc, back, counts, cooldown, history, faults>>

GoRestarts ==
    /\ go = "stopped"
    /\ trouble # "docker"
    /\ go' = "running"
    /\ UNCHANGED <<trouble, link, fula, wg, files, pc, back, counts, cooldown, history, bounds>>

\* A fsck is an hour ago.
HourPasses ==
    /\ cooldown
    /\ cooldown' = FALSE
    /\ UNCHANGED <<device, files, pc, back, counts, history, bounds>>

\* Twelve hours pass, though not between touching the flag and the command.
HalfDayPasses ==
    /\ pc # "command"
    /\ "young" \in {flag, commanded}
    /\ flag' = IF flag = "young" THEN "old" ELSE flag
    /\ commanded' = IF commanded = "young" THEN "old" ELSE commanded
    /\ UNCHANGED <<device, gaveUp, partCmd, pc, back, counts, cooldown, tries, wiped,
                   fulaRan, bounds>>

----------------------------------------------------------------------------
(* Starts                                                                  *)

NoTries == rounds' = 0 /\ restarts' = 0

MonitorReturns == pc' = "main" /\ attempts' = 0 /\ NoTries /\ wiped' = FALSE

MemoryIsEmpty ==
    /\ fulaAttempts' = 0 /\ offline' = 0 /\ attempts' = 0
    /\ back' = "main"
    /\ cooldown' = FALSE
    /\ NoTries /\ wiped' = FALSE

\* The watchdog starts: main() removes .readiness_gave_up.
WatchdogStarts ==
    /\ pc' = "main"
    /\ MemoryIsEmpty
    /\ gaveUp' = FALSE

\* The device boots; wireguard-support.service is not enabled, and a command file
\* that exists when commands.sh starts creates no event.
Boots ==
    /\ WatchdogStarts
    /\ wg' = FALSE
    /\ fula' = IF Startable' THEN "starting" ELSE "off"
    /\ UNCHANGED <<link, flag, commanded, fulaRan>>

PowerCut ==
    /\ Fault
    /\ UNCHANGED trouble /\ Boots
    /\ go' = IF go = "absent" THEN "absent" ELSE "running"
    /\ partCmd' \in CASE partCmd = "none"   -> {"none"}
                       [] partCmd = "seen"   -> {"none", "missed"}
                       [] partCmd = "missed" -> {"missed"}

\* commands.sh removes the file and runs resize.sh 1: fula is stopped, disks are
\* formatted, the device reboots; or there is no disk that is large enough.
Repartition ==
    /\ partCmd = "seen"
    /\ partCmd' = "none"
    /\ \/ /\ trouble' \in {trouble, "none"}
          /\ Boots
          /\ go' = "absent"
          /\ UNCHANGED bounds
       \/ UNCHANGED <<device, flag, gaveUp, pc, back, counts, cooldown, history, bounds>>

\* A call times out where no handler catches it; systemd starts the watchdog again.
Dies ==
    /\ Fault
    /\ pc \notin {"dead", "repair"}
    /\ pc' = "dead"
    /\ MemoryIsEmpty
    /\ UNCHANGED <<device, files, commanded, fulaRan>>

StartsAgain ==
    /\ pc = "dead"
    /\ WatchdogStarts
    /\ UNCHANGED <<device, flag, partCmd, commanded, fulaRan, bounds>>

----------------------------------------------------------------------------
(* What the watchdog reads and does                                        *)

\* check_conditions.  Services that are "inactive" pass.
Conditions == Storage /\ trouble # "docker" /\ go = "running"

\* check_and_repair_ext4 finds something to repair.
Repairable == trouble \in {"readonly", "unmountable"} /\ ~cooldown

\* safe_restart_fula and safe_start_fula: containers are removed; without storage
\* or Docker the start fails.
FulaStarts ==
    \/ Startable' /\ fula' = "ordered" /\ go' = "absent"
    \/ ~Startable' /\ fula' = "off" /\ go' = "absent"
    \/ ~Startable' /\ UNCHANGED <<fula, go>>

FulaStops == fula' = "off" /\ go' = "absent"

\* activate_wireguard_support, which needs the internet.
Supports == wg' = (wg \/ link = "wan")

\* restart_attempts is raised once by a failed round, and by every restart of
\* docker.service inside of it.
FailedRound ==
    /\ attempts' = attempts + 1
    /\ rounds' = rounds + 1
    /\ UNCHANGED restarts

DockerRestarted ==
    /\ attempts' = attempts + 1
    /\ restarts' = restarts + 1
    /\ UNCHANGED rounds

\* The head of the monitor loop.
Loop(n) == pc' = IF n < 4 THEN "round" ELSE "boundary"

BeginRepair(from) ==
    /\ Repairable
    /\ pc' = "repair" /\ back' = from
    /\ FulaStops
    /\ UNCHANGED <<trouble, link, wg, files, counts, cooldown, history, bounds>>

----------------------------------------------------------------------------
(* main                                                                    *)

EnterMonitor ==
    /\ pc = "main" /\ Conditions /\ link = "wan"
    /\ \/ /\ trouble # "foreign"
          /\ attempts' = 0 /\ wiped' = FALSE
          /\ pc' = "round"
          /\ UNCHANGED <<trouble, fula, go>>
       \/ /\ trouble = "foreign"           \* check_external_drive
          /\ FulaStops
          /\ trouble' = "mount"             \* uniondrive.service stays stopped
          /\ attempts' = 4 /\ wiped' = TRUE
          /\ pc' = "boundary"
    /\ UNCHANGED <<link, wg, files, back, fulaAttempts, offline, cooldown, tries,
                   commanded, fulaRan, bounds>>

\* Mutant of NoWifi: the count goes on after the hotspot was tried.
NoWifi_NoReset ==
    /\ pc = "main" /\ Conditions /\ link = "none"
    /\ offline' = offline + 1
    /\ IF offline' >= 2 * WifiCycles THEN Supports ELSE UNCHANGED wg
    /\ UNCHANGED <<trouble, link, fula, go, files, pc, back, fulaAttempts, attempts,
                   cooldown, history, bounds>>

\* After six cycles the hotspot is tried and the count starts again, so that the
\* twelve, twice as many, at which the tunnel is started are not reached.
NoWifi ==
    /\ pc = "main" /\ Conditions /\ link = "none"
    /\ offline' = IF offline = WifiCycles THEN 1 ELSE offline + 1
    /\ IF offline' >= 2 * WifiCycles THEN Supports ELSE UNCHANGED wg
    /\ UNCHANGED <<trouble, link, fula, go, files, pc, back, fulaAttempts, attempts,
                   cooldown, history, bounds>>

MainRepairs == pc = "main" /\ ~Conditions /\ BeginRepair("main")

MainFixesEnv ==
    /\ pc = "main" /\ ~Conditions /\ trouble = "env"
    /\ trouble' = "none"
    /\ FulaStarts
    /\ fulaAttempts' = 0
    /\ UNCHANGED <<link, wg, files, pc, back, offline, attempts, cooldown, history, bounds>>

\* fula_go is in "docker ps -a", fxsupport and updater in "docker ps".
MainRestartsFula ==
    /\ pc = "main" /\ ~Conditions /\ ~Repairable /\ trouble \notin {"env", "docker"}
    /\ go # "absent" /\ fulaAttempts < 4
    /\ UNCHANGED trouble /\ FulaStarts
    /\ fulaAttempts' = fulaAttempts + 1
    /\ UNCHANGED <<link, wg, files, pc, back, offline, attempts, cooldown, history, bounds>>

MainSupports ==
    /\ pc = "main" /\ ~Conditions /\ ~Repairable /\ trouble # "env"
    /\ fulaAttempts >= 4
    /\ Supports
    /\ UNCHANGED <<trouble, link, fula, go, files, pc, back, counts, cooldown, history, bounds>>

----------------------------------------------------------------------------
(* monitor_docker_logs_and_restart                                         *)

\* After 450 s, in which a fula.service that was started has come to its script.
\* The status of docker.service is read before the conditions are.
ReadDocker ==
    /\ pc = "round"
    /\ fula \notin {"starting", "ordered"}
    /\ pc' = IF trouble = "docker" THEN "checkDown" ELSE "check"
    /\ UNCHANGED <<device, files, back, counts, cooldown, history, bounds>>

RoundRepairs == pc \in {"check", "checkDown"} /\ ~Conditions /\ BeginRepair("round")

\* The conditions fail: stop everything, start it again.
StopAll ==
    /\ pc \in {"check", "checkDown"} /\ ~Conditions /\ ~Repairable
    /\ pc' = "restart"
    /\ FulaStops
    /\ UNCHANGED <<trouble, link, wg, files, back, counts, cooldown, history, bounds>>

StartAll ==
    /\ pc = "restart"
    /\ trouble' \in {trouble, IF trouble \in {"mount", "docker"} THEN "none" ELSE trouble}
    /\ FulaStarts
    /\ FailedRound /\ Loop(attempts')
    /\ UNCHANGED <<link, wg, files, back, fulaAttempts, offline, cooldown, wiped, commanded,
                   fulaRan, bounds>>

ConditionsPass ==
    /\ pc \in {"check", "checkDown"} /\ Conditions
    /\ pc' = IF pc = "checkDown" THEN "docker" ELSE "inspect"
    /\ UNCHANGED <<device, files, back, counts, cooldown, history, bounds>>

\* While docker.service was seen down.
RestartDocker ==
    /\ pc = "docker"
    /\ trouble' \in {trouble, IF trouble = "docker" THEN "none" ELSE trouble}
    /\ FulaStarts
    /\ DockerRestarted
    /\ pc' = IF trouble' = "docker" /\ attempts' < 4 THEN "docker" ELSE "inspect"
    /\ UNCHANGED <<link, wg, files, back, fulaAttempts, offline, cooldown, wiped, commanded,
                   fulaRan, bounds>>

\* The containers; a container whose log has errors counts as running.
Inspect ==
    /\ pc = "inspect"
    /\ \/ /\ trouble \notin {"container", "docker"} /\ go = "running"
          /\ pc' = "fixUp"
          /\ UNCHANGED <<trouble, fula, go>>
       \/ /\ trouble \in {"container", "docker"} \/ go # "running"
          /\ trouble' \in {trouble, IF trouble = "container" THEN "none" ELSE trouble}
          /\ FulaStarts
          /\ pc' = "fixDown"
    /\ UNCHANGED <<link, wg, files, back, counts, cooldown, history, bounds>>

\* The repairs, which make the round a failed one; some restart fula.
Fixes ==
    /\ pc \in {"fixUp", "fixDown"} /\ trouble \in {"env", "config"}
    /\ trouble' \in {"none", IF trouble = "config" THEN trouble ELSE "none"}
    /\ \/ FulaStarts
       \/ trouble = "config" /\ UNCHANGED <<fula, go>>
    /\ FailedRound /\ Loop(attempts')
    /\ UNCHANGED <<link, wg, files, back, fulaAttempts, offline, cooldown, wiped, commanded,
                   fulaRan, bounds>>

\* check_proxy_health, check_peerid_collision.
RestartForProxy ==
    /\ pc = "fixUp" /\ trouble = "proxy"
    /\ trouble' \in {trouble, "none"}
    /\ FulaStarts
    /\ FailedRound /\ Loop(attempts')
    /\ UNCHANGED <<link, wg, files, back, fulaAttempts, offline, cooldown, wiped, commanded,
                   fulaRan, bounds>>

\* Mutant of Healthy: the attempts of earlier rounds are kept.
Healthy_KeepsAttempts ==
    /\ pc = "fixUp" /\ trouble \notin {"env", "config", "proxy"}
    /\ NoTries
    /\ Loop(attempts)
    /\ UNCHANGED <<device, files, back, counts, cooldown, wiped, commanded, fulaRan, bounds>>

Healthy ==
    /\ pc = "fixUp" /\ trouble \notin {"env", "config", "proxy"}
    /\ attempts' = 0 /\ NoTries
    /\ Loop(attempts')
    /\ UNCHANGED <<device, files, back, fulaAttempts, offline, cooldown, wiped, commanded,
                   fulaRan, bounds>>

\* Mutant of Unhealthy: a round with a container down is not counted.
Unhealthy_Uncounted ==
    /\ pc = "fixDown" /\ trouble \notin {"env", "config"}
    /\ Loop(attempts)
    /\ UNCHANGED <<device, files, back, counts, cooldown, history, bounds>>

Unhealthy ==
    /\ pc = "fixDown" /\ trouble \notin {"env", "config"}
    /\ FailedRound /\ Loop(attempts')
    /\ UNCHANGED <<device, files, back, fulaAttempts, offline, cooldown, wiped, commanded,
                   fulaRan, bounds>>

----------------------------------------------------------------------------
(* The escalation                                                          *)

\* The start the last round ordered has come to its script: systemctl returns after
\* ExecStartPre, and the round sleeps for half a minute after it.
BoundaryRepairs == pc = "boundary" /\ fula # "ordered" /\ BeginRepair("boundary")

BoundarySupports ==
    /\ pc = "boundary" /\ fula # "ordered" /\ ~Repairable
    /\ Supports
    /\ pc' = "flag"
    /\ UNCHANGED <<trouble, link, fula, go, files, back, counts, cooldown, history, bounds>>

\* The flag is young: wait, in red the first time.
Waits ==
    /\ pc = "flag" /\ flag = "young"
    /\ Supports
    /\ \/ gaveUp /\ MonitorReturns
       \/ ~gaveUp /\ pc' = "red" /\ UNCHANGED <<attempts, tries, wiped>>
    /\ UNCHANGED <<trouble, link, fula, go, files, back, fulaAttempts, offline, cooldown,
                   commanded, fulaRan, bounds>>

Red ==
    /\ pc = "red"
    /\ Supports
    /\ gaveUp' = TRUE
    /\ MonitorReturns
    /\ UNCHANGED <<trouble, link, fula, go, flag, partCmd, back, fulaAttempts, offline,
                   cooldown, commanded, fulaRan, bounds>>

\* The flag is old: it is removed.
RemoveFlag ==
    /\ pc = "flag" /\ flag = "old"
    /\ flag' = "none"
    /\ UNCHANGED <<device, gaveUp, partCmd, pc, back, counts, cooldown, history, bounds>>

\* Mutant of TouchFlag: the flag is not touched before the command is given.
TouchFlag_After ==
    /\ pc = "flag" /\ flag = "none"
    /\ pc' = "command"
    /\ UNCHANGED <<device, files, back, counts, cooldown, history, bounds>>

TouchFlag ==
    /\ pc = "flag" /\ flag = "none"
    /\ flag' = "young"
    /\ fulaRan' = IF fulaRan = "between" THEN "yes" ELSE fulaRan
    /\ pc' = "command"
    /\ UNCHANGED <<device, gaveUp, partCmd, back, counts, cooldown, tries, wiped,
                   commanded, bounds>>

\* touch .command_partition.  A file that exists creates no event, and commands.sh
\* may be between two calls of inotifywait.
CommandPartition ==
    /\ pc = "command"
    /\ partCmd' \in IF partCmd = "none" THEN {"seen", "missed"} ELSE {partCmd}
    /\ commanded' = "young"
    /\ fulaRan' = IF fulaRan = "between" THEN "yes" ELSE "no"
    /\ MonitorReturns
    /\ UNCHANGED <<device, flag, gaveUp, back, fulaAttempts, offline, cooldown, bounds>>

----------------------------------------------------------------------------
(* check_and_repair_ext4                                                   *)

\* e2fsck has run, or the device was not to be had: last_fsck_time is set.
Fsck ==
    /\ pc = "repair"
    /\ trouble' \in {trouble, "none"}
    /\ cooldown' = TRUE
    /\ pc' = "repaired"
    /\ UNCHANGED <<link, fula, go, wg, files, back, counts, history, bounds>>

\* A call of the repair raises: last_fsck_time is not set.
RepairFails ==
    /\ pc = "repair"
    /\ Fault
    /\ pc' = "repaired"
    /\ UNCHANGED <<device, files, back, counts, cooldown, history>>

\* The finally, and what the callers do with the result.
RestartServices ==
    /\ pc = "repaired"
    /\ UNCHANGED trouble /\ FulaStarts
    /\ \/ back = "round" /\ pc' = "round" /\ UNCHANGED <<attempts, tries, wiped>>
       \/ back # "round" /\ MonitorReturns
    /\ fulaAttempts' = IF back = "main" THEN 0 ELSE fulaAttempts
    /\ back' = "main"
    /\ UNCHANGED <<link, wg, files, offline, cooldown, commanded, fulaRan, bounds>>

----------------------------------------------------------------------------
Main       == EnterMonitor \/ NoWifi \/ MainRepairs \/ MainFixesEnv \/ MainRestartsFula
              \/ MainSupports
Monitor    == ReadDocker \/ RoundRepairs \/ StopAll \/ StartAll \/ ConditionsPass
              \/ RestartDocker \/ Inspect \/ Fixes \/ RestartForProxy \/ Healthy \/ Unhealthy
Escalation == BoundaryRepairs \/ BoundarySupports \/ Waits \/ Red \/ RemoveFlag
              \/ TouchFlag \/ CommandPartition
Repair     == Fsck \/ RestartServices
Runs       == StartsAgain \/ Main \/ Monitor \/ Escalation \/ Repair
Services   == FulaScript \/ ComposeUp \/ GoRestarts \/ Repartition
World      == Break \/ Heal \/ Connect \/ GoExits \/ HourPasses \/ HalfDayPasses
              \/ PowerCut \/ Dies \/ RepairFails

Next == Runs \/ Services \/ World

Spec == Init /\ [][Next]_vars

\* The watchdog's steps end, as its calls have timeouts; fula.sh runs, and Docker
\* restarts what exits.
FairSpec ==
    /\ Spec
    /\ WF_vars(Runs)
    /\ WF_vars(FulaScript) /\ WF_vars(ComposeUp) /\ WF_vars(GoRestarts)

----------------------------------------------------------------------------
(* Properties                                                              *)

TypeOK ==
    /\ trouble \in Troubles \cup {"none", "mount"}
    /\ link \in Links
    /\ fula \in {"off", "starting", "ordered", "up"}
    /\ go \in {"absent", "stopped", "running"}
    /\ wg \in BOOLEAN
    /\ flag \in {"none", "young", "old"}
    /\ gaveUp \in BOOLEAN
    /\ partCmd \in {"none", "seen", "missed"}
    /\ pc \in Steps
    /\ back \in {"main", "round", "boundary"}
    /\ fulaAttempts \in 0..4 /\ offline \in 0..WifiCycles /\ attempts \in 0..5
    /\ cooldown \in BOOLEAN
    /\ rounds \in 0..4 /\ restarts \in 0..4
    /\ wiped \in BOOLEAN
    /\ commanded \in {"never", "young", "old"}
    /\ fulaRan \in {"no", "yes", "between"}
    /\ troubles \in 0..MaxTroubles /\ faults \in 0..MaxFaults

\* The disks are put up for formatting only when a round has failed and, with no
\* healthy one in between, four rounds have, each restart of docker.service inside
\* them counting as one more (or when a drive of another format was found): failures
\* that were months apart do not add up, in whatever loop they were counted.  One
\* failed round in which docker.service was restarted three times is enough.
PartitionAfterFourFailures ==
    [][CommandPartition => wiped \/ (rounds >= 1 /\ rounds + restarts >= 4)]_vars

\* No round begins when rounds and restarts of docker.service make four: a round may
\* jump over the limit, and the escalation comes all the same
\* (readiness-check.py:4175-4291, restart_attempts).
EscalatesAtFour ==
    pc \in {"round", "check", "checkDown", "restart"} => rounds + restarts < 4

\* .reboot_flag keeps re-partitions twelve hours apart, through crashes between
\* the touches, power cuts and lost commands, as long as fula.sh has not run and
\* removed it.
RepartitionsGuarded == [][CommandPartition => commanded # "young" \/ fulaRan # "no"]_vars

\* readiness-check.py, of a flag younger than 12 hours: "Issue persists even after
\* reboot within 12 hours", which is the case in which it gives up and does not
\* command another re-partition.
RepartitionsSpaced == [][CommandPartition => commanded # "young"]_vars

\* A device with internet on which a container or the proxy stays broken gets the
\* support tunnel, again and again as reboots take it down, unless the watchdog
\* has died between stopping fula and starting it.
Lasting == trouble \in {"container", "proxy"} /\ link = "wan"

BrokenDeviceGetsSupport == <>[]Lasting /\ []<>(fula # "off") => []<>wg
=============================================================================

--------------------------- MODULE WatchdogProofs ---------------------------
(*************************************************************************)
(* Proofs about Watchdog: the types, that a re-partition is commanded    *)
(* only when failed rounds and restarts of docker.service inside them    *)
(* make four, that no round begins after that, and that, as long as      *)
(* fula.sh leaves .reboot_flag alone, none is commanded twice in twelve  *)
(* hours.                                                                *)
(*************************************************************************)
EXTENDS Watchdog, TLAPS

\* Where the watchdog is inside monitor_docker_logs_and_restart: in its loop, where
\* it starts a round or has to count it yet, and behind it.
InRepair == pc \in {"repair", "repaired"}
Outside  == pc \in {"main", "dead"} \/ (InRepair /\ back = "main")
InLoop   == pc \in {"round", "check", "checkDown", "restart", "docker"}
            \/ (InRepair /\ back = "round")
Inspects == pc \in {"inspect", "fixUp", "fixDown"}
Behind   == pc \in {"boundary", "flag", "command", "red"}
            \/ (InRepair /\ back = "boundary")

\* The count of attempts is that of failed rounds and restarts of docker.service
\* since the last healthy round, and where it stands.
Same    == attempts = rounds + restarts
Counted ==
    /\ Outside  => attempts = 0 /\ Same /\ ~wiped
    /\ InLoop   => attempts < 4 /\ Same
    /\ Inspects => attempts <= 4 /\ Same /\ rounds < 4
    /\ Behind   => attempts >= 4 /\ (wiped \/ (Same /\ rounds >= 1))

\* A re-partition of the last twelve hours shows in the flag, unless fula.sh has run.
Unseen  == commanded = "young" /\ fulaRan = "no"
Flagged ==
    /\ Unseen => flag = "young"
    /\ pc = "command" => ~Unseen /\ (flag = "young" \/ fulaRan = "between")

Inv == TypeOK /\ Counted /\ Flagged

LEMMA TypeInit == Init => TypeOK
<1>. SUFFICES ASSUME Init PROVE TypeOK
  OBVIOUS
<1>1. trouble \in Troubles \cup {"none", "mount"} /\ link \in Links
  BY DEF Init
<1>2. wg \in BOOLEAN /\ gaveUp \in BOOLEAN /\ cooldown \in BOOLEAN /\ wiped \in BOOLEAN
  BY DEF Init
<1>3. /\ fulaAttempts \in 0..4 /\ offline \in 0..WifiCycles
      /\ attempts \in 0..5 /\ rounds \in 0..4 /\ restarts \in 0..4
  BY WatchdogAssumption DEF Init
<1>4. troubles \in 0..MaxTroubles /\ faults \in 0..MaxFaults
  BY WatchdogAssumption DEF Init
<1>5. pc \in Steps
  BY DEF Init, Steps
<1>. QED
  BY <1>1, <1>2, <1>3, <1>4, <1>5 DEF Init, TypeOK

LEMMA InitInv == Init => Inv
<1>. SUFFICES ASSUME Init PROVE Inv
  OBVIOUS
<1>1. TypeOK
  BY TypeInit
<1>2. Counted
  BY DEF Init, Counted, Same, Outside, InLoop, Inspects, Behind, InRepair
<1>3. Flagged
  BY DEF Init, Flagged, Unseen
<1>. QED
  BY <1>1, <1>2, <1>3 DEF Inv

\* A failed round keeps the counts together, up to the four at which the loop ends.
LEMMA Failed ==
  ASSUME TypeOK, attempts <= 4, rounds < 4, Same, FailedRound
  PROVE  /\ attempts' \in 0..5 /\ rounds' \in 0..4 /\ restarts' \in 0..4
         /\ rounds' >= 1 /\ Same'
         /\ attempts' < 4 => rounds' < 4
         /\ ~(attempts' < 4) => attempts' >= 4
<1>1. attempts \in 0..5 /\ rounds \in 0..4 /\ restarts \in 0..4
  BY DEF TypeOK
<1>. QED
  BY <1>1 DEF FailedRound, Same

\* So does a restart of docker.service.
LEMMA Restarted ==
  ASSUME TypeOK, attempts < 4, Same, DockerRestarted
  PROVE  attempts' \in 0..5 /\ attempts' <= 4 /\ Same' /\ restarts' \in 0..4 /\ rounds' \in 0..4 /\ rounds' < 4
<1>1. attempts \in 0..5 /\ rounds \in 0..4 /\ restarts \in 0..4
  BY DEF TypeOK
<1>. QED
  BY <1>1 DEF DockerRestarted, Same

\* In the loop four rounds have not failed.
LEMMA Below == ASSUME TypeOK, attempts < 4, Same PROVE rounds < 4 /\ attempts <= 4
<1>1. attempts \in 0..5 /\ rounds \in 0..4 /\ restarts \in 0..4
  BY DEF TypeOK
<1>. QED
  BY <1>1 DEF Same

LEMMA TypeInductive == ASSUME TypeOK, Counted, [Next]_vars PROVE TypeOK'
<1>0. /\ 0 \in 0..4 /\ 4 \in 0..4
      /\ 0 \in 0..5 /\ 4 \in 0..5
      /\ 0 \in 0..WifiCycles /\ 1 \in 0..WifiCycles
      /\ fulaAttempts < 4 => fulaAttempts + 1 \in 0..4
      /\ offline # WifiCycles => offline + 1 \in 0..WifiCycles
      /\ attempts < 4 => attempts <= 4
      /\ attempts <= 4 => attempts + 1 \in 0..5
      /\ troubles > 0 => troubles - 1 \in 0..MaxTroubles
      /\ faults > 0 => faults - 1 \in 0..MaxFaults
  BY WatchdogAssumption DEF TypeOK
<1>. USE DEF TypeOK
<1>1. CASE World
  <2>1. CASE Break
    BY <2>1, <1>0 DEF Break, files, counts, history, tries, Steps
  <2>2. CASE Heal
    BY <2>2, <1>0 DEF Heal, files, counts, history, tries, bounds, Steps
  <2>3. CASE Connect
    BY <2>3, <1>0 DEF Connect, files, counts, history, tries, bounds, Steps
  <2>4. CASE GoExits
    BY <2>4, <1>0 DEF GoExits, files, counts, history, tries, Steps
  <2>5. CASE HourPasses
    <3>1. wg' \in BOOLEAN /\ gaveUp' \in BOOLEAN /\ cooldown' \in BOOLEAN /\ wiped' \in BOOLEAN
      BY <2>5 DEF HourPasses, device, files, counts, history, tries, bounds
    <3>. QED
      BY <2>5, <1>0, <3>1 DEF HourPasses, device, files, counts, history, tries, bounds,
           Steps
  <2>6. CASE HalfDayPasses
    BY <2>6, <1>0 DEF HalfDayPasses, tries, device, counts, bounds, Steps
  <2>7. CASE PowerCut
    <3>1. wg' \in BOOLEAN /\ gaveUp' \in BOOLEAN /\ cooldown' \in BOOLEAN /\ wiped' \in BOOLEAN
      BY <2>7 DEF PowerCut, Boots, Fault, WatchdogStarts, MemoryIsEmpty, NoTries
    <3>. QED
      BY <2>7, <1>0, <3>1 DEF PowerCut, Boots, Fault, WatchdogStarts, MemoryIsEmpty, NoTries,
           Steps
  <2>8. CASE Dies
    <3>1. wg' \in BOOLEAN /\ gaveUp' \in BOOLEAN /\ cooldown' \in BOOLEAN /\ wiped' \in BOOLEAN
      BY <2>8 DEF Dies, MemoryIsEmpty, NoTries, Fault, device, files
    <3>. QED
      BY <2>8, <1>0, <3>1 DEF Dies, MemoryIsEmpty, NoTries, Fault, device, files, Steps
  <2>9. CASE RepairFails
    BY <2>9, <1>0 DEF RepairFails, Fault, device, files, counts, history, tries, Steps
  <2>. QED
    BY <1>1, <2>1, <2>2, <2>3, <2>4, <2>5, <2>6, <2>7, <2>8, <2>9 DEF World
<1>2. CASE Services
  <2>1. CASE FulaScript
    BY <2>1, <1>0 DEF FulaScript, tries, counts, bounds, Steps
  <2>2. CASE ComposeUp
    BY <2>2, <1>0 DEF ComposeUp, files, counts, history, tries, bounds, Steps
  <2>3. CASE GoRestarts
    BY <2>3, <1>0 DEF GoRestarts, files, counts, history, tries, bounds, Steps
  <2>4. CASE Repartition
    <3>1. wg' \in BOOLEAN /\ gaveUp' \in BOOLEAN /\ cooldown' \in BOOLEAN /\ wiped' \in BOOLEAN
      BY <2>4 DEF Repartition, Boots, WatchdogStarts, MemoryIsEmpty, NoTries, device, counts, history, tries, bounds
    <3>. QED
      BY <2>4, <1>0, <3>1 DEF Repartition, Boots, WatchdogStarts, MemoryIsEmpty, NoTries,
           Steps, device, counts, history, tries, bounds
  <2>. QED
    BY <1>2, <2>1, <2>2, <2>3, <2>4 DEF Services
<1>3. CASE StartsAgain
  <2>1. wg' \in BOOLEAN /\ gaveUp' \in BOOLEAN /\ cooldown' \in BOOLEAN /\ wiped' \in BOOLEAN
    BY <1>3 DEF StartsAgain, WatchdogStarts, device, bounds, MemoryIsEmpty, NoTries
  <2>. QED
    BY <1>3, <1>0, <2>1 DEF StartsAgain, WatchdogStarts, device, bounds,
         MemoryIsEmpty, NoTries, Steps
<1>4. CASE Main
  <2>1. CASE EnterMonitor
    <3>1. wg' \in BOOLEAN /\ gaveUp' \in BOOLEAN /\ cooldown' \in BOOLEAN /\ wiped' \in BOOLEAN
      BY <2>1 DEF EnterMonitor, FulaStops, tries, files, bounds
    <3>. QED
      BY <2>1, <1>0, <3>1 DEF EnterMonitor, FulaStops, tries, files, bounds, Steps
  <2>2. CASE NoWifi
    BY <2>2, <1>0 DEF NoWifi, Supports, files, history, tries, bounds, Steps
  <2>3. CASE MainRepairs
    BY <2>3, <1>0 DEF MainRepairs, BeginRepair, FulaStops, files, counts, history, tries,
         bounds, Steps
  <2>4. CASE MainFixesEnv
    BY <2>4, <1>0 DEF MainFixesEnv, FulaStarts, files, history, tries, bounds, Steps
  <2>5. CASE MainRestartsFula
    BY <2>5, <1>0 DEF MainRestartsFula, FulaStarts, files, history, tries, bounds, Steps
  <2>6. CASE MainSupports
    BY <2>6, <1>0 DEF MainSupports, Supports, files, counts, history, tries, bounds, Steps
  <2>. QED
    BY <1>4, <2>1, <2>2, <2>3, <2>4, <2>5, <2>6 DEF Main
<1>5. CASE Monitor
  <2>1. CASE ReadDocker
    BY <2>1, <1>0 DEF ReadDocker, device, files, counts, history, tries, bounds, Steps
  <2>2. CASE RoundRepairs
    BY <2>2, <1>0 DEF RoundRepairs, BeginRepair, FulaStops, files, counts, history, tries,
         bounds, Steps
  <2>3. CASE StopAll
    BY <2>3, <1>0 DEF StopAll, FulaStops, files, counts, history, tries, bounds, Steps
  <2>4. CASE StartAll
    <3>1. attempts < 4 /\ Same /\ FailedRound
      BY <2>4 DEF StartAll, Counted, InLoop, Inspects
    <3>2. rounds < 4 /\ attempts <= 4
      BY <3>1, Below
    <3>3. attempts' \in 0..5 /\ rounds' \in 0..4 /\ restarts' \in 0..4
      BY <3>1, <3>2, Failed
    <3>. QED
      BY <2>4, <1>0, <3>3 DEF StartAll, FulaStarts, Loop, files, bounds, Steps
  <2>5. CASE ConditionsPass
    BY <2>5, <1>0 DEF ConditionsPass, device, files, counts, history, tries, bounds, Steps
  <2>6. CASE RestartDocker
    <3>1. attempts < 4 /\ Same /\ DockerRestarted
      BY <2>6 DEF RestartDocker, Counted, InLoop, Inspects
    <3>3. attempts' \in 0..5 /\ rounds' \in 0..4 /\ restarts' \in 0..4
      BY <3>1, Restarted
    <3>. QED
      BY <2>6, <1>0, <3>3 DEF RestartDocker, FulaStarts, files, bounds, Steps
  <2>7. CASE Inspect
    BY <2>7, <1>0 DEF Inspect, FulaStarts, files, counts, history, tries, bounds, Steps
  <2>8. CASE Fixes
    <3>1. attempts <= 4 /\ rounds < 4 /\ Same /\ FailedRound
      BY <2>8 DEF Fixes, Counted, InLoop, Inspects
    <3>3. attempts' \in 0..5 /\ rounds' \in 0..4 /\ restarts' \in 0..4
      BY <3>1, Failed
    <3>. QED
      BY <2>8, <1>0, <3>3 DEF Fixes, FulaStarts, Loop, files, bounds, Steps
  <2>9. CASE RestartForProxy
    <3>1. attempts <= 4 /\ rounds < 4 /\ Same /\ FailedRound
      BY <2>9 DEF RestartForProxy, Counted, InLoop, Inspects
    <3>3. attempts' \in 0..5 /\ rounds' \in 0..4 /\ restarts' \in 0..4
      BY <3>1, Failed
    <3>. QED
      BY <2>9, <1>0, <3>3 DEF RestartForProxy, FulaStarts, Loop, files, bounds, Steps
  <2>10. CASE Healthy
    BY <2>10, <1>0 DEF Healthy, NoTries, Loop, device, files, bounds, Steps
  <2>11. CASE Unhealthy
    <3>1. attempts <= 4 /\ rounds < 4 /\ Same /\ FailedRound
      BY <2>11 DEF Unhealthy, Counted, InLoop, Inspects
    <3>3. attempts' \in 0..5 /\ rounds' \in 0..4 /\ restarts' \in 0..4
      BY <3>1, Failed
    <3>. QED
      BY <2>11, <1>0, <3>3 DEF Unhealthy, Loop, device, files, bounds, Steps
  <2>. QED
    BY <1>5, <2>1, <2>2, <2>3, <2>4, <2>5, <2>6, <2>7, <2>8, <2>9, <2>10, <2>11 DEF
         Monitor
<1>6. CASE Escalation
  <2>1. CASE BoundaryRepairs
    BY <2>1, <1>0 DEF BoundaryRepairs, BeginRepair, FulaStops, files, counts,
         history, tries, bounds, Steps
  <2>2. CASE BoundarySupports
    BY <2>2, <1>0 DEF BoundarySupports, Supports, files, counts, history, tries, bounds,
         Steps
  <2>3. CASE Waits
    <3>1. wg' \in BOOLEAN /\ gaveUp' \in BOOLEAN /\ cooldown' \in BOOLEAN /\ wiped' \in BOOLEAN
      BY <2>3 DEF Waits, Supports, tries, MonitorReturns, NoTries, files, bounds
    <3>. QED
      BY <2>3, <1>0, <3>1 DEF Waits, Supports, tries, MonitorReturns, NoTries, files, bounds, Steps
  <2>4. CASE Red
    <3>1. wg' \in BOOLEAN /\ gaveUp' \in BOOLEAN /\ cooldown' \in BOOLEAN /\ wiped' \in BOOLEAN
      BY <2>4 DEF Red, Supports, MonitorReturns, NoTries, bounds
    <3>. QED
      BY <2>4, <1>0, <3>1 DEF Red, Supports, MonitorReturns, NoTries, bounds, Steps
  <2>5. CASE RemoveFlag
    BY <2>5, <1>0 DEF RemoveFlag, device, counts, history, tries, bounds, Steps
  <2>6. CASE TouchFlag
    BY <2>6, <1>0 DEF TouchFlag, tries, device, counts, bounds, Steps
  <2>7. CASE CommandPartition
    <3>1. wg' \in BOOLEAN /\ gaveUp' \in BOOLEAN /\ cooldown' \in BOOLEAN /\ wiped' \in BOOLEAN
      BY <2>7 DEF CommandPartition, MonitorReturns, NoTries, device, bounds
    <3>. QED
      BY <2>7, <1>0, <3>1 DEF CommandPartition, MonitorReturns, NoTries, device, bounds,
           Steps
  <2>. QED
    BY <1>6, <2>1, <2>2, <2>3, <2>4, <2>5, <2>6, <2>7 DEF Escalation
<1>7. CASE Repair
  <2>1. CASE Fsck
    BY <2>1, <1>0 DEF Fsck, files, counts, history, tries, bounds, Steps
  <2>2. CASE RestartServices
    <3>1. wg' \in BOOLEAN /\ gaveUp' \in BOOLEAN /\ cooldown' \in BOOLEAN /\ wiped' \in BOOLEAN
      BY <2>2 DEF RestartServices, FulaStarts, tries, MonitorReturns, NoTries, files, bounds
    <3>. QED
      BY <2>2, <1>0, <3>1 DEF RestartServices, FulaStarts, tries, MonitorReturns, NoTries, files,
           bounds, Steps
  <2>. QED
    BY <1>7, <2>1, <2>2 DEF Repair
<1>8. CASE UNCHANGED vars
  BY <1>8 DEF vars, device, files, counts, history, tries, bounds
<1>. QED
  BY <1>1, <1>2, <1>3, <1>4, <1>5, <1>6, <1>7, <1>8 DEF Next, Runs

\* The rounds counted between two healthy ones are all failed ones.
LEMMA CountInductive == ASSUME TypeOK, Counted, [Next]_vars PROVE Counted'
<1>0. attempts < 4 => attempts <= 4
  BY DEF TypeOK
<1>. USE DEF Counted, Same, Outside, InLoop, Inspects, Behind, InRepair
<1>1. CASE World
  <2>1. CASE Break
    BY <2>1 DEF Break, files, counts, history, tries
  <2>2. CASE Heal
    BY <2>2 DEF Heal, files, counts, history, tries, bounds
  <2>3. CASE Connect
    BY <2>3 DEF Connect, files, counts, history, tries, bounds
  <2>4. CASE GoExits
    BY <2>4 DEF GoExits, files, counts, history, tries
  <2>5. CASE HourPasses
    BY <2>5 DEF HourPasses, device, files, counts, history, tries, bounds
  <2>6. CASE HalfDayPasses
    BY <2>6 DEF HalfDayPasses, tries, device, counts, bounds
  <2>7. CASE PowerCut
    BY <2>7 DEF PowerCut, Boots, Fault, WatchdogStarts, MemoryIsEmpty, NoTries
  <2>8. CASE Dies
    BY <2>8 DEF Dies, MemoryIsEmpty, NoTries, Fault, device, files
  <2>9. CASE RepairFails
    BY <2>9 DEF RepairFails, Fault, device, files, counts, history, tries
  <2>. QED
    BY <1>1, <2>1, <2>2, <2>3, <2>4, <2>5, <2>6, <2>7, <2>8, <2>9 DEF World
<1>2. CASE Services
  <2>1. CASE FulaScript
    BY <2>1 DEF FulaScript, tries, counts, bounds
  <2>2. CASE ComposeUp
    BY <2>2 DEF ComposeUp, files, counts, history, tries, bounds
  <2>3. CASE GoRestarts
    BY <2>3 DEF GoRestarts, files, counts, history, tries, bounds
  <2>4. CASE Repartition
    BY <2>4 DEF Repartition, Boots, WatchdogStarts, MemoryIsEmpty, NoTries, device, counts, history, tries, bounds
  <2>. QED
    BY <1>2, <2>1, <2>2, <2>3, <2>4 DEF Services
<1>3. CASE StartsAgain
  BY <1>3 DEF StartsAgain, WatchdogStarts, device, bounds, MemoryIsEmpty, NoTries
<1>4. CASE Main
  <2>1. CASE EnterMonitor
    BY <2>1 DEF EnterMonitor, FulaStops, tries, files, bounds
  <2>2. CASE NoWifi
    BY <2>2 DEF NoWifi, Supports, files, history, tries, bounds
  <2>3. CASE MainRepairs
    BY <2>3 DEF MainRepairs, BeginRepair, FulaStops, files, counts, history, tries, bounds
  <2>4. CASE MainFixesEnv
    BY <2>4 DEF MainFixesEnv, FulaStarts, files, history, tries, bounds
  <2>5. CASE MainRestartsFula
    BY <2>5 DEF MainRestartsFula, FulaStarts, files, history, tries, bounds
  <2>6. CASE MainSupports
    BY <2>6 DEF MainSupports, Supports, files, counts, history, tries, bounds
  <2>. QED
    BY <1>4, <2>1, <2>2, <2>3, <2>4, <2>5, <2>6 DEF Main
<1>5. CASE Monitor
  <2>1. CASE ReadDocker
    BY <2>1 DEF ReadDocker, device, files, counts, history, tries, bounds
  <2>2. CASE RoundRepairs
    BY <2>2 DEF RoundRepairs, BeginRepair, FulaStops, files, counts, history, tries, bounds
  <2>3. CASE StopAll
    BY <2>3 DEF StopAll, FulaStops, files, counts, history, tries, bounds
  <2>4. CASE StartAll
    <3>1. attempts < 4 /\ Same /\ FailedRound
      BY <2>4 DEF StartAll
    <3>2. attempts <= 4 /\ rounds < 4
      BY <3>1, Below
    <3>. QED
      BY <2>4, <3>1, <3>2, <1>0, Failed DEF StartAll, Loop
  <2>5. CASE ConditionsPass
    <3>1. rounds < 4
      BY <2>5, Below DEF ConditionsPass
    <3>. QED
      BY <2>5, <1>0, <3>1 DEF ConditionsPass, device, files, counts, history, tries, bounds
  <2>6. CASE RestartDocker
    <3>1. attempts < 4 /\ Same /\ DockerRestarted
      BY <2>6 DEF RestartDocker
    <3>. QED
      BY <2>6, <3>1, <1>0, Restarted DEF RestartDocker
  <2>7. CASE Inspect
    BY <2>7 DEF Inspect, FulaStarts, files, counts, history, tries, bounds
  <2>8. CASE Fixes
    <3>1. attempts <= 4 /\ rounds < 4 /\ Same /\ FailedRound
      BY <2>8 DEF Fixes
    <3>. QED
      BY <2>8, <3>1, <1>0, Failed DEF Fixes, Loop
  <2>9. CASE RestartForProxy
    <3>1. attempts <= 4 /\ rounds < 4 /\ Same /\ FailedRound
      BY <2>9 DEF RestartForProxy
    <3>. QED
      BY <2>9, <3>1, <1>0, Failed DEF RestartForProxy, Loop
  <2>10. CASE Healthy
    BY <2>10 DEF Healthy, NoTries, Loop, device, files, bounds
  <2>11. CASE Unhealthy
    <3>1. attempts <= 4 /\ rounds < 4 /\ Same /\ FailedRound
      BY <2>11 DEF Unhealthy
    <3>. QED
      BY <2>11, <3>1, <1>0, Failed DEF Unhealthy, Loop
  <2>. QED
    BY <1>5, <2>1, <2>2, <2>3, <2>4, <2>5, <2>6, <2>7, <2>8, <2>9, <2>10, <2>11 DEF
         Monitor
<1>6. CASE Escalation
  <2>1. CASE BoundaryRepairs
    BY <2>1 DEF BoundaryRepairs, BeginRepair, FulaStops, files, counts, history, tries,
         bounds
  <2>2. CASE BoundarySupports
    BY <2>2 DEF BoundarySupports, Supports, files, counts, history, tries, bounds
  <2>3. CASE Waits
    BY <2>3 DEF Waits, Supports, tries, MonitorReturns, NoTries, files, bounds
  <2>4. CASE Red
    BY <2>4 DEF Red, Supports, MonitorReturns, NoTries, bounds
  <2>5. CASE RemoveFlag
    BY <2>5 DEF RemoveFlag, device, counts, history, tries, bounds
  <2>6. CASE TouchFlag
    BY <2>6 DEF TouchFlag, tries, device, counts, bounds
  <2>7. CASE CommandPartition
    BY <2>7 DEF CommandPartition, MonitorReturns, NoTries, device, bounds
  <2>. QED
    BY <1>6, <2>1, <2>2, <2>3, <2>4, <2>5, <2>6, <2>7 DEF Escalation
<1>7. CASE Repair
  <2>1. CASE Fsck
    BY <2>1 DEF Fsck, files, counts, history, tries, bounds
  <2>2. CASE RestartServices
    BY <2>2 DEF RestartServices, FulaStarts, tries, MonitorReturns, NoTries, files, bounds
  <2>. QED
    BY <1>7, <2>1, <2>2 DEF Repair
<1>8. CASE UNCHANGED vars
  BY <1>8 DEF vars, device, files, counts, history, tries, bounds
<1>. QED
  BY <1>1, <1>2, <1>3, <1>4, <1>5, <1>6, <1>7, <1>8 DEF Next, Runs

\* Only fula.sh and twelve hours take away the flag of a re-partition.
LEMMA FlagInductive == ASSUME Flagged, [Next]_vars PROVE Flagged'
<1>. USE DEF Flagged, Unseen
<1>1. CASE World
  <2>1. CASE Break
    BY <2>1 DEF Break, files, counts, history, tries
  <2>2. CASE Heal
    BY <2>2 DEF Heal, files, counts, history, tries, bounds
  <2>3. CASE Connect
    BY <2>3 DEF Connect, files, counts, history, tries, bounds
  <2>4. CASE GoExits
    BY <2>4 DEF GoExits, files, counts, history, tries
  <2>5. CASE HourPasses
    BY <2>5 DEF HourPasses, device, files, counts, history, tries, bounds
  <2>6. CASE HalfDayPasses
    BY <2>6 DEF HalfDayPasses, tries, device, counts, bounds
  <2>7. CASE PowerCut
    BY <2>7 DEF PowerCut, Boots, Fault, WatchdogStarts, MemoryIsEmpty, NoTries
  <2>8. CASE Dies
    BY <2>8 DEF Dies, MemoryIsEmpty, NoTries, Fault, device, files
  <2>9. CASE RepairFails
    BY <2>9 DEF RepairFails, Fault, device, files, counts, history, tries
  <2>. QED
    BY <1>1, <2>1, <2>2, <2>3, <2>4, <2>5, <2>6, <2>7, <2>8, <2>9 DEF World
<1>2. CASE Services
  <2>1. CASE FulaScript
    BY <2>1 DEF FulaScript, tries, counts, bounds
  <2>2. CASE ComposeUp
    BY <2>2 DEF ComposeUp, files, counts, history, tries, bounds
  <2>3. CASE GoRestarts
    BY <2>3 DEF GoRestarts, files, counts, history, tries, bounds
  <2>4. CASE Repartition
    BY <2>4 DEF Repartition, Boots, WatchdogStarts, MemoryIsEmpty, NoTries, device, counts, history, tries, bounds
  <2>. QED
    BY <1>2, <2>1, <2>2, <2>3, <2>4 DEF Services
<1>3. CASE StartsAgain
  BY <1>3 DEF StartsAgain, WatchdogStarts, device, bounds, MemoryIsEmpty, NoTries
<1>4. CASE Main
  <2>1. CASE EnterMonitor
    BY <2>1 DEF EnterMonitor, FulaStops, tries, files, bounds
  <2>2. CASE NoWifi
    BY <2>2 DEF NoWifi, Supports, files, history, tries, bounds
  <2>3. CASE MainRepairs
    BY <2>3 DEF MainRepairs, BeginRepair, FulaStops, files, counts, history, tries, bounds
  <2>4. CASE MainFixesEnv
    BY <2>4 DEF MainFixesEnv, FulaStarts, files, history, tries, bounds
  <2>5. CASE MainRestartsFula
    BY <2>5 DEF MainRestartsFula, FulaStarts, files, history, tries, bounds
  <2>6. CASE MainSupports
    BY <2>6 DEF MainSupports, Supports, files, counts, history, tries, bounds
  <2>. QED
    BY <1>4, <2>1, <2>2, <2>3, <2>4, <2>5, <2>6 DEF Main
<1>5. CASE Monitor
  <2>1. CASE ReadDocker
    BY <2>1 DEF ReadDocker, device, files, counts, history, tries, bounds
  <2>2. CASE RoundRepairs
    BY <2>2 DEF RoundRepairs, BeginRepair, FulaStops, files, counts, history, tries, bounds
  <2>3. CASE StopAll
    BY <2>3 DEF StopAll, FulaStops, files, counts, history, tries, bounds
  <2>4. CASE StartAll
    BY <2>4 DEF StartAll, FulaStarts, FailedRound, Loop, files, bounds
  <2>5. CASE ConditionsPass
    BY <2>5 DEF ConditionsPass, device, files, counts, history, tries, bounds
  <2>6. CASE RestartDocker
    BY <2>6 DEF RestartDocker, FulaStarts, DockerRestarted, files, bounds
  <2>7. CASE Inspect
    BY <2>7 DEF Inspect, FulaStarts, files, counts, history, tries, bounds
  <2>8. CASE Fixes
    BY <2>8 DEF Fixes, FulaStarts, FailedRound, Loop, files, bounds
  <2>9. CASE RestartForProxy
    BY <2>9 DEF RestartForProxy, FulaStarts, FailedRound, Loop, files, bounds
  <2>10. CASE Healthy
    BY <2>10 DEF Healthy, NoTries, Loop, device, files, bounds
  <2>11. CASE Unhealthy
    BY <2>11 DEF Unhealthy, FailedRound, Loop, device, files, bounds
  <2>. QED
    BY <1>5, <2>1, <2>2, <2>3, <2>4, <2>5, <2>6, <2>7, <2>8, <2>9, <2>10, <2>11 DEF
         Monitor
<1>6. CASE Escalation
  <2>1. CASE BoundaryRepairs
    BY <2>1 DEF BoundaryRepairs, BeginRepair, FulaStops, files, counts, history, tries,
         bounds
  <2>2. CASE BoundarySupports
    BY <2>2 DEF BoundarySupports, Supports, files, counts, history, tries, bounds
  <2>3. CASE Waits
    BY <2>3 DEF Waits, Supports, tries, MonitorReturns, NoTries, files, bounds
  <2>4. CASE Red
    BY <2>4 DEF Red, Supports, MonitorReturns, NoTries, bounds
  <2>5. CASE RemoveFlag
    BY <2>5 DEF RemoveFlag, device, counts, history, tries, bounds
  <2>6. CASE TouchFlag
    BY <2>6 DEF TouchFlag, tries, device, counts, bounds
  <2>7. CASE CommandPartition
    BY <2>7 DEF CommandPartition, MonitorReturns, NoTries, device, bounds
  <2>. QED
    BY <1>6, <2>1, <2>2, <2>3, <2>4, <2>5, <2>6, <2>7 DEF Escalation
<1>7. CASE Repair
  <2>1. CASE Fsck
    BY <2>1 DEF Fsck, files, counts, history, tries, bounds
  <2>2. CASE RestartServices
    BY <2>2 DEF RestartServices, FulaStarts, tries, MonitorReturns, NoTries, files, bounds
  <2>. QED
    BY <1>7, <2>1, <2>2 DEF Repair
<1>8. CASE UNCHANGED vars
  BY <1>8 DEF vars, device, files, counts, history, tries, bounds
<1>. QED
  BY <1>1, <1>2, <1>3, <1>4, <1>5, <1>6, <1>7, <1>8 DEF Next, Runs

LEMMA Invariance == Spec => []Inv
<1>1. Inv /\ [Next]_vars => Inv'
  BY TypeInductive, CountInductive, FlagInductive DEF Inv
<1>. QED
  BY InitInv, <1>1, PTL DEF Spec

\* The counters of the watchdog stay in their ranges: in particular the cycles
\* without Wi-Fi never exceed WifiCycles, so that twice as many are out of reach.
THEOREM TypeCorrect == Spec => []TypeOK
<1>1. Inv => TypeOK
  BY DEF Inv
<1>. QED
  BY <1>1, Invariance, PTL

\* The watchdog commands a re-partition only after a failed round, when the failed
\* rounds in a row and the restarts of docker.service inside them make four, or after
\* it has formatted a drive.
THEOREM FourFailures == Spec => PartitionAfterFourFailures
<1>1. ASSUME TypeOK, Same, attempts >= 4 PROVE rounds + restarts >= 4
  BY <1>1 DEF Same
<1>2. Inv => (pc = "command" => wiped \/ (rounds >= 1 /\ rounds + restarts >= 4))
  BY <1>1 DEF Inv, Counted, Behind
<1>3. Inv /\ [Next]_vars
        => [CommandPartition => wiped \/ (rounds >= 1 /\ rounds + restarts >= 4)]_vars
  BY <1>2 DEF CommandPartition
<1>. QED
  BY <1>3, Invariance, PTL DEF Spec, PartitionAfterFourFailures

\* .reboot_flag keeps re-partitions twelve hours apart unless fula.sh has run.
THEOREM Guarded == Spec => RepartitionsGuarded
<1>1. Inv /\ [Next]_vars => [CommandPartition => commanded # "young" \/ fulaRan # "no"]_vars
  BY DEF Inv, Flagged, Unseen, CommandPartition
<1>. QED
  BY <1>1, Invariance, PTL DEF Spec, RepartitionsGuarded

\* However often a round restarts docker.service: none begins when the failed rounds
\* and these restarts make four.
THEOREM FourEscalate == Spec => []EscalatesAtFour
<1>1. ASSUME TypeOK, Counted PROVE EscalatesAtFour
  <2>1. pc \in {"round", "check", "checkDown", "restart"} => attempts < 4 /\ Same
    BY <1>1 DEF Counted, InLoop
  <2>. QED
    BY <2>1 DEF EscalatesAtFour, Same
<1>2. Inv => EscalatesAtFour
  BY <1>1 DEF Inv
<1>. QED
  BY <1>2, Invariance, PTL

=============================================================================

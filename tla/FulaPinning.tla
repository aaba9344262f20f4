---------------------------- MODULE FulaPinning ----------------------------
(***************************************************************************)
(* The auto-pinning daemon of docker/fula-pinning: the process that polls  *)
(* box_props.json (main.go, config.go), the daemon it starts for the       *)
(* paired token (daemon.go), the priority queue its HTTP server feeds      *)
(* (server.go), and, as their environment, the remote pinning service, the *)
(* local kubo node and the file system.                                    *)
(*                                                                         *)
(* Time and content are abstracted to the order in which the remote        *)
(* service registered its pins.  remote[p] is the p-th pin; its CID is     *)
(* named by the position p.  An instant is the number of pins registered   *)
(* before it, so the watermark lastSyncAt is a position, and the zero time *)
(* (and a missing last_sync.txt) is 0: both make the next fetch complete.  *)
(***************************************************************************)
EXTENDS Integers, Sequences, FiniteSets

CONSTANTS
    Tokens,      \* the tokens box_props.json may hold
    Owner,       \* Owner[t] is the account token t authenticates
    None,        \* no token: unpaired, or no file
    Garbled,     \* box_props.json holds something that is not JSON
    FullEvery,   \* every FullEvery-th pass is a forced full one (10 in the code)
    QueueCap,    \* capacity of the priority queue (100 in the code)
    Overlap,     \* pins registered in the minute subtracted from lastSyncAt
    ClockAhead,  \* pins registered while the service's clock catches up with the
                 \* device's, beyond that minute (0: the clocks agree to a minute)
    MaxPins,     \* bound: pins ever registered
    MaxFaults,   \* bound: failed calls, failed writes, kubo resets and crashes
    MaxEdits,    \* bound: edits of box_props.json
    MaxReports   \* bound: CIDs sent to report-missing

Accounts  == {Owner[t] : t \in Tokens}
Positions == 1..MaxPins

ASSUME NamesAssumption ==
    None \notin Tokens /\ Garbled \notin Tokens /\ None # Garbled
ASSUME SizesAssumption ==
    /\ FullEvery \in Nat \ {0}
    /\ QueueCap \in Nat
    /\ Overlap \in Nat
    /\ ClockAhead \in Nat
    /\ MaxPins \in Nat
    /\ MaxFaults \in Nat
    /\ MaxEdits \in Nat
    /\ MaxReports \in Nat

VARIABLES
    \* the environment
    remote,        \* the service's pins, in the order of their registration
    kuboPins,      \* CIDs recursively pinned on the local kubo
    props,         \* what box_props.json holds
    \* files that outlive the process
    registryFile,  \* registry.cid: 0 when absent
    lastSyncFile,  \* last_sync.txt: 0 when absent
    syncing,       \* the marker file .syncing exists
    \* runWithConfig
    wpc,           \* "down", "polling", "stopping" or "exiting"
    cfg,           \* the token in the configuration last read, or None
    stopping,      \* the token of the daemon cleanup() is waiting for, or None
    \* one daemon per token that has been started
    pc,            \* where the daemon's goroutine is
    mem,           \* the fields of Daemon, its ticker and its context
    pass,          \* the locals of the running syncPins
    \* bookkeeping
    handled,       \* pins a pin loop found pinned, pinned, or failed to pin
    budget         \* the steps of the environment still allowed

envVars   == <<remote, props>>
files     == <<registryFile, lastSyncFile, syncing>>
watcher   == <<wpc, cfg, stopping>>
daemon    == <<pc, mem, pass>>
vars      == <<remote, kuboPins, props, registryFile, lastSyncFile, syncing,
               wpc, cfg, stopping, pc, mem, pass, handled, budget>>

Pin    == [acct : Accounts, registry : BOOLEAN]
Mem    == [lastSync  : Nat,               \* lastSyncAt
           cycle     : 0..(FullEvery-1),  \* syncCycle % FullEvery
           pinned    : SUBSET Positions,  \* pinnedCIDs
           queue     : Seq(Positions),    \* priorityQueue
           ticked    : BOOLEAN,           \* ticker.C holds a tick
           cancelled : BOOLEAN]           \* ctx.Done() is closed
Pass   == [mark : Nat,                    \* startTime
           reg  : 0..MaxPins,             \* registryCID, 0 for ""
           todo : SUBSET Positions,       \* remotePins still to be visited
           cur  : 0..MaxPins,             \* the pin PinAdd is working on
           marked : BOOLEAN]              \* bookkeeping: .syncing could be written
Steps  == {"off", "health", "idle", "fetch", "local", "registry",
           "loop", "add", "publish", "persist"}
Budget == [faults : 0..MaxFaults, edits : 0..MaxEdits, reports : 0..MaxReports]

NewPass == [mark |-> 0, reg |-> 0, todo |-> {}, cur |-> 0, marked |-> FALSE]
NoMem   == [lastSync |-> 0, cycle |-> 0, pinned |-> {},
            queue |-> <<>>, ticked |-> FALSE, cancelled |-> FALSE]
\* NewDaemon with loadLastSync
NewMem  == [NoMem EXCEPT !.lastSync = lastSyncFile]

\* A failing step of the environment is taken from the budget.
Fault == /\ budget.faults > 0
         /\ budget' = [budget EXCEPT !.faults = @ - 1]
NoFault == UNCHANGED budget

Paired(c) == c # None

Init ==
    /\ remote = <<>>
    /\ kuboPins = {}
    /\ props \in Tokens \cup {None}
    /\ registryFile = 0
    /\ lastSyncFile = 0
    /\ syncing = FALSE
    /\ wpc = "down"
    /\ cfg = None
    /\ stopping = None
    /\ pc = [t \in Tokens |-> "off"]
    /\ mem = [t \in Tokens |-> NoMem]
    /\ pass = [t \in Tokens |-> NewPass]
    /\ handled = {}
    /\ budget = [faults |-> MaxFaults, edits |-> MaxEdits, reports |-> MaxReports]

----------------------------------------------------------------------------
(* The environment                                                         *)

\* A client of the remote service registers a pin.
Register(a, isRegistry) ==
    /\ Len(remote) < MaxPins
    /\ remote' = Append(remote, [acct |-> a, registry |-> isRegistry])
    /\ UNCHANGED <<kuboPins, props, files, watcher, daemon, handled, budget>>

\* The app (or the user) rewrites box_props.json.
EditProps(v) ==
    /\ budget.edits > 0
    /\ v # props
    /\ props' = v
    /\ budget' = [budget EXCEPT !.edits = @ - 1]
    /\ UNCHANGED <<remote, kuboPins, files, watcher, daemon, handled>>

\* The kubo instance is replaced by one with no pins.
KuboReset ==
    /\ Fault
    /\ kuboPins' = {}
    /\ UNCHANGED <<envVars, files, watcher, daemon, handled>>

\* Kubo's answer to pin/add: an error, a timeout or a cancelled request says
\* nothing of whether kubo has pinned the CID.
PinAdded(t, c)  == kuboPins' = kuboPins \cup {c} /\ NoFault
PinRefused(t, c) ==
    /\ kuboPins' \in {kuboPins, kuboPins \cup {c}}
    /\ IF mem[t].cancelled THEN NoFault ELSE Fault

----------------------------------------------------------------------------
(* runWithConfig: one daemon for the paired token                          *)

\* loadProps: an unreadable file clears the credentials, an unparsable one
\* leaves them as they were.
LoadProps(old) == IF props = Garbled THEN old ELSE props

StartDaemon(c) ==
    IF Paired(c)
    THEN /\ pc' = [pc EXCEPT ![c] = "health"]
         /\ mem' = [mem EXCEPT ![c] = NewMem]
         /\ pass' = [pass EXCEPT ![c] = NewPass]
    ELSE UNCHANGED daemon

Cancel(t) == mem' = [mem EXCEPT ![t].cancelled = TRUE]

\* LoadConfig and the first startDaemon of a new process.
Boot ==
    /\ wpc = "down"
    /\ wpc' = "polling"
    /\ cfg' = LoadProps(None)
    /\ StartDaemon(cfg')
    /\ UNCHANGED <<envVars, kuboPins, files, stopping, handled, budget>>

\* Mutant of PollConfig: the old daemon is not cleaned up.
PollConfig_NoCleanup ==
    /\ wpc = "polling"
    /\ LoadProps(cfg) # cfg
    /\ cfg' = LoadProps(cfg)
    /\ StartDaemon(cfg')
    /\ UNCHANGED <<wpc, stopping, envVars, kuboPins, files, handled, budget>>

\* The 30 second poll sees another token: cleanup() starts, or, with no daemon
\* to clean up, the new one.
PollConfig ==
    /\ wpc = "polling"
    /\ LoadProps(cfg) # cfg
    /\ cfg' = LoadProps(cfg)
    /\ IF Paired(cfg)
       THEN /\ wpc' = "stopping"
            /\ stopping' = cfg
            /\ Cancel(cfg)
            /\ UNCHANGED <<pc, pass>>
       ELSE /\ UNCHANGED <<wpc, stopping>>
            /\ StartDaemon(cfg')
    /\ UNCHANGED <<envVars, kuboPins, files, handled, budget>>

\* Mutant of CleanupDone: no wg.Wait().
CleanupDone_NoWait ==
    /\ wpc = "stopping"
    /\ wpc' = "polling"
    /\ stopping' = None
    /\ StartDaemon(cfg)
    /\ UNCHANGED <<envVars, kuboPins, files, cfg, handled, budget>>

\* cleanup() returns from wg.Wait() and the daemon of the new token starts.
CleanupDone ==
    /\ wpc = "stopping"
    /\ pc[stopping] = "off"
    /\ wpc' = "polling"
    /\ stopping' = None
    /\ StartDaemon(cfg)
    /\ UNCHANGED <<envVars, kuboPins, files, cfg, handled, budget>>

\* SIGTERM: the context of the process is cancelled, and the daemon's with it.
Terminate ==
    /\ wpc = "polling"
    /\ Fault
    /\ wpc' = "exiting"
    /\ stopping' = cfg
    /\ IF Paired(cfg) THEN Cancel(cfg) ELSE UNCHANGED mem
    /\ UNCHANGED <<envVars, kuboPins, files, cfg, pc, pass, handled>>

Exit ==
    /\ wpc = "exiting"
    /\ Paired(stopping) => pc[stopping] = "off"
    /\ wpc' = "down"
    /\ cfg' = None
    /\ stopping' = None
    /\ UNCHANGED <<envVars, kuboPins, files, daemon, handled, budget>>

\* The process is killed: files stay as they are, .syncing included.
Crash ==
    /\ wpc # "down"
    /\ Fault
    /\ wpc' = "down"
    /\ cfg' = None
    /\ stopping' = None
    /\ pc' = [t \in Tokens |-> "off"]
    /\ mem' = [t \in Tokens |-> NoMem]
    /\ pass' = [t \in Tokens |-> NewPass]
    /\ UNCHANGED <<envVars, kuboPins, files, handled>>

----------------------------------------------------------------------------
(* Daemon.Run and syncPins                                                 *)

Goto(t, l) == pc' = [pc EXCEPT ![t] = l]

\* The deferred removal of .syncing, which may fail: syncPins returns to the select of Run.
Return(t) ==
    /\ Goto(t, "idle")
    /\ syncing' \in {FALSE, syncing}
    /\ pass' = [pass EXCEPT ![t] = NewPass]

\* The head of syncPins.  startTime is read before anything is fetched; whether
\* .syncing could be written is not looked at.
BeginSync(t, m, written) ==
    /\ \E ahead \in 0..ClockAhead :
          pass' = [pass EXCEPT ![t] =
                     [NewPass EXCEPT !.mark = Len(remote) + ahead, !.marked = written]]
    /\ syncing' = (written \/ syncing)
    /\ mem' = [mem EXCEPT ![t] =
                 [m EXCEPT !.cycle = (m.cycle + 1) % FullEvery]]
    /\ Goto(t, "fetch")
    /\ UNCHANGED <<envVars, kuboPins, registryFile, lastSyncFile, watcher, handled>>

Marks(t, m) == \/ NoFault /\ BeginSync(t, m, TRUE)
               \/ Fault /\ BeginSync(t, m, FALSE)

\* Kubo answers the health check.  A watermark with no pins on kubo means kubo
\* was replaced: forget the watermark.  If pin/ls fails, keep it.
Healthy(t) ==
    /\ pc[t] = "health"
    /\ ~mem[t].cancelled
    /\ \/ /\ kuboPins = {}
          /\ Marks(t, [mem[t] EXCEPT !.lastSync = 0])
       \/ /\ kuboPins # {}
          /\ Marks(t, mem[t])
       \/ /\ Fault
          /\ BeginSync(t, mem[t], TRUE)

Tick(t) ==
    /\ pc[t] = "idle"
    /\ ~mem[t].ticked
    /\ mem' = [mem EXCEPT ![t].ticked = TRUE]
    /\ UNCHANGED <<envVars, kuboPins, files, watcher, pc, pass, handled, budget>>

\* case <-ticker.C: Go's select may take it whatever else is ready.
TickSync(t) ==
    /\ pc[t] = "idle"
    /\ mem[t].ticked
    /\ Marks(t, [mem[t] EXCEPT !.ticked = FALSE])

\* case <-ctx.Done(), in the select and while waiting for kubo.
Done(t) ==
    /\ pc[t] \in {"idle", "health"}
    /\ mem[t].cancelled
    /\ Goto(t, "off")
    /\ mem' = [mem EXCEPT ![t] = NoMem]
    /\ UNCHANGED <<envVars, kuboPins, files, watcher, pass, handled, budget>>

\* Mutant of PinImmediately: a CID already in the cache is looked at, not taken.
PinImmediately_Peek(t) ==
    LET c == Head(mem[t].queue)
        popped == [mem[t] EXCEPT !.queue = Tail(@)]
    IN  /\ pc[t] = "idle"
        /\ mem[t].queue # <<>>
        /\ c \notin mem[t].pinned
        /\ \/ /\ ~mem[t].cancelled
              /\ PinAdded(t, c)
              /\ mem' = [mem EXCEPT ![t] = [popped EXCEPT !.pinned = @ \cup {c}]]
           \/ /\ PinRefused(t, c)
              /\ mem' = [mem EXCEPT ![t] = popped]
        /\ UNCHANGED <<envVars, files, watcher, pc, pass, handled>>

\* case cid := <-d.priorityQueue: pinImmediately
PinImmediately(t) ==
    LET c == Head(mem[t].queue)
        popped == [mem[t] EXCEPT !.queue = Tail(@)]
    IN  /\ pc[t] = "idle"
        /\ mem[t].queue # <<>>
        /\ \/ /\ c \in mem[t].pinned
              /\ mem' = [mem EXCEPT ![t] = popped]
              /\ NoFault
              /\ UNCHANGED kuboPins
           \/ /\ c \notin mem[t].pinned
              /\ ~mem[t].cancelled
              /\ PinAdded(t, c)
              /\ mem' = [mem EXCEPT ![t] = [popped EXCEPT !.pinned = @ \cup {c}]]
           \/ /\ c \notin mem[t].pinned
              /\ PinRefused(t, c)
              /\ mem' = [mem EXCEPT ![t] = popped]
        /\ UNCHANGED <<envVars, files, watcher, pc, pass, handled>>

\* handleReportMissing and QueuePriority for one CID: a full queue drops it.
\* The server is shut down as soon as the daemon's context is cancelled.
ReportMissing(t, c) ==
    /\ pc[t] # "off"
    /\ ~mem[t].cancelled
    /\ budget.reports > 0
    /\ budget' = [budget EXCEPT !.reports = @ - 1]
    /\ IF Len(mem[t].queue) < QueueCap
       THEN mem' = [mem EXCEPT ![t].queue = Append(@, c)]
       ELSE UNCHANGED mem
    /\ UNCHANGED <<envVars, kuboPins, files, watcher, pc, pass, handled>>

PinsOf(a) == {p \in 1..Len(remote) : remote[p].acct = a}
Since(a, k) == {p \in PinsOf(a) : p > k}

\* Mutant of LatestRegistry: the comparison of the creation times reversed.
LatestRegistry_Oldest(S, r) ==
    LET R == {p \in S : remote[p].registry}
    IN  IF R = {} THEN r = 0 ELSE r \in R /\ \A q \in R : r <= q

\* r is the newest pin named fula-bucket-registry in S, or 0 if there is none.
LatestRegistry(S, r) ==
    LET R == {p \in S : remote[p].registry}
    IN  IF R = {} THEN r = 0 ELSE r \in R /\ \A q \in R : q <= r

\* Mutant of ForceFullSync: no full pass is ever forced.
ForceFullSync_Never(m) == FALSE

ForceFullSync(m) == m.cycle = 0
Incremental(m)   == m.lastSync # 0 /\ ~ForceFullSync(m)

Fetched(t, S) ==
    /\ \E r \in 0..Len(remote) :
          /\ LatestRegistry(S, r)
          /\ pass' = [pass EXCEPT ![t].todo = S, ![t].reg = r]
    /\ Goto(t, "local")
    /\ UNCHANGED syncing

\* ListPinsSince, falling back to ListAllPins when it fails; ListAllPins on a
\* full pass.  The fetch has no context: a cancelled one runs to its end.
FetchRemote(t) ==
    /\ pc[t] = "fetch"
    /\ \/ /\ Incremental(mem[t])
          /\ NoFault
          /\ \E k \in (mem[t].lastSync - Overlap)..mem[t].lastSync :
                Fetched(t, Since(Owner[t], k))
       \/ /\ Incremental(mem[t])
          /\ Fault
          /\ Fetched(t, PinsOf(Owner[t]))
       \/ /\ ~Incremental(mem[t])
          /\ NoFault
          /\ Fetched(t, PinsOf(Owner[t]))
       \/ /\ Fault
          /\ Return(t)
    /\ UNCHANGED <<envVars, kuboPins, registryFile, lastSyncFile, watcher, mem, handled>>

\* pin/ls replaces the cache; on an error the pass ends with nothing changed.
ListLocal(t) ==
    /\ pc[t] = "local"
    /\ \/ /\ ~mem[t].cancelled
          /\ NoFault
          /\ mem' = [mem EXCEPT ![t].pinned = kuboPins]
          /\ Goto(t, "registry")
          /\ UNCHANGED <<pass, syncing>>
       \/ /\ IF mem[t].cancelled THEN NoFault ELSE Fault
          /\ Return(t)
          /\ UNCHANGED mem
    /\ UNCHANGED <<envVars, kuboPins, registryFile, lastSyncFile, watcher, handled>>

\* The registry CID is pinned first; a failure is only logged.
PinRegistry(t) ==
    LET r == pass[t].reg IN
    /\ pc[t] = "registry"
    /\ Goto(t, "loop")
    /\ \/ /\ r = 0 \/ r \in mem[t].pinned
          /\ NoFault
          /\ UNCHANGED <<kuboPins, mem>>
       \/ /\ r # 0 /\ r \notin mem[t].pinned
          /\ ~mem[t].cancelled
          /\ PinAdded(t, r)
          /\ mem' = [mem EXCEPT ![t].pinned = @ \cup {r}]
       \/ /\ r # 0 /\ r \notin mem[t].pinned
          /\ PinRefused(t, r)
          /\ UNCHANGED mem
    /\ UNCHANGED <<envVars, files, watcher, pass, handled>>

\* The head of the pin loop: a cancelled context ends the pass, a pin that is
\* already there is skipped, any other goes to PinAdd.
NextPin(t) ==
    /\ pc[t] = "loop"
    /\ \/ /\ pass[t].todo # {}
          /\ mem[t].cancelled
          /\ Return(t)
          /\ UNCHANGED handled
       \/ \E p \in pass[t].todo :
          /\ ~mem[t].cancelled
          /\ IF p \in mem[t].pinned
             THEN /\ pass' = [pass EXCEPT ![t].todo = @ \ {p}]
                  /\ handled' = handled \cup {p}
                  /\ UNCHANGED pc
             ELSE /\ pass' = [pass EXCEPT ![t].cur = p]
                  /\ Goto(t, "add")
                  /\ UNCHANGED handled
          /\ UNCHANGED syncing
       \/ /\ pass[t].todo = {}
          /\ Goto(t, "publish")
          /\ UNCHANGED <<pass, handled, syncing>>
    /\ UNCHANGED <<envVars, kuboPins, registryFile, lastSyncFile, watcher, mem, budget>>

\* Mutant of AddPin: a pin that kubo refused is tried again in the same pass.
AddPin_Retry(t) ==
    LET p == pass[t].cur IN
    /\ pc[t] = "add"
    /\ Goto(t, "loop")
    /\ \/ /\ ~mem[t].cancelled
          /\ PinAdded(t, p)
          /\ mem' = [mem EXCEPT ![t].pinned = @ \cup {p}]
          /\ pass' = [pass EXCEPT ![t].todo = @ \ {p}, ![t].cur = 0]
          /\ handled' = handled \cup {p}
       \/ /\ PinRefused(t, p)
          /\ pass' = [pass EXCEPT ![t].cur = 0]
          /\ UNCHANGED <<mem, handled>>
    /\ UNCHANGED <<envVars, files, watcher>>

\* PinAdd of the pin at hand; a failure is counted and the loop goes on.
AddPin(t) ==
    LET p == pass[t].cur IN
    /\ pc[t] = "add"
    /\ Goto(t, "loop")
    /\ pass' = [pass EXCEPT ![t].todo = @ \ {p}, ![t].cur = 0]
    /\ handled' = handled \cup {p}
    /\ \/ /\ ~mem[t].cancelled
          /\ PinAdded(t, p)
          /\ mem' = [mem EXCEPT ![t].pinned = @ \cup {p}]
       \/ /\ PinRefused(t, p)
          /\ UNCHANGED mem
    /\ UNCHANGED <<envVars, files, watcher>>

\* writeRegistryCID: a temporary file and a rename; an error leaves the file.
WriteRegistryCID(t) ==
    /\ pc[t] = "publish"
    /\ Goto(t, "persist")
    /\ \/ /\ NoFault
          /\ registryFile' = IF pass[t].reg # 0 THEN pass[t].reg ELSE registryFile
       \/ /\ Fault
          /\ UNCHANGED registryFile
    /\ UNCHANGED <<envVars, kuboPins, lastSyncFile, syncing, watcher, mem, pass, handled>>

\* Mutant of PersistLastSync: the time the pass ended, not the time it started.
PersistLastSync_EndTime(t) ==
    /\ pc[t] = "persist"
    /\ mem' = [mem EXCEPT ![t].lastSync = Len(remote)]
    /\ lastSyncFile' = Len(remote)
    /\ NoFault
    /\ Return(t)
    /\ UNCHANGED <<envVars, kuboPins, registryFile, watcher, handled>>

\* lastSyncAt = startTime and persistLastSync; the pass is over.
PersistLastSync(t) ==
    /\ pc[t] = "persist"
    /\ mem' = [mem EXCEPT ![t].lastSync = pass[t].mark]
    /\ \/ NoFault /\ lastSyncFile' = pass[t].mark
       \/ Fault /\ UNCHANGED lastSyncFile
    /\ Return(t)
    /\ UNCHANGED <<envVars, kuboPins, registryFile, watcher, handled>>

----------------------------------------------------------------------------
Sync(t) ==
    \/ FetchRemote(t) \/ ListLocal(t) \/ PinRegistry(t) \/ NextPin(t)
    \/ AddPin(t) \/ WriteRegistryCID(t) \/ PersistLastSync(t)

Daemon(t) ==
    \/ Healthy(t) \/ Tick(t) \/ TickSync(t) \/ Done(t) \/ PinImmediately(t)
    \/ Sync(t)

Watcher == Boot \/ PollConfig \/ CleanupDone \/ Terminate \/ Exit \/ Crash

Environment ==
    \/ \E a \in Accounts, b \in BOOLEAN : Register(a, b)
    \/ \E v \in Tokens \cup {None, Garbled} : EditProps(v)
    \/ \E t \in Tokens, c \in Positions : ReportMissing(t, c)
    \/ KuboReset

Next == Environment \/ Watcher \/ \E t \in Tokens : Daemon(t)

Spec == Init /\ [][Next]_vars

(***************************************************************************)
(* Fairness.  The goroutines run, the container is restarted (restart:     *)
(* unless-stopped), the tickers fire, calls return (they have timeouts).   *)
(* Go's select chooses uniformly among the ready cases, so a case ready    *)
(* again and again is taken: strong fairness for the cases of the select.  *)
(* Nothing is assumed of the environment.                                  *)
(***************************************************************************)
Fairness ==
    /\ WF_vars(Boot) /\ WF_vars(PollConfig) /\ WF_vars(CleanupDone) /\ WF_vars(Exit)
    /\ \A t \in Tokens :
          /\ WF_vars(Healthy(t)) /\ WF_vars(Tick(t)) /\ WF_vars(Sync(t))
          /\ SF_vars(TickSync(t)) /\ SF_vars(Done(t)) /\ SF_vars(PinImmediately(t))

FairSpec == Spec /\ Fairness

----------------------------------------------------------------------------
(* Properties                                                              *)

TypeOK ==
    /\ remote \in Seq(Pin) /\ Len(remote) <= MaxPins
    /\ kuboPins \subseteq Positions
    /\ props \in Tokens \cup {None, Garbled}
    /\ registryFile \in 0..MaxPins
    /\ lastSyncFile \in Nat
    /\ syncing \in BOOLEAN
    /\ wpc \in {"down", "polling", "stopping", "exiting"}
    /\ cfg \in Tokens \cup {None}
    /\ stopping \in Tokens \cup {None}
    /\ pc \in [Tokens -> Steps]
    /\ mem \in [Tokens -> Mem]
    /\ pass \in [Tokens -> Pass]
    /\ handled \subseteq Positions
    /\ budget \in Budget

Running(t) == pc[t] # "off"
InPass(t)  == pc[t] \notin {"off", "health", "idle"}

AfterFetch == {"local", "registry", "loop", "add", "publish", "persist"}

\* The token whose daemon the process owns, None when it owns none.
Current == IF wpc \in {"stopping", "exiting"} THEN stopping ELSE cfg

\* A daemon runs only for the token the process owns: cleanup waits for the old
\* daemon before the next starts, so two never share kubo, registry.cid,
\* last_sync.txt and .syncing, also when the token is rotated mid-pass.
SingleDaemon == \A t \in Tokens : Running(t) => wpc # "down" /\ t = Current

\* registry.cid is only ever changed to a registry of the account whose daemon
\* the process owns at that moment (README, "User isolation"): a pass begun for
\* the previous user never publishes after the next user's daemon has started.
PublishesForPairedUser ==
    [][registryFile' # registryFile =>
          /\ Current \in Tokens
          /\ remote[registryFile'].acct = Owner[Current]
          /\ remote[registryFile'].registry]_vars

\* .syncing tells go-fula that a pass is in progress: a pass that could write the marker
\* has it to its end, whatever passes, failed writes, crashes and restarts came before
\* (daemon.go:90-94).
MarkerDuringPass == \A t \in Tokens : InPass(t) /\ pass[t].marked => syncing

\* Every pin registered before a watermark has been through a pin loop: the next
\* incremental fetch asks for nothing older, so a pin below the watermark that
\* was never offered to kubo would wait for a forced full pass.  During a pass
\* the pins below the watermark it will leave, and below the registry it will
\* publish, are behind it or still to be visited.
WatermarkCovered ==
    /\ handled \subseteq 1..Len(remote)
    /\ 1..lastSyncFile \subseteq handled
    /\ \A t \in Tokens : 1..mem[t].lastSync \subseteq handled
    /\ \A t \in Tokens : pc[t] \in AfterFetch =>
          /\ pass[t].todo \subseteq 1..Len(remote)
          /\ 1..pass[t].mark \subseteq handled \cup pass[t].todo
          /\ 1..pass[t].reg \subseteq handled \cup pass[t].todo

\* registry.cid as the gateway sees it, against what the daemon promises.
Promise == INSTANCE PinPromise WITH
    PinSet <- Pin, registered <- remote, offered <- handled,
    published <- registryFile

\* The daemon implements the promise: a registry is published after every
\* earlier pin was offered to kubo and never after a newer one.
KeepsPromise == Promise!Spec

\* How far a pass is from its end: the steps it has still to take.
StepsLeft(t) ==
    2 * Cardinality(pass[t].todo)
      + CASE pc[t] = "local"    -> 5
          [] pc[t] = "registry" -> 4
          [] pc[t] = "loop"     -> 3
          [] pc[t] = "add"      -> 2
          [] pc[t] = "publish"  -> 1
          [] OTHER              -> 0

\* Once the remote pins are fetched a pass ends after a bounded number of steps, whatever
\* kubo refuses and whatever is registered, reported or reset meanwhile: each step of the
\* daemon brings it nearer to its end, and nobody else's sets it back
\* (daemon.go:138-215).
PassAdvances ==
    [][\A t \in Tokens : pc[t] \in AfterFetch =>
          \/ pc'[t] \in {"idle", "off"}
          \/ ~Sync(t) /\ pc'[t] = pc[t] /\ pass'[t] = pass[t]
          \/ pc'[t] \in AfterFetch /\ StepsLeft(t)' < StepsLeft(t)]_vars

\* Every pin of the account box_props.json settles on is pinned on kubo for
\* good, whatever failed, was reset, crashed or was rotated before.
PinsReplicated ==
    <>[](\A p \in 1..Len(remote) :
            props \in Tokens /\ remote[p].acct = Owner[props] => p \in kuboPins)

\* registry.cid ends up holding the newest registry of that account, if it has
\* one: a new user's registry replaces the previous user's.
RegistryConverges ==
    <>[](props \in Tokens =>
            \A r \in PinsOf(Owner[props]) : remote[r].registry =>
                /\ registryFile >= r
                /\ remote[registryFile].acct = Owner[props])

\* A CID that report-missing queued leaves the queue: the select takes it, or
\* the daemon is stopped and the queue goes with it.
QueueDrains == \A t \in Tokens : mem[t].queue # <<>> ~> mem[t].queue = <<>>
=============================================================================

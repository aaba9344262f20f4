------------------------- MODULE FulaPinningProofs -------------------------
(*************************************************************************)
(* Proofs about FulaPinning for every value of its constants: the types, *)
(* the exclusion of two daemons, the marker of a pass, what brings a     *)
(* pass to its end, whose registry is published, and, for one account    *)
(* and clocks that agree, that the daemon keeps its promise about        *)
(* registry.cid.                                                         *)
(*************************************************************************)
EXTENDS FulaPinning, FiniteSetTheorems, TLAPS

\* TypeOK is inductive once the pin at hand is known to be one of the pins to do.
TypeInv ==
    /\ TypeOK
    /\ \A t \in Tokens : pc[t] = "add" => pass[t].cur \in pass[t].todo

\* A fault taken from the budget leaves a budget.
LEMMA FaultType == ASSUME budget \in Budget, Fault PROVE budget' \in Budget
  <1>1. /\ budget.faults \in 0..MaxFaults
        /\ budget.edits \in 0..MaxEdits
        /\ budget.reports \in 0..MaxReports
    BY DEF Budget
  <1>2. budget.faults - 1 \in 0..MaxFaults
    BY <1>1, SizesAssumption DEF Fault
  <1>. QED
    BY <1>1, <1>2 DEF Fault, Budget

\* NewDaemon builds a daemon's fields, whatever last_sync.txt holds.
LEMMA NewMemType == ASSUME lastSyncFile \in Nat PROVE NewMem \in Mem /\ NoMem \in Mem
  <1>1. 0 \in 0..(FullEvery - 1) /\ <<>> \in Seq(Positions)
    BY SizesAssumption
  <1>2. NoMem \in Mem
    BY <1>1 DEF NoMem, Mem
  <1>. QED
    BY <1>2 DEF NewMem, Mem

\* A pass starts with well-typed locals.
LEMMA NewPassType == NewPass \in Pass
  <1>1. 0 \in 0..MaxPins
    BY SizesAssumption
  <1>. QED
    BY <1>1 DEF NewPass, Pass

\* The parts of TypeOK the step proofs use, one per line.
LEMMA TypeParts ==
  ASSUME TypeInv
  PROVE  /\ remote \in Seq(Pin) /\ Len(remote) \in Nat /\ Len(remote) <= MaxPins
         /\ kuboPins \subseteq Positions /\ handled \subseteq Positions
         /\ lastSyncFile \in Nat /\ registryFile \in 0..MaxPins
         /\ cfg \in Tokens \cup {None} /\ stopping \in Tokens \cup {None}
         /\ pc \in [Tokens -> Steps]
         /\ mem \in [Tokens -> Mem]
         /\ pass \in [Tokens -> Pass]
         /\ budget \in Budget
         /\ \A t \in Tokens : pc[t] = "add" => pass[t].cur \in pass[t].todo
  BY DEF TypeInv, TypeOK

\* startDaemon keeps the types, paired or not.
LEMMA StartDaemonType ==
  ASSUME TypeInv, NEW c \in Tokens \cup {None}, StartDaemon(c)
  PROVE  /\ pc' \in [Tokens -> Steps]
         /\ mem' \in [Tokens -> Mem]
         /\ pass' \in [Tokens -> Pass]
         /\ \A t \in Tokens : pc'[t] = "add" => pass'[t].cur \in pass'[t].todo
  <1>1. CASE c = None
    BY <1>1, TypeParts DEF StartDaemon, Paired, daemon
  <1>2. CASE c \in Tokens
    <2>1. NewMem \in Mem /\ NewPass \in Pass /\ "health" \in Steps
      BY NewMemType, NewPassType, TypeParts DEF Steps
    <2>2. /\ pc' = [pc EXCEPT ![c] = "health"]
          /\ mem' = [mem EXCEPT ![c] = NewMem]
          /\ pass' = [pass EXCEPT ![c] = NewPass]
      BY <1>2, NamesAssumption DEF StartDaemon, Paired
    <2>. QED
      BY <2>1, <2>2, TypeParts
  <1>. QED BY <1>1, <1>2

\* Cancelling a context keeps the types.
LEMMA CancelType ==
  ASSUME TypeInv, NEW t \in Tokens, Cancel(t)
  PROVE  mem' \in [Tokens -> Mem]
  BY TypeParts DEF Cancel, Mem

\* Kubo's answer to pin/add keeps the types.
LEMMA PinAddedType ==
  ASSUME TypeOK, NEW t \in Tokens, NEW c \in Positions,
         PinAdded(t, c) \/ PinRefused(t, c)
  PROVE  kuboPins' \subseteq Positions /\ budget' \in Budget
  BY FaultType DEF PinAdded, PinRefused, NoFault, TypeOK

\* The return from syncPins keeps the types.
LEMMA ReturnType ==
  ASSUME TypeInv, NEW t \in Tokens, Return(t)
  PROVE  /\ pc' \in [Tokens -> Steps]
         /\ pass' \in [Tokens -> Pass]
         /\ syncing' \in BOOLEAN
         /\ \A u \in Tokens : pc'[u] = "add" => pass'[u].cur \in pass'[u].todo
  BY NewPassType DEF Return, Goto, TypeInv, TypeOK, Steps

\* The head of syncPins keeps the types.
LEMMA BeginSyncType ==
  ASSUME TypeInv, NEW t \in Tokens, NEW m \in Mem, NEW w \in BOOLEAN,
         BeginSync(t, m, w), budget' \in Budget
  PROVE  TypeInv'
  <1>1. PICK ahead \in 0..ClockAhead :
          pass' = [pass EXCEPT ![t] =
                     [NewPass EXCEPT !.mark = Len(remote) + ahead, !.marked = w]]
    BY DEF BeginSync
  <1>2. [NewPass EXCEPT !.mark = Len(remote) + ahead, !.marked = w] \in Pass
    <2>1. Len(remote) + ahead \in Nat
      BY TypeParts, SizesAssumption
    <2>. QED
      BY <2>1, NewPassType DEF Pass
  <1>3. (m.cycle + 1) % FullEvery \in 0..(FullEvery - 1)
    BY SizesAssumption DEF SizesAssumption, Mem
  <1>4. [m EXCEPT !.cycle = (m.cycle + 1) % FullEvery] \in Mem
    BY <1>3 DEF Mem
  <1>5. pass' \in [Tokens -> Pass] /\ mem' \in [Tokens -> Mem]
    BY <1>1, <1>2, <1>4 DEF BeginSync, TypeInv, TypeOK
  <1>6. pc' \in [Tokens -> Steps]
    BY DEF BeginSync, Goto, Steps, TypeInv, TypeOK
  <1>7. \A u \in Tokens : pc'[u] = "add" => pass'[u].cur \in pass'[u].todo
    BY <1>1 DEF BeginSync, Goto, TypeInv, TypeOK
  <1>. QED
    BY <1>5, <1>6, <1>7 DEF BeginSync, TypeInv, TypeOK, envVars, watcher

\* The steps of the environment and of runWithConfig keep the types.
LEMMA OutsideType ==
  ASSUME TypeInv, Environment \/ Watcher
  PROVE  TypeInv'
  <1>. USE TypeParts DEF TypeInv
  <1>1. ASSUME NEW a \in Accounts, NEW b \in BOOLEAN, Register(a, b)
        PROVE  TypeInv'
    <2>1. [acct |-> a, registry |-> b] \in Pin
      BY DEF Pin
    <2>2. /\ Append(remote, [acct |-> a, registry |-> b]) \in Seq(Pin)
          /\ Len(Append(remote, [acct |-> a, registry |-> b])) = Len(remote) + 1
      BY <2>1
    <2>3. remote' \in Seq(Pin) /\ Len(remote') <= MaxPins
      BY <1>1, <2>2, SizesAssumption DEF Register
    <2>. QED
      BY <1>1, <2>3 DEF Register, TypeOK, files, watcher, daemon
  <1>2. ASSUME NEW v \in Tokens \cup {None, Garbled}, EditProps(v)
        PROVE  TypeInv'
    <2>1. budget' \in Budget
      <3>1. /\ budget.faults \in 0..MaxFaults
            /\ budget.edits \in 0..MaxEdits
            /\ budget.reports \in 0..MaxReports
        BY DEF Budget
      <3>2. budget.edits - 1 \in 0..MaxEdits
        <4>1. budget.edits > 0
          BY <1>2 DEF EditProps
        <4>. QED BY ONLY <3>1, <4>1, SizesAssumption
      <3>. QED
        BY <1>2, <3>1, <3>2 DEF EditProps, Budget
    <2>. QED
      BY <1>2, <2>1 DEF EditProps, TypeOK, files, watcher, daemon
  <1>3. ASSUME NEW t \in Tokens, NEW c \in Positions, ReportMissing(t, c)
        PROVE  TypeInv'
    <2>1. budget' \in Budget
      <3>1. /\ budget.faults \in 0..MaxFaults
            /\ budget.edits \in 0..MaxEdits
            /\ budget.reports \in 0..MaxReports
        BY DEF Budget
      <3>2. budget.reports - 1 \in 0..MaxReports
        <4>1. budget.reports > 0
          BY <1>3 DEF ReportMissing
        <4>. QED BY ONLY <3>1, <4>1, SizesAssumption
      <3>. QED
        BY <1>3, <3>1, <3>2 DEF ReportMissing, Budget
    <2>2. mem' \in [Tokens -> Mem]
      <3>1. mem[t] \in Mem /\ Append(mem[t].queue, c) \in Seq(Positions)
        BY DEF Mem
      <3>2. [mem[t] EXCEPT !.queue = Append(mem[t].queue, c)] \in Mem
        BY <3>1 DEF Mem
      <3>. QED
        BY <1>3, <3>2 DEF ReportMissing
    <2>. QED
      BY <1>3, <2>1, <2>2 DEF ReportMissing, TypeOK, envVars, files, watcher
  <1>4. CASE KuboReset
    BY <1>4, FaultType DEF KuboReset, TypeOK, envVars, files, watcher, daemon
  <1>5. CASE Boot
    <2>1. cfg' \in Tokens \cup {None}
      BY <1>5, NamesAssumption DEF Boot, LoadProps, TypeOK
    <2>2. StartDaemon(cfg')
      BY <1>5 DEF Boot
    <2>3. /\ pc' \in [Tokens -> Steps] /\ mem' \in [Tokens -> Mem]
          /\ pass' \in [Tokens -> Pass]
          /\ \A t \in Tokens : pc'[t] = "add" => pass'[t].cur \in pass'[t].todo
      BY <2>1, <2>2, StartDaemonType
    <2>. QED
      BY <1>5, <2>1, <2>3 DEF Boot, TypeOK, envVars, files
  <1>6. CASE PollConfig
    <2>1. cfg' \in Tokens \cup {None}
      BY <1>6, NamesAssumption DEF PollConfig, LoadProps, TypeOK
    <2>2. /\ pc' \in [Tokens -> Steps] /\ mem' \in [Tokens -> Mem]
          /\ pass' \in [Tokens -> Pass]
          /\ \A t \in Tokens : pc'[t] = "add" => pass'[t].cur \in pass'[t].todo
      <3>1. CASE Paired(cfg)
        <4>1. cfg \in Tokens /\ Cancel(cfg) /\ UNCHANGED <<pc, pass>>
          BY <1>6, <3>1 DEF PollConfig, Paired
        <4>. QED BY <4>1, CancelType
      <3>2. CASE ~Paired(cfg)
        <4>1. StartDaemon(cfg')
          BY <1>6, <3>2 DEF PollConfig
        <4>. QED BY <2>1, <4>1, StartDaemonType
      <3>. QED BY <3>1, <3>2
    <2>3. wpc' \in {"polling", "stopping"} /\ stopping' \in Tokens \cup {None}
      BY <1>6 DEF PollConfig
    <2>. QED
      BY <1>6, <2>1, <2>2, <2>3 DEF PollConfig, TypeOK, envVars, files
  <1>7. CASE CleanupDone
    <2>1. StartDaemon(cfg)
      BY <1>7 DEF CleanupDone
    <2>2. /\ pc' \in [Tokens -> Steps] /\ mem' \in [Tokens -> Mem]
          /\ pass' \in [Tokens -> Pass]
          /\ \A t \in Tokens : pc'[t] = "add" => pass'[t].cur \in pass'[t].todo
      BY <2>1, StartDaemonType
    <2>. QED
      BY <1>7, <2>2 DEF CleanupDone, TypeOK, envVars, files
  <1>8. CASE Terminate
    <2>1. mem' \in [Tokens -> Mem]
      BY <1>8, CancelType DEF Terminate, Paired
    <2>2. budget' \in Budget
      BY <1>8, FaultType DEF Terminate
    <2>. QED
      BY <1>8, <2>1, <2>2 DEF Terminate, TypeOK, envVars, files
  <1>9. CASE Exit
    BY <1>9 DEF Exit, TypeOK, envVars, files, daemon
  <1>10. CASE Crash
    <2>1. NoMem \in Mem /\ NewPass \in Pass /\ "off" \in Steps
      BY NewMemType, NewPassType DEF Steps
    <2>2. budget' \in Budget
      BY <1>10, FaultType DEF Crash
    <2>. QED
      BY <1>10, <2>1, <2>2 DEF Crash, TypeOK, envVars, files
  <1>. QED
    BY <1>1, <1>2, <1>3, <1>4, <1>5, <1>6, <1>7, <1>8, <1>9, <1>10
       DEF Environment, Watcher

\* The steps of a daemon between passes keep the types.
LEMMA IdleType ==
  ASSUME TypeInv, NEW t \in Tokens,
         Healthy(t) \/ Tick(t) \/ TickSync(t) \/ Done(t) \/ PinImmediately(t)
  PROVE  TypeInv'
  <1>0. mem[t] \in Mem
    BY TypeParts
  <1>1. CASE Healthy(t)
    <2>1. budget' \in Budget
      BY <1>1, TypeParts, FaultType DEF Healthy, Marks, NoFault
    <2>2. [mem[t] EXCEPT !.lastSync = 0] \in Mem
      BY <1>0 DEF Mem
    <2>. QED
      BY <1>0, <1>1, <2>1, <2>2, BeginSyncType DEF Healthy, Marks
  <1>2. CASE Tick(t)
    <2>1. [mem[t] EXCEPT !.ticked = TRUE] \in Mem
      BY <1>0 DEF Mem
    <2>. QED
      BY <1>2, <2>1 DEF Tick, TypeInv, TypeOK, envVars, files, watcher
  <1>3. CASE TickSync(t)
    <2>1. [mem[t] EXCEPT !.ticked = FALSE] \in Mem
      BY <1>0 DEF Mem
    <2>2. budget' \in Budget
      BY <1>3, TypeParts, FaultType DEF TickSync, Marks, NoFault
    <2>. QED
      BY <1>3, <2>1, <2>2, BeginSyncType DEF TickSync, Marks
  <1>4. CASE Done(t)
    <2>1. NoMem \in Mem /\ "off" \in Steps
      BY NewMemType, TypeParts DEF Steps
    <2>. QED
      BY <1>4, <2>1 DEF Done, Goto, TypeInv, TypeOK, envVars, files, watcher
  <1>5. CASE PinImmediately(t)
    <2> DEFINE c == Head(mem[t].queue)
               popped == [mem[t] EXCEPT !.queue = Tail(@)]
    <2>1. c \in Positions /\ Tail(mem[t].queue) \in Seq(Positions)
      BY <1>0, <1>5 DEF PinImmediately, Mem
    <2>2. popped \in Mem /\ [popped EXCEPT !.pinned = @ \cup {c}] \in Mem
      BY <1>0, <2>1 DEF Mem
    <2>3. mem' \in [Tokens -> Mem]
      <3>. HIDE DEF popped, c
      <3>1. mem' = [mem EXCEPT ![t] = popped]
              \/ mem' = [mem EXCEPT ![t] = [popped EXCEPT !.pinned = @ \cup {c}]]
        BY <1>5 DEF PinImmediately, popped, c
      <3>. QED BY <2>2, <3>1, TypeParts
    <2>4. kuboPins' \subseteq Positions /\ budget' \in Budget
      <3>1. CASE PinAdded(t, c) \/ PinRefused(t, c)
        BY <2>1, <3>1, PinAddedType DEF TypeInv
      <3>2. CASE NoFault /\ UNCHANGED kuboPins
        BY <3>2, TypeParts DEF NoFault
      <3>. QED
        BY <1>5, <3>1, <3>2 DEF PinImmediately
    <2>. QED
      BY <1>5, <2>3, <2>4 DEF PinImmediately, TypeInv, TypeOK, envVars, files, watcher
  <1>. QED BY <1>1, <1>2, <1>3, <1>4, <1>5

\* The steps of syncPins keep the types.
LEMMA SyncType ==
  ASSUME TypeInv, NEW t \in Tokens, Sync(t)
  PROVE  TypeInv'
  <1>0. mem[t] \in Mem /\ pass[t] \in Pass
    BY TypeParts
  <1>1. CASE FetchRemote(t)
    <2>1. budget' \in Budget
      BY <1>1, TypeParts, FaultType DEF FetchRemote, NoFault
    <2>2. ASSUME NEW S, S \subseteq 1..Len(remote), Fetched(t, S)
          PROVE  /\ pc' \in [Tokens -> Steps] /\ pass' \in [Tokens -> Pass]
                 /\ syncing' \in BOOLEAN
                 /\ \A u \in Tokens : pc'[u] = "add" => pass'[u].cur \in pass'[u].todo
      <3>1. PICK r \in 0..Len(remote) :
              pass' = [pass EXCEPT ![t].todo = S, ![t].reg = r]
        BY <2>2 DEF Fetched
      <3>2. r \in 0..MaxPins /\ S \subseteq Positions
        BY <2>2, TypeParts, SizesAssumption DEF Positions
      <3>3. [pass[t] EXCEPT !.todo = S, !.reg = r] \in Pass
        BY <1>0, <3>2 DEF Pass
      <3>4. pass' = [pass EXCEPT ![t] = [pass[t] EXCEPT !.todo = S, !.reg = r]]
        BY <3>1
      <3>5. pass' \in [Tokens -> Pass]
        BY <3>3, <3>4, TypeParts
      <3>6. pc' = [pc EXCEPT ![t] = "local"] /\ syncing' = syncing
        BY <2>2 DEF Fetched, Goto
      <3>. QED
        BY <3>4, <3>5, <3>6 DEF TypeInv, TypeOK, Steps
    <2>3. /\ pc' \in [Tokens -> Steps] /\ pass' \in [Tokens -> Pass]
          /\ syncing' \in BOOLEAN
          /\ \A u \in Tokens : pc'[u] = "add" => pass'[u].cur \in pass'[u].todo
      <3>1. CASE Return(t)
        BY <3>1, ReturnType
      <3>2. CASE Fetched(t, PinsOf(Owner[t]))
        BY <2>2, <3>2 DEF PinsOf
      <3>3. ASSUME NEW k, Fetched(t, Since(Owner[t], k))
            PROVE  /\ pc' \in [Tokens -> Steps] /\ pass' \in [Tokens -> Pass]
                   /\ syncing' \in BOOLEAN
                   /\ \A u \in Tokens : pc'[u] = "add" => pass'[u].cur \in pass'[u].todo
        BY <2>2, <3>3 DEF Since, PinsOf
      <3>. QED
        BY <1>1, <3>1, <3>2, <3>3 DEF FetchRemote
    <2>. QED
      BY <1>1, <2>1, <2>3 DEF FetchRemote, TypeInv, TypeOK, envVars, watcher
  <1>2. CASE ListLocal(t)
    <2>1. budget' \in Budget
      BY <1>2, TypeParts, FaultType DEF ListLocal, NoFault
    <2>2. CASE Return(t) /\ UNCHANGED mem
      BY <1>2, <2>1, <2>2, ReturnType DEF ListLocal, TypeInv, TypeOK, envVars, watcher
    <2>3. CASE /\ mem' = [mem EXCEPT ![t].pinned = kuboPins]
               /\ Goto(t, "registry") /\ UNCHANGED <<pass, syncing>>
      <3>1. [mem[t] EXCEPT !.pinned = kuboPins] \in Mem
        BY <1>0, TypeParts DEF Mem
      <3>. QED
        BY <1>2, <2>1, <2>3, <3>1
           DEF ListLocal, Goto, Steps, TypeInv, TypeOK, envVars, watcher
    <2>. QED
      BY <1>2, <2>2, <2>3 DEF ListLocal
  <1>3. CASE PinRegistry(t)
    <2> DEFINE r == pass[t].reg
    <2>1. r = 0 \/ r \in Positions
      BY <1>0, SizesAssumption DEF Pass, Positions
    <2>2. kuboPins' \subseteq Positions /\ budget' \in Budget
      <3>1. CASE r # 0 /\ (PinAdded(t, r) \/ PinRefused(t, r))
        BY <2>1, <3>1, PinAddedType DEF TypeInv
      <3>2. CASE NoFault /\ UNCHANGED <<kuboPins, mem>>
        BY <3>2, TypeParts DEF NoFault
      <3>. QED
        BY <1>3, <3>1, <3>2 DEF PinRegistry
    <2>3. mem' \in [Tokens -> Mem]
      <3>1. CASE UNCHANGED mem
        BY <3>1, TypeParts
      <3>2. CASE r # 0 /\ mem' = [mem EXCEPT ![t].pinned = @ \cup {r}]
        <4>1. [mem[t] EXCEPT !.pinned = @ \cup {r}] \in Mem
          BY <1>0, <2>1, <3>2 DEF Mem
        <4>. QED BY <3>2, <4>1, TypeParts
      <3>. QED
        BY <1>3, <3>1, <3>2 DEF PinRegistry
    <2>. QED
      BY <1>3, <2>2, <2>3
         DEF PinRegistry, Goto, Steps, TypeInv, TypeOK, envVars, files, watcher
  <1>4. CASE NextPin(t)
    <2>1. CASE Return(t) /\ UNCHANGED handled
      BY <1>4, <2>1, ReturnType DEF NextPin, TypeInv, TypeOK, envVars, watcher
    <2>2. ASSUME NEW p \in pass[t].todo,
                 IF p \in mem[t].pinned
                 THEN /\ pass' = [pass EXCEPT ![t].todo = @ \ {p}]
                      /\ handled' = handled \cup {p}
                      /\ UNCHANGED pc
                 ELSE /\ pass' = [pass EXCEPT ![t].cur = p]
                      /\ Goto(t, "add")
                      /\ UNCHANGED handled,
                 UNCHANGED syncing
          PROVE  TypeInv'
      <3>1. p \in Positions /\ p \in 0..MaxPins
        BY <1>0, SizesAssumption DEF Pass, Positions
      <3>2. /\ [pass[t] EXCEPT !.todo = @ \ {p}] \in Pass
            /\ [pass[t] EXCEPT !.cur = p] \in Pass
        BY <1>0, <3>1 DEF Pass
      <3>3. pass' \in [Tokens -> Pass] /\ pc' \in [Tokens -> Steps]
        BY <2>2, <3>2, TypeParts DEF Goto, Steps
      <3>4. handled' \subseteq Positions
        BY <2>2, <3>1, TypeParts
      <3>5. \A u \in Tokens : pc'[u] = "add" => pass'[u].cur \in pass'[u].todo
        <4>1. pc[t] = "loop"
          BY <1>4 DEF NextPin
        <4>2. ASSUME NEW u \in Tokens, u # t, pc'[u] = "add"
              PROVE  pass'[u].cur \in pass'[u].todo
          <5>1. pc[u] = "add" /\ pass'[u] = pass[u]
            BY <2>2, <4>2, TypeParts DEF Goto
          <5>. QED
            BY <4>2, <5>1, TypeParts
        <4>3. pc'[t] = "add" => pass'[t] = [pass[t] EXCEPT !.cur = p]
          BY <2>2, <4>1, TypeParts DEF Goto
        <4>. QED
          BY <1>0, <2>2, <4>2, <4>3 DEF Pass
      <3>. QED
        BY <1>4, <2>2, <3>3, <3>4, <3>5 DEF NextPin, TypeInv, TypeOK, envVars, watcher
    <2>3. CASE Goto(t, "publish") /\ UNCHANGED <<pass, handled, syncing>>
      BY <1>4, <2>3 DEF NextPin, Goto, Steps, TypeInv, TypeOK, envVars, watcher
    <2>. QED
      BY <1>4, <2>1, <2>2, <2>3 DEF NextPin
  <1>5. CASE AddPin(t)
    <2> DEFINE p == pass[t].cur
    <2>1. p \in Positions /\ 0 \in 0..MaxPins
      BY <1>0, <1>5, TypeParts, SizesAssumption DEF AddPin, Pass
    <2>2. kuboPins' \subseteq Positions /\ budget' \in Budget
      BY <1>5, <2>1, PinAddedType DEF AddPin, TypeInv
    <2>3. mem' \in [Tokens -> Mem]
      <3>1. [mem[t] EXCEPT !.pinned = @ \cup {p}] \in Mem
        BY <1>0, <2>1 DEF Mem
      <3>. QED
        BY <1>5, <3>1, TypeParts DEF AddPin
    <2>4. pass' \in [Tokens -> Pass]
      <3>1. [pass[t] EXCEPT !.todo = @ \ {p}, !.cur = 0] \in Pass
        BY <1>0, <2>1 DEF Pass
      <3>. QED
        BY <1>5, <3>1, TypeParts DEF AddPin
    <2>5. \A u \in Tokens : pc'[u] = "add" => pass'[u].cur \in pass'[u].todo
      BY <1>5, TypeParts DEF AddPin, Goto
    <2>6. handled' \subseteq Positions
      BY <1>5, <2>1, TypeParts DEF AddPin
    <2>. QED
      BY <1>5, <2>2, <2>3, <2>4, <2>5, <2>6
         DEF AddPin, Goto, Steps, TypeInv, TypeOK, envVars, files, watcher
  <1>6. CASE WriteRegistryCID(t)
    <2>1. budget' \in Budget
      BY <1>6, TypeParts, FaultType DEF WriteRegistryCID, NoFault
    <2>2. registryFile' \in 0..MaxPins
      BY <1>0, <1>6, TypeParts DEF WriteRegistryCID, Pass
    <2>. QED
      BY <1>6, <2>1, <2>2
         DEF WriteRegistryCID, Goto, Steps, TypeInv, TypeOK, envVars, watcher
  <1>7. CASE PersistLastSync(t)
    <2>1. budget' \in Budget
      BY <1>7, TypeParts, FaultType DEF PersistLastSync, NoFault
    <2>2. pass[t].mark \in Nat
      BY <1>0 DEF Pass
    <2>3. [mem[t] EXCEPT !.lastSync = pass[t].mark] \in Mem
      BY <1>0, <2>2 DEF Mem
    <2>4. mem' \in [Tokens -> Mem]
      BY <1>7, <2>3, TypeParts DEF PersistLastSync
    <2>5. lastSyncFile' \in Nat
      BY <1>7, <2>2, TypeParts DEF PersistLastSync
    <2>6. Return(t)
      BY <1>7 DEF PersistLastSync
    <2>. QED
      BY <1>7, <2>1, <2>4, <2>5, <2>6, ReturnType
         DEF PersistLastSync, TypeInv, TypeOK, envVars, watcher
  <1>. QED
    BY <1>1, <1>2, <1>3, <1>4, <1>5, <1>6, <1>7 DEF Sync

\* The initial states satisfy TypeInv.
LEMMA InitType == ASSUME Init PROVE TypeInv
  <1>1. NoMem \in Mem /\ NewPass \in Pass
    BY NewMemType, NewPassType DEF Init
  <1>2. [faults |-> MaxFaults, edits |-> MaxEdits, reports |-> MaxReports] \in Budget
    BY SizesAssumption DEF Budget
  <1>3. 0 \in 0..MaxPins /\ Len(<<>>) <= MaxPins /\ <<>> \in Seq(Pin)
    BY SizesAssumption
  <1>. QED
    BY <1>1, <1>2, <1>3 DEF Init, TypeInv, TypeOK, Steps

\* Every step keeps TypeInv.
LEMMA NextType == ASSUME TypeInv, [Next]_vars PROVE TypeInv'
  <1>1. CASE Next
    BY <1>1, OutsideType, IdleType, SyncType DEF Next, Daemon
  <1>2. CASE UNCHANGED vars
    BY <1>2 DEF vars, TypeInv, TypeOK
  <1>. QED BY <1>1, <1>2

\* In every reachable state the files, the daemons' fields and the locals of
\* their passes have their types: in particular no pass works on a pin outside
\* the list it fetched, and the forced-pass counter stays below FullEvery.
THEOREM TypeCorrect == Spec => []TypeOK
  <1>1. Init => TypeInv
    BY InitType
  <1>2. TypeInv /\ [Next]_vars => TypeInv'
    BY NextType
  <1>3. TypeInv => TypeOK
    BY DEF TypeInv
  <1>. QED
    BY <1>1, <1>2, <1>3, PTL DEF Spec

----------------------------------------------------------------------------
(* One daemon at a time                                                    *)

\* A daemon's own step starts no daemon and leaves the watcher alone.
LEMMA DaemonStep ==
  ASSUME TypeInv, NEW t \in Tokens, Daemon(t)
  PROVE  /\ pc[t] # "off"
         /\ \A u \in Tokens \ {t} : pc'[u] = pc[u]
         /\ UNCHANGED <<wpc, cfg, stopping>>
  <1>0. pc \in [Tokens -> Steps]
    BY TypeParts
  <1>1. CASE Healthy(t) \/ Tick(t) \/ TickSync(t) \/ Done(t) \/ PinImmediately(t)
    BY <1>0, <1>1
       DEF Healthy, Tick, TickSync, Done, PinImmediately, Marks, BeginSync, Goto, watcher
  <1>2. CASE FetchRemote(t) \/ ListLocal(t) \/ PinRegistry(t)
    BY <1>0, <1>2 DEF FetchRemote, ListLocal, PinRegistry, Fetched, Return, Goto, watcher
  <1>3. CASE NextPin(t)
    BY <1>0, <1>3 DEF NextPin, Return, Goto, watcher
  <1>4. CASE AddPin(t) \/ WriteRegistryCID(t) \/ PersistLastSync(t)
    BY <1>0, <1>4 DEF AddPin, WriteRegistryCID, PersistLastSync, Return, Goto, watcher
  <1>. QED
    BY <1>1, <1>2, <1>3, <1>4 DEF Daemon, Sync

\* What a daemon's step leaves alone.
LEMMA DaemonFrame ==
  ASSUME TypeInv, NEW t \in Tokens, Daemon(t)
  PROVE  /\ remote' = remote /\ handled \subseteq handled'
         /\ \A u \in Tokens \ {t} : mem'[u] = mem[u]
  <1>0. mem \in [Tokens -> Mem]
    BY TypeParts
  <1>1. CASE Healthy(t) \/ Tick(t) \/ TickSync(t) \/ Done(t) \/ PinImmediately(t)
    BY <1>0, <1>1
       DEF Healthy, Tick, TickSync, Done, PinImmediately, Marks, BeginSync, envVars
  <1>2. CASE FetchRemote(t) \/ ListLocal(t) \/ PinRegistry(t) \/ NextPin(t)
    BY <1>0, <1>2 DEF FetchRemote, ListLocal, PinRegistry, NextPin, envVars
  <1>3. CASE AddPin(t) \/ WriteRegistryCID(t) \/ PersistLastSync(t)
    BY <1>0, <1>3 DEF AddPin, WriteRegistryCID, PersistLastSync, envVars
  <1>. QED
    BY <1>1, <1>2, <1>3 DEF Daemon, Sync

\* SingleDaemon is kept by every step.
LEMMA NextSingle ==
  ASSUME TypeInv, SingleDaemon, [Next]_vars
  PROVE  SingleDaemon'
  <1>0. /\ pc \in [Tokens -> Steps]
        /\ cfg \in Tokens \cup {None} /\ stopping \in Tokens \cup {None}
        /\ None \notin Tokens
    BY TypeParts, NamesAssumption
  <1>. USE DEF SingleDaemon, Running, Current
  <1>1. ASSUME NEW t \in Tokens, Daemon(t)
        PROVE  SingleDaemon'
    BY <1>1, DaemonStep
  <1>2. CASE Environment
    BY <1>2 DEF Environment, Register, EditProps, ReportMissing, KuboReset, watcher, daemon
  <1>3. CASE Boot
    <2>1. /\ wpc = "down" /\ wpc' = "polling" /\ StartDaemon(cfg')
      BY <1>3 DEF Boot
    <2>. QED
      BY <1>0, <2>1 DEF StartDaemon, Paired, daemon
  <1>4. CASE PollConfig
    <2>1. CASE Paired(cfg)
      BY <1>0, <1>4, <2>1 DEF PollConfig, Paired
    <2>2. CASE ~Paired(cfg)
      <3>1. wpc' = "polling" /\ wpc = "polling" /\ StartDaemon(cfg') /\ cfg = None
        BY <1>4, <2>2 DEF PollConfig, Paired
      <3>. QED
        BY <1>0, <3>1 DEF StartDaemon, Paired, daemon
    <2>. QED BY <2>1, <2>2
  <1>5. CASE CleanupDone
    <2>1. /\ wpc = "stopping" /\ wpc' = "polling" /\ cfg' = cfg
          /\ pc[stopping] = "off" /\ StartDaemon(cfg)
      BY <1>5 DEF CleanupDone
    <2>. QED
      BY <1>0, <2>1 DEF StartDaemon, Paired, daemon
  <1>6. CASE Terminate
    BY <1>6 DEF Terminate
  <1>7. CASE Exit
    BY <1>0, <1>7 DEF Exit, Paired, daemon
  <1>8. CASE Crash
    BY <1>8 DEF Crash
  <1>9. CASE UNCHANGED vars
    BY <1>9 DEF vars
  <1>. QED
    BY <1>1, <1>2, <1>3, <1>4, <1>5, <1>6, <1>7, <1>8, <1>9 DEF Next, Watcher

\* cleanup waits for the old daemon: whatever tokens box_props.json goes through,
\* however passes, crashes and SIGTERM interleave, no two daemons run, and none
\* runs for a token the process no longer owns.
THEOREM OneDaemonRuns == Spec => []SingleDaemon
  <1>1. Init => TypeInv /\ SingleDaemon
    BY InitType DEF Init, SingleDaemon, Running
  <1>2. TypeInv /\ SingleDaemon /\ [Next]_vars => TypeInv' /\ SingleDaemon'
    BY NextType, NextSingle
  <1>. QED
    BY <1>1, <1>2, PTL DEF Spec

----------------------------------------------------------------------------
(* The marker of a pass, and whose registry a pass publishes               *)

\* Outside the daemons nothing touches .syncing, and only a start, a stop or a
\* crash moves a daemon: never into a pass.
LEMMA OutsideFrame ==
  ASSUME TypeInv, Environment \/ Watcher
  PROVE  /\ syncing' = syncing /\ registryFile' = registryFile
         /\ \A t \in Tokens : \/ pc'[t] \in {"off", "health"}
                              \/ pc'[t] = pc[t] /\ pass'[t] = pass[t]
  <1>0. pc \in [Tokens -> Steps] /\ pass \in [Tokens -> Pass]
    BY TypeParts
  <1>1. CASE Environment
    BY <1>1 DEF Environment, Register, EditProps, ReportMissing, KuboReset, files, daemon
  <1>2. ASSUME NEW c, StartDaemon(c)
        PROVE  \A t \in Tokens : \/ pc'[t] \in {"off", "health"}
                                 \/ pc'[t] = pc[t] /\ pass'[t] = pass[t]
    BY <1>0, <1>2 DEF StartDaemon, daemon
  <1>3. CASE Boot
    BY <1>2, <1>3 DEF Boot, files
  <1>4. CASE PollConfig
    BY <1>2, <1>4 DEF PollConfig, files
  <1>5. CASE CleanupDone
    BY <1>2, <1>5 DEF CleanupDone, files
  <1>6. CASE Terminate \/ Exit
    BY <1>6 DEF Terminate, Exit, files, daemon
  <1>7. CASE Crash
    BY <1>7 DEF Crash, files
  <1>. QED
    BY <1>1, <1>3, <1>4, <1>5, <1>6, <1>7 DEF Watcher

\* A daemon's step that leaves it in a pass with a marker leaves the marker as it was,
\* or has just written it.
LEMMA MarkerStep ==
  ASSUME TypeInv, NEW t \in Tokens, Daemon(t), InPass(t)', pass'[t].marked
  PROVE  syncing' \/ (InPass(t) /\ pass[t].marked /\ syncing' = syncing)
  <1>0. pc \in [Tokens -> Steps] /\ pass \in [Tokens -> Pass] /\ pass[t] \in Pass
    BY TypeParts
  <1>. USE DEF InPass, Goto
  <1>r. ~Return(t)
    BY <1>0 DEF Return
  <1>b. ASSUME NEW m, NEW written \in BOOLEAN, BeginSync(t, m, written)
        PROVE  syncing'
    <2>1. PICK ahead \in 0..ClockAhead :
            pass' = [pass EXCEPT ![t] =
                       [NewPass EXCEPT !.mark = Len(remote) + ahead, !.marked = written]]
      BY <1>b DEF BeginSync
    <2>2. pass'[t].marked = written
      BY <1>0, <2>1 DEF NewPass
    <2>. QED
      BY <1>b, <2>2 DEF BeginSync
  <1>1. CASE Healthy(t) \/ TickSync(t)
    BY <1>b, <1>1 DEF Healthy, TickSync, Marks
  <1>2. CASE Tick(t) \/ Done(t) \/ PinImmediately(t)
    BY <1>0, <1>2 DEF Tick, Done, PinImmediately, files
  <1>3. CASE FetchRemote(t)
    <2>1. PICK S : Fetched(t, S)
      BY <1>r, <1>3 DEF FetchRemote
    <2>2. PICK r : pass' = [pass EXCEPT ![t].todo = S, ![t].reg = r]
      BY <2>1 DEF Fetched
    <2>3. pass'[t].marked = pass[t].marked
      BY <1>0, <2>2 DEF Pass
    <2>. QED
      BY <1>3, <2>1, <2>3 DEF FetchRemote, Fetched
  <1>7. CASE ListLocal(t)
    BY <1>r, <1>7 DEF ListLocal
  <1>4. CASE NextPin(t)
    <2>1. pass'[t].marked = pass[t].marked /\ syncing' = syncing /\ pc[t] = "loop"
      <3>1. CASE pass' = pass
        BY <1>r, <1>4, <3>1 DEF NextPin
      <3>2. CASE \E p \in pass[t].todo : \/ pass' = [pass EXCEPT ![t].todo = @ \ {p}]
                                         \/ pass' = [pass EXCEPT ![t].cur = p]
        <4>1. ASSUME NEW p, pass' = [pass EXCEPT ![t].todo = @ \ {p}]
              PROVE  pass'[t].marked = pass[t].marked
          BY <1>0, <4>1 DEF Pass
        <4>2. ASSUME NEW p, pass' = [pass EXCEPT ![t].cur = p]
              PROVE  pass'[t].marked = pass[t].marked
          BY <1>0, <4>2 DEF Pass
        <4>3. pass'[t].marked = pass[t].marked
          BY <3>2, <4>1, <4>2
        <4>. QED
          BY <1>r, <1>4, <4>3 DEF NextPin
      <3>. QED
        BY <1>r, <1>4, <3>1, <3>2 DEF NextPin
    <2>. QED
      BY <2>1
  <1>5. CASE PinRegistry(t) \/ AddPin(t) \/ WriteRegistryCID(t)
    BY <1>0, <1>5 DEF PinRegistry, AddPin, WriteRegistryCID, files, Pass
  <1>6. CASE PersistLastSync(t)
    BY <1>0, <1>6 DEF PersistLastSync, Return
  <1>. QED
    BY <1>1, <1>2, <1>3, <1>4, <1>5, <1>6, <1>7 DEF Daemon, Sync

\* The marker is kept: while one daemon steps, no other is in a pass.
LEMMA NextMarker ==
  ASSUME TypeInv, SingleDaemon, MarkerDuringPass, [Next]_vars
  PROVE  MarkerDuringPass'
  <1>1. ASSUME NEW t \in Tokens, Daemon(t)
        PROVE  MarkerDuringPass'
    <2>1. ASSUME NEW u \in Tokens, u # t
          PROVE  pc'[u] = "off"
      <3>1. pc[t] # "off" /\ pc'[u] = pc[u]
        BY <1>1, <2>1, DaemonStep
      <3>. QED BY <2>1, <3>1 DEF SingleDaemon, Running
    <2>2. InPass(t)' /\ pass'[t].marked => syncing'
      BY <1>1, MarkerStep DEF MarkerDuringPass
    <2>. QED
      BY <2>1, <2>2 DEF MarkerDuringPass, InPass
  <1>2. CASE Environment \/ Watcher
    BY <1>2, OutsideFrame DEF MarkerDuringPass, InPass
  <1>3. CASE UNCHANGED vars
    BY <1>3 DEF vars, MarkerDuringPass, InPass
  <1>. QED BY <1>1, <1>2, <1>3 DEF Next

\* While a pass that could write .syncing is in progress the marker exists: the deferred
\* removal of one pass never takes away the marker of another, for any sequence of
\* rotations, failed writes and removals, crashes and failures.
THEOREM MarkerIsThere == Spec => []MarkerDuringPass
  <1>1. Init => TypeInv /\ SingleDaemon /\ MarkerDuringPass
    BY InitType DEF Init, SingleDaemon, Running, MarkerDuringPass, InPass
  <1>2. TypeInv /\ SingleDaemon /\ MarkerDuringPass /\ [Next]_vars
          => TypeInv' /\ SingleDaemon' /\ MarkerDuringPass'
    BY NextType, NextSingle, NextMarker
  <1>. QED
    BY <1>1, <1>2, PTL DEF Spec

\* The registry a pass has found is one of its own account's.
RegistryOwned(t) ==
    pc[t] \in AfterFetch /\ pass[t].reg # 0 =>
        /\ pass[t].reg \in 1..Len(remote)
        /\ remote[pass[t].reg].registry
        /\ remote[pass[t].reg].acct = Owner[t]

\* A fetch takes the registry from pins of the token's account.
LEMMA FetchedOwned ==
  ASSUME TypeInv, NEW t \in Tokens, NEW S, S \subseteq PinsOf(Owner[t]),
         Fetched(t, S), remote' = remote
  PROVE  RegistryOwned(t)'
  <1>1. PICK r \in 0..Len(remote) :
          /\ LatestRegistry(S, r)
          /\ pass' = [pass EXCEPT ![t].todo = S, ![t].reg = r]
    BY DEF Fetched
  <1>2. pass'[t].reg = r
    BY <1>1, TypeParts DEF Pass
  <1>3. r # 0 => r \in S /\ remote[r].registry
    BY <1>1 DEF LatestRegistry
  <1>. QED
    BY <1>2, <1>3 DEF RegistryOwned, PinsOf

\* A daemon's own step keeps RegistryOwned: only the fetch changes reg.
LEMMA OwnStepOwned ==
  ASSUME TypeInv, NEW t \in Tokens, Daemon(t), RegistryOwned(t), remote' = remote
  PROVE  RegistryOwned(t)'
  <1>0. pc \in [Tokens -> Steps] /\ pass \in [Tokens -> Pass] /\ pass[t] \in Pass
    BY TypeParts
  <1>1. ASSUME pc'[t] \notin AfterFetch PROVE RegistryOwned(t)'
    BY <1>1 DEF RegistryOwned
  <1>2. ASSUME pc[t] \in AfterFetch, pass'[t].reg = pass[t].reg
        PROVE  RegistryOwned(t)'
    BY <1>2 DEF RegistryOwned
  <1>3. CASE Healthy(t) \/ TickSync(t) \/ Tick(t) \/ Done(t) \/ PinImmediately(t)
    <2>1. pc'[t] \in {"health", "idle", "off", "fetch"}
      BY <1>0, <1>3 DEF Healthy, TickSync, Tick, Done, PinImmediately, Marks, BeginSync, Goto
    <2>. QED BY <1>1, <2>1 DEF AfterFetch
  <1>4. ASSUME Return(t) PROVE RegistryOwned(t)'
    <2>1. pc'[t] = "idle"
      BY <1>0, <1>4 DEF Return, Goto
    <2>. QED BY <1>1, <2>1 DEF AfterFetch
  <1>5. CASE FetchRemote(t)
    <2>1. \A k : Since(Owner[t], k) \subseteq PinsOf(Owner[t])
      BY DEF Since
    <2>. QED
      BY <1>4, <1>5, <2>1, FetchedOwned DEF FetchRemote
  <1>6. CASE ListLocal(t)
    BY <1>2, <1>4, <1>6 DEF ListLocal, AfterFetch
  <1>7. CASE PinRegistry(t) \/ WriteRegistryCID(t)
    BY <1>2, <1>7 DEF PinRegistry, WriteRegistryCID, AfterFetch
  <1>8. CASE NextPin(t)
    <2>1. CASE Return(t)
      BY <1>4, <2>1
    <2>2. CASE ~Return(t)
      <3>1. pass'[t].reg = pass[t].reg
        BY <1>0, <1>8, <2>2 DEF NextPin, Pass
      <3>. QED BY <1>2, <1>8, <3>1 DEF NextPin, AfterFetch
    <2>. QED BY <2>1, <2>2
  <1>9. CASE AddPin(t)
    <2>1. pass'[t].reg = pass[t].reg
      BY <1>0, <1>9 DEF AddPin, Pass
    <2>. QED BY <1>2, <1>9, <2>1 DEF AddPin, AfterFetch
  <1>10. CASE PersistLastSync(t)
    BY <1>4, <1>10 DEF PersistLastSync
  <1>. QED
    BY <1>3, <1>5, <1>6, <1>7, <1>8, <1>9, <1>10 DEF Daemon, Sync

\* What was registered stays registered, under the same account.
LEMMA RemoteGrows ==
  ASSUME TypeInv, [Next]_vars
  PROVE  \A p \in 1..Len(remote) : p \in 1..Len(remote') /\ remote'[p] = remote[p]
  <1>1. ASSUME NEW a \in Accounts, NEW b \in BOOLEAN, Register(a, b)
        PROVE  \A p \in 1..Len(remote) : p \in 1..Len(remote') /\ remote'[p] = remote[p]
    <2>1. remote \in Seq(Pin) /\ Len(remote) \in Nat /\ [acct |-> a, registry |-> b] \in Pin
      BY TypeParts DEF Pin
    <2>2. remote' = Append(remote, [acct |-> a, registry |-> b])
      BY <1>1 DEF Register
    <2>. QED BY <2>1, <2>2
  <1>2. ASSUME NEW t \in Tokens, Daemon(t)
        PROVE  remote' = remote
    BY <1>2, DaemonFrame
  <1>3. CASE Watcher
    BY <1>3 DEF Watcher, Boot, PollConfig, CleanupDone, Terminate, Exit, Crash, envVars
  <1>4. ASSUME \/ KuboReset
               \/ \E v \in Tokens \cup {None, Garbled} : EditProps(v)
               \/ \E t \in Tokens, c \in Positions : ReportMissing(t, c)
        PROVE  remote' = remote
    BY <1>4 DEF KuboReset, EditProps, ReportMissing, envVars
  <1>5. CASE UNCHANGED vars
    BY <1>5 DEF vars
  <1>. QED
    BY <1>1, <1>2, <1>3, <1>4, <1>5 DEF Next, Environment

\* The inductive invariant behind PublishesForPairedUser.
OwnedInv == TypeInv /\ SingleDaemon /\ \A t \in Tokens : RegistryOwned(t)

\* Every step keeps OwnedInv.
LEMMA NextOwned ==
  ASSUME OwnedInv, [Next]_vars
  PROVE  OwnedInv'
  <1>0. TypeInv /\ SingleDaemon /\ TypeInv' /\ SingleDaemon'
    BY NextType, NextSingle DEF OwnedInv
  <1>1. ASSUME NEW u \in Tokens, pc'[u] = pc[u], pass'[u] = pass[u]
        PROVE  RegistryOwned(u)'
    BY <1>0, <1>1, RemoteGrows DEF OwnedInv, RegistryOwned
  <1>2. ASSUME NEW u \in Tokens, pc'[u] \in {"off", "health"}
        PROVE  RegistryOwned(u)'
    BY <1>2 DEF RegistryOwned, AfterFetch
  <1>3. ASSUME NEW t \in Tokens, Daemon(t), NEW u \in Tokens
        PROVE  RegistryOwned(u)'
    <2>1. CASE u = t
      <3>1. remote' = remote
        BY <1>0, <1>3, DaemonFrame
      <3>. QED
        BY <1>0, <1>3, <2>1, <3>1, OwnStepOwned DEF OwnedInv
    <2>2. CASE u # t
      <3>1. pc[t] # "off" /\ pc'[u] = pc[u]
        BY <1>0, <1>3, <2>2, DaemonStep
      <3>2. pc'[u] = "off"
        BY <1>0, <2>2, <3>1 DEF SingleDaemon, Running
      <3>. QED BY <1>2, <3>2
    <2>. QED BY <2>1, <2>2
  <1>4. CASE Environment \/ Watcher
    BY <1>0, <1>1, <1>2, <1>4, OutsideFrame DEF OwnedInv
  <1>5. CASE UNCHANGED vars
    BY <1>0, <1>1, <1>5 DEF vars, OwnedInv
  <1>. QED
    BY <1>0, <1>3, <1>4, <1>5 DEF Next, OwnedInv

\* Only a daemon's WriteRegistryCID changes registry.cid.
LEMMA OnlyPublishes ==
  ASSUME TypeInv, NEW t \in Tokens, Daemon(t), registryFile' # registryFile
  PROVE  /\ pc[t] = "publish" /\ pass[t].reg # 0
         /\ registryFile' = pass[t].reg
  <1>1. CASE WriteRegistryCID(t)
    BY <1>1 DEF WriteRegistryCID
  <1>2. CASE ~WriteRegistryCID(t)
    BY <1>2 DEF Daemon, Sync, Healthy, Tick, TickSync, Done, PinImmediately, Marks, BeginSync,
                FetchRemote, ListLocal, PinRegistry, NextPin, AddPin, PersistLastSync,
                files
  <1>. QED BY <1>1, <1>2

\* However the device is paired again in the middle of a pass, registry.cid is
\* only ever changed to a registry of the account whose daemon the process owns:
\* for any number of accounts, tokens and pins.
THEOREM PublishesForPaired == Spec => PublishesForPairedUser
  <1>1. Init => OwnedInv
    BY InitType DEF Init, OwnedInv, SingleDaemon, Running, RegistryOwned, AfterFetch
  <1>2. OwnedInv /\ [Next]_vars => OwnedInv'
    BY NextOwned
  <1>3. OwnedInv /\ [Next]_vars
          => [registryFile' # registryFile =>
                /\ Current \in Tokens
                /\ remote[registryFile'].acct = Owner[Current]
                /\ remote[registryFile'].registry]_vars
    <2>1. SUFFICES ASSUME OwnedInv, [Next]_vars, registryFile' # registryFile
                   PROVE  /\ Current \in Tokens
                          /\ remote[registryFile'].acct = Owner[Current]
                          /\ remote[registryFile'].registry
      OBVIOUS
    <2>2. TypeInv /\ SingleDaemon
      BY <2>1 DEF OwnedInv
    <2>3. PICK t \in Tokens : Daemon(t)
      BY <2>1, <2>2, OutsideFrame DEF Next, vars
    <2>4. /\ pc[t] = "publish" /\ pass[t].reg # 0
          /\ registryFile' = pass[t].reg
      BY <2>1, <2>2, <2>3, OnlyPublishes
    <2>5. t = Current
      BY <2>2, <2>4 DEF SingleDaemon, Running
    <2>6. /\ remote[pass[t].reg].registry
          /\ remote[pass[t].reg].acct = Owner[t]
      BY <2>1, <2>4 DEF OwnedInv, RegistryOwned, AfterFetch
    <2>. QED BY <2>4, <2>5, <2>6
  <1>. QED
    BY <1>1, <1>2, <1>3, PTL DEF Spec, PublishesForPairedUser

----------------------------------------------------------------------------
(* The promise, for one account and clocks that agree                      *)

\* Every token authenticates the same account: the app refreshes the token of
\* one user, it does not pair the device to another.
OneAccount == \A t, u \in Tokens : Owner[t] = Owner[u]

\* What the watermark and the running pass say of the pins behind them.
PassInv(t) ==
    /\ 1..mem[t].lastSync \subseteq handled
    /\ InPass(t) => pass[t].mark <= Len(remote)
    /\ pc[t] \in AfterFetch =>
          /\ pass[t].todo \subseteq 1..Len(remote)
          /\ 1..pass[t].mark \subseteq handled \cup pass[t].todo
          /\ 1..pass[t].reg \subseteq handled \cup pass[t].todo
          /\ pass[t].reg <= Len(remote)
          /\ pass[t].reg # 0 =>
                remote[pass[t].reg].registry /\ registryFile <= pass[t].reg
    /\ pc[t] \in {"publish", "persist"} => pass[t].todo = {}

FilesInv ==
    /\ handled \subseteq 1..Len(remote)
    /\ 1..lastSyncFile \subseteq handled
    /\ registryFile <= Len(remote)
    /\ registryFile # 0 => remote[registryFile].registry

\* The inductive invariant: WatermarkCovered says nothing of the registry file,
\* without which a pass that finds an older registry could not be excluded.
CoverInv == TypeInv /\ SingleDaemon /\ FilesInv /\ \A t \in Tokens : PassInv(t)

\* The locals of a pass as numbers, and what a pass's types say of them.
LEMMA LocalTypes ==
  ASSUME TypeInv, NEW t \in Tokens
  PROVE  /\ mem[t] \in Mem /\ mem[t].lastSync \in Nat
         /\ pass[t] \in Pass /\ pass[t].mark \in Nat
         /\ pass[t].reg \in Nat /\ pass[t].todo \subseteq Positions
  <1>1. mem[t] \in Mem /\ pass[t] \in Pass
    BY TypeParts
  <1>2. mem[t].lastSync \in Nat
    BY <1>1 DEF Mem
  <1>3. /\ pass[t].mark \in Nat /\ pass[t].reg \in 0..MaxPins
        /\ pass[t].todo \subseteq Positions
    BY <1>1 DEF Pass
  <1>. QED BY <1>1, <1>2, <1>3, SizesAssumption

\* A step that only adds pins, on the service or to handled, disturbs no pass.
LEMMA PassKept ==
  ASSUME TypeInv, NEW t \in Tokens, PassInv(t),
         Len(remote') \in Nat, Len(remote) <= Len(remote'),
         \A p \in 1..Len(remote) : remote'[p] = remote[p],
         handled \subseteq handled', registryFile' = registryFile,
         pc'[t] = pc[t], pass'[t] = pass[t], mem'[t].lastSync = mem[t].lastSync
  PROVE  PassInv(t)'
  <1>1. /\ Len(remote) \in Nat /\ pass[t].mark \in Nat /\ pass[t].reg \in Nat
    BY TypeParts, LocalTypes
  <1>2. 1..mem'[t].lastSync \subseteq handled'
    BY DEF PassInv
  <1>3. InPass(t)' => pass'[t].mark <= Len(remote')
    BY <1>1 DEF PassInv, InPass
  <1>4. ASSUME pc'[t] \in AfterFetch
        PROVE  /\ pass'[t].todo \subseteq 1..Len(remote')
               /\ 1..pass'[t].mark \subseteq handled' \cup pass'[t].todo
               /\ 1..pass'[t].reg \subseteq handled' \cup pass'[t].todo
               /\ pass'[t].reg <= Len(remote')
               /\ pass'[t].reg # 0 =>
                    remote'[pass'[t].reg].registry /\ registryFile' <= pass'[t].reg
    <2>1. /\ pass[t].todo \subseteq 1..Len(remote)
          /\ 1..pass[t].mark \subseteq handled \cup pass[t].todo
          /\ 1..pass[t].reg \subseteq handled \cup pass[t].todo
          /\ pass[t].reg <= Len(remote)
          /\ pass[t].reg # 0 =>
               remote[pass[t].reg].registry /\ registryFile <= pass[t].reg
      BY <1>4 DEF PassInv
    <2>2. 1..Len(remote) \subseteq 1..Len(remote')
      BY <1>1
    <2>3. pass[t].reg # 0 => pass[t].reg \in 1..Len(remote)
      BY <1>1, <2>1
    <2>. QED BY <1>1, <2>1, <2>2, <2>3
  <1>. QED BY <1>2, <1>3, <1>4 DEF PassInv

\* A daemon outside a pass has only its watermark to answer for.
LEMMA PassIdle ==
  ASSUME NEW t \in Tokens, pc'[t] \in {"off", "health", "idle"},
         1..mem'[t].lastSync \subseteq handled'
  PROVE  PassInv(t)'
  BY DEF PassInv, InPass, AfterFetch

\* While one daemon steps, the others are off and stay so.
LEMMA OthersKept ==
  ASSUME CoverInv, NEW t \in Tokens, Daemon(t)
  PROVE  \A u \in Tokens \ {t} : PassInv(u)'
  <1>. TAKE u \in Tokens \ {t}
  <1>0. TypeInv /\ SingleDaemon /\ PassInv(u)
    BY DEF CoverInv
  <1>1. pc[u] = "off"
    BY <1>0, DaemonStep DEF SingleDaemon, Running
  <1>2. pc'[u] = "off"
    BY <1>0, <1>1, DaemonStep
  <1>3. 1..mem'[u].lastSync \subseteq handled'
    BY <1>0, DaemonFrame DEF PassInv
  <1>. QED BY <1>2, <1>3, PassIdle

\* The head of a pass: the mark it will leave is not ahead of the service.
LEMMA BeginSyncCover ==
  ASSUME ClockAhead = 0, CoverInv, NEW t \in Tokens, NEW m \in Mem,
         NEW w \in BOOLEAN, 1..m.lastSync \subseteq handled, BeginSync(t, m, w)
  PROVE  FilesInv' /\ PassInv(t)'
  <1>0. TypeInv /\ FilesInv
    BY DEF CoverInv
  <1>1. FilesInv'
    BY <1>0 DEF FilesInv, BeginSync, envVars
  <1>2. pc'[t] = "fetch" /\ handled' = handled /\ remote' = remote
    BY <1>0, TypeParts DEF BeginSync, Goto, envVars
  <1>3. mem'[t].lastSync = m.lastSync
    BY <1>0, TypeParts DEF BeginSync, Mem
  <1>4. pass'[t].mark = Len(remote)
    <2>1. PICK ahead \in 0..ClockAhead :
            pass' = [pass EXCEPT ![t] =
                       [NewPass EXCEPT !.mark = Len(remote) + ahead, !.marked = w]]
      BY DEF BeginSync
    <2>2. ahead = 0 /\ Len(remote) + ahead = Len(remote)
      BY <1>0, TypeParts
    <2>. QED
      BY <1>0, <2>1, <2>2, TypeParts DEF NewPass
  <1>5. Len(remote) \in Nat /\ pass'[t].mark <= Len(remote')
    BY <1>0, <1>2, <1>4, TypeParts
  <1>6. 1..mem'[t].lastSync \subseteq handled'
    BY <1>2, <1>3
  <1>. QED
    BY <1>1, <1>2, <1>5, <1>6 DEF PassInv, InPass, AfterFetch

\* The steps of a daemon between passes.
LEMMA IdleCover ==
  ASSUME ClockAhead = 0, CoverInv, NEW t \in Tokens,
         Healthy(t) \/ Tick(t) \/ TickSync(t) \/ Done(t) \/ PinImmediately(t)
  PROVE  FilesInv' /\ PassInv(t)'
  <1>0. TypeInv /\ FilesInv /\ PassInv(t)
    BY DEF CoverInv
  <1>a. mem[t] \in Mem /\ 1..mem[t].lastSync \subseteq handled
    BY <1>0, LocalTypes DEF PassInv
  <1>1. CASE Healthy(t)
    <2>1. [mem[t] EXCEPT !.lastSync = 0] \in Mem
          /\ 1..[mem[t] EXCEPT !.lastSync = 0].lastSync \subseteq handled
      BY <1>a DEF Mem
    <2>. QED
      BY <1>1, <1>a, <2>1, BeginSyncCover DEF Healthy, Marks
  <1>2. CASE Tick(t)
    <2>1. pc'[t] = "idle" /\ mem'[t].lastSync = mem[t].lastSync /\ handled' = handled
      BY <1>0, <1>2, <1>a, TypeParts DEF Tick, Mem
    <2>. QED
      BY <1>0, <1>2, <1>a, <2>1, PassIdle DEF Tick, FilesInv, envVars, files
  <1>3. CASE TickSync(t)
    <2>1. [mem[t] EXCEPT !.ticked = FALSE] \in Mem
          /\ 1..[mem[t] EXCEPT !.ticked = FALSE].lastSync \subseteq handled
      BY <1>a DEF Mem
    <2>. QED
      BY <1>3, <2>1, BeginSyncCover DEF TickSync, Marks
  <1>4. CASE Done(t)
    <2>1. pc'[t] = "off" /\ mem'[t].lastSync = 0 /\ handled' = handled
      BY <1>0, <1>4, TypeParts DEF Done, Goto, NoMem
    <2>. QED
      BY <1>0, <1>4, <2>1, PassIdle DEF Done, FilesInv, envVars, files
  <1>5. CASE PinImmediately(t)
    <2>1. mem'[t].lastSync = mem[t].lastSync
      BY <1>0, <1>5, <1>a, TypeParts DEF PinImmediately, Mem
    <2>2. pc'[t] = "idle" /\ handled' = handled
      BY <1>5 DEF PinImmediately
    <2>. QED
      BY <1>0, <1>5, <1>a, <2>1, <2>2, PassIdle
         DEF PinImmediately, FilesInv, envVars, files
  <1>. QED BY <1>1, <1>2, <1>3, <1>4, <1>5

\* With one account, a fetch returns every pin after some instant k.
LEMMA FetchAll ==
  ASSUME OneAccount, TypeInv, NEW t \in Tokens
  PROVE  /\ PinsOf(Owner[t]) = 1..Len(remote)
         /\ \A k : Since(Owner[t], k) = {p \in 1..Len(remote) : p > k}
  <1>1. ASSUME NEW p \in 1..Len(remote)
        PROVE  remote[p].acct = Owner[t]
    <2>1. remote[p] \in Pin
      BY TypeParts
    <2>2. PICK u \in Tokens : remote[p].acct = Owner[u]
      BY <2>1 DEF Pin, Accounts
    <2>. QED BY <2>2 DEF OneAccount
  <1>. QED BY <1>1 DEF PinsOf, Since

\* What a fetch of the pins after k leaves in the locals of the pass, when the
\* pins up to k are handled.
LEMMA FetchedCover ==
  ASSUME TypeInv, FilesInv, NEW t \in Tokens, PassInv(t), pc[t] = "fetch",
         NEW k \in Int, NEW S, S = {p \in 1..Len(remote) : p > k},
         \A p \in 1..Len(remote) : p <= k => p \in handled,
         Fetched(t, S), UNCHANGED <<remote, mem, handled, registryFile>>
  PROVE  PassInv(t)'
  <1>0. /\ Len(remote) \in Nat /\ registryFile \in Nat
        /\ registryFile <= Len(remote)
        /\ registryFile # 0 => remote[registryFile].registry
    BY TypeParts DEF FilesInv
  <1>1. PICK r \in 0..Len(remote) :
          /\ LatestRegistry(S, r)
          /\ pass' = [pass EXCEPT ![t].todo = S, ![t].reg = r]
    BY DEF Fetched
  <1>2. /\ pass'[t].todo = S /\ pass'[t].reg = r /\ pass'[t].mark = pass[t].mark
        /\ pc'[t] = "local"
    BY <1>1, TypeParts DEF Fetched, Goto, Pass
  <1>3. pass[t].mark <= Len(remote) /\ pass[t].mark \in Nat
    BY LocalTypes DEF PassInv, InPass
  <1>4. 1..Len(remote) \subseteq handled \cup S
    BY <1>0
  <1>5. 1..pass[t].mark \subseteq 1..Len(remote) /\ 1..r \subseteq 1..Len(remote)
    BY <1>0, <1>3
  <1>6. r # 0 => remote[r].registry /\ registryFile <= r
    <2>. DEFINE R == {p \in S : remote[p].registry}
    <2>1. SUFFICES ASSUME r # 0
                   PROVE  remote[r].registry /\ registryFile <= r
      OBVIOUS
    <2>2. r \in R /\ \A q \in R : q <= r
      BY <1>1, <2>1 DEF LatestRegistry
    <2>3. registryFile > k => registryFile = 0 \/ registryFile \in R
      <3>1. SUFFICES ASSUME registryFile > k, registryFile # 0
                     PROVE  registryFile \in R
        OBVIOUS
      <3>2. registryFile \in 1..Len(remote) /\ remote[registryFile].registry
        BY <1>0, <3>1
      <3>. QED BY <3>1, <3>2
    <2>4. r > k /\ r \in Nat
      BY <2>2
    <2>5. CASE registryFile > k
      BY <2>2, <2>3, <2>4, <2>5
    <2>6. CASE ~(registryFile > k)
      BY <1>0, <2>2, <2>4, <2>6
    <2>. QED BY <2>2, <2>5, <2>6
  <1>7. 1..mem'[t].lastSync \subseteq handled'
    BY DEF PassInv
  <1>8. S \subseteq 1..Len(remote) /\ r <= Len(remote)
    OBVIOUS
  <1>. QED
    BY <1>2, <1>3, <1>4, <1>5, <1>6, <1>7, <1>8 DEF PassInv, InPass, AfterFetch

\* The return from syncPins before the watermark is written.
LEMMA ReturnCover ==
  ASSUME TypeInv, NEW t \in Tokens, PassInv(t), Return(t),
         UNCHANGED <<mem, handled>>
  PROVE  PassInv(t)'
  <1>1. pc'[t] = "idle"
    BY TypeParts DEF Return, Goto
  <1>. QED BY <1>1, PassIdle DEF PassInv

\* The steps of a pass: a pin leaves todo only for handled, and the watermark is
\* written when todo is empty.
LEMMA SyncCover ==
  ASSUME OneAccount, CoverInv, NEW t \in Tokens, Sync(t)
  PROVE  FilesInv' /\ PassInv(t)'
  <1>0. TypeInv /\ FilesInv /\ PassInv(t)
    BY DEF CoverInv
  <1>a. /\ mem[t] \in Mem /\ pass[t] \in Pass /\ Len(remote) \in Nat
        /\ mem[t].lastSync \in Nat /\ 1..mem[t].lastSync \subseteq handled
    BY <1>0, LocalTypes, TypeParts DEF PassInv
  <1>1. CASE FetchRemote(t)
    <2>1. FilesInv'
      BY <1>0, <1>1 DEF FetchRemote, FilesInv, envVars
    <2>2. /\ pc[t] = "fetch"
          /\ UNCHANGED <<remote, mem, handled, registryFile>>
      BY <1>1 DEF FetchRemote, envVars
    <2>3. CASE Return(t)
      BY <1>0, <2>1, <2>2, <2>3, ReturnCover
    <2>4. CASE Fetched(t, PinsOf(Owner[t]))
      <3>1. PinsOf(Owner[t]) = {p \in 1..Len(remote) : p > 0}
        BY <1>0, <1>a, FetchAll
      <3>. QED
        BY <1>0, <2>1, <2>2, <2>4, <3>1, FetchedCover
    <2>5. ASSUME NEW k \in (mem[t].lastSync - Overlap)..mem[t].lastSync,
                 Fetched(t, Since(Owner[t], k))
          PROVE  PassInv(t)'
      <3>1. k \in Int /\ k <= mem[t].lastSync
        BY <1>a, SizesAssumption
      <3>2. Since(Owner[t], k) = {p \in 1..Len(remote) : p > k}
        BY <1>0, FetchAll
      <3>3. \A p \in 1..Len(remote) : p <= k => p \in handled
        BY <1>a, <3>1
      <3>. QED
        BY <1>0, <2>2, <2>5, <3>1, <3>2, <3>3, FetchedCover
    <2>. QED
      BY <1>1, <2>1, <2>3, <2>4, <2>5 DEF FetchRemote
  <1>2. CASE ListLocal(t)
    <2>1. FilesInv'
      BY <1>0, <1>2 DEF ListLocal, FilesInv, envVars
    <2>2. CASE Return(t) /\ UNCHANGED mem
      BY <1>0, <1>2, <2>1, <2>2, ReturnCover DEF ListLocal
    <2>3. CASE /\ mem' = [mem EXCEPT ![t].pinned = kuboPins]
               /\ Goto(t, "registry") /\ UNCHANGED pass
      <3>1. pc'[t] = "registry" /\ mem'[t].lastSync = mem[t].lastSync
        BY <1>0, <1>a, <2>3, TypeParts DEF Goto, Mem
      <3>. QED
        BY <1>0, <1>2, <2>1, <2>3, <3>1
           DEF ListLocal, PassInv, InPass, AfterFetch, envVars
    <2>. QED
      BY <1>2, <2>2, <2>3 DEF ListLocal
  <1>3. CASE PinRegistry(t)
    <2>1. FilesInv'
      BY <1>0, <1>3 DEF PinRegistry, FilesInv, envVars, files
    <2>2. pc'[t] = "loop" /\ mem'[t].lastSync = mem[t].lastSync
      BY <1>0, <1>3, <1>a, TypeParts DEF PinRegistry, Goto, Mem
    <2>3. UNCHANGED <<pass, remote, handled, registryFile>> /\ pc[t] = "registry"
      BY <1>3 DEF PinRegistry, envVars, files
    <2>. QED
      BY <1>0, <2>1, <2>2, <2>3 DEF PassInv, InPass, AfterFetch
  <1>4. CASE NextPin(t)
    <2>0. /\ pc[t] = "loop" /\ UNCHANGED <<remote, mem, registryFile, lastSyncFile>>
          /\ pass[t].todo \subseteq 1..Len(remote)
      BY <1>0, <1>4 DEF NextPin, PassInv, AfterFetch, envVars
    <2>1. CASE Return(t) /\ UNCHANGED handled
      BY <1>0, <2>0, <2>1, ReturnCover DEF FilesInv
    <2>2. ASSUME NEW p \in pass[t].todo, p \in mem[t].pinned,
                 pass' = [pass EXCEPT ![t].todo = @ \ {p}],
                 handled' = handled \cup {p}, UNCHANGED pc
          PROVE  FilesInv' /\ PassInv(t)'
      <3>1. pass'[t] = [pass[t] EXCEPT !.todo = @ \ {p}]
        BY <1>0, <2>2, TypeParts
      <3>2. /\ pass'[t].todo = pass[t].todo \ {p}
            /\ pass'[t].mark = pass[t].mark /\ pass'[t].reg = pass[t].reg
        BY <1>a, <3>1 DEF Pass
      <3>3. FilesInv'
        BY <1>0, <2>0, <2>2 DEF FilesInv
      <3>. QED
        BY <1>0, <2>0, <2>2, <3>2, <3>3 DEF PassInv, InPass, AfterFetch
    <2>3. ASSUME NEW p, pass' = [pass EXCEPT ![t].cur = p], Goto(t, "add"),
                 UNCHANGED handled
          PROVE  FilesInv' /\ PassInv(t)'
      <3>1. /\ pass'[t].todo = pass[t].todo /\ pc'[t] = "add"
            /\ pass'[t].mark = pass[t].mark /\ pass'[t].reg = pass[t].reg
        BY <1>0, <1>a, <2>3, TypeParts DEF Goto, Pass
      <3>. QED
        BY <1>0, <2>0, <2>3, <3>1 DEF FilesInv, PassInv, InPass, AfterFetch
    <2>4. CASE pass[t].todo = {} /\ Goto(t, "publish") /\ UNCHANGED <<pass, handled>>
      <3>1. pc'[t] = "publish"
        BY <1>0, <2>4, TypeParts DEF Goto
      <3>. QED
        BY <1>0, <2>0, <2>4, <3>1 DEF FilesInv, PassInv, InPass, AfterFetch
    <2>. QED
      BY <1>4, <2>1, <2>2, <2>3, <2>4 DEF NextPin
  <1>5. CASE AddPin(t)
    <2> DEFINE p == pass[t].cur
    <2>0. /\ pc[t] = "add" /\ UNCHANGED <<remote, registryFile, lastSyncFile>>
          /\ p \in pass[t].todo /\ pass[t].todo \subseteq 1..Len(remote)
          /\ handled' = handled \cup {p}
      BY <1>0, <1>5, TypeParts DEF AddPin, PassInv, AfterFetch, envVars, files
    <2>1. pc'[t] = "loop" /\ mem'[t].lastSync = mem[t].lastSync
      BY <1>0, <1>a, <1>5, TypeParts DEF AddPin, Goto, Mem
    <2>2. pass'[t] = [pass[t] EXCEPT !.todo = @ \ {p}, !.cur = 0]
      BY <1>0, <1>5, TypeParts DEF AddPin
    <2>3. /\ pass'[t].todo = pass[t].todo \ {p}
          /\ pass'[t].mark = pass[t].mark /\ pass'[t].reg = pass[t].reg
      BY <1>a, <2>2 DEF Pass
    <2>4. FilesInv'
      BY <1>0, <2>0 DEF FilesInv
    <2>. QED
      BY <1>0, <2>0, <2>1, <2>3, <2>4 DEF PassInv, InPass, AfterFetch
  <1>6. CASE WriteRegistryCID(t)
    <2>0. /\ pc[t] = "publish"
          /\ UNCHANGED <<remote, lastSyncFile, mem, pass, handled>>
          /\ \/ registryFile' = registryFile
             \/ pass[t].reg # 0 /\ registryFile' = pass[t].reg
      BY <1>6 DEF WriteRegistryCID, envVars
    <2>1. pc'[t] = "persist"
      BY <1>0, <1>6, TypeParts DEF WriteRegistryCID, Goto
    <2>2. /\ pass[t].reg <= Len(remote)
          /\ pass[t].reg # 0 => remote[pass[t].reg].registry /\ registryFile <= pass[t].reg
          /\ pass[t].reg \in Nat
      BY <1>0, <2>0, LocalTypes DEF PassInv, AfterFetch
    <2>3. FilesInv'
      BY <1>0, <2>0, <2>2 DEF FilesInv
    <2>. QED
      BY <1>0, <2>0, <2>1, <2>2, <2>3 DEF PassInv, InPass, AfterFetch
  <1>7. CASE PersistLastSync(t)
    <2>0. /\ pc[t] = "persist" /\ Return(t)
          /\ UNCHANGED <<remote, registryFile, handled>>
          /\ lastSyncFile' \in {lastSyncFile, pass[t].mark}
      BY <1>7 DEF PersistLastSync, envVars
    <2>1. pc'[t] = "idle" /\ mem'[t].lastSync = pass[t].mark
      BY <1>0, <1>7, <1>a, <2>0, TypeParts DEF PersistLastSync, Return, Goto, Mem
    <2>2. 1..pass[t].mark \subseteq handled
      BY <1>0, <2>0 DEF PassInv, AfterFetch
    <2>3. FilesInv'
      BY <1>0, <2>0, <2>2 DEF FilesInv
    <2>. QED
      BY <2>0, <2>1, <2>2, <2>3, PassIdle
  <1>. QED
    BY <1>1, <1>2, <1>3, <1>4, <1>5, <1>6, <1>7 DEF Sync

\* startDaemon begins from the watermark last_sync.txt holds.
LEMMA StartCover ==
  ASSUME CoverInv, NEW c \in Tokens \cup {None}, StartDaemon(c),
         UNCHANGED <<remote, handled, registryFile>>
  PROVE  \A u \in Tokens : PassInv(u)'
  <1>. TAKE u \in Tokens
  <1>0. /\ TypeInv /\ FilesInv /\ PassInv(u)
        /\ Len(remote) \in Nat /\ lastSyncFile \in Nat
        /\ pc \in [Tokens -> Steps] /\ mem \in [Tokens -> Mem]
        /\ pass \in [Tokens -> Pass]
    BY TypeParts DEF CoverInv
  <1>1. CASE ~Paired(c)
    BY <1>0, <1>1, PassKept DEF StartDaemon, daemon
  <1>2. CASE Paired(c) /\ u # c
    BY <1>0, <1>2, PassKept DEF StartDaemon
  <1>3. CASE Paired(c) /\ u = c
    <2>1. pc'[u] = "health" /\ mem'[u] = NewMem
      BY <1>0, <1>3 DEF StartDaemon
    <2>2. mem'[u].lastSync = lastSyncFile
      BY <2>1 DEF NewMem, NoMem
    <2>. QED
      BY <1>0, <2>1, <2>2, PassIdle DEF FilesInv
  <1>. QED BY <1>1, <1>2, <1>3

\* Cancelling a context leaves a pass where it is.
LEMMA CancelCover ==
  ASSUME CoverInv, NEW t \in Tokens, Cancel(t),
         UNCHANGED <<remote, handled, registryFile, pc, pass>>
  PROVE  \A u \in Tokens : PassInv(u)'
  <1>. TAKE u \in Tokens
  <1>0. /\ TypeInv /\ PassInv(u) /\ Len(remote) \in Nat
        /\ mem \in [Tokens -> Mem] /\ mem[u] \in Mem
    BY TypeParts DEF CoverInv
  <1>1. mem'[u].lastSync = mem[u].lastSync
    BY <1>0 DEF Cancel, Mem
  <1>. QED BY <1>0, <1>1, PassKept

\* The steps of the environment and of runWithConfig disturb no pass.
LEMMA OutsideCover ==
  ASSUME CoverInv, Environment \/ Watcher
  PROVE  FilesInv' /\ \A t \in Tokens : PassInv(t)'
  <1>0. /\ TypeInv /\ FilesInv /\ \A t \in Tokens : PassInv(t)
        /\ Len(remote) \in Nat /\ remote \in Seq(Pin)
        /\ cfg \in Tokens \cup {None}
        /\ mem \in [Tokens -> Mem]
    BY TypeParts DEF CoverInv
  <1>1. ASSUME NEW a \in Accounts, NEW b \in BOOLEAN, Register(a, b)
        PROVE  FilesInv' /\ \A t \in Tokens : PassInv(t)'
    <2> DEFINE pin == [acct |-> a, registry |-> b]
    <2>1. /\ remote' = Append(remote, pin) /\ pin \in Pin
          /\ UNCHANGED <<handled, registryFile, lastSyncFile, pc, mem, pass>>
      BY <1>1 DEF Register, Pin, files, daemon
    <2>2. /\ Len(remote') = Len(remote) + 1
          /\ \A p \in 1..Len(remote) : remote'[p] = remote[p]
      BY <1>0, <2>1
    <2>3. FilesInv'
      <3>1. handled' \subseteq 1..Len(remote') /\ registryFile' <= Len(remote')
        BY <1>0, <2>1, <2>2, TypeParts, SizesAssumption DEF FilesInv
      <3>2. registryFile # 0 => registryFile \in 1..Len(remote)
        BY <1>0, TypeParts, SizesAssumption DEF FilesInv
      <3>. QED
        BY <1>0, <2>1, <2>2, <3>1, <3>2 DEF FilesInv
    <2>. QED
      BY <1>0, <2>1, <2>2, <2>3, PassKept
  <1>2. CASE KuboReset \/ \E v \in Tokens \cup {None, Garbled} : EditProps(v)
    <2>1. UNCHANGED <<remote, handled, registryFile, lastSyncFile, pc, mem, pass>>
      BY <1>2 DEF KuboReset, EditProps, envVars, files, daemon
    <2>. QED
      BY <1>0, <2>1, PassKept DEF FilesInv
  <1>3. ASSUME NEW t \in Tokens, NEW c \in Positions, ReportMissing(t, c)
        PROVE  FilesInv' /\ \A u \in Tokens : PassInv(u)'
    <2>1. UNCHANGED <<remote, handled, registryFile, lastSyncFile, pc, pass>>
      BY <1>3 DEF ReportMissing, envVars, files
    <2>2. ASSUME NEW u \in Tokens
          PROVE  mem'[u].lastSync = mem[u].lastSync
      <3>1. \/ UNCHANGED mem
            \/ mem' = [mem EXCEPT ![t].queue = Append(mem[t].queue, c)]
        BY <1>3 DEF ReportMissing
      <3>2. mem[u] \in Mem
        BY <1>0
      <3>3. [mem[t] EXCEPT !.queue = Append(mem[t].queue, c)].lastSync = mem[t].lastSync
        <4>. mem[t] \in Mem
          BY <1>0
        <4>. QED
          BY DEF Mem
      <3>. QED
        BY <1>0, <3>1, <3>3
    <2>. QED
      BY <1>0, <2>1, <2>2, PassKept DEF FilesInv
  <1>4. CASE Boot
    <2>1. /\ StartDaemon(cfg') /\ cfg' \in Tokens \cup {None}
          /\ UNCHANGED <<remote, handled, registryFile, lastSyncFile>>
      BY <1>0, <1>4, NamesAssumption DEF Boot, LoadProps, TypeInv, TypeOK, envVars, files
    <2>. QED
      BY <1>0, <2>1, StartCover DEF FilesInv
  <1>5. CASE PollConfig
    <2>1. /\ UNCHANGED <<remote, handled, registryFile, lastSyncFile>>
          /\ cfg' \in Tokens \cup {None}
      BY <1>0, <1>5, NamesAssumption
         DEF PollConfig, LoadProps, TypeInv, TypeOK, envVars, files
    <2>2. CASE Paired(cfg)
      <3>1. cfg \in Tokens /\ Cancel(cfg) /\ UNCHANGED <<pc, pass>>
        BY <1>0, <1>5, <2>2 DEF PollConfig, Paired
      <3>. QED
        BY <1>0, <2>1, <3>1, CancelCover DEF FilesInv
    <2>3. CASE ~Paired(cfg)
      <3>1. StartDaemon(cfg')
        BY <1>5, <2>3 DEF PollConfig
      <3>. QED
        BY <1>0, <2>1, <3>1, StartCover DEF FilesInv
    <2>. QED BY <2>2, <2>3
  <1>6. CASE CleanupDone
    <2>1. /\ StartDaemon(cfg)
          /\ UNCHANGED <<remote, handled, registryFile, lastSyncFile>>
      BY <1>6 DEF CleanupDone, envVars, files
    <2>. QED
      BY <1>0, <2>1, StartCover DEF FilesInv
  <1>7. CASE Terminate
    <2>1. UNCHANGED <<remote, handled, registryFile, lastSyncFile, pc, pass>>
      BY <1>7 DEF Terminate, envVars, files
    <2>2. CASE Paired(cfg)
      <3>1. cfg \in Tokens /\ Cancel(cfg)
        BY <1>0, <1>7, <2>2 DEF Terminate, Paired
      <3>. QED
        BY <1>0, <2>1, <3>1, CancelCover DEF FilesInv
    <2>3. CASE ~Paired(cfg)
      <3>1. UNCHANGED mem
        BY <1>7, <2>3 DEF Terminate
      <3>. QED
        BY <1>0, <2>1, <3>1, PassKept DEF FilesInv
    <2>. QED BY <2>2, <2>3
  <1>8. CASE Exit
    <2>1. UNCHANGED <<remote, handled, registryFile, lastSyncFile, pc, mem, pass>>
      BY <1>8 DEF Exit, envVars, files, daemon
    <2>. QED
      BY <1>0, <2>1, PassKept DEF FilesInv
  <1>9. CASE Crash
    <2>1. UNCHANGED <<remote, handled, registryFile, lastSyncFile>>
      BY <1>9 DEF Crash, envVars, files
    <2>2. \A u \in Tokens : pc'[u] = "off" /\ mem'[u].lastSync = 0
      BY <1>9 DEF Crash, NoMem
    <2>. QED
      BY <1>0, <2>1, <2>2, PassIdle DEF FilesInv
  <1>. QED
    BY <1>1, <1>2, <1>3, <1>4, <1>5, <1>6, <1>7, <1>8, <1>9 DEF Environment, Watcher

\* CoverInv holds at the start and is kept by every step.
LEMMA InitCover == ASSUME Init PROVE CoverInv
  <1>1. TypeInv
    BY InitType
  <1>2. \A t \in Tokens : pc[t] = "off" /\ mem[t].lastSync = 0
    BY DEF Init, NoMem
  <1>3. SingleDaemon
    BY <1>2 DEF SingleDaemon, Running
  <1>4. \A t \in Tokens : PassInv(t)
    BY <1>2 DEF PassInv, InPass, AfterFetch
  <1>5. FilesInv
    BY <1>1, TypeParts DEF Init, FilesInv
  <1>. QED BY <1>1, <1>3, <1>4, <1>5 DEF CoverInv

\* The step: the daemon's own steps and the others' by the lemmas above.
LEMMA NextCover ==
  ASSUME OneAccount, ClockAhead = 0, CoverInv, [Next]_vars
  PROVE  CoverInv'
  <1>0. /\ TypeInv /\ SingleDaemon /\ FilesInv /\ \A t \in Tokens : PassInv(t)
        /\ Len(remote) \in Nat
    BY TypeParts DEF CoverInv
  <1>1. TypeInv' /\ SingleDaemon'
    BY <1>0, NextType, NextSingle
  <1>2. FilesInv' /\ \A t \in Tokens : PassInv(t)'
    <2>1. ASSUME NEW t \in Tokens, Daemon(t)
          PROVE  FilesInv' /\ \A u \in Tokens : PassInv(u)'
      <3>1. FilesInv' /\ PassInv(t)'
        BY <2>1, IdleCover, SyncCover DEF Daemon
      <3>2. \A u \in Tokens \ {t} : PassInv(u)'
        BY <2>1, OthersKept
      <3>. QED BY <3>1, <3>2
    <2>2. CASE Environment \/ Watcher
      BY <2>2, OutsideCover
    <2>3. CASE UNCHANGED vars
      BY <1>0, <2>3, PassKept DEF vars, FilesInv
    <2>. QED BY <2>1, <2>2, <2>3 DEF Next
  <1>. QED BY <1>1, <1>2 DEF CoverInv

\* With one account and clocks that agree to the minute the daemon subtracts, no
\* pin registered before a watermark is ever left unoffered to kubo, for any
\* number of pins, tokens, failures, crashes and passes.
THEOREM WatermarkIsCovered ==
  ASSUME OneAccount, ClockAhead = 0
  PROVE  Spec => []WatermarkCovered
  <1>1. Init => CoverInv
    BY InitCover
  <1>2. CoverInv /\ [Next]_vars => CoverInv'
    BY NextCover
  <1>3. CoverInv => WatermarkCovered
    BY DEF CoverInv, FilesInv, PassInv, WatermarkCovered
  <1>. QED
    BY <1>1, <1>2, <1>3, PTL DEF Spec

\* Under the same assumptions the daemon implements PinPromise: registry.cid
\* only moves forward, and only to a registry all of whose earlier pins have been
\* offered to kubo.
THEOREM PromiseIsKept ==
  ASSUME OneAccount, ClockAhead = 0
  PROVE  Spec => KeepsPromise
  <1>. USE DEF Promise!promiseVars
  <1>1. Init => CoverInv
    BY InitCover
  <1>2. CoverInv /\ [Next]_vars => CoverInv'
    BY NextCover
  <1>3. Init => Promise!Init
    BY DEF Init, Promise!Init
  <1>4. ASSUME CoverInv, CoverInv', [Next]_vars
        PROVE  [Promise!Next]_(Promise!promiseVars)
    <2>0. /\ TypeInv /\ SingleDaemon /\ FilesInv /\ Len(remote) \in Nat
          /\ registryFile \in Nat
      BY <1>4, TypeParts, SizesAssumption DEF CoverInv
    <2>1. CASE UNCHANGED <<remote, handled, registryFile>>
      BY <2>1
    <2>2. ASSUME NEW a \in Accounts, NEW b \in BOOLEAN, Register(a, b)
          PROVE  Promise!Register
      BY <2>2 DEF Register, Promise!Register, Pin, files
    <2>3. ASSUME NEW t \in Tokens, NextPin(t) \/ AddPin(t)
          PROVE  Promise!Offer \/ UNCHANGED <<remote, handled, registryFile>>
      <3>1. UNCHANGED <<remote, registryFile>>
        BY <2>3 DEF NextPin, AddPin, envVars, files
      <3>2. pass[t].todo \subseteq 1..Len(remote)
        BY <1>4, <2>3 DEF NextPin, AddPin, CoverInv, PassInv, AfterFetch
      <3>3. CASE NextPin(t)
        BY <3>1, <3>2, <3>3 DEF NextPin, Promise!Offer
      <3>4. CASE AddPin(t)
        <4>1. pass[t].cur \in pass[t].todo
          BY <2>0, <3>4, TypeParts DEF AddPin
        <4>. QED
          BY <3>1, <3>2, <3>4, <4>1 DEF AddPin, Promise!Offer
      <3>. QED BY <2>3, <3>3, <3>4
    <2>4. ASSUME NEW t \in Tokens, WriteRegistryCID(t)
          PROVE  Promise!Publish \/ UNCHANGED <<remote, handled, registryFile>>
      <3>1. /\ UNCHANGED <<remote, handled>> /\ pc[t] = "publish"
            /\ \/ registryFile' = registryFile
               \/ pass[t].reg # 0 /\ registryFile' = pass[t].reg
        BY <2>4 DEF WriteRegistryCID, envVars
      <3>2. /\ pass[t].reg \in Nat /\ pass[t].reg <= Len(remote)
            /\ 1..pass[t].reg \subseteq handled
            /\ pass[t].reg # 0 =>
                 remote[pass[t].reg].registry /\ registryFile <= pass[t].reg
        BY <1>4, <2>0, <3>1, LocalTypes DEF CoverInv, PassInv, AfterFetch
      <3>3. CASE registryFile' = registryFile
        BY <3>1, <3>3
      <3>4. CASE registryFile' = pass[t].reg /\ registryFile' # registryFile /\ pass[t].reg # 0
        <4>1. pass[t].reg \in 1..Len(remote) /\ pass[t].reg > registryFile
          BY <2>0, <3>2, <3>4
        <4>. QED
          BY <3>1, <3>2, <3>4, <4>1 DEF Promise!Publish
      <3>. QED BY <3>1, <3>3, <3>4
    <2>5. ASSUME NEW t \in Tokens,
                 Healthy(t) \/ Tick(t) \/ TickSync(t) \/ Done(t) \/ PinImmediately(t)
          PROVE  UNCHANGED <<remote, handled, registryFile>>
      BY <2>5 DEF Healthy, Tick, TickSync, Done, PinImmediately, Marks, BeginSync, envVars, files
    <2>6. ASSUME NEW t \in Tokens,
                 FetchRemote(t) \/ ListLocal(t) \/ PinRegistry(t) \/ PersistLastSync(t)
          PROVE  UNCHANGED <<remote, handled, registryFile>>
      BY <2>6 DEF FetchRemote, ListLocal, PinRegistry, PersistLastSync, envVars, files
    <2>7. CASE Watcher
      BY <2>1, <2>7 DEF Watcher, Boot, PollConfig, CleanupDone, Terminate, Exit, Crash,
                 envVars, files
    <2>8. ASSUME NEW v, EditProps(v)
          PROVE  UNCHANGED <<remote, handled, registryFile>>
      BY <2>8 DEF EditProps, files
    <2>9. ASSUME NEW t \in Tokens, NEW c \in Positions, ReportMissing(t, c)
          PROVE  UNCHANGED <<remote, handled, registryFile>>
      BY <2>9 DEF ReportMissing, envVars, files
    <2>10. CASE KuboReset
      BY <2>1, <2>10 DEF KuboReset, envVars, files
    <2>11. CASE UNCHANGED vars
      BY <2>1, <2>11 DEF vars
    <2>. QED
      BY <1>4, <2>1, <2>2, <2>3, <2>4, <2>5, <2>6, <2>7, <2>8, <2>9, <2>10, <2>11
         DEF Next, Environment, Daemon, Sync, Promise!Next
  <1>. QED
    BY <1>1, <1>2, <1>3, <1>4, PTL DEF Spec, KeepsPromise, Promise!Spec
----------------------------------------------------------------------------
(* Every pass has an end                                                   *)

\* The pins of a pass can be counted, and one that is taken is one less.
LEMMA TodoCounts ==
  ASSUME TypeInv, NEW t \in Tokens
  PROVE  /\ Cardinality(pass[t].todo) \in Nat
         /\ \A p \in pass[t].todo :
               Cardinality(pass[t].todo \ {p}) = Cardinality(pass[t].todo) - 1
  <1>1. pass[t].todo \subseteq Positions
    BY LocalTypes
  <1>2. IsFiniteSet(Positions)
    BY SizesAssumption, FS_Interval DEF Positions
  <1>3. IsFiniteSet(pass[t].todo)
    BY <1>1, <1>2, FS_Subset
  <1>. QED
    BY <1>3, FS_CardinalityType, FS_RemoveElement

\* A step that takes no pin moves the daemon on.
LEMMA MovesOn ==
  ASSUME TypeInv, NEW t \in Tokens,
         pass'[t].todo = pass[t].todo,
         \/ pc[t] = "local" /\ pc'[t] = "registry"
         \/ pc[t] = "registry" /\ pc'[t] = "loop"
         \/ pc[t] = "loop" /\ pc'[t] \in {"add", "publish"}
         \/ pc[t] = "publish" /\ pc'[t] = "persist"
  PROVE  pc'[t] \in AfterFetch /\ StepsLeft(t)' < StepsLeft(t)
  <1>1. Cardinality(pass[t].todo) \in Nat
    BY TodoCounts
  <1>. QED
    BY <1>1 DEF StepsLeft, AfterFetch

\* A step that takes a pin brings the daemon back to the head of the loop, with one pin
\* less to do.
LEMMA TakesPin ==
  ASSUME TypeInv, NEW t \in Tokens, NEW p \in pass[t].todo,
         pass'[t].todo = pass[t].todo \ {p}, pc[t] \in {"loop", "add"}, pc'[t] = "loop"
  PROVE  pc'[t] \in AfterFetch /\ StepsLeft(t)' < StepsLeft(t)
  <1>1. /\ Cardinality(pass[t].todo) \in Nat
        /\ Cardinality(pass'[t].todo) = Cardinality(pass[t].todo) - 1
    BY TodoCounts
  <1>. QED
    BY <1>1 DEF StepsLeft, AfterFetch

\* Every step of a pass ends it or brings it nearer to its end.
LEMMA PassStep ==
  ASSUME TypeInv, NEW t \in Tokens, Sync(t), pc[t] \in AfterFetch
  PROVE  \/ pc'[t] \in {"idle", "off"}
         \/ pc'[t] \in AfterFetch /\ StepsLeft(t)' < StepsLeft(t)
  <1>0. pc \in [Tokens -> Steps] /\ pass \in [Tokens -> Pass] /\ pass[t] \in Pass
    BY TypeParts
  <1>1. CASE Return(t)
    BY <1>0, <1>1 DEF Return, Goto
  <1>2. CASE FetchRemote(t)
    BY <1>2 DEF FetchRemote, AfterFetch
  <1>3. CASE ListLocal(t) /\ ~Return(t)
    <2>1. pc[t] = "local" /\ pc'[t] = "registry" /\ pass' = pass
      BY <1>0, <1>3 DEF ListLocal, Goto
    <2>. QED
      BY <2>1, MovesOn
  <1>4. CASE PinRegistry(t)
    <2>1. pc[t] = "registry" /\ pc'[t] = "loop" /\ pass' = pass
      BY <1>0, <1>4 DEF PinRegistry, Goto
    <2>. QED
      BY <2>1, MovesOn
  <1>5. CASE NextPin(t) /\ ~Return(t)
    <2>1. CASE pass[t].todo = {} /\ Goto(t, "publish") /\ pass' = pass
      BY <1>0, <1>5, <2>1, MovesOn DEF NextPin, Goto
    <2>2. ASSUME NEW p \in pass[t].todo, pc' = pc,
                 pass' = [pass EXCEPT ![t].todo = @ \ {p}]
          PROVE  pc'[t] \in AfterFetch /\ StepsLeft(t)' < StepsLeft(t)
      <3>1. pass'[t].todo = pass[t].todo \ {p}
        BY <1>0, <2>2 DEF Pass
      <3>. QED
        BY <1>5, <2>2, <3>1, TakesPin DEF NextPin
    <2>3. ASSUME NEW p \in pass[t].todo, Goto(t, "add"),
                 pass' = [pass EXCEPT ![t].cur = p]
          PROVE  pc'[t] \in AfterFetch /\ StepsLeft(t)' < StepsLeft(t)
      <3>1. pass'[t].todo = pass[t].todo
        BY <1>0, <2>3 DEF Pass
      <3>. QED
        BY <1>0, <1>5, <2>3, <3>1, MovesOn DEF NextPin, Goto
    <2>. QED
      BY <1>5, <2>1, <2>2, <2>3 DEF NextPin
  <1>6. CASE AddPin(t)
    <2>1. pass[t].cur \in pass[t].todo /\ pc[t] = "add" /\ pc'[t] = "loop"
      BY <1>0, <1>6, TypeParts DEF AddPin, Goto
    <2>2. pass'[t].todo = pass[t].todo \ {pass[t].cur}
      BY <1>0, <1>6 DEF AddPin, Pass
    <2>. QED
      BY <2>1, <2>2, TakesPin
  <1>7. CASE WriteRegistryCID(t)
    <2>1. pc[t] = "publish" /\ pc'[t] = "persist" /\ pass' = pass
      BY <1>0, <1>7 DEF WriteRegistryCID, Goto
    <2>. QED
      BY <2>1, MovesOn
  <1>8. CASE PersistLastSync(t)
    BY <1>1, <1>8 DEF PersistLastSync
  <1>. QED
    BY <1>1, <1>2, <1>3, <1>4, <1>5, <1>6, <1>7, <1>8 DEF Sync

\* Nothing but its own steps moves a daemon within a pass, short of killing it.
LEMMA PassUntouched ==
  ASSUME TypeInv, SingleDaemon, [Next]_vars, NEW t \in Tokens, ~Sync(t),
         pc[t] \in AfterFetch, pc'[t] # "off"
  PROVE  pc'[t] = pc[t] /\ pass'[t] = pass[t]
  <1>0. pc \in [Tokens -> Steps] /\ pass \in [Tokens -> Pass]
    BY TypeParts
  <1>1. CASE Environment
    BY <1>1 DEF Environment, Register, EditProps, ReportMissing, KuboReset, daemon
  <1>2. CASE Watcher
    <2>1. wpc # "down" /\ t = Current
      BY DEF SingleDaemon, Running, AfterFetch
    <2>2. CASE PollConfig
      <3>1. wpc = "polling" /\ Current = cfg
        BY <2>2 DEF PollConfig, Current
      <3>2. Paired(cfg)
        BY <2>1, <3>1, NamesAssumption DEF Paired
      <3>. QED
        BY <2>2, <3>2 DEF PollConfig
    <2>3. CASE CleanupDone
      <3>1. wpc = "stopping" /\ pc[stopping] = "off" /\ Current = stopping
        BY <2>3 DEF CleanupDone, Current
      <3>. QED
        BY <2>1, <3>1 DEF AfterFetch
    <2>4. CASE Crash
      BY <2>4 DEF Crash
    <2>. QED
      BY <1>2, <2>1, <2>2, <2>3, <2>4 DEF Watcher, Boot, Terminate, Exit, daemon
  <1>3. ASSUME NEW u \in Tokens, Daemon(u) PROVE FALSE
    <2>1. pc[u] # "off"
      BY <1>3, DaemonStep
    <2>2. u = t
      BY <2>1 DEF SingleDaemon, Running, AfterFetch
    <2>. QED
      BY <1>3, <2>2 DEF Daemon, Healthy, Tick, TickSync, Done, PinImmediately, AfterFetch
  <1>4. CASE UNCHANGED vars
    BY <1>4 DEF vars
  <1>. QED
    BY <1>1, <1>2, <1>3, <1>4 DEF Next

\* What is left of a pass shrinks with each of the daemon's steps and with nothing else,
\* for any number of pins and failures: the heart of why passes come to an end.
THEOREM PassesAdvance == Spec => PassAdvances
  <1>1. Init => TypeInv /\ SingleDaemon
    BY InitType DEF Init, SingleDaemon, Running
  <1>2. TypeInv /\ SingleDaemon /\ [Next]_vars => TypeInv' /\ SingleDaemon'
    BY NextType, NextSingle
  <1>3. TypeInv /\ SingleDaemon /\ [Next]_vars
          => [\A t \in Tokens : pc[t] \in AfterFetch =>
                \/ pc'[t] \in {"idle", "off"}
                \/ ~Sync(t) /\ pc'[t] = pc[t] /\ pass'[t] = pass[t]
                \/ pc'[t] \in AfterFetch /\ StepsLeft(t)' < StepsLeft(t)]_vars
    BY PassStep, PassUntouched
  <1>. QED
    BY <1>1, <1>2, <1>3, PTL DEF Spec, PassAdvances
=============================================================================

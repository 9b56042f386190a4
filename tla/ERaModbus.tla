----------------------------- MODULE ERaModbus -----------------------------
(***************************************************************************)
(* ERaModbus (src/src/Modbus/ERaModbus.hpp) on a board with an RTOS: the   *)
(* main task (MQTT loop) delivers configurations, actions and scans; the   *)
(* read task walks modbusConfig and publishes one frame of data per walk;  *)
(* the write task writes modbusControl.  They share the bus, guarded by a  *)
(* mutex, and ONE state word, ModbusState, that every task tests and sets  *)
(* without it: a test and the set that follows are two steps here.         *)
(*                                                                         *)
(* An entry of a list is its position, an exchange with a slave one step   *)
(* (its answer, error and timeout have the same effect on this state).     *)
(* Reads are synchronous (legacy): the only kind whose frame is published. *)
(***************************************************************************)
EXTENDS Integers, FiniteSets, SequencesExt

CONSTANTS Keys,        \* addresses malloc() returns for keys of actions
          MaxAction,   \* MODBUS_MAX_ACTION
          ActionTasks, \* the tasks that may execute actions (actionWriteTask)
          MaxLen,      \* bound: entries in a list
          MaxSteps,    \* bound: steps of an action, addresses of a scan
          MaxOps       \* bound: calls of the main task

ASSUME KeyAssumption == "none" \notin Keys
ASSUME TaskAssumption == ActionTasks \subseteq {"read", "write"}
ASSUME BoundAssumption ==
    /\ MaxAction \in Nat /\ MaxLen \in Nat /\ MaxOps \in Nat /\ MaxSteps \in Nat \ {0}

VARIABLES actTask,  \* actionWriteTask: the task that executes actions
          mb,       \* ModbusState
          mutex,    \* owner of ERaModbus::mutex
          pc,       \* where each task is
          at,       \* the entry, step or address each task is at (0: none)
          op,       \* the main task's call in progress
          conf, ctrl, \* modbusConfig and modbusControl: entries announced, held
          enable,   \* modbusControl->writeOption.enable
          queue,    \* ModbusAction: queue and queueRaw
          held,     \* the request taken from a queue and not yet freed
          heap,     \* keys allocated and not freed
          frame,    \* dataBuff: the entries it has a datum of
          pub,      \* history: the last frame handed to modbusDataWrite
          pend,     \* history: a PARSE the read task has not reacted to
          lost,     \* history: a request was overwritten since the walk began
          ops       \* calls made by the main task

data == <<conf, ctrl, enable, frame, pub, pend, lost>>
actions == <<queue, held, heap>>
vars == <<actTask, mb, mutex, pc, at, op, data, actions, ops>>

Tasks == {"main", "read", "write"}
Kinds == {"alias", "raw"}
None == "none"
NoFrame == [data |-> <<>>, len |-> 0, lost |-> FALSE]
NotHeld == [kind |-> None, key |-> None, steps |-> 0]
isStateUpdate == mb \in {"PARSE", "CONTROLLED"}

\* Where a task holds the mutex, and where it is in an exchange.
Locked == {"parse", "parsed", "delete", "scanbus", "scandelay", "readcheck", "readbus", "readdelay",
           "actbus", "actdelay", "walkcheck", "walkbus", "walkdelay"}
OnBus == {"scanbus", "readbus", "actbus", "walkbus"}

Init ==
    /\ actTask \in ActionTasks
    /\ mb = "INIT" /\ mutex = None
    /\ pc = [main |-> "idle", read |-> "scan", write |-> "alias"]
    /\ at = [t \in Tasks |-> 0] /\ op = None
    /\ conf \in {[count |-> k, len |-> k] : k \in {0, MaxLen}}
    /\ ctrl \in {[count |-> k, len |-> k] : k \in {0, MaxLen}}
    /\ enable = FALSE
    /\ queue = [k \in Kinds |-> <<>>] /\ held = NotHeld /\ heap = {}
    /\ frame = <<>> /\ pub = NoFrame
    /\ pend = FALSE /\ lost = FALSE /\ ops = 0

Goto(t, l) == pc' = [pc EXCEPT ![t] = l]
Become(t, l, i) == Goto(t, l) /\ at' = [at EXCEPT ![t] = i]
Lock(t) == mutex = None /\ mutex' = t
Unlock == mutex' = None

\* getNext() of the entry at i of a list with n: the destructor of a node
\* clears its link, later the heap may reuse it for another node.
Next_(i, n) == IF i > n THEN 0..n ELSE IF i = n THEN {0} ELSE {i + 1}

----------------------------------------------------------------------------
(* The main task: what a command of the cloud or the application calls.    *)

Call == pc.main = "idle" /\ ops < MaxOps /\ ops' = ops + 1

\* parseModbusConfig (o: config, control) and removeConfigFromFlash.
SetParse(o) ==
    /\ Call /\ o \in {"config", "control", "remove"}
    /\ mb' = "PARSE" /\ op' = o /\ Goto("main", "lock")
    /\ UNCHANGED <<actTask, mutex, at, data, actions>>

LockParse ==
    /\ pc.main = "lock" /\ Lock("main")
    /\ Goto("main", IF op = "remove" THEN "delete" ELSE "parse")
    /\ UNCHANGED <<actTask, mb, at, op, data, actions, ops>>

\* updateHashID(): a configuration that is already known is not parsed again;
\* parseConfig() counts the entries from 0 and overwrites them in place.
ParseBegin(known) ==
    /\ pc.main = "parse"
    /\ Goto("main", "parsed") /\ op' = IF known THEN "known" ELSE op
    /\ conf' = IF op = "config" /\ ~known THEN [conf EXCEPT !.count = 0] ELSE conf
    /\ ctrl' = IF op = "control" /\ ~known THEN [ctrl EXCEPT !.count = 0] ELSE ctrl
    /\ UNCHANGED <<actTask, mb, mutex, at, enable, frame, pub, pend, lost, actions, ops>>

Grown(list, n) == [count |-> n, len |-> IF n > list.len THEN n ELSE list.len]

\* n entries; clearDataBuff(); set(STATE_MB_PARSE) again, then unlock.
ParseEnd(n) ==
    /\ pc.main = "parsed"
    /\ conf' = IF op = "config" THEN Grown(conf, n) ELSE conf
    /\ ctrl' = IF op = "control" THEN Grown(ctrl, n) ELSE ctrl
    /\ frame' = IF op = "config" THEN <<>> ELSE frame
    /\ mb' = "PARSE" /\ pend' = TRUE
    /\ Unlock /\ Goto("main", "idle") /\ op' = None
    /\ UNCHANGED <<actTask, at, enable, pub, lost, actions, ops>>

DeleteAll ==
    /\ pc.main = "delete"
    /\ conf' = [count |-> 0, len |-> 0] /\ ctrl' = [count |-> 0, len |-> 0]
    /\ enable' = FALSE
    /\ mb' = "PARSE" /\ pend' = TRUE
    /\ Unlock /\ Goto("main", "idle") /\ op' = None
    /\ UNCHANGED <<actTask, at, frame, pub, lost, actions, ops>>

ParseScan ==
    /\ Call /\ mb' = "SCAN"
    /\ UNCHANGED <<actTask, mutex, pc, at, op, data, actions>>

\* Mutant of AddAction: the queue is not tested.
AddAction_NoCheck(k, key) ==
    /\ Call
    /\ key \notin heap
    /\ heap' = heap \cup {key} /\ queue' = [queue EXCEPT ![k] = Append(@, key)]
    /\ UNCHANGED <<actTask, mb, mutex, pc, at, op, data, held>>
\* addModbusAction, addModbusActionRaw
AddAction(k, key) ==
    /\ Call
    /\ Len(queue[k]) < MaxAction
    /\ key \notin heap
    /\ heap' = heap \cup {key} /\ queue' = [queue EXCEPT ![k] = Append(@, key)]
    /\ UNCHANGED <<actTask, mb, mutex, pc, at, op, data, held>>

\* writeAllModbus: by the write task, or here and now.
WriteAll(execute) ==
    /\ Call
    /\ IF execute THEN Goto("main", "walk") /\ UNCHANGED enable
                  ELSE enable' = TRUE /\ UNCHANGED pc
    /\ UNCHANGED <<actTask, mb, mutex, at, op, conf, ctrl, frame, pub, pend, lost, actions>>

Main ==
    \/ \E o \in {"config", "control", "remove"} : SetParse(o)
    \/ LockParse \/ DeleteAll \/ ParseScan
    \/ \E known \in BOOLEAN : ParseBegin(known)
    \/ \E n \in 0..MaxLen : ParseEnd(n)
    \/ \E k \in Kinds, key \in Keys : AddAction(k, key)
    \/ \E execute \in BOOLEAN : WriteAll(execute)

----------------------------------------------------------------------------
(* Shared by the tasks.                                                    *)

\* Mutant of DelayModbus: the early return forgets the mutex.
DelayModbus_Leak(t, from, to) ==
    /\ pc[t] = from /\ Goto(t, to)
    /\ IF mb = "PARSE" THEN UNCHANGED mutex ELSE Unlock
    /\ UNCHANGED <<actTask, mb, at, op, data, actions, ops>>
\* delayModbus(.., true), delaysMutex: at once when a configuration waits, or
\* after a delay, the mutex is released.
DelayModbus(t, from, to) ==
    /\ pc[t] = from /\ Goto(t, to)
    /\ Unlock
    /\ UNCHANGED <<actTask, mb, at, op, data, actions, ops>>

\* Where a task goes when a queue is done.
After(t, k) == IF k = "alias" THEN "raw" ELSE IF t = "read" THEN "scan" ELSE "walk"

\* Mutant of GetAction: an unknown alias returns early, its key is not freed.
GetAction_UnknownReturns(t, k, steps) ==
    /\ pc[t] = k /\ t = actTask
    /\ queue[k] # <<>> /\ mb # "PARSE"
    /\ steps \in IF k = "raw" THEN {1} ELSE 0..MaxSteps
    /\ held' = IF steps = 0 THEN NotHeld
               ELSE [kind |-> k, key |-> Head(queue[k]), steps |-> steps]
    /\ queue' = [queue EXCEPT ![k] = Tail(@)]
    /\ Goto(t, IF steps = 0 THEN After(t, k) ELSE "actlock")
    /\ UNCHANGED <<actTask, mb, mutex, at, op, data, heap, ops>>
\* getModbusAction, getModbusActionRaw: a reference into the queue is taken
\* unless a configuration waits; getModbusAlias() finds the steps, or none.
GetAction(t, k, steps) ==
    /\ pc[t] = k /\ t = actTask
    /\ queue[k] # <<>> /\ mb # "PARSE"
    /\ steps \in IF k = "raw" THEN {1} ELSE 0..MaxSteps
    /\ held' = [kind |-> k, key |-> Head(queue[k]), steps |-> steps]
    /\ queue' = [queue EXCEPT ![k] = Tail(@)]
    /\ Goto(t, IF steps = 0 THEN "acted" ELSE "actlock")
    /\ UNCHANGED <<actTask, mb, mutex, at, op, data, heap, ops>>

NoAction(t, k) ==
    /\ pc[t] = k /\ (t # actTask \/ queue[k] = <<>> \/ mb = "PARSE")
    /\ Goto(t, After(t, k))
    /\ UNCHANGED <<actTask, mb, mutex, at, op, data, actions, ops>>

LockAction(t) ==
    /\ pc[t] = "actlock" /\ Lock(t)
    /\ Goto(t, "actbus")
    /\ UNCHANGED <<actTask, mb, at, op, data, actions, ops>>

\* The step is over: the next one, or the end.
StepDone == held' = [held EXCEPT !.steps = @ - 1]

\* Mutant of UnknownEntry: this path forgets the mutex.
UnknownEntry_Leak(t) ==
    /\ pc[t] = "actbus" /\ held.kind = "alias"
    /\ StepDone /\ Goto(t, IF held.steps = 1 THEN "acted" ELSE "actlock")
    /\ UNCHANGED mutex
    /\ UNCHANGED <<actTask, mb, at, op, data, queue, heap, ops>>
\* eachActionModbus: no entry of the control list has the step's id.
UnknownEntry(t) ==
    /\ pc[t] = "actbus" /\ held.kind = "alias"
    /\ StepDone /\ Goto(t, IF held.steps = 1 THEN "acted" ELSE "actlock")
    /\ Unlock
    /\ UNCHANGED <<actTask, mb, at, op, data, queue, heap, ops>>

\* sendModbusWrite of a step, then the delay that releases the mutex.
ActionWrite(t) ==
    /\ pc[t] = "actbus" /\ Goto(t, "actdelay")
    /\ StepDone
    /\ UNCHANGED <<actTask, mb, mutex, at, op, data, queue, heap, ops>>
ActionDelay(t) == DelayModbus(t, "actdelay", IF held.steps = 0 THEN "acted" ELSE "actlock")

\* The queue is empty and no configuration waits: STATE_MB_CONTROLLED, in a
\* step of its own.
Acted(t) ==
    /\ pc[t] = "acted"
    /\ Goto(t, IF queue[held.kind] = <<>> /\ mb # "PARSE" THEN "control" ELSE "free")
    /\ UNCHANGED <<actTask, mb, mutex, at, op, data, actions, ops>>
SetControlled(t) ==
    /\ pc[t] = "control" /\ Goto(t, "free")
    /\ mb' = "CONTROLLED"
    /\ UNCHANGED <<actTask, mutex, at, op, data, actions, ops>>

FreeKey(t) ==
    /\ pc[t] = "free" /\ Goto(t, After(t, held.kind))
    /\ heap' = heap \ {held.key} /\ held' = NotHeld
    /\ UNCHANGED <<actTask, mb, mutex, at, op, data, queue, ops>>

\* writeAllModbusWithOption: every entry of the control list in turn.
Walk(t) ==
    /\ pc[t] = "walk"
    /\ IF (enable \/ t = "main") /\ mb # "PARSE"
       THEN Become(t, "walknext", IF ctrl.len = 0 THEN 0 ELSE 1)
       ELSE Become(t, IF t = "main" THEN "idle" ELSE "alias", 0)
    /\ UNCHANGED <<actTask, mb, mutex, op, data, actions, ops>>

WalkLock(t) ==
    /\ pc[t] = "walknext" /\ at[t] # 0 /\ Lock(t)
    /\ Goto(t, "walkcheck")
    /\ UNCHANGED <<actTask, mb, at, op, data, actions, ops>>
\* At the end the option is switched off.
\* Mutant of WalkEnd: an empty list returns before the option is reset.
WalkEnd_EmptyKeeps(t) ==
    /\ pc[t] = "walknext" /\ at[t] = 0
    /\ Goto(t, IF t = "main" THEN "idle" ELSE "alias")
    /\ enable' = (enable /\ ctrl.len = 0)
    /\ UNCHANGED <<actTask, mb, mutex, at, op, conf, ctrl, frame, pub, pend, lost,
                   actions, ops>>
WalkEnd(t) ==
    /\ pc[t] = "walknext" /\ at[t] = 0
    /\ Goto(t, IF t = "main" THEN "idle" ELSE "alias")
    /\ enable' = FALSE
    /\ UNCHANGED <<actTask, mb, mutex, at, op, conf, ctrl, frame, pub, pend, lost,
                   actions, ops>>
\* handlerModbusWrite: nothing is written when a configuration waits.
WalkCheck(t) ==
    /\ pc[t] = "walkcheck"
    /\ IF mb = "PARSE"
       THEN Unlock /\ Become(t, IF t = "main" THEN "idle" ELSE "alias", 0)
       ELSE Goto(t, "walkbus") /\ UNCHANGED <<mutex, at>>
    /\ UNCHANGED <<actTask, mb, op, data, actions, ops>>
WalkWrite(t) ==
    /\ pc[t] = "walkbus" /\ Goto(t, "walkdelay")
    /\ UNCHANGED <<actTask, mb, mutex, at, op, data, actions, ops>>
WalkStep(t) ==
    /\ pc[t] = "walked"
    /\ IF mb = "PARSE" THEN Become(t, IF t = "main" THEN "idle" ELSE "alias", 0)
                       ELSE \E i \in Next_(at[t], ctrl.len) : Become(t, "walknext", i)
    /\ UNCHANGED <<actTask, mb, mutex, op, data, actions, ops>>

WriteOption(t) ==
    \/ Walk(t) \/ WalkLock(t) \/ WalkEnd(t) \/ WalkCheck(t) \/ WalkWrite(t) \/ WalkStep(t)
    \/ DelayModbus(t, "walkdelay", "walked")

Action(t) ==
    \/ \E k \in Kinds : NoAction(t, k) \/ \E steps \in 0..MaxSteps : GetAction(t, k, steps)
    \/ LockAction(t) \/ UnknownEntry(t) \/ ActionWrite(t) \/ ActionDelay(t)
    \/ Acted(t) \/ SetControlled(t) \/ FreeKey(t)

----------------------------------------------------------------------------
(* The read task: processModbusScan, updateConfig, readModbusConfig.       *)

Scan ==
    /\ pc.read = "scan"
    /\ IF mb = "SCAN" THEN \E i \in 1..MaxSteps : Become("read", "scannext", i)
                      ELSE Become("read", "update", at.read)
    /\ UNCHANGED <<actTask, mb, mutex, op, data, actions, ops>>
ScanLock ==
    /\ pc.read = "scannext" /\ at.read # 0 /\ Lock("read")
    /\ Goto("read", "scanbus")
    /\ UNCHANGED <<actTask, mb, at, op, data, actions, ops>>
ScanRead ==
    /\ pc.read = "scanbus" /\ Become("read", "scandelay", at.read - 1)
    /\ UNCHANGED <<actTask, mb, mutex, op, data, actions, ops>>
ScanDelay ==
    /\ pc.read = "scandelay" /\ Goto("read", "scannext")
    /\ Unlock
    /\ UNCHANGED <<actTask, mb, at, op, data, actions, ops>>
ScanEnd ==
    /\ pc.read = "scannext" /\ at.read = 0
    /\ Goto("read", "update") /\ pend' = FALSE
    /\ UNCHANGED <<actTask, mb, mutex, at, op, conf, ctrl, enable, frame, pub, lost,
                   actions, ops>>

\* updateConfig(): resize() frees the entries past the count, without the
\* mutex; resetCurrentParam() and executeNow(); set(STATE_MB_RUNNING).
Cut(list) == [list EXCEPT !.len = IF list.len > list.count THEN list.count ELSE @]
Resize ==
    /\ pc.read = "update" /\ Goto("read", "reset")
    /\ conf' = IF mb = "PARSE" THEN Cut(conf) ELSE conf
    /\ ctrl' = IF mb = "PARSE" THEN Cut(ctrl) ELSE ctrl
    /\ UNCHANGED <<actTask, mb, mutex, at, op, enable, frame, pub, pend, lost, actions, ops>>

Reset ==
    /\ pc.read = "reset"
    /\ IF isStateUpdate THEN Become("read", "running", 0) /\ pend' = FALSE
                        ELSE Become("read", "running", at.read) /\ UNCHANGED pend
    /\ UNCHANGED <<actTask, mb, mutex, op, conf, ctrl, enable, frame, pub, lost, actions, ops>>

\* Mutant of SetRunning: only an action's state is reset.
SetRunning_Controlled ==
    /\ pc.read = "running" /\ Goto("read", "read")
    /\ mb' = IF mb = "PARSE" THEN mb ELSE "RUNNING"
    /\ lost' = (lost \/ pend \/ mb \notin {"INIT", "RUNNING"})
    /\ UNCHANGED <<actTask, mutex, at, op, conf, ctrl, enable, frame, pub, pend, actions, ops>>
SetRunning ==
    /\ pc.read = "running" /\ Goto("read", "read")
    /\ mb' = "RUNNING"
    /\ lost' = (lost \/ pend \/ mb \notin {"INIT", "RUNNING"})
    /\ UNCHANGED <<actTask, mutex, at, op, conf, ctrl, enable, frame, pub, pend, actions, ops>>

\* readModbusConfig(): nothing to read, or the interval has not passed.
NoRead ==
    /\ pc.read = "read" /\ (conf.len = 0 \/ at.read = 0)
    /\ Goto("read", "alias")
    /\ UNCHANGED <<actTask, mb, mutex, at, op, data, actions, ops>>
\* Mutant of StartWalk: the data of an interrupted walk stays.
StartWalk_KeepsData ==
    /\ pc.read = "read" /\ conf.len # 0 /\ at.read = 0
    /\ Become("read", "readlock", 1) /\ lost' = FALSE /\ pub' = NoFrame
    /\ UNCHANGED <<actTask, mb, mutex, op, conf, ctrl, enable, frame, pend, actions, ops>>
StartWalk ==
    /\ pc.read = "read" /\ conf.len # 0 /\ at.read = 0
    /\ Become("read", "readlock", 1) /\ frame' = <<>> /\ lost' = FALSE /\ pub' = NoFrame
    /\ UNCHANGED <<actTask, mb, mutex, op, conf, ctrl, enable, pend, actions, ops>>
\* The next entry, or the end of the walk...
NextParam ==
    /\ pc.read = "read" /\ conf.len # 0 /\ at.read # 0
    /\ \E i \in Next_(at.read, conf.len) :
          /\ Become("read", IF i = 0 THEN "publish" ELSE "readlock", i)
          /\ pub' = IF i = 0 THEN [data |-> <<>>, len |-> conf.len, lost |-> lost] ELSE pub
    /\ UNCHANGED <<actTask, mb, mutex, op, conf, ctrl, enable, frame, pend, lost, actions, ops>>

\* ... and publishModbusData(), which does not hold the mutex: a configuration
\* may have cleared the frame since.
Publish ==
    /\ pc.read = "publish" /\ Goto("read", "alias")
    /\ pub' = [pub EXCEPT !.data = frame]
    /\ UNCHANGED <<actTask, mb, mutex, at, op, conf, ctrl, enable, frame, pend, lost,
                   actions, ops>>

\* handlerModbusRead()
ReadLock ==
    /\ pc.read = "readlock" /\ Lock("read")
    /\ Goto("read", "readcheck")
    /\ UNCHANGED <<actTask, mb, at, op, data, actions, ops>>
ReadCheck ==
    /\ pc.read = "readcheck"
    /\ IF isStateUpdate THEN Unlock /\ Goto("read", "alias")
                        ELSE Goto("read", "readbus") /\ UNCHANGED mutex
    /\ UNCHANGED <<actTask, mb, at, op, data, actions, ops>>
\* onData() or onError(): one datum, none when a configuration waits.  Every
\* entry has one of the four read functions and malloc() does not fail: an
\* entry of another function would have no datum at all.
ReadParam ==
    /\ pc.read = "readbus" /\ Goto("read", "readdelay")
    /\ frame' = IF mb = "PARSE" THEN frame ELSE Append(frame, at.read)
    /\ UNCHANGED <<actTask, mb, mutex, at, op, conf, ctrl, enable, pub, pend, lost,
                   actions, ops>>

Read ==
    \/ Scan \/ ScanLock \/ ScanRead \/ ScanDelay \/ ScanEnd
    \/ Resize \/ Reset \/ SetRunning
    \/ NoRead \/ StartWalk \/ NextParam \/ Publish \/ ReadLock \/ ReadCheck \/ ReadParam
    \/ DelayModbus("read", "readdelay", "alias")
    \/ Action("read")
Write == Action("write") \/ WriteOption("write")

Next == Main \/ WriteOption("main") \/ Read \/ Write
Spec == Init /\ [][Next]_vars

\* The calls of the main task end by themselves.
MainReturns ==
    \/ LockParse \/ DeleteAll \/ WriteOption("main")
    \/ \E known \in BOOLEAN : ParseBegin(known)
    \/ \E n \in 0..MaxLen : ParseEnd(n)

\* Every task runs; the mutex, which the tasks leave free for
\* ERA_MODBUS_YIELD_MS in each round, serves every task that waits for it.
FairSpec ==
    /\ Spec
    /\ WF_vars(Read) /\ WF_vars(Write) /\ WF_vars(MainReturns)
    /\ SF_vars(LockParse \/ WalkLock("main"))
    /\ SF_vars(ScanLock \/ ReadLock \/ LockAction("read"))
    /\ SF_vars(LockAction("write") \/ WalkLock("write"))

----------------------------------------------------------------------------
(* Properties                                                              *)

Entries == [count : 0..MaxLen, len : 0..MaxLen]
Labels == Locked \cup {"idle", "lock", "scan", "scannext", "update", "reset", "running",
                      "read", "publish", "readlock", "alias", "raw", "actlock", "acted", "control",
                      "free", "walk", "walknext", "walked"}

\* Every variable has its type; a queue holds at most MODBUS_MAX_ACTION.
TypeOK ==
    /\ actTask \in ActionTasks
    /\ mb \in {"INIT", "RUNNING", "CONTROLLED", "PARSE", "SCAN"}
    /\ mutex \in Tasks \cup {None}
    /\ pc \in [Tasks -> Labels] /\ at \in [Tasks -> Nat]
    /\ op \in {None, "config", "control", "remove", "known"}
    /\ conf \in Entries /\ ctrl \in Entries /\ enable \in BOOLEAN
    /\ queue \in [Kinds -> Seq(Keys)] /\ \A k \in Kinds : Len(queue[k]) <= MaxAction
    /\ held \in [kind : Kinds, key : Keys, steps : Nat] \cup {NotHeld}
    /\ heap \subseteq Keys
    /\ frame \in Seq(Nat) /\ pend \in BOOLEAN /\ lost \in BOOLEAN /\ ops \in 0..MaxOps

\* The mutex is held exactly where the code is between a lock and its unlock,
\* on every path out (early returns included), and by that task: so exchanges
\* of two tasks never meet on the bus, and no list is parsed or deleted under
\* an exchange.
MutexDiscipline == \A t \in Tasks : (pc[t] \in Locked) <=> (mutex = t)

Queued(k, key) == \E i \in DOMAIN queue[k] : queue[k][i] = key

\* Every key of an action is freed once: allocated are exactly those that
\* wait in a queue or are being executed, and no two are the same.
KeysOwned ==
    /\ \A key \in Keys : key \in heap <=> key = held.key \/ \E k \in Kinds : Queued(k, key)
    /\ \A k, l \in Kinds : \A i \in DOMAIN queue[k], j \in DOMAIN queue[l] :
          queue[k][i] = queue[l][j] => k = l /\ i = j
    /\ \A k \in Kinds : ~Queued(k, held.key)

\* A published frame has one datum of every entry of the list in its order
\* (the cloud tells them apart by position), whatever actions, scans and
\* configurations arrived during the walk, unless updateConfig() overwrote a
\* state set since it tested it.
FrameAligned == pub.lost \/ pub.data = [i \in 1..pub.len |-> i] \/ pub.data = <<>>

\* Every action that was accepted is executed or dropped, and its key freed,
\* also when configurations make the task skip it.
ActionsDrain == (heap # {}) ~> (heap = {})

\* A command of the cloud that stores a configuration returns to the MQTT
\* loop: it gets the mutex from the two tasks.
CommandReturns == (pc.main # "idle") ~> (pc.main = "idle")

\* A request to write all outputs ends in spite of the configurations that
\* interrupt it.
WriteAllEnds == enable ~> ~enable
=============================================================================

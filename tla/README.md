# Formal models of the E-Ra library

E-Ra (eoh-jsc/era-lib) connects Arduino-class boards, ESP32 above all, to the E-Ra IoT
platform. The library is C++ headers: an application includes one board header
(`ERa.hpp`, `ERaEsp32PnP.hpp`, ...) which puts together a network transport, an MQTT
session, a protocol layer, an API of handlers, and optional parts (Modbus, Zigbee, BLE,
automation, OTA). There are no unit tests; the examples and the comments are the only
statements of what the code should do.

This directory holds TLA+ models of the parts whose correctness depends on order: of tasks,
callbacks, messages, failures and restarts. Each component has a module, TLC runs on small
instances, and a proof module with theorems for every value of the constants.

Contents: [inventory](#inventory), [modules](#modules), [runs](#runs),
[fairness](#fairness), [proofs](#proofs), [divergences](#where-the-code-and-its-texts-differ),
[plan](#plan), [not modelled](#not-modelled).

## Inventory

Paths are relative to `src/src/`.

| part | state | operations | talks to |
|---|---|---|---|
| `Utility/ERaQueue.hpp` | ring `e[N + 1]`, indices `w`, `r` | put, get, peek, bulk put and get, clear | API, Modbus, Zigbee, BLE: one task puts, another gets |
| `ERa/ERaTimer.cpp` | list of `Timer_t` (delay, limit, count, flags), `numTimer` | setup, change, restart, execute now, enable, disable, delete, run | calls callbacks, which call it |
| `MQTT/ERaMqtt.hpp`, `MQTT/MQTT/**` | `_connected`, retry counters, `needPubState`, mutex; `MQTTClient`'s link and keep-alive | connect, run, publish, subscribe, disconnect | broker; message callback into ERaProto; application through `delays()` |
| `PnP/ERaPnPEsp32.hpp` | `ERaState`, `ERaConfig` in RAM and in flash, `newWiFi`, `wifiState` | run's switch over the states, access-point pages, switchToConfig, connectNewWiFi | WiFi driver, flash, button thread, cloud, ERaMqtt |
| `ERa/ERaProtocol.hpp` | none of its own beyond credentials and flags | run, processRequest, sendCommand | between ERaMqtt and ERaApi |
| `ERa/ERaApi.hpp`, `ERaHandlers.*` | pin table, event ring, hash of each configuration | run, virtualWrite, events, parse and store configurations | every other part |
| `Modbus/**` | configuration lists, `ModbusState`, current parameter, action queue | main task: parse and store; read task; write task | one serial bus or TCP; ERaApi's event ring |
| `ERa/ERaReport.cpp`, `ERaProperty.hpp`, `ERaPin.hpp` | last value and time per report; property table | set, update, run, delete | publish through ERaProto |
| `ERa/ERaButton.cpp` | list of buttons, counts, flags | setup, run, delete | application thread |
| `ERa/ERaOTP.hpp` | five codes with an expiry | create, run | cloud commands |
| `Automation/**` | components, conditions, actions, heap of timers | begin, deleteAll, run, updateValue | ERaApi, several tasks |
| `Zigbee/**` | `ZigbeeState`, device tables, three queues | event, control and response task | serial coprocessor |
| `BLE/**` | byte queue, connection flag | callbacks of the BLE stack, read and write | provisioning; serial over BLE |
| `OTA/**` | none kept | begin | transport, flash, restart |
| `Storage/**` | SPIFFS files, NVS record | read, write, remove | every configuration |
| `Syncer/**` | pins and their last values | load, save, replay | ERaApi, flash |

How they interact: the main task runs `ERaPnP::run`, which connects the network, then the
cloud (`ERaMqtt::connect`), then calls `ERaProto::run` for ever. Messages of the broker are
handled inside `MQTTClient::loop` and inside every wait for an acknowledgement; handlers
write `ERaState` (new WiFi, reset, OTA), the pin table and configurations. Optional tasks
(api, Modbus read and write, Zigbee) reach the session through queues of events, or through
`publishData` under a mutex. A button thread writes `ERaState` directly.

What is hard: state shared between tasks with little locking (`ERaState`, the Modbus lists);
callbacks that re-enter the component that called them (timers, MQTT, reports);
configuration changes that must survive power loss at any step; a broker that publishes a
will late; half-open connections; unsigned time that wraps.

What makes each part correct, in one line each:

- ERaQueue: it is a bounded FIFO, although references are used after the slot was given back.
- ERaTimer: what is deleted stays silent, limits hold, nothing is early, nothing stops firing.
- ERaMqtt: a connected board is shown online, for good once failures stop; no task waits for itself.
- ERaPnP: flash always holds a network that worked; the board comes back by itself.
- Modbus: the bus mutex is given back on every path, each action's key is freed once, a frame
  of data is of the configuration it names unless a request was overwritten.
- Reports and properties: the cloud has the board's numbers in the end, reports and
  properties belong together one to one, publications keep their distance.
- Automation: no action runs after its automation was deleted; delays last as long as asked;
  a value sent to trigger does.
- Storage and configuration: after a crash the stored configuration is the old or the new one.

`PROJECT.json` lists the hazards at their lines, those that no property covers with the reason.

## Modules

| module | about | code |
|---|---|---|
| `ERaFifo` | abstract bounded FIFO | what ERaQueue promises |
| `ERaQueue` | the lock-free ring; refines ERaFifo | `Utility/ERaQueue.hpp` |
| `ERaTimer`, `MCERaTimer` | software timers | `ERa/ERaTimer.cpp` |
| `ERaMqtt`, `MCERaMqtt` | the session, with link and broker | `MQTT/ERaMqtt.hpp`, `MQTTClient.cpp`, `lwmqtt/client.c` |
| `ERaPnP` | network, configuration, provisioning | `PnP/ERaPnPEsp32.hpp` |
| `ERaModbus`, `MCERaModbus` | three tasks around the bus | `Modbus/ERaModbus.hpp`, `ERaModbusAction.hpp`, `ERaParse.hpp` |
| `ERaReport` | operators: one report | `ERa/ERaReport.cpp` |
| `ERaProperty`, `MCERaProperty` | numbers of virtual pins and their reports | `ERa/ERaProperty.hpp` |
| `ERasTimer` | time-outs of automations, a state and its operators | `Automation/ERaTimer.tpp` |
| `ERaSmart`, `MCERaSmart` | automations | `Automation/ERaSmart.tpp`, `ERaAutomation.hpp` |
| `ERaQueueProofs`, `ERaFifoProofs`, `ERaTimerProofs`, `ERaMqttProofs`, `ERaPnPProofs`, `ERaModbusProofs`, `ERaPropertyProofs`, `ERaSmartProofs` | theorems | |

The components are separate: each keeps of its neighbours what it can observe of them. ERaPnP
sees of ERaMqtt that a session is established, fails or is lost (`Session`, `SessionLost`),
and ERaMqtt sees of the network that links drop. Two are layered: ERaProperty uses the
operators of ERaReport, ERaSmart extends ERasTimer. Definitions named `X_Something` just before
a definition `X` are mutants: a plausible bug in that code, which nothing uses, kept to show
which property notices it.

**ERaQueue.** `e`, `w`, `r` are the fields. `ppc`, `pat`, `plen`, ... are the locals of the
producer's call in progress, `cpc`, `cat`, `clen`, ... the consumer's. Each step reads or
writes the other side's index at most once, so every interleaving of the two tasks at the
index accesses is explored. `cpc = "held"` is the time between `get()`'s return and its
caller's last use of the reference (`eventsWrite`, which may also blank the slot). Elements
are atomic. `clear()` happens only between calls of either side, which is an assumption on its
users: `ERaBLETranspEsp32` calls it in `connect()` and `flush()`, and nothing in that class
keeps the BLE stack from a `put` meanwhile.

**ERaTimer.** `tm` holds the fields of each `Timer_t`, `list` is the ERaList. `run()` is
split where callbacks can interfere: `RunMark` is the first loop, `CallSkip`, `Callback`,
`CallbackReturn` the second one (between the last two any other operation may happen: it is
then made by the callback), `Reap` and `RunEnd` are deleteHandler. A run inside a callback
(nested) and handles of freed timers are excluded. Time is modulo `M`, and `Lag` bounds how
late `run()` is called. `wait`, `fired` and `gone` are history variables.

**ERaMqtt.** `pc` is the place in `connect()` or `run()`, `wait` the packet that
`lwmqtt_cycle_until` looks for; while it waits, `Deliver` runs the message callback, which may
publish (`pc = "stuck"`: it waits for the mutex its own task holds). `up` and `down` are the
packets on the TCP stream, `link` may be half open ("dead") and `unacked` says that bytes were
written into it. The broker keeps one session, the wills it still has to publish and the
retained presence message: all external, modelled from how the code uses them. A clean
DISCONNECT may or may not suppress the will (the stream may be cut first).

`config` is the configuration, fixed by `Init`: blocking or not, acknowledgements, handlers
that publish, an api task, in every combination that the setters allow. `api` is the place of
the api task's `publishData()`: between its test of `_connected` and the mutex ("checked"), or,
with acknowledgements, waiting for its PUBACK with the mutex held ("wait"), where it runs the
message callback as the main task does ("stuck" when a handler then publishes). The other task
waits for the mutex meanwhile (`ApiLocked`, `pc = "call"`), but `loop()` and
`MQTTClient::connect()` read the connection without the mutex: a packet goes to the task that
reads first, its own PUBACK too. `loop()` also restarts the command timer that both share, so
the wait may last; when it ends (`ApiWaitFails`) it closes the connection, even one opened
since. Packets are written and read whole: two readers inside one packet are modelled by their
result, an error that closes the connection (`LoopCollides`, `ApiWaitFails`), and what two
writers leave in the shared write buffer is left out. `Astray` (the wait for an answer
that the other task has read fails though the network did not) is bounded: it happens only
when no will is left to publish, otherwise wills would pile up without end.

**ERaPnP.** `st` is ERaState; `hnd`, `pc` and `goal` say which case of run()'s switch is being
handled, how far, and what state it ends in. The final `ERaState::set` is a step of its own
(`SetState`), because the button thread writes the same variable in between. `cfg` is the
record in RAM, `flash` the stored one, `new` and `wifi` are newWiFi and wifiState, `useBackup`
and `portal` the function-local statics. `PowerLoss` boots from flash at any step. A network
stands for its SSID and password; "local" is one that can be joined but has no Internet.
`proven` (history) is the set of networks over which the cloud was reached. Networks are
entered on three pages, `/api/config` and its UDP twin (`Post`) and `/network` (`Network`); `Enters`
is what they share: the fields are copied into ERaConfig whether or not the page is submitted, and
`draft` (history) says that ERaConfig holds such networks. The wait for
a first client (STATE_CONFIGURING) is folded into STATE_WAIT_CONFIG.

**ERaModbus.** `pc` and `at` are the places of the main, read and write task; `mb` is
ModbusState, which all of them test and set without the mutex, so each test and each set is
a step. A list is its length and the count of entries announced (parsing resets the count,
overwrites in place and grows the list); an exchange on the bus is a step. `queue`, `held`
and `heap` are the keys of actions. `frame` holds the entries whose data the read task has
collected; `pend`, `lost` and `pub` are history. The frame is published in a step of its own
(`Publish`), without the mutex: a configuration may have cleared it since the walk ended. That
it is cleared in the middle of the publishing is not modelled. getNext() of a node that was freed is a
nondeterministic choice (`Next_`): the destructor clears the link, later the heap reuses the
node. Left out: the start and the end of the tasks, the values written, the compile-time option
ERA_MODBUS_WRITE_AFTER_CONFIG, entries whose function is none of the four reads (the default
branch of `sendModbusRead`, `ERaModbus.hpp:1252`) and failures of malloc, neither of which adds
a datum to the frame.

**ERaReport, ERaProperty.** `rep` and `prop` are the lists, by the address of their nodes.
A report keeps `elapsed`, the difference ERaMillis() - prevMillis modulo M, the only use the
code makes of either. `Run` is ERa.run(): poll, then ERaReport::run() (mark what is due,
publish for the marked, delete). `cloud` is what the cloud last received; publications may be
lost. `since` and `forced` are history. The build is one with a single task; two properties
of one pin are not made. A property read for the first time always finds a free report, because
MAX_PROPERTIES is at most MAX_REPORTS (theorem PropertyTypeOK, `Room`), so the branch that makes a
missing report later (`ERaProperty.hpp:1066`) is left out.

**ERasTimer, ERaSmart.** `items` are mItems and mToAdd together (`new` tells which), `toRemove`
is mToRemove; `age` is history. `smarts` are the automations with the state of their
conditions and actions. A round is `RunTimers` (mToAdd enters the heap, many marked items go),
`Cleanup` and `Fire` for each item on top, `EndTimers`, then `RunSmart` for each automation;
time passes and values arrive between any two of these. `Fire` and `RunSmart` play the chain
up to the first action that waits. `mute` and `played` are history.

## Runs

Every run ends within a few minutes. "v" marks a run that must find a violation.

| run | instance | shows |
|---|---|---|
| `queue` | N = 2, two values, bulk up to 3 | TypeOK, NoSlotConflict, NoBlankVisible; FifoSpec: the ring implements ERaFifo; PutReturns: a put that spins ends; Drains: what was put is taken |
| `timer` | 2 timers, time mod 4, limits 0 and 2 | TypeOK, NoStaleMark, LimitRespected, DeletedStaysSilent, LimitedNotEarly |
| `timer_live` | 1 timer, time mod 8 | DeletedIsFreed, KeepsFiring |
| `timer_offset` v | 1 interval timer | IntervalNotEarly fails: the first call comes at once |
| `mqtt` | four configurations, 2 attempts, 4 failures | TypeOK, NoSelfDeadlock, AnnouncedWhenConnected, AtMostOneStale, NoMissedOffline, Heals |
| `mqtt_handler` v | acknowledged publishes, handlers publish | NoSelfDeadlock fails |
| `pnp` | 2 networks, 3 events of every kind | TypeOK, StoredIsProven, NewIsJoined, RunningIsStored, PortalServed over all three entry pages; Back: a stored network that returns brings the board back |
| `pnp_erase` v | 1 network, 2 events | EraseHappens fails: a request to erase is overwritten |
| `modbus` | lists of 2, 2 keys, 3 commands, either action task | TypeOK, MutexDiscipline, KeysOwned, FrameAligned |
| `modbus_live` | lists of 1, 1 key, 2 commands | ActionsDrain, CommandReturns, WriteAllEnds |
| `property` | 1 pin, 2 reports, time mod 8, 3 calls, 1 publication lost | TypeOK, ReportsOwned, Spaced; Converges: the cloud ends with the board's number |
| `automation` | 2 automations, time mod 10, 2 configurations, 2 values | TypeOK, TimersOwned, OnTime; Retriggers: a value sent to trigger plays the chain |

Why the bounds are enough to be interesting:

- `N = 2` gives a ring of three slots: full, empty and wrapped positions all occur, a bulk call
  of two is cut at the end of the array and cut by lack of room. The theorems cover any N.
- Time modulo 4 with `Lag = 2` and intervals up to 2 makes millis() wrap between any two
  events; limit 2 is the smallest that tells "last call" from "a call". `timer_live` uses a
  wider clock so that one interval spans several runs. An interval plus the lag must stay
  below the modulus, as on the device (an interval of 49 days is not supported).
- `Limit = 2` attempts reaches both "try again" and "limit reached". `MaxFail` counts drops,
  stalls, refusals, time-outs and disconnects: four are two sessions lost, a late will and a
  failure on top. `QMax` bounds the application's messages in flight only. The four
  configurations are the default, the non-blocking one with an api task, and acknowledged
  publishes without handlers that publish, alone and with an api task (`SafeConfigs`).
- Two networks are a primary and a backup or an old and a new one; three events are enough
  for a change, a failure during it, and a button press or power loss on top. The events
  are bounded, so they end, which Heals and Back need; Back still covers every state that
  such events lead to.

- Lists of two entries have a middle that a changed configuration can hit, and three commands
  are a configuration, another one during its walk and an action or a removal. One key per
  queue fills it (`MaxAction = 1`), two make a mix-up of keys visible.
- The settings of `property` are a change with a heartbeat, a heartbeat alone and changes
  alone; time modulo 8 with polls every 2 lets every interval meet the wrap. One lost
  publication is enough to leave the cloud behind; a second report and a limit of two make
  additions meet the limit.
- `automation` has a chain with the delay first and one with the alert first; with a lag of
  two a deadline in the last two ticks before the wrap can be missed, one beyond it is cut
  short, and an alert of before the wrap is put off, all of which OnTime excepts by name and
  the run reaches. The third configuration has a delay of zero and the longest that fits the
  clock. Two configurations are a deletion while chains wait (one waiting chain is
  cleaned up at the top of the heap, two exceed MAX_DELETED and are compacted).

Deadlock is checked wherever a task always has a next step. The queue may
be empty for ever and an application may have no timers, so those runs turn it off.

## Fairness

- `ERaQueue!FairSpec`: weak fairness of the steps inside a call: a started put, get or use of
  a reference goes on. Strong fairness of `GetReady`: the consumer polls in its loop
  (`eventsWrite` in every `ERaApi::run`), but may also start peeks and bulk gets, which
  disable it for a while.
- `ERaTimer!CalmSpec`: the device's loop keeps calling `run()`, callbacks return and time
  passes. Its steps leave out restartTimer and changeInterval, which put a timer off as
  often as the application likes.
- `ERaMqtt!FairSpec`: the main task keeps running each step of connect() and run(); the
  broker reads, answers and publishes its wills; TCP gives up a dead connection with data
  unacknowledged; time passes. No fairness for failures, refusals, commands or the
  application. The keep-alive has its own fairness because loop() evaluates it on every
  call, whatever it read. Heals leaves out the configuration of an api task that waits for
  acknowledgements: `loop()` may read its PUBACK each time, and each time the wait ends by closing
  the connection, so that nothing in the code makes a session last.
- `ERaModbus!FairSpec`: the read and write tasks run, and the main task returns from a command it
  has begun (it need not begin one); strong fairness of the steps that lock the mutex, because each task leaves it free for ERA_MODBUS_YIELD_MS in every round.
- `ERaProperty!FairSpec` and `ERaSmart!FairSpec`: the sketch's loop keeps calling ERa.run()
  and time passes.
- `ERaPnP!FairSpec`: the main task runs, the clock passes the configuration mode's time-out,
  the driver joins a network that is in range. No fairness for the user, the cloud's
  commands or the network.

## Proofs

All theorems are proved by tlapm (Z3, Zenon, LS4) from the assumptions named in the modules,
which give the constants their kinds (`N \in Nat \ {0}`, flags are Booleans, "none" is not a
key, ...), with two exceptions: where times are compared, an interval with the lag stays below the
width of the clock (ERaReport, ERaSmart: 49 days on the device), and there are at least as many
reports as properties (ERaProperty). ERaMqtt's configurations and ERaPnP's networks are not
restricted.

**ERaQueueProofs**: QueueTypeOK, QueueNoSlotConflict and QueueNoBlankVisible, for every
capacity. An index read from the other side is stale at once; the invariant `IInv` says that
it is a *safe* estimate: `ProdInv` that the chunk being written fits in the space that is free
now, `ConsInv` that what is being taken is still readable now, `FullInv` that the readable
slots hold elements. Lemmas on `inc`, `size` and `space` (ModLemma, IncLemma, SizeLemma,
AdvanceLemma, PublishLemma) do the arithmetic modulo N + 1 once.

**ERaFifoProofs**: QueueImplementsFifo, Spec => FifoSpec for every capacity: the abstract queue
is what lies between `r` and `w`; storing `w` is Put, storing `r` Take, the end of a reference
or of a chunk's copy Release. `Moved` says that what was copied is still what was given when the
index is stored; the invariant of ERaQueueProofs keeps the other side out of these slots.
BehindLemma and FrontLemma do the sequences, one lemma per action the steps.

**ERaTimerProofs**: TimerTypeOK, TimerNoStaleMark, TimerLimitRespected,
TimerDeletedStaysSilent and the action property TimerLimitedNotEarly, for every number of timers, width of the clock and choice of limits.
LimitRespected is not inductive: `CountInv` ties the history count to `count`, one behind
while the callback runs, and says that a listed timer that is not deleted has calls left.
`GoneInv` says that a deleted timer still listed carries its flag; `FreeInv` that a timer not
listed is blank. RemoveAtLemma and ReapLemma say what deleteHandler does to the list.
LimitedNotEarly needs `WaitInv`: a limited timer that may not be called yet was armed without
an offset, so that millis() - prevMillis, cut to the width of unsigned long, is exactly what
its delay has left behind; NearLemma does the arithmetic at the wrap.

**ERaMqttProofs**: every theorem but the first is for every configuration, that of an api task
with acknowledged publishes included. MqttNoSelfDeadlock, for both tasks, under `SafeConfig`
(acknowledgements skipped, or handlers that do not publish; `mqtt_handler` shows that the
condition is needed), from `WaitInv`: which packets the task can wait for at which step.
MqttAnnounced from
`ToldInv`: past the "online" step the message is in the stream or with the broker, as long
as the link is that session's. MqttTypeOK from `Flags` (what each flag says of the others),
`Places` and `Counted` (the count of a series of attempts stays below the limit while it goes
on). MqttAtMostOneStale: `LinkInv` says which session the packets in the stream belong to,
`FreshInv` that what the api task published after its test belongs to the session it saw, and
`StaleInv` that the one call that waited for the mutex is the only exception.
MqttNoMissedOffline, the deepest of these: that a broker which shows the board as offline is
being corrected is true of a session that watches its own presence, in every one of its
steps. `AckInv` matches subscriptions and acknowledged publishes with their answers one at a
time, for the task that holds the mutex (`For`: without it a SUBACK of an earlier call, or the
PUBACK of the other task, could end a later wait), `WatchInv` says when
the session is subscribed to its presence, and `OfflineInv` has the case that makes the
property hard: a will that the broker publishes after it took the correction is behind the
acknowledgement of that correction (`Late`), which clears needPubState before the will sets
it again. The proof found that the model let the mutex's waiter take an acknowledgement while
it was blocked; `Acknowledged` has had the guard of the other readers since.

**ERaPnPProofs**: PnPTypeOK, PnPStoredIsProven, PnPNewIsJoined, PnPRunningIsStored and
PnPPortalServed, for every set of networks and any number of events. One inductive invariant
`PnPInv` carries all: `Places` (which handler is at which step), `StationOff` (no association
at the access point), `Joins` (the station joins only the network wanted), `Flagged` (what
the flag of a new network says about the association), `Pending` (an unproven change is in
RAM only, and the board is "Early", between access point and cloud; networks that differ from
those in flash have a save to come, or are a `draft`), and `Portal`. Each has a
lemma `Next<Part>` with one case per action. The argument for StoredIsProven: a change entered
at the access point stays Early, joins none but the networks entered, so the session that
ends that phase proves one of them, and only then is it saved.

**ERaModbusProofs**: ModbusMutexDiscipline (the place of a task says whether it holds the
mutex; `MutexInv`, with one case per action of each task), ModbusKeysOwned (each allocated
key is in one slot of one queue or held by the executing task), ModbusTypeOK and
ModbusFrameAligned. The last one rests on `WalkInv`: during a walk the frame has one datum of
every entry up to the task's position, or a request to start again has arrived and is not
answered yet, or was overwritten (`lost`); and at the test for that request the frame is
either empty or nothing is left to publish. OtherFrame reduces the steps of the other tasks
to one condition: who changes the list or the frame leaves such a request.

**ERaPropertyProofs**: PropertyTypeOK, PropertyReportsOwned and PropertySpaced, for every width
of the clock, number of pins and settings, from one invariant: `Room` (a property that is
read always found a free report, since there are as many reports as properties), `Timed`
(`elapsed` is `since` unless prevMillis was put back, and cannot have wrapped, because the
heartbeat comes first) and the correspondence of reports and properties. The lemmas `Kept...`
say what ERaReport's operators leave alone.

**ERaSmartProofs**: SmartTypeOK, SmartTimersOwned and the action property SmartOnTime, for
every set of configurations, width of the clock and limit of marked items. TimersOwned alone
is not inductive: `Fits` adds that an automation has at most one action running. So when its
time-out fires nothing of the chain is left, and what the chain sets next is again its only
item (`CanPlay`, PlayLemma, ChainLemma). `Table` says that the items are finitely many, so
that there is a number for a new one (FreeLemma) and mToRemove can be compared with a
cardinality. SetTimeoutLemma, OnlyLemma and ProcessToAddLemma say what each operation of the
heap does to the live and the marked items. OnTime rests on `TimeInv`: what `Aged` says, that
deadline less time-out is the time an item was set, gives that nothing is early; `Awaited`,
how late an item can be at each place of a round, that nothing waits two rounds longer; both
modulo M, of which a delay and two rounds must leave something (`Actions`; on the device a
delay is below 49 days). The end of a round is the hard step: the loop stops at an item that
is not due, and only because that one is the least of the heap is nothing behind it due
(TopLemma, from the well-foundedness of inclusion of finite sets). The proof corrected the
property: a time-out of zero is missed one tick earlier than others, when it is set in the
last tick that a run may skip (`Missed`), which no configuration of the run had; now one has.

So every safety invariant and every action property that a passing run checks is a theorem.
Checked by TLC only: the liveness properties (PutReturns, Drains, DeletedIsFreed, KeepsFiring,
Heals, Back, ActionsDrain, CommandReturns, WriteAllEnds, Converges, Retriggers), because
fairness and ENABLED are out of the prover's reach. What the three runs marked "v" refute is
not proved of course; NoSelfDeadlock has a theorem for the configurations that exclude it.

## Where the code and its texts differ

- `timer_offset`: an interval timer gets a random offset by setting `prevMillis` in the
  future; the unsigned difference in `run()` makes it due at once. The examples say "called
  function every second".
- `mqtt_handler`: lwmqtt's header warns that its callback must not call lwmqtt. The library
  runs the application's handlers there; with `setSkipACK(false)` a handler that publishes
  during another publish's wait blocks the main task for ever. The default is not affected.
- `pnp_erase`: `switchToConfig(true)` from the button thread only sets ERaState, which any
  handler of the main task overwrites at its end: the configuration is then not erased.

Limits of what holds, seen while modelling:

- Back assumes that no network without Internet stays in range, because a change to such a
  network never falls back until a restart; StoredIsProven excepts a configuration that the
  user saves by force.
- ERaPnP: the page `/network` copies what was typed into ERaConfig when "scan" is pressed too
  (`ERaPnPEsp32.hpp:772`; a plain visit clears the backup network and the force flag). The
  time-out of the configuration mode then joins the typed network, the board runs on it with
  a session, and nothing saves it: after a restart it is back on the old one. So does
  `/api/config` with the backup network of a request that names no primary one.
  RunningIsStored excepts both by name (`draft`); StoredIsProven and Back hold with them.
- ERaMqtt: an api task whose publishes are acknowledged (setSkipACK(false) with setTaskSize)
  competes with `loop()` for its PUBACKs, and each one it loses closes the connection. The
  safety properties hold there, Heals is not claimed.
- ERaModbus: updateConfig() may overwrite a PARSE or SCAN that arrives between its test and
  its set. The request is then lost until the next one; FrameAligned excepts it by name.
- ERaProperty: a first value is published at the heartbeat only; a change whose publication is
  lost is not repeated before the next change or heartbeat, never with WaitForever;
  numProperty is never lowered, and a write to a new pin at the limit leaks what it
  allocated. Converges asks for a heartbeat.
- Automation: times are compared as numbers. A delay whose end lies beyond the wrap of
  millis() ends at once, one that ends just before it may wait 49 days more; the first alert
  after the wrap is put off to its old deadline, its automation running all the while, and
  for ever when the remaining time happens to be 0xFFFFFFFF. A change while the chain is
  running is used up by the deduplicator. An automation without a list of actions deletes
  its conditions and leaves them registered (`ERaSmart.tpp:157`).

## Plan

Done: ERaQueue and ERaFifo, ERaTimer, ERaMqtt, ERaPnP, ERaModbus, ERaReport and ERaProperty,
ERasTimer and ERaSmart, each with proofs. What is left, in this order:

1. `ERaEvents`: heap blocks carried by events through ERaQueue: freed once, never leaked,
   with one and with two producers; composes ERaQueue.
2. `ERaConfigStore`: hash in RAM, parse, write to SPIFFS, restart: old or new, never neither.
3. `ERaModbusBus`: request, time-out, retry and late answers on one RTU line.
4. `ERaButton`: the list of ERaTimer with multi-press counting.

A new component takes one run for safety and liveness together, as `mqtt`, `pnp`, `property`
and `automation` do.

## Not modelled

- PnP for ESP8266, Arduino and modem boards: the same machine over other drivers. Of the
  ESP32 one: non-blocking mode, Ethernet or modem priority, smart config, BLE provisioning, the
  special SSID (`setSpecSSID`).
- Zigbee: mostly tables of device converters around a vendored coprocessor protocol. Its three
  tasks share timers and a state word without a lock, and nothing in the repository says
  what they should guarantee.
- The api task (`setTaskSize`) outside ERaMqtt: it runs properties, reports and automations
  without a lock against the main task, so that the models of these are of the default
  build, where one task does everything.
- TinyGSM, cJSON, MbedTLS and the packet encoding of lwmqtt: vendored.
- OTA's download, the calendar (ERaTimeLib, ERaSchedule), widgets, MD5, Base64: sequential,
  pure or I/O.
- Parsing and formatting of commands and configurations: sequential data conversion.
- Two producers on one ERaQueue, timers shared by two tasks, and the first creation of a
  mutex by two tasks: outside the use the classes are written for; listed as hazards.

-------------------------- MODULE ERaModbusProofs --------------------------
(***************************************************************************)
(* Proofs about ERaModbus for every number of entries, steps, keys and     *)
(* commands: who holds the mutex, what becomes of the keys of actions, the *)
(* types, and which frames of data are published.                          *)
(***************************************************************************)
EXTENDS ERaModbus, TLAPS

\* MutexDiscipline is inductive with the domain of pc.
MutexInv == DOMAIN pc = Tasks /\ mutex \in Tasks \cup {None} /\ MutexDiscipline

\* A step of one task from l to m keeps MutexInv when it takes the mutex on
\* the way in, gives it back on the way out and else leaves it alone.
LEMMA StepMutex ==
    ASSUME MutexInv, NEW t \in Tasks, NEW m, Goto(t, m),
           \/ pc[t] \notin Locked /\ m \notin Locked /\ mutex' = mutex
           \/ pc[t] \in Locked /\ m \in Locked /\ mutex' = mutex
           \/ m \in Locked /\ Lock(t)
           \/ pc[t] \in Locked /\ m \notin Locked /\ Unlock
    PROVE  MutexInv'
<1>1. /\ DOMAIN pc' = Tasks /\ pc'[t] = m
      /\ \A u \in Tasks : u # t => pc'[u] = pc[u]
  BY DEF MutexInv, Goto
<1>2. None \notin Tasks
  BY DEF None, Tasks
<1>3. \A u \in Tasks : (pc[u] \in Locked) <=> (mutex = u)
  BY DEF MutexInv, MutexDiscipline
<1>4. mutex \in Tasks \cup {None}
  BY DEF MutexInv
<1>5. CASE pc[t] \notin Locked /\ m \notin Locked /\ mutex' = mutex
  BY <1>1, <1>2, <1>3, <1>4, <1>5 DEF MutexInv, MutexDiscipline
<1>6. CASE pc[t] \in Locked /\ m \in Locked /\ mutex' = mutex
  BY <1>1, <1>2, <1>3, <1>4, <1>6 DEF MutexInv, MutexDiscipline
<1>7. CASE m \in Locked /\ Lock(t)
  BY <1>1, <1>2, <1>3, <1>4, <1>7 DEF MutexInv, MutexDiscipline, Lock
<1>8. CASE pc[t] \in Locked /\ m \notin Locked /\ Unlock
  BY <1>1, <1>2, <1>3, <1>4, <1>8 DEF MutexInv, MutexDiscipline, Unlock
<1> QED BY <1>5, <1>6, <1>7, <1>8

\* The mutex is free at the start.
LEMMA InitMutex == Init => MutexInv
BY DEF Init, MutexInv, MutexDiscipline, Locked, Tasks, None

\* Every step of the main task keeps MutexInv.
LEMMA MainMutex ==
    ASSUME MutexInv, Main
    PROVE  MutexInv'
<1> DEFINE T == "main"
<1>0. T \in Tasks
  BY DEF Tasks
<1>1. ASSUME NEW o, SetParse(o) PROVE MutexInv'
  BY <1>1, <1>0, StepMutex DEF SetParse, Call, Locked
<1>2. CASE LockParse
  BY <1>2, <1>0, StepMutex DEF LockParse, Locked
<1>3. CASE DeleteAll
  BY <1>3, <1>0, StepMutex DEF DeleteAll, Locked
<1>4. CASE ParseScan
  BY <1>4 DEF ParseScan, MutexInv, MutexDiscipline
<1>5. ASSUME NEW known, ParseBegin(known) PROVE MutexInv'
  BY <1>5, <1>0, StepMutex DEF ParseBegin, Locked
<1>6. ASSUME NEW n, ParseEnd(n) PROVE MutexInv'
  BY <1>6, <1>0, StepMutex DEF ParseEnd, Locked
<1>7. ASSUME NEW k, NEW key, AddAction(k, key) PROVE MutexInv'
  BY <1>7 DEF AddAction, MutexInv, MutexDiscipline
<1>8. ASSUME NEW execute, WriteAll(execute) PROVE MutexInv'
  <2>1. CASE execute
    BY <1>8, <2>1, <1>0, StepMutex DEF WriteAll, Call, Locked
  <2>2. CASE ~execute
    BY <1>8, <2>2 DEF WriteAll, MutexInv, MutexDiscipline
  <2> QED BY <2>1, <2>2
<1> QED BY <1>1, <1>2, <1>3, <1>4, <1>5, <1>6, <1>7, <1>8 DEF Main

\* The release of the mutex after an exchange.
LEMMA DelayMutex ==
    ASSUME MutexInv, NEW t \in Tasks, NEW from \in Locked, NEW to, to \notin Locked,
           DelayModbus(t, from, to)
    PROVE  MutexInv'
BY StepMutex DEF DelayModbus

\* Every step of an executing task keeps MutexInv.
LEMMA ActionMutex ==
    ASSUME MutexInv, NEW t \in Tasks, Action(t)
    PROVE  MutexInv'
<1>1. ASSUME NEW k \in Kinds, NoAction(t, k) PROVE MutexInv'
  BY <1>1, StepMutex DEF NoAction, After, Kinds, Locked
<1>2. ASSUME NEW k \in Kinds, NEW steps, GetAction(t, k, steps) PROVE MutexInv'
  BY <1>2, StepMutex DEF GetAction, Kinds, Locked
<1>3. CASE LockAction(t)
  BY <1>3, StepMutex DEF LockAction, Locked
<1>4. CASE UnknownEntry(t)
  BY <1>4, StepMutex DEF UnknownEntry, Locked
<1>5. CASE ActionWrite(t)
  BY <1>5, StepMutex DEF ActionWrite, Locked
<1>6. CASE ActionDelay(t)
  BY <1>6, DelayMutex DEF ActionDelay, Locked
<1>7. CASE Acted(t)
  BY <1>7, StepMutex DEF Acted, Locked
<1>8. CASE SetControlled(t)
  BY <1>8, StepMutex DEF SetControlled, Locked
<1>9. CASE FreeKey(t)
  BY <1>9, StepMutex DEF FreeKey, After, Locked
<1> QED BY <1>1, <1>2, <1>3, <1>4, <1>5, <1>6, <1>7, <1>8, <1>9 DEF Action

\* Every step of a write of all outputs keeps MutexInv.
LEMMA WriteOptionMutex ==
    ASSUME MutexInv, NEW t \in Tasks, WriteOption(t)
    PROVE  MutexInv'
<1>1. CASE Walk(t)
  BY <1>1, StepMutex DEF Walk, Become, Locked
<1>2. CASE WalkLock(t)
  BY <1>2, StepMutex DEF WalkLock, Locked
<1>3. CASE WalkEnd(t)
  BY <1>3, StepMutex DEF WalkEnd, Locked
<1>4. CASE WalkCheck(t)
  BY <1>4, StepMutex DEF WalkCheck, Become, Locked
<1>5. CASE WalkWrite(t)
  BY <1>5, StepMutex DEF WalkWrite, Locked
<1>6. CASE WalkStep(t)
  BY <1>6, StepMutex DEF WalkStep, Become, Locked
<1>7. CASE DelayModbus(t, "walkdelay", "walked")
  BY <1>7, DelayMutex DEF Locked
<1> QED BY <1>1, <1>2, <1>3, <1>4, <1>5, <1>6, <1>7 DEF WriteOption

\* Every step of the read task keeps MutexInv.
LEMMA ReadMutex ==
    ASSUME MutexInv, Read
    PROVE  MutexInv'
<1> DEFINE T == "read"
<1>0. T \in Tasks
  BY DEF Tasks
<1>1. CASE Scan
  BY <1>1, <1>0, StepMutex DEF Scan, Become, Locked
<1>2. CASE ScanLock \/ ReadLock
  BY <1>2, <1>0, StepMutex DEF ScanLock, ReadLock, Locked
<1>3. CASE ScanRead \/ ScanEnd
  BY <1>3, <1>0, StepMutex DEF ScanRead, ScanEnd, Become, Locked
<1>4. CASE ScanDelay
  BY <1>4, <1>0, StepMutex DEF ScanDelay, Locked
<1>5. CASE Resize \/ Reset
  BY <1>5, <1>0, StepMutex DEF Resize, Reset, Become, Locked
<1>6. CASE SetRunning \/ NoRead \/ StartWalk
  BY <1>6, <1>0, StepMutex DEF SetRunning, NoRead, StartWalk, Become, Locked
<1>7. CASE NextParam \/ Publish
  BY <1>7, <1>0, StepMutex DEF NextParam, Publish, Become, Locked
<1>8. CASE ReadCheck
  BY <1>8, <1>0, StepMutex DEF ReadCheck, Locked
<1>9. CASE ReadParam
  BY <1>9, <1>0, StepMutex DEF ReadParam, Locked
<1>10. CASE DelayModbus("read", "readdelay", "alias")
  BY <1>10, <1>0, DelayMutex DEF Locked
<1>11. CASE Action("read")
  BY <1>11, <1>0, ActionMutex
<1> QED BY <1>1, <1>2, <1>3, <1>4, <1>5, <1>6, <1>7, <1>8, <1>9, <1>10, <1>11 DEF Read

\* The mutex is held exactly between a lock and its unlock, by that task, for
\* every number of entries, steps and commands.
THEOREM ModbusMutexDiscipline == Spec => []MutexDiscipline
<1>1. MutexInv /\ [Next]_vars => MutexInv'
  <2> SUFFICES ASSUME MutexInv, [Next]_vars PROVE MutexInv'
    OBVIOUS
  <2>1. CASE Main
    BY <2>1, MainMutex
  <2>2. CASE WriteOption("main") \/ Write
    BY <2>2, WriteOptionMutex, ActionMutex DEF Write, Tasks
  <2>3. CASE Read
    BY <2>3, ReadMutex
  <2>4. CASE UNCHANGED vars
    BY <2>4 DEF vars, MutexInv, MutexDiscipline
  <2> QED BY <2>1, <2>2, <2>3, <2>4 DEF Next
<1>2. MutexInv => MutexDiscipline
  BY DEF MutexInv
<1> QED BY <1>1, <1>2, InitMutex, PTL DEF Spec

----------------------------------------------------------------------------
(* The keys of actions.                                                    *)

\* Where a task has a request in its hands.
Executing == {"actlock", "actbus", "actdelay", "acted", "control", "free"}

Requests == [kind : Kinds, key : Keys, steps : Int]

\* Only the task chosen for actions executes them, and it holds a request
\* exactly while it does: none is overwritten before its key is freed.
HeldInv ==
    /\ actTask \in {"read", "write"} /\ DOMAIN pc = Tasks
    /\ \A t \in Tasks : pc[t] \in Executing => t = actTask
    /\ pc[actTask] \notin Executing => held = NotHeld
    /\ pc[actTask] \in Executing => held \in Requests

KeysType == queue \in [Kinds -> Seq(Keys)] /\ heap \subseteq Keys

KeysInv == HeldInv /\ KeysType /\ KeysOwned

\* A step of a task that neither begins nor ends an execution, and leaves
\* the queues, the keys and the request in hand alone.
LEMMA StepKeys ==
    ASSUME KeysInv, NEW t \in Tasks, NEW m, Goto(t, m),
           (pc[t] \in Executing) <=> (m \in Executing),
           UNCHANGED <<actTask, queue, heap>>,
           held'.key = held.key, held = NotHeld => held' = NotHeld,
           held \in Requests => held' \in Requests
    PROVE  KeysInv'
<1>1. /\ DOMAIN pc' = Tasks /\ pc'[t] = m
      /\ \A u \in Tasks : u # t => pc'[u] = pc[u]
  BY DEF KeysInv, HeldInv, Goto
<1>2. actTask \in Tasks
  BY DEF KeysInv, HeldInv, Tasks
<1>3. HeldInv'
  BY <1>1, <1>2 DEF KeysInv, HeldInv, NotHeld
<1>4. KeysType' /\ KeysOwned'
  BY DEF KeysInv, KeysType, KeysOwned, Queued
<1> QED BY <1>3, <1>4 DEF KeysInv

\* The same without a move.
LEMMA StayKeys ==
    ASSUME KeysInv, UNCHANGED <<actTask, pc, actions>>
    PROVE  KeysInv'
BY DEF KeysInv, HeldInv, KeysType, KeysOwned, Queued, actions

\* No key is allocated at the start.
LEMMA InitKeys == Init => KeysInv
<1> SUFFICES ASSUME Init PROVE KeysInv
  OBVIOUS
<1>1. HeldInv
  BY TaskAssumption DEF Init, HeldInv, Executing, Tasks
<1>2. KeysType
  BY DEF Init, KeysType
<1>3. KeysOwned
  BY KeyAssumption DEF Init, KeysOwned, Queued, NotHeld, None
<1> QED BY <1>1, <1>2, <1>3 DEF KeysInv

\* A new key is in no queue and not in hand.
LEMMA AddKeys ==
    ASSUME KeysInv, NEW k \in Kinds, NEW key \in Keys, AddAction(k, key)
    PROVE  KeysInv'
<1> USE DEF KeysInv
<1>1. HeldInv'
  BY DEF AddAction, HeldInv
<1>2. queue[k] \in Seq(Keys) /\ queue' = [queue EXCEPT ![k] = Append(queue[k], key)]
  BY DEF KeysType, AddAction
<1>3. KeysType'
  BY <1>2 DEF KeysType, AddAction
<1>4. /\ DOMAIN queue'[k] = 1..(Len(queue[k]) + 1)
      /\ DOMAIN queue[k] = 1..Len(queue[k]) /\ Len(queue[k]) \in Nat
      /\ queue'[k][Len(queue[k]) + 1] = key
      /\ \A i \in DOMAIN queue[k] : queue'[k][i] = queue[k][i]
      /\ \A l \in Kinds : l # k => queue'[l] = queue[l]
  BY <1>2 DEF KeysType
<1>5. key # held.key /\ (\A l \in Kinds : ~Queued(l, key)) /\ held' = held
  BY DEF KeysOwned, AddAction
<1>6. \A c \in Keys, l \in Kinds : Queued(l, c)' <=> (Queued(l, c) \/ (l = k /\ c = key))
  BY <1>4 DEF Queued
<1>7. \A l \in Kinds : ~Queued(l, held.key)'
  BY <1>4, <1>5 DEF Queued, KeysOwned
<1>8. \A c \in Keys : c \in heap' <=> c = held'.key \/ \E l \in Kinds : Queued(l, c)'
  BY <1>5, <1>6 DEF KeysOwned, AddAction
<1>9. \A l, m \in Kinds : \A i \in DOMAIN queue'[l], j \in DOMAIN queue'[m] :
         queue'[l][i] = queue'[m][j] => l = m /\ i = j
  BY <1>4, <1>5 DEF KeysOwned, Queued
<1>10. KeysOwned'
  BY <1>5, <1>7, <1>8, <1>9 DEF KeysOwned
<1> QED BY <1>1, <1>3, <1>10

\* The head of a queue moves to the hand.
LEMMA GetKeys ==
    ASSUME KeysInv, NEW t \in Tasks, NEW k \in Kinds, NEW steps, GetAction(t, k, steps)
    PROVE  KeysInv'
<1> USE DEF KeysInv
<1>1. queue[k] \in Seq(Keys) /\ queue[k] # <<>> /\ k \notin Executing
  BY DEF KeysType, GetAction, Kinds, Executing
<1>2. /\ queue' = [queue EXCEPT ![k] = Tail(queue[k])] /\ heap' = heap /\ actTask' = actTask
      /\ held'.key = Head(queue[k]) /\ held'.kind = k /\ t = actTask /\ pc[t] = k
  BY DEF GetAction
<1>3. held = NotHeld
  BY <1>1, <1>2 DEF HeldInv
<1>4. /\ DOMAIN queue[k] = 1..Len(queue[k]) /\ Len(queue[k]) \in Nat \ {0}
      /\ DOMAIN queue'[k] = 1..(Len(queue[k]) - 1) /\ queue'[k] \in Seq(Keys)
      /\ \A i \in 1..(Len(queue[k]) - 1) : queue'[k][i] = queue[k][i + 1]
      /\ Head(queue[k]) = queue[k][1] /\ Head(queue[k]) \in Keys
      /\ \A l \in Kinds : l # k => queue'[l] = queue[l]
  BY <1>1, <1>2 DEF KeysType
<1>5. KeysType'
  BY <1>2, <1>4 DEF KeysType
<1>6. HeldInv'
  <2>1. /\ DOMAIN pc' = Tasks /\ pc'[t] \in Executing
        /\ \A u \in Tasks : u # t => pc'[u] = pc[u]
    BY DEF GetAction, Goto, HeldInv, Executing
  <2>2. held' \in Requests
    BY <1>4, BoundAssumption DEF GetAction, Requests
  <2> QED BY <1>2, <2>1, <2>2 DEF HeldInv
<1>7. \A l, m \in Kinds : \A i \in DOMAIN queue'[l], j \in DOMAIN queue'[m] :
         queue'[l][i] = queue'[m][j] => l = m /\ i = j
  <2> TAKE l, m \in Kinds
  <2> TAKE i \in DOMAIN queue'[l], j \in DOMAIN queue'[m]
  <2> DEFINE up(x) == IF x = k THEN 1 ELSE 0
  <2>1. i \in Int /\ j \in Int
    BY <1>4 DEF KeysType
  <2>2. i + up(l) \in DOMAIN queue[l] /\ queue'[l][i] = queue[l][i + up(l)]
    <3>1. CASE l = k
      BY <1>4, <2>1, <3>1
    <3>2. CASE l # k
      BY <1>4, <2>1, <3>2
    <3> QED BY <3>1, <3>2
  <2>3. j + up(m) \in DOMAIN queue[m] /\ queue'[m][j] = queue[m][j + up(m)]
    <3>1. CASE m = k
      BY <1>4, <2>1, <3>1
    <3>2. CASE m # k
      BY <1>4, <2>1, <3>2
    <3> QED BY <3>1, <3>2
  <2>4. \A x \in DOMAIN queue[l], y \in DOMAIN queue[m] :
            queue[l][x] = queue[m][y] => l = m /\ x = y
    BY DEF KeysOwned
  <2>5. queue'[l][i] = queue'[m][j] => l = m /\ i + up(l) = j + up(m)
    <3> HIDE DEF up
    <3> QED BY <2>2, <2>3, <2>4
  <2> QED BY <2>1, <2>5
<1>8. \A l \in Kinds : ~Queued(l, held.key)'
  <2> SUFFICES ASSUME NEW l \in Kinds, NEW i \in DOMAIN queue'[l],
                      queue'[l][i] = queue[k][1]
               PROVE  FALSE
    BY <1>2, <1>4 DEF Queued
  <2>1. CASE l = k
    <3>1. i \in 1..(Len(queue[k]) - 1) /\ i + 1 \in DOMAIN queue[k] /\ 1 \in DOMAIN queue[k]
      BY <1>4, <2>1
    <3>2. queue[k][i + 1] = queue[k][1]
      BY <1>4, <2>1, <3>1
    <3> QED BY <3>1, <3>2 DEF KeysOwned
  <2>2. CASE l # k
    BY <1>4, <2>2 DEF KeysOwned
  <2> QED BY <2>1, <2>2
<1>9. \A c \in Keys : (\E l \in Kinds : Queued(l, c)) <=>
                        (c = Head(queue[k]) \/ \E l \in Kinds : Queued(l, c)')
  <2> TAKE c \in Keys
  <2>1. \A l \in Kinds : l # k => (Queued(l, c) <=> Queued(l, c)')
    BY <1>4 DEF Queued
  <2>2. Queued(k, c)' => Queued(k, c)
    <3> SUFFICES ASSUME NEW i \in DOMAIN queue'[k], queue'[k][i] = c
                 PROVE  Queued(k, c)
      BY DEF Queued
    <3>1. i + 1 \in DOMAIN queue[k] /\ queue[k][i + 1] = c
      BY <1>4
    <3> QED BY <3>1 DEF Queued
  <2>3. Queued(k, c) => c = queue[k][1] \/ Queued(k, c)'
    <3> SUFFICES ASSUME NEW i \in DOMAIN queue[k], queue[k][i] = c, i # 1
                 PROVE  Queued(k, c)'
      BY DEF Queued
    <3>1. i - 1 \in DOMAIN queue'[k] /\ queue'[k][i - 1] = c
      BY <1>4
    <3> QED BY <3>1 DEF Queued
  <2>4. c = Head(queue[k]) => Queued(k, c)
    BY <1>4 DEF Queued
  <2> QED BY <1>4, <2>1, <2>2, <2>3, <2>4
<1>10. \A c \in Keys : c \in heap' <=> c = held'.key \/ \E l \in Kinds : Queued(l, c)'
  <2>1. held.key \notin Keys
    BY <1>3, KeyAssumption DEF NotHeld, None
  <2> QED BY <1>2, <1>9, <2>1 DEF KeysOwned
<1>11. KeysOwned'
  BY <1>7, <1>8, <1>10 DEF KeysOwned
<1> QED BY <1>5, <1>6, <1>11

\* The key in hand is freed, and nothing else.
LEMMA FreeKeys ==
    ASSUME KeysInv, NEW t \in Tasks, FreeKey(t)
    PROVE  KeysInv'
<1> USE DEF KeysInv
<1>1. t = actTask /\ held.kind \in Kinds /\ held.key \in Keys
  BY DEF FreeKey, HeldInv, Executing, Requests
<1>2. /\ queue' = queue /\ heap' = heap \ {held.key} /\ held' = NotHeld /\ actTask' = actTask
  BY DEF FreeKey
<1>3. HeldInv'
  BY <1>1, <1>2 DEF FreeKey, HeldInv, Goto, After, Executing
<1>4. KeysType'
  BY <1>2 DEF KeysType
<1>5. \A c \in Keys, l \in Kinds : Queued(l, c)' <=> Queued(l, c)
  BY <1>2 DEF Queued
<1>6. \A l \in Kinds : ~Queued(l, None)'
  BY <1>2, KeyAssumption DEF Queued, KeysType, None
<1>7. KeysOwned'
  BY <1>1, <1>2, <1>5, <1>6, KeyAssumption DEF KeysOwned, NotHeld, None
<1> QED BY <1>3, <1>4, <1>7

\* Every step of an executing task keeps KeysInv.
LEMMA ActionKeys ==
    ASSUME KeysInv, NEW t \in Tasks, Action(t)
    PROVE  KeysInv'
<1> USE DEF actions
<1>1. ASSUME NEW k \in Kinds, NoAction(t, k) PROVE KeysInv'
  BY <1>1, StepKeys DEF NoAction, After, Kinds, Executing
<1>2. ASSUME NEW k \in Kinds, NEW steps, GetAction(t, k, steps) PROVE KeysInv'
  BY <1>2, GetKeys
<1>3. CASE LockAction(t)
  BY <1>3, StepKeys DEF LockAction, Executing
<1>4. ASSUME UnknownEntry(t) \/ ActionWrite(t) PROVE KeysInv'
  <2>1. held \in Requests
    BY <1>4 DEF UnknownEntry, ActionWrite, KeysInv, HeldInv, Executing
  <2>2. held # NotHeld
    BY <2>1, KeyAssumption DEF Requests, NotHeld, None
  <2>3. held' \in Requests /\ held'.key = held.key
    BY <1>4, <2>1 DEF UnknownEntry, ActionWrite, StepDone, Requests
  <2>4. CASE UnknownEntry(t)
    BY <2>2, <2>3, <2>4, StepKeys DEF UnknownEntry, Executing
  <2>5. CASE ActionWrite(t)
    BY <2>2, <2>3, <2>5, StepKeys DEF ActionWrite, Executing
  <2> QED BY <1>4, <2>4, <2>5
<1>5. CASE ActionDelay(t)
  BY <1>5, StepKeys DEF ActionDelay, DelayModbus, Executing
<1>6. CASE Acted(t)
  BY <1>6, StepKeys DEF Acted, Executing
<1>7. CASE SetControlled(t)
  BY <1>7, StepKeys DEF SetControlled, Executing
<1>8. CASE FreeKey(t)
  BY <1>8, FreeKeys
<1> QED BY <1>1, <1>2, <1>3, <1>4, <1>5, <1>6, <1>7, <1>8 DEF Action

\* Every step of the main task keeps KeysInv.
LEMMA MainKeys ==
    ASSUME KeysInv, Main
    PROVE  KeysInv'
<1> DEFINE T == "main"
<1>0. T \in Tasks
  BY DEF Tasks
<1> USE DEF actions
<1>1. ASSUME NEW o, SetParse(o) PROVE KeysInv'
  BY <1>1, <1>0, StepKeys DEF SetParse, Call, Executing
<1>2. CASE LockParse
  BY <1>2, <1>0, StepKeys DEF LockParse, Executing
<1>3. CASE DeleteAll
  BY <1>3, <1>0, StepKeys DEF DeleteAll, Executing
<1>4. CASE ParseScan
  BY <1>4, StayKeys DEF ParseScan
<1>5. ASSUME NEW known, ParseBegin(known) PROVE KeysInv'
  BY <1>5, <1>0, StepKeys DEF ParseBegin, Executing
<1>6. ASSUME NEW n, ParseEnd(n) PROVE KeysInv'
  BY <1>6, <1>0, StepKeys DEF ParseEnd, Executing
<1>7. ASSUME NEW k \in Kinds, NEW key \in Keys, AddAction(k, key) PROVE KeysInv'
  BY <1>7, AddKeys
<1>8. ASSUME NEW execute, WriteAll(execute) PROVE KeysInv'
  <2>1. CASE execute
    BY <1>8, <2>1, <1>0, StepKeys DEF WriteAll, Call, Executing
  <2>2. CASE ~execute
    BY <1>8, <2>2, StayKeys DEF WriteAll
  <2> QED BY <2>1, <2>2
<1> QED BY <1>1, <1>2, <1>3, <1>4, <1>5, <1>6, <1>7, <1>8 DEF Main

\* Every step of a write of all outputs keeps KeysInv.
LEMMA WriteOptionKeys ==
    ASSUME KeysInv, NEW t \in Tasks, WriteOption(t)
    PROVE  KeysInv'
<1> USE DEF actions
<1>1. CASE Walk(t)
  BY <1>1, StepKeys DEF Walk, Become, Executing
<1>2. CASE WalkLock(t) \/ WalkEnd(t)
  BY <1>2, StepKeys DEF WalkLock, WalkEnd, Executing
<1>3. CASE WalkCheck(t)
  BY <1>3, StepKeys DEF WalkCheck, Become, Executing
<1>4. CASE WalkWrite(t)
  BY <1>4, StepKeys DEF WalkWrite, Executing
<1>5. CASE WalkStep(t)
  BY <1>5, StepKeys DEF WalkStep, Become, Executing
<1>6. CASE DelayModbus(t, "walkdelay", "walked")
  BY <1>6, StepKeys DEF DelayModbus, Executing
<1> QED BY <1>1, <1>2, <1>3, <1>4, <1>5, <1>6 DEF WriteOption

\* Every step of the read task keeps KeysInv.
LEMMA ReadKeys ==
    ASSUME KeysInv, Read
    PROVE  KeysInv'
<1> DEFINE T == "read"
<1>0. T \in Tasks
  BY DEF Tasks
<1> USE DEF actions
<1>1. CASE Scan
  BY <1>1, <1>0, StepKeys DEF Scan, Become, Executing
<1>2. CASE ScanLock \/ ReadLock
  BY <1>2, <1>0, StepKeys DEF ScanLock, ReadLock, Executing
<1>3. CASE ScanRead \/ ScanEnd \/ ScanDelay
  BY <1>3, <1>0, StepKeys DEF ScanRead, ScanEnd, ScanDelay, Become, Executing
<1>4. CASE Resize \/ Reset
  BY <1>4, <1>0, StepKeys DEF Resize, Reset, Become, Executing
<1>5. CASE SetRunning \/ NoRead \/ StartWalk
  BY <1>5, <1>0, StepKeys DEF SetRunning, NoRead, StartWalk, Become, Executing
<1>6. CASE NextParam \/ Publish
  BY <1>6, <1>0, StepKeys DEF NextParam, Publish, Become, Executing
<1>7. CASE ReadCheck \/ ReadParam
  BY <1>7, <1>0, StepKeys DEF ReadCheck, ReadParam, Executing
<1>8. CASE DelayModbus("read", "readdelay", "alias")
  BY <1>8, <1>0, StepKeys DEF DelayModbus, Executing
<1>9. CASE Action("read")
  BY <1>9, <1>0, ActionKeys
<1> QED BY <1>1, <1>2, <1>3, <1>4, <1>5, <1>6, <1>7, <1>8, <1>9 DEF Read

\* KeysInv is an invariant.
LEMMA KeysInvariant == Spec => []KeysInv
<1>1. KeysInv /\ [Next]_vars => KeysInv'
  <2> SUFFICES ASSUME KeysInv, [Next]_vars PROVE KeysInv'
    OBVIOUS
  <2>1. CASE Main
    BY <2>1, MainKeys
  <2>2. CASE WriteOption("main") \/ Write
    BY <2>2, WriteOptionKeys, ActionKeys DEF Write, Tasks
  <2>3. CASE Read
    BY <2>3, ReadKeys
  <2>4. CASE UNCHANGED vars
    BY <2>4, StayKeys DEF vars
  <2> QED BY <2>1, <2>2, <2>3, <2>4 DEF Next
<1> QED BY <1>1, InitKeys, PTL DEF Spec

\* Every key is owned by a queue or by the task that executes it, and by one
\* of them only, for every set of keys and every capacity of the queues.
THEOREM ModbusKeysOwned == Spec => []KeysOwned
<1>1. KeysInv => KeysOwned
  BY DEF KeysInv
<1> QED BY <1>1, KeysInvariant, PTL
----------------------------------------------------------------------------
(* The types.                                                              *)

States == {"INIT", "RUNNING", "CONTROLLED", "PARSE", "SCAN"}

ControlType ==
    /\ actTask \in ActionTasks /\ mb \in States /\ mutex \in Tasks \cup {None}
    /\ pc \in [Tasks -> Labels] /\ at \in [Tasks -> Nat]
    /\ op \in {None, "config", "control", "remove", "known"} /\ ops \in 0..MaxOps
ListsType ==
    /\ conf \in Entries /\ ctrl \in Entries /\ enable \in BOOLEAN
    /\ frame \in Seq(Nat) /\ pend \in BOOLEAN /\ lost \in BOOLEAN
RequestType ==
    /\ queue \in [Kinds -> Seq(Keys)] /\ \A k \in Kinds : Len(queue[k]) <= MaxAction
    /\ held \in [kind : Kinds, key : Keys, steps : Nat] \cup {NotHeld}
    /\ heap \subseteq Keys

\* A scan under way has an address left, an action under way a step: so
\* neither counts below zero.
Loaded ==
    /\ pc.read = "scanbus" => at.read # 0
    /\ pc[actTask] \in {"actlock", "actbus"} => held.steps # 0

TypeInv == ControlType /\ ListsType /\ RequestType /\ Loaded

LEMMA TypeParts == TypeInv => TypeOK
BY DEF TypeInv, ControlType, ListsType, RequestType, TypeOK, States

\* The empty sequence.
LEMMA Empty == \A S : <<>> \in Seq(S) /\ Len(<<>>) = 0
OBVIOUS

\* A step of one task that leaves the lists and the requests alone.
LEMMA StepType ==
    ASSUME TypeInv, NEW t \in Tasks, NEW m \in Labels, Goto(t, m),
           UNCHANGED <<actTask, data, actions>>,
           mb' \in States, mutex' \in Tasks \cup {None}, at' \in [Tasks -> Nat],
           op' \in {None, "config", "control", "remove", "known"}, ops' \in 0..MaxOps,
           t # "read" => at'.read = at.read,
           t = "read" /\ m = "scanbus" => at'.read # 0,
           t = actTask /\ m \in {"actlock", "actbus"} => held.steps # 0
    PROVE  TypeInv'
<1>1. /\ pc' \in [Tasks -> Labels] /\ pc'[t] = m
      /\ \A u \in Tasks : u # t => pc'[u] = pc[u]
  BY DEF TypeInv, ControlType, Goto
<1>2. ControlType'
  BY <1>1 DEF TypeInv, ControlType
<1>3. ListsType' /\ RequestType'
  BY DEF TypeInv, ListsType, RequestType, data, actions
<1>4. actTask \in Tasks
  BY TaskAssumption DEF TypeInv, ControlType, Tasks
<1>5. Loaded'
  BY <1>1, <1>4 DEF TypeInv, Loaded, actions, Tasks
<1> QED BY <1>2, <1>3, <1>5 DEF TypeInv

\* Every step of an executing task keeps the types.
LEMMA ActionType ==
    ASSUME TypeInv, KeysInv, NEW t \in Tasks, Action(t)
    PROVE  TypeInv'
<1>0. /\ mb \in States /\ mutex \in Tasks \cup {None} /\ at \in [Tasks -> Nat]
      /\ op \in {None, "config", "control", "remove", "known"} /\ ops \in 0..MaxOps
  BY DEF TypeInv, ControlType
<1>1. ASSUME NEW k \in Kinds, NoAction(t, k) PROVE TypeInv'
  <2>1. After(t, k) \in Labels \ {"scanbus", "actlock", "actbus"}
    BY DEF After, Labels, Locked
  <2> QED BY <1>0, <1>1, <2>1, StepType DEF NoAction
<1>2. ASSUME NEW k \in Kinds, NEW steps \in 0..MaxSteps, GetAction(t, k, steps)
      PROVE  TypeInv'
  <2>1. queue[k] \in Seq(Keys) /\ queue[k] # <<>> /\ Len(queue[k]) <= MaxAction
    BY <1>2 DEF GetAction, TypeInv, RequestType
  <2>2. /\ Head(queue[k]) \in Keys /\ Tail(queue[k]) \in Seq(Keys)
        /\ Len(Tail(queue[k])) <= MaxAction
    BY <2>1, BoundAssumption
  <2>3. queue' = [queue EXCEPT ![k] = Tail(queue[k])] /\ heap' = heap
    BY <1>2 DEF GetAction
  <2>4. /\ queue' \in [Kinds -> Seq(Keys)]
        /\ \A l \in Kinds : Len(queue'[l]) <= MaxAction
    BY <2>2, <2>3 DEF TypeInv, RequestType
  <2>5. held' \in [kind : Kinds, key : Keys, steps : Nat] /\ held'.steps = steps
    BY <1>2, <2>2, BoundAssumption DEF GetAction
  <2>6. RequestType'
    BY <2>3, <2>4, <2>5 DEF TypeInv, RequestType
  <2>7. ListsType'
    BY <1>2 DEF GetAction, TypeInv, ListsType, data
  <2> DEFINE m == IF steps = 0 THEN "acted" ELSE "actlock"
  <2>8. Goto(t, m) /\ t = actTask /\ m \in Labels
    BY <1>2 DEF GetAction, Labels
  <2>9. /\ pc' \in [Tasks -> Labels] /\ pc'[t] = m
        /\ \A u \in Tasks : u # t => pc'[u] = pc[u]
    BY <2>8 DEF TypeInv, ControlType, Goto
  <2>10. ControlType'
    BY <1>2, <2>9 DEF GetAction, TypeInv, ControlType
  <2>11. Loaded'
    BY <1>2, <2>5, <2>8, <2>9 DEF GetAction, TypeInv, Loaded, Tasks
  <2> QED BY <2>6, <2>7, <2>10, <2>11 DEF TypeInv
<1>3. CASE LockAction(t)
  <2>1. t = actTask /\ held.steps # 0
    BY <1>3 DEF LockAction, KeysInv, HeldInv, Executing, TypeInv, Loaded
  <2>2. "actbus" \in Labels
    BY DEF Labels, Locked
  <2> QED BY <1>0, <1>3, <2>1, <2>2, StepType DEF LockAction, Lock
<1>4. CASE UnknownEntry(t) \/ ActionWrite(t)
  <2>1. t = actTask /\ held \in [kind : Kinds, key : Keys, steps : Nat] /\ held.steps # 0
    BY <1>4, KeyAssumption
       DEF UnknownEntry, ActionWrite, KeysInv, HeldInv, Executing, Requests, TypeInv, Loaded,
           RequestType, NotHeld, None
  <2>2. held' = [held EXCEPT !.steps = held.steps - 1] /\ held.steps - 1 \in Nat
    BY <1>4, <2>1 DEF UnknownEntry, ActionWrite, StepDone
  <2>3. held' \in [kind : Kinds, key : Keys, steps : Nat] /\ held'.steps = held.steps - 1
    BY <2>1, <2>2
  <2>4. UNCHANGED <<actTask, queue, heap, mb, at, op, ops, data>>
    BY <1>4 DEF UnknownEntry, ActionWrite
  <2>5. RequestType' /\ ListsType'
    BY <2>3, <2>4 DEF TypeInv, RequestType, ListsType, data
  <2>6. PICK m \in {"actdelay", "acted", "actlock"} :
            Goto(t, m) /\ (m = "actlock" => held.steps # 1)
    BY <1>4 DEF UnknownEntry, ActionWrite
  <2>7. m \in Labels
    BY <2>6 DEF Labels, Locked
  <2>8. /\ pc' \in [Tasks -> Labels] /\ pc'[t] = m
        /\ \A u \in Tasks : u # t => pc'[u] = pc[u]
    BY <2>6, <2>7 DEF TypeInv, ControlType, Goto
  <2>9. mutex' \in Tasks \cup {None}
    BY <1>4 DEF UnknownEntry, ActionWrite, Unlock, TypeInv, ControlType
  <2>10. ControlType'
    BY <2>4, <2>8, <2>9 DEF TypeInv, ControlType
  <2>11. m # "scanbus" /\ m # "actbus"
    BY <2>6
  <2>12. Loaded'
    BY <2>1, <2>3, <2>4, <2>6, <2>8, <2>11 DEF TypeInv, Loaded, Tasks
  <2> QED BY <2>5, <2>10, <2>12 DEF TypeInv
<1>5. CASE ActionDelay(t)
  <2>1. t = actTask
    BY <1>5 DEF ActionDelay, DelayModbus, KeysInv, HeldInv, Executing
  <2>2. {"acted", "actlock"} \subseteq Labels
    BY DEF Labels
  <2>3. CASE held.steps = 0
    BY <1>0, <1>5, <2>2, <2>3, StepType DEF ActionDelay, DelayModbus, Unlock
  <2>4. CASE held.steps # 0
    BY <1>0, <1>5, <2>2, <2>4, StepType DEF ActionDelay, DelayModbus, Unlock
  <2> QED BY <2>3, <2>4
<1>6. CASE Acted(t)
  <2>1. {"control", "free"} \subseteq Labels
    BY DEF Labels
  <2> QED BY <1>0, <1>6, <2>1, StepType DEF Acted
<1>7. CASE SetControlled(t)
  <2>1. "free" \in Labels /\ "CONTROLLED" \in States
    BY DEF Labels, States
  <2> QED BY <1>0, <1>7, <2>1, StepType DEF SetControlled
<1>8. CASE FreeKey(t)
  <2>1. After(t, held.kind) \in Labels \ {"scanbus", "actlock", "actbus"}
    BY DEF After, Labels, Locked
  <2>2. /\ pc' \in [Tasks -> Labels] /\ pc'[t] = After(t, held.kind)
        /\ \A u \in Tasks : u # t => pc'[u] = pc[u]
    BY <1>8, <2>1 DEF FreeKey, TypeInv, ControlType, Goto
  <2>3. ControlType'
    BY <1>8, <2>2 DEF FreeKey, TypeInv, ControlType
  <2>4. ListsType' /\ RequestType'
    BY <1>8 DEF FreeKey, TypeInv, ListsType, RequestType, data
  <2>5. t = actTask
    BY <1>8 DEF FreeKey, KeysInv, HeldInv, Executing
  <2>6. Loaded'
    BY <1>8, <2>1, <2>2, <2>5 DEF FreeKey, TypeInv, Loaded, Tasks
  <2> QED BY <2>3, <2>4, <2>6 DEF TypeInv
<1> QED BY <1>1, <1>2, <1>3, <1>4, <1>5, <1>6, <1>7, <1>8 DEF Action

\* Moving a task to an entry or step i.
LEMMA BecomeType ==
    ASSUME TypeInv, NEW t \in Tasks, NEW m, NEW i \in Nat, Become(t, m, i)
    PROVE  /\ Goto(t, m) /\ at' \in [Tasks -> Nat] /\ at'[t] = i
           /\ \A u \in Tasks : u # t => at'[u] = at[u]
BY DEF TypeInv, ControlType, Become

\* Every step of a write of all outputs by the main or the write task keeps
\* the types.
LEMMA WriteOptionType ==
    ASSUME TypeInv, NEW t \in {"main", "write"}, WriteOption(t)
    PROVE  TypeInv'
<1>0. /\ mb \in States /\ mutex \in Tasks \cup {None} /\ at \in [Tasks -> Nat]
      /\ op \in {None, "config", "control", "remove", "known"} /\ ops \in 0..MaxOps
  BY DEF TypeInv, ControlType
<1> DEFINE home == IF t = "main" THEN "idle" ELSE "alias"
<1>a. t \in Tasks /\ t # "read" /\ "read" \in Tasks
  BY DEF Tasks
<1>b. /\ {home, "walk", "walknext", "walked", "walkcheck", "walkbus", "walkdelay"}
             \subseteq Labels \ {"scanbus", "actlock", "actbus"}
  BY DEF Labels, Locked
<1>1. CASE Walk(t)
  <2>1. PICK m \in {home, "walknext"}, i \in {0, 1} : Become(t, m, i)
    BY <1>1 DEF Walk
  <2>2. i \in Nat
    BY <2>1
  <2> QED BY <1>0, <1>a, <1>b, <1>1, <2>1, <2>2, BecomeType, StepType DEF Walk
<1>2. CASE WalkLock(t)
  BY <1>0, <1>a, <1>b, <1>2, StepType DEF WalkLock, Lock
<1>3. CASE WalkEnd(t)
  <2>1. /\ pc' \in [Tasks -> Labels] /\ pc'[t] = home
        /\ \A u \in Tasks : u # t => pc'[u] = pc[u]
    BY <1>3, <1>a, <1>b DEF WalkEnd, TypeInv, ControlType, Goto
  <2>2. ControlType'
    BY <1>3, <2>1 DEF WalkEnd, TypeInv, ControlType
  <2>3. ListsType' /\ RequestType'
    BY <1>3 DEF WalkEnd, TypeInv, ListsType, RequestType, actions
  <2>4. actTask \in Tasks
    BY TaskAssumption DEF TypeInv, ControlType, Tasks
  <2>5. Loaded'
    BY <1>3, <1>a, <1>b, <2>1, <2>4 DEF WalkEnd, TypeInv, Loaded, actions
  <2> QED BY <2>2, <2>3, <2>5 DEF TypeInv
<1>4. CASE WalkCheck(t)
  <2>1. CASE mb = "PARSE"
    <3>1. Become(t, home, 0)
      BY <1>4, <2>1 DEF WalkCheck
    <3> QED BY <1>0, <1>a, <1>b, <1>4, <2>1, <3>1, BecomeType, StepType DEF WalkCheck, Unlock
  <2>2. CASE mb # "PARSE"
    BY <1>0, <1>a, <1>b, <1>4, <2>2, StepType DEF WalkCheck
  <2> QED BY <2>1, <2>2
<1>5. CASE WalkWrite(t)
  BY <1>0, <1>a, <1>b, <1>5, StepType DEF WalkWrite
<1>6. CASE WalkStep(t)
  <2>1. Next_(at[t], ctrl.len) \subseteq Nat
    BY <1>0, <1>a DEF TypeInv, ListsType, Entries, Next_
  <2>2. PICK m \in {home, "walknext"}, i \in Nat : Become(t, m, i)
    BY <1>6, <2>1 DEF WalkStep
  <2> QED BY <1>0, <1>a, <1>b, <1>6, <2>2, BecomeType, StepType DEF WalkStep
<1>7. CASE DelayModbus(t, "walkdelay", "walked")
  BY <1>0, <1>a, <1>b, <1>7, StepType DEF DelayModbus, Unlock
<1> QED BY <1>1, <1>2, <1>3, <1>4, <1>5, <1>6, <1>7 DEF WriteOption

\* A step of the main task from l to m that leaves the requests alone.
LEMMA MainStepType ==
    ASSUME TypeInv, NEW m \in Labels \ {"scanbus", "actlock", "actbus"}, Goto("main", m),
           UNCHANGED <<actTask, at, actions>>, ListsType',
           mb' \in States, mutex' \in Tasks \cup {None},
           op' \in {None, "config", "control", "remove", "known"}, ops' \in 0..MaxOps
    PROVE  TypeInv'
<1>1. /\ pc' \in [Tasks -> Labels] /\ pc'["main"] = m
      /\ \A u \in Tasks : u # "main" => pc'[u] = pc[u]
  BY DEF TypeInv, ControlType, Goto, Tasks
<1>2. ControlType'
  BY <1>1 DEF TypeInv, ControlType
<1>3. RequestType'
  BY DEF TypeInv, RequestType, actions
<1>4. actTask \in Tasks /\ "read" \in Tasks /\ "read" # "main"
  BY TaskAssumption DEF TypeInv, ControlType, Tasks
<1>5. Loaded'
  BY <1>1, <1>4 DEF TypeInv, Loaded, actions
<1> QED BY <1>2, <1>3, <1>5 DEF TypeInv

\* Every step of the main task keeps the types.
LEMMA MainType ==
    ASSUME TypeInv, Main
    PROVE  TypeInv'
<1>0. /\ mb \in States /\ mutex \in Tasks \cup {None} /\ at \in [Tasks -> Nat]
      /\ op \in {None, "config", "control", "remove", "known"} /\ ops \in 0..MaxOps
  BY DEF TypeInv, ControlType
<1>a. /\ {"idle", "lock", "parse", "parsed", "delete", "walk"}
             \subseteq Labels \ {"scanbus", "actlock", "actbus"}
      /\ "main" \in Tasks /\ {"PARSE", "SCAN"} \subseteq States
  BY DEF Labels, Locked, Tasks, States
<1>b. Call => ops' \in 0..MaxOps
  BY <1>0, BoundAssumption DEF Call
<1>c. UNCHANGED data => ListsType'
  BY DEF TypeInv, ListsType, data
<1>1. ASSUME NEW o, SetParse(o) PROVE TypeInv'
  BY <1>0, <1>a, <1>b, <1>c, <1>1, MainStepType DEF SetParse
<1>2. CASE LockParse
  BY <1>0, <1>a, <1>c, <1>2, MainStepType DEF LockParse, Lock
<1>3. CASE DeleteAll
  <2>1. conf' \in Entries /\ ctrl' \in Entries
    BY <1>3, BoundAssumption DEF DeleteAll, Entries
  <2>2. ListsType'
    BY <1>3, <2>1 DEF DeleteAll, TypeInv, ListsType
  <2> QED BY <1>0, <1>a, <1>3, <2>2, MainStepType DEF DeleteAll, Unlock
<1>4. CASE ParseScan
  BY <1>0, <1>a, <1>b, <1>4
     DEF ParseScan, TypeInv, ControlType, ListsType, RequestType, Loaded, data, actions
<1>5. ASSUME NEW known \in BOOLEAN, ParseBegin(known) PROVE TypeInv'
  <2>1. conf' \in Entries /\ ctrl' \in Entries
    BY <1>5, BoundAssumption DEF ParseBegin, TypeInv, ListsType, Entries
  <2>2. ListsType'
    BY <1>5, <2>1 DEF ParseBegin, TypeInv, ListsType
  <2> QED BY <1>0, <1>a, <1>5, <2>2, MainStepType DEF ParseBegin
<1>6. ASSUME NEW n \in 0..MaxLen, ParseEnd(n) PROVE TypeInv'
  <2>1. conf' \in Entries /\ ctrl' \in Entries
    BY <1>6, BoundAssumption DEF ParseEnd, TypeInv, ListsType, Entries, Grown
  <2>2. ListsType'
    BY <1>6, <2>1 DEF ParseEnd, TypeInv, ListsType
  <2> QED BY <1>0, <1>a, <1>6, <2>2, MainStepType DEF ParseEnd, Unlock
<1>7. ASSUME NEW k \in Kinds, NEW key \in Keys, AddAction(k, key) PROVE TypeInv'
  <2>1. /\ queue' = [queue EXCEPT ![k] = Append(queue[k], key)] /\ heap' = heap \cup {key}
        /\ queue[k] \in Seq(Keys) /\ Len(queue[k]) < MaxAction /\ held' = held
    BY <1>7 DEF AddAction, TypeInv, RequestType
  <2>2. Append(queue[k], key) \in Seq(Keys) /\ Len(Append(queue[k], key)) <= MaxAction
    BY <2>1, BoundAssumption
  <2>3. RequestType'
    BY <2>1, <2>2 DEF TypeInv, RequestType
  <2>4. ControlType' /\ ListsType' /\ Loaded'
    BY <1>7, <1>b, <1>c DEF AddAction, TypeInv, ControlType, Loaded
  <2> QED BY <2>3, <2>4 DEF TypeInv
<1>8. ASSUME NEW execute \in BOOLEAN, WriteAll(execute) PROVE TypeInv'
  <2>1. ListsType'
    BY <1>8 DEF WriteAll, TypeInv, ListsType
  <2>2. CASE execute
    BY <1>0, <1>a, <1>b, <1>8, <2>1, <2>2, MainStepType DEF WriteAll
  <2>3. CASE ~execute
    BY <1>b, <1>8, <2>1, <2>3
       DEF WriteAll, TypeInv, ControlType, RequestType, Loaded, actions
  <2> QED BY <2>2, <2>3
<1> QED BY <1>1, <1>2, <1>3, <1>4, <1>5, <1>6, <1>7, <1>8 DEF Main

\* A step of the read task that leaves the requests alone, and may change
\* the lists.
LEMMA ReadStepType ==
    ASSUME TypeInv, NEW m \in Labels \ {"actlock", "actbus"}, Goto("read", m),
           UNCHANGED <<actTask, mutex, op, ops, actions>>, ListsType',
           mb' \in States, at' \in [Tasks -> Nat], m = "scanbus" => at'.read # 0
    PROVE  TypeInv'
<1>1. /\ pc' \in [Tasks -> Labels] /\ pc'["read"] = m
      /\ \A u \in Tasks : u # "read" => pc'[u] = pc[u]
  BY DEF TypeInv, ControlType, Goto, Tasks
<1>2. ControlType'
  BY <1>1 DEF TypeInv, ControlType
<1>3. RequestType'
  BY DEF TypeInv, RequestType, actions
<1>4. actTask \in Tasks
  BY TaskAssumption DEF TypeInv, ControlType, Tasks
<1>5. Loaded'
  BY <1>1, <1>4 DEF TypeInv, Loaded, actions
<1> QED BY <1>2, <1>3, <1>5 DEF TypeInv

\* Every step of the read task keeps the types.
LEMMA ReadType ==
    ASSUME TypeInv, KeysInv, Read
    PROVE  TypeInv'
<1> DEFINE Free == Labels \ {"scanbus", "actlock", "actbus"}
<1>0. /\ mb \in States /\ mutex \in Tasks \cup {None} /\ at \in [Tasks -> Nat]
      /\ op \in {None, "config", "control", "remove", "known"} /\ ops \in 0..MaxOps
  BY DEF TypeInv, ControlType
<1>a. /\ {"scannext", "scandelay", "update", "reset", "running", "read", "alias", "readlock",
          "readcheck", "readbus", "readdelay"} \subseteq Free
      /\ "scanbus" \in Labels /\ "RUNNING" \in States
      /\ "read" \in Tasks /\ at.read \in Nat
  BY <1>0 DEF Labels, Locked, Tasks, States
<1>b. UNCHANGED data => ListsType'
  BY DEF TypeInv, ListsType, data
<1> HIDE DEF Free
<1>c. \A m \in Free : m \in Labels \ {"actlock", "actbus"} /\ m \in Labels /\ m # "scanbus"
  BY DEF Free
<1>1. CASE Scan
  <2>1. \A i \in 1..MaxSteps : i \in Nat
    BY BoundAssumption
  <2>2. PICK m \in {"scannext", "update"}, i \in Nat : Become("read", m, i)
    BY <1>1, <1>a, <2>1 DEF Scan
  <2> QED BY <1>0, <1>a, <1>b, <1>c, <1>1, <2>2, BecomeType, ReadStepType DEF Scan
<1>2. CASE ScanLock
  BY <1>0, <1>a, <1>2, StepType DEF ScanLock, Lock
<1>3. CASE ScanRead
  <2>1. at.read - 1 \in Nat
    BY <1>3, <1>a DEF ScanRead, TypeInv, Loaded
  <2> QED BY <1>0, <1>a, <1>b, <1>c, <1>3, <2>1, BecomeType, ReadStepType DEF ScanRead
<1>4. CASE ScanDelay
  BY <1>0, <1>a, <1>c, <1>4, StepType DEF ScanDelay, Unlock
<1>5. CASE ScanEnd
  <2>1. ListsType'
    BY <1>5 DEF ScanEnd, TypeInv, ListsType
  <2> QED BY <1>0, <1>a, <1>c, <1>5, <2>1, ReadStepType DEF ScanEnd
<1>6. CASE Resize
  <2>1. \A list \in Entries : Cut(list) \in Entries
    <3> SUFFICES ASSUME NEW list \in Entries PROVE Cut(list) \in Entries
      OBVIOUS
    <3>1. list.len \in 0..MaxLen /\ list.count \in 0..MaxLen
      BY DEF Entries
    <3> DEFINE n == IF list.len > list.count THEN list.count ELSE list.len
    <3>2. Cut(list) = [list EXCEPT !.len = n] /\ n \in 0..MaxLen
      BY <3>1 DEF Cut
    <3> HIDE DEF n
    <3> QED BY <3>2 DEF Entries
  <2>2. ListsType'
    <3>1. conf' \in Entries /\ ctrl' \in Entries
      BY <1>6, <2>1 DEF Resize, TypeInv, ListsType
    <3> QED BY <1>6, <3>1 DEF Resize, TypeInv, ListsType
  <2> QED BY <1>0, <1>a, <1>c, <1>6, <2>2, ReadStepType DEF Resize
<1>7. CASE Reset
  <2>1. PICK i \in Nat : Become("read", "running", i)
    BY <1>7, <1>a DEF Reset
  <2>2. ListsType'
    BY <1>7 DEF Reset, TypeInv, ListsType
  <2> QED BY <1>0, <1>a, <1>c, <1>7, <2>1, <2>2, BecomeType, ReadStepType DEF Reset
<1>8. CASE SetRunning
  <2>1. lost' \in BOOLEAN
    BY <1>8, Zenon DEF SetRunning
  <2>2. ListsType'
    BY <1>8, <2>1 DEF SetRunning, TypeInv, ListsType
  <2> QED BY <1>0, <1>a, <1>c, <1>8, <2>2, ReadStepType DEF SetRunning
<1>9. CASE NoRead
  BY <1>0, <1>a, <1>b, <1>c, <1>9, ReadStepType DEF NoRead
<1>10. CASE StartWalk
  <2>1. frame' \in Seq(Nat) /\ lost' \in BOOLEAN
    BY <1>10, Empty DEF StartWalk
  <2>2. ListsType'
    BY <1>10, <2>1 DEF StartWalk, TypeInv, ListsType
  <2> QED BY <1>0, <1>a, <1>c, <1>10, <2>2, BecomeType, ReadStepType DEF StartWalk
<1>11. CASE NextParam
  <2>1. Next_(at.read, conf.len) \subseteq Nat
    BY <1>a DEF TypeInv, ListsType, Entries, Next_
  <2>2. PICK m \in {"publish", "readlock"}, i \in Nat : Become("read", m, i)
    BY <1>11, <2>1 DEF NextParam
  <2>3. ListsType'
    BY <1>11 DEF NextParam, TypeInv, ListsType
  <2>4. m \in Labels \ {"actlock", "actbus"} /\ m # "scanbus"
    BY DEF Labels, Locked
  <2>5. Goto("read", m) /\ at' \in [Tasks -> Nat]
    BY <1>0, <1>a, <2>2, BecomeType
  <2> QED BY <1>0, <1>a, <1>11, <2>3, <2>4, <2>5, ReadStepType DEF NextParam
<1>12. CASE ReadLock
  BY <1>0, <1>a, <1>c, <1>12, StepType DEF ReadLock, Lock
<1>13. CASE ReadCheck
  <2>1. CASE isStateUpdate
    BY <1>0, <1>a, <1>c, <1>13, <2>1, StepType DEF ReadCheck, Unlock
  <2>2. CASE ~isStateUpdate
    BY <1>0, <1>a, <1>c, <1>13, <2>2, StepType DEF ReadCheck
  <2> QED BY <2>1, <2>2
<1>14. CASE ReadParam
  <2>1. frame' \in Seq(Nat)
    BY <1>14, <1>a DEF ReadParam, TypeInv, ListsType
  <2>2. ListsType'
    BY <1>14, <2>1 DEF ReadParam, TypeInv, ListsType
  <2> QED BY <1>0, <1>a, <1>c, <1>14, <2>2, ReadStepType DEF ReadParam
<1>15. CASE DelayModbus("read", "readdelay", "alias")
  BY <1>0, <1>a, <1>c, <1>15, StepType DEF DelayModbus, Unlock
<1>16. CASE Action("read")
  BY <1>16, <1>a, ActionType
<1>17. CASE Publish
  <2>1. ListsType'
    BY <1>17, <1>a DEF Publish, TypeInv, ListsType
  <2> QED BY <1>0, <1>a, <1>c, <1>17, <2>1, ReadStepType DEF Publish
<1> QED BY <1>1, <1>2, <1>3, <1>4, <1>5, <1>6, <1>7, <1>8, <1>9, <1>10, <1>11, <1>12, <1>13,
           <1>14, <1>15, <1>16, <1>17 DEF Read

\* The types hold at the start.
LEMMA InitType == Init => TypeInv
<1> SUFFICES ASSUME Init PROVE TypeInv
  OBVIOUS
<1>1. conf \in Entries /\ ctrl \in Entries
  BY BoundAssumption DEF Init, Entries
<1>2. ControlType
  BY BoundAssumption DEF Init, ControlType, States, Tasks, Labels, Locked
<1>3. ListsType /\ RequestType
  <2>1. <<>> \in Seq(Nat) /\ <<>> \in Seq(Keys) /\ Len(<<>>) = 0
    BY Empty
  <2>2. RequestType
    BY <2>1, BoundAssumption DEF Init, RequestType
  <2>3. ListsType
    BY <1>1, <2>1 DEF Init, ListsType
  <2> QED BY <2>2, <2>3
<1>4. Loaded
  BY TaskAssumption DEF Init, Loaded
<1> QED BY <1>2, <1>3, <1>4 DEF TypeInv

\* The types and KeysInv are kept together.
LEMMA TypeInvariant == Spec => []TypeInv
<1>1. TypeInv /\ KeysInv /\ [Next]_vars => TypeInv'
  <2> SUFFICES ASSUME TypeInv, KeysInv, [Next]_vars PROVE TypeInv'
    OBVIOUS
  <2>1. CASE Main
    BY <2>1, MainType
  <2>2. CASE WriteOption("main") \/ WriteOption("write")
    BY <2>2, WriteOptionType
  <2>3. CASE Action("write")
    BY <2>3, ActionType DEF Tasks
  <2>4. CASE Read
    BY <2>4, ReadType
  <2>5. CASE UNCHANGED vars
    BY <2>5 DEF vars, data, actions, TypeInv, ControlType, ListsType, RequestType, Loaded
  <2> QED BY <2>1, <2>2, <2>3, <2>4, <2>5 DEF Next, Write
<1> QED BY <1>1, InitType, KeysInvariant, PTL DEF Spec

\* Every variable has its type and a queue holds at most MaxAction requests,
\* for every number of entries, steps, keys and commands.
THEOREM ModbusTypeOK == Spec => []TypeOK
BY TypeInvariant, TypeParts, PTL

----------------------------------------------------------------------------
(* The frame that is published.                                            *)

\* A request the read task has not answered by a new walk.
Requested == mb \notin {"INIT", "RUNNING"}

\* at counts addresses here, and entries elsewhere.
Scanning == {"scannext", "scanbus", "scandelay"}

\* The entry at has not been read yet.
Ahead == {"readlock", "readcheck", "readbus"}

\* One datum of every entry up to at, in its order.
Fits ==
    /\ at.read <= conf.len
    /\ frame = [i \in 1..(IF pc.read \in Ahead THEN at.read - 1 ELSE at.read) |-> i]

\* The walk is over: its frame fits the list it was made of, or was cleared.
ReadyInv ==
    pc.read = "publish" =>
        pub.lost \/ frame = <<>> \/ frame = [i \in 1..pub.len |-> i]

\* During a walk the frame fits its position, or a request arrived that
\* updateConfig() will either answer by a new walk or overwrite.  Between
\* updateConfig() and the end of the list nothing can be published that does
\* not fit: a new configuration cleared the frame, or the list is gone.
WalkInv ==
    at.read # 0 /\ pc.read \notin Scanning =>
        \/ lost
        \/ Fits
        \/ Requested /\ (pc.read = "read" => frame = <<>> \/ conf.len = 0)

FrameInv == WalkInv /\ ReadyInv /\ FrameAligned

\* A step of another task: a request stays one until the read task's answer,
\* and one that changes the list or the frame is a request.
LEMMA OtherFrame ==
    ASSUME FrameInv, pc'.read = pc.read, at'.read = at.read, lost' = lost, pub' = pub,
           Requested => Requested', frame' \in {frame, <<>>},
           \/ conf'.len = conf.len /\ frame' = frame
           \/ Requested' /\ (frame' = <<>> \/ conf'.len = 0)
    PROVE  FrameInv'
<1>1. CASE conf'.len = conf.len /\ frame' = frame
  BY <1>1 DEF FrameInv, ReadyInv, WalkInv, FrameAligned, Fits
<1>2. CASE Requested' /\ (frame' = <<>> \/ conf'.len = 0)
  BY <1>2 DEF FrameInv, ReadyInv, WalkInv, FrameAligned
<1> QED BY <1>1, <1>2

\* A step of the read task on the same side of an exchange.
LEMMA SameFrame ==
    ASSUME TypeInv, FrameInv, NEW m, m \notin {"read", "publish"}, Goto("read", m),
           UNCHANGED <<at, conf, frame, pub, lost>>, Requested => Requested',
           pc.read \notin Scanning, pc.read \in Ahead <=> m \in Ahead
    PROVE  FrameInv'
<1>1. pc'.read = m
  BY DEF Goto, TypeInv, ControlType, Tasks
<1> QED BY <1>1 DEF FrameInv, ReadyInv, WalkInv, FrameAligned, Fits

\* A step of the read task that ends the walk or meets a request.
LEMMA EndFrame ==
    ASSUME FrameInv, pub' = pub, pc'.read # "publish",
           \/ at'.read = 0
           \/ pc'.read \in Scanning
           \/ Requested' /\ pc'.read # "read"
    PROVE  FrameInv'
BY DEF FrameInv, ReadyInv, WalkInv, FrameAligned

\* Every step of the main task keeps FrameInv.
LEMMA MainFrame ==
    ASSUME TypeInv, FrameInv, Main
    PROVE  FrameInv'
<1>0. \A m : Goto("main", m) => pc'.read = pc.read
  BY DEF Goto, TypeInv, ControlType, Tasks
<1> USE DEF data, actions, Requested
<1>1. ASSUME NEW o, SetParse(o) PROVE FrameInv'
  BY <1>0, <1>1, OtherFrame DEF SetParse
<1>2. CASE LockParse
  BY <1>0, <1>2, OtherFrame DEF LockParse
<1>3. CASE DeleteAll
  BY <1>0, <1>3, OtherFrame DEF DeleteAll
<1>4. CASE ParseScan
  BY <1>0, <1>4, OtherFrame DEF ParseScan
<1>5. ASSUME NEW known \in BOOLEAN, ParseBegin(known) PROVE FrameInv'
  <2>1. conf'.len = conf.len
    BY <1>5 DEF ParseBegin, TypeInv, ListsType, Entries
  <2> QED BY <1>0, <1>5, <2>1, OtherFrame DEF ParseBegin
<1>6. ASSUME NEW n \in 0..MaxLen, ParseEnd(n) PROVE FrameInv'
  <2>1. CASE op = "config"
    BY <1>0, <1>6, <2>1, OtherFrame DEF ParseEnd
  <2>2. CASE op # "config"
    BY <1>0, <1>6, <2>2, OtherFrame DEF ParseEnd
  <2> QED BY <2>1, <2>2
<1>7. ASSUME NEW k \in Kinds, NEW key \in Keys, AddAction(k, key) PROVE FrameInv'
  BY <1>0, <1>7, OtherFrame DEF AddAction
<1>8. ASSUME NEW execute \in BOOLEAN, WriteAll(execute) PROVE FrameInv'
  BY <1>0, <1>8, OtherFrame DEF WriteAll
<1> QED BY <1>1, <1>2, <1>3, <1>4, <1>5, <1>6, <1>7, <1>8 DEF Main

\* Every step of the main or the write task in a write of all outputs keeps
\* FrameInv.
LEMMA WriteOptionFrame ==
    ASSUME TypeInv, FrameInv, NEW t \in {"main", "write"}, WriteOption(t)
    PROVE  FrameInv'
<1>0. /\ \A m : Goto(t, m) => pc'.read = pc.read
      /\ \A m, i : Become(t, m, i) => pc'.read = pc.read /\ at'.read = at.read
  BY DEF Become, Goto, TypeInv, ControlType, Tasks
<1> USE DEF data, actions, Requested
<1>1. CASE Walk(t)
  BY <1>0, <1>1, OtherFrame DEF Walk
<1>2. CASE WalkLock(t)
  BY <1>0, <1>2, OtherFrame DEF WalkLock
<1>3. CASE WalkEnd(t)
  BY <1>0, <1>3, OtherFrame DEF WalkEnd
<1>4. CASE WalkCheck(t)
  BY <1>0, <1>4, OtherFrame DEF WalkCheck
<1>5. CASE WalkWrite(t)
  BY <1>0, <1>5, OtherFrame DEF WalkWrite
<1>6. CASE WalkStep(t)
  BY <1>0, <1>6, OtherFrame DEF WalkStep
<1>7. CASE DelayModbus(t, "walkdelay", "walked")
  BY <1>0, <1>7, OtherFrame DEF DelayModbus
<1> QED BY <1>1, <1>2, <1>3, <1>4, <1>5, <1>6, <1>7 DEF WriteOption

\* Every step of an executing task keeps FrameInv.
LEMMA ActionFrame ==
    ASSUME TypeInv, FrameInv, NEW t \in {"read", "write"}, Action(t)
    PROVE  FrameInv'
<1> DEFINE Around == Labels \ (Scanning \cup Ahead \cup {"read", "publish"})
<1>1. PICK m \in Around : Goto(t, m)
  BY DEF Action, NoAction, GetAction, LockAction, UnknownEntry, ActionWrite, ActionDelay,
         DelayModbus, Acted, SetControlled, FreeKey, After, Labels, Locked, Scanning, Ahead
<1>2. pc[t] \notin Scanning \cup Ahead
  BY DEF Action, NoAction, GetAction, LockAction, UnknownEntry, ActionWrite, ActionDelay,
         DelayModbus, Acted, SetControlled, FreeKey, Kinds, Scanning, Ahead
<1>3. UNCHANGED <<at, conf, frame, pub, lost>>
  BY DEF Action, NoAction, GetAction, LockAction, UnknownEntry, ActionWrite, ActionDelay,
         DelayModbus, Acted, SetControlled, FreeKey, data
<1>4. Requested => Requested'
  BY DEF Action, NoAction, GetAction, LockAction, UnknownEntry, ActionWrite, ActionDelay,
         DelayModbus, Acted, SetControlled, FreeKey, Requested
<1>5. CASE t = "read"
  BY <1>1, <1>2, <1>3, <1>4, <1>5, SameFrame
<1>6. CASE t = "write"
  <2>1. pc'.read = pc.read
    BY <1>1, <1>6 DEF Goto, TypeInv, ControlType, Tasks
  <2> QED BY <1>3, <1>4, <2>1, OtherFrame
<1> QED BY <1>5, <1>6

\* The end of the list is reached, or the next entry: only a frame that fits
\* the whole list is published, unless a request was overwritten.
LEMMA NextParamFrame ==
    ASSUME TypeInv, FrameInv, NextParam
    PROVE  FrameInv'
<1>1. PICK i \in Next_(at.read, conf.len) :
          /\ Become("read", IF i = 0 THEN "publish" ELSE "readlock", i)
          /\ pub' = IF i = 0 THEN [data |-> <<>>, len |-> conf.len, lost |-> lost] ELSE pub
  BY DEF NextParam
<1>2. /\ pc.read = "read" /\ conf.len # 0 /\ at.read # 0
      /\ UNCHANGED <<mb, conf, frame, lost>>
      /\ at.read \in Nat /\ conf.len \in Nat
  BY DEF NextParam, TypeInv, ControlType, ListsType, Entries, Tasks
<1>3. at'.read = i /\ pc'.read = IF i = 0 THEN "publish" ELSE "readlock"
  BY <1>1 DEF Become, Goto, TypeInv, ControlType, Tasks
<1>4. lost \/ Fits \/ (Requested /\ frame = <<>>)
  BY <1>2 DEF FrameInv, WalkInv, Scanning
<1>5. Fits => /\ at.read <= conf.len /\ frame = [j \in 1..at.read |-> j]
              /\ i = IF at.read = conf.len THEN 0 ELSE at.read + 1
  BY <1>1, <1>2 DEF Fits, Ahead, Next_
<1>6. FrameAligned' /\ ReadyInv'
  <2>1. CASE i = 0
    <3>1. pub'.data = <<>> /\ pub'.len = conf.len /\ pub'.lost = lost
      BY <1>1, <2>1
    <3>2. lost \/ frame = <<>> \/ frame = [j \in 1..conf.len |-> j]
      BY <1>2, <1>4, <1>5, <2>1
    <3> QED BY <1>2, <3>1, <3>2 DEF FrameAligned, ReadyInv
  <2>2. CASE i # 0
    BY <1>1, <1>3, <2>2 DEF FrameInv, FrameAligned, ReadyInv
  <2> QED BY <2>1, <2>2
<1>7. WalkInv'
  <2>1. CASE lost
    BY <1>2, <2>1 DEF WalkInv
  <2>2. CASE Requested /\ frame = <<>>
    BY <1>2, <1>3, <2>2 DEF WalkInv, Requested
  <2>3. CASE Fits
    <3>1. CASE i = 0
      BY <1>3, <3>1 DEF WalkInv
    <3>2. CASE i # 0
      <4>1. /\ i = at.read + 1 /\ i <= conf.len /\ i - 1 = at.read
            /\ pc'.read = "readlock"
        BY <1>2, <1>3, <1>5, <2>3, <3>2
      <4>2. Fits'
        BY <1>2, <1>3, <1>5, <2>3, <4>1 DEF Fits, Ahead
      <4> QED BY <4>2 DEF WalkInv
    <3> QED BY <3>1, <3>2
  <2> QED BY <1>4, <2>1, <2>2, <2>3
<1> QED BY <1>6, <1>7 DEF FrameInv

\* What is published is the frame of the walk that ended, or nothing.
LEMMA PublishFrame ==
    ASSUME TypeInv, FrameInv, Publish
    PROVE  FrameInv'
<1>1. /\ pc.read = "publish" /\ pc'.read = "alias"
      /\ UNCHANGED <<mb, at, conf, frame, lost>>
  BY DEF Publish, Goto, TypeInv, ControlType, Tasks
<1>2. FrameAligned'
  BY <1>1 DEF Publish, FrameInv, ReadyInv, FrameAligned
<1>3. WalkInv'
  BY <1>1 DEF FrameInv, WalkInv, Scanning, Fits, Ahead, Requested
<1> QED BY <1>1, <1>2, <1>3 DEF FrameInv, ReadyInv

\* A new walk starts with an empty frame before the first entry.
LEMMA StartWalkFrame ==
    ASSUME TypeInv, FrameInv, StartWalk
    PROVE  FrameInv'
<1>1. /\ at'.read = 1 /\ pc'.read = "readlock"
      /\ frame' = <<>> /\ conf' = conf /\ conf.len # 0 /\ conf.len \in Nat /\ pub' = NoFrame
  BY DEF StartWalk, Become, Goto, TypeInv, ControlType, ListsType, Entries, Tasks
<1>2. [i \in 1..(1 - 1) |-> i] = <<>>
  OBVIOUS
<1>3. Fits'
  BY <1>1, <1>2 DEF Fits, Ahead
<1>4. FrameAligned'
  BY <1>1 DEF FrameAligned, NoFrame
<1> QED BY <1>1, <1>3, <1>4 DEF FrameInv, ReadyInv, WalkInv

\* A datum of the entry at the walk's position is appended.
LEMMA ReadParamFrame ==
    ASSUME TypeInv, FrameInv, ReadParam
    PROVE  FrameInv'
<1>1. /\ pc.read = "readbus" /\ pc'.read = "readdelay"
      /\ UNCHANGED <<mb, at, conf, pub, lost>>
      /\ at.read \in Nat /\ frame \in Seq(Nat)
      /\ frame' = IF mb = "PARSE" THEN frame ELSE Append(frame, at.read)
  BY DEF ReadParam, Goto, TypeInv, ControlType, ListsType, Tasks
<1>2. FrameAligned'
  BY <1>1 DEF FrameInv, FrameAligned
<1>3. CASE at.read = 0 \/ lost \/ Requested
  BY <1>1, <1>3 DEF FrameInv, ReadyInv, WalkInv, FrameAligned, Requested
<1>4. CASE at.read # 0 /\ ~lost /\ ~Requested
  <2>1. Fits
    BY <1>1, <1>4 DEF FrameInv, WalkInv, Scanning
  <2>2. at.read <= conf.len /\ frame = [i \in 1..(at.read - 1) |-> i]
    BY <1>1, <2>1 DEF Fits, Ahead
  <2>3. frame' = Append(frame, at.read)
    BY <1>1, <1>4 DEF Requested
  <2>4. Append(frame, at.read) = [i \in 1..at.read |-> i]
    BY <1>1, <1>4, <2>2
  <2>5. Fits'
    BY <1>1, <2>2, <2>3, <2>4 DEF Fits, Ahead
  <2> QED BY <1>1, <1>2, <2>5 DEF FrameInv, ReadyInv, WalkInv
<1> QED BY <1>3, <1>4

\* A request that updateConfig() did not answer is overwritten here.
LEMMA SetRunningFrame ==
    ASSUME TypeInv, FrameInv, SetRunning
    PROVE  FrameInv'
<1>1. /\ pc.read = "running" /\ pc'.read = "read"
      /\ UNCHANGED <<at, conf, frame, pub>>
      /\ lost' <=> (lost \/ pend \/ Requested)
  BY DEF SetRunning, Goto, Requested, TypeInv, ControlType, Tasks
<1>2. FrameAligned'
  BY <1>1 DEF FrameInv, FrameAligned
<1>3. at.read # 0 => lost' \/ Fits
  BY <1>1 DEF FrameInv, WalkInv, Scanning
<1>4. Fits => Fits'
  BY <1>1 DEF Fits, Ahead
<1> QED BY <1>1, <1>2, <1>3, <1>4 DEF FrameInv, ReadyInv, WalkInv

\* Every step of the read task keeps FrameInv.
LEMMA ReadFrame ==
    ASSUME TypeInv, FrameInv, Read
    PROVE  FrameInv'
<1>0. /\ \A m : Goto("read", m) => pc'.read = m
      /\ \A m, i : Become("read", m, i) => pc'.read = m /\ at'.read = i
      /\ \A m : Become("read", m, at.read) => Goto("read", m) /\ at' = at
  BY DEF Become, Goto, TypeInv, ControlType, Tasks
<1> USE DEF data, actions, Requested
<1>1. CASE Scan
  <2>1. CASE mb = "SCAN"
    BY <1>0, <1>1, <2>1, EndFrame DEF Scan, Scanning
  <2>2. CASE mb # "SCAN"
    BY <1>0, <1>1, <2>2, SameFrame DEF Scan, Scanning, Ahead
  <2> QED BY <2>1, <2>2
<1>2. CASE ScanLock
  BY <1>0, <1>2, EndFrame DEF ScanLock, Scanning
<1>3. CASE ScanRead
  BY <1>0, <1>3, EndFrame DEF ScanRead, Scanning
<1>4. CASE ScanDelay
  BY <1>0, <1>4, EndFrame DEF ScanDelay, Scanning
<1>5. CASE ScanEnd
  BY <1>0, <1>5, EndFrame DEF ScanEnd
<1>6. CASE Resize
  <2>1. CASE mb = "PARSE"
    BY <1>0, <1>6, <2>1, EndFrame DEF Resize
  <2>2. CASE mb # "PARSE"
    BY <1>0, <1>6, <2>2, SameFrame DEF Resize, Scanning, Ahead
  <2> QED BY <2>1, <2>2
<1>7. CASE Reset
  <2>1. CASE isStateUpdate
    BY <1>0, <1>7, <2>1, EndFrame DEF Reset
  <2>2. CASE ~isStateUpdate
    BY <1>0, <1>7, <2>2, SameFrame DEF Reset, Scanning, Ahead
  <2> QED BY <2>1, <2>2
<1>8. CASE SetRunning
  BY <1>8, SetRunningFrame
<1>9. CASE NoRead
  BY <1>0, <1>9, SameFrame DEF NoRead, Scanning, Ahead
<1>10. CASE StartWalk
  BY <1>10, StartWalkFrame
<1>11. CASE NextParam
  BY <1>11, NextParamFrame
<1>12. CASE ReadLock
  BY <1>0, <1>12, SameFrame DEF ReadLock, Scanning, Ahead
<1>13. CASE ReadCheck
  <2>1. CASE isStateUpdate
    BY <1>0, <1>13, <2>1, EndFrame DEF ReadCheck, isStateUpdate
  <2>2. CASE ~isStateUpdate
    BY <1>0, <1>13, <2>2, SameFrame DEF ReadCheck, Scanning, Ahead
  <2> QED BY <2>1, <2>2
<1>14. CASE ReadParam
  BY <1>14, ReadParamFrame
<1>15. CASE DelayModbus("read", "readdelay", "alias")
  BY <1>0, <1>15, SameFrame DEF DelayModbus, Scanning, Ahead
<1>16. CASE Action("read")
  BY <1>16, ActionFrame
<1>17. CASE Publish
  BY <1>17, PublishFrame
<1> QED BY <1>1, <1>2, <1>3, <1>4, <1>5, <1>6, <1>7, <1>8, <1>9, <1>10, <1>11, <1>12, <1>13,
           <1>14, <1>15, <1>16, <1>17 DEF Read

\* A published frame has one datum of every entry of the list in its order,
\* for lists of any length and any number of commands, unless updateConfig()
\* overwrote a request.
THEOREM ModbusFrameAligned == Spec => []FrameAligned
<1>1. Init => FrameInv
  BY DEF Init, FrameInv, ReadyInv, WalkInv, FrameAligned, NoFrame, Tasks
<1>2. TypeInv /\ FrameInv /\ [Next]_vars => FrameInv'
  <2> SUFFICES ASSUME TypeInv, FrameInv, [Next]_vars PROVE FrameInv'
    OBVIOUS
  <2>1. CASE Main
    BY <2>1, MainFrame
  <2>2. CASE WriteOption("main") \/ WriteOption("write")
    BY <2>2, WriteOptionFrame
  <2>3. CASE Action("write")
    BY <2>3, ActionFrame
  <2>4. CASE Read
    BY <2>4, ReadFrame
  <2>5. CASE UNCHANGED vars
    BY <2>5 DEF vars, data, FrameInv, ReadyInv, WalkInv, FrameAligned, Fits, Requested
  <2> QED BY <2>1, <2>2, <2>3, <2>4, <2>5 DEF Next, Write
<1>3. FrameInv => FrameAligned
  BY DEF FrameInv
<1> QED BY <1>1, <1>2, <1>3, TypeInvariant, PTL DEF Spec
=============================================================================

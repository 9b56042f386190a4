--------------------------- MODULE ERaSmartProofs ---------------------------
(***************************************************************************)
(* Proofs about ERaSmart for every set of configurations, every width of   *)
(* the clock and every limit of marked items.                              *)
(*                                                                         *)
(* The argument: an automation has at most one action running, as a chain  *)
(* starts when none is running and goes on when the time-out of the one    *)
(* that was running is taken out.  So the item a chain sets is the only    *)
(* one of its automation, and when it fires nothing else is left of the    *)
(* chain.                                                                  *)
(*                                                                         *)
(* Of time: deadline less time-out is when an item was set, so it agrees   *)
(* with the clock as long as the item is younger than one round of it; a   *)
(* run that leaves an item behind saw a clock before the deadline, and the *)
(* next one begins Lag later at most.  So an item waits Lag longer than    *)
(* asked for when a run begins, and the rest of that run.                  *)
(***************************************************************************)
EXTENDS ERaSmart, FiniteSetTheorems, TLAPS

Item == [component : Nat \X Nat, timeout : 0..(M - 2), next : 0..(M - 1),
         remove : BOOLEAN, new : BOOLEAN, age : 0..M]

Table(its) ==
    DOMAIN its \in SUBSET Nat /\ IsFiniteSet(DOMAIN its) /\ its \in [DOMAIN its -> Item]

\* The values of ERaMillis().
Clock == 0..(M - 1)

SmartRecord ==
    [spec : Automations, held : Seq(BOOLEAN), reset : Seq(BOOLEAN),
     last : {"none", "true", "false"}, running : SUBSET Nat, lastAlert : Seq(Clock),
     mute : BOOLEAN, played : BOOLEAN]

\* The fields of an automation belong to its conditions and actions, and at
\* most one action is running.
Fits(s) ==
    /\ Len(s.held) = Len(s.spec.conds) /\ Len(s.reset) = Len(s.spec.conds)
    /\ Len(s.lastAlert) = Len(s.spec.acts) /\ s.running \subseteq 1..Len(s.spec.acts)
    /\ \A i, j \in s.running : i = j

Smarts == {s \in SmartRecord : Fits(s)}

StateOK ==
    /\ Table(items) /\ toRemove \in Nat /\ now \in 0..(M - 1) /\ at \in 0..(M - 1)
    /\ smarts \in Seq(Smarts)
    /\ pc \in {"idle", "timer", "smart"} /\ k \in Nat
    /\ IF pc = "smart" THEN k \in 1..Len(smarts) ELSE k = 1
    /\ lag \in 0..Lag /\ ops \in 0..MaxOps /\ updates \in 0..MaxUpdates

OwnerOf(its, x) == its[x].component[1]

\* The part of TimersOwned about the items that are not cancelled.
Owned(its, sm) ==
    /\ \A x \in Live(its) :
         OwnerOf(its, x) \in DOMAIN sm /\ its[x].component[2] \in sm[OwnerOf(its, x)].running
    /\ \A x, y \in Live(its) : OwnerOf(its, x) = OwnerOf(its, y) => x = y
    /\ \A a \in DOMAIN sm : isRunning(sm[a]) =>
         (sm[a].mute <=> \A x \in Live(its) : OwnerOf(its, x) # a)

Counted == toRemove = Cardinality(Marked(items))

IInv == StateOK /\ Counted /\ Owned(items, smarts)

-----------------------------------------------------------------------------
(* The table of time-outs.                                                 *)

\* There is a number for one more item.
LEMMA FreeLemma ==
  ASSUME NEW its, Table(its)
  PROVE  Free(its) \in Nat /\ Free(its) \notin DOMAIN its
<1> DEFINE n == Cardinality(DOMAIN its)
<1>1. n \in Nat  BY FS_CardinalityType DEF Table
<1>2. IsFiniteSet(1..(n + 1)) /\ Cardinality(1..(n + 1)) = n + 1
  <2>1. 1 \in Int /\ n + 1 \in Int /\ ~(1 > n + 1) /\ (n + 1) - 1 + 1 = n + 1  BY <1>1
  <2>. QED  BY <2>1, FS_Interval
<1>3. \E x \in 1..(n + 1) : x \notin DOMAIN its
  <2>1. SUFFICES ASSUME 1..(n + 1) \in SUBSET DOMAIN its PROVE FALSE  OBVIOUS
  <2>2. Cardinality(1..(n + 1)) <= n  BY <2>1, FS_Subset DEF Table
  <2>. QED  BY <1>1, <1>2, <2>2
<1>. QED  BY <1>1, <1>3 DEF Free

\* A part of a table is one.
LEMMA OnlyLemma ==
  ASSUME NEW its, Table(its), NEW S \in SUBSET DOMAIN its
  PROVE  /\ Table(Only(its, S))
         /\ DOMAIN Only(its, S) = S
         /\ \A x \in S : Only(its, S)[x] = its[x]
         /\ Live(Only(its, S)) = Live(its) \cap S
         /\ Marked(Only(its, S)) = Marked(its) \cap S
<1>1. IsFiniteSet(S)  BY FS_Subset DEF Table
<1>2. DOMAIN Only(its, S) = S /\ \A x \in S : Only(its, S)[x] = its[x]  BY DEF Only
<1>3. Table(Only(its, S))  BY <1>1, <1>2 DEF Table, Only
<1>. QED  BY <1>2, <1>3 DEF Live, Marked, Heap

\* setTimeout() adds one item that waits to be added, unless the time is
\* TIMER_DONT_RUN.
LEMMA SetTimeoutLemma ==
  ASSUME NEW its, Table(its), NEW c \in Nat \X Nat, NEW t \in 0..(M - 1), now \in 0..(M - 1)
  PROVE  /\ Table(setTimeout(its, c, t))
         /\ DOMAIN its \subseteq DOMAIN setTimeout(its, c, t)
         /\ \A x \in DOMAIN its : setTimeout(its, c, t)[x] = its[x]
         /\ t = TIMER_DONT_RUN => setTimeout(its, c, t) = its
         /\ t # TIMER_DONT_RUN =>
              /\ DOMAIN setTimeout(its, c, t) = DOMAIN its \cup {Free(its)}
              /\ setTimeout(its, c, t)[Free(its)] = NewItem(c, t)
         /\ Free(its) \notin DOMAIN its
         /\ Marked(setTimeout(its, c, t)) = Marked(its)
<1> USE TimerAssumption
<1> DEFINE f == Free(its)
           new == setTimeout(its, c, t)
<1>1. f \in Nat /\ f \notin DOMAIN its  BY FreeLemma
<1>2. CASE t = TIMER_DONT_RUN
  <2>1. new = its  BY <1>2 DEF setTimeout
  <2>. QED  BY <1>1, <1>2, <2>1
<1>3. CASE t # TIMER_DONT_RUN
  <2>1. new = [x \in DOMAIN its \cup {f} |-> IF x = f THEN NewItem(c, t) ELSE its[x]]
    BY <1>3 DEF setTimeout
  <2>2. /\ DOMAIN new = DOMAIN its \cup {f} /\ new[f] = NewItem(c, t)
        /\ \A x \in DOMAIN its : new[x] = its[x]
    BY <2>1, <1>1
  <2>3. NewItem(c, t) \in Item
    <3>1. t \in 0..(M - 2)  BY <1>3 DEF TIMER_DONT_RUN
    <3>2. (now + t) % M \in 0..(M - 1)  OBVIOUS
    <3>. QED  BY <3>1, <3>2 DEF NewItem, Item
  <2>4. IsFiniteSet(DOMAIN new)  BY <2>2, FS_AddElement DEF Table
  <2>5. Table(new)  
    <3>1. DOMAIN new \in SUBSET Nat  BY <2>2, <1>1 DEF Table
    <3>2. new = [x \in DOMAIN new |-> new[x]]  BY <2>1, <2>2
    <3>3. \A x \in DOMAIN new : new[x] \in Item  BY <2>2, <2>3 DEF Table
    <3> HIDE DEF new
    <3>. QED  BY <3>1, <3>2, <3>3, <2>4 DEF Table
  <2>6. Marked(new) = Marked(its)
    <3>1. new[f].new  BY <2>2 DEF NewItem
    <3> HIDE DEF new
    <3>. QED  BY <2>2, <3>1 DEF Marked, Heap
  <2>. QED  BY <1>1, <1>3, <2>2, <2>5, <2>6, Zenon
<1>. QED  BY <1>2, <1>3

\* Moving the new items into the heap changes neither the live nor the marked.
LEMMA ProcessToAddLemma ==
  ASSUME NEW its, Table(its)
  PROVE  /\ Table(processToAdd(its))
         /\ DOMAIN processToAdd(its) \subseteq DOMAIN its
         /\ \A x \in DOMAIN processToAdd(its) : processToAdd(its)[x].component = its[x].component
         /\ Live(processToAdd(its)) = Live(its)
         /\ Marked(processToAdd(its)) = Marked(its)
<1> DEFINE S == {y \in DOMAIN its : ~(its[y].new /\ its[y].remove)}
           p == processToAdd(its)
<1>1. p = [x \in S |-> [its[x] EXCEPT !.new = FALSE]]  BY DEF processToAdd
<1>2. S \in SUBSET DOMAIN its /\ IsFiniteSet(S)
  <2>1. S \in SUBSET DOMAIN its  OBVIOUS
  <2>. QED  BY <2>1, FS_Subset DEF Table
<1>3. ASSUME NEW x \in S
      PROVE  /\ p[x] \in Item /\ p[x].component = its[x].component
             /\ p[x].remove = its[x].remove /\ p[x].new = FALSE
  <2>1. p[x] = [its[x] EXCEPT !.new = FALSE]  BY <1>1
  <2>2. its[x] \in Item  BY DEF Table
  <2>. QED  BY <2>1, <2>2 DEF Item
<1>4. Table(p) /\ DOMAIN p = S  BY <1>1, <1>2, <1>3 DEF Table
<1>5. \A x \in DOMAIN its : x \in S <=> ~(its[x].new /\ its[x].remove)  OBVIOUS
<1> HIDE DEF S, p
<1>6. Live(p) = Live(its)  BY <1>2, <1>3, <1>4, <1>5 DEF Live
<1>7. Marked(p) = Marked(its)  BY <1>2, <1>3, <1>4, <1>5 DEF Marked, Heap
<1>. QED  BY <1>2, <1>3, <1>4, <1>6, <1>7 DEF p

\* What is marked can be counted.
LEMMA MarkedLemma ==
  ASSUME NEW its, Table(its)
  PROVE  /\ Marked(its) \in SUBSET DOMAIN its /\ IsFiniteSet(Marked(its))
         /\ Cardinality(Marked(its)) \in Nat
<1>1. Marked(its) \in SUBSET DOMAIN its  BY DEF Marked, Heap
<1>2. IsFiniteSet(Marked(its))  BY <1>1, FS_Subset DEF Table
<1>. QED  BY <1>1, <1>2, FS_CardinalityType

-----------------------------------------------------------------------------
(* The chain of actions.                                                   *)

LEMMA SequenceLemma ==
  ASSUME NEW S, NEW n \in Nat, NEW f, f = [i \in 1..n |-> f[i]], \A i \in 1..n : f[i] \in S
  PROVE  f \in Seq(S) /\ Len(f) = n
<1>1. f \in [1..n -> S]  OBVIOUS
<1>. QED  BY <1>1

LEMMA Remainder ==
  ASSUME NEW z \in Int
  PROVE  z % M \in 0..(M - 1)
  BY TimerAssumption

\* What an action is made of.
LEMMA ActionLemma ==
  ASSUME NEW s \in Smarts, NEW n \in 1..Len(s.spec.acts)
  PROVE  /\ s.spec.acts[n].kind \in {"delay", "alert", "command"}
         /\ s.spec.acts[n].delay \in 0..(M - 2)
         /\ s.lastAlert[n] \in 0..(M - 1)
<1>1. s.spec.acts \in Seq(Actions)  BY DEF Smarts, SmartRecord, Automations
<1>2. s.spec.acts[n] \in Actions  BY <1>1
<1>3. s.lastAlert \in Seq(Clock) /\ Len(s.lastAlert) = Len(s.spec.acts)
  BY DEF Smarts, SmartRecord, Fits
<1>4. s.spec.acts[n].kind \in {"delay", "alert", "command"} /\ s.spec.acts[n].delay \in 0..(M - 2)
  BY <1>2 DEF Actions
<1>5. s.lastAlert[n] \in Clock  BY <1>3
<1>. QED  BY <1>4, <1>5 DEF Clock

LEMMA TimeoutLemma ==
  ASSUME NEW s \in Smarts, NEW n \in 1..Len(s.spec.acts), now \in 0..(M - 1)
  PROVE  Timeout(s, n) \in 0..(M - 1)
<1> DEFINE z == s.lastAlert[n] + s.spec.acts[n].delay - now
<1>1. z \in Int /\ s.spec.acts[n].delay \in 0..(M - 1)  BY ActionLemma, TimerAssumption
<1>2. z % M \in 0..(M - 1)  BY <1>1, Remainder
<1>. QED  BY <1>1, <1>2 DEF Timeout

LEMMA AlertedLemma ==
  ASSUME NEW s \in Smarts, NEW n \in 1..Len(s.spec.acts), now \in 0..(M - 1)
  PROVE  Alerted(s, n) \in 0..(M - 1)
<1> DEFINE d == s.spec.acts[n].delay
           l == s.lastAlert[n]
<1>1. d \in Nat /\ l \in Nat  BY ActionLemma, TimerAssumption
<1>2. CASE Sends(s, n) /\ d = 0  BY <1>2 DEF Alerted
<1>3. CASE Sends(s, n) /\ d # 0
  <2>1. now - l \in Int  BY <1>1, TimerAssumption
  <2>2. Elapsed(s, n) \in 0..(M - 1)  BY <2>1, Remainder DEF Elapsed
  <2>3. Elapsed(s, n) \in Nat  BY <2>2, TimerAssumption
  <2>4. d \in Nat \ {0}  BY <1>1, <1>3
  <2>5. Amount(s, n) \in Nat
    <3>1. \A a \in Nat, b \in Nat \ {0} : a \div b \in Nat  OBVIOUS
    <3>. QED  BY <3>1, <2>3, <2>4 DEF Amount
  <2>6. Amount(s, n) * d \in Nat
    <3>1. \A a, b \in Nat : a * b \in Nat  OBVIOUS
    <3>. QED  BY <3>1, <2>5, <1>1
  <2>7. l + Amount(s, n) * d \in Int  BY <1>1, <2>6
  <2>8. (l + Amount(s, n) * d) % M \in 0..(M - 1)  BY <2>7, Remainder
  <2>. QED  BY <1>3, <2>8 DEF Alerted
<1>4. CASE ~Sends(s, n)
  <2>1. l + d \in Int  BY <1>1
  <2>2. (l + d) % M \in 0..(M - 1)  BY <2>1, Remainder
  <2>. QED  BY <1>4, <2>2 DEF Alerted
<1>. QED  BY <1>2, <1>3, <1>4

\* A chain that is played leaves at most one action running: the one it
\* stopped at.
LEMMA PlayedLemma ==
  ASSUME NEW s \in Smarts, s.running = {}, NEW i \in Nat, NEW j \in 0..Len(s.spec.acts),
         now \in 0..(M - 1)
  PROVE  /\ Played(s, i, j) \in Smarts
         /\ Played(s, i, j).running = {j} \ {0}
         /\ (Played(s, i, j).mute <=> (j # 0 /\ Timeout(s, j) = TIMER_DONT_RUN))
<1> DEFINE last == [n \in DOMAIN s.lastAlert |->
                      IF n \in i..(IF j = 0 THEN Len(s.spec.acts) ELSE j) /\ s.spec.acts[n].kind = "alert"
                      THEN Alerted(s, n) ELSE s.lastAlert[n]]
           mute == j # 0 /\ Timeout(s, j) = TIMER_DONT_RUN
<1>1. s \in SmartRecord /\ Fits(s)  BY DEF Smarts
<1>2. s.lastAlert \in Seq(Clock) /\ Len(s.lastAlert) = Len(s.spec.acts) /\ Len(s.lastAlert) \in Nat
  BY <1>1 DEF SmartRecord, Fits
<1>3. last \in Seq(Clock) /\ Len(last) = Len(s.lastAlert)
  <2>1. DOMAIN s.lastAlert = 1..Len(s.lastAlert)  BY <1>2
  <2>2. ASSUME NEW n \in 1..Len(s.lastAlert) PROVE last[n] \in Clock
    <3>1. s.lastAlert[n] \in Clock  BY <1>2
    <3>2. Alerted(s, n) \in Clock  BY <1>2, AlertedLemma DEF Clock
    <3>. QED  BY <2>1, <3>1, <3>2
  <2>3. last = [n \in 1..Len(s.lastAlert) |-> last[n]]  BY <2>1
  <2> HIDE DEF last
  <2>. QED  BY <1>2, <2>2, <2>3, SequenceLemma
<1>4. Played(s, i, j) = [s EXCEPT !.running = {j} \ {0}, !.lastAlert = last, !.mute = mute]
  BY DEF Played
<1>5. {j} \ {0} \in SUBSET Nat /\ {j} \ {0} \subseteq 1..Len(s.spec.acts)
  BY <1>2
<1>6. \A x, y \in {j} \ {0} : x = y  OBVIOUS
<1>7. mute \in BOOLEAN  OBVIOUS
<1> HIDE DEF last, mute
<1>8. [s EXCEPT !.running = {j} \ {0}, !.lastAlert = last, !.mute = mute] \in Smarts
  BY <1>1, <1>2, <1>3, <1>5, <1>6, <1>7 DEF Smarts, SmartRecord, Fits
<1>9. Played(s, i, j).running = {j} \ {0} /\ Played(s, i, j).mute = mute
  BY <1>1, <1>4 DEF SmartRecord
<1>. QED  BY <1>4, <1>8, <1>9 DEF mute

\* Evaluating the conditions touches none of the fields of the chain.
LEMMA EvaluateLemma ==
  ASSUME NEW s \in Smarts
  PROVE  /\ Evaluate(s) \in Smarts /\ Evaluate(s).spec = s.spec
         /\ Evaluate(s).running = s.running /\ Evaluate(s).mute = s.mute
<1> DEFINE reset == [i \in DOMAIN s.reset |-> s.reset[i] /\ i \notin Evaluated(s)]
           last == IF Check(s) THEN "true" ELSE "false"
<1>1. s \in SmartRecord /\ Fits(s)  BY DEF Smarts
<1>2. Evaluate(s) = [s EXCEPT !.reset = reset, !.last = last]  BY DEF Evaluate
<1>3. reset \in Seq(BOOLEAN) /\ Len(reset) = Len(s.reset)
  <2>1. s.reset \in Seq(BOOLEAN)  BY <1>1 DEF SmartRecord
  <2>2. DOMAIN s.reset = 1..Len(s.reset) /\ Len(s.reset) \in Nat  BY <2>1
  <2>. QED  BY <2>2
<1>4. last \in {"none", "true", "false"}  OBVIOUS
<1> HIDE DEF reset, last
<1>. QED  BY <1>1, <1>2, <1>3, <1>4 DEF Smarts, SmartRecord, Fits

\* What a chain that stops at action j adds to the table: an item of that
\* action, unless the action is mute.
LEMMA SetLemma ==
  ASSUME NEW its, Table(its), NEW a \in Nat, NEW s \in Smarts,
         NEW j \in 0..Len(s.spec.acts), now \in 0..(M - 1)
  PROVE  LET after == Set(its, a, s, j)
             Added == DOMAIN after \ DOMAIN its
             sets  == j # 0 /\ Timeout(s, j) # TIMER_DONT_RUN
         IN  /\ Table(after) /\ Marked(after) = Marked(its)
             /\ DOMAIN its \subseteq DOMAIN after
             /\ \A x \in DOMAIN its : after[x] = its[x]
             /\ \A x \in Added : after[x].component = <<a, j>> /\ ~after[x].remove /\ sets
             /\ \A x, y \in Added : x = y
             /\ sets => Added # {}
<1> DEFINE t == Timeout(s, j)
           c == <<a, j>>
<1>1. CASE j = 0  BY <1>1 DEF Set
<1>2. CASE j # 0
  <2>1. j \in 1..Len(s.spec.acts) /\ j \in Nat  BY <1>2
  <2>2. t \in 0..(M - 1)  BY <2>1, TimeoutLemma
  <2>3. c \in Nat \X Nat  BY <2>1
  <2>4. Set(its, a, s, j) = setTimeout(its, c, t)  BY <1>2 DEF Set
  <2>5. NewItem(c, t).component = c /\ ~NewItem(c, t).remove  BY DEF NewItem
  <2> HIDE DEF t, c
  <2>6. CASE t = TIMER_DONT_RUN
    <3>1. setTimeout(its, c, t) = its  BY <2>2, <2>3, <2>6, SetTimeoutLemma
    <3>. QED  BY <2>4, <2>6, <3>1 DEF t
  <2>7. CASE t # TIMER_DONT_RUN
    <3> DEFINE after == setTimeout(its, c, t)
    <3>1. /\ Table(after) /\ Marked(after) = Marked(its)
          /\ DOMAIN its \subseteq DOMAIN after
          /\ \A x \in DOMAIN its : after[x] = its[x]
          /\ DOMAIN after = DOMAIN its \cup {Free(its)} /\ after[Free(its)] = NewItem(c, t)
          /\ Free(its) \notin DOMAIN its
      BY <2>2, <2>3, <2>7, SetTimeoutLemma
    <3>2. DOMAIN after \ DOMAIN its = {Free(its)}  BY <3>1
    <3> HIDE DEF after
    <3>3. \A x \in DOMAIN after \ DOMAIN its : after[x].component = c /\ ~after[x].remove
      BY <3>1, <3>2, <2>5
    <3>4. after = Set(its, a, s, j)  BY <2>4 DEF after
    <3>. QED  BY <1>2, <2>7, <3>1, <3>2, <3>3, <3>4 DEF t, c
  <2>. QED  BY <2>6, <2>7
<1>. QED  BY <1>1, <1>2

\* A chain that is played changes the items of its automation only, and leaves
\* the one of the action it stopped at, if that set one.
LEMMA ChainLemma ==
  ASSUME smarts \in Seq(Smarts), NEW its, NEW its2, NEW a \in DOMAIN smarts,
         NEW s2 \in Smarts, NEW j \in Nat, Owned(its, smarts),
         s2.running = {j} \ {0},
         \A x \in Live(its2) : OwnerOf(its2, x) # a =>
            x \in Live(its) /\ its2[x].component = its[x].component,
         \A x \in Live(its) : OwnerOf(its, x) # a =>
            x \in Live(its2) /\ its2[x].component = its[x].component,
         \A x \in Live(its2) : OwnerOf(its2, x) = a => j # 0 /\ its2[x].component[2] = j,
         \A x, y \in Live(its2) : OwnerOf(its2, x) = a /\ OwnerOf(its2, y) = a => x = y,
         j # 0 => (s2.mute <=> \A x \in Live(its2) : OwnerOf(its2, x) # a)
  PROVE  Owned(its2, [smarts EXCEPT ![a] = s2])
<1> DEFINE sm == [smarts EXCEPT ![a] = s2]
<1>1. DOMAIN sm = DOMAIN smarts /\ sm[a] = s2 /\ \A b \in DOMAIN smarts : b # a => sm[b] = smarts[b]
  OBVIOUS
<1> HIDE DEF sm
<1>2. ASSUME NEW x \in Live(its2)
      PROVE  OwnerOf(its2, x) \in DOMAIN sm /\ its2[x].component[2] \in sm[OwnerOf(its2, x)].running
  <2>1. CASE OwnerOf(its2, x) = a  BY <1>1, <2>1
  <2>2. CASE OwnerOf(its2, x) # a
    <3>1. x \in Live(its) /\ its2[x].component = its[x].component  BY <2>2
    <3>2. OwnerOf(its, x) \in DOMAIN smarts /\ its[x].component[2] \in smarts[OwnerOf(its, x)].running
      BY <3>1 DEF Owned
    <3>3. OwnerOf(its2, x) = OwnerOf(its, x)  BY <3>1 DEF OwnerOf
    <3>. QED  BY <1>1, <2>2, <3>1, <3>2, <3>3
  <2>. QED  BY <2>1, <2>2
<1>3. ASSUME NEW x \in Live(its2), NEW y \in Live(its2), OwnerOf(its2, x) = OwnerOf(its2, y)
      PROVE  x = y
  <2>1. CASE OwnerOf(its2, x) = a  BY <1>3, <2>1
  <2>2. CASE OwnerOf(its2, x) # a
    <3>1. /\ x \in Live(its) /\ its2[x].component = its[x].component
          /\ y \in Live(its) /\ its2[y].component = its[y].component
      BY <1>3, <2>2
    <3>2. OwnerOf(its, x) = OwnerOf(its, y)  BY <1>3, <3>1 DEF OwnerOf
    <3>. QED  BY <3>1, <3>2 DEF Owned
  <2>. QED  BY <2>1, <2>2
<1>4. ASSUME NEW b \in DOMAIN sm, isRunning(sm[b])
      PROVE  sm[b].mute <=> \A x \in Live(its2) : OwnerOf(its2, x) # b
  <2>1. CASE b = a
    <3>1. j # 0  BY <1>1, <1>4, <2>1 DEF isRunning
    <3>. QED  BY <1>1, <2>1, <3>1
  <2>2. CASE b # a
    <3>1. sm[b] = smarts[b] /\ b \in DOMAIN smarts  BY <1>1, <2>2
    <3>2. smarts[b].mute <=> \A x \in Live(its) : OwnerOf(its, x) # b
      BY <1>4, <3>1 DEF Owned
    <3>3. ASSUME NEW x \in Live(its), OwnerOf(its, x) = b
          PROVE  x \in Live(its2) /\ OwnerOf(its2, x) = b
      BY <2>2, <3>3 DEF OwnerOf
    <3>4. ASSUME NEW x \in Live(its2), OwnerOf(its2, x) = b
          PROVE  x \in Live(its) /\ OwnerOf(its, x) = b
      BY <2>2, <3>4 DEF OwnerOf
    <3>. QED  BY <3>1, <3>2, <3>3, <3>4
  <2>. QED  BY <2>1, <2>2
<1>. QED  BY <1>2, <1>3, <1>4 DEF Owned, sm

\* Owned depends on the live items' components and on what the automations
\* run only.
LEMMA SameLemma ==
  ASSUME NEW its, NEW its2, NEW sm, NEW sm2, Owned(its, sm),
         Live(its2) = Live(its), \A x \in Live(its) : its2[x].component = its[x].component,
         DOMAIN sm2 = DOMAIN sm,
         \A a \in DOMAIN sm : sm2[a].running = sm[a].running /\ sm2[a].mute = sm[a].mute
  PROVE  Owned(its2, sm2)
<1>1. \A x \in Live(its) : OwnerOf(its2, x) = OwnerOf(its, x)  BY DEF OwnerOf
<1>2. \A a \in DOMAIN sm : isRunning(sm2[a]) = isRunning(sm[a])  BY DEF isRunning
<1>3. \A x \in Live(its2) :
        OwnerOf(its2, x) \in DOMAIN sm2 /\ its2[x].component[2] \in sm2[OwnerOf(its2, x)].running
  BY <1>1 DEF Owned
<1>4. \A x, y \in Live(its2) : OwnerOf(its2, x) = OwnerOf(its2, y) => x = y
  BY <1>1 DEF Owned
<1>5. \A a \in DOMAIN sm2 : isRunning(sm2[a]) =>
        (sm2[a].mute <=> \A x \in Live(its2) : OwnerOf(its2, x) # a)
  BY <1>1, <1>2 DEF Owned
<1>. QED  BY <1>3, <1>4, <1>5 DEF Owned

-----------------------------------------------------------------------------
(* The steps.                                                              *)

LEMMA InitLemma ==
  Init => IInv
<1> SUFFICES ASSUME Init PROVE IInv  OBVIOUS
<1> USE TimerAssumption, SmartAssumption
<1>1. DOMAIN items = {} /\ smarts = <<>>  BY DEF Init
<1>2. Table(items)  BY <1>1, FS_EmptySet DEF Table, Init
<1>3. StateOK  BY <1>2 DEF StateOK, Init
<1>4. Live(items) = {} /\ Marked(items) = {}  BY <1>1 DEF Live, Marked, Heap
<1>5. Counted  BY <1>4, FS_EmptySet DEF Counted, Init
<1>6. Owned(items, smarts)  BY <1>1, <1>4 DEF Owned
<1>. QED  BY <1>3, <1>5, <1>6 DEF IInv

LEMMA RunTimersLemma ==
  ASSUME IInv, RunTimers
  PROVE  IInv'
<1> DEFINE its == processToAdd(items)
<1>0. Table(items) /\ StateOK  BY DEF IInv, StateOK
<1>1. /\ Table(its) /\ DOMAIN its \subseteq DOMAIN items
      /\ \A x \in DOMAIN its : its[x].component = items[x].component
      /\ Live(its) = Live(items) /\ Marked(its) = Marked(items)
  BY <1>0, ProcessToAddLemma
<1> HIDE DEF its
<1>2. Live(its) \in SUBSET DOMAIN its  BY DEF Live
<1>3. /\ Table(items') /\ Live(items') = Live(items)
      /\ \A x \in Live(items) : items'[x].component = items[x].component
      /\ toRemove' \in Nat /\ toRemove' = Cardinality(Marked(items'))
  <2>1. CASE toRemove > MAX_DELETED
    <3>1. items' = Only(its, Live(its)) /\ toRemove' = 0
      BY <2>1 DEF RunTimers, runBegin, its
    <3>2. /\ Table(items') /\ Live(items') = Live(its) \cap Live(its)
          /\ \A x \in Live(its) : items'[x] = its[x]
          /\ Marked(items') = Marked(its) \cap Live(its)
      BY <1>1, <1>2, <3>1, OnlyLemma, Zenon
    <3>3. Marked(its) \cap Live(its) = {}  BY DEF Marked, Live
    <3>. QED  BY <1>1, <1>2, <3>1, <3>2, <3>3, FS_EmptySet
  <2>2. CASE ~(toRemove > MAX_DELETED)
    <3>1. items' = its /\ toRemove' = toRemove
      BY <2>2 DEF RunTimers, runBegin, its
    <3>. QED  BY <1>0, <1>1, <1>2, <3>1 DEF IInv, Counted, StateOK
  <2>. QED  BY <2>1, <2>2
<1>4. StateOK'  BY <1>0, <1>3, SmartAssumption DEF RunTimers, StateOK, Table
<1>5. Owned(items', smarts')
  BY <1>3, SameLemma DEF RunTimers, IInv
<1>. QED  BY <1>3, <1>4, <1>5 DEF IInv, Counted

LEMMA CleanupLemma ==
  ASSUME IInv, Cleanup
  PROVE  IInv'
<1>0. Table(items) /\ StateOK  BY DEF IInv, StateOK
<1> PICK x \in Heap(items) : cleanup(x)  BY DEF Cleanup
<1>1. x \in Marked(items) /\ x \notin Live(items) /\ x \in DOMAIN items
  BY DEF cleanup, Marked, Live, Heap
<1>2. items' = Only(items, DOMAIN items \ {x}) /\ toRemove' = toRemove - 1  BY DEF cleanup
<1>3. /\ Table(items') /\ Live(items') = Live(items) \cap (DOMAIN items \ {x})
      /\ Marked(items') = Marked(items) \cap (DOMAIN items \ {x})
      /\ \A y \in DOMAIN items \ {x} : items'[y] = items[y]
  BY <1>0, <1>2, OnlyLemma
<1>4. Live(items) \subseteq DOMAIN items /\ Marked(items) \subseteq DOMAIN items
  BY DEF Live, Marked, Heap
<1>5. Live(items') = Live(items) /\ Marked(items') = Marked(items) \ {x}
  BY <1>1, <1>3, <1>4
<1>6. Cardinality(Marked(items')) = Cardinality(Marked(items)) - 1
  BY <1>0, <1>1, <1>5, MarkedLemma, FS_RemoveElement
<1>7. toRemove' = Cardinality(Marked(items')) /\ toRemove' \in Nat
  <2>1. toRemove = Cardinality(Marked(items))  BY DEF IInv, Counted
  <2>2. toRemove' = Cardinality(Marked(items'))  BY <1>2, <1>6, <2>1
  <2>. QED  BY <1>3, <2>2, MarkedLemma
<1>8. StateOK'  BY <1>0, <1>3, <1>7 DEF Cleanup, StateOK, Table
<1>9. Owned(items', smarts')
  BY <1>1, <1>3, <1>4, <1>5, SameLemma DEF Cleanup, IInv
<1>. QED  BY <1>7, <1>8, <1>9 DEF IInv, Counted

LEMMA EndTimersLemma ==
  ASSUME IInv, EndTimers
  PROVE  IInv'
<1>0. Table(items) /\ StateOK  BY DEF IInv, StateOK
<1>1. items' = processToAdd(items) /\ toRemove' = toRemove /\ smarts' = smarts  BY DEF EndTimers
<1>2. /\ Table(items') /\ DOMAIN items' \subseteq DOMAIN items
      /\ \A x \in DOMAIN items' : items'[x].component = items[x].component
      /\ Live(items') = Live(items) /\ Marked(items') = Marked(items)
  BY <1>0, <1>1, ProcessToAddLemma
<1>3. \A x \in Live(items) : x \in DOMAIN items'  BY <1>2 DEF Live
<1>4. smarts # <<>> => 1 \in 1..Len(smarts)  BY <1>0 DEF StateOK
<1>5. StateOK'
  BY <1>0, <1>2, <1>4, TimerAssumption DEF EndTimers, StateOK, Table
<1>6. Owned(items', smarts')  BY <1>1, <1>2, <1>3, SameLemma DEF IInv
<1>. QED  BY <1>1, <1>2, <1>5, <1>6 DEF IInv, Counted

LEMMA TickLemma ==
  ASSUME IInv, Tick
  PROVE  IInv'
<1> USE TimerAssumption, SmartAssumption
<1>0. Table(items) /\ StateOK  BY DEF IInv, StateOK
<1>1. items' = [x \in DOMAIN items |-> [items[x] EXCEPT !.age = IF @ = M THEN M ELSE @ + 1]]
  BY DEF Tick, Later
<1>2. ASSUME NEW x \in DOMAIN items
      PROVE  /\ items'[x] \in Item /\ items'[x].component = items[x].component
             /\ items'[x].remove = items[x].remove /\ items'[x].new = items[x].new
  <2>1. items[x] \in Item  BY <1>0 DEF Table
  <2> DEFINE age == IF items[x].age = M THEN M ELSE items[x].age + 1
  <2>2. items'[x] = [items[x] EXCEPT !.age = age]  BY <1>1
  <2>3. age \in 0..M  BY <2>1 DEF Item
  <2> HIDE DEF age
  <2>. QED  BY <2>1, <2>2, <2>3 DEF Item
<1>3. DOMAIN items' = DOMAIN items  BY <1>1
<1>4. Table(items')
  <2>1. items' = [x \in DOMAIN items' |-> items'[x]]  BY <1>1, <1>3
  <2>. QED  BY <1>0, <1>2, <1>3, <2>1 DEF Table
<1>5. Live(items') = Live(items) /\ Marked(items') = Marked(items)
  BY <1>2, <1>3 DEF Live, Marked, Heap
<1>6. (now + 1) % M \in 0..(M - 1)
  <2>1. now + 1 \in Int  BY <1>0 DEF StateOK
  <2>. QED  BY <2>1, Remainder
<1>7. lag' \in 0..Lag  BY <1>0 DEF Tick, StateOK
<1>8. StateOK'  BY <1>0, <1>4, <1>6, <1>7 DEF Tick, StateOK, Table
<1>9. Owned(items', smarts')
  <2>1. \A x \in Live(items) : items'[x].component = items[x].component  BY <1>2 DEF Live
  <2>. QED  BY <1>5, <2>1, SameLemma DEF Tick, IInv
<1>. QED  BY <1>5, <1>8, <1>9 DEF IInv, Counted, Tick

\* Automation a, with nothing of its chain running, which s is, plays it up to
\* action j and becomes s2; X are the items it had.
CanPlay(a, s, j, s2, X) ==
    /\ a \in DOMAIN smarts /\ s \in Smarts /\ j \in 0..Len(s.spec.acts)
    /\ s2 \in Smarts /\ s2.running = {j} \ {0}
    /\ s2.mute <=> (j # 0 /\ Timeout(s, j) = TIMER_DONT_RUN)
    /\ X \subseteq DOMAIN items /\ X \cap Marked(items) = {}
    /\ \A y \in Live(items) : OwnerOf(items, y) = a <=> y \in X

\* What is left of the table when X is taken out of it.
PlayedTable(a, s, j, X) == Only(Set(items, a, s, j), DOMAIN Set(items, a, s, j) \ X)

\* Automation a plays its chain once the items it had are taken out.
LEMMA PlayLemma ==
  ASSUME StateOK, Owned(items, smarts), NEW a, NEW s, NEW j, NEW s2, NEW X,
         CanPlay(a, s, j, s2, X), NEW its2, its2 = PlayedTable(a, s, j, X)
  PROVE  /\ Table(its2) /\ Marked(its2) = Marked(items)
         /\ Owned(its2, [smarts EXCEPT ![a] = s2])
<1> /\ a \in DOMAIN smarts /\ s \in Smarts /\ j \in 0..Len(s.spec.acts)
    /\ s2 \in Smarts /\ s2.running = {j} \ {0}
    /\ X \in SUBSET DOMAIN items /\ X \cap Marked(items) = {}
  BY DEF CanPlay
<1>m. s2.mute <=> (j # 0 /\ Timeout(s, j) = TIMER_DONT_RUN)  BY DEF CanPlay
<1>x. \A y \in Live(items) : OwnerOf(items, y) = a <=> y \in X  BY DEF CanPlay
<1> DEFINE after == Set(items, a, s, j)
           Added == DOMAIN after \ DOMAIN items
           sets  == j # 0 /\ Timeout(s, j) # TIMER_DONT_RUN
           c     == <<a, j>>
<1>1. /\ Table(items) /\ now \in 0..(M - 1) /\ smarts \in Seq(Smarts) /\ a \in Nat
      /\ j \in Nat
  BY DEF StateOK
<1>2. /\ Table(after) /\ Marked(after) = Marked(items)
      /\ DOMAIN items \subseteq DOMAIN after
      /\ \A x \in DOMAIN items : after[x] = items[x]
      /\ \A x \in Added : after[x].component = c /\ ~after[x].remove /\ sets
      /\ \A x, y \in Added : x = y
      /\ sets => Added # {}
  BY <1>1, SetLemma
<1>0. c[1] = a /\ c[2] = j  OBVIOUS
<1> HIDE DEF after, c
<1>3. /\ Table(its2) /\ DOMAIN its2 = DOMAIN after \ X
      /\ \A y \in DOMAIN after \ X : its2[y] = after[y]
      /\ Live(its2) = Live(after) \cap (DOMAIN after \ X)
      /\ Marked(its2) = Marked(after) \cap (DOMAIN after \ X)
  <2>1. DOMAIN after \ X \in SUBSET DOMAIN after /\ its2 = Only(after, DOMAIN after \ X)
    BY DEF after, PlayedTable
  <2> DEFINE S == DOMAIN after \ X
  <2> HIDE DEF S
  <2>2. S \in SUBSET DOMAIN after /\ its2 = Only(after, S)  BY <2>1 DEF S
  <2>3. /\ Table(its2) /\ DOMAIN its2 = S /\ \A y \in S : its2[y] = after[y]
        /\ Live(its2) = Live(after) \cap S /\ Marked(its2) = Marked(after) \cap S
    <3>1. /\ Table(Only(after, S)) /\ DOMAIN Only(after, S) = S
          /\ \A y \in S : Only(after, S)[y] = after[y]
          /\ Live(Only(after, S)) = Live(after) \cap S
          /\ Marked(Only(after, S)) = Marked(after) \cap S
      BY <1>2, <2>2, OnlyLemma
    <3>. QED  BY <2>2, <3>1
  <2>. QED  BY <2>3 DEF S
<1>4. Marked(its2) = Marked(items)
  <2>1. Marked(items) \subseteq DOMAIN items  BY DEF Marked, Heap
  <2>. QED  BY <1>2, <1>3, <2>1
<1>5. \A y \in Live(its2) : y \in DOMAIN after /\ y \notin X /\ ~after[y].remove /\ its2[y] = after[y]
  BY <1>3 DEF Live
<1>6. ASSUME NEW y \in Live(its2), y \in DOMAIN items
      PROVE  /\ y \in Live(items) /\ its2[y].component = items[y].component
             /\ OwnerOf(its2, y) # a
  <2>1. its2[y] = items[y] /\ ~items[y].remove  BY <1>2, <1>5, <1>6
  <2>2. y \in Live(items)  BY <1>6, <2>1 DEF Live
  <2>. QED  BY <1>5, <1>x, <2>1, <2>2 DEF OwnerOf
<1>7. ASSUME NEW y \in Live(its2), y \notin DOMAIN items
      PROVE  y \in Added /\ OwnerOf(its2, y) = a /\ its2[y].component[2] = j /\ sets
  <2>1. y \in Added  BY <1>5, <1>7
  <2>2. its2[y].component = c /\ sets  BY <1>2, <1>5, <2>1
  <2>. QED  BY <1>0, <2>1, <2>2, Zenon DEF OwnerOf
<1>8. ASSUME NEW y \in Live(items), OwnerOf(items, y) # a
      PROVE  y \in Live(its2) /\ its2[y].component = items[y].component
  <2>1. y \in DOMAIN items /\ ~items[y].remove /\ y \notin X  BY <1>x, <1>8 DEF Live
  <2>2. y \in DOMAIN its2 /\ its2[y] = items[y]  BY <1>2, <1>3, <2>1
  <2>. QED  BY <2>1, <2>2 DEF Live
<1>9. ASSUME NEW y \in Added
      PROVE  y \in Live(its2) /\ OwnerOf(its2, y) = a
  <2>1. y \notin X /\ y \in DOMAIN its2 /\ its2[y] = after[y]  BY <1>3
  <2>2. ~its2[y].remove /\ its2[y].component = c  BY <1>2, <2>1
  <2>3. y \in Live(its2)  BY <2>1, <2>2 DEF Live
  <2>. QED  BY <1>0, <2>2, <2>3, Zenon DEF OwnerOf
<1> HIDE DEF Added, sets
<1>10. j # 0 => (s2.mute <=> \A x \in Live(its2) : OwnerOf(its2, x) # a)
  <2>1. SUFFICES ASSUME j # 0 PROVE s2.mute <=> \A x \in Live(its2) : OwnerOf(its2, x) # a
    OBVIOUS
  <2>2. s2.mute <=> ~sets  BY <1>m, <2>1 DEF sets
  <2>3. ASSUME sets PROVE \E x \in Live(its2) : OwnerOf(its2, x) = a  BY <1>2, <1>9, <2>3
  <2>4. ASSUME NEW x \in Live(its2), OwnerOf(its2, x) = a PROVE sets  BY <1>6, <1>7, <2>4
  <2>. QED  BY <2>2, <2>3, <2>4
<1>11. \A y \in Live(its2) : OwnerOf(its2, y) = a => y \in Added /\ j # 0 /\ its2[y].component[2] = j
  BY <1>6, <1>7 DEF sets
<1>12. \A y, z \in Live(its2) : OwnerOf(its2, y) = a /\ OwnerOf(its2, z) = a => y = z
  BY <1>2, <1>11
<1>13. \A y \in Live(its2) : OwnerOf(its2, y) # a =>
          y \in Live(items) /\ its2[y].component = items[y].component
  BY <1>6, <1>7
<1>14. Owned(its2, [smarts EXCEPT ![a] = s2])
  BY <1>1, <1>8, <1>10, <1>11, <1>12, <1>13, ChainLemma
<1>. QED  BY <1>3, <1>4, <1>14

LEMMA FireLemma ==
  ASSUME IInv, NEW x \in DOMAIN items, Fire(x)
  PROVE  IInv'
<1> DEFINE a == items[x].component[1]
           i == items[x].component[2]
           s == [smarts[a] EXCEPT !.running = @ \ {i}]
<1>0. StateOK /\ Owned(items, smarts) /\ Table(items)  BY DEF IInv, StateOK
<1>1. x \in Live(items) /\ x \notin Marked(items)  BY DEF Fire, IsDue, Live, Marked
<1>2. a \in DOMAIN smarts /\ i \in smarts[a].running
  BY <1>0, <1>1 DEF Owned, OwnerOf
<1>3. smarts[a] \in Smarts /\ smarts \in Seq(Smarts)  BY <1>0, <1>2 DEF StateOK
<1>4. smarts[a].running = {i} /\ i \in Nat
  <2>1. smarts[a].running \in SUBSET Nat /\ \A m, n \in smarts[a].running : m = n
    BY <1>3 DEF Smarts, SmartRecord, Fits
  <2>. QED  BY <1>2, <2>1
<1> HIDE DEF a, i
<1>5. s \in Smarts /\ s.running = {}
  <2>1. smarts[a] \in SmartRecord /\ Fits(smarts[a])  BY <1>3 DEF Smarts
  <2>2. s = [smarts[a] EXCEPT !.running = {}]  BY <1>4
  <2>. QED  BY <2>1, <2>2 DEF Smarts, SmartRecord, Fits
<1> HIDE DEF s
<1>6. PICK j \in 0..Len(s.spec.acts) :
        /\ smarts' = [smarts EXCEPT ![a] = IF i \in @.running THEN Played(s, i + 1, j) ELSE @]
        /\ items' = Only(Set(items, a, s, j), DOMAIN Set(items, a, s, j) \ {x})
  BY DEF Fire, a, i, s
<1> DEFINE s2 == Played(s, i + 1, j)
<1>7. smarts' = [smarts EXCEPT ![a] = s2]  BY <1>2, <1>6
<1>8. s2 \in Smarts /\ s2.running = {j} \ {0} /\ (s2.mute <=> (j # 0 /\ Timeout(s, j) = TIMER_DONT_RUN))
  <2>1. i + 1 \in Nat /\ now \in 0..(M - 1)  BY <1>0, <1>4 DEF StateOK
  <2>. QED  BY <1>5, <2>1, PlayedLemma
<1> HIDE DEF s2
<1>9. CanPlay(a, s, j, s2, {x})
  <2>1. OwnerOf(items, x) = a  BY DEF OwnerOf, a
  <2>2. \A y \in Live(items) : OwnerOf(items, y) = a <=> y \in {x}
    BY <1>0, <1>1, <2>1 DEF Owned
  <2>3. {x} \subseteq DOMAIN items /\ {x} \cap Marked(items) = {}  BY <1>1
  <2>. QED  BY <1>2, <1>5, <1>8, <2>2, <2>3 DEF CanPlay
<1>10. /\ Table(items') /\ Marked(items') = Marked(items)
       /\ Owned(items', [smarts EXCEPT ![a] = s2])
  <2>1. items' = PlayedTable(a, s, j, {x})  BY <1>6 DEF PlayedTable
  <2>. QED  BY <1>0, <1>9, <2>1, PlayLemma
<1>11. StateOK'
  <2>1. smarts' \in Seq(Smarts) /\ Len(smarts') = Len(smarts)  BY <1>2, <1>3, <1>7, <1>8
  <2>. QED  BY <1>0, <1>10, <2>1 DEF Fire, StateOK, Table
<1>. QED  BY <1>7, <1>10, <1>11 DEF IInv, Counted, Fire

LEMMA RunSmartLemma ==
  ASSUME IInv, RunSmart
  PROVE  IInv'
<1> DEFINE s == Evaluate(smarts[k])
<1>0. StateOK /\ Owned(items, smarts) /\ Table(items)  BY DEF IInv, StateOK
<1>1. k \in 1..Len(smarts) /\ k \in DOMAIN smarts /\ smarts \in Seq(Smarts) /\ smarts[k] \in Smarts
  BY <1>0 DEF RunSmart, StateOK
<1>2. /\ s \in Smarts /\ s.running = smarts[k].running /\ s.mute = smarts[k].mute
  BY <1>1, EvaluateLemma
<1> HIDE DEF s
<1>3. /\ Table(items') /\ Marked(items') = Marked(items) /\ Owned(items', smarts')
      /\ smarts' \in Seq(Smarts) /\ Len(smarts') = Len(smarts)
  <2>1. CASE Check(smarts[k]) /\ smarts[k].last # "true" /\ ~isRunning(s)
    <3>1. PICK j \in 0..Len(s.spec.acts) :
            /\ smarts' = [smarts EXCEPT ![k] = [Played(s, 1, j) EXCEPT !.played = TRUE]]
            /\ items' = Set(items, k, s, j)
      BY <2>1 DEF RunSmart, s
    <3> DEFINE s2 == [Played(s, 1, j) EXCEPT !.played = TRUE]
    <3>2. s.running = {}  BY <2>1 DEF isRunning
    <3>3. /\ s2 \in Smarts /\ s2.running = {j} \ {0}
          /\ (s2.mute <=> (j # 0 /\ Timeout(s, j) = TIMER_DONT_RUN))
      <4>1. now \in 0..(M - 1)  BY <1>0 DEF StateOK
      <4>2. /\ Played(s, 1, j) \in Smarts /\ Played(s, 1, j).running = {j} \ {0}
            /\ (Played(s, 1, j).mute <=> (j # 0 /\ Timeout(s, j) = TIMER_DONT_RUN))
        BY <1>2, <3>2, <4>1, PlayedLemma
      <4> DEFINE p == Played(s, 1, j)
      <4> HIDE DEF p
      <4>3. p \in SmartRecord /\ Fits(p)  BY <4>2 DEF Smarts, p
      <4>4. s2 = [p EXCEPT !.played = TRUE]  BY DEF p
      <4>5. /\ [p EXCEPT !.played = TRUE] \in Smarts
            /\ [p EXCEPT !.played = TRUE].running = p.running
            /\ [p EXCEPT !.played = TRUE].mute = p.mute
        BY <4>3 DEF Smarts, SmartRecord, Fits
      <4>. QED  BY <4>2, <4>4, <4>5 DEF p
    <3> HIDE DEF s2
    <3>4. smarts' = [smarts EXCEPT ![k] = s2]  BY <3>1 DEF s2
    <3>5. CanPlay(k, s, j, s2, {})
      <4>1. \A y \in Live(items) : OwnerOf(items, y) # k
        BY <1>0, <1>2, <3>2 DEF Owned
      <4>. QED  BY <1>1, <1>2, <3>1, <3>3, <4>1 DEF CanPlay
    <3>6. items' = PlayedTable(k, s, j, {})
      <4>1. items' = [x \in DOMAIN items' |-> items'[x]]
        <5>1. \E S : items' \in [S -> Item]
          BY <1>0, <1>1, <1>2, <3>1, SetLemma DEF StateOK, Table
        <5>. QED  BY <5>1
      <4>. QED  BY <3>1, <4>1 DEF PlayedTable, Only
    <3>7. Table(items') /\ Marked(items') = Marked(items) /\ Owned(items', [smarts EXCEPT ![k] = s2])
      BY <1>0, <3>5, <3>6, PlayLemma
    <3>. QED  BY <1>1, <3>3, <3>4, <3>7
  <2>2. CASE ~(Check(smarts[k]) /\ smarts[k].last # "true" /\ ~isRunning(s))
    <3>1. smarts' = [smarts EXCEPT ![k] = s] /\ items' = items  BY <2>2 DEF RunSmart, s
    <3>2. smarts' \in Seq(Smarts) /\ Len(smarts') = Len(smarts)  BY <1>1, <1>2, <3>1
    <3>3. /\ DOMAIN smarts' = DOMAIN smarts
          /\ \A a \in DOMAIN smarts :
               smarts'[a].running = smarts[a].running /\ smarts'[a].mute = smarts[a].mute
      BY <1>1, <1>2, <3>1
    <3>4. Owned(items', smarts')  BY <1>0, <3>1, <3>3, SameLemma
    <3>. QED  BY <1>0, <3>1, <3>2, <3>4
  <2>. QED  BY <2>1, <2>2
<1>4. StateOK'
  BY <1>0, <1>1, <1>3 DEF RunSmart, StateOK, Table
<1>. QED  BY <1>3, <1>4 DEF IInv, Counted, RunSmart

\* A new automation has nothing running.
LEMMA NewSmartLemma ==
  ASSUME NEW spec \in Automations
  PROVE  NewSmart(spec) \in Smarts /\ NewSmart(spec).running = {}
<1> USE TimerAssumption
<1>1. spec.conds \in Seq(Conditions) /\ spec.acts \in Seq(Actions)  BY DEF Automations
<1> DEFINE no == [i \in DOMAIN spec.conds |-> FALSE]
           never == [i \in DOMAIN spec.acts |-> 0]
<1>2. no \in Seq(BOOLEAN) /\ Len(no) = Len(spec.conds)
  <2>1. DOMAIN spec.conds = 1..Len(spec.conds) /\ Len(spec.conds) \in Nat  BY <1>1
  <2>. QED  BY <2>1
<1>3. never \in Seq(Clock) /\ Len(never) = Len(spec.acts)
  <2>1. DOMAIN spec.acts = 1..Len(spec.acts) /\ Len(spec.acts) \in Nat  BY <1>1
  <2>2. 0 \in Clock  BY DEF Clock
  <2>. QED  BY <2>1, <2>2
<1> HIDE DEF no, never
<1>4. NewSmart(spec) = [spec |-> spec, held |-> no, reset |-> no, last |-> "none",
                        running |-> {}, lastAlert |-> never, mute |-> FALSE, played |-> FALSE]
  BY DEF NewSmart, no, never
<1>. QED  BY <1>2, <1>3, <1>4 DEF Smarts, SmartRecord, Fits

\* deleteAll() stops the action of every item that is not cancelled.
LEMMA ComponentLemma ==
  ASSUME StateOK, Owned(items, smarts), NEW x \in Live(items)
  PROVE  items[x].component \in Components
<1>1. x \in DOMAIN items /\ items[x] \in Item  BY DEF StateOK, Live, Table
<1>2. PICK a \in Nat, i \in Nat : items[x].component = <<a, i>>  BY <1>1 DEF Item
<1>3. a \in DOMAIN smarts /\ i \in smarts[a].running  BY <1>2 DEF Owned, OwnerOf
<1>4. smarts[a] \in Smarts  BY <1>3 DEF StateOK
<1>5. i \in DOMAIN smarts[a].spec.acts
  <2>1. i \in 1..Len(smarts[a].spec.acts)  BY <1>3, <1>4 DEF Smarts, Fits
  <2>2. smarts[a].spec.acts \in Seq(Actions)  BY <1>4 DEF Smarts, SmartRecord, Automations
  <2>. QED  BY <2>1, <2>2
<1>. QED  BY <1>2, <1>3, <1>5 DEF Components

LEMMA BeginLemma ==
  ASSUME IInv, NEW C \in Configurations, Begin(C)
  PROVE  IInv'
<1> USE SmartAssumption
<1> DEFINE G == Cancelled(items, Components)
<1>0. StateOK /\ Owned(items, smarts) /\ Table(items) /\ Counted  BY DEF IInv, StateOK
<1>1. /\ items' = [x \in DOMAIN items |->
                     [items[x] EXCEPT !.remove = @ \/ items[x].component \in Components]]
      /\ toRemove' = toRemove + Cardinality(G)
  BY DEF Begin, cancelAll
<1>2. ASSUME NEW x \in DOMAIN items
      PROVE  /\ items'[x] \in Item /\ items'[x].component = items[x].component
             /\ (items'[x].remove <=> items[x].remove \/ items[x].component \in Components)
             /\ items'[x].new = items[x].new
  <2>1. items[x] \in Item  BY <1>0 DEF Table
  <2>2. items'[x] = [items[x] EXCEPT !.remove = @ \/ items[x].component \in Components]  BY <1>1
  <2>. QED  BY <2>1, <2>2 DEF Item
<1>3. DOMAIN items' = DOMAIN items  BY <1>1
<1>4. Table(items')
  <2>1. items' = [x \in DOMAIN items' |-> items'[x]]  BY <1>1, <1>3
  <2>. QED  BY <1>0, <1>2, <1>3, <2>1 DEF Table
<1>5. \A x \in Live(items) : items[x].component \in Components  BY <1>0, ComponentLemma
<1>6. Live(items') = {}  BY <1>2, <1>3, <1>5 DEF Live
<1>7. Marked(items') = Marked(items) \cup G /\ Marked(items) \cap G = {}
  BY <1>2, <1>3 DEF Marked, Heap, Live, Cancelled
<1>8. IsFiniteSet(G) /\ Cardinality(G) \in Nat
  <2>1. G \in SUBSET DOMAIN items  BY DEF Cancelled, Heap
  <2>2. IsFiniteSet(G)  BY <1>0, <2>1, FS_Subset DEF Table
  <2>. QED  BY <2>2, FS_CardinalityType
<1> HIDE DEF G
<1>9. toRemove' = Cardinality(Marked(items')) /\ toRemove' \in Nat
  <2>1. IsFiniteSet(Marked(items)) /\ Cardinality(Marked(items)) \in Nat  BY <1>0, MarkedLemma
  <2>2. Cardinality(Marked(items) \cup G) = Cardinality(Marked(items)) + Cardinality(G)
    <3>1. Cardinality(Marked(items) \cap G) = 0  BY ONLY <1>7, FS_EmptySet, Zenon
    <3>2. Cardinality(Marked(items) \cup G)
            = Cardinality(Marked(items)) + Cardinality(G) - Cardinality(Marked(items) \cap G)
      BY <1>8, <2>1, FS_Union
    <3>. QED  BY <1>8, <2>1, <3>1, <3>2
  <2>3. toRemove = Cardinality(Marked(items))  BY <1>0 DEF Counted
  <2>4. toRemove' = Cardinality(Marked(items) \cup G)  BY <1>1, <2>2, <2>3
  <2>5. toRemove' \in Nat  BY <1>1, <1>8, <2>1, <2>3
  <2>. QED  BY <1>7, <2>4, <2>5
<1>10. C \in Seq(Automations) /\ smarts' = [a \in DOMAIN C |-> NewSmart(C[a])]  BY DEF Begin
<1>11. \A a \in DOMAIN C : smarts'[a] \in Smarts /\ smarts'[a].running = {}
  BY <1>10, NewSmartLemma
<1>12. smarts' \in Seq(Smarts)
  <2>1. DOMAIN C = 1..Len(C) /\ Len(C) \in Nat  BY <1>10
  <2>2. smarts' = [a \in 1..Len(C) |-> smarts'[a]]  BY <1>10, <2>1
  <2>. QED  BY <1>11, <2>1, <2>2, SequenceLemma
<1>13. StateOK'
  BY <1>0, <1>4, <1>9, <1>12 DEF Begin, StateOK, Table
<1>14. Owned(items', smarts')
  BY <1>6, <1>10, <1>11 DEF Owned, isRunning
<1>. QED  BY <1>9, <1>13, <1>14 DEF IInv, Counted

LEMMA UpdateValueLemma ==
  ASSUME IInv, NEW c \in ConfigIDs, NEW v \in Values, NEW trigger \in BOOLEAN,
         UpdateValue(c, v, trigger)
  PROVE  IInv'
<1> USE SmartAssumption
<1> DEFINE About(s) == {i \in DOMAIN s.spec.conds : s.spec.conds[i].config = c}
           held(s) == [i \in DOMAIN s.held |->
                         IF i \in About(s) THEN v \in s.spec.conds[i].met ELSE s.held[i]]
           reset(s) == [i \in DOMAIN s.reset |-> IF i \in About(s) THEN trigger ELSE s.reset[i]]
           played(s) == s.played /\ About(s) = {}
<1>0. StateOK /\ Owned(items, smarts) /\ Table(items) /\ smarts \in Seq(Smarts)
  BY DEF IInv, StateOK
<1>1. smarts' = [a \in DOMAIN smarts |->
         [smarts[a] EXCEPT !.held = held(smarts[a]), !.reset = reset(smarts[a]),
                           !.played = played(smarts[a])]]
  BY DEF UpdateValue
<1>2. ASSUME NEW a \in DOMAIN smarts
      PROVE  /\ smarts'[a] \in Smarts
             /\ smarts'[a].running = smarts[a].running /\ smarts'[a].mute = smarts[a].mute
  <2> DEFINE s == smarts[a]
             h == held(s)
             r == reset(s)
             p == played(s)
  <2>1. s \in SmartRecord /\ Fits(s)  BY <1>0 DEF Smarts
  <2>2. h \in Seq(BOOLEAN) /\ Len(h) = Len(s.held)
    <3>1. s.held \in Seq(BOOLEAN)  BY <2>1 DEF SmartRecord
    <3>2. DOMAIN s.held = 1..Len(s.held) /\ Len(s.held) \in Nat  BY <3>1
    <3>3. \A i \in 1..Len(s.held) : s.held[i] \in BOOLEAN  BY <3>1
    <3>4. ASSUME NEW i \in 1..Len(s.held) PROVE h[i] \in BOOLEAN
      <4>1. CASE i \in About(s)
        <5>1. h[i] = (v \in s.spec.conds[i].met)  BY <3>2, <4>1
        <5>2. \A b : (b \in BOOLEAN) <=> (b = TRUE \/ b = FALSE)  OBVIOUS
        <5>3. (v \in s.spec.conds[i].met) = TRUE \/ (v \in s.spec.conds[i].met) = FALSE
          OBVIOUS
        <5>. QED  BY ONLY <5>1, <5>2, <5>3, Zenon
      <4>2. CASE i \notin About(s)
        <5>1. h[i] = s.held[i]  BY <3>2, <4>2
        <5>. QED  BY <3>3, <5>1
      <4>. QED  BY <4>1, <4>2
    <3>5. h = [i \in 1..Len(s.held) |-> h[i]]  BY <3>2
    <3> HIDE DEF h
    <3>. QED  BY <3>2, <3>4, <3>5, SequenceLemma
  <2>3. r \in Seq(BOOLEAN) /\ Len(r) = Len(s.reset)
    <3>1. s.reset \in Seq(BOOLEAN)  BY <2>1 DEF SmartRecord
    <3>2. DOMAIN s.reset = 1..Len(s.reset) /\ Len(s.reset) \in Nat  BY <3>1
    <3>. QED  BY <3>1, <3>2
  <2>4. p \in BOOLEAN  OBVIOUS
  <2>5. smarts'[a] = [s EXCEPT !.held = h, !.reset = r, !.played = p]  BY <1>1
  <2> HIDE DEF s, h, r, p
  <2>6. /\ [s EXCEPT !.held = h, !.reset = r, !.played = p] \in Smarts
        /\ [s EXCEPT !.held = h, !.reset = r, !.played = p].running = s.running
        /\ [s EXCEPT !.held = h, !.reset = r, !.played = p].mute = s.mute
    BY <2>1, <2>2, <2>3, <2>4 DEF Smarts, SmartRecord, Fits
  <2>. QED  BY <2>5, <2>6 DEF s
<1>3. DOMAIN smarts' = DOMAIN smarts  BY <1>1
<1> HIDE DEF About, held, reset, played
<1>4. smarts' \in Seq(Smarts) /\ Len(smarts') = Len(smarts)
  <2>1. DOMAIN smarts = 1..Len(smarts) /\ Len(smarts) \in Nat  BY <1>0
  <2>2. smarts' = [a \in 1..Len(smarts) |-> smarts'[a]]  BY <1>1, <2>1
  <2>. QED  BY <1>2, <2>1, <2>2, SequenceLemma
<1>5. items' = items /\ toRemove' = toRemove  BY DEF UpdateValue, timerVars
<1>6. StateOK'
  <2>0. updates < MaxUpdates /\ updates' = updates + 1  BY DEF UpdateValue
  <2>1. updates' \in 0..MaxUpdates  BY <1>0, <2>0 DEF StateOK
  <2>2. /\ now' = now /\ at' = at /\ pc' = pc /\ k' = k /\ lag' = lag /\ ops' = ops
    BY DEF UpdateValue, timerVars
  <2>. QED  BY <1>0, <1>4, <1>5, <2>1, <2>2 DEF StateOK, Table
<1>7. Owned(items', smarts')  BY <1>0, <1>2, <1>3, <1>5, SameLemma
<1>. QED  BY <1>5, <1>6, <1>7 DEF IInv, Counted

LEMMA StepLemma ==
  ASSUME IInv, [Next]_vars
  PROVE  IInv'
<1>1. CASE RunTimers  BY <1>1, RunTimersLemma
<1>2. CASE Cleanup  BY <1>2, CleanupLemma
<1>3. ASSUME NEW x \in DOMAIN items, Fire(x) PROVE IInv'  BY <1>3, FireLemma
<1>4. CASE EndTimers  BY <1>4, EndTimersLemma
<1>5. CASE RunSmart  BY <1>5, RunSmartLemma
<1>6. CASE Tick  BY <1>6, TickLemma
<1>7. ASSUME NEW C \in Configurations, Begin(C) PROVE IInv'  BY <1>7, BeginLemma
<1>8. ASSUME NEW c \in ConfigIDs, NEW v \in Values, NEW trigger \in BOOLEAN,
             UpdateValue(c, v, trigger)
      PROVE  IInv'
  BY <1>8, UpdateValueLemma
<1>9. CASE UNCHANGED vars
  BY <1>9 DEF vars, timerVars, IInv, StateOK, Counted, Owned, Table, OwnerOf, Live, Marked, Heap
<1>. QED  BY <1>1, <1>2, <1>3, <1>4, <1>5, <1>6, <1>7, <1>8, <1>9 DEF Next, Main

-----------------------------------------------------------------------------
(* The theorems.                                                           *)

\* What holds of every state the program reaches.
THEOREM SmartInvariant == Spec => []IInv
<1>. QED  BY InitLemma, StepLemma, PTL DEF Spec

LEMMA TypeOKLemma ==
  IInv => TypeOK
<1> SUFFICES ASSUME IInv PROVE TypeOK  OBVIOUS
<1>0. StateOK  BY DEF IInv
<1>1. ASSUME NEW x \in DOMAIN items
      PROVE  /\ items[x].timeout \in 0..(M - 2) /\ items[x].next \in 0..(M - 1)
             /\ items[x].age \in 0..M /\ items[x].remove \in BOOLEAN /\ items[x].new \in BOOLEAN
  <2>1. items[x] \in Item  BY <1>0 DEF StateOK, Table
  <2>. QED  BY <2>1 DEF Item
<1>2. ASSUME NEW a \in DOMAIN smarts
      PROVE  /\ smarts[a].running \subseteq DOMAIN smarts[a].spec.acts
             /\ \A i \in DOMAIN smarts[a].spec.acts : smarts[a].lastAlert[i] \in 0..(M - 1)
             /\ \A i \in DOMAIN smarts[a].spec.conds :
                  smarts[a].held[i] \in BOOLEAN /\ smarts[a].reset[i] \in BOOLEAN
             /\ smarts[a].last \in {"none", "true", "false"}
  <2> DEFINE s == smarts[a]
  <2>1. s \in Smarts  BY <1>0 DEF StateOK
  <2> HIDE DEF s
  <2>2. s \in SmartRecord /\ Fits(s)  BY <2>1 DEF Smarts
  <2>3. s.spec.acts \in Seq(Actions) /\ s.spec.conds \in Seq(Conditions)
    BY <2>2 DEF SmartRecord, Automations
  <2>4. DOMAIN s.spec.acts = 1..Len(s.spec.acts) /\ DOMAIN s.spec.conds = 1..Len(s.spec.conds)
    BY <2>3
  <2>5. s.running \subseteq DOMAIN s.spec.acts  BY <2>2, <2>4 DEF Fits
  <2>6. \A i \in DOMAIN s.spec.acts : s.lastAlert[i] \in 0..(M - 1)
    BY <2>1, <2>4, ActionLemma
  <2>7. s.held \in Seq(BOOLEAN) /\ s.reset \in Seq(BOOLEAN) /\ s.last \in {"none", "true", "false"}
    BY <2>2 DEF SmartRecord
  <2>8. \A i \in DOMAIN s.spec.conds : s.held[i] \in BOOLEAN /\ s.reset[i] \in BOOLEAN
    BY <2>2, <2>4, <2>7 DEF Fits
  <2>. QED  BY <2>5, <2>6, <2>7, <2>8 DEF s
<1>3. k \in 1..(Len(smarts) + 1)
  <2>1. Len(smarts) \in Nat  BY <1>0 DEF StateOK
  <2>. QED  BY <1>0, <2>1 DEF StateOK
<1>. QED  BY <1>0, <1>1, <1>2, <1>3 DEF StateOK, TypeOK

\* The state of the automations and of their time-outs has its types: no sum
\* of times leaves uint32_t, and what is running is an action of the chain.
THEOREM SmartTypeOK == Spec => []TypeOK
<1>. QED  BY SmartInvariant, TypeOKLemma, PTL

LEMMA TimersOwnedLemma ==
  IInv => TimersOwned
<1> SUFFICES ASSUME IInv PROVE TimersOwned  OBVIOUS
<1>1. Counted /\ Owned(items, smarts)  BY DEF IInv
<1>2. \A x : Automation(x) = OwnerOf(items, x) /\ Action(x) = items[x].component[2]
  BY DEF Automation, Action, OwnerOf
<1>. QED  BY <1>1, <1>2 DEF Counted, Owned, TimersOwned

\* Whatever configurations and values arrive, and however the clock wraps, a
\* time-out that is not cancelled calls back an action that is running of an
\* automation that lives, an automation waits for at most one, and mToRemove
\* counts the cancelled ones.
THEOREM SmartTimersOwned == Spec => []TimersOwned
<1>. QED  BY SmartInvariant, TimersOwnedLemma, PTL

-----------------------------------------------------------------------------
(* The order of the time-outs.                                             *)

\* An item of a heap that is not empty comes before every other one.
LEMMA TopLemma ==
  ASSUME NEW its, Table(its), Heap(its) # {}
  PROVE  \E x \in Heap(its) : \A y \in Heap(its) : its[x].next <= its[y].next
<1> DEFINE S == DOMAIN its
           H == Heap(its)
           Upto(x) == {y \in H : its[y].next <= its[x].next}
           T == {Upto(x) : x \in H}
           R == StrictSubsetOrdering(S)
<1>1. IsFiniteSet(S) /\ H \subseteq S /\ \A x \in H : its[x].next \in Nat
  BY TimerAssumption DEF Table, Heap, Item
<1>2. IsWellFoundedOn(R, SUBSET S)
  <2>1. FiniteSubsetsOf(S) = SUBSET S  BY <1>1, FS_FiniteSubsetsOfFinite
  <2>. QED  BY <2>1, FS_StrictSubsetOrderingWellFounded
<1>3. T \subseteq SUBSET S /\ T # {}  BY <1>1
<1> HIDE DEF R
<1>4. \E D \in T : \A E \in T : ~(<<E, D>> \in R)
  <2> HIDE DEF T
  <2>. QED  BY <1>2, <1>3, WFMin
<1>5. PICK x \in H : \A y \in H : ~(<<Upto(y), Upto(x)>> \in R)  BY <1>4
<1>6. ASSUME NEW y \in H, its[y].next < its[x].next PROVE FALSE
  <2>1. Upto(y) \subseteq Upto(x) /\ x \notin Upto(y) /\ x \in Upto(x)  BY <1>1, <1>6
  <2>2. Upto(y) \in SUBSET S /\ Upto(x) \in SUBSET S  BY <1>1
  <2>3. Upto(y) # Upto(x)  BY <2>1
  <2> HIDE DEF Upto
  <2>4. <<Upto(y), Upto(x)>> \in R  BY <2>1, <2>2, <2>3 DEF R, StrictSubsetOrdering
  <2>. QED  BY <1>5, <2>4
<1>. QED  BY <1>1, <1>6

-----------------------------------------------------------------------------
(* Times on the clock.                                                     *)

\* A number no further than one round off the clock's range, on the clock.
LEMMA WrapLemma ==
  ASSUME NEW z \in Int, -M <= z, z < 2 * M
  PROVE  z % M = IF z < 0 THEN z + M ELSE IF z < M THEN z ELSE z - M
  BY TimerAssumption

Forgotten(r) == r.next >= M - Lag + (IF r.timeout = 0 THEN 0 ELSE 1)

\* Item r was set r.age ago; it waits at most b longer than asked for, unless
\* that is about the whole range of the clock.
Aged(r, n) == r.age < M => ((r.next - r.timeout) % M) + r.age \in {n, n + M}
Awaited(r, b) == ~Forgotten(r) /\ r.timeout + 2 * Lag < M => r.age <= b \/ r.age < r.timeout + b

\* ...at time n, with or without a run of the timers going on, which found it
\* in the heap when it began, l ago.
TimeOK(r, n, run, l) ==
    /\ Aged(r, n)
    /\ Awaited(r, IF run /\ ~r.new THEN Lag + l ELSE l)
    /\ run /\ ~r.new => r.age >= l

\* The second part of NotLate, for an item of an action of delay d.
Asked(r, d) == r.timeout <= d \/ (r.next - d) % M > (r.next - r.timeout) % M

LEMMA NewTimeLemma ==
  ASSUME NEW c \in Nat \X Nat, NEW t \in 0..(M - 2), now \in 0..(M - 1), NEW run \in BOOLEAN,
         NEW l \in 0..Lag
  PROVE  TimeOK(NewItem(c, t), now, run, l)
<1>0. M \in Nat /\ M > 1 /\ Lag \in Nat  BY TimerAssumption, SmartAssumption
<1> DEFINE r == NewItem(c, t)
<1>1. r.timeout = t /\ r.next = (now + t) % M /\ r.new /\ r.age = 0  BY DEF NewItem
<1> HIDE DEF r
<1>2. r.next = IF now + t < M THEN now + t ELSE (now + t) - M
  <2>1. now + t \in Int /\ -M <= now + t /\ now + t < 2 * M /\ ~(now + t < 0)  BY <1>0
  <2>2. (now + t) % M = IF now + t < M THEN now + t ELSE (now + t) - M
    BY ONLY <2>1, WrapLemma
  <2>. QED  BY <1>1, <2>2
<1>3. (r.next - r.timeout) % M = now  
  <2>1. -M <= r.next - r.timeout /\ r.next - r.timeout < 2 * M /\ r.next - r.timeout \in Int
    BY <1>0, <1>1, <1>2
  <2>2. (r.next - r.timeout) % M = IF r.next - r.timeout < 0 THEN (r.next - r.timeout) + M
                                   ELSE IF r.next - r.timeout < M THEN r.next - r.timeout
                                   ELSE (r.next - r.timeout) - M
    BY ONLY <2>1, WrapLemma
  <2>. QED  BY <1>0, <1>1, <1>2, <2>2
<1>4. Aged(r, now)  BY <1>0, <1>1, <1>3 DEF Aged
<1>. QED  BY <1>0, <1>1, <1>4 DEF TimeOK, Awaited, r

LEMMA TickTimeLemma ==
  ASSUME NEW r \in Item, NEW r2 \in Item, NEW n \in 0..(M - 1), NEW run \in BOOLEAN,
         NEW l \in 0..Lag, TimeOK(r, n, run, l), 2 * Lag < M,
         r2.timeout = r.timeout, r2.next = r.next, r2.new = r.new,
         r2.age = IF r.age = M THEN M ELSE r.age + 1
  PROVE  TimeOK(r2, (n + 1) % M, run, l + 1)
<1>0. M \in Nat /\ M > 1 /\ Lag \in Nat  BY TimerAssumption, SmartAssumption
<1>1. /\ r.timeout \in 0..(M - 2) /\ r.next \in 0..(M - 1) /\ r.age \in 0..M
      /\ r.new \in BOOLEAN
  BY DEF Item
<1> DEFINE start == (r.next - r.timeout) % M
<1>2. start \in 0..(M - 1)
  <2>1. r.next - r.timeout \in Int  BY <1>0, <1>1
  <2>. QED  BY <2>1, Remainder
<1>3. (n + 1) % M = IF n + 1 < M THEN n + 1 ELSE 0
  <2>1. n + 1 \in Int /\ -M <= n + 1 /\ n + 1 < 2 * M /\ ~(n + 1 < 0)  BY <1>0
  <2>2. (n + 1) % M = IF n + 1 < M THEN n + 1 ELSE (n + 1) - M  BY ONLY <2>1, WrapLemma
  <2>. QED  BY <1>0, <2>2
<1>4. r.age < M => start + r.age \in {n, n + M}  BY DEF TimeOK, Aged
<1> HIDE DEF start
<1> DEFINE n2 == (n + 1) % M
<1> HIDE DEF n2
<1>5. r2.age < M => start + r2.age \in {n2, n2 + M}
  <2>1. n2 = IF n + 1 < M THEN n + 1 ELSE 0  BY <1>3 DEF n2
  <2>2. r.age \in Int /\ r2.age \in Int /\ start \in Int  BY <1>0, <1>1, <1>2
  <2>. QED  BY <1>0, <1>1, <1>2, <1>4, <2>1, <2>2
<1>6. Aged(r2, (n + 1) % M)  BY <1>5 DEF Aged, start, n2
<1>7. run /\ ~r2.new => r2.age >= l + 1
  <2>1. SUFFICES ASSUME run, ~r2.new PROVE r2.age >= l + 1  OBVIOUS
  <2>2. r.age >= l  BY <2>1 DEF TimeOK
  <2>3. l + 1 <= M  BY <1>0
  <2>. QED  BY <1>0, <1>1, <2>2, <2>3
<1>8. Awaited(r2, IF run /\ ~r2.new THEN Lag + (l + 1) ELSE l + 1)
  <2> DEFINE b == IF run /\ ~r.new THEN Lag + l ELSE l
  <2>1. b \in Nat /\ (IF run /\ ~r2.new THEN Lag + (l + 1) ELSE l + 1) = b + 1  BY <1>0
  <2>2. Awaited(r, b)  BY DEF TimeOK
  <2> HIDE DEF b
  <2>3. Awaited(r2, b + 1)  BY <1>0, <1>1, <2>1, <2>2 DEF Awaited, Forgotten
  <2>. QED  BY <2>1, <2>3
<1>. QED  BY <1>6, <1>7, <1>8 DEF TimeOK

LEMMA RunTimeLemma ==
  ASSUME NEW r \in Item, NEW r2 \in Item, NEW n \in 0..(M - 1), NEW l \in 0..Lag,
         TimeOK(r, n, FALSE, l),
         r2.timeout = r.timeout, r2.next = r.next, r2.age = r.age, ~r2.new
  PROVE  TimeOK(r2, n, TRUE, 0)
<1>0. M \in Nat /\ M > 1 /\ Lag \in Nat  BY TimerAssumption, SmartAssumption
<1>1. /\ r.timeout \in 0..(M - 2) /\ r.next \in 0..(M - 1) /\ r.age \in 0..M
      /\ r2.new \in BOOLEAN
  BY DEF Item
<1>2. Aged(r2, n)  BY DEF TimeOK, Aged
<1>3. Awaited(r, l)  BY DEF TimeOK
<1>. QED  BY <1>0, <1>1, <1>2, <1>3 DEF TimeOK, Awaited, Forgotten

\* The run that began at time t ends: nothing in the heap is due.
LEMMA EndTimeLemma ==
  ASSUME NEW r \in Item, NEW r2 \in Item, NEW n \in 0..(M - 1), NEW l \in 0..Lag,
         NEW t \in 0..(M - 1), 2 * Lag < M => t + l \in {n, n + M},
         TimeOK(r, n, TRUE, l), r.new \/ r.next > t,
         r2.timeout = r.timeout, r2.next = r.next, r2.age = r.age
  PROVE  TimeOK(r2, n, FALSE, l)
<1>0. M \in Nat /\ M > 1 /\ Lag \in Nat  BY TimerAssumption, SmartAssumption
<1>1. /\ r.timeout \in 0..(M - 2) /\ r.next \in 0..(M - 1) /\ r.age \in 0..M
  BY DEF Item
<1>2. Aged(r2, n)  BY DEF TimeOK, Aged
<1>3. Awaited(r, l)
  <2>1. CASE r.new  BY <2>1 DEF TimeOK
  <2>2. CASE ~r.new
    <3>1. Awaited(r, Lag + l) /\ r.age >= l /\ Aged(r, n) /\ r.next > t  BY <2>2 DEF TimeOK
    <3>2. SUFFICES ASSUME ~Forgotten(r), r.timeout + 2 * Lag < M,
                          r.age > l, r.age >= r.timeout + l
                   PROVE  FALSE
      BY <1>0, <1>1 DEF Awaited
    <3> DEFINE x == r.next
               o == r.timeout
               g == r.age
               start == (x - o) % M
    <3>3. g <= Lag + l \/ g < o + (Lag + l)  BY <3>1, <3>2 DEF Awaited
    <3>4. x < M - Lag + (IF o = 0 THEN 0 ELSE 1)  BY <1>0, <1>1, <3>2 DEF Forgotten
    <3>5. g < M  BY <1>0, <1>1, <3>2, <3>3
    <3>6. start + g \in {n, n + M}  BY <3>1, <3>5 DEF Aged
    <3>7. start = IF x < o THEN (x - o) + M ELSE x - o
      <4>1. x - o \in Int /\ -M <= x - o /\ x - o < 2 * M /\ x - o < M  BY <1>0, <1>1
      <4>2. (x - o) % M = IF x - o < 0 THEN (x - o) + M ELSE IF x - o < M THEN x - o ELSE (x - o) - M
        BY ONLY <4>1, WrapLemma
      <4>. QED  BY <1>0, <1>1, <4>1, <4>2
    <3>8. t + l \in {n, n + M}  BY <1>0, <1>1, <3>2
    <3>9. /\ x \in 0..(M - 1) /\ o \in 0..(M - 2) /\ g \in 0..M /\ x > t
          /\ o + 2 * Lag < M /\ g > l /\ g >= o + l
      BY <1>1, <3>1, <3>2
    <3> HIDE DEF x, o, g, start
    <3>. QED  BY <1>0, <3>3, <3>4, <3>6, <3>7, <3>8, <3>9
  <2>. QED  BY <2>1, <2>2
<1>. QED  BY <1>2, <1>3 DEF TimeOK, Awaited, Forgotten

\* A time-out that is due was set as long ago as it asked for, unless its
\* deadline is beyond the wrap of the clock.
LEMMA DueTimeLemma ==
  ASSUME NEW r \in Item, NEW n \in 0..(M - 1), NEW l \in 0..Lag, NEW t \in 0..(M - 1),
         t + l \in {n, n + M}, TimeOK(r, n, TRUE, l), ~r.new, r.next <= t
  PROVE  r.age >= r.timeout \/ r.next < r.timeout
<1>0. M \in Nat /\ M > 1 /\ Lag \in Nat  BY TimerAssumption, SmartAssumption
<1>1. r.timeout \in 0..(M - 2) /\ r.next \in 0..(M - 1) /\ r.age \in 0..M
  BY DEF Item
<1>2. SUFFICES ASSUME r.age < r.timeout, r.next >= r.timeout PROVE FALSE  BY <1>0, <1>1
<1> DEFINE z == r.next - r.timeout
<1>3. z \in Int /\ -M <= z /\ z < 2 * M /\ z >= 0 /\ z < M  BY <1>0, <1>1, <1>2
<1>4. z % M = z
  <2> HIDE DEF z
  <2>1. z % M = IF z < 0 THEN z + M ELSE IF z < M THEN z ELSE z - M  BY ONLY <1>3, WrapLemma
  <2>. QED  BY <1>0, <1>3, <2>1
<1>5. r.age < M  BY <1>0, <1>1, <1>2
<1>6. z + r.age \in {n, n + M} /\ r.age >= l  BY <1>4, <1>5 DEF TimeOK, Aged
<1>. QED  BY <1>0, <1>1, <1>2, <1>3, <1>6

\* An action asks for no more than its delay, unless its last alert seems to
\* lie ahead.
LEMMA AskedLemma ==
  ASSUME NEW s \in Smarts, NEW j \in 1..Len(s.spec.acts), now \in 0..(M - 1), Waits(s, j), NEW c
  PROVE  Asked(NewItem(c, Timeout(s, j)), s.spec.acts[j].delay)
<1> DEFINE d == s.spec.acts[j].delay
           last == s.lastAlert[j]
           t == Timeout(s, j)
           r == NewItem(c, t)
<1>0. M \in Nat /\ M > 1  BY TimerAssumption
<1>1. d \in 0..(M - 2) /\ last \in 0..(M - 1)  BY ActionLemma
<1>2. t \in 0..(M - 1)  BY TimeoutLemma
<1>3. r.timeout = t /\ r.next = (now + t) % M  BY DEF NewItem
<1>4. CASE s.spec.acts[j].kind = "delay"
  <2>1. t = d  BY <1>4 DEF Timeout
  <2>. QED  BY <1>0, <1>1, <1>3, <2>1 DEF Asked
<1>5. CASE s.spec.acts[j].kind # "delay"
  <2>1. ~Sends(s, j) /\ t = (last + d - now) % M
    BY <1>5 DEF Waits, Timeout
  <2> DEFINE z == last + d - now
             e == (now - last) % M
  <2>2. d # 0 /\ (e \div d > 0 => ~(now > last))
    BY <2>1 DEF Sends, Amount, Elapsed
  <2>3. e = IF now < last THEN (now - last) + M ELSE now - last
    <3>1. now - last \in Int /\ -M <= now - last /\ now - last < M /\ now - last < 2 * M  BY <1>0, <1>1
    <3>2. (now - last) % M = IF now - last < 0 THEN (now - last) + M
                             ELSE IF now - last < M THEN now - last ELSE (now - last) - M
      BY ONLY <3>1, WrapLemma
    <3>. QED  BY <1>0, <1>1, <3>1, <3>2
  <2>4. z \in Int /\ -M <= z /\ z < 2 * M
    <3> HIDE DEF d, last
    <3>. QED  BY <1>0, <1>1
  <2>5. t = IF z < 0 THEN z + M ELSE IF z < M THEN z ELSE z - M
    <3> HIDE DEF z
    <3>1. z % M = IF z < 0 THEN z + M ELSE IF z < M THEN z ELSE z - M
      BY ONLY <2>4, WrapLemma
    <3>. QED  BY <2>1, <3>1 DEF z
  <2> HIDE DEF t, r, e
  <2>6. CASE now = last
    <3>1. t = d
      <4>1. z = d
        <5> HIDE DEF d, last
        <5>. QED  BY <1>0, <1>1, <2>6
      <4> HIDE DEF z
      <4>. QED  BY <1>0, <1>1, <2>5, <4>1
    <3>. QED  BY <1>0, <1>1, <1>3, <3>1 DEF Asked, t, r
  <2>7. CASE now > last
    <3>1. ~(e \div d > 0)  BY <2>2, <2>7
    <3>2. e \in Nat /\ d \in Nat \ {0}  BY <1>0, <1>1, <2>2, <2>3, <2>7
    <3> HIDE DEF d
    <3>3. e < d
      <4>1. \A a \in Nat, b \in Nat \ {0} : a \div b > 0 \/ a < b  OBVIOUS
      <4>. QED  BY <3>1, <3>2, <4>1
    <3>4. t <= d  BY <1>0, <1>1, <2>3, <2>5, <2>7, <3>2, <3>3
    <3>. QED  BY <1>3, <3>4 DEF Asked, t, r, d
  <2>8. CASE now < last
    <3> DEFINE x == r.next
    <3>1. x = IF now + t < M THEN now + t ELSE (now + t) - M
      <4>1. now + t \in Int /\ -M <= now + t /\ now + t < 2 * M /\ ~(now + t < 0)  BY <1>0, <1>2 DEF t
      <4>2. (now + t) % M = IF now + t < M THEN now + t ELSE (now + t) - M
        BY ONLY <4>1, WrapLemma
      <4>. QED  BY <1>3, <4>2 DEF t, r
    <3>2. t \in 0..(M - 1)  BY <1>2 DEF t
    <3> HIDE DEF x, d, last, z
    <3>9. z = last + d - now  BY DEF z
    <3>3. (x - t) % M = now
      <4>1. x - t \in Int /\ -M <= x - t /\ x - t < 2 * M  BY <1>0, <3>1, <3>2
      <4>2. (x - t) % M = IF x - t < 0 THEN (x - t) + M ELSE IF x - t < M THEN x - t ELSE (x - t) - M
        BY ONLY <4>1, WrapLemma
      <4>. QED  BY <1>0, <3>1, <3>2, <4>2
    <3>4. (x - d) % M = last
      <4>1. x - d \in Int /\ -M <= x - d /\ x - d < 2 * M  BY <1>0, <1>1, <3>1, <3>2
      <4>2. (x - d) % M = IF x - d < 0 THEN (x - d) + M ELSE IF x - d < M THEN x - d ELSE (x - d) - M
        BY ONLY <4>1, WrapLemma
      <4>. QED  BY <1>0, <1>1, <2>5, <3>1, <3>2, <3>9, <4>2
    <3>5. r.timeout = t  BY <1>3 DEF r, t
    <3>6. Asked(r, d)
      <4> HIDE DEF r
      <4>. QED  BY <1>0, <1>1, <2>8, <3>3, <3>4, <3>5 DEF Asked, x
    <3>. QED  BY <3>6 DEF r, t, d
  <2>. QED  BY <1>0, <1>1, <2>6, <2>7, <2>8
<1>. QED  BY <1>4, <1>5

-----------------------------------------------------------------------------
(* How long the time-outs have waited.                                     *)

\* The delay of the action of item r.
DelayOf(sm, r) == sm[r.component[1]].spec.acts[r.component[2]].delay

Timely(its, sm, n, run, l) ==
    \A x \in Live(its) : TimeOK(its[x], n, run, l) /\ Asked(its[x], DelayOf(sm, its[x]))

\* How long ago each time-out was set agrees with the clock, and how late it is
\* with how much of its round is over.
TimeInv ==
    /\ Timely(items, smarts, now, pc = "timer", lag)
    /\ 2 * Lag < M /\ pc = "timer" => at + lag \in {now, now + M}

\* No time-out is gone before its time.
Kept == \A x \in Live(items) : x \notin DOMAIN items' =>
            items[x].age >= items[x].timeout \/ Cut(x)

\* The clock is wide enough for the delays that are waited for.
LEMMA WideLemma ==
  ASSUME IInv, NEW x \in Live(items)
  PROVE  /\ items[x] \in Item /\ OwnerOf(items, x) \in DOMAIN smarts
         /\ 2 * Lag < M
<1> DEFINE a == items[x].component[1]
           i == items[x].component[2]
           s == smarts[a]
<1>0. StateOK /\ Owned(items, smarts) /\ Table(items)  BY DEF IInv, StateOK
<1>1. items[x] \in Item  BY <1>0 DEF Live, Table
<1>2. a \in DOMAIN smarts /\ i \in s.running  BY <1>0 DEF Owned, OwnerOf
<1>3. s \in Smarts  BY <1>0, <1>2 DEF StateOK
<1> HIDE DEF s, i
<1>4. s.spec.acts \in Seq(Actions) /\ i \in 1..Len(s.spec.acts)
  BY <1>2, <1>3 DEF Smarts, SmartRecord, Automations, Fits
<1>5. s.spec.acts[i] \in Actions  BY <1>4
<1>6. s.spec.acts[i].delay \in {d \in 0..(M - 2) : d + 2 * Lag < M}  BY <1>5 DEF Actions
<1>7. 2 * Lag < M  BY <1>6, TimerAssumption, SmartAssumption
<1>. QED  BY <1>1, <1>2, <1>7 DEF OwnerOf

\* A live item stays when the new ones enter the heap.
LEMMA AddedLemma ==
  ASSUME NEW its, Table(its), NEW x \in Live(its)
  PROVE  LET p == processToAdd(its)
         IN  /\ x \in DOMAIN p /\ p[x].component = its[x].component
             /\ p[x].timeout = its[x].timeout /\ p[x].next = its[x].next
             /\ p[x].age = its[x].age /\ ~p[x].new /\ ~p[x].remove
<1> DEFINE S == {y \in DOMAIN its : ~(its[y].new /\ its[y].remove)}
           p == processToAdd(its)
<1>1. p = [y \in S |-> [its[y] EXCEPT !.new = FALSE]]  BY DEF processToAdd
<1>2. x \in S /\ its[x] \in Item /\ ~its[x].remove  BY DEF Live, Table
<1>3. p[x] = [its[x] EXCEPT !.new = FALSE] /\ DOMAIN p = S  BY <1>1, <1>2
<1> HIDE DEF S, p
<1>4. /\ p[x].component = its[x].component /\ p[x].timeout = its[x].timeout
      /\ p[x].next = its[x].next /\ p[x].age = its[x].age /\ ~p[x].new /\ ~p[x].remove
  BY <1>2, <1>3 DEF Item
<1>. QED  BY <1>2, <1>3, <1>4 DEF p

\* Items that keep their times and actions while those keep their delays.
LEMMA StayLemma ==
  ASSUME NEW r, NEW r2, NEW sm, NEW sm2, r2.component = r.component,
         r2.timeout = r.timeout, r2.next = r.next,
         sm2[r.component[1]].spec = sm[r.component[1]].spec,
         Asked(r, DelayOf(sm, r))
  PROVE  Asked(r2, DelayOf(sm2, r2))
  BY DEF Asked, DelayOf

LEMMA RunTimersTime ==
  ASSUME IInv, TimeInv, RunTimers
  PROVE  TimeInv' /\ Kept
<1> DEFINE its == processToAdd(items)
<1>0. Table(items) /\ StateOK /\ IInv'  BY RunTimersLemma DEF IInv, StateOK
<1>1. /\ pc = "idle" /\ pc' = "timer" /\ at' = now /\ lag' = 0 /\ now' = now /\ smarts' = smarts
      /\ items' = Only(its, Live(its)) \/ items' = its
  BY DEF RunTimers, runBegin
<1>2. Live(its) = Live(items)  BY <1>0, ProcessToAddLemma
<1>3. ASSUME NEW x \in Live(items)
      PROVE  /\ x \in DOMAIN items' /\ items'[x].component = items[x].component
             /\ items'[x].timeout = items[x].timeout /\ items'[x].next = items[x].next
             /\ items'[x].age = items[x].age /\ ~items'[x].new
  <2>1. /\ x \in DOMAIN its /\ its[x].component = items[x].component
        /\ its[x].timeout = items[x].timeout /\ its[x].next = items[x].next
        /\ its[x].age = items[x].age /\ ~its[x].new
    BY <1>0, AddedLemma
  <2> HIDE DEF its
  <2>2. x \in DOMAIN items' /\ items'[x] = its[x]  BY <1>1, <1>2, <2>1 DEF Only
  <2>. QED  BY <2>1, <2>2
<1>4. ASSUME NEW x \in Live(items')
      PROVE  /\ TimeOK(items'[x], now', pc' = "timer", lag')
             /\ Asked(items'[x], DelayOf(smarts', items'[x]))
  <2>1. x \in Live(items)
    <3>1. Live(items') \subseteq Live(its)  BY <1>1 DEF Live, Only
    <3>. QED  BY <1>2, <3>1
  <2>2. items[x] \in Item /\ items'[x] \in Item
    BY <1>0, <2>1 DEF IInv, StateOK, Table, Live
  <2>3. TimeOK(items[x], now, FALSE, lag) /\ Asked(items[x], DelayOf(smarts, items[x]))
    <3>1. (pc = "timer") = FALSE  BY <1>1
    <3>. QED  BY <2>1, <3>1 DEF TimeInv, Timely
  <2>4. lag \in 0..Lag /\ now \in 0..(M - 1)  BY <1>0 DEF StateOK
  <2>5. TimeOK(items'[x], now, TRUE, 0)  BY <1>3, <2>1, <2>2, <2>3, <2>4, RunTimeLemma
  <2>6. Asked(items'[x], DelayOf(smarts', items'[x]))  BY <1>1, <1>3, <2>1, <2>3, StayLemma
  <2>7. (pc' = "timer") = TRUE  BY <1>1
  <2>. QED  BY <1>1, <2>5, <2>6, <2>7
<1>5. at' + lag' = now'  BY <1>0, <1>1, TimerAssumption DEF StateOK
<1>6. TimeInv'  BY <1>4, <1>5 DEF TimeInv, Timely
<1>7. Kept  BY <1>3 DEF Kept
<1>. QED  BY <1>6, <1>7

LEMMA EndTimersTime ==
  ASSUME IInv, TimeInv, EndTimers
  PROVE  TimeInv' /\ Kept
<1>0. Table(items) /\ StateOK /\ IInv'  BY EndTimersLemma DEF IInv, StateOK
<1>1. /\ pc = "timer" /\ pc' # "timer" /\ lag' = lag /\ now' = now /\ smarts' = smarts
      /\ items' = processToAdd(items) /\ NoneDue(at)
  BY DEF EndTimers
<1>2. Live(items') = Live(items)  BY <1>0, <1>1, ProcessToAddLemma
<1>3. ASSUME NEW x \in Live(items)
      PROVE  /\ x \in DOMAIN items' /\ items'[x].component = items[x].component
             /\ items'[x].timeout = items[x].timeout /\ items'[x].next = items[x].next
             /\ items'[x].age = items[x].age
  BY <1>0, <1>1, AddedLemma
<1>4. \A x \in Heap(items) : items[x].next > at
  <2>1. SUFFICES ASSUME NEW x \in Heap(items) PROVE items[x].next > at  OBVIOUS
  <2>2. PICK y \in Heap(items) : \A z \in Heap(items) : items[y].next <= items[z].next
    BY <1>0, TopLemma
  <2>3. items[y].next > at  BY <1>1, <2>2 DEF NoneDue, Top
  <2>4. items[y].next \in Nat /\ items[x].next \in Nat /\ at \in Nat
    <3>1. items[y] \in Item /\ items[x] \in Item  BY <1>0 DEF Table, Heap
    <3>2. at \in 0..(M - 1)  BY <1>0 DEF StateOK
    <3>. QED  BY <3>1, <3>2, TimerAssumption DEF Item
  <2>. QED  BY <2>2, <2>3, <2>4
<1>5. ASSUME NEW x \in Live(items')
      PROVE  /\ TimeOK(items'[x], now', pc' = "timer", lag')
             /\ Asked(items'[x], DelayOf(smarts', items'[x]))
  <2>1. x \in Live(items)  BY <1>2
  <2>2. items[x] \in Item /\ items'[x] \in Item
    BY <1>0, <2>1 DEF IInv, StateOK, Table, Live
  <2>3. TimeOK(items[x], now, TRUE, lag) /\ Asked(items[x], DelayOf(smarts, items[x]))
    <3>1. (pc = "timer") = TRUE  BY <1>1
    <3>. QED  BY <2>1, <3>1 DEF TimeInv, Timely
  <2>4. lag \in 0..Lag /\ now \in 0..(M - 1) /\ at \in 0..(M - 1)  BY <1>0 DEF StateOK
  <2>5. items[x].new \/ items[x].next > at  BY <1>4, <2>1 DEF Heap, Live
  <2>6. 2 * Lag < M => at + lag \in {now, now + M}  BY <1>1 DEF TimeInv
  <2>7. TimeOK(items'[x], now, FALSE, lag)
    BY <1>3, <2>1, <2>2, <2>3, <2>4, <2>5, <2>6, EndTimeLemma
  <2>8. Asked(items'[x], DelayOf(smarts', items'[x]))  BY <1>1, <1>3, <2>1, <2>3, StayLemma
  <2>9. (pc' = "timer") = FALSE  BY <1>1
  <2>. QED  BY <1>1, <2>7, <2>8, <2>9
<1>6. TimeInv'  BY <1>1, <1>5 DEF TimeInv, Timely
<1>7. Kept  BY <1>3 DEF Kept
<1>. QED  BY <1>6, <1>7

LEMMA CleanupTime ==
  ASSUME IInv, TimeInv, Cleanup
  PROVE  TimeInv' /\ Kept
<1>0. Table(items) /\ StateOK  BY DEF IInv, StateOK
<1> PICK x \in Heap(items) : cleanup(x)  BY DEF Cleanup
<1>1. /\ pc' = pc /\ at' = at /\ lag' = lag /\ now' = now /\ smarts' = smarts
      /\ items' = Only(items, DOMAIN items \ {x}) /\ items[x].remove
  BY DEF Cleanup, cleanup
<1>2. DOMAIN items' = DOMAIN items \ {x} /\ \A y \in DOMAIN items \ {x} : items'[y] = items[y]
  BY <1>1 DEF Only
<1>3. \A y \in Live(items') : y \in Live(items) /\ items'[y] = items[y]  BY <1>2 DEF Live
<1>4. TimeInv'  BY <1>1, <1>3 DEF TimeInv, Timely, DelayOf
<1>5. Kept  BY <1>1, <1>2 DEF Kept, Live
<1>. QED  BY <1>4, <1>5

LEMMA TickTime ==
  ASSUME IInv, TimeInv, Tick
  PROVE  TimeInv' /\ Kept
<1>0. Table(items) /\ StateOK /\ IInv'  BY TickLemma DEF IInv, StateOK
<1>m. M \in Nat /\ M > 1 /\ Lag \in Nat  BY TimerAssumption, SmartAssumption
<1>1. /\ pc' = pc /\ at' = at /\ lag' = lag + 1 /\ lag < Lag /\ now' = (now + 1) % M
      /\ smarts' = smarts
      /\ items' = [x \in DOMAIN items |-> [items[x] EXCEPT !.age = IF @ = M THEN M ELSE @ + 1]]
  BY DEF Tick, Later
<1>2. ASSUME NEW x \in DOMAIN items
      PROVE  /\ items'[x].component = items[x].component /\ items'[x].remove = items[x].remove
             /\ items'[x].timeout = items[x].timeout /\ items'[x].next = items[x].next
             /\ items'[x].age = (IF items[x].age = M THEN M ELSE items[x].age + 1)
             /\ items'[x].new = items[x].new
  <2>1. items[x] \in Item  BY <1>0 DEF Table
  <2>2. items'[x] = [items[x] EXCEPT !.age = IF @ = M THEN M ELSE @ + 1]  BY <1>1
  <2>. QED  BY <2>1, <2>2 DEF Item
<1>3. DOMAIN items' = DOMAIN items  BY <1>1
<1>4. Live(items') = Live(items)  BY <1>2, <1>3 DEF Live
<1>5. lag \in 0..Lag /\ now \in 0..(M - 1) /\ at \in 0..(M - 1) /\ (pc = "timer") \in BOOLEAN
  BY <1>0 DEF StateOK
<1>6. ASSUME NEW x \in Live(items')
      PROVE  /\ TimeOK(items'[x], now', pc' = "timer", lag')
             /\ Asked(items'[x], DelayOf(smarts', items'[x]))
  <2>1. x \in Live(items) /\ x \in DOMAIN items  BY <1>4 DEF Live
  <2>2. items[x] \in Item /\ items'[x] \in Item /\ 2 * Lag < M
    BY <1>0, <1>3, <2>1, WideLemma DEF IInv, StateOK, Table
  <2>3. TimeOK(items[x], now, pc = "timer", lag) /\ Asked(items[x], DelayOf(smarts, items[x]))
    BY <2>1 DEF TimeInv, Timely
  <2>4. TimeOK(items'[x], (now + 1) % M, pc = "timer", lag + 1)
    BY <1>2, <1>5, <2>1, <2>2, <2>3, TickTimeLemma
  <2>5. Asked(items'[x], DelayOf(smarts', items'[x]))  BY <1>1, <1>2, <2>1, <2>3, StayLemma
  <2>. QED  BY <1>1, <2>4, <2>5
<1>7. 2 * Lag < M /\ pc' = "timer" => at' + lag' \in {now', now' + M}
  <2>1. SUFFICES ASSUME 2 * Lag < M, pc = "timer" PROVE at' + lag' \in {now', now' + M}
    BY <1>1
  <2>2. at + lag \in {now, now + M}  BY <2>1 DEF TimeInv
  <2>3. now' = IF now + 1 < M THEN now + 1 ELSE 0
    <3>1. now + 1 \in Int /\ -M <= now + 1 /\ now + 1 < 2 * M /\ ~(now + 1 < 0)  BY <1>m, <1>5
    <3>2. (now + 1) % M = IF now + 1 < M THEN now + 1 ELSE (now + 1) - M
      BY ONLY <3>1, WrapLemma
    <3>. QED  BY <1>m, <1>1, <1>5, <3>2
  <2>4. at' = at /\ lag' = lag + 1 /\ lag < Lag  BY <1>1
  <2>5. CASE now + 1 < M  BY <1>m, <1>5, <2>2, <2>3, <2>4, <2>5
  <2>6. CASE ~(now + 1 < M)
    <3>1. now + 1 = M /\ now' = 0  BY <1>m, <1>5, <2>3, <2>6
    <3>2. at + lag + 1 < 2 * M  BY <1>m, <1>5, <2>1, <2>4
    <3>. QED  BY <1>m, <1>5, <2>2, <2>4, <3>1, <3>2
  <2>. QED  BY <2>5, <2>6
<1>8. TimeInv'  BY <1>6, <1>7 DEF TimeInv, Timely
<1>9. Kept  BY <1>3 DEF Kept, Live
<1>. QED  BY <1>8, <1>9

LEMMA BeginTime ==
  ASSUME IInv, TimeInv, NEW C \in Configurations, Begin(C)
  PROVE  TimeInv' /\ Kept
<1>0. Table(items) /\ StateOK /\ Owned(items, smarts)  BY DEF IInv, StateOK
<1>1. /\ pc' = "idle"
      /\ items' = [x \in DOMAIN items |->
                     [items[x] EXCEPT !.remove = @ \/ items[x].component \in Components]]
  BY DEF Begin, cancelAll
<1>2. ASSUME NEW x \in Live(items) PROVE items'[x].remove
  <2>1. x \in DOMAIN items /\ items[x] \in Item  BY <1>0 DEF Live, Table
  <2>2. items[x].component \in Components  BY <1>0, ComponentLemma
  <2>3. items'[x] = [items[x] EXCEPT !.remove = @ \/ items[x].component \in Components]
    BY <1>1, <2>1
  <2>. QED  BY <2>1, <2>2, <2>3 DEF Item
<1>3. ASSUME NEW x \in DOMAIN items, items[x].remove PROVE items'[x].remove
  <2>1. items[x] \in Item  BY <1>0 DEF Table
  <2>2. items'[x] = [items[x] EXCEPT !.remove = @ \/ items[x].component \in Components]
    BY <1>1
  <2>. QED  BY <1>3, <2>1, <2>2 DEF Item
<1>4. Live(items') = {}  BY <1>1, <1>2, <1>3 DEF Live
<1>. QED  BY <1>1, <1>4 DEF TimeInv, Timely, Kept, Live

LEMMA UpdateValueTime ==
  ASSUME IInv, TimeInv, NEW c \in ConfigIDs, NEW v \in Values, NEW trigger \in BOOLEAN,
         UpdateValue(c, v, trigger)
  PROVE  TimeInv' /\ Kept
<1>1. items' = items /\ now' = now /\ pc' = pc /\ at' = at /\ lag' = lag
  BY DEF UpdateValue, timerVars
<1>2. \A a \in DOMAIN smarts : smarts'[a].spec = smarts[a].spec
  <2>1. SUFFICES ASSUME NEW a \in DOMAIN smarts PROVE smarts'[a].spec = smarts[a].spec  OBVIOUS
  <2>2. smarts[a] \in SmartRecord  BY DEF IInv, StateOK, Smarts
  <2>. QED  BY <2>2 DEF UpdateValue, SmartRecord
<1>3. \A x \in Live(items) : Asked(items[x], DelayOf(smarts', items[x]))
  <2>1. SUFFICES ASSUME NEW x \in Live(items)
                 PROVE  Asked(items[x], DelayOf(smarts', items[x]))
    OBVIOUS
  <2>2. OwnerOf(items, x) \in DOMAIN smarts  BY DEF IInv, Owned
  <2>3. Asked(items[x], DelayOf(smarts, items[x]))  BY DEF TimeInv, Timely
  <2>. QED  BY <1>2, <2>2, <2>3, StayLemma DEF OwnerOf
<1>. QED  BY <1>1, <1>3 DEF TimeInv, Timely, Kept, Live

\* Automation a plays its chain up to action j, which sets a time-out of its
\* own; the other items stay.
LEMMA PlayTime ==
  ASSUME IInv, TimeInv, NEW a \in DOMAIN smarts, NEW s \in Smarts, NEW s2,
         s.spec = smarts[a].spec, s2.spec = s.spec, NEW i, NEW j \in 0..Len(s.spec.acts),
         Stops(s, i, j), smarts' = [smarts EXCEPT ![a] = s2],
         \A y \in DOMAIN items' : y \in DOMAIN Set(items, a, s, j) /\ items'[y] = Set(items, a, s, j)[y],
         now' = now, at' = at, lag' = lag,
         pc = "timer" <=> pc' = "timer"
  PROVE  TimeInv'
<1>0. Table(items) /\ StateOK /\ smarts \in Seq(Smarts) /\ now \in 0..(M - 1) /\ lag \in 0..Lag
  BY DEF IInv, StateOK
<1>1. /\ DOMAIN smarts' = DOMAIN smarts
      /\ \A b \in DOMAIN smarts : smarts'[b].spec = smarts[b].spec
  OBVIOUS
<1>2. ASSUME NEW y \in Live(items'), y \in DOMAIN items
      PROVE  /\ TimeOK(items'[y], now, pc = "timer", lag)
             /\ Asked(items'[y], DelayOf(smarts', items'[y]))
  <2>1. items'[y] = items[y]
    <3>1. Set(items, a, s, j)[y] = items[y]
      <4>1. a \in Nat  BY <1>0
      <4>. QED  BY <1>0, <1>2, <4>1, SetLemma
    <3>. QED  BY <3>1 DEF Live
  <2>2. y \in Live(items)  BY <1>2, <2>1 DEF Live
  <2>3. OwnerOf(items, y) \in DOMAIN smarts  BY <2>2 DEF IInv, Owned
  <2>4. TimeOK(items[y], now, pc = "timer", lag) /\ Asked(items[y], DelayOf(smarts, items[y]))
    BY <2>2 DEF TimeInv, Timely
  <2>. QED  BY <1>1, <2>1, <2>3, <2>4, StayLemma DEF OwnerOf
<1>3. ASSUME NEW y \in Live(items'), y \notin DOMAIN items
      PROVE  /\ TimeOK(items'[y], now, pc = "timer", lag)
             /\ Asked(items'[y], DelayOf(smarts', items'[y]))
  <2> DEFINE t == Timeout(s, j)
             c == <<a, j>>
             r == NewItem(c, t)
  <2>1. y \in DOMAIN Set(items, a, s, j) /\ items'[y] = Set(items, a, s, j)[y]  BY <1>3 DEF Live
  <2>2. j \in 1..Len(s.spec.acts) /\ Set(items, a, s, j) = setTimeout(items, c, t)
    <3>1. j # 0  BY <1>3, <2>1 DEF Set
    <3>. QED  BY <3>1 DEF Set
  <2>3. t \in 0..(M - 1)  BY <1>0, <2>2, TimeoutLemma
  <2>4. a \in Nat /\ j \in Nat /\ c \in Nat \X Nat  BY <1>0, <2>2
  <2> HIDE DEF t, c
  <2>5. t # TIMER_DONT_RUN /\ y = Free(items) /\ items'[y] = r
    <3> DEFINE after == setTimeout(items, c, t)
    <3>1. /\ t = TIMER_DONT_RUN => after = items
          /\ t # TIMER_DONT_RUN =>
               DOMAIN after = DOMAIN items \cup {Free(items)} /\ after[Free(items)] = NewItem(c, t)
      BY <1>0, <2>3, <2>4, SetTimeoutLemma
    <3>2. y \in DOMAIN after /\ items'[y] = after[y]  BY <2>1, <2>2
    <3> HIDE DEF after
    <3>. QED  BY <1>3, <3>1, <3>2
  <2>6. t \in 0..(M - 2)  BY <2>3, <2>5, TimerAssumption DEF TIMER_DONT_RUN
  <2>7. (pc = "timer") \in BOOLEAN  OBVIOUS
  <2>8. TimeOK(r, now, pc = "timer", lag)  BY <1>0, <2>4, <2>6, <2>7, NewTimeLemma
  <2>9. Waits(s, j)  BY <2>2 DEF Stops
  <2>10. Asked(r, s.spec.acts[j].delay)  BY <1>0, <2>2, <2>9, AskedLemma DEF t
  <2>11. DelayOf(smarts', r) = s.spec.acts[j].delay
    <3>1. r.component = <<a, j>>  BY DEF NewItem, c
    <3>. QED  BY <1>1, <3>1 DEF DelayOf
  <2>. QED  BY <2>5, <2>8, <2>10, <2>11
<1>4. ASSUME NEW y \in Live(items')
      PROVE  /\ TimeOK(items'[y], now', pc' = "timer", lag')
             /\ Asked(items'[y], DelayOf(smarts', items'[y]))
  <2>1. (pc' = "timer") = (pc = "timer")  OBVIOUS
  <2>. QED  BY <1>2, <1>3, <2>1
<1>. QED  BY <1>4 DEF TimeInv, Timely

\* Playing changes none of an automation's specification.
LEMMA PlayedSpec ==
  ASSUME NEW s \in SmartRecord, NEW i, NEW j
  PROVE  Played(s, i, j).spec = s.spec
  BY DEF Played, SmartRecord

LEMMA FireTime ==
  ASSUME IInv, TimeInv, NEW x \in DOMAIN items, Fire(x)
  PROVE  TimeInv' /\ Kept
<1> DEFINE a == items[x].component[1]
           i == items[x].component[2]
           s == [smarts[a] EXCEPT !.running = @ \ {i}]
<1>0. StateOK /\ Owned(items, smarts) /\ Table(items)  BY DEF IInv, StateOK
<1>1. x \in Live(items) /\ IsDue(x, at) /\ ~items[x].new /\ items[x].next <= at /\ pc = "timer"
  BY DEF Fire, IsDue, Live, Top, Heap
<1>2. a \in DOMAIN smarts /\ i \in smarts[a].running
  BY <1>0, <1>1 DEF Owned, OwnerOf
<1>3. smarts[a] \in Smarts /\ smarts \in Seq(Smarts)  BY <1>0, <1>2 DEF StateOK
<1>4. /\ pc' = pc /\ now' = now /\ at' = at /\ lag' = lag  BY DEF Fire
<1>5. PICK j \in 0..Len(s.spec.acts) :
        /\ Stops(s, i + 1, j)
        /\ smarts' = [smarts EXCEPT ![a] = Played(s, i + 1, j)]
        /\ items' = Only(Set(items, a, s, j), DOMAIN Set(items, a, s, j) \ {x})
  <2> HIDE DEF a, i, s
  <2>1. PICK j \in 0..Len(s.spec.acts) :
          /\ IF i \in smarts[a].running THEN Stops(s, i + 1, j) ELSE j = 0
          /\ smarts' = [smarts EXCEPT ![a] = IF i \in @.running THEN Played(s, i + 1, j) ELSE @]
          /\ items' = Only(Set(items, a, s, j), DOMAIN Set(items, a, s, j) \ {x})
    BY DEF Fire, a, i, s
  <2>2. smarts' = [smarts EXCEPT ![a] = Played(s, i + 1, j)]  BY <1>2, <2>1
  <2>. QED  BY <1>2, <2>1, <2>2
<1> HIDE DEF a, i
<1>6. s \in Smarts /\ s.spec = smarts[a].spec
  <2>1. smarts[a] \in SmartRecord /\ Fits(smarts[a])  BY <1>3 DEF Smarts
  <2>2. smarts[a].running \ {i} \in SUBSET Nat  BY <2>1 DEF SmartRecord
  <2>. QED  BY <2>1, <2>2 DEF Smarts, SmartRecord, Fits
<1> HIDE DEF s
<1> DEFINE after == Set(items, a, s, j)
<1>7. DOMAIN items' = DOMAIN after \ {x} /\ \A y \in DOMAIN items' : items'[y] = after[y]
  BY <1>5 DEF Only
<1>8. TimeInv'
  <2>1. Played(s, i + 1, j).spec = s.spec  BY <1>6, PlayedSpec DEF Smarts
  <2>. QED  BY <1>2, <1>4, <1>5, <1>6, <1>7, <2>1, PlayTime
<1>9. DOMAIN items \subseteq DOMAIN after
  <2>1. a \in Nat /\ now \in 0..(M - 1)  BY <1>0, <1>2, <1>3 DEF StateOK
  <2>. QED  BY <1>0, <1>6, <2>1, SetLemma
<1> HIDE DEF after
<1>10. items[x].age >= items[x].timeout \/ Cut(x)
  <2>1. items[x] \in Item /\ 2 * Lag < M  BY <1>1, WideLemma
  <2>2. TimeOK(items[x], now, pc = "timer", lag) /\ (pc = "timer") = TRUE
    BY <1>1 DEF TimeInv, Timely
  <2>3. at + lag \in {now, now + M}  BY <1>1, <2>1 DEF TimeInv
  <2>4. lag \in 0..Lag /\ now \in 0..(M - 1) /\ at \in 0..(M - 1)  BY <1>0 DEF StateOK
  <2>. QED  BY <1>1, <2>1, <2>2, <2>3, <2>4, DueTimeLemma DEF Cut
<1>11. Kept  BY <1>7, <1>9, <1>10 DEF Kept, Live
<1>. QED  BY <1>8, <1>11

LEMMA RunSmartTime ==
  ASSUME IInv, TimeInv, RunSmart
  PROVE  TimeInv' /\ Kept
<1> DEFINE s == Evaluate(smarts[k])
<1>0. StateOK /\ Owned(items, smarts) /\ Table(items)  BY DEF IInv, StateOK
<1>1. k \in 1..Len(smarts) /\ k \in DOMAIN smarts /\ smarts \in Seq(Smarts) /\ smarts[k] \in Smarts
  BY <1>0 DEF RunSmart, StateOK
<1>2. s \in Smarts /\ s.spec = smarts[k].spec  BY <1>1, EvaluateLemma
<1>3. /\ pc = "smart" /\ pc' # "timer" /\ now' = now /\ at' = at /\ lag' = lag  BY DEF RunSmart
<1> HIDE DEF s
<1>4. CASE Check(smarts[k]) /\ smarts[k].last # "true" /\ ~isRunning(s)
  <2>1. PICK j \in 0..Len(s.spec.acts) :
          /\ Stops(s, 1, j)
          /\ smarts' = [smarts EXCEPT ![k] = [Played(s, 1, j) EXCEPT !.played = TRUE]]
          /\ items' = Set(items, k, s, j)
    BY <1>4 DEF RunSmart, s
  <2> DEFINE s2 == [Played(s, 1, j) EXCEPT !.played = TRUE]
  <2>2. s2.spec = s.spec
    <3>1. s2.spec = Played(s, 1, j).spec  BY DEF Played
    <3>. QED  BY <1>2, <3>1, PlayedSpec DEF Smarts
  <2> HIDE DEF s2
  <2>3. smarts' = [smarts EXCEPT ![k] = s2]  BY <2>1 DEF s2
  <2>4. TimeInv'
    BY <1>1, <1>2, <1>3, <2>1, <2>2, <2>3, PlayTime
  <2>5. DOMAIN items \subseteq DOMAIN items'
    <3>1. k \in Nat /\ now \in 0..(M - 1)  BY <1>0, <1>1 DEF StateOK
    <3>. QED  BY <1>0, <1>2, <2>1, <3>1, SetLemma
  <2>. QED  BY <2>4, <2>5 DEF Kept, Live
<1>5. CASE ~(Check(smarts[k]) /\ smarts[k].last # "true" /\ ~isRunning(s))
  <2>1. smarts' = [smarts EXCEPT ![k] = s] /\ items' = items  BY <1>5 DEF RunSmart, s
  <2>2. \A a \in DOMAIN smarts : smarts'[a].spec = smarts[a].spec  BY <1>1, <1>2, <2>1
  <2>3. \A x \in Live(items) : Asked(items[x], DelayOf(smarts', items[x]))
    <3>1. SUFFICES ASSUME NEW x \in Live(items)
                   PROVE  Asked(items[x], DelayOf(smarts', items[x]))
      OBVIOUS
    <3>2. OwnerOf(items, x) \in DOMAIN smarts  BY <1>0 DEF Owned
    <3>3. Asked(items[x], DelayOf(smarts, items[x]))  BY DEF TimeInv, Timely
    <3>. QED  BY <2>2, <3>2, <3>3, StayLemma DEF OwnerOf
  <2>4. (pc = "timer") = (pc' = "timer")  BY <1>3
  <2>. QED  BY <1>3, <2>1, <2>3, <2>4 DEF TimeInv, Timely, Kept, Live
<1>. QED  BY <1>4, <1>5

LEMMA StepTime ==
  ASSUME IInv, TimeInv, [Next]_vars
  PROVE  TimeInv' /\ Kept
<1>1. CASE RunTimers  BY <1>1, RunTimersTime
<1>2. CASE Cleanup  BY <1>2, CleanupTime
<1>3. ASSUME NEW x \in DOMAIN items, Fire(x) PROVE TimeInv' /\ Kept  BY <1>3, FireTime
<1>4. CASE EndTimers  BY <1>4, EndTimersTime
<1>5. CASE RunSmart  BY <1>5, RunSmartTime
<1>6. CASE Tick  BY <1>6, TickTime
<1>7. ASSUME NEW C \in Configurations, Begin(C) PROVE TimeInv' /\ Kept  BY <1>7, BeginTime
<1>8. ASSUME NEW c \in ConfigIDs, NEW v \in Values, NEW trigger \in BOOLEAN,
             UpdateValue(c, v, trigger)
      PROVE  TimeInv' /\ Kept
  BY <1>8, UpdateValueTime
<1>9. CASE UNCHANGED vars
  BY <1>9 DEF vars, timerVars, TimeInv, Timely, Live, DelayOf, Kept
<1>. QED  BY <1>1, <1>2, <1>3, <1>4, <1>5, <1>6, <1>7, <1>8, <1>9 DEF Next, Main

\* What holds of every time-out holds of it as NotLate asks.
LEMMA NotLateLemma ==
  IInv /\ TimeInv => NotLate
<1> SUFFICES ASSUME IInv, TimeInv PROVE NotLate  OBVIOUS
<1>0. StateOK /\ Owned(items, smarts)  BY DEF IInv
<1>m. M \in Nat /\ M > 1 /\ Lag \in Nat  BY TimerAssumption, SmartAssumption
<1> SUFFICES ASSUME NEW x \in Live(items)
             PROVE  /\ items[x].age <= items[x].timeout + 2 * Lag \/ Missed(x)
                    /\ items[x].timeout <= Delay(x) \/ Before(x) > Start(x)
  BY DEF NotLate
<1>1. items[x] \in Item /\ lag \in 0..Lag  BY <1>0, WideLemma DEF StateOK
<1>2. TimeOK(items[x], now, pc = "timer", lag) /\ Asked(items[x], DelayOf(smarts, items[x]))
  BY DEF TimeInv, Timely
<1>3. items[x].timeout <= Delay(x) \/ Before(x) > Start(x)
  BY <1>2 DEF Asked, DelayOf, Delay, Before, Start, Automation, Action
<1>4. items[x].age <= items[x].timeout + 2 * Lag \/ Missed(x)
  <2> DEFINE r == items[x]
             b == IF pc = "timer" /\ ~r.new THEN Lag + lag ELSE lag
  <2>1. r.timeout \in 0..(M - 2) /\ r.age \in 0..M  BY <1>1 DEF Item
  <2>2. Awaited(r, b)  BY <1>2 DEF TimeOK
  <2>3. b \in Nat /\ b <= 2 * Lag  BY <1>m, <1>1
  <2>4. Missed(x) <=> Forgotten(r)  BY DEF Missed, Forgotten
  <2> HIDE DEF r, b
  <2>5. r.age <= r.timeout + 2 * Lag \/ Forgotten(r)
    BY <1>m, <2>1, <2>2, <2>3 DEF Awaited
  <2>. QED  BY <2>4, <2>5 DEF r
<1>. QED  BY <1>3, <1>4

LEMMA InitTime ==
  Init => TimeInv
  BY DEF Init, TimeInv, Timely, Live

\* For every clock, every bound on the time between two runs and every delay
\* they leave room for, an action's time-out calls back neither before its time
\* has passed nor two rounds after it, unless its deadline lies at the wrap of
\* the clock.
THEOREM SmartOnTime == Spec => OnTime
<1>1. IInv /\ TimeInv /\ IInv' /\ TimeInv' /\ [Next]_vars
        => [/\ \A x \in Live(items) : x \notin DOMAIN items' =>
                 items[x].age >= items[x].timeout \/ Cut(x)
            /\ NotLate']_vars
  <2>1. SUFFICES ASSUME IInv, TimeInv, IInv', TimeInv', [Next]_vars
                 PROVE  /\ \A x \in Live(items) : x \notin DOMAIN items' =>
                             items[x].age >= items[x].timeout \/ Cut(x)
                        /\ NotLate'
    OBVIOUS
  <2>2. Kept  BY StepTime, <2>1
  <2>3. NotLate'  BY <2>1, NotLateLemma, PTL
  <2>. QED  BY <2>2, <2>3 DEF Kept
<1>2. IInv /\ TimeInv /\ [Next]_vars => TimeInv'  BY StepTime
<1>. QED  BY <1>1, <1>2, InitTime, SmartInvariant, PTL DEF Spec, OnTime
=============================================================================

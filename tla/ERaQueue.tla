------------------------------ MODULE ERaQueue ------------------------------
(***************************************************************************)
(* ERaQueue<T, N> (src/src/Utility/ERaQueue.hpp): the lock-free ring that  *)
(* carries events from the API and Modbus tasks to the MQTT loop, actions  *)
(* from the MQTT loop to the Modbus tasks and bytes from the BLE stack.    *)
(* One producer and one consumer run concurrently; `w' is written only by  *)
(* the producer and `r' only by the consumer, and each step below touches  *)
(* the other side's index at most once.                                    *)
(*                                                                         *)
(* get() returns a REFERENCE into the ring after it has already advanced   *)
(* r, and the callers (eventsWrite, getModbusAction) go on reading and     *)
(* writing that slot: state cpc = "held".                                  *)
(***************************************************************************)
EXTENDS Integers

CONSTANTS N,        \* template parameter N: the capacity
          Values,   \* elements
          Blank,    \* content of a slot never written, or blanked by its user
          MaxBulk   \* bound: the longest bulk put or get that is enumerated

ASSUME NAssumption == N \in Nat \ {0}
ASSUME BulkAssumption == MaxBulk \in Nat \ {0}
ASSUME BlankAssumption == Blank \notin Values

eN == N + 1         \* one slot more than the capacity

VARIABLES
    e, w, r,                           \* the ring and its two indices
    ppc, src, n, off, pat, plen,       \* the producer's call in progress
    cpc, want, cat, clen, got          \* the consumer's call in progress

ring == <<e, w, r>>
prod == <<ppc, src, n, off, pat, plen>>
cons == <<cpc, want, cat, clen, got>>
vars == <<ring, prod, cons>>

Slots == 0..N
Chunks == UNION {[1..m -> Values] : m \in 1..MaxBulk}
Min2(a, b) == IF a <= b THEN a ELSE b

\* Mutant of inc: the index runs past the end of the array.
inc_NoWrap(i, k) == i + k
inc(i, k) == (i + k) % eN
\* Mutant of space: the spare slot is offered too.
space_NoSpare == IF r - w <= 0 THEN r - w + eN ELSE r - w
space == IF r - w <= 0 THEN r - w + eN - 1 ELSE r - w - 1
size == IF w - r < 0 THEN w - r + eN ELSE w - r
writeable == inc(w, 1) # r
readable == r # w

Init ==
    /\ e = [i \in Slots |-> Blank] /\ w = 0 /\ r = 0
    /\ ppc = "idle" /\ src = <<>> /\ n = 0 /\ off = 0 /\ pat = 0 /\ plen = 0
    /\ cpc = "idle" /\ want = 0 /\ cat = 0 /\ clen = 0 /\ got = <<>>

-----------------------------------------------------------------------------
(* Producer: put(e), operator += and the bulk put(p, n).                   *)

\* A call returns: its locals are gone.
PutReturn ==
    /\ ppc' = "idle" /\ src' = <<>> /\ n' = 0 /\ off' = 0 /\ pat' = 0 /\ plen' = 0
GetReturn ==
    /\ cpc' = "idle" /\ want' = 0 /\ cat' = 0 /\ clen' = 0 /\ got' = <<>>

\* put(e) and, when writeable() held just before, operator += (a += on a
\* full queue drops its element: no step).
PutCall(v) ==
    /\ ppc = "idle"
    /\ ppc' = "spin" /\ src' = [i \in 1..1 |-> v] /\ n' = 1 /\ off' = 0
    /\ pat' = w /\ plen' = 1
    /\ UNCHANGED <<ring, cons>>

\* while (i == this->r) {}
PutSpin ==
    /\ ppc = "spin" /\ inc(pat, 1) # r
    /\ ppc' = "copy"
    /\ UNCHANGED <<ring, src, n, off, pat, plen, cons>>

BulkPutCall(s, m) ==
    /\ ppc = "idle" /\ s \in [1..m -> Values]
    /\ ppc' = "bulk" /\ src' = s /\ n' = m /\ off' = 0
    /\ UNCHANGED <<ring, pat, plen, cons>>

\* Mutant of BulkPutRoom: w is stored before the copy.
BulkPutRoom_EarlyPublish ==
    /\ ppc = "bulk" /\ space # 0
    /\ ppc' = "copy" /\ pat' = w
    /\ plen' = Min2(Min2(space, n - off), eN - w)
    /\ w' = inc(w, plen')
    /\ UNCHANGED <<e, r, src, n, off, cons>>

\* Mutant of BulkPutRoom: the chunk is not cut at the end of the array.
BulkPutRoom_NoCut ==
    /\ ppc = "bulk" /\ space # 0
    /\ ppc' = "copy" /\ pat' = w
    /\ plen' = Min2(space, n - off)
    /\ UNCHANGED <<ring, src, n, off, cons>>

\* f = min(space(), what is left, what fits before the end of the array)
BulkPutRoom ==
    /\ ppc = "bulk" /\ space # 0
    /\ ppc' = "copy" /\ pat' = w
    /\ plen' = Min2(Min2(space, n - off), eN - w)
    /\ UNCHANGED <<ring, src, n, off, cons>>

\* not blocking: a full queue ends the call, the rest is dropped
BulkPutFull ==
    /\ ppc = "bulk" /\ space = 0
    /\ PutReturn
    /\ UNCHANGED <<ring, cons>>

\* e[j] = _e, or the memcpy of one chunk
PutCopy ==
    /\ ppc = "copy"
    /\ e' = [i \in Slots |-> IF i \in pat..(pat + plen - 1)
                             THEN src[off + i - pat + 1] ELSE e[i]]
    /\ ppc' = "publish"
    /\ UNCHANGED <<w, r, src, n, off, pat, plen, cons>>

\* w = i: the chunk becomes visible to the consumer
PutPublish ==
    /\ ppc = "publish"
    /\ w' = inc(pat, plen)
    /\ IF off + plen = n THEN PutReturn
       ELSE /\ ppc' = "bulk" /\ off' = off + plen /\ pat' = 0 /\ plen' = 0
            /\ UNCHANGED <<src, n>>
    /\ UNCHANGED <<e, r, cons>>

-----------------------------------------------------------------------------
(* Consumer: get(), peek() and the bulk get(p, n).                         *)

\* _r = this->r, then while (_r == this->w) {}; the callers test readable()
GetReady ==
    /\ cpc = "idle" /\ readable
    /\ cpc' = "take" /\ cat' = r /\ clen' = 1
    /\ UNCHANGED <<ring, prod, want, got>>

\* Mutant of GetTake: the element stays in the queue.
GetTake_NoAdvance ==
    /\ cpc = "take"
    /\ cpc' = "held"
    /\ UNCHANGED <<ring, prod, want, cat, clen, got>>

\* this->r = inc(this->r); return _e
GetTake ==
    /\ cpc = "take"
    /\ r' = inc(r, 1)
    /\ cpc' = "held"
    /\ UNCHANGED <<e, w, prod, want, cat, clen, got>>

\* The caller is done with the reference; the event writers blank the
\* pointers of the slot (event.id = nullptr) before they return.
HeldDone(blank) ==
    /\ cpc = "held"
    /\ e' = IF blank THEN [e EXCEPT ![cat] = Blank] ELSE e
    /\ GetReturn
    /\ UNCHANGED <<w, r, prod>>

\* peek() returns the reference without advancing r
Peek ==
    /\ cpc = "idle" /\ readable
    /\ cpc' = "peek" /\ cat' = r /\ clen' = 1
    /\ UNCHANGED <<ring, prod, want, got>>

PeekDone ==
    /\ cpc = "peek"
    /\ GetReturn
    /\ UNCHANGED <<ring, prod>>

BulkGetCall(m) ==
    /\ cpc = "idle"
    /\ cpc' = "bulk" /\ want' = m
    /\ UNCHANGED <<ring, prod, cat, clen, got>>

BulkGetRoom ==
    /\ cpc = "bulk" /\ want # 0 /\ size # 0
    /\ cpc' = "copy" /\ cat' = r
    /\ clen' = Min2(Min2(size, want), eN - r)
    /\ UNCHANGED <<ring, prod, want, got>>

\* nothing left to copy, or (not blocking) nothing left in the queue
BulkGetDone ==
    /\ cpc = "bulk" /\ (want = 0 \/ size = 0)
    /\ GetReturn
    /\ UNCHANGED <<ring, prod>>

\* memcpy(p, this->e + _r, f)
BulkGetCopy ==
    /\ cpc = "copy"
    /\ got' = [k \in 1..clen |-> e[cat + k - 1]]
    /\ cpc' = "advance"
    /\ UNCHANGED <<ring, prod, want, cat, clen>>

\* this->r = this->inc(_r, f): the slots go back to the producer
BulkGetAdvance ==
    /\ cpc = "advance"
    /\ r' = inc(cat, clen)
    /\ want' = want - clen
    /\ cpc' = "taken"
    /\ UNCHANGED <<e, w, prod, cat, clen, got>>

\* c -= f; p += f: the copied chunk is the caller's, the loop goes on
BulkGetNext ==
    /\ cpc = "taken"
    /\ cpc' = "bulk" /\ cat' = 0 /\ clen' = 0 /\ got' = <<>>
    /\ UNCHANGED <<ring, prod, want>>

-----------------------------------------------------------------------------
\* clear() (BLE transports, when neither side is inside a call).
Clear ==
    /\ ppc = "idle" /\ cpc = "idle"
    /\ w' = 0 /\ r' = 0
    /\ UNCHANGED <<e, prod, cons>>

PutStep == PutSpin \/ BulkPutRoom \/ BulkPutFull \/ PutCopy \/ PutPublish

Producer ==
    \/ \E v \in Values : PutCall(v)
    \/ \E m \in 1..MaxBulk : \E s \in [1..m -> Values] : BulkPutCall(s, m)
    \/ PutStep

GetStep ==
    \/ GetTake \/ (\E b \in BOOLEAN : HeldDone(b)) \/ PeekDone
    \/ BulkGetRoom \/ BulkGetDone \/ BulkGetCopy \/ BulkGetAdvance \/ BulkGetNext

Consumer ==
    \/ GetReady \/ Peek
    \/ \E m \in 1..MaxBulk : BulkGetCall(m)
    \/ GetStep

Next == Producer \/ Consumer \/ Clear

Spec == Init /\ [][Next]_vars

\* Each task keeps running what it started; the consumer's loop polls the
\* queue (eventsWrite is called by every ERaApi::run).
Fairness == WF_vars(PutStep) /\ WF_vars(GetStep) /\ SF_vars(GetReady)

FairSpec == Spec /\ Fairness

-----------------------------------------------------------------------------
\* Types of the ring and of the two calls in progress: in particular the
\* indices never leave the array and a bulk call never exceeds its count.
TypeOK ==
    /\ e \in [Slots -> Values \cup {Blank}]
    /\ w \in Slots /\ r \in Slots /\ pat \in Slots /\ cat \in Slots
    /\ ppc \in {"idle", "spin", "bulk", "copy", "publish"}
    /\ cpc \in {"idle", "take", "held", "peek", "bulk", "copy", "advance", "taken"}
    /\ n \in 0..MaxBulk /\ off \in 0..n /\ plen \in 0..eN
    /\ src \in [1..n -> Values]
    /\ want \in 0..MaxBulk /\ clen \in 0..eN
    /\ \E m \in 0..MaxBulk : got \in [1..m -> Values \cup {Blank}]

\* Slots the producer is writing, and slots the consumer reads or holds a
\* reference to.
Writing == IF ppc = "copy" THEN pat..(pat + plen - 1) ELSE {}
Using ==
    CASE cpc \in {"take", "copy", "advance"} -> cat..(cat + clen - 1)
      [] cpc \in {"held", "peek"} -> {cat}
      [] OTHER -> {}

\* The producer never writes a slot the consumer is copying from or holds a
\* reference to, although get() has given the slot back before its caller
\* has used it: the spare slot of eN = N + 1 protects it.
NoSlotConflict == Writing \cap Using = {}

\* The slots between r and w, in order.
Contents == [k \in 1..size |-> e[inc(r, k - 1)]]

\* Every element the consumer can reach was put and not yet taken: no slot
\* between r and w is blank.
NoBlankVisible == \A k \in 1..size : e[inc(r, k - 1)] # Blank

\* What the consumer took and is still using.
Out == CASE cpc = "held" -> [k \in 1..1 |-> e[cat]]
         [] cpc = "taken" -> got
         [] OTHER -> <<>>

\* The ring implements the bounded FIFO: chunks come out whole, in order,
\* once each, and a reference keeps its value until its user is done.
Fifo == INSTANCE ERaFifo WITH queue <- Contents, out <- Out
FifoSpec == Fifo!Spec

\* Liveness (the while loops of put and the polling of eventsWrite): a put
\* that waits for room ends, and what is in the queue is taken, however the
\* consumer mixes get, peek and bulk get.
PutReturns == (ppc = "spin") ~> (ppc = "idle")
Drains == \A i \in Slots : (r = i /\ w # i) ~> (r # i \/ w = i)
=============================================================================

--------------------------- MODULE ERaQueueProofs ---------------------------
(***************************************************************************)
(* Proofs about ERaQueue for every capacity, element set and bulk bound:   *)
(* the indices stay in the array, producer and consumer never touch the    *)
(* same slot at the same time, and nothing blank is ever readable.         *)
(*                                                                         *)
(* The argument: whatever a call has read of the OTHER side's index stays  *)
(* a safe estimate, because w only adds to what the consumer may read and  *)
(* r only adds to what the producer may write.  IInv states the estimates. *)
(***************************************************************************)
EXTENDS ERaQueue, TLAPS

\* The slots between r and w.
Live == {s \in Slots : IF r <= w THEN r <= s /\ s < w ELSE r <= s \/ s < w}

\* The slots of the producer's chunk.
Chunk == pat..(pat + plen - 1)

ProdInv ==
    /\ ppc \in {"spin", "copy", "publish"} =>
           /\ pat = w /\ plen >= 1
           /\ pat + plen <= eN /\ off + plen <= n
    /\ ppc = "spin" => plen = 1
    /\ ppc \in {"copy", "publish"} => plen <= space
    /\ ppc = "bulk" => off < n

ConsInv ==
    /\ cpc \in {"take", "peek", "copy", "advance"} =>
           /\ cat = r /\ clen >= 1
           /\ cat + clen <= eN /\ clen <= size
    /\ cpc \in {"copy", "advance"} => clen <= want
    /\ cpc \in {"take", "peek"} => clen = 1
    /\ cpc = "held" => clen = 1 /\ inc(cat, 1) = r

FullInv ==
    /\ \A s \in Live : e[s] # Blank
    /\ ppc = "publish" => \A s \in Chunk : e[s] # Blank

IInv == TypeOK /\ ProdInv /\ ConsInv /\ FullInv

-----------------------------------------------------------------------------
\* One turn around the array is the only wrap the code ever needs.
LEMMA ModLemma ==
  ASSUME NEW x \in Nat, x < 2 * eN
  PROVE  x % eN = IF x < eN THEN x ELSE x - eN
<1>1. eN \in Nat /\ eN > 1  BY NAssumption DEF eN
<1>2. CASE x < eN  BY <1>1, <1>2
<1>3. CASE x >= eN
  <2>1. x - eN \in Nat /\ x - eN < eN  BY <1>1, <1>3
  <2>2. x = 1 * eN + (x - eN)  BY <1>1
  <2>. QED  BY <1>1, <1>3, <2>1, <2>2
<1>. QED  BY <1>1, <1>2, <1>3

LEMMA IncLemma ==
  ASSUME NEW a \in Slots, NEW k \in Nat, a + k <= eN
  PROVE  /\ inc(a, k) \in Slots
         /\ inc(a, k) = IF a + k = eN THEN 0 ELSE a + k
<1>1. a + k \in Nat /\ a + k < 2 * eN /\ eN \in Nat
  BY NAssumption DEF eN, Slots
<1>2. (a + k) % eN = IF a + k < eN THEN a + k ELSE (a + k) - eN
  BY ONLY <1>1, ModLemma
<1>. QED  BY <1>1, <1>2, NAssumption DEF inc, eN, Slots

\* size() and space() share the ring between them, but for one slot.
LEMMA SizeLemma ==
  ASSUME w \in Slots, r \in Slots
  PROVE  /\ size \in 0..N /\ space \in 0..N /\ space = N - size
         /\ size = IF r <= w THEN w - r ELSE w - r + eN
BY NAssumption DEF size, space, Slots, eN

\* What readable slots the consumer reaches, it reaches through inc.
LEMMA ReadLemma ==
  ASSUME w \in Slots, r \in Slots, NEW k \in 1..size
  PROVE  inc(r, k - 1) \in Live
<1>1. k - 1 \in Nat /\ k - 1 < N /\ r + (k - 1) \in Nat /\ r + (k - 1) < 2 * eN
  BY SizeLemma, NAssumption DEF Slots, eN
<1>2. inc(r, k - 1) = IF r + (k - 1) < eN THEN r + (k - 1) ELSE r + (k - 1) - eN
  <2>1. (r + (k - 1)) % eN
          = IF r + (k - 1) < eN THEN r + (k - 1) ELSE (r + (k - 1)) - eN
    BY ONLY <1>1, ModLemma
  <2>. QED  BY <1>1, <2>1, NAssumption DEF inc, eN, Slots
<1>3. k - 1 < (IF r <= w THEN w - r ELSE w - r + eN)
  BY SizeLemma, NAssumption DEF Slots, eN
<1>. QED  BY <1>1, <1>2, <1>3, NAssumption DEF Live, Slots, eN

\* The producer's chunk lies outside what is readable, and outside the slot
\* given back last.
LEMMA ChunkLemma ==
  ASSUME w \in Slots, r \in Slots, plen \in 1..eN,
         pat = w, pat + plen <= eN, plen <= space
  PROVE  /\ Chunk \subseteq Slots
         /\ Chunk \cap Live = {}
         /\ \A a \in Slots : inc(a, 1) = r => a \notin Chunk
<1>1. plen <= N - (IF r <= w THEN w - r ELSE w - r + eN)
  BY SizeLemma, NAssumption DEF Slots, eN
<1>2. Chunk \subseteq Slots /\ Chunk \cap Live = {}
  BY <1>1, NAssumption DEF Chunk, Live, Slots, eN
<1>3. ASSUME NEW a \in Slots, inc(a, 1) = r  PROVE a \notin Chunk
  <2>1. r = IF a + 1 = eN THEN 0 ELSE a + 1
    BY <1>3, IncLemma, NAssumption DEF Slots, eN
  <2>. QED  BY <1>1, <2>1, NAssumption DEF Chunk, Slots, eN
<1>. QED  BY <1>2, <1>3

\* The consumer's chunk is readable, and outside the producer's.
LEMMA TakenLemma ==
  ASSUME w \in Slots, r \in Slots, clen \in 1..eN,
         cat = r, cat + clen <= eN, clen <= size
  PROVE  cat..(cat + clen - 1) \subseteq Live
BY SizeLemma, NAssumption DEF Live, Slots, eN

THEOREM InitIInv == Init => IInv
<1>. SUFFICES ASSUME Init PROVE IInv  OBVIOUS
<1>1. TypeOK
  BY NAssumption, BulkAssumption DEF Init, TypeOK, Slots, eN
<1>2. ProdInv /\ ConsInv  BY DEF Init, ProdInv, ConsInv
<1>3. FullInv  BY DEF Init, FullInv, Live, Slots
<1>. QED  BY <1>1, <1>2, <1>3 DEF IInv

\* Both calls are safe in a state that satisfies the invariant.
THEOREM IInvSafe == IInv => TypeOK /\ NoSlotConflict /\ NoBlankVisible
<1>. SUFFICES ASSUME IInv PROVE NoSlotConflict /\ NoBlankVisible
  BY DEF IInv
<1>. USE DEF IInv, TypeOK
<1>1. NoBlankVisible  BY ReadLemma DEF NoBlankVisible, FullInv
<1>2. ASSUME ppc = "copy"  PROVE Chunk \cap Using = {}
  <2>1. plen \in 1..eN /\ pat = w /\ pat + plen <= eN /\ plen <= space
    BY <1>2, NAssumption DEF ProdInv, eN
  <2>2. /\ Chunk \cap Live = {}
        /\ \A a \in Slots : inc(a, 1) = r => a \notin Chunk
    BY <2>1, ChunkLemma
  <2>3. CASE cpc \in {"take", "copy", "advance", "peek"}
    <3>1. clen \in 1..eN /\ cat = r /\ cat + clen <= eN /\ clen <= size
      BY <2>3, NAssumption DEF ConsInv, eN
    <3>2. cat..(cat + clen - 1) \subseteq Live  BY <3>1, TakenLemma
    <3>3. cat \in cat..(cat + clen - 1)
      BY <3>1, NAssumption DEF Slots, eN
    <3>4. Using \subseteq cat..(cat + clen - 1)
      BY <2>3, <3>3 DEF Using
    <3>. QED  BY <2>2, <3>2, <3>4
  <2>4. CASE cpc = "held"
    BY <2>2, <2>4 DEF ConsInv, Using
  <2>5. CASE cpc \in {"idle", "bulk", "taken"}
    BY <2>5 DEF Using
  <2>. QED  BY <2>3, <2>4, <2>5
<1>3. NoSlotConflict  BY <1>2 DEF NoSlotConflict, Writing, Chunk
<1>. QED  BY <1>1, <1>3

-----------------------------------------------------------------------------
\* The consumer advances r by k <= size slots that it no longer uses: what is
\* readable shrinks by them, and everything else keeps its estimate.
LEMMA AdvanceLemma ==
  ASSUME w \in Slots, r \in Slots, NEW k \in Nat, k <= size, r + k <= eN,
         w' = w, r' = inc(r, k)
  PROVE  r' \in Slots /\ Live' \subseteq Live /\ space' = space + k
<1>1. r' \in Slots /\ r' = IF r + k = eN THEN 0 ELSE r + k
  BY IncLemma
<1>2. k <= IF r <= w THEN w - r ELSE w - r + eN
  BY SizeLemma
<1>3. Live' \subseteq Live
  BY <1>1, <1>2, NAssumption DEF Live, Slots, eN
<1>4. space' = space + k
  BY <1>1, <1>2, NAssumption DEF space, Slots, eN
<1>. QED  BY <1>1, <1>3, <1>4

\* The producer publishes its chunk: exactly its slots become readable.
LEMMA PublishLemma ==
  ASSUME w \in Slots, r \in Slots, plen \in 1..eN,
         pat = w, pat + plen <= eN, plen <= space,
         r' = r, w' = inc(pat, plen)
  PROVE  w' \in Slots /\ Live' \subseteq Live \cup Chunk /\ size' = size + plen
<1>1. w' \in Slots /\ w' = IF w + plen = eN THEN 0 ELSE w + plen
  BY IncLemma, NAssumption DEF eN
<1>2. plen <= N - (IF r <= w THEN w - r ELSE w - r + eN)
  BY SizeLemma
<1>3. Live' \subseteq Live \cup Chunk
  BY <1>1, <1>2, NAssumption DEF Live, Chunk, Slots, eN
<1>4. size' = size + plen
  BY <1>1, <1>2, NAssumption DEF size, Slots, eN
<1>. QED  BY <1>1, <1>3, <1>4

\* The locals of a call that has returned have their types.
LEMMA PutReturnTypes ==
  ASSUME PutReturn
  PROVE  /\ ppc' = "idle" /\ n' \in 0..MaxBulk /\ off' \in 0..n'
         /\ pat' \in Slots /\ plen' \in 0..eN /\ src' \in [1..n' -> Values]
BY NAssumption, BulkAssumption DEF PutReturn, Slots, eN

LEMMA GetReturnTypes ==
  ASSUME GetReturn
  PROVE  /\ cpc' = "idle" /\ want' \in 0..MaxBulk /\ cat' \in Slots /\ clen' \in 0..eN
         /\ \E m \in 0..MaxBulk : got' \in [1..m -> Values \cup {Blank}]
<1>1. 0 \in 0..MaxBulk /\ got' \in [1..0 -> Values \cup {Blank}]
  BY BulkAssumption DEF GetReturn
<1>. QED  BY <1>1, NAssumption DEF GetReturn, Slots, eN

LEMMA ProducerStep == IInv /\ Producer => IInv'
<1>. SUFFICES ASSUME IInv, Producer PROVE IInv'  OBVIOUS
<1>. USE DEF IInv
<1>0. /\ w \in Slots /\ r \in Slots /\ size \in 0..N /\ space \in 0..N
      /\ N \in Nat /\ N >= 1 /\ eN = N + 1 /\ MaxBulk \in Nat /\ MaxBulk >= 1
  BY SizeLemma, NAssumption, BulkAssumption DEF TypeOK, eN
<1>1. ASSUME NEW v \in Values, PutCall(v)  PROVE IInv'
  <2>1. TypeOK'  BY <1>0, <1>1 DEF PutCall, TypeOK, Slots, ring, cons
  <2>2. ProdInv'  BY <1>0, <1>1 DEF PutCall, ProdInv, Slots, ring
  <2>3. ConsInv' /\ FullInv'
    BY <1>1 DEF PutCall, ConsInv, FullInv, Live, ring, cons, size, inc
  <2>. QED  BY <2>1, <2>2, <2>3
<1>2. ASSUME NEW m \in 1..MaxBulk, NEW s \in [1..m -> Values], BulkPutCall(s, m)
      PROVE IInv'
  <2>1. TypeOK'
    <3>1. /\ ppc' = "bulk" /\ n' = m /\ off' = 0 /\ src' = s
          /\ UNCHANGED <<ring, pat, plen, cons>>
      BY <1>2 DEF BulkPutCall
    <3>2. n' \in 0..MaxBulk /\ off' \in 0..n' /\ src' \in [1..n' -> Values]
      BY <1>0, <3>1
    <3>. QED  BY <3>1, <3>2 DEF TypeOK, ring, cons
  <2>2. ProdInv'  BY <1>0, <1>2 DEF BulkPutCall, ProdInv
  <2>3. ConsInv' /\ FullInv'
    BY <1>2 DEF BulkPutCall, ConsInv, FullInv, Live, ring, cons, size, inc
  <2>. QED  BY <2>1, <2>2, <2>3
<1>3. CASE PutSpin
  <2>1. TypeOK'  BY <1>3 DEF PutSpin, TypeOK, ring, cons
  <2>2. ConsInv' /\ FullInv'
    BY <1>3 DEF PutSpin, ConsInv, FullInv, Live, ring, cons, size, inc
  <2>3. 1 <= space
    <3>1. inc(w, 1) # r /\ inc(w, 1) = IF w + 1 = eN THEN 0 ELSE w + 1
      BY <1>0, <1>3, IncLemma DEF PutSpin, ProdInv, Slots
    <3>. QED  BY <1>0, <3>1 DEF space, Slots
  <2>4. ProdInv'
    BY <1>3, <2>3 DEF PutSpin, ProdInv, ring, cons, space
  <2>. QED  BY <2>1, <2>2, <2>4
<1>4. CASE BulkPutRoom
  <2>1. /\ plen' \in 1..eN /\ plen' <= space /\ w + plen' <= eN
        /\ off + plen' <= n /\ pat' = w
    <3>1. space \in 1..N /\ n - off \in Nat /\ n - off >= 1 /\ eN - w \in 1..eN
      BY <1>0, <1>4 DEF BulkPutRoom, ProdInv, TypeOK, Slots
    <3>2. plen' = Min2(Min2(space, n - off), eN - w) /\ pat' = w
      BY <1>4 DEF BulkPutRoom
    <3>3. n \in Nat /\ off \in Nat /\ w \in Nat  BY <1>0 DEF TypeOK, Slots
    <3>. QED  BY ONLY <1>0, <3>1, <3>2, <3>3 DEF Min2
  <2>2. TypeOK'
    <3>1. /\ ppc' = "copy" /\ pat' \in Slots /\ plen' \in 0..eN
          /\ UNCHANGED <<ring, src, n, off, cons>>
      BY <1>0, <1>4, <2>1 DEF BulkPutRoom
    <3>. QED  BY <3>1 DEF TypeOK, ring, cons
  <2>3. ConsInv' /\ FullInv'
    BY <1>4 DEF BulkPutRoom, ConsInv, FullInv, Live, ring, cons, size, inc
  <2>4. ProdInv'
    BY <1>0, <1>4, <2>1 DEF BulkPutRoom, ProdInv, ring, cons, space
  <2>. QED  BY <2>2, <2>3, <2>4
<1>5. CASE BulkPutFull
  <2>1. TypeOK'  BY <1>5, PutReturnTypes DEF BulkPutFull, TypeOK, ring, cons
  <2>2. ProdInv' /\ ConsInv' /\ FullInv'
    BY <1>5 DEF BulkPutFull, PutReturn, ProdInv, ConsInv, FullInv, Live, ring, cons, size, inc
  <2>. QED  BY <2>1, <2>2
<1>6. CASE PutCopy
  <2>1. /\ plen \in 1..eN /\ pat = w /\ pat + plen <= eN /\ plen <= space
        /\ off + plen <= n /\ Chunk \subseteq Slots /\ Chunk \cap Live = {}
    <3>1. /\ plen \in 1..eN /\ pat = w /\ pat + plen <= eN /\ plen <= space
          /\ off + plen <= n
      BY <1>0, <1>6 DEF PutCopy, ProdInv, TypeOK
    <3>. QED  BY <1>0, <3>1, ChunkLemma
  <2>2. ASSUME NEW i \in Chunk  PROVE e'[i] \in Values
    <3>1. i \in Slots /\ i \in pat..(pat + plen - 1)  BY <2>1 DEF Chunk
    <3>2. off + i - pat + 1 \in 1..n
      BY <2>1, <3>1, <1>0 DEF TypeOK, Slots
    <3>3. e'[i] = src[off + i - pat + 1]  BY <1>6, <3>1 DEF PutCopy
    <3>. QED  BY <3>2, <3>3 DEF TypeOK
  <2>3. ASSUME NEW i \in Slots, i \notin Chunk  PROVE e'[i] = e[i]
    BY <1>6, <2>3 DEF PutCopy, Chunk
  <2>4. e' \in [Slots -> Values \cup {Blank}]
    <3>1. e' = [i \in Slots |-> e'[i]]  BY <1>6 DEF PutCopy
    <3>2. \A i \in Slots : e'[i] \in Values \cup {Blank}
      BY <2>2, <2>3 DEF TypeOK
    <3>. QED  BY <3>1, <3>2
  <2>5. TypeOK'  BY <1>6, <2>4 DEF PutCopy, TypeOK, cons
  <2>6. ProdInv' /\ ConsInv'
    BY <1>6 DEF PutCopy, ProdInv, ConsInv, cons, space, size, inc
  <2>7. FullInv'
    <3>1. Live' = Live /\ Chunk' = Chunk /\ Live \subseteq Slots
      BY <1>6 DEF PutCopy, Live, Chunk
    <3>2. \A s \in Live : e'[s] # Blank  BY <2>1, <2>3, <3>1 DEF FullInv
    <3>3. \A s \in Chunk : e'[s] # Blank  BY <2>2, BlankAssumption
    <3>. QED  BY <3>1, <3>2, <3>3 DEF FullInv
  <2>. QED  BY <2>5, <2>6, <2>7
<1>7. CASE PutPublish
  <2>1. /\ plen \in 1..eN /\ pat = w /\ pat + plen <= eN /\ plen <= space
        /\ off + plen <= n
    BY <1>0, <1>7 DEF PutPublish, ProdInv, TypeOK
  <2>2. w' \in Slots /\ Live' \subseteq Live \cup Chunk /\ size' = size + plen
    BY <1>0, <1>7, <2>1, PublishLemma DEF PutPublish
  <2>3. TypeOK'
    <3>1. CASE off + plen = n
      BY <1>7, <2>2, <3>1, PutReturnTypes DEF PutPublish, TypeOK, cons
    <3>2. CASE off + plen # n
      <4>1. /\ off' \in 0..n' /\ ppc' = "bulk" /\ pat' \in Slots /\ plen' \in 0..eN
            /\ UNCHANGED <<e, r, src, n, cons>>
        BY <1>0, <1>7, <2>1, <3>2 DEF PutPublish, TypeOK, Slots
      <4>. QED  BY <2>2, <4>1 DEF TypeOK, cons
    <3>. QED  BY <3>1, <3>2
  <2>4. ProdInv'
    BY <1>0, <1>7, <2>1 DEF PutPublish, PutReturn, ProdInv, TypeOK
  <2>5. ConsInv'
    BY <1>0, <1>7, <2>1, <2>2 DEF PutPublish, ConsInv, TypeOK, cons, inc
  <2>6. FullInv'
    BY <1>7, <2>2 DEF PutPublish, PutReturn, FullInv
  <2>. QED  BY <2>3, <2>4, <2>5, <2>6
<1>. QED
  BY <1>1, <1>2, <1>3, <1>4, <1>5, <1>6, <1>7 DEF Producer, PutStep

LEMMA ConsumerStep == IInv /\ Consumer => IInv'
<1>. SUFFICES ASSUME IInv, Consumer PROVE IInv'  OBVIOUS
<1>. USE DEF IInv
<1>0. /\ w \in Slots /\ r \in Slots /\ size \in 0..N /\ space \in 0..N
      /\ space = N - size
      /\ N \in Nat /\ N >= 1 /\ eN = N + 1 /\ MaxBulk \in Nat /\ MaxBulk >= 1
  BY SizeLemma, NAssumption, BulkAssumption DEF TypeOK, eN
\* A step that leaves the ring and the producer alone keeps their parts.
<1>a. ASSUME UNCHANGED <<ring, prod>>  PROVE ProdInv' /\ FullInv'
  BY <1>a DEF ProdInv, FullInv, Live, Chunk, ring, prod, space
\* A step that only moves r past k unread slots keeps them too.
<1>b. ASSUME NEW k \in Nat, k <= size, r + k <= eN, r' = inc(r, k),
             UNCHANGED <<e, w, prod>>
      PROVE  r' \in Slots /\ ProdInv' /\ FullInv'
  <2>1. r' \in Slots /\ Live' \subseteq Live /\ space' = space + k
    BY <1>0, <1>b, AdvanceLemma
  <2>2. ProdInv'
    BY <1>0, <1>b, <2>1 DEF ProdInv, prod, TypeOK
  <2>3. FullInv'  BY <1>b, <2>1 DEF FullInv, Chunk, prod
  <2>. QED  BY <2>1, <2>2, <2>3
<1>1. CASE GetReady \/ Peek
  <2>1. 1 <= size /\ r + 1 <= eN
    BY <1>0, <1>1, SizeLemma DEF GetReady, Peek, readable, Slots
  <2>2. TypeOK'
    BY <1>0, <1>1 DEF GetReady, Peek, TypeOK, ring, prod
  <2>3. ConsInv'
    BY <1>0, <1>1, <2>1 DEF GetReady, Peek, ConsInv, ring, size
  <2>. QED  BY <1>1, <1>a, <2>2, <2>3 DEF GetReady, Peek
<1>2. CASE GetTake
  <2>1. cat = r /\ 1 <= size /\ r + 1 <= eN /\ clen = 1
    BY <1>2 DEF GetTake, ConsInv
  <2>2. r' \in Slots /\ ProdInv' /\ FullInv'
    BY <1>2, <1>b, <2>1 DEF GetTake
  <2>3. TypeOK'  BY <1>2, <2>2 DEF GetTake, TypeOK, prod
  <2>4. ConsInv'  BY <1>2, <2>1 DEF GetTake, ConsInv, inc
  <2>. QED  BY <2>2, <2>3, <2>4
<1>3. ASSUME NEW b \in BOOLEAN, HeldDone(b)  PROVE IInv'
  <2>1. TypeOK'  BY <1>3, GetReturnTypes DEF HeldDone, TypeOK, prod
  <2>2. ProdInv' /\ ConsInv'
    BY <1>3 DEF HeldDone, GetReturn, ProdInv, ConsInv, prod, space
  <2>3. cat \in Slots /\ inc(cat, 1) = r
    BY <1>3 DEF HeldDone, ConsInv, TypeOK
  <2>4. r = IF cat + 1 = eN THEN 0 ELSE cat + 1
    BY <1>0, <2>3, IncLemma DEF Slots
  <2>5. cat \notin Live
    BY <1>0, <2>3, <2>4 DEF Live, Slots
  <2>6. ASSUME ppc = "publish"  PROVE cat \notin Chunk
    <3>1. /\ plen \in 1..eN /\ pat = w /\ pat + plen <= eN /\ plen <= space
      BY <1>0, <2>6 DEF ProdInv, TypeOK
    <3>. QED  BY <1>0, <2>3, <3>1, ChunkLemma
  <2>7. \A i \in Slots : i # cat => e'[i] = e[i]
    BY <1>3 DEF HeldDone, TypeOK
  <2>8. Live' = Live /\ Chunk' = Chunk /\ Live \subseteq Slots /\ ppc' = ppc
    BY <1>3 DEF HeldDone, Live, Chunk, prod
  <2>9. FullInv'
    <3>1. \A s \in Live : e'[s] # Blank
      BY <2>5, <2>7, <2>8 DEF FullInv
    <3>2. ASSUME ppc = "publish"  PROVE \A s \in Chunk : e'[s] # Blank
      <4>1. Chunk \subseteq Slots
        BY <1>0, <3>2, ChunkLemma DEF ProdInv, TypeOK
      <4>. QED  BY <2>6, <2>7, <3>2, <4>1 DEF FullInv
    <3>. QED  BY <2>8, <3>1, <3>2 DEF FullInv
  <2>. QED  BY <2>1, <2>2, <2>9
<1>4. CASE PeekDone
  <2>1. TypeOK'  BY <1>4, GetReturnTypes DEF PeekDone, TypeOK, ring, prod
  <2>2. ConsInv'  BY <1>4 DEF PeekDone, GetReturn, ConsInv
  <2>. QED  BY <1>4, <1>a, <2>1, <2>2 DEF PeekDone
<1>5. ASSUME NEW m \in 1..MaxBulk, BulkGetCall(m)  PROVE IInv'
  <2>1. TypeOK' /\ ConsInv'
    BY <1>0, <1>5 DEF BulkGetCall, TypeOK, ConsInv, ring, prod
  <2>. QED  BY <1>5, <1>a, <2>1 DEF BulkGetCall
<1>6. CASE BulkGetRoom
  <2>1. /\ clen' \in 1..eN /\ clen' <= size /\ clen' <= want
        /\ r + clen' <= eN /\ cat' = r
    BY <1>0, <1>6 DEF BulkGetRoom, TypeOK, Min2, Slots
  <2>2. TypeOK'
    <3>1. cpc' = "copy" /\ UNCHANGED <<ring, prod, want, got>>
      BY <1>6 DEF BulkGetRoom
    <3>2. cat' \in Slots /\ clen' \in 0..eN  BY <1>0, <2>1
    <3>. QED  BY <3>1, <3>2 DEF TypeOK, ring, prod
  <2>3. ConsInv'
    BY <1>0, <1>6, <2>1 DEF BulkGetRoom, ConsInv, ring, size
  <2>. QED  BY <1>6, <1>a, <2>2, <2>3 DEF BulkGetRoom
<1>7. CASE BulkGetDone \/ BulkGetNext
  <2>1. TypeOK'
    <3>1. CASE BulkGetDone
      BY <3>1, GetReturnTypes DEF BulkGetDone, TypeOK, ring, prod
    <3>2. CASE BulkGetNext
      <4>1. 0 \in 0..MaxBulk /\ got' \in [1..0 -> Values \cup {Blank}]
        BY <1>0, <3>2 DEF BulkGetNext
      <4>2. /\ cpc' = "bulk" /\ cat' \in Slots /\ clen' \in 0..eN
            /\ UNCHANGED <<ring, prod, want>>
        BY <1>0, <3>2 DEF BulkGetNext, Slots
      <4>. QED  BY <4>1, <4>2 DEF TypeOK, ring, prod
    <3>. QED  BY <1>7, <3>1, <3>2
  <2>2. ConsInv'
    BY <1>7 DEF BulkGetDone, BulkGetNext, GetReturn, ConsInv
  <2>. QED  BY <1>7, <1>a, <2>1, <2>2 DEF BulkGetDone, BulkGetNext
<1>8. CASE BulkGetCopy
  <2>1. cat \in Slots /\ clen \in 1..eN /\ cat + clen <= eN /\ clen <= MaxBulk
    BY <1>0, <1>8 DEF BulkGetCopy, ConsInv, TypeOK
  <2>2. \A k \in 1..clen : e[cat + k - 1] \in Values \cup {Blank}
    BY <1>0, <2>1 DEF TypeOK, Slots
  <2>3. got' \in [1..clen -> Values \cup {Blank}]  BY <1>8, <2>2 DEF BulkGetCopy
  <2>4. clen \in 0..MaxBulk  BY <1>0, <2>1
  <2>5. TypeOK'
    BY <1>8, <2>3, <2>4 DEF BulkGetCopy, TypeOK, ring, prod
  <2>6. ConsInv'
    BY <1>8 DEF BulkGetCopy, ConsInv, ring, size, inc
  <2>. QED  BY <1>8, <1>a, <2>5, <2>6 DEF BulkGetCopy
<1>9. CASE BulkGetAdvance
  <2>1. /\ cat = r /\ clen \in 1..eN /\ cat + clen <= eN /\ clen <= size
        /\ clen <= want
    BY <1>0, <1>9 DEF BulkGetAdvance, ConsInv, TypeOK
  <2>2. r' \in Slots /\ ProdInv' /\ FullInv'
    BY <1>0, <1>9, <1>b, <2>1 DEF BulkGetAdvance
  <2>3. want' \in 0..MaxBulk
    BY <1>0, <1>9, <2>1 DEF BulkGetAdvance, TypeOK
  <2>4. TypeOK'  BY <1>9, <2>2, <2>3 DEF BulkGetAdvance, TypeOK, prod
  <2>5. ConsInv'  BY <1>9 DEF BulkGetAdvance, ConsInv
  <2>. QED  BY <2>2, <2>4, <2>5
<1>. QED
  BY <1>1, <1>2, <1>3, <1>4, <1>5, <1>6, <1>7, <1>8, <1>9 DEF Consumer, GetStep

LEMMA ClearStep == IInv /\ Clear => IInv'
<1>. SUFFICES ASSUME IInv, Clear PROVE IInv'  OBVIOUS
<1>1. TypeOK'
  BY NAssumption DEF IInv, Clear, TypeOK, Slots, prod, cons
<1>2. ProdInv' /\ ConsInv' /\ FullInv'
  BY DEF IInv, Clear, ProdInv, ConsInv, FullInv, Live, Slots, prod, cons
<1>. QED  BY <1>1, <1>2 DEF IInv

LEMMA StutterStep == IInv /\ UNCHANGED vars => IInv'
BY DEF IInv, vars, ring, prod, cons, TypeOK, ProdInv, ConsInv, FullInv, Live,
       Chunk, space, size, inc

\* Every reachable state satisfies the invariant.
THEOREM QueueInvariant == Spec => []IInv
<1>1. IInv /\ [Next]_vars => IInv'
  BY ProducerStep, ConsumerStep, ClearStep, StutterStep DEF Next
<1>. QED  BY InitIInv, <1>1, PTL DEF Spec

\* The indices of the ring and of both calls stay in the array, for every N.
THEOREM QueueTypeOK == Spec => []TypeOK
BY QueueInvariant, IInvSafe, PTL

\* The producer never writes a slot the consumer reads or still refers to
\* after get(), for every N and every bulk length.
THEOREM QueueNoSlotConflict == Spec => []NoSlotConflict
BY QueueInvariant, IInvSafe, PTL

\* No slot becomes readable before its element is in it.
THEOREM QueueNoBlankVisible == Spec => []NoBlankVisible
BY QueueInvariant, IInvSafe, PTL
=============================================================================

---------------------------- MODULE ERaFifoProofs ----------------------------
(***************************************************************************)
(* ERaQueue implements ERaFifo, for every capacity, element set and bulk   *)
(* bound.                                                                  *)
(*                                                                         *)
(* The argument: the abstract queue is what lies between r and w.  Storing *)
(* w is the abstract Put of the chunk that was copied before it, storing r *)
(* the abstract Take of what is behind the reference or was copied out.    *)
(* Moved says that the copies are still what they were when the index is   *)
(* stored, since the other side keeps out of these slots (IInv).           *)
(***************************************************************************)
EXTENDS ERaQueueProofs, SequenceTheorems

Moved ==
    /\ ppc = "publish" => \A j \in 1..plen : e[pat + j - 1] = src[off + j]
    /\ cpc = "advance" => \A k \in 1..clen : got[k] = e[cat + k - 1]
    /\ cpc \in {"advance", "taken"} =>
         \E m \in 1..MaxBulk : got \in [1..m -> Values \cup {Blank}] /\ (cpc = "advance" => m = clen)

FInv == IInv /\ Moved

-----------------------------------------------------------------------------
(* The slots between the indices, as a sequence.                           *)

\* The k-th slot to be read, without the remainder.
LEMMA PlaceLemma ==
  ASSUME w \in Slots, r \in Slots, NEW k \in Nat, k <= N
  PROVE  /\ inc(r, k) = IF r + k < eN THEN r + k ELSE r + k - eN
         /\ inc(r, k) \in Slots
<1>1. r + k \in Nat /\ r + k < 2 * eN  BY NAssumption DEF Slots, eN
<1>2. (r + k) % eN = IF r + k < eN THEN r + k ELSE (r + k) - eN
  BY ONLY <1>1, ModLemma
<1>. QED  BY <1>1, <1>2, NAssumption DEF inc, Slots, eN

LEMMA ContentsLemma ==
  ASSUME w \in Slots, r \in Slots, e \in [Slots -> Values \cup {Blank}]
  PROVE  /\ Contents \in Seq(Values \cup {Blank}) /\ Len(Contents) = size
         /\ \A k \in 1..size : Contents[k] = e[inc(r, k - 1)]
<1>1. size \in Nat /\ size <= N  BY SizeLemma, NAssumption
<1>2. \A k \in 1..size : e[inc(r, k - 1)] \in Values \cup {Blank}
  BY ReadLemma DEF Live
<1>3. Contents \in [1..size -> Values \cup {Blank}]  BY <1>2 DEF Contents
<1>. QED  BY <1>1, <1>3 DEF Contents

\* The queue is the same while neither index and none of its slots change.
LEMMA SameContents ==
  ASSUME w \in Slots, r \in Slots, w' = w, r' = r, \A i \in Live : e'[i] = e[i]
  PROVE  Contents' = Contents
<1>1. size' = size  BY DEF size
<1>2. \A k \in 1..size : e'[inc(r, k - 1)] = e[inc(r, k - 1)]  BY ReadLemma
<1>3. \A k \in 1..size : inc(r', k - 1) = inc(r, k - 1)  BY DEF inc
<1>. QED  BY <1>1, <1>2, <1>3 DEF Contents

\* The producer's chunk comes behind the queue.
LEMMA BehindLemma ==
  ASSUME w \in Slots, r \in Slots, e \in [Slots -> Values \cup {Blank}],
         plen \in 1..eN, pat = w, pat + plen <= eN, plen <= space,
         e' = e, r' = r, w' = inc(pat, plen),
         NEW s, s = [j \in 1..plen |-> e[pat + j - 1]]
  PROVE  Contents' = Contents \o s
<1>0. /\ N \in Nat /\ eN = N + 1 /\ size \in 0..N /\ space = N - size
      /\ size = IF r <= w THEN w - r ELSE w - r + eN
      /\ w \in Nat /\ r \in Nat /\ r < eN /\ w < eN
  BY SizeLemma, NAssumption DEF eN, Slots
<1>1. w' \in Slots /\ size' = size + plen  BY PublishLemma
<1>2. /\ Contents \in Seq(Values \cup {Blank}) /\ Len(Contents) = size
      /\ \A k \in 1..size : Contents[k] = e[inc(r, k - 1)]
  BY ContentsLemma
<1>3. s \in Seq(Values \cup {Blank}) /\ Len(s) = plen
      /\ \A j \in 1..plen : s[j] = e[pat + j - 1]
  <2>1. \A j \in 1..plen : pat + j - 1 \in Slots  BY <1>0 DEF Slots
  <2>2. s \in [1..plen -> Values \cup {Blank}]  BY <2>1
  <2>3. plen \in Nat  BY <1>0
  <2>. QED  BY <2>2, <2>3
<1>4. /\ Contents \o s \in Seq(Values \cup {Blank}) /\ Len(Contents \o s) = size + plen
      /\ \A k \in 1..(size + plen) :
           (Contents \o s)[k] = IF k <= size THEN Contents[k] ELSE s[k - size]
  <2>1. /\ Contents \o s \in Seq(Values \cup {Blank})
        /\ Len(Contents \o s) = Len(Contents) + Len(s)
        /\ \A k \in 1..(Len(Contents) + Len(s)) :
             (Contents \o s)[k] = IF k <= Len(Contents) THEN Contents[k] ELSE s[k - Len(Contents)]
    BY ONLY <1>2, <1>3, ConcatProperties, Zenon
  <2>. QED  BY ONLY <1>2, <1>3, <2>1, Zenon
<1>5. ASSUME NEW k \in 1..(size + plen)
      PROVE  (Contents \o s)[k] = e[inc(r, k - 1)]
  <2>1. CASE k <= size
    <3>1. k \in 1..size  BY <2>1, <1>0
    <3>. QED  BY <1>2, <1>4, <2>1, <3>1
  <2>2. CASE ~(k <= size)
    <3>1. k - size \in 1..plen /\ k - 1 \in Nat /\ k - 1 <= N  BY <1>0, <2>2
    <3>2. inc(r, k - 1) = IF r + (k - 1) < eN THEN r + (k - 1) ELSE r + (k - 1) - eN
      BY <3>1, PlaceLemma
    <3>3. inc(r, k - 1) = pat + (k - size) - 1  BY <1>0, <2>2, <3>1, <3>2
    <3>4. (Contents \o s)[k] = s[k - size]  BY <1>4, <2>2
    <3>. QED  BY <1>3, <3>1, <3>3, <3>4
  <2>. QED  BY <2>1, <2>2
<1>6. Contents' = [k \in 1..(size + plen) |-> e[inc(r, k - 1)]]
  <2>1. \A k \in 1..(size + plen) : e'[inc(r', k - 1)] = e[inc(r, k - 1)]  BY DEF inc
  <2>. QED  BY <1>1, <2>1 DEF Contents
<1>7. Contents \o s = [k \in 1..(size + plen) |-> (Contents \o s)[k]]
  BY <1>0, <1>4
<1>. QED  BY <1>5, <1>6, <1>7, Zenon

\* The consumer's chunk is the front of the queue.
LEMMA FrontLemma ==
  ASSUME w \in Slots, r \in Slots, e \in [Slots -> Values \cup {Blank}],
         NEW m \in Nat \ {0}, m <= size, r + m <= eN,
         e' = e, w' = w, r' = inc(r, m)
  PROVE  /\ Contents' = SubSeq(Contents, m + 1, Len(Contents))
         /\ SubSeq(Contents, 1, m) = [k \in 1..m |-> e[r + k - 1]]
<1>0. /\ N \in Nat /\ eN = N + 1 /\ size \in 0..N /\ space = N - size
      /\ size = IF r <= w THEN w - r ELSE w - r + eN
      /\ w \in Nat /\ r \in Nat /\ r < eN /\ w < eN
  BY SizeLemma, NAssumption DEF eN, Slots
<1>1. r' \in Slots /\ r' = IF r + m = eN THEN 0 ELSE r + m  BY IncLemma
<1>2. /\ Contents \in Seq(Values \cup {Blank}) /\ Len(Contents) = size
      /\ \A k \in 1..size : Contents[k] = e[inc(r, k - 1)]
  BY ContentsLemma
<1>3. size' = size - m
  BY <1>0, <1>1 DEF size
<1>4. SubSeq(Contents, 1, m) = [k \in 1..m |-> e[r + k - 1]]
  <2>1. ASSUME NEW k \in 1..m PROVE Contents[k] = e[r + k - 1]
    <3>1. k \in 1..size /\ k - 1 \in Nat /\ k - 1 <= N  BY <1>0
    <3>2. inc(r, k - 1) = IF r + (k - 1) < eN THEN r + (k - 1) ELSE r + (k - 1) - eN
      BY <3>1, PlaceLemma
    <3>3. inc(r, k - 1) = r + k - 1  BY <1>0, <3>1, <3>2
    <3>. QED  BY <1>2, <3>1, <3>3
  <2>2. SubSeq(Contents, 1, m) = [k \in 1..m |-> Contents[k]]
    BY <1>0, <1>2
  <2>. QED  BY <2>1, <2>2
<1>5. Contents' = SubSeq(Contents, m + 1, Len(Contents))
  <2>1. SubSeq(Contents, m + 1, Len(Contents)) = [k \in 1..(size - m) |-> Contents[m + k]]
    BY <1>0, <1>2
  <2>2. Contents' = [k \in 1..(size - m) |-> e[inc(r', k - 1)]]
    <3>1. \A k \in 1..(size - m) : e'[inc(r', k - 1)] = e[inc(r', k - 1)]  OBVIOUS
    <3>2. Contents' = [k \in 1..size' |-> e'[inc(r', k - 1)]]  BY DEF Contents, inc
    <3>. QED  BY <1>3, <3>1, <3>2
  <2>3. ASSUME NEW k \in 1..(size - m) PROVE Contents[m + k] = e[inc(r', k - 1)]
    <3>1. m + k \in 1..size /\ m + k - 1 \in Nat /\ m + k - 1 <= N /\ k - 1 \in Nat /\ k - 1 <= N
      BY <1>0
    <3>2. inc(r, m + k - 1)
            = IF r + (m + k - 1) < eN THEN r + (m + k - 1) ELSE r + (m + k - 1) - eN
      BY <3>1, PlaceLemma
    <3>3. inc(r', k - 1) = IF r' + (k - 1) < eN THEN r' + (k - 1) ELSE (r' + (k - 1)) - eN
      <4>1. r' + (k - 1) \in Nat /\ r' + (k - 1) < 2 * eN  BY <1>0, <1>1, <3>1 DEF Slots
      <4>2. (r' + (k - 1)) % eN
              = IF r' + (k - 1) < eN THEN r' + (k - 1) ELSE (r' + (k - 1)) - eN
        BY ONLY <4>1, ModLemma
      <4>3. inc(r', k - 1) = (r' + (k - 1)) % eN  BY ONLY TRUE DEF inc
      <4>. QED  BY ONLY <4>2, <4>3
    <3>4. inc(r', k - 1) = inc(r, m + k - 1)  BY <1>0, <1>1, <3>1, <3>2, <3>3
    <3>. QED  BY <1>2, <3>1, <3>4
  <2>. QED  BY <2>1, <2>2, <2>3
<1>. QED  BY <1>4, <1>5

-----------------------------------------------------------------------------
(* The steps: each one is a step of ERaFifo or leaves its state alone.     *)

FifoStep == Fifo!Next \/ UNCHANGED <<Contents, Out>>

LEMMA Facts ==
  ASSUME IInv
  PROVE  /\ w \in Slots /\ r \in Slots /\ e \in [Slots -> Values \cup {Blank}]
         /\ N \in Nat /\ N >= 1 /\ eN = N + 1 /\ MaxBulk \in Nat /\ MaxBulk >= 1
         /\ size \in 0..N /\ space = N - size
  BY SizeLemma, NAssumption, BulkAssumption DEF IInv, TypeOK, eN

\* What holds of the producer's chunk while it is written and published.
LEMMA CopyFacts ==
  ASSUME IInv, ppc \in {"copy", "publish"}
  PROVE  /\ plen \in 1..eN /\ pat = w /\ pat + plen <= eN /\ plen <= space /\ off + plen <= n
         /\ Chunk \subseteq Slots /\ Chunk \cap Live = {}
         /\ cpc = "held" => cat \notin Chunk
<1>1. /\ plen \in 1..eN /\ pat = w /\ pat + plen <= eN /\ plen <= space /\ off + plen <= n
      /\ cat \in Slots /\ (cpc = "held" => inc(cat, 1) = r)
  BY NAssumption DEF IInv, ProdInv, ConsInv, TypeOK, eN
<1>2. /\ Chunk \subseteq Slots /\ Chunk \cap Live = {}
      /\ \A a \in Slots : inc(a, 1) = r => a \notin Chunk
  BY Facts, <1>1, ChunkLemma
<1>. QED  BY <1>1, <1>2

\* What holds of the consumer's chunk while it is read and given back.
LEMMA ReadFacts ==
  ASSUME IInv, cpc \in {"take", "copy", "advance"}
  PROVE  /\ clen \in 1..eN /\ cat = r /\ cat + clen <= eN /\ clen <= size
         /\ cat..(cat + clen - 1) \subseteq Live
         /\ cpc \in {"copy", "advance"} => clen <= MaxBulk
         /\ cpc = "take" => clen = 1
<1>1. /\ clen \in 1..eN /\ cat = r /\ cat + clen <= eN /\ clen <= size
      /\ (cpc \in {"copy", "advance"} => clen <= want) /\ want \in 0..MaxBulk
      /\ (cpc = "take" => clen = 1)
  BY NAssumption DEF IInv, ConsInv, TypeOK, eN
<1>2. cat..(cat + clen - 1) \subseteq Live  BY Facts, <1>1, TakenLemma
<1>3. want <= MaxBulk /\ want \in Nat /\ clen \in Nat /\ MaxBulk \in Nat
  BY <1>1, BulkAssumption, NAssumption DEF eN
<1>. QED  BY <1>1, <1>2, <1>3

\* A step of the producer that touches none of the ring.
LEMMA ProducerQuiet ==
  ASSUME FInv, UNCHANGED <<ring, cons>>, ppc' # "publish"
  PROVE  Moved' /\ FifoStep
<1>1. e' = e /\ w' = w /\ r' = r /\ cpc' = cpc /\ cat' = cat /\ clen' = clen /\ got' = got
  BY DEF ring, cons
<1>2. Contents' = Contents  BY <1>1, Facts, SameContents DEF FInv
<1>3. Out' = Out  BY <1>1 DEF Out
<1>4. Moved'  BY <1>1 DEF FInv, Moved
<1>. QED  BY <1>2, <1>3, <1>4 DEF FifoStep

\* A step of the consumer that touches none of the ring and hands over nothing.
LEMMA ConsumerQuiet ==
  ASSUME FInv, UNCHANGED <<ring, prod>>,
         cpc \notin {"held", "taken"}, cpc' \notin {"held", "taken", "advance"}
  PROVE  Moved' /\ FifoStep
<1>1. e' = e /\ w' = w /\ r' = r /\ ppc' = ppc /\ src' = src /\ off' = off /\ pat' = pat /\ plen' = plen
  BY DEF ring, prod
<1>2. Contents' = Contents  BY <1>1, Facts, SameContents DEF FInv
<1>3. Out = <<>> /\ Out' = <<>>  BY DEF Out
<1>4. Moved'  BY <1>1 DEF FInv, Moved
<1>. QED  BY <1>2, <1>3, <1>4 DEF FifoStep

LEMMA PutCopyStep ==
  ASSUME FInv, PutCopy
  PROVE  Moved' /\ FifoStep
<1>0. IInv /\ ppc = "copy" /\ ppc' = "publish"  BY DEF FInv, PutCopy
<1>1. /\ w' = w /\ r' = r /\ src' = src /\ off' = off /\ pat' = pat /\ plen' = plen
      /\ cpc' = cpc /\ cat' = cat /\ clen' = clen /\ got' = got
  BY DEF PutCopy, cons
<1>2. /\ plen \in 1..eN /\ pat = w /\ pat + plen <= eN /\ Chunk \subseteq Slots
      /\ Chunk \cap Live = {} /\ (cpc = "held" => cat \notin Chunk)
  BY <1>0, CopyFacts
<1>3. /\ \A i \in Chunk : e'[i] = src[off + i - pat + 1]
      /\ \A i \in Slots : i \notin Chunk => e'[i] = e[i]
  BY <1>2 DEF PutCopy, Chunk
<1>4. Live \subseteq Slots  BY DEF Live
<1>5. Contents' = Contents
  <2>1. \A i \in Live : e'[i] = e[i]  BY <1>2, <1>3, <1>4
  <2>. QED  BY <1>0, <1>1, <2>1, Facts, SameContents
<1>6. Out' = Out
  <2>1. cat \in Slots  BY <1>0 DEF IInv, TypeOK
  <2>2. cpc = "held" => e'[cat] = e[cat]  BY <1>2, <1>3, <2>1
  <2>. QED  BY <1>1, <2>2 DEF Out
<1>7. \A j \in 1..plen : e'[pat + j - 1] = src[off + j]
  <2>1. SUFFICES ASSUME NEW j \in 1..plen PROVE e'[pat + j - 1] = src[off + j]  OBVIOUS
  <2>2. pat \in Nat /\ off \in Nat /\ plen \in Nat
    <3>1. n \in 0..MaxBulk /\ off \in 0..n  BY <1>0 DEF IInv, TypeOK
    <3>. QED  BY <1>0, <1>2, <3>1, Facts DEF Slots
  <2>3. pat + j - 1 \in Chunk /\ off + (pat + j - 1) - pat + 1 = off + j  BY <2>2 DEF Chunk
  <2>. QED  BY <1>3, <2>3
<1>8. cpc = "advance" => \A k \in 1..clen : got[k] = e'[cat + k - 1]
  <2>1. SUFFICES ASSUME cpc = "advance", NEW k \in 1..clen PROVE got[k] = e'[cat + k - 1]
    OBVIOUS
  <2>2. cat..(cat + clen - 1) \subseteq Live /\ cat \in Nat /\ clen \in Nat
    BY <1>0, <2>1, ReadFacts, Facts DEF Slots
  <2>3. cat + k - 1 \in Live  BY <2>2
  <2>4. e'[cat + k - 1] = e[cat + k - 1]  BY <1>2, <1>3, <1>4, <2>3
  <2>. QED  BY <2>1, <2>4 DEF FInv, Moved
<1>9. Moved'  BY <1>1, <1>7, <1>8 DEF FInv, Moved
<1>. QED  BY <1>5, <1>6, <1>9 DEF FifoStep

\* Storing w is the abstract Put.
LEMMA PutPublishStep ==
  ASSUME FInv, PutPublish
  PROVE  Moved' /\ FifoStep
<1> DEFINE s == [j \in 1..plen |-> e[pat + j - 1]]
<1>0. IInv /\ ppc = "publish"  BY DEF FInv, PutPublish
<1>1. /\ e' = e /\ r' = r /\ w' = inc(pat, plen) /\ ppc' # "publish"
      /\ cpc' = cpc /\ cat' = cat /\ clen' = clen /\ got' = got
  BY DEF PutPublish, PutReturn, cons
<1>2. plen \in 1..eN /\ pat = w /\ pat + plen <= eN /\ plen <= space /\ off + plen <= n
  BY <1>0, CopyFacts
<1>3. Contents' = Contents \o s  BY <1>0, <1>1, <1>2, Facts, BehindLemma
<1>4. n \in 0..MaxBulk /\ off \in 0..n /\ src \in [1..n -> Values]
  BY <1>0 DEF IInv, TypeOK
<1>5. plen \in 1..MaxBulk  BY <1>0, <1>2, <1>4, Facts
<1>6. s \in [1..plen -> Values]
  <2>1. ASSUME NEW j \in 1..plen PROVE e[pat + j - 1] \in Values
    <3>1. e[pat + j - 1] = src[off + j]  BY <1>0 DEF FInv, Moved
    <3>2. off + j \in 1..n  BY <1>2, <1>4
    <3>. QED  BY <1>4, <3>1, <3>2
  <2>. QED  BY <2>1
<1>7. Len(s) = plen  BY <1>5, <1>6
<1>8. Len(Contents) + Len(s) <= N
  <2>1. Len(Contents) = size  BY <1>0, Facts, ContentsLemma
  <2>. QED  BY <1>0, <1>2, <1>5, <1>7, <2>1, Facts
<1>9. s \in Fifo!Chunks  BY <1>5, <1>6 DEF Fifo!Chunks
<1>10. Out' = Out  BY <1>1 DEF Out
<1> HIDE DEF s
<1>11. Fifo!Put(s)  BY <1>3, <1>8, <1>10 DEF Fifo!Put
<1>12. Fifo!Next  BY <1>9, <1>11 DEF Fifo!Next
<1>13. Moved'  BY <1>1 DEF FInv, Moved
<1>. QED  BY <1>12, <1>13 DEF FifoStep

\* Storing r gives the element behind the reference to the caller: Take.
LEMMA GetTakeStep ==
  ASSUME FInv, GetTake
  PROVE  Moved' /\ FifoStep
<1>0. IInv /\ cpc = "take" /\ cpc' = "held"  BY DEF FInv, GetTake
<1>1. /\ e' = e /\ w' = w /\ r' = inc(r, 1) /\ cat' = cat
      /\ ppc' = ppc /\ src' = src /\ off' = off /\ pat' = pat /\ plen' = plen
  BY DEF GetTake, prod
<1>2. cat = r /\ 1 <= size /\ r + 1 <= eN  BY <1>0, ReadFacts DEF IInv, ConsInv
<1>3. /\ Contents' = SubSeq(Contents, 2, Len(Contents))
      /\ SubSeq(Contents, 1, 1) = [k \in 1..1 |-> e[r + k - 1]]
  <2>1. 1 \in Nat \ {0} /\ 1 + 1 = 2  OBVIOUS
  <2>. QED  BY <1>0, <1>1, <1>2, <2>1, Facts, FrontLemma
<1>4. Out = <<>>  BY <1>0 DEF Out
<1>5. Out' = [k \in 1..1 |-> e[cat]]  BY <1>0, <1>1 DEF Out
<1>6. [k \in 1..1 |-> e[r + k - 1]] = [k \in 1..1 |-> e[cat]]
  BY <1>0, <1>2, Facts DEF Slots
<1>7. Len(Contents) = size  BY <1>0, Facts, ContentsLemma
<1>8. Fifo!Take(1)  BY <1>2, <1>3, <1>4, <1>5, <1>6, <1>7 DEF Fifo!Take
<1>9. 1 \in 1..MaxBulk  BY BulkAssumption
<1>10. Fifo!Next  BY <1>8, <1>9 DEF Fifo!Next
<1>11. Moved'  BY <1>0, <1>1 DEF FInv, Moved
<1>. QED  BY <1>10, <1>11 DEF FifoStep

\* The caller is done with the reference; what it blanks is not in the queue,
\* nor in the producer's chunk.
LEMMA HeldDoneStep ==
  ASSUME FInv, NEW b \in BOOLEAN, HeldDone(b)
  PROVE  Moved' /\ FifoStep
<1>0. IInv /\ cpc = "held" /\ cpc' = "idle"  BY DEF FInv, HeldDone, GetReturn
<1>1. /\ w' = w /\ r' = r
      /\ ppc' = ppc /\ src' = src /\ off' = off /\ pat' = pat /\ plen' = plen
  BY DEF HeldDone, prod
<1>2. cat \in Slots /\ inc(cat, 1) = r  BY <1>0 DEF IInv, ConsInv, TypeOK
<1>3. \A i \in Slots : i # cat => e'[i] = e[i]
  BY <1>0, Facts DEF HeldDone
<1>4. cat \notin Live /\ Live \subseteq Slots
  <2>1. r = IF cat + 1 = eN THEN 0 ELSE cat + 1
    <3>1. cat + 1 <= eN /\ 1 \in Nat  BY <1>0, <1>2, Facts DEF Slots
    <3>. QED  BY <1>2, <3>1, IncLemma
  <2>. QED  BY <1>0, <1>2, <2>1, Facts DEF Live, Slots
<1>5. Contents' = Contents
  <2>1. \A i \in Live : e'[i] = e[i]  BY <1>3, <1>4
  <2>. QED  BY <1>0, <1>1, <2>1, Facts, SameContents
<1>6. Out # <<>> /\ Out' = <<>>
  <2>1. Out = [k \in 1..1 |-> e[cat]]  BY <1>0 DEF Out
  <2>2. [k \in 1..1 |-> e[cat]] # <<>>
    <3>1. Len([k \in 1..1 |-> e[cat]]) = 1 /\ Len(<<>>) = 0  OBVIOUS
    <3>. QED  BY ONLY <3>1
  <2>3. Out' = <<>>  BY <1>0 DEF Out
  <2>. QED  BY <2>1, <2>2, <2>3
<1>7. Fifo!Release  BY <1>5, <1>6 DEF Fifo!Release
<1>8. Fifo!Next  BY <1>7 DEF Fifo!Next
<1>9. ASSUME ppc = "publish", NEW j \in 1..plen PROVE e'[pat + j - 1] = src[off + j]
  <2>1. Chunk \subseteq Slots /\ cat \notin Chunk /\ pat = w  BY <1>0, <1>9, CopyFacts
  <2>2. pat \in Nat /\ plen \in Nat
    <3>1. plen \in 1..eN  BY <1>0, <1>9, CopyFacts
    <3>. QED  BY <1>0, <2>1, <3>1, Facts DEF Slots
  <2>3. pat + j - 1 \in Chunk  BY <2>2 DEF Chunk
  <2>4. e'[pat + j - 1] = e[pat + j - 1]  BY <1>3, <2>1, <2>3
  <2>. QED  BY <1>9, <2>4 DEF FInv, Moved
<1>10. Moved'  BY <1>0, <1>1, <1>9 DEF Moved
<1>. QED  BY <1>8, <1>10 DEF FifoStep

LEMMA BulkGetCopyStep ==
  ASSUME FInv, BulkGetCopy
  PROVE  Moved' /\ FifoStep
<1>0. IInv /\ cpc = "copy" /\ cpc' = "advance"  BY DEF FInv, BulkGetCopy
<1>1. /\ e' = e /\ w' = w /\ r' = r /\ cat' = cat /\ clen' = clen
      /\ got' = [k \in 1..clen |-> e[cat + k - 1]]
      /\ ppc' = ppc /\ src' = src /\ off' = off /\ pat' = pat /\ plen' = plen
  BY DEF BulkGetCopy, ring, prod
<1>2. Contents' = Contents  BY <1>0, <1>1, Facts, SameContents
<1>3. Out = <<>> /\ Out' = <<>>  BY <1>0 DEF Out
<1>4. clen \in 1..MaxBulk /\ cat..(cat + clen - 1) \subseteq Slots /\ cat \in Nat
  <2>1. clen \in 1..eN /\ clen <= MaxBulk /\ cat..(cat + clen - 1) \subseteq Live /\ cat = r
    BY <1>0, ReadFacts
  <2>. QED  BY <1>0, <2>1, Facts DEF Live, Slots
<1>5. got' \in [1..clen -> Values \cup {Blank}]
  <2>1. \A k \in 1..clen : cat + k - 1 \in Slots  BY <1>0, <1>4, Facts
  <2>. QED  BY <1>0, <1>1, <2>1, Facts
<1>6. Moved'
  <2>1. \A k \in 1..clen : got'[k] = e'[cat + k - 1]  BY <1>1
  <2>2. \E m \in 1..MaxBulk : got' \in [1..m -> Values \cup {Blank}] /\ m = clen
    BY <1>4, <1>5
  <2>. QED  BY <1>0, <1>1, <2>1, <2>2 DEF FInv, Moved
<1>. QED  BY <1>2, <1>3, <1>6 DEF FifoStep

\* Storing r gives the chunk that was copied out to the caller: Take.
LEMMA BulkGetAdvanceStep ==
  ASSUME FInv, BulkGetAdvance
  PROVE  Moved' /\ FifoStep
<1>0. IInv /\ cpc = "advance" /\ cpc' = "taken"  BY DEF FInv, BulkGetAdvance
<1>1. /\ e' = e /\ w' = w /\ r' = inc(cat, clen) /\ cat' = cat /\ clen' = clen /\ got' = got
      /\ ppc' = ppc /\ src' = src /\ off' = off /\ pat' = pat /\ plen' = plen
  BY DEF BulkGetAdvance, prod
<1>2. /\ clen \in 1..eN /\ cat = r /\ cat + clen <= eN /\ clen <= size /\ clen <= MaxBulk
  BY <1>0, ReadFacts
<1>3. clen \in Nat \ {0} /\ clen \in 1..MaxBulk  BY <1>0, <1>2, Facts
<1>4. /\ Contents' = SubSeq(Contents, clen + 1, Len(Contents))
      /\ SubSeq(Contents, 1, clen) = [k \in 1..clen |-> e[r + k - 1]]
  BY <1>0, <1>1, <1>2, <1>3, Facts, FrontLemma
<1>5. got = [k \in 1..clen |-> e[r + k - 1]]
  <2>1. \A k \in 1..clen : got[k] = e[r + k - 1]  BY <1>0, <1>2 DEF FInv, Moved
  <2>2. got \in [1..clen -> Values \cup {Blank}]  BY <1>0 DEF FInv, Moved
  <2>. QED  BY <2>1, <2>2
<1>6. Out = <<>> /\ Out' = got  BY <1>0, <1>1 DEF Out
<1>7. Len(Contents) = size  BY <1>0, Facts, ContentsLemma
<1>8. Fifo!Take(clen)  BY <1>2, <1>4, <1>5, <1>6, <1>7 DEF Fifo!Take
<1>9. Fifo!Next  BY <1>3, <1>8 DEF Fifo!Next
<1>10. Moved'  BY <1>0, <1>1 DEF FInv, Moved
<1>. QED  BY <1>9, <1>10 DEF FifoStep

LEMMA BulkGetNextStep ==
  ASSUME FInv, BulkGetNext
  PROVE  Moved' /\ FifoStep
<1>0. IInv /\ cpc = "taken" /\ cpc' = "bulk"  BY DEF FInv, BulkGetNext
<1>1. /\ e' = e /\ w' = w /\ r' = r
      /\ ppc' = ppc /\ src' = src /\ off' = off /\ pat' = pat /\ plen' = plen
  BY DEF BulkGetNext, ring, prod
<1>2. Contents' = Contents  BY <1>0, <1>1, Facts, SameContents
<1>3. Out # <<>> /\ Out' = <<>>
  <2>1. Out = got /\ Out' = <<>>  BY <1>0 DEF Out
  <2>2. PICK m \in 1..MaxBulk : got \in [1..m -> Values \cup {Blank}]  BY <1>0 DEF FInv, Moved
  <2>3. m \in Nat /\ m >= 1  BY <1>0, Facts
  <2>4. DOMAIN got = 1..m /\ 1 \in 1..m  BY <2>2, <2>3
  <2>5. DOMAIN <<>> = {}  OBVIOUS
  <2>6. got # <<>>  BY ONLY <2>4, <2>5
  <2>. QED  BY <2>1, <2>6
<1>4. Fifo!Next  BY <1>2, <1>3 DEF Fifo!Next, Fifo!Release
<1>5. Moved'  BY <1>0, <1>1 DEF FInv, Moved
<1>. QED  BY <1>4, <1>5 DEF FifoStep

LEMMA ClearFifoStep ==
  ASSUME FInv, Clear
  PROVE  Moved' /\ FifoStep
<1>0. /\ w' = 0 /\ r' = 0 /\ ppc' = "idle" /\ cpc' = "idle" /\ cpc = "idle"
  BY DEF Clear, prod, cons
<1>1. Contents' = <<>>
  <2>1. size' = 0  BY <1>0 DEF size
  <2>. QED  BY <2>1 DEF Contents
<1>2. Out' = Out  BY <1>0 DEF Out
<1>3. Fifo!Next  BY <1>1, <1>2 DEF Fifo!Next, Fifo!Clear
<1>4. Moved'  BY <1>0 DEF Moved
<1>. QED  BY <1>3, <1>4 DEF FifoStep

LEMMA StepMaps ==
  ASSUME FInv, [Next]_vars
  PROVE  Moved' /\ FifoStep
<1>1. ASSUME NEW v \in Values, PutCall(v) PROVE Moved' /\ FifoStep
  BY <1>1, ProducerQuiet DEF PutCall
<1>2. ASSUME NEW m \in 1..MaxBulk, NEW s \in [1..m -> Values], BulkPutCall(s, m)
      PROVE  Moved' /\ FifoStep
  BY <1>2, ProducerQuiet DEF BulkPutCall, cons
<1>3. CASE PutSpin \/ BulkPutRoom \/ BulkPutFull
  BY <1>3, ProducerQuiet DEF PutSpin, BulkPutRoom, BulkPutFull, PutReturn, ring, cons
<1>4. CASE PutCopy  BY <1>4, PutCopyStep
<1>5. CASE PutPublish  BY <1>5, PutPublishStep
<1>6. CASE GetReady \/ Peek \/ PeekDone \/ BulkGetRoom \/ BulkGetDone
  BY <1>6, ConsumerQuiet DEF GetReady, Peek, PeekDone, BulkGetRoom, BulkGetDone, GetReturn, ring, prod
<1>7. ASSUME NEW m \in 1..MaxBulk, BulkGetCall(m) PROVE Moved' /\ FifoStep
  BY <1>7, ConsumerQuiet DEF BulkGetCall, ring, prod
<1>8. CASE GetTake  BY <1>8, GetTakeStep
<1>9. ASSUME NEW b \in BOOLEAN, HeldDone(b) PROVE Moved' /\ FifoStep
  BY <1>9, HeldDoneStep
<1>10. CASE BulkGetCopy  BY <1>10, BulkGetCopyStep
<1>11. CASE BulkGetAdvance  BY <1>11, BulkGetAdvanceStep
<1>12. CASE BulkGetNext  BY <1>12, BulkGetNextStep
<1>13. CASE Clear  BY <1>13, ClearFifoStep
<1>14. CASE UNCHANGED vars
  <2>1. Moved'  BY <1>14 DEF FInv, Moved, vars, ring, prod, cons
  <2>2. Contents' = Contents /\ Out' = Out
    BY <1>14 DEF Contents, Out, size, inc, vars, ring, cons
  <2>. QED  BY <2>1, <2>2 DEF FifoStep
<1>. QED
  BY <1>1, <1>2, <1>3, <1>4, <1>5, <1>6, <1>7, <1>8, <1>9, <1>10, <1>11, <1>12, <1>13, <1>14
  DEF Next, Producer, PutStep, Consumer, GetStep

\* The ring implements the bounded FIFO, for every capacity: each chunk comes
\* out whole, in order and once, and what get() refers to keeps its value
\* until its user is done, although its slot was given back.
THEOREM QueueImplementsFifo == Spec => FifoSpec
<1>1. Init => Moved  BY DEF Init, Moved
<1>2. Init => Fifo!Init
  <2>. SUFFICES ASSUME Init PROVE Contents = <<>> /\ Out = <<>>  BY DEF Fifo!Init
  <2>1. w = 0 /\ r = 0 /\ cpc = "idle"  BY DEF Init
  <2>2. size = 0  BY <2>1 DEF size
  <2>3. Contents = <<>>  BY <2>2 DEF Contents
  <2>4. Out = <<>>  BY <2>1 DEF Out
  <2>. QED  BY <2>3, <2>4
<1>3. IInv /\ Moved /\ [Next]_vars => Moved' /\ [Fifo!Next]_(Fifo!vars)
  BY StepMaps DEF FInv, FifoStep, Fifo!vars
<1>. QED  BY <1>1, <1>2, <1>3, QueueInvariant, PTL DEF Spec, FifoSpec, Fifo!Spec
=============================================================================

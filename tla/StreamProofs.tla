----------------------------- MODULE StreamProofs -----------------------------
(***************************************************************************)
(* Proofs about Stream, for a buffer of any capacity, any number of bytes  *)
(* and of writes, and writes of any sizes: the bytes reach the owner in    *)
(* order, libuv reads only into room, the handle is closed once and last,  *)
(* the memory in flight is counted, and the ring buffer under the stream   *)
(* is a bounded queue.                                                     *)
(***************************************************************************)
EXTENDS Stream, SequenceTheorems, WellFoundedInduction, TLAPS

(* Induction, on a set of numbers: by the least number it would miss.       *)
LEMMA AllUpTo ==
    ASSUME NEW len \in Nat, NEW N, 0 \in N,
           \A n \in 0 .. len - 1 : n \in N => n + 1 \in N
    PROVE  \A n \in 0 .. len : n \in N
<1> DEFINE Bad == {n \in 0 .. len : n \notin N}
<1>1. SUFFICES ASSUME Bad # {} PROVE FALSE
  OBVIOUS
<1>2. Bad \in SUBSET Nat
  OBVIOUS
<1>3. PICK m \in Bad : \A k \in Bad : m <= k
  <2> HIDE DEF Bad
  <2>1. PICK m \in Bad : \A k \in Bad : <<k, m>> \notin OpToRel(<, Nat)
    BY <1>1, <1>2, WFMin, NatLessThanWellFounded, Zenon
  <2>2. \A k \in Bad : ~(k < m)
    BY <1>2, <2>1, Zenon DEF OpToRel
  <2> QED  BY <1>2, <2>2
<1>4. m \in Nat /\ m # 0 /\ m <= len /\ m \notin N
  BY <1>3
<1>5. m - 1 \in 0 .. len - 1 /\ m - 1 \notin Bad
  BY <1>3, <1>4
<1>6. m - 1 \in N
  BY <1>5
<1> QED  BY <1>4, <1>5, <1>6

-----------------------------------------------------------------------------
(***************************************************************************)
(* The ring buffer, for every capacity and every set of bytes: the         *)
(* pointers stay within the array and agree with the size, and the buffer  *)
(* implements the bounded queue of ByteQueue.                              *)
(***************************************************************************)
Inv == RingTypeOK /\ PointersAgree

(* A wrapped pointer is within the array again. *)
LEMMA WrapType ==
    ASSUME NEW p \in Nat, p < 2 * Capacity
    PROVE  Wrap(p) \in Offset
BY RingAssumption DEF Wrap, Offset

(* A run that starts at the write pointer of a buffer with room is fresh   *)
(* memory up to its end.                                                   *)
LEMMA WriteCountFits ==
    ASSUME Inv
    PROVE  /\ WriteCount \in 0 .. Space
           /\ writePtr + WriteCount <= Capacity
<1> USE RingAssumption DEF Inv, RingTypeOK, PointersAgree, Offset, Wrap, WriteCount, Space
<1>1. CASE size = Capacity
  BY <1>1
<1>2. CASE size # Capacity /\ writePtr >= readPtr
  BY <1>2
<1>3. CASE size # Capacity /\ writePtr < readPtr
  BY <1>3
<1> QED
  BY <1>1, <1>2, <1>3

(* What is read from any array at any offset is a sequence of bytes. *)
LEMMA WindowType ==
    ASSUME NEW d \in [Offset -> Byte], NEW r \in Offset, NEW s \in 0 .. Capacity
    PROVE  LET w == [i \in 1 .. s |-> d[Wrap(r + (i - 1))]]
           IN  w \in Seq(Byte) /\ Len(w) = s
<1>1. s \in Nat
  BY RingAssumption
<1>2. ASSUME NEW i \in 1 .. s PROVE d[Wrap(r + (i - 1))] \in Byte
  <2>1. r + (i - 1) \in Nat /\ r + (i - 1) < 2 * Capacity
    BY RingAssumption DEF Offset
  <2> QED
    BY <2>1, WrapType
<1>3. [i \in 1 .. s |-> d[Wrap(r + (i - 1))]] \in [1 .. s -> Byte]
  BY <1>2
<1> QED
  BY <1>1, <1>3

(* The three operations keep the invariant. *)
LEMMA ProduceInv ==
    ASSUME Inv, NEW n \in 1 .. Capacity, NEW run \in [1 .. n -> Byte], Produce(run)
    PROVE  Inv' /\ Len(run) = n
<1>1. Len(run) = n
  BY RingAssumption
<1>2. n \in 1 .. Space /\ writePtr + n <= Capacity
  BY <1>1, WriteCountFits, RingAssumption DEF Produce, Inv, RingTypeOK, Offset, Space
<1>3. data' \in [Offset -> Byte]
  <2> SUFFICES ASSUME NEW o \in Offset
               PROVE  (IF o \in writePtr .. writePtr + n - 1
                       THEN run[o - writePtr + 1] ELSE data[o]) \in Byte
    BY <1>1 DEF Produce
  <2>1. CASE o \in writePtr .. writePtr + n - 1
    <3>1. o - writePtr + 1 \in 1 .. n
      BY <2>1, RingAssumption DEF Inv, RingTypeOK, Offset
    <3> QED
      BY <2>1, <3>1
  <2>2. CASE o \notin writePtr .. writePtr + n - 1
    BY <2>2 DEF Inv, RingTypeOK
  <2> QED
    BY <2>1, <2>2
<1>4. size' = size + n /\ readPtr' = readPtr /\ writePtr' = Wrap(writePtr + n)
  BY <1>1 DEF Produce
<1>5. RingTypeOK'
  BY <1>2, <1>3, <1>4, RingAssumption DEF RingTypeOK, Inv, Offset, Wrap, Space
<1>6. PointersAgree'
  BY <1>2, <1>4, RingAssumption DEF RingTypeOK, PointersAgree, Inv, Offset, Wrap, Space
<1> QED
  BY <1>1, <1>5, <1>6 DEF Inv

LEMMA ConsumeInv ==
    ASSUME Inv, NEW n \in 1 .. Capacity, Consume(n)
    PROVE  Inv'
BY RingAssumption DEF Inv, RingTypeOK, PointersAgree, Consume, Offset, Wrap

LEMMA ResetInv ==
    ASSUME Inv, Reset
    PROVE  Inv'
<1>1. data' \in [Offset -> Byte]
  <2> SUFFICES ASSUME NEW o \in Offset
               PROVE  (IF o < size THEN Get(o) ELSE data[o]) \in Byte
    BY DEF Reset
  <2>1. CASE o < size
    <3>1. readPtr + o \in Nat /\ readPtr + o < 2 * Capacity
      BY RingAssumption DEF Inv, RingTypeOK, Offset
    <3>2. Wrap(readPtr + o) \in Offset
      BY <3>1, WrapType
    <3> QED
      BY <2>1, <3>2 DEF Inv, RingTypeOK, Get
  <2>2. CASE ~(o < size)
    BY <2>2 DEF Inv, RingTypeOK
  <2> QED
    BY <2>1, <2>2
<1>2. size' = size /\ readPtr' = 0 /\ writePtr' = Wrap(size)
  BY DEF Reset
<1>3. Wrap(size) \in Offset
  BY RingAssumption DEF Inv, RingTypeOK, Wrap, Offset
<1> QED
  BY <1>1, <1>2, <1>3, RingAssumption DEF Inv, RingTypeOK, PointersAgree, Offset

LEMMA InitInv == RingInit => Inv
BY RingAssumption DEF RingInit, Inv, RingTypeOK, PointersAgree, Wrap, Offset

LEMMA NextInv == Inv /\ [RingNext]_ringVars => Inv'
<1> SUFFICES ASSUME Inv, [RingNext]_ringVars PROVE Inv'
  OBVIOUS
<1>1. ASSUME NEW n \in 1 .. Capacity, Consume(n) PROVE Inv'
  BY <1>1, ConsumeInv
<1>2. ASSUME NEW n \in 1 .. Capacity, NEW run \in [1 .. n -> Byte], Produce(run)
      PROVE  Inv'
  BY <1>2, ProduceInv
<1>3. CASE Reset
  BY <1>3, ResetInv
<1>4. CASE UNCHANGED ringVars
  BY <1>4 DEF Inv, RingTypeOK, PointersAgree, ringVars, Wrap, Offset
<1> QED
  BY <1>1, <1>2, <1>3, <1>4 DEF RingNext

(* The content before a step and after it. *)
LEMMA ContentType ==
    ASSUME Inv, Inv'
    PROVE  /\ Content \in Seq(Byte) /\ Len(Content) = size
           /\ Content' \in Seq(Byte) /\ Len(Content)' = size'
<1>1. Content \in Seq(Byte) /\ Len(Content) = size
  BY WindowType DEF Inv, RingTypeOK, Content, Get
<1>2. Content' \in Seq(Byte) /\ Len(Content') = size'
  BY WindowType DEF Inv, RingTypeOK, Content, Get
<1> QED
  BY <1>1, <1>2

(* What the three operations do to the content. *)
LEMMA ProduceContent ==
    ASSUME Inv, NEW n \in 1 .. Capacity, NEW run \in [1 .. n -> Byte], Produce(run)
    PROVE  Content' = Content \o run
<1>1. Inv' /\ Len(run) = n
  BY ProduceInv
<1>2. /\ Content \in Seq(Byte) /\ Len(Content) = size
      /\ Content' \in Seq(Byte) /\ Len(Content') = size'
  BY <1>1, ContentType
<1>3. run \in Seq(Byte)
  BY RingAssumption
<1>4. /\ Content \o run \in Seq(Byte)
      /\ Len(Content \o run) = size + n
      /\ \A i \in 1 .. size + n :
            (Content \o run)[i] = IF i <= size THEN Content[i] ELSE run[i - size]
  BY <1>1, <1>2, <1>3, ConcatProperties
<1>5. size' = size + n /\ readPtr' = readPtr
  BY <1>1 DEF Produce
<1>6. n \in 1 .. Space /\ writePtr + n <= Capacity
  BY <1>1, WriteCountFits, RingAssumption DEF Produce, Inv, RingTypeOK, Offset, Space
<1>7. ASSUME NEW i \in 1 .. size + n
      PROVE  Content'[i] = IF i <= size THEN Content[i] ELSE run[i - size]
  <2> DEFINE o == Wrap(readPtr + (i - 1))
  <2>1. o \in Offset
    <3>1. readPtr + (i - 1) \in Nat /\ readPtr + (i - 1) < 2 * Capacity
      BY <1>6, RingAssumption DEF Inv, RingTypeOK, Offset, Space
    <3> QED
      BY <3>1, WrapType
  <2>2. Content'[i] = data'[o]
    BY <1>5 DEF Content, Get
  <2>3. data'[o] = IF o \in writePtr .. writePtr + n - 1
                   THEN run[o - writePtr + 1] ELSE data[o]
    BY <2>1, <1>1 DEF Produce
  <2>4. CASE i <= size
    <3>1. o \notin writePtr .. writePtr + n - 1
      BY <2>4, <1>6, RingAssumption
         DEF Inv, RingTypeOK, PointersAgree, Offset, Wrap, Space
    <3>2. Content[i] = data[o]
      BY <2>4, RingAssumption DEF Content, Get, Inv, RingTypeOK
    <3> QED
      BY <2>2, <2>3, <2>4, <3>1, <3>2
  <2>5. CASE i > size
    <3>1. o = writePtr + (i - size - 1)
      BY <2>5, <1>6, RingAssumption
         DEF Inv, RingTypeOK, PointersAgree, Offset, Wrap, Space
    <3>2. o \in writePtr .. writePtr + n - 1 /\ o - writePtr + 1 = i - size
      BY <2>5, <3>1, RingAssumption DEF Inv, RingTypeOK, Offset
    <3>3. ~(i <= size)
      BY <2>5, RingAssumption DEF Inv, RingTypeOK
    <3> QED
      BY <2>2, <2>3, <3>2, <3>3
  <2> QED
    BY <2>4, <2>5, RingAssumption DEF Inv, RingTypeOK
<1>8. Len(Content') = Len(Content \o run)
  BY <1>2, <1>4, <1>5
<1>9. \A i \in 1 .. Len(Content') : Content'[i] = (Content \o run)[i]
  BY <1>2, <1>4, <1>5, <1>7
<1> QED
  BY <1>2, <1>4, <1>8, <1>9, SeqEqual

LEMMA ConsumeContent ==
    ASSUME Inv, NEW n \in 1 .. Capacity, Consume(n)
    PROVE  Content' = SubSeq(Content, n + 1, Len(Content))
<1>1. Inv'
  BY ConsumeInv
<1>2. /\ Content \in Seq(Byte) /\ Len(Content) = size
      /\ Content' \in Seq(Byte) /\ Len(Content') = size'
  BY <1>1, ContentType
<1>3. n \in 1 .. size /\ size' = size - n /\ data' = data
      /\ readPtr' = Wrap(readPtr + n) /\ size \in 0 .. Capacity /\ readPtr \in Offset
  BY DEF Consume, Inv, RingTypeOK
<1> DEFINE rest == SubSeq(Content, n + 1, size)
<1>4. \A i \in n + 1 .. size : Content[i] \in Byte
  BY <1>2, <1>3, ElementOfSeq, RingAssumption
<1>5. /\ rest \in Seq(Byte)
      /\ Len(rest) = IF n + 1 <= size THEN size - (n + 1) + 1 ELSE 0
      /\ \A i \in 1 .. size - (n + 1) + 1 : rest[i] = Content[n + 1 + i - 1]
  BY <1>3, <1>4, SubSeqProperties, RingAssumption
<1>6. Len(rest) = size'
  BY <1>3, <1>5, RingAssumption
<1>7. ASSUME NEW i \in 1 .. size' PROVE Content'[i] = rest[i]
  <2>1. rest[i] = Content[n + i] /\ n + i \in 1 .. size
    BY <1>3, <1>5, RingAssumption
  <2>2. Content[n + i] = data[Wrap(readPtr + (n + i - 1))]
    BY <2>1 DEF Content, Get
  <2>3. Content'[i] = data[Wrap(Wrap(readPtr + n) + (i - 1))]
    BY <1>3 DEF Content, Get
  <2>4. Wrap(Wrap(readPtr + n) + (i - 1)) = Wrap(readPtr + (n + i - 1))
    BY <1>3, RingAssumption DEF Wrap, Offset
  <2> QED
    BY <2>1, <2>2, <2>3, <2>4
<1> QED
  BY <1>2, <1>5, <1>6, <1>7, SeqEqual

LEMMA ResetContent ==
    ASSUME Inv, Reset
    PROVE  Content' = Content
<1>1. Inv'
  BY ResetInv
<1>2. /\ Content \in Seq(Byte) /\ Len(Content) = size
      /\ Content' \in Seq(Byte) /\ Len(Content') = size'
  BY <1>1, ContentType
<1>3. size' = size /\ readPtr' = 0 /\ size \in 0 .. Capacity
  BY DEF Reset, Inv, RingTypeOK
<1>4. ASSUME NEW i \in 1 .. size PROVE Content'[i] = Content[i]
  <2>1. i - 1 \in Offset /\ i - 1 < size /\ Wrap(0 + (i - 1)) = i - 1
    BY <1>3, RingAssumption DEF Offset, Wrap
  <2>2. Content'[i] = data'[i - 1]
    BY <1>3, <2>1 DEF Content, Get
  <2>3. data'[i - 1] = Get(i - 1)
    BY <2>1 DEF Reset
  <2> QED
    BY <2>2, <2>3 DEF Content
<1> QED
  BY <1>2, <1>3, <1>4, SeqEqual

(* The pointers stay within the array and the size within its capacity. *)
THEOREM RingTypeCorrect == RingSpec => []RingTypeOK
<1>1. Inv => RingTypeOK
  BY DEF Inv
<1> QED
  BY InitInv, NextInv, <1>1, PTL DEF RingSpec

(* Read pointer, write pointer and size never tell different contents. *)
THEOREM PointersKept == RingSpec => []PointersAgree
<1>1. Inv => PointersAgree
  BY DEF Inv
<1> QED
  BY InitInv, NextInv, <1>1, PTL DEF RingSpec

(* The ring buffer is a queue: every step of it is a step of the bounded   *)
(* queue of bytes, or a reset, which leaves the queue alone.               *)
THEOREM RingIsQueue == RingSpec => ImplementsQueue
<1>1. RingInit => Queue!QueueInit
  BY DEF RingInit, Queue!QueueInit, Content
<1>2. Inv /\ [RingNext]_ringVars => [Queue!QueueNext]_Content
  <2> SUFFICES ASSUME Inv, [RingNext]_ringVars
               PROVE  Queue!QueueNext \/ Content' = Content
    OBVIOUS
  <2>1. Inv'
    BY NextInv
  <2>2. /\ Content \in Seq(Byte) /\ Len(Content) = size
        /\ size \in 0 .. Capacity /\ size' \in 0 .. Capacity
    BY <2>1, ContentType DEF Inv, RingTypeOK
  <2>3. ASSUME NEW n \in 1 .. Capacity, Consume(n) PROVE Queue!QueueNext
    <3>1. n \in 1 .. Len(Content)
      BY <2>2, <2>3 DEF Consume
    <3>2. Queue!Take(n)
      BY <2>3, <3>1, ConsumeContent DEF Queue!Take
    <3> QED
      BY <3>2 DEF Queue!QueueNext
  <2>4. ASSUME NEW n \in 1 .. Capacity, NEW run \in [1 .. n -> Byte], Produce(run)
        PROVE  Queue!QueueNext
    <3>1. Len(run) = n /\ size' = size + n
      BY <2>4, ProduceInv DEF Produce
    <3>2. Len(Content) + Len(run) <= Capacity
      BY <2>2, <3>1, RingAssumption
    <3>3. Queue!Put(run)
      BY <2>4, <3>2, ProduceContent DEF Queue!Put
    <3> QED
      BY <3>3 DEF Queue!QueueNext, Queue!Runs
  <2>5. CASE Reset
    BY <2>5, ResetContent
  <2>6. CASE UNCHANGED ringVars
    BY <2>6 DEF ringVars, Content, Get
  <2> QED
    BY <2>3, <2>4, <2>5, <2>6 DEF RingNext
<1> QED
  BY InitInv, NextInv, <1>1, <1>2, PTL DEF RingSpec, ImplementsQueue, Queue!QueueSpec

-----------------------------------------------------------------------------
(***************************************************************************)
(* The sum of a sequence.  The recursion is unfolded by induction on its   *)
(* length.                                                                 *)
(***************************************************************************)
SumTo(g, s, n) == \A i \in 0 .. n : g[i] = IF i = 0 THEN 0 ELSE g[i - 1] + s[i]

LEMMA SumExists ==
    ASSUME NEW s \in Seq(Nat)
    PROVE  \E g \in [0 .. Len(s) -> Nat] : SumTo(g, s, Len(s))
<1> DEFINE N == {n \in 0 .. Len(s) : \E g \in [0 .. n -> Nat] : SumTo(g, s, n)}
<1>1. 0 \in N
  <2> DEFINE g == [i \in 0 .. 0 |-> 0]
  <2>1. g \in [0 .. 0 -> Nat] /\ SumTo(g, s, 0)
    BY DEF SumTo
  <2> QED  BY <2>1
<1>2. ASSUME NEW n \in 0 .. Len(s) - 1, n \in N
      PROVE  n + 1 \in N
  <2>1. PICK g \in [0 .. n -> Nat] : SumTo(g, s, n)
    BY <1>2
  <2>2. s[n + 1] \in Nat
    OBVIOUS
  <2> DEFINE h == [i \in 0 .. n + 1 |-> IF i = n + 1 THEN g[n] + s[n + 1] ELSE g[i]]
  <2>3. h \in [0 .. n + 1 -> Nat]
    BY <2>2
  <2>4. ASSUME NEW i \in 0 .. n + 1
        PROVE  h[i] = IF i = 0 THEN 0 ELSE h[i - 1] + s[i]
    <3>1. CASE i = n + 1
      BY <3>1
    <3>2. CASE i # n + 1
      <4>1. i \in 0 .. n /\ h[i] = g[i]
        BY <3>2
      <4>2. i # 0 => h[i - 1] = g[i - 1]
        BY <4>1
      <4> QED  BY <2>1, <4>1, <4>2 DEF SumTo
    <3> QED  BY <3>1, <3>2
  <2>5. SumTo(h, s, n + 1)
    BY <2>4 DEF SumTo
  <2>6. n + 1 \in 0 .. Len(s)
    OBVIOUS
  <2> HIDE DEF h
  <2> QED  BY <2>3, <2>5, <2>6
<1>3. \A n \in 0 .. Len(s) : n \in N
  <2>1. Len(s) \in Nat
    OBVIOUS
  <2> HIDE DEF N
  <2> QED  BY <2>1, <1>1, <1>2, AllUpTo
<1> QED  BY <1>3

(* Total is the last value of a solution of its recursion. *)
LEMMA TotalIsLast ==
    ASSUME NEW s \in Seq(Nat)
    PROVE  \E g \in [0 .. Len(s) -> Nat] : SumTo(g, s, Len(s)) /\ Total(s) = g[Len(s)]
<1> DEFINE Solves(g) == g = [n \in 0 .. Len(s) |-> IF n = 0 THEN 0 ELSE g[n - 1] + s[n]]
           upTo == CHOOSE g : Solves(g)
<1>1. PICK g \in [0 .. Len(s) -> Nat] : SumTo(g, s, Len(s))
  BY SumExists
<1>2. Solves(g)
  BY <1>1 DEF SumTo
<1>3. Solves(upTo)
  BY <1>2
<1>4. Total(s) = upTo[Len(s)]
  BY DEF Total
<1>5. SumTo(upTo, s, Len(s)) /\ upTo = [n \in 0 .. Len(s) |-> upTo[n]]
  <2> HIDE DEF upTo
  <2> QED  BY <1>3 DEF SumTo
<1> HIDE DEF upTo
<1>6. ASSUME NEW n \in 0 .. Len(s) PROVE upTo[n] = g[n]
  <2> DEFINE N == {k \in 0 .. Len(s) : upTo[k] = g[k]}
  <2>1. Len(s) \in Nat
    OBVIOUS
  <2>2. 0 \in N
    <3>1. 0 \in 0 .. Len(s)
      BY <2>1
    <3>2. upTo[0] = 0 /\ g[0] = 0
      BY <1>1, <1>5, <3>1, Zenon DEF SumTo
    <3> QED  BY <3>1, <3>2
  <2>3. ASSUME NEW k \in 0 .. Len(s) - 1, k \in N
        PROVE  k + 1 \in N
    <3>1. k + 1 \in 0 .. Len(s) /\ k + 1 # 0 /\ (k + 1) - 1 = k
      BY <2>1
    <3>2. upTo[k + 1] = upTo[k] + s[k + 1] /\ g[k + 1] = g[k] + s[k + 1]
      BY <1>1, <1>5, <3>1 DEF SumTo
    <3> QED  BY <2>3, <3>1, <3>2
  <2>4. \A k \in 0 .. Len(s) : k \in N
    <3> HIDE DEF N
    <3> QED  BY <2>1, <2>2, <2>3, AllUpTo
  <2> QED  BY <2>4
<1> QED  BY <1>1, <1>4, <1>6

LEMMA TotalEmpty == Total(<< >>) = 0
<1>1. << >> \in Seq(Nat) /\ Len(<< >>) = 0
  OBVIOUS
<1>2. PICK g \in [0 .. 0 -> Nat] : SumTo(g, << >>, 0) /\ Total(<< >>) = g[0]
  BY <1>1, TotalIsLast
<1> QED  BY <1>2 DEF SumTo

(* One element more at the end. *)
LEMMA TotalAppend ==
    ASSUME NEW s \in Seq(Nat), NEW x \in Nat
    PROVE  Total(s) \in Nat /\ Total(Append(s, x)) = Total(s) + x
<1> DEFINE t == Append(s, x)
<1>1. /\ t \in Seq(Nat) /\ Len(s) \in Nat /\ Len(t) = Len(s) + 1 /\ t[Len(s) + 1] = x
      /\ \A i \in 1 .. Len(s) : t[i] = s[i]
  OBVIOUS
<1> HIDE DEF t
<1>2. PICK g \in [0 .. Len(s) -> Nat] : SumTo(g, s, Len(s)) /\ Total(s) = g[Len(s)]
  BY TotalIsLast
<1>3. PICK h \in [0 .. Len(t) -> Nat] : SumTo(h, t, Len(t)) /\ Total(t) = h[Len(t)]
  BY <1>1, TotalIsLast
<1> DEFINE N == {k \in 0 .. Len(s) : h[k] = g[k]}
<1>4. 0 \in N
  BY <1>1, <1>2, <1>3 DEF SumTo
<1>5. ASSUME NEW k \in 0 .. Len(s) - 1, k \in N
      PROVE  k + 1 \in N
  <2>1. /\ k + 1 \in 0 .. Len(s) /\ k + 1 \in 0 .. Len(t) /\ k + 1 # 0
        /\ (k + 1) - 1 = k /\ k + 1 \in 1 .. Len(s)
    BY <1>1
  <2>2. h[k + 1] = h[k] + t[k + 1] /\ g[k + 1] = g[k] + s[k + 1]
    BY <1>2, <1>3, <2>1 DEF SumTo
  <2> QED  BY <1>1, <1>5, <2>1, <2>2
<1>6. \A k \in 0 .. Len(s) : k \in N
  <2> HIDE DEF N
  <2> QED  BY <1>1, <1>4, <1>5, AllUpTo
<1>7. h[Len(s)] = g[Len(s)]
  BY <1>1, <1>6
<1>8. h[Len(s) + 1] = h[Len(s)] + x
  <2>1. /\ Len(s) + 1 \in 0 .. Len(t) /\ Len(s) + 1 # 0 /\ (Len(s) + 1) - 1 = Len(s)
    BY <1>1
  <2> QED  BY <1>1, <1>3, <2>1 DEF SumTo
<1>9. Total(s) \in Nat
  <2>1. Len(s) \in 0 .. Len(s)
    BY <1>1
  <2> QED  BY <1>2, <2>1
<1> QED  BY <1>1, <1>2, <1>3, <1>7, <1>8, <1>9 DEF t

(* One element less at the start. *)
LEMMA TotalTail ==
    ASSUME NEW s \in Seq(Nat), s # << >>
    PROVE  /\ Total(Tail(s)) \in Nat /\ Head(s) \in Nat
           /\ Total(s) = Head(s) + Total(Tail(s))
<1> DEFINE t == Tail(s)
<1>1. /\ t \in Seq(Nat) /\ Len(s) \in Nat \ {0} /\ Len(t) = Len(s) - 1 /\ Head(s) = s[1]
      /\ \A i \in 1 .. Len(t) : t[i] = s[i + 1]
  OBVIOUS
<1>0. s[1] \in Nat
  BY <1>1
<1> HIDE DEF t
<1>2. PICK g \in [0 .. Len(s) -> Nat] : SumTo(g, s, Len(s)) /\ Total(s) = g[Len(s)]
  BY TotalIsLast
<1>3. PICK h \in [0 .. Len(t) -> Nat] : SumTo(h, t, Len(t)) /\ Total(t) = h[Len(t)]
  BY <1>1, TotalIsLast
<1> DEFINE N == {k \in 0 .. Len(t) : g[k + 1] = s[1] + h[k]}
<1>4. 0 \in N
  <2>1. h[0] = 0
    BY <1>1, <1>3 DEF SumTo
  <2>2. g[0] = 0
    BY <1>1, <1>2 DEF SumTo
  <2>3. 1 \in 0 .. Len(s) /\ 1 # 0 /\ 1 - 1 = 0
    BY <1>1
  <2>4. g[1] = g[0] + s[1]
    BY <1>2, <2>3 DEF SumTo
  <2> QED  BY <1>0, <1>1, <2>1, <2>2, <2>4
<1>5. ASSUME NEW k \in 0 .. Len(t) - 1, k \in N
      PROVE  k + 1 \in N
  <2>1. /\ k + 1 \in 0 .. Len(t) /\ k + 2 \in 0 .. Len(s) /\ k + 1 # 0 /\ k + 2 # 0
        /\ (k + 1) - 1 = k /\ (k + 2) - 1 = k + 1 /\ k + 1 \in 1 .. Len(t)
        /\ (k + 1) + 1 = k + 2 /\ k \in 0 .. Len(t)
    BY <1>1
  <2>2. g[k + 2] = g[k + 1] + s[k + 2] /\ h[k + 1] = h[k] + t[k + 1]
    BY <1>2, <1>3, <2>1 DEF SumTo
  <2>3. s[k + 2] \in Nat /\ h[k] \in Nat /\ t[k + 1] = s[k + 2]
    <3>1. h[k] \in Nat
      BY <1>3, <2>1
    <3>2. t[k + 1] = s[k + 2]
      BY <1>1, <2>1
    <3>3. t[k + 1] \in Nat
      BY <1>1, <2>1, ElementOfSeq
    <3> QED  BY <3>1, <3>2, <3>3
  <2>4. g[k + 2] = s[1] + h[k + 1]
    <3>1. g[k + 1] = s[1] + h[k]
      BY <1>5
    <3> QED  BY <1>0, <2>2, <2>3, <3>1
  <2> QED  BY <2>1, <2>4
<1>6. \A k \in 0 .. Len(t) : k \in N
  <2>1. Len(t) \in Nat
    BY <1>1
  <2> HIDE DEF N
  <2> QED  BY <2>1, <1>4, <1>5, AllUpTo
<1>7. Len(t) \in 0 .. Len(t) /\ Len(t) + 1 = Len(s)
  BY <1>1
<1>8. g[Len(s)] = s[1] + h[Len(t)]
  BY <1>6, <1>7
<1>9. Total(t) \in Nat
  BY <1>3, <1>7
<1> QED  BY <1>0, <1>1, <1>2, <1>3, <1>8, <1>9 DEF t
-----------------------------------------------------------------------------
(***************************************************************************)
(* The invariant.                                                          *)
(***************************************************************************)

(* pending_reqs counts, and a handle that is closed does not read.         *)
Closes == ClosedAfterLast /\ (handle # "open" => ~reading)

(* Unless events are queued, one is handled after the other: while one     *)
(* waits nothing else runs.                                                *)
OneByOne == ~Queued => Len(events) + Len(frames) <= 1

(* The end of the stream stands for no bytes. *)
EndsAreEmpty == \A i \in 1 .. Len(events) : events[i].eof => events[i].count = 0

(* What the terminal, the input and a shell have read, one event holds. *)
OneHoldsAll ==
    owner \in {"input", "tui", "shell"} => IF events = <<>> THEN size = 0 ELSE size = events[1].count

(* The terminal is left when nothing is to be handled. *)
LeftInPeace == suspended => owner = "tui" /\ events = <<>>

Turns == OneByOne /\ EndsAreEmpty /\ OneHoldsAll /\ LeftInPeace

(* What is read fits, and after the end the buffer is never full again:    *)
(* taking from it does not start the reading.                              *)
Room == ReadsWhenWanted /\ (eofs = 1 => size < Capacity)

(* The bytes in the buffer are those that arrived and are not taken.       *)
Ordered == size = arrived - taken /\ \A i \in 1 .. size : Content[i] = taken + i

(* The events stand for the bytes in the buffer: that of events[i] begins  *)
(* with the byte after start[i], and does not go past the end of the array. *)
Begins(start) ==
    /\ start[1] = taken /\ start[Len(events) + 1] = arrived
    /\ \A i, j \in 1 .. Len(events) + 1 : i <= j => start[i] <= start[j]
    /\ \A i \in 1 .. Len(events) :
         /\ start[i + 1] = start[i] + events[i].count
         /\ Wrap(readPtr + (start[i] - taken)) + events[i].count <= Capacity

Chunks ==
    owner \in {"job", "rpc", "shell"} => \E start \in [1 .. Len(events) + 1 -> Nat] : Begins(start)

IInv == /\ TypeOK /\ PointersAgree
        /\ Closes /\ CurmemCounts /\ Turns /\ Room
        /\ Ordered /\ Chunks

LEMMA InitSound == Init => IInv
<1> SUFFICES ASSUME Init PROVE IInv
  OBVIOUS
<1> USE DEF Init
<1>1. TypeOK /\ PointersAgree
  <2>1. 0 \in Byte
    BY StreamAssumption
  <2>2. RingTypeOK /\ PointersAgree
    BY InitInv DEF Inv
  <2>3. {reading, suspended, closed} \subseteq BOOLEAN
    OBVIOUS
  <2>4. events \in Seq(Event)
    OBVIOUS
  <2>5. {curmem, leaked, written, arrived, taken, eofs, closings} \subseteq Nat
    OBVIOUS
  <2>6. frames \in Seq({"read", "write"}) /\ writes \in Seq(Sizes)
    OBVIOUS
  <2> QED  BY <2>2, <2>3, <2>4, <2>5, <2>6 DEF TypeOK
<1>2. Closes /\ Turns /\ Room
  BY RingAssumption
     DEF Closes, ClosedAfterLast, Turns, OneByOne, EndsAreEmpty, OneHoldsAll, LeftInPeace,
         Room, ReadsWhenWanted, ReadsIntoRoom, EndIsFinal, StaysSuspended, Queued, RingInit
<1>3. CurmemCounts
  BY TotalEmpty, StreamAssumption DEF CurmemCounts, InFlight
<1>4. Ordered
  BY DEF Ordered, RingInit
<1>5. Chunks
  <2> DEFINE start == [i \in 1 .. 1 |-> 0]
  <2>1. Begins(start)
    BY DEF Begins
  <2>2. start \in [1 .. Len(events) + 1 -> Nat]
    OBVIOUS
  <2> HIDE DEF start
  <2> QED  BY <2>1, <2>2 DEF Chunks
<1> QED  BY <1>1, <1>2, <1>3, <1>4, <1>5 DEF IInv

(***************************************************************************)
(* The steps, by what they do to the buffer and its events.                *)
(***************************************************************************)
Quiet == /\ (owner = "tui" /\ Reset) \/ UNCHANGED ringVars
         /\ UNCHANGED <<owner, events, arrived, taken>>

LEMMA ReadSteps ==
    ASSUME [Next]_vars
    PROVE  \/ \E n \in 1 .. Capacity : ReadCb(n)
           \/ ReadEof \/ ReadEvent \/ Quiet
<1> USE DEF Quiet, readVars, closeVars, writeVars
<1>1. CASE EndReadEvent
  BY <1>1 DEF EndReadEvent
<1>2. CASE Suspend \/ Resume
  BY <1>2 DEF Suspend, Resume
<1>3. ASSUME NEW s \in Sizes, Write(s) \/ WriteFails(s) PROVE Quiet
  BY <1>3 DEF Write, WriteFails
<1>4. CASE WriteCb \/ EndWriteCb
  BY <1>4 DEF WriteCb, EndWriteCb
<1>5. CASE StreamClose \/ CloseCb
  BY <1>5 DEF StreamClose, CloseCb
<1>6. CASE UNCHANGED vars
  BY <1>6 DEF vars
<1> QED  BY <1>1, <1>2, <1>3, <1>4, <1>5, <1>6 DEF Next

(* The run that ReadCb writes. *)
LEMMA ArrivingRun ==
    ASSUME TypeOK, NEW n \in 1 .. Capacity, ReadCb(n)
    PROVE  /\ [i \in 1 .. n |-> arrived + i] \in [1 .. n -> Byte]
           /\ Produce([i \in 1 .. n |-> arrived + i])
<1>1. arrived \in Nat /\ MaxBytes \in Nat /\ arrived + n <= MaxBytes /\ n \in Nat
  BY StreamAssumption, RingAssumption DEF TypeOK, ReadCb
<1>2. ASSUME NEW i \in 1 .. n PROVE arrived + i \in Byte
  <2>1. arrived + i \in 0 .. MaxBytes
    BY <1>1
  <2> QED  BY <2>1, StreamAssumption
<1> QED  BY <1>2 DEF ReadCb

LEMMA TakenAmount ==
    ASSUME TypeOK, ReadEvent, ~(Head(events).eof \/ owner = "nobody")
    PROVE  Consume(Amount(Head(events))) /\ Amount(Head(events)) \in 1 .. Capacity
<1>1. Consume(Amount(Head(events)))
  BY DEF ReadEvent
<1>2. Amount(Head(events)) \in 1 .. size /\ size \in 0 .. Capacity
  BY <1>1 DEF Consume, TypeOK, RingTypeOK
<1> QED  BY <1>1, <1>2, RingAssumption

(* Every step is one of the ring buffer, or leaves it alone.               *)
LEMMA RingSteps ==
    ASSUME TypeOK, [Next]_vars
    PROVE  [RingNext]_ringVars
<1>1. ASSUME NEW n \in 1 .. Capacity, ReadCb(n) PROVE RingNext
  BY <1>1, ArrivingRun DEF RingNext
<1>2. CASE ReadEof
  BY <1>2 DEF ReadEof
<1>3. CASE ReadEvent
  <2>1. CASE Head(events).eof \/ owner = "nobody"
    BY <1>3, <2>1 DEF ReadEvent
  <2>2. CASE ~(Head(events).eof \/ owner = "nobody")
    BY <1>3, <2>2, TakenAmount DEF RingNext
  <2> QED  BY <2>1, <2>2
<1>4. CASE Quiet
  BY <1>4 DEF Quiet, RingNext
<1> QED  BY <1>1, <1>2, <1>3, <1>4, ReadSteps

LEMMA RingStep ==
    ASSUME TypeOK, PointersAgree, [Next]_vars
    PROVE  RingTypeOK' /\ PointersAgree'
<1>1. Inv
  BY DEF Inv, TypeOK
<1> QED  BY <1>1, RingSteps, NextInv DEF Inv
(***************************************************************************)
(* Types.                                                                  *)
(***************************************************************************)
LEMMA TypeFacts ==
    ASSUME TypeOK
    PROVE  /\ reading \in BOOLEAN /\ suspended \in BOOLEAN /\ closed \in BOOLEAN
           /\ curmem \in Nat /\ leaked \in Nat /\ written \in Nat /\ arrived \in Nat
           /\ taken \in Nat /\ eofs \in Nat /\ closings \in Nat
           /\ writes \in Seq(Nat) /\ size \in 0 .. Capacity /\ readPtr \in Offset
           /\ writePtr \in Offset
<1>1. writes \in Seq(Nat)
  <2>1. writes \in [1 .. Len(writes) -> Sizes] /\ Len(writes) \in Nat
    BY DEF TypeOK
  <2>2. writes \in [1 .. Len(writes) -> Nat]
    BY <2>1, StreamAssumption
  <2> QED  BY <2>1, <2>2
<1> QED  BY <1>1 DEF TypeOK, RingTypeOK

(* The flags are flags and the handle has one of its states.               *)
LEMMA FlagsStep ==
    ASSUME TypeOK, [Next]_vars
    PROVE  /\ owner' \in Owners /\ {reading, suspended, closed}' \subseteq BOOLEAN
           /\ handle' \in {"open", "closing", "closed"}
<1> USE DEF StreamCloseHandle, readVars, closeVars, writeVars
<1>0. /\ reading \in BOOLEAN /\ suspended \in BOOLEAN /\ closed \in BOOLEAN
      /\ owner \in Owners /\ handle \in {"open", "closing", "closed"}
  BY DEF TypeOK
<1>1. ASSUME NEW n \in 1 .. Capacity, ReadCb(n) PROVE reading' \in BOOLEAN
  BY <1>0, <1>1 DEF ReadCb, OnFull
<1>2. CASE ReadEvent
  BY <1>0, <1>2 DEF ReadEvent, OnNonfull
<1>3. CASE StreamClose
  BY <1>0, <1>3 DEF StreamClose
<1>4. CASE EndReadEvent \/ EndWriteCb
  BY <1>0, <1>4 DEF EndReadEvent, EndWriteCb
<1>5. CASE ReadEof \/ Suspend \/ Resume \/ WriteCb \/ CloseCb
  BY <1>0, <1>5 DEF ReadEof, Suspend, Resume, WriteCb, CloseCb
<1>6. ASSUME NEW s \in Sizes, Write(s) \/ WriteFails(s)
      PROVE  UNCHANGED <<owner, reading, suspended, closed, handle>>
  BY <1>6 DEF Write, WriteFails
<1>7. CASE UNCHANGED vars
  BY <1>0, <1>7 DEF vars
<1>8. ASSUME NEW n \in 1 .. Capacity, ReadCb(n)
      PROVE  UNCHANGED <<owner, suspended, closed, handle>>
  BY <1>8 DEF ReadCb
<1> QED  BY <1>0, <1>1, <1>2, <1>3, <1>4, <1>5, <1>6, <1>7, <1>8 DEF Next

(* Without its last element. *)
LEMMA Popped ==
    ASSUME NEW T, NEW s \in Seq(T), Len(s) >= 1
    PROVE  SubSeq(s, 1, Len(s) - 1) \in Seq(T) /\ Len(SubSeq(s, 1, Len(s) - 1)) = Len(s) - 1
<1>1. Len(s) \in Nat \ {0} /\ s \in [1 .. Len(s) -> T]
  OBVIOUS
<1>2. SubSeq(s, 1, Len(s) - 1) = [i \in 1 .. Len(s) - 1 |-> s[i]]
  OBVIOUS
<1>3. [i \in 1 .. Len(s) - 1 |-> s[i]] \in [1 .. Len(s) - 1 -> T]
  BY <1>1
<1> QED  BY <1>1, <1>2, <1>3

LEMMA LessOf ==
    ASSUME NEW c \in Nat, NEW d, NEW f, NEW t \in Nat, NEW l \in Nat, f \in Nat,
           t - f \in Nat, c = t + l, d = c - f
    PROVE  d \in Nat
OBVIOUS

(* The events, the callbacks that run and the writes are sequences of their *)
(* elements, and pending_reqs counts them.                                  *)
LEMMA SequencesStep ==
    ASSUME TypeOK, ClosedAfterLast, [Next]_vars
    PROVE  /\ events' \in Seq(Event)
           /\ frames' \in Seq({"read", "write"}) /\ writes' \in Seq(Sizes)
           /\ pendingReqs' = Len(events') + Len(frames') + Len(writes')
<1> USE DEF StreamCloseHandle, readVars, closeVars, writeVars
<1> DEFINE Counts == pendingReqs' = Len(events') + Len(frames') + Len(writes')
<1>0. /\ events \in Seq(Event) /\ frames \in Seq({"read", "write"}) /\ writes \in Seq(Sizes)
      /\ pendingReqs = Len(events) + Len(frames) + Len(writes)
  BY DEF TypeOK, ClosedAfterLast
<1>1. ASSUME NEW n \in 0 .. Capacity, NEW eof \in BOOLEAN, InvokeReadCb(n, eof),
             UNCHANGED <<frames, writes>>
      PROVE  events' \in Seq(Event) /\ Counts
  <2>1. [count |-> n, eof |-> eof] \in Event
    BY <1>1 DEF Event
  <2>2. /\ events' = Append(events, [count |-> n, eof |-> eof])
        /\ pendingReqs' = pendingReqs + 1 /\ frames' = frames /\ writes' = writes
    BY <1>1 DEF InvokeReadCb
  <2> QED  BY <1>0, <2>1, <2>2
<1>2. ASSUME NEW n \in 1 .. Capacity, ReadCb(n)
      PROVE  InvokeReadCb(n, FALSE) /\ UNCHANGED <<frames, writes>> /\ n \in 0 .. Capacity
  BY <1>2, RingAssumption DEF ReadCb, InvokeReadCb
<1>3. CASE ReadEof
  <2>1. InvokeReadCb(0, TRUE) /\ UNCHANGED <<frames, writes>> /\ 0 \in 0 .. Capacity
    BY <1>3, RingAssumption DEF ReadEof, InvokeReadCb
  <2> QED  BY <1>0, <1>1, <2>1
<1>4. CASE ReadEvent
  <2>1. /\ events # <<>> /\ events' = Tail(events) /\ frames' = Append(frames, "read")
        /\ UNCHANGED <<pendingReqs, writes>>
    BY <1>4 DEF ReadEvent
  <2> QED  BY <1>0, <2>1
<1>5. CASE EndReadEvent \/ EndWriteCb
  <2>1. /\ frames # <<>> /\ frames' = SubSeq(frames, 1, Len(frames) - 1)
        /\ pendingReqs' = pendingReqs - 1 /\ UNCHANGED <<events, writes>>
    BY <1>5 DEF EndReadEvent, EndWriteCb
  <2>2. frames' \in Seq({"read", "write"}) /\ Len(frames') = Len(frames) - 1
    <3> DEFINE u == SubSeq(frames, 1, Len(frames) - 1)
    <3>1. Len(frames) >= 1
      BY <1>0, <2>1
    <3>2. u \in Seq({"read", "write"}) /\ Len(u) = Len(frames) - 1
      BY <1>0, <3>1, Popped
    <3> QED  BY <2>1, <3>2
  <2> QED  BY <1>0, <2>1, <2>2
<1>6. CASE Suspend \/ Resume \/ StreamClose \/ CloseCb
  <2>1. UNCHANGED <<events, frames, writes, pendingReqs>>
    BY <1>6 DEF Suspend, Resume, StreamClose, CloseCb
  <2> QED  BY <1>0, <2>1
<1>7. ASSUME NEW s \in Sizes, Write(s)
      PROVE  /\ writes' \in Seq(Sizes) /\ UNCHANGED <<events, frames>>
             /\ pendingReqs' = Len(events') + Len(frames') + Len(writes')
  BY <1>0, <1>7 DEF Write
<1>8. ASSUME NEW s \in Sizes, WriteFails(s)
      PROVE  UNCHANGED <<events, frames, writes, pendingReqs>>
  BY <1>8 DEF WriteFails
<1>9. CASE WriteCb
  <2>1. /\ writes # <<>> /\ writes' = Tail(writes) /\ frames' = Append(frames, "write")
        /\ UNCHANGED <<pendingReqs, events>>
    BY <1>9 DEF WriteCb
  <2> QED  BY <1>0, <2>1
<1>10. CASE UNCHANGED vars
  BY <1>0, <1>10 DEF vars
<1> QED  BY <1>0, <1>1, <1>2, <1>3, <1>4, <1>5, <1>6, <1>7, <1>8, <1>9, <1>10 DEF Next

(* The numbers stay natural.                                               *)
LEMMA NumbersStep ==
    ASSUME TypeOK, CurmemCounts, [Next]_vars
    PROVE  {curmem, leaked, written, arrived, taken, eofs, closings}' \subseteq Nat
<1> USE DEF StreamCloseHandle, readVars, closeVars, writeVars
<1>0. /\ curmem \in Nat /\ leaked \in Nat /\ written \in Nat /\ arrived \in Nat
      /\ taken \in Nat /\ eofs \in Nat /\ closings \in Nat
  BY TypeFacts
<1>1. ASSUME NEW n \in 1 .. Capacity, ReadCb(n)
      PROVE  {curmem, leaked, written, arrived, taken, eofs, closings}' \subseteq Nat
  BY <1>0, <1>1, RingAssumption DEF ReadCb
<1>2. CASE ReadEvent
  <2>1. taken' = taken \/ (taken' = taken + Amount(Head(events)) /\ Amount(Head(events)) \in Nat)
    <3>1. CASE Head(events).eof \/ owner = "nobody"
      BY <1>2, <3>1 DEF ReadEvent
    <3>2. CASE ~(Head(events).eof \/ owner = "nobody")
      BY <1>2, <3>2, TakenAmount, RingAssumption DEF ReadEvent
    <3> QED  BY <3>1, <3>2
  <2>2. UNCHANGED <<curmem, leaked, written, arrived, eofs, closings>>
    BY <1>2 DEF ReadEvent
  <2> QED  BY <1>0, <2>1, <2>2
<1>3. CASE ReadEof \/ Suspend \/ Resume
  <2>1. /\ eofs' \in {0, eofs, eofs + 1}
        /\ UNCHANGED <<curmem, leaked, written, arrived, taken, closings>>
    BY <1>3 DEF ReadEof, Suspend, Resume
  <2> QED  BY <1>0, <2>1
<1>4. CASE EndReadEvent \/ EndWriteCb \/ StreamClose \/ CloseCb
  <2>1. closings' \in Nat /\ UNCHANGED <<curmem, leaked, written, arrived, taken, eofs>>
    BY <1>0, <1>4 DEF EndReadEvent, EndWriteCb, StreamClose, CloseCb
  <2> QED  BY <1>0, <2>1
<1>5. ASSUME NEW s \in Sizes, Write(s) \/ WriteFails(s)
      PROVE  {curmem, leaked, written, arrived, taken, eofs, closings}' \subseteq Nat
  <2>1. /\ curmem' = curmem + s /\ leaked' \in {leaked, leaked + s} /\ written' = written + 1
        /\ UNCHANGED <<arrived, taken, eofs, closings>>
    BY <1>5 DEF Write, WriteFails
  <2>2. s \in Nat
    BY StreamAssumption
  <2> QED  BY <1>0, <2>1, <2>2
<1>6. CASE WriteCb
  <2>1. curmem' \in Nat
    <3>1. writes # <<>> /\ curmem' = curmem - Head(writes)
      BY <1>6 DEF WriteCb
    <3>2. curmem = Total(writes) + leaked /\ writes \in Seq(Nat)
      BY TypeFacts DEF CurmemCounts, InFlight
    <3>3. /\ Total(Tail(writes)) \in Nat /\ Head(writes) \in Nat
          /\ Total(writes) = Head(writes) + Total(Tail(writes))
      BY <3>1, <3>2, TotalTail
    <3>4. Total(writes) \in Nat /\ Total(writes) - Head(writes) \in Nat
      BY <3>3
    <3> QED  BY <1>0, <3>1, <3>2, <3>4, LessOf
  <2>2. UNCHANGED <<leaked, written, arrived, taken, eofs, closings>>
    BY <1>6 DEF WriteCb
  <2> QED  BY <1>0, <2>1, <2>2
<1>7. CASE UNCHANGED vars
  BY <1>0, <1>7 DEF vars
<1> QED  BY <1>1, <1>2, <1>3, <1>4, <1>5, <1>6, <1>7 DEF Next

LEMMA TypeStep ==
    ASSUME TypeOK, PointersAgree, ClosedAfterLast, CurmemCounts, [Next]_vars
    PROVE  TypeOK' /\ PointersAgree'
<1>1. pendingReqs' \in Nat
  BY SequencesStep
<1> QED  BY <1>1, RingStep, FlagsStep, SequencesStep, NumbersStep DEF TypeOK
(***************************************************************************)
(* The closing: pending_reqs and what it counts agree, and whatever still  *)
(* happens to the stream happens before its handle is closed.              *)
(***************************************************************************)
OpenWhile == reading \/ events # <<>> \/ frames # <<>> \/ writes # <<>> \/ ~closed

LEMMA StillOpen ==
    ASSUME TypeOK, Closes, OpenWhile
    PROVE  handle = "open" /\ closings = 0
<1>1. events \in Seq(Event) /\ frames \in Seq({"read", "write"}) /\ writes \in Seq(Sizes)
  BY DEF TypeOK
<1>2. /\ Len(events) \in Nat /\ Len(frames) \in Nat /\ Len(writes) \in Nat
      /\ events # <<>> => Len(events) # 0
      /\ frames # <<>> => Len(frames) # 0
      /\ writes # <<>> => Len(writes) # 0
  BY <1>1
<1>3. events # <<>> \/ frames # <<>> \/ writes # <<>> => pendingReqs # 0
  BY <1>2 DEF Closes, ClosedAfterLast
<1> QED  BY <1>3 DEF Closes, ClosedAfterLast, OpenWhile

LEMMA ClosesStep ==
    ASSUME TypeOK, Closes, [Next]_vars
    PROVE  Closes'
<1> USE DEF StreamCloseHandle, readVars, closeVars, writeVars
<1> DEFINE Rest == /\ closings' = (IF handle' = "open" THEN 0 ELSE 1)
                   /\ handle' # "open" => closed' /\ pendingReqs' = 0 /\ ~reading'
<1>0. /\ closings = (IF handle = "open" THEN 0 ELSE 1)
      /\ handle # "open" => closed /\ pendingReqs = 0 /\ ~reading
  BY DEF Closes, ClosedAfterLast
<1> SUFFICES Rest
  <2>1. pendingReqs' = Len(events') + Len(frames') + Len(writes')
    BY SequencesStep DEF Closes
  <2> QED  BY <2>1 DEF Closes, ClosedAfterLast
<1>1. ASSUME NEW n \in 1 .. Capacity, ReadCb(n) PROVE Rest
  <2>1. OpenWhile /\ UNCHANGED <<handle, closings>>
    BY <1>1 DEF ReadCb, OpenWhile
  <2> QED  BY <2>1, StillOpen
<1>2. CASE ReadEof
  <2>1. OpenWhile /\ UNCHANGED <<handle, closings>>
    BY <1>2 DEF ReadEof, OpenWhile
  <2> QED  BY <2>1, StillOpen
<1>3. CASE ReadEvent \/ Suspend \/ Resume \/ WriteCb
  <2>1. OpenWhile /\ UNCHANGED <<handle, closings>>
    BY <1>3 DEF ReadEvent, Suspend, Resume, WriteCb, OpenWhile
  <2> QED  BY <2>1, StillOpen
<1>4. ASSUME NEW s \in Sizes, Write(s) \/ WriteFails(s) PROVE Rest
  <2>1. OpenWhile /\ UNCHANGED <<handle, closings>>
    BY <1>4 DEF Write, WriteFails, OpenWhile
  <2> QED  BY <2>1, StillOpen
<1>5. CASE EndReadEvent \/ EndWriteCb
  <2>1. OpenWhile
    BY <1>5 DEF EndReadEvent, EndWriteCb, OpenWhile
  <2>2. handle = "open" /\ closings = 0
    BY <2>1, StillOpen
  <2>3. CASE LastPending
    <3>1. /\ handle' = "closing" /\ closings' = closings + 1 /\ reading' = FALSE
          /\ closed' = closed /\ pendingReqs' = pendingReqs - 1
      BY <1>5, <2>3 DEF EndReadEvent, EndWriteCb
    <3> QED  BY <2>2, <2>3, <3>1 DEF LastPending
  <2>4. CASE ~LastPending
    BY <1>5, <2>2, <2>4 DEF EndReadEvent, EndWriteCb
  <2> QED  BY <2>3, <2>4
<1>6. CASE StreamClose
  <2>1. OpenWhile
    BY <1>6 DEF StreamClose, OpenWhile
  <2>2. handle = "open" /\ closings = 0
    BY <2>1, StillOpen
  <2> QED  BY <1>6, <2>2 DEF StreamClose
<1>7. CASE CloseCb
  BY <1>0, <1>7 DEF CloseCb
<1>8. CASE UNCHANGED vars
  BY <1>0, <1>8 DEF vars
<1> QED  BY <1>1, <1>2, <1>3, <1>4, <1>5, <1>6, <1>7, <1>8 DEF Next

(***************************************************************************)
(* The memory: a write is accepted only while no more than MaxMem is in    *)
(* flight, so it is exceeded by less than one write.                       *)
(***************************************************************************)
LEMMA ReturnedMemory ==
    ASSUME NEW c \in Nat, NEW d, NEW f \in Nat, NEW r \in Nat, NEW t, NEW l \in Nat,
           c = t + l, t = f + r, d = c - f
    PROVE  d = r + l /\ d <= c /\ d \in Nat
OBVIOUS

LEMMA CurmemStep ==
    ASSUME TypeOK, CurmemCounts, [Next]_vars
    PROVE  CurmemCounts'
<1> USE DEF readVars, closeVars, writeVars
<1>0. /\ curmem = Total(writes) + leaked /\ writes \in Seq(Nat) /\ leaked \in Nat
      /\ curmem \in Nat /\ MaxMem \in Nat /\ Sizes \subseteq Nat
      /\ \A s \in Sizes : (\A t \in Sizes : t <= s) => curmem <= MaxMem + s
  BY TypeFacts, StreamAssumption DEF CurmemCounts, InFlight
<1>1. ASSUME NEW s \in Sizes, Write(s) \/ WriteFails(s) PROVE CurmemCounts'
  <2>1. curmem <= MaxMem /\ curmem' = curmem + s
    BY <1>1 DEF Write, WriteFails, Accepts
  <2>2. s \in Nat
    BY <1>0
  <2>3. Total(writes) \in Nat /\ Total(Append(writes, s)) = Total(writes) + s
    BY <1>0, <2>2, TotalAppend
  <2>4. CASE Write(s)
    <3>1. writes' = Append(writes, s) /\ leaked' = leaked
      BY <2>4 DEF Write
    <3>2. Total(writes') = Total(writes) + s
      BY <2>3, <3>1
    <3> QED  BY <1>0, <2>1, <2>2, <2>3, <3>1, <3>2 DEF CurmemCounts, InFlight
  <2>5. CASE WriteFails(s)
    <3>1. writes' = writes /\ leaked' = leaked + s
      BY <2>5 DEF WriteFails
    <3>2. Total(writes') = Total(writes) /\ Total(writes) \in Nat
      BY <2>3, <3>1
    <3>3. curmem' = Total(writes') + leaked'
      BY <1>0, <2>1, <2>2, <3>1, <3>2
    <3>4. ASSUME NEW t \in Sizes, \A u \in Sizes : u <= t PROVE curmem' <= MaxMem + t
      BY <1>0, <2>1, <2>2, <3>4
    <3> QED  BY <3>3, <3>4 DEF CurmemCounts, InFlight
  <2> QED  BY <1>1, <2>4, <2>5
<1>2. CASE WriteCb
  <2>1. /\ writes # <<>> /\ curmem' = curmem - Head(writes) /\ writes' = Tail(writes)
        /\ leaked' = leaked
    BY <1>2 DEF WriteCb
  <2>2. /\ Total(Tail(writes)) \in Nat /\ Head(writes) \in Nat
        /\ Total(writes) = Head(writes) + Total(Tail(writes))
    BY <1>0, <2>1, TotalTail
  <2>3. Total(writes') = Total(Tail(writes))
    BY <2>1
  <2>4. /\ curmem' = Total(Tail(writes)) + leaked /\ curmem' <= curmem
        /\ curmem' \in Nat
    <3>1. /\ curmem \in Nat /\ leaked \in Nat /\ curmem = Total(writes) + leaked
          /\ curmem' = curmem - Head(writes)
      BY <1>0, <2>1
    <3> QED  BY <2>2, <3>1, ReturnedMemory
  <2>6. curmem' = Total(writes') + leaked'
    BY <2>1, <2>3, <2>4
  <2>5. ASSUME NEW s \in Sizes, \A t \in Sizes : t <= s PROVE curmem' <= MaxMem + s
    <3>1. curmem <= MaxMem + s /\ s \in Nat
      BY <1>0, <2>5
    <3> QED  BY <1>0, <2>4, <3>1
  <2> QED  BY <2>5, <2>6 DEF CurmemCounts, InFlight
<1>3. CASE UNCHANGED <<curmem, writes, leaked>>
  BY <1>0, <1>3 DEF CurmemCounts, InFlight
<1>4. ASSUME NEW n \in 1 .. Capacity, ReadCb(n) PROVE UNCHANGED <<curmem, writes, leaked>>
  BY <1>4 DEF ReadCb
<1>5. CASE ReadEof \/ ReadEvent \/ EndReadEvent \/ Suspend \/ Resume \/ EndWriteCb
  BY <1>3, <1>5 DEF ReadEof, ReadEvent, EndReadEvent, Suspend, Resume, EndWriteCb
<1>6. CASE StreamClose \/ CloseCb \/ UNCHANGED vars
  BY <1>3, <1>6 DEF StreamClose, CloseCb, vars
<1> QED  BY <1>1, <1>2, <1>3, <1>4, <1>5, <1>6 DEF Next
(***************************************************************************)
(* The turns and the room.                                                 *)
(***************************************************************************)

(* An event more, and one less. *)
LEMMA EventAdded ==
    ASSUME TypeOK, EndsAreEmpty, NEW n \in 0 .. Capacity, NEW eof \in BOOLEAN,
           InvokeReadCb(n, eof), eof => n = 0
    PROVE  /\ Len(events') = Len(events) + 1 /\ Len(events) \in Nat
           /\ EndsAreEmpty' /\ events' # <<>>
           /\ \A i \in 1 .. Len(events) : events'[i] = events[i]
           /\ events'[Len(events) + 1].count = n
           /\ events = <<>> => events'[1].count = n
<1>1. events \in Seq(Event) /\ events' = Append(events, [count |-> n, eof |-> eof])
  BY DEF TypeOK, InvokeReadCb
<1>2. /\ Len(events') = Len(events) + 1 /\ Len(events) \in Nat
      /\ \A i \in 1 .. Len(events) : events'[i] = events[i]
      /\ events'[Len(events) + 1] = [count |-> n, eof |-> eof]
      /\ events = <<>> => Len(events) = 0
  BY <1>1
<1>3. events' # <<>>
  BY <1>2
<1>4. ASSUME NEW i \in 1 .. Len(events'), events'[i].eof PROVE events'[i].count = 0
  <2>1. CASE i = Len(events) + 1
    BY <1>2, <1>4, <2>1
  <2>2. CASE i # Len(events) + 1
    <3>1. i \in 1 .. Len(events)
      BY <1>2, <2>2
    <3> QED  BY <1>2, <1>4, <3>1 DEF EndsAreEmpty
  <2> QED  BY <2>1, <2>2
<1> QED  BY <1>2, <1>3, <1>4 DEF EndsAreEmpty

LEMMA EventGone ==
    ASSUME TypeOK, EndsAreEmpty, events # <<>>, events' = Tail(events)
    PROVE  /\ Len(events) \in Nat \ {0} /\ Len(events') = Len(events) - 1
           /\ EndsAreEmpty' /\ Head(events) = events[1]
           /\ \A i \in 1 .. Len(events') : events'[i] = events[i + 1]
<1>1. events \in Seq(Event)
  BY DEF TypeOK
<1>2. /\ Len(events) \in Nat \ {0} /\ Len(events') = Len(events) - 1
      /\ Head(events) = events[1]
      /\ \A i \in 1 .. Len(events') : events'[i] = events[i + 1]
  BY <1>1
<1>3. ASSUME NEW i \in 1 .. Len(events'), events'[i].eof PROVE events'[i].count = 0
  <2>1. i + 1 \in 1 .. Len(events) /\ events'[i] = events[i + 1]
    BY <1>2
  <2> QED  BY <1>3, <2>1 DEF EndsAreEmpty
<1> QED  BY <1>2, <1>3 DEF EndsAreEmpty

(* Nothing waits and nothing runs when libuv calls back, but for a job.    *)
(* What the first event counts is in the buffer, and in one piece. *)
LEMMA FirstChunk ==
    ASSUME TypeOK, PointersAgree, Ordered, Chunks, owner \in {"job", "rpc", "shell"}, events # <<>>
    PROVE  Head(events).count <= ReadCount
<1>2. /\ arrived \in Nat /\ taken \in Nat /\ readPtr \in Offset /\ size \in 0 .. Capacity
      /\ Capacity \in Nat \ {0} /\ size = arrived - taken /\ writePtr = Wrap(readPtr + size)
  BY TypeFacts, RingAssumption DEF Ordered, PointersAgree
<1>3. Len(events) \in Nat \ {0} /\ Head(events) = events[1] /\ events[1] \in Event
  BY DEF TypeOK
<1>4. PICK c \in Nat : c = Head(events).count
  BY <1>2, <1>3 DEF Event
<1>5. PICK start \in [1 .. Len(events) + 1 -> Nat] : Begins(start)
  BY DEF Chunks
<1>6. /\ 1 \in 1 .. Len(events) /\ 2 \in 1 .. Len(events) + 1 /\ 1 + 1 = 2
      /\ Len(events) + 1 \in 1 .. Len(events) + 1 /\ 2 <= Len(events) + 1
  BY <1>3
<1>7. start[1] = taken /\ start[2] = start[1] + c /\ start[2] <= arrived
  BY <1>3, <1>4, <1>5, <1>6 DEF Begins
<1>8. c <= size
  BY <1>2, <1>7
<1>9. readPtr + c <= Capacity
  <2>1. Wrap(readPtr + (start[1] - taken)) + c <= Capacity
    BY <1>3, <1>4, <1>5, <1>6 DEF Begins
  <2>2. Wrap(readPtr + (taken - taken)) = readPtr
    BY <1>2 DEF Wrap, Offset
  <2> QED  BY <1>7, <2>1, <2>2
<1>10. c <= ReadCount
  <2>1. CASE size = 0
    BY <1>8, <2>1 DEF ReadCount
  <2>2. CASE size # 0 /\ readPtr < writePtr
    <3>1. writePtr - readPtr = size
      BY <1>2, <2>2 DEF Wrap, Offset
    <3> QED  BY <1>8, <2>2, <3>1 DEF ReadCount
  <2>3. CASE size # 0 /\ ~(readPtr < writePtr)
    <3>1. c <= Capacity - readPtr
      BY <1>2, <1>9 DEF Offset
    <3> QED  BY <2>3, <3>1 DEF ReadCount
  <2> QED  BY <2>1, <2>2, <2>3
<1> QED  BY <1>4, <1>10

(* What out_data_cb takes is all there is. *)
LEMMA ShellTakesAll ==
    ASSUME TypeOK, PointersAgree, Ordered, Chunks, OneHoldsAll, owner = "shell", events # <<>>
    PROVE  /\ ReadCount = size /\ Amount(Head(events)) = size
           /\ Head(events).count = size
<1>1. Head(events).count <= ReadCount /\ Head(events).count = size
  BY FirstChunk DEF OneHoldsAll
<1>2. /\ readPtr \in Offset /\ size \in 0 .. Capacity /\ Capacity \in Nat \ {0}
      /\ writePtr = Wrap(readPtr + size)
  BY TypeFacts, RingAssumption DEF PointersAgree
<1>3. ReadCount <= size /\ ReadCount \in Int
  BY <1>2 DEF ReadCount, Wrap, Offset
<1>4. ReadCount = size
  BY <1>1, <1>2, <1>3
<1> QED  BY <1>1, <1>4 DEF Amount

LEMMA IdleMeans ==
    ASSUME TypeOK, Idle, ~Queued
    PROVE  events = <<>> /\ frames = <<>> /\ Len(events) = 0 /\ Len(frames) = 0
BY DEF Idle

LEMMA TurnsKept ==
    ASSUME TypeOK, Turns, UNCHANGED <<owner, events, size>>,
           Len(frames') <= Len(frames), Len(frames') \in Nat,
           suspended' => suspended
    PROVE  Turns'
<1>1. Len(events) \in Nat /\ Len(frames) \in Nat
  BY DEF TypeOK
<1>2. OneByOne'
  BY <1>1 DEF Turns, OneByOne, Queued
<1> QED  BY <1>2 DEF Turns, EndsAreEmpty, OneHoldsAll, LeftInPeace

LEMMA FramesStep ==
    ASSUME TypeOK, EndReadEvent \/ EndWriteCb
    PROVE  Len(frames') <= Len(frames) /\ Len(frames') \in Nat
<1>1. /\ frames # <<>> /\ frames' = SubSeq(frames, 1, Len(frames) - 1)
      /\ frames \in Seq({"read", "write"})
  BY DEF EndReadEvent, EndWriteCb, TypeOK
<1>2. Len(frames) >= 1 /\ Len(frames) \in Nat
  BY <1>1
<1>3. Len(frames') = Len(frames) - 1
  BY <1>1, <1>2, Popped
<1> QED  BY <1>2, <1>3

LEMMA TurnsStep ==
    ASSUME TypeOK, PointersAgree, Ordered, Chunks, Turns, Room, [Next]_vars
    PROVE  Turns'
<1> USE DEF readVars, closeVars, writeVars, ringVars
<1>0. /\ Len(events) \in Nat /\ Len(frames) \in Nat /\ size \in Nat
      /\ OneByOne /\ EndsAreEmpty /\ OneHoldsAll /\ LeftInPeace
  BY RingAssumption DEF TypeOK, RingTypeOK, Turns
<1>1. ASSUME NEW n \in 1 .. Capacity, ReadCb(n) PROVE Turns'
  <2>1. /\ Idle /\ reading /\ InvokeReadCb(n, FALSE) /\ n \in 0 .. Capacity /\ n \in Nat
        /\ UNCHANGED <<owner, suspended, frames>>
    BY <1>1, RingAssumption DEF ReadCb, InvokeReadCb
  <2>2. size' = size + n
    <3>1. /\ [i \in 1 .. n |-> arrived + i] \in [1 .. n -> Byte]
          /\ Produce([i \in 1 .. n |-> arrived + i])
      BY <1>1, ArrivingRun
    <3>2. Len([i \in 1 .. n |-> arrived + i]) = n
      BY <2>1
    <3> QED  BY <3>1, <3>2 DEF Produce
  <2>3. /\ Len(events') = Len(events) + 1 /\ EndsAreEmpty' /\ events' # <<>>
        /\ events = <<>> => events'[1].count = n
    BY <1>0, <2>1, EventAdded
  <2>4. OneByOne'
    BY <1>0, <2>1, <2>3, IdleMeans DEF OneByOne, Queued
  <2>5. OneHoldsAll'
    BY <1>0, <2>1, <2>2, <2>3, IdleMeans DEF OneHoldsAll, Queued
  <2>6. LeftInPeace'
    BY <2>1 DEF LeftInPeace, Room, ReadsWhenWanted, StaysSuspended
  <2> QED  BY <2>3, <2>4, <2>5, <2>6 DEF Turns
<1>2. CASE ReadEof
  <2>1. /\ Idle /\ reading /\ InvokeReadCb(0, TRUE) /\ 0 \in 0 .. Capacity
        /\ UNCHANGED <<owner, suspended, frames, size>>
    BY <1>2, RingAssumption DEF ReadEof, InvokeReadCb
  <2>2. /\ Len(events') = Len(events) + 1 /\ EndsAreEmpty' /\ events' # <<>>
        /\ events = <<>> => events'[1].count = 0
    BY <1>0, <2>1, EventAdded
  <2>3. OneByOne'
    BY <1>0, <2>1, <2>2, IdleMeans DEF OneByOne, Queued
  <2>4. OneHoldsAll'
    BY <1>0, <2>1, <2>2, IdleMeans DEF OneHoldsAll, Queued
  <2>5. LeftInPeace'
    BY <2>1 DEF LeftInPeace, Room, ReadsWhenWanted, StaysSuspended
  <2> QED  BY <2>2, <2>3, <2>4, <2>5 DEF Turns
<1>3. CASE ReadEvent
  <2>1. /\ events # <<>> /\ events' = Tail(events) /\ frames' = Append(frames, "read")
        /\ UNCHANGED <<owner, suspended>>
    BY <1>3 DEF ReadEvent
  <2>2. /\ Len(events) \in Nat \ {0} /\ Len(events') = Len(events) - 1
        /\ EndsAreEmpty' /\ Head(events) = events[1]
    BY <1>0, <2>1, EventGone
  <2>3. Len(frames') = Len(frames) + 1
    BY <2>1 DEF TypeOK
  <2>4. OneByOne'
    BY <1>0, <2>1, <2>2, <2>3 DEF OneByOne, Queued
  <2>5. OneHoldsAll'
    <3>1. SUFFICES ASSUME owner \in {"input", "tui", "shell"} PROVE events' = <<>> /\ size' = 0
      BY <2>1 DEF OneHoldsAll
    <3>2. Len(events) = 1 /\ size = events[1].count
      BY <1>0, <2>1, <2>2, <3>1 DEF OneByOne, Queued, OneHoldsAll
    <3>3. events' = <<>>
      <4>1. Tail(events) \in Seq(Event)
        BY <2>1 DEF TypeOK
      <4> QED  BY <2>1, <2>2, <3>2, <4>1
    <3>4. CASE events[1].eof
      <4>1. size = 0
        BY <1>0, <3>2, <3>4 DEF EndsAreEmpty
      <4> QED  BY <1>3, <2>2, <3>3, <3>4, <4>1 DEF ReadEvent
    <3>5. CASE ~events[1].eof
      <4>1. Consume(Amount(Head(events)))
        BY <1>3, <2>2, <3>1, <3>5, TakenAmount
      <4>2. Amount(Head(events)) = size
        BY <1>0, <2>1, <3>1, ShellTakesAll DEF Amount
      <4>3. size' = size - size
        BY <4>1, <4>2 DEF Consume
      <4> QED  BY <1>0, <3>3, <4>3
    <3> QED  BY <3>4, <3>5
  <2>6. LeftInPeace'
    BY <1>0, <2>1 DEF LeftInPeace
  <2> QED  BY <2>2, <2>4, <2>5, <2>6 DEF Turns
<1>4. CASE EndReadEvent \/ EndWriteCb
  <2>1. UNCHANGED <<owner, events, size, suspended>>
    BY <1>4 DEF EndReadEvent, EndWriteCb, Reset
  <2> QED  BY <1>4, <2>1, FramesStep, TurnsKept
<1>5. CASE Suspend
  <2>1. /\ owner = "tui" /\ Idle /\ UNCHANGED <<owner, events, size, frames>>
    BY <1>5 DEF Suspend
  <2>2. events = <<>>
    BY <2>1, IdleMeans DEF Queued
  <2> QED  BY <1>0, <2>1, <2>2
           DEF Turns, OneByOne, EndsAreEmpty, OneHoldsAll, LeftInPeace, Queued
<1>6. ASSUME NEW s \in Sizes, Write(s) \/ WriteFails(s) PROVE Turns'
  <2>1. UNCHANGED <<owner, events, size, frames, suspended>>
    BY <1>6 DEF Write, WriteFails
  <2> QED  BY <1>0, <2>1, TurnsKept
<1>7. CASE WriteCb
  <2>1. /\ Idle /\ frames' = Append(frames, "write")
        /\ UNCHANGED <<owner, events, size, suspended>>
    BY <1>7 DEF WriteCb
  <2>2. Len(frames') = Len(frames) + 1
    BY <2>1 DEF TypeOK
  <2>3. OneByOne'
    BY <1>0, <2>1, <2>2, IdleMeans DEF OneByOne, Queued
  <2> QED  BY <1>0, <2>1, <2>3 DEF Turns, EndsAreEmpty, OneHoldsAll, LeftInPeace
<1>8. CASE Resume \/ StreamClose \/ CloseCb \/ UNCHANGED vars
  <2>1. UNCHANGED <<owner, events, size, frames>> /\ (suspended' => suspended)
    BY <1>8 DEF Resume, StreamClose, CloseCb, vars
  <2> QED  BY <1>0, <2>1, TurnsKept
<1> QED  BY <1>1, <1>2, <1>3, <1>4, <1>5, <1>6, <1>7, <1>8 DEF Next
(* The bytes that a read adds and a handled event takes away. *)
LEMMA Arrives ==
    ASSUME TypeOK, PointersAgree, NEW n \in 1 .. Capacity, ReadCb(n)
    PROVE  /\ Inv /\ n \in Nat /\ size' = size + n /\ arrived' = arrived + n
           /\ Content' = Content \o [i \in 1 .. n |-> arrived + i]
           /\ n <= WriteCount /\ readPtr' = readPtr
<1> DEFINE run == [i \in 1 .. n |-> arrived + i]
<1>1. Inv
  BY DEF Inv, TypeOK
<1>2. run \in [1 .. n -> Byte] /\ Produce(run)
  BY ArrivingRun
<1>3. n \in Nat /\ Len(run) = n
  BY RingAssumption
<1>4. Content' = Content \o run
  BY <1>1, <1>2, ProduceContent
<1>5. size' = size + n /\ n <= WriteCount /\ readPtr' = readPtr
  BY <1>2, <1>3 DEF Produce
<1>6. arrived' = arrived + n
  BY DEF ReadCb
<1> QED  BY <1>1, <1>3, <1>4, <1>5, <1>6

LEMMA Takes ==
    ASSUME TypeOK, PointersAgree, NEW n, ReadEvent, n = Amount(Head(events)),
           ~(Head(events).eof \/ owner = "nobody")
    PROVE  /\ Inv /\ n \in 1 .. size /\ n \in 1 .. Capacity /\ n \in Nat
           /\ size' = size - n /\ taken' = taken + n /\ reading' = OnNonfull
           /\ Content' = SubSeq(Content, n + 1, Len(Content))
           /\ readPtr' = Wrap(readPtr + n)
<1>1. Inv
  BY DEF Inv, TypeOK
<1>2. Consume(n) /\ n \in 1 .. Capacity
  BY TakenAmount
<1>3. n \in Nat
  BY <1>2, RingAssumption
<1>4. n \in 1 .. size /\ size' = size - n /\ readPtr' = Wrap(readPtr + n)
  BY <1>2 DEF Consume
<1>5. taken' = taken + n /\ reading' = OnNonfull
  BY DEF ReadEvent
<1>6. Content' = SubSeq(Content, n + 1, Len(Content))
  BY <1>1, <1>2, ConsumeContent
<1> QED  BY <1>1, <1>2, <1>3, <1>4, <1>5, <1>6

LEMMA RoomKept ==
    ASSUME Room, UNCHANGED <<size, eofs>>, reading' => reading, suspended' => suspended
    PROVE  Room'
BY DEF Room, ReadsWhenWanted, ReadsIntoRoom, EndIsFinal, StaysSuspended

LEMMA RoomStep ==
    ASSUME TypeOK, PointersAgree, Turns, Room, [Next]_vars
    PROVE  Room'
<1> USE DEF readVars, closeVars, writeVars, StreamCloseHandle
<1>0. /\ Capacity \in Nat \ {0} /\ size \in 0 .. Capacity /\ size' \in 0 .. Capacity
      /\ eofs \in Nat /\ reading \in BOOLEAN
  BY RingAssumption, RingStep, TypeFacts DEF TypeOK, RingTypeOK
<1>00. /\ reading => size < Capacity
       /\ eofs <= 1 /\ (eofs = 1 => ~reading) /\ (eofs = 1 => size < Capacity)
       /\ suspended => ~reading
  BY DEF Room, ReadsWhenWanted, ReadsIntoRoom, EndIsFinal, StaysSuspended
<1>01. SUFFICES /\ reading' => size' < Capacity
                /\ eofs' <= 1 /\ (eofs' = 1 => ~reading') /\ (eofs' = 1 => size' < Capacity)
                /\ suspended' => ~reading'
  BY DEF Room, ReadsWhenWanted, ReadsIntoRoom, EndIsFinal, StaysSuspended
<1>1. ASSUME NEW n \in 1 .. Capacity, ReadCb(n) PROVE Room'
  <2>1. /\ reading /\ UNCHANGED <<eofs, suspended>>
        /\ reading' = IF size' = Capacity THEN FALSE ELSE reading
    BY <1>1 DEF ReadCb, OnFull
  <2>2. eofs' # 1 /\ ~suspended' /\ eofs' <= 1
    BY <1>00, <2>1
  <2>3. reading' => size' < Capacity
    BY <1>0, <2>1
  <2> QED  BY <2>2, <2>3 DEF Room, ReadsWhenWanted, ReadsIntoRoom, EndIsFinal, StaysSuspended
<1>2. CASE ReadEof
  <2>1. /\ reading /\ reading' = FALSE /\ eofs' = eofs + 1 /\ size' = size
    BY <1>2 DEF ReadEof, ringVars
  <2>2. eofs' <= 1 /\ size' < Capacity
    BY <1>0, <1>00, <2>1
  <2> QED  BY <2>1, <2>2
<1>3. CASE ReadEvent
  <2>1. ~suspended /\ UNCHANGED <<suspended, eofs>>
    BY <1>3 DEF ReadEvent, Turns, LeftInPeace
  <2>2. CASE Head(events).eof \/ owner = "nobody"
    <3>1. UNCHANGED <<size, reading>>
      BY <1>3, <2>2 DEF ReadEvent, ringVars
    <3> QED  BY <1>00, <2>1, <3>1
  <2>3. CASE ~(Head(events).eof \/ owner = "nobody")
    <3>1. PICK n : n = Amount(Head(events))
      OBVIOUS
    <3>2. n \in 1 .. size /\ n \in Nat /\ size' = size - n /\ reading' = OnNonfull
      BY <1>3, <2>3, <3>1, Takes
    <3>3. size' < Capacity
      BY <1>0, <3>2
    <3>4. eofs' = 1 => ~reading'
      BY <1>0, <1>00, <2>1, <3>2 DEF OnNonfull
    <3> QED  BY <1>00, <2>1, <3>3, <3>4
  <2> QED  BY <2>2, <2>3
<1>4. CASE EndReadEvent \/ EndWriteCb
  <2>1. UNCHANGED <<size, eofs, suspended>> /\ (reading' => reading)
    BY <1>4 DEF EndReadEvent, EndWriteCb, Reset, ringVars
  <2> QED  BY <1>00, <2>1
<1>5. CASE Suspend
  BY <1>00, <1>5 DEF Suspend, ringVars
<1>6. CASE Resume
  <2>1. suspended /\ suspended' = FALSE /\ eofs' = 0 /\ size' = size
    BY <1>6 DEF Resume, ringVars
  <2>2. size = 0
    BY <2>1 DEF Turns, LeftInPeace, OneHoldsAll
  <2> QED  BY <1>0, <2>1, <2>2
<1>7. ASSUME NEW s \in Sizes, Write(s) \/ WriteFails(s)
      PROVE  UNCHANGED <<size, eofs, suspended, reading>>
  BY <1>7 DEF Write, WriteFails, ringVars
<1>8. CASE StreamClose
  <2>1. UNCHANGED <<size, eofs, suspended>> /\ (reading' => reading)
    BY <1>0, <1>8 DEF StreamClose, ringVars
  <2> QED  BY <1>00, <2>1
<1>9. CASE WriteCb \/ CloseCb \/ UNCHANGED vars
  <2>1. UNCHANGED <<size, eofs, suspended, reading>>
    BY <1>9 DEF WriteCb, CloseCb, vars, ringVars
  <2> QED  BY <1>00, <2>1
<1>10. ASSUME UNCHANGED <<size, eofs, suspended, reading>> PROVE Room'
  BY <1>10, RoomKept
<1> QED  BY <1>01, <1>1, <1>2, <1>3, <1>4, <1>5, <1>6, <1>7, <1>8, <1>9, <1>10
         DEF Next, Room, ReadsWhenWanted, ReadsIntoRoom, EndIsFinal, StaysSuspended

(***************************************************************************)
(* The order.                                                              *)
(***************************************************************************)

(* The content, by its length and its bytes. *)
LEMMA ContentIs ==
    ASSUME TypeOK
    PROVE  Content \in Seq(Byte) /\ Len(Content) = size
BY WindowType DEF TypeOK, RingTypeOK, Content, Get

LEMMA OrderedStep ==
    ASSUME TypeOK, PointersAgree, Ordered, [Next]_vars
    PROVE  Ordered'
<1>0. /\ arrived \in Nat /\ taken \in Nat /\ size \in Nat
      /\ Content \in Seq(Byte) /\ Len(Content) = size
      /\ size = arrived - taken /\ \A i \in 1 .. size : Content[i] = taken + i
  BY TypeFacts, ContentIs, RingAssumption DEF Ordered
<1>1. ASSUME NEW n \in 1 .. Capacity, ReadCb(n) PROVE Ordered'
  <2> DEFINE run == [i \in 1 .. n |-> arrived + i]
  <2>1. /\ n \in Nat /\ size' = size + n /\ arrived' = arrived + n /\ Content' = Content \o run
    BY <1>1, Arrives
  <2>2. taken' = taken
    BY <1>1 DEF ReadCb
  <2>3. run \in Seq(Byte) /\ Len(run) = n
    <3>1. run \in [1 .. n -> Byte]
      BY <1>1, ArrivingRun
    <3> QED  BY <2>1, <3>1
  <2>4. ASSUME NEW i \in 1 .. size' PROVE Content'[i] = taken + i
    <3>1. i \in Nat /\ i \in 1 .. size + n
      BY <1>0, <2>1
    <3>2. CASE i <= size
      <4>1. i \in 1 .. size
        BY <1>0, <3>1, <3>2
      <4>2. (Content \o run)[i] = Content[i]
        BY <1>0, <2>3, <4>1
      <4> QED  BY <1>0, <2>1, <4>1, <4>2
    <3>3. CASE ~(i <= size)
      <4>1. i - size \in 1 .. n
        BY <1>0, <2>1, <3>1, <3>3
      <4>2. (Content \o run)[i] = run[i - size]
        <5>1. i \in 1 .. Len(Content) + Len(run) /\ ~(i <= Len(Content))
          BY <1>0, <2>3, <3>1, <3>3
        <5>2. i - Len(Content) = i - size
          BY <1>0
        <5> HIDE DEF run
        <5> QED  BY <1>0, <2>3, <5>1, <5>2, ConcatProperties
      <4>3. run[i - size] = arrived + (i - size)
        BY <4>1
      <4>4. arrived + (i - size) = taken + i
        BY <1>0, <3>1
      <4> QED  BY <2>1, <4>2, <4>3, <4>4
    <3> QED  BY <3>2, <3>3
  <2>5. size' = arrived' - taken'
    BY <1>0, <2>1, <2>2
  <2> QED  BY <2>2, <2>4, <2>5 DEF Ordered
<1>2. CASE ReadEvent
  <2>1. CASE Head(events).eof \/ owner = "nobody"
    <3>1. UNCHANGED <<data, readPtr, size, taken, arrived>>
      BY <1>2, <2>1 DEF ReadEvent, ringVars
    <3>2. Content' = Content
      BY <3>1 DEF Content, Get
    <3> QED  BY <1>0, <3>1, <3>2 DEF Ordered
  <2>2. CASE ~(Head(events).eof \/ owner = "nobody")
    <3>1. PICK n : n = Amount(Head(events))
      OBVIOUS
    <3>2. /\ n \in 1 .. size /\ n \in Nat /\ size' = size - n /\ taken' = taken + n
          /\ Content' = SubSeq(Content, n + 1, Len(Content))
      BY <1>2, <2>2, <3>1, Takes
    <3>3. arrived' = arrived
      BY <1>2 DEF ReadEvent
    <3>4. ASSUME NEW i \in 1 .. size' PROVE Content'[i] = taken' + i
      <4>1. n + i \in 1 .. size /\ i \in Nat
        BY <1>0, <3>2
      <4>2. SubSeq(Content, n + 1, Len(Content))[i] = Content[n + i]
        BY <1>0, <3>2, <4>1
      <4>3. Content[n + i] = taken + (n + i)
        BY <1>0, <4>1
      <4> QED  BY <1>0, <3>2, <4>1, <4>2, <4>3
    <3>5. size' = arrived' - taken'
      BY <1>0, <3>2, <3>3
    <3> QED  BY <3>4, <3>5 DEF Ordered
  <2> QED  BY <2>1, <2>2
<1>3. CASE ReadEof
  <2>1. UNCHANGED <<data, readPtr, size, taken, arrived>>
    BY <1>3 DEF ReadEof, ringVars
  <2>2. Content' = Content
    BY <2>1 DEF Content, Get
  <2> QED  BY <1>0, <2>1, <2>2 DEF Ordered
<1>4. CASE Quiet
  <2>1. UNCHANGED <<size, taken, arrived>>
    BY <1>4 DEF Quiet, Reset, ringVars
  <2>2. Content' = Content
    <3>1. CASE Reset
      BY <3>1, ResetContent DEF Inv, TypeOK
    <3>2. CASE UNCHANGED ringVars
      BY <3>2 DEF Content, Get, ringVars
    <3> QED  BY <1>4, <3>1, <3>2 DEF Quiet
  <2> QED  BY <1>0, <2>1, <2>2 DEF Ordered
<1> QED  BY <1>1, <1>2, <1>3, <1>4, ReadSteps
(***************************************************************************)
(* The events and the bytes they stand for.                                *)
(***************************************************************************)
LEMMA WrapTwice ==
    ASSUME NEW p \in Offset, NEW c \in Nat, NEW x \in Nat, c <= x, x <= Capacity
    PROVE  Wrap(Wrap(p + c) + (x - c)) = Wrap(p + x)
BY RingAssumption DEF Wrap, Offset

(* An event of n bytes more. *)
LEMMA ChunkAdded ==
    ASSUME TypeOK, PointersAgree, Ordered, Chunks, EndsAreEmpty,
           NEW n \in 0 .. Capacity, NEW eof \in BOOLEAN, eof => n = 0,
           InvokeReadCb(n, eof), UNCHANGED <<owner, readPtr, taken>>,
           arrived' = arrived + n, writePtr + n <= Capacity
    PROVE  Chunks'
<1> SUFFICES ASSUME owner \in {"job", "rpc", "shell"}
             PROVE  \E start \in [1 .. Len(events') + 1 -> Nat] : Begins(start)'
  BY DEF Chunks
<1> DEFINE L == Len(events)
<1>1. /\ Len(events') = L + 1 /\ L \in Nat
      /\ \A i \in 1 .. L : events'[i] = events[i]
      /\ events'[L + 1].count = n
  BY EventAdded
<1>2. arrived \in Nat /\ taken \in Nat /\ n \in Nat /\ readPtr \in Nat /\ Capacity \in Nat
  BY TypeFacts, RingAssumption DEF Offset
<1>3. PICK start \in [1 .. L + 1 -> Nat] : Begins(start)
  BY DEF Chunks
<1> HIDE DEF L
<1>4. /\ start[1] = taken /\ start[L + 1] = arrived
      /\ \A i, j \in 1 .. L + 1 : i <= j => start[i] <= start[j]
      /\ \A i \in 1 .. L :
           /\ start[i + 1] = start[i] + events[i].count
           /\ Wrap(readPtr + (start[i] - taken)) + events[i].count <= Capacity
  BY <1>3 DEF Begins, L
<1>5. PICK next \in [1 .. L + 2 -> Nat] :
          next = [i \in 1 .. L + 2 |-> IF i = L + 2 THEN arrived + n ELSE start[i]]
  <2>1. [i \in 1 .. L + 2 |-> IF i = L + 2 THEN arrived + n ELSE start[i]]
          \in [1 .. L + 2 -> Nat]
    BY <1>1, <1>2, <1>3
  <2> QED  BY <2>1
<1>6. /\ next[L + 2] = arrived + n
      /\ \A i \in 1 .. L + 1 : next[i] = start[i] /\ start[i] \in Nat
  BY <1>1, <1>3, <1>5
<1>7. next[1] = taken' /\ next[(L + 1) + 1] = arrived'
  <2>1. \A k \in Nat : 1 \in 1 .. k + 1 /\ (k + 1) + 1 = k + 2
    OBVIOUS
  <2>2. 1 \in 1 .. L + 1 /\ (L + 1) + 1 = L + 2
    BY <1>1, <2>1
  <2> QED  BY <1>4, <1>6, <2>2
<1>8. ASSUME NEW i \in 1 .. L + 2, NEW j \in 1 .. L + 2, i <= j
      PROVE  next[i] <= next[j]
  <2>1. i \in Nat /\ j \in Nat
    BY <1>1
  <2>2. CASE j # L + 2
    <3>1. i \in 1 .. L + 1 /\ j \in 1 .. L + 1
      BY <1>1, <1>8, <2>1, <2>2
    <3> QED  BY <1>4, <1>6, <1>8, <3>1
  <2>3. CASE j = L + 2 /\ i # L + 2
    <3>1. i \in 1 .. L + 1 /\ L + 1 \in 1 .. L + 1 /\ i <= L + 1
      BY <1>1, <2>1, <2>3
    <3>2. start[i] <= arrived
      BY <1>4, <3>1
    <3> QED  BY <1>2, <1>6, <2>3, <3>1, <3>2
  <2>4. CASE j = L + 2 /\ i = L + 2
    BY <1>2, <1>6, <2>4
  <2> QED  BY <2>2, <2>3, <2>4
<1>9. ASSUME NEW i \in 1 .. L + 1
      PROVE  /\ next[i + 1] = next[i] + events'[i].count
             /\ Wrap(readPtr' + (next[i] - taken')) + events'[i].count <= Capacity
  <2>1. CASE i = L + 1
    <3>1. i + 1 = L + 2 /\ i \in 1 .. L + 1
      BY <1>1, <2>1
    <3>2. next[i + 1] = arrived + n /\ next[i] = arrived /\ events'[i].count = n
      BY <1>1, <1>4, <1>6, <2>1, <3>1
    <3>3. writePtr = Wrap(readPtr + (arrived - taken))
      BY DEF PointersAgree, Ordered
    <3> QED  BY <3>2, <3>3
  <2>2. CASE i # L + 1
    <3>1. i \in 1 .. L /\ i + 1 \in 1 .. L + 1
      BY <1>1, <2>2
    <3>2. next[i + 1] = start[i + 1] /\ next[i] = start[i] /\ events'[i] = events[i]
      BY <1>1, <1>6, <3>1
    <3> QED  BY <1>4, <3>1, <3>2
  <2> QED  BY <2>1, <2>2
<1>10. Len(events') + 1 = L + 2 /\ Len(events') = L + 1 /\ Len(events') + 1 = (L + 1) + 1
  BY <1>1
<1>11. Begins(next)'
  BY <1>7, <1>8, <1>9, <1>10 DEF Begins
<1> QED  BY <1>5, <1>10, <1>11

(* The first event is handled: what it counts is taken. *)
LEMMA ChunkTaken ==
    ASSUME TypeOK, PointersAgree, Ordered, Chunks, EndsAreEmpty, OneHoldsAll, ReadEvent
    PROVE  Chunks'
<1> SUFFICES ASSUME owner' \in {"job", "rpc", "shell"}
             PROVE  \E start \in [1 .. Len(events') + 1 -> Nat] : Begins(start)'
  BY DEF Chunks
<1>0. /\ owner \in {"job", "rpc", "shell"} /\ events # <<>> /\ events' = Tail(events)
      /\ arrived' = arrived
  BY DEF ReadEvent
<1> DEFINE L == Len(events)
<1>1. /\ L \in Nat \ {0} /\ Len(events') = L - 1 /\ Head(events) = events[1]
      /\ \A i \in 1 .. Len(events') : events'[i] = events[i + 1]
  BY <1>0, EventGone
<1>2. PICK start \in [1 .. L + 1 -> Nat] : Begins(start)
  BY <1>0 DEF Chunks
<1>3. PICK c : c = events[1].count
  OBVIOUS
<1>4. /\ arrived \in Nat /\ taken \in Nat /\ readPtr \in Offset /\ size \in Nat
      /\ size <= Capacity /\ Capacity \in Nat /\ size = arrived - taken
  BY TypeFacts, RingAssumption DEF Ordered
<1>5. c \in Nat
  <2>1. events[1] \in Event
    BY <1>1 DEF TypeOK
  <2> QED  BY <1>3, <2>1, RingAssumption DEF Event
<1> HIDE DEF L
<1>6. /\ start[1] = taken /\ start[L + 1] = arrived
      /\ \A i, j \in 1 .. L + 1 : i <= j => start[i] <= start[j]
      /\ \A i \in 1 .. L :
           /\ start[i + 1] = start[i] + events[i].count
           /\ Wrap(readPtr + (start[i] - taken)) + events[i].count <= Capacity
  BY <1>2 DEF Begins, L
<1>7. start[2] = taken + c
  <2>1. 1 \in 1 .. L /\ 1 + 1 = 2
    BY <1>1
  <2> QED  BY <1>3, <1>6, <2>1
<1>8. taken' = taken + c /\ readPtr' = Wrap(readPtr + c)
  <2>1. CASE events[1].eof
    <3>1. c = 0
      <4>1. 1 \in 1 .. Len(events)
        BY <1>1 DEF L
      <4> QED  BY <1>3, <2>1, <4>1 DEF EndsAreEmpty
    <3>2. UNCHANGED <<readPtr, taken>>
      BY <1>1, <2>1 DEF ReadEvent, ringVars
    <3>3. Wrap(readPtr + 0) = readPtr
      BY <1>4 DEF Wrap, Offset
    <3> QED  BY <1>4, <3>1, <3>2, <3>3
  <2>2. CASE ~events[1].eof
    <3>1. c = Amount(Head(events)) /\ ~(Head(events).eof \/ owner = "nobody")
      BY <1>0, <1>1, <1>3, <2>2, ShellTakesAll DEF Amount
    <3> QED  BY <3>1, Takes
  <2> QED  BY <2>1, <2>2
<1>9. PICK next \in [1 .. L -> Nat] :
        \A i \in 1 .. L : next[i] = start[i + 1] /\ i + 1 \in 1 .. L + 1 /\ i \in Nat
  <2>1. [i \in 1 .. L |-> start[i + 1]] \in [1 .. L -> Nat]
    BY <1>1, <1>2
  <2>2. \A i \in 1 .. L : i + 1 \in 1 .. L + 1 /\ i \in Nat
    BY <1>1
  <2> QED  BY <2>1, <2>2
<1>10. next[1] = taken' /\ next[L] = arrived'
  <2>1. 1 \in 1 .. L /\ L \in 1 .. L /\ 1 + 1 = 2
    BY <1>1
  <2> QED  BY <1>0, <1>6, <1>7, <1>8, <1>9, <2>1
<1>11. ASSUME NEW i \in 1 .. L, NEW j \in 1 .. L, i <= j
       PROVE  next[i] <= next[j]
  <2>1. i + 1 <= j + 1
    BY <1>9, <1>11
  <2> QED  BY <1>6, <1>9, <2>1
<1>12. ASSUME NEW i \in 1 .. L - 1
       PROVE  /\ next[i + 1] = next[i] + events'[i].count
              /\ Wrap(readPtr' + (next[i] - taken')) + events'[i].count <= Capacity
  <2>1. /\ i \in 1 .. L /\ i + 1 \in 1 .. L /\ (i + 1) + 1 \in 1 .. L + 1
        /\ i \in 1 .. Len(events')
    BY <1>1
  <2>2. events'[i] = events[i + 1]
    BY <1>1, <2>1
  <2>3. next[i + 1] = next[i] + events'[i].count
    BY <1>6, <1>9, <2>1, <2>2
  <2> DEFINE x == start[i + 1] - taken
  <2>4. x \in Nat /\ c <= x /\ x <= Capacity
    <3>1. 2 \in 1 .. L + 1 /\ 2 <= i + 1 /\ L + 1 \in 1 .. L + 1 /\ i + 1 <= L + 1
      BY <1>1
    <3>2. start[2] <= start[i + 1] /\ start[i + 1] <= start[L + 1]
      BY <1>6, <1>9, <2>1, <3>1
    <3>3. start[i + 1] \in Nat
      BY <1>2, <1>9, <2>1
    <3> QED  BY <1>4, <1>5, <1>6, <1>7, <3>2, <3>3
  <2>5. next[i] - taken' = x - c
    <3>1. start[i + 1] \in Nat
      BY <1>2, <1>9, <2>1
    <3> QED  BY <1>4, <1>5, <1>8, <1>9, <2>1, <3>1
  <2>6. Wrap(readPtr' + (next[i] - taken')) = Wrap(readPtr + x)
    <3>1. Wrap(Wrap(readPtr + c) + (x - c)) = Wrap(readPtr + x)
      <4> HIDE DEF x
      <4> QED  BY <1>4, <1>5, <2>4, WrapTwice
    <3> QED  BY <1>8, <2>5, <3>1
  <2> QED  BY <1>6, <2>1, <2>2, <2>3, <2>6
<1>13. Len(events') + 1 = L /\ Len(events') = L - 1
  BY <1>1
<1>14. Begins(next)'
  BY <1>10, <1>11, <1>12, <1>13 DEF Begins
<1> QED  BY <1>9, <1>13, <1>14

LEMMA ChunksStep ==
    ASSUME TypeOK, PointersAgree, Ordered, Chunks, EndsAreEmpty, OneHoldsAll, [Next]_vars
    PROVE  Chunks'
<1>1. ASSUME NEW n \in 1 .. Capacity, ReadCb(n) PROVE Chunks'
  <2>1. InvokeReadCb(n, FALSE) /\ n \in 0 .. Capacity /\ UNCHANGED <<owner, taken>>
    BY <1>1, RingAssumption DEF ReadCb, InvokeReadCb
  <2>2. Inv /\ arrived' = arrived + n /\ n <= WriteCount /\ readPtr' = readPtr /\ n \in Nat
    BY <1>1, Arrives
  <2>3. writePtr + n <= Capacity
    <3>1. WriteCount \in 0 .. Space /\ writePtr + WriteCount <= Capacity
      BY <2>2, WriteCountFits
    <3>2. Space \in Int /\ writePtr \in Int /\ Capacity \in Int
      BY TypeFacts, RingAssumption DEF Space, Offset
    <3> QED  BY <2>2, <3>1, <3>2
  <2> QED  BY <2>1, <2>2, <2>3, ChunkAdded
<1>2. CASE ReadEof
  <2>1. /\ InvokeReadCb(0, TRUE) /\ 0 \in 0 .. Capacity
        /\ UNCHANGED <<owner, taken, readPtr, arrived>>
    BY <1>2, RingAssumption DEF ReadEof, InvokeReadCb, ringVars
  <2>2. writePtr + 0 <= Capacity /\ arrived' = arrived + 0
    BY <2>1, TypeFacts, RingAssumption DEF Offset
  <2> QED  BY <2>1, <2>2, ChunkAdded
<1>3. CASE ReadEvent
  BY <1>3, ChunkTaken
<1>4. CASE Quiet
  <2>1. SUFFICES ASSUME owner \in {"job", "rpc", "shell"} PROVE Chunks'
    BY <1>4 DEF Quiet, Chunks
  <2>2. UNCHANGED <<owner, events, arrived, taken, readPtr>>
    BY <1>4, <2>1 DEF Quiet, ringVars
  <2> QED  BY <2>2 DEF Chunks, Begins
<1> QED  BY <1>1, <1>2, <1>3, <1>4, ReadSteps
-----------------------------------------------------------------------------
(***************************************************************************)
(* The theorems.                                                           *)
(***************************************************************************)
LEMMA NextSound == IInv /\ [Next]_vars => IInv'
<1> SUFFICES ASSUME IInv, [Next]_vars PROVE IInv'
  OBVIOUS
<1> USE DEF IInv
<1>1. TypeOK' /\ PointersAgree'
  BY TypeStep DEF Closes
<1>2. Closes'
  BY ClosesStep
<1>3. CurmemCounts'
  BY CurmemStep
<1>4. Turns'
  BY TurnsStep
<1>5. Room'
  BY RoomStep
<1>6. Ordered'
  BY OrderedStep
<1>7. Chunks'
  BY ChunksStep DEF Turns
<1> QED  BY <1>1, <1>2, <1>3, <1>4, <1>5, <1>6, <1>7

(* Every state of the stream keeps the invariant. *)
THEOREM StreamInvariant == Spec => []IInv
BY InitSound, NextSound, PTL DEF Spec

(* pending_reqs counts the events, the callbacks and the writes, so that   *)
(* the handle is closed once and after the last of them; curmem counts     *)
(* what is in flight and what was refused.                                 *)
THEOREM PendingIsCounted == Spec => []PendingCounted
<1>1. IInv => PendingCounted
  BY DEF IInv, Closes, PendingCounted
<1> QED  BY StreamInvariant, <1>1, PTL

(* libuv reads only into a buffer that has room, never after the end, and  *)
(* never while the terminal is left.                                       *)
THEOREM ReadingIsWanted == Spec => []ReadsWhenWanted
<1>1. IInv => ReadsWhenWanted
  BY DEF IInv, Room
<1> QED  BY StreamInvariant, <1>1, PTL

(* The bytes reach the owner in the order they arrived, none lost, none    *)
(* doubled, and what an event counts does not wrap.                        *)
THEOREM BytesInOrder == Spec => []ReadInOrder
<1>1. IInv => ReadInOrder
  BY FirstChunk, ShellTakesAll
     DEF IInv, Turns, Ordered, ReadInOrder, InOrder, ChunkInOnePiece
<1> QED  BY StreamInvariant, <1>1, PTL

(* The buffer of a stream is a bounded queue of bytes: the stream uses its *)
(* ring buffer as the ring buffer is meant to be used.                     *)
THEOREM StreamBufferIsQueue == Spec => ImplementsQueue
<1>1. Init => RingInit
  BY DEF Init
<1>2. IInv /\ [Next]_vars => [RingNext]_ringVars
  BY RingSteps DEF IInv
<1>3. Spec => RingSpec
  BY StreamInvariant, <1>1, <1>2, PTL DEF Spec, RingSpec
<1> QED  BY <1>3, RingIsQueue
==============================================================================

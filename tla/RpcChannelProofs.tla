--------------------------- MODULE RpcChannelProofs ---------------------------
(***************************************************************************)
(* Proofs about RpcChannel, for any messages of the peer's, any number of  *)
(* them, of requests and of notifications, and any limit on the memory in  *)
(* flight: the channel is allocated exactly as long as it is held, every   *)
(* message of the peer's is in one place, notifications stay in order, and *)
(* a call that ends has its own answer, or the channel's error.           *)
(***************************************************************************)
EXTENDS RpcChannel, FiniteSetTheorems, SequenceTheorems, WellFoundedInduction, TLAPS

(* Induction, on a set of numbers: by the least number it would miss.       *)
LEMMA AllUpTo ==
    ASSUME NEW len \in Nat, NEW N, 0 \in N,
           \A n \in 0 .. len - 1 : n \in N => n + 1 \in N
    PROVE  \A n \in 0 .. len : n \in N
<1> DEFINE Bad == {n \in 0 .. len : n \notin N}
<1>1. SUFFICES ASSUME Bad # {} PROVE FALSE
  OBVIOUS
<1>2. Bad \in SUBSET Nat
  OBVIOUS
<1>3. PICK m \in Bad : \A k \in Bad : m <= k
  <2> HIDE DEF Bad
  <2>1. PICK m \in Bad : \A k \in Bad : <<k, m>> \notin OpToRel(<, Nat)
    BY <1>1, <1>2, WFMin, NatLessThanWellFounded, Zenon
  <2>2. \A k \in Bad : ~(k < m)
    BY <1>2, <2>1, Zenon DEF OpToRel
  <2> QED  BY <1>2, <2>2
<1>4. m \in Nat /\ m # 0 /\ m <= len /\ m \notin N
  BY <1>3
<1>5. m - 1 \in 0 .. len - 1 /\ m - 1 \notin Bad
  BY <1>3, <1>4
<1>6. m - 1 \in N
  BY <1>5
<1> QED  BY <1>4, <1>5, <1>6

(***************************************************************************)
(* The channel.  Own counts the holders other than the list of channels    *)
(* and the stream; closing, and a write that fails, leave it alone.        *)
(***************************************************************************)
OutMessages == [type : {"request", "note", "response"}, n : Nat]

Channels == [refcount : Int, closed : BOOLEAN,
             stream : {"open", "draining", "closing", "gone"}, writing : Nat,
             out : Seq(OutMessages), next : 1 .. MaxCalls + 1, pending : Nat,
             calls : Seq(Frames), delayed : Seq(1 .. MaxNotes), broken : BOOLEAN]

Fit(c) == c \in Channels /\ (~c.closed => c.stream = "open")

Own(c) == c.refcount - (IF c.closed THEN 0 ELSE 1) - (IF c.stream = "gone" THEN 0 ELSE 1)

(* What a call that waits may see happen to the channel by a write, or by  *)
(* a close: its answer stays, or it ends with an error.                    *)
Kin(c, d) ==
    /\ Own(d) = Own(c) /\ d.next = c.next /\ d.pending = c.pending
    /\ Len(d.calls) = Len(c.calls)
    /\ \A i \in 1 .. Len(c.calls) :
         \/ d.calls[i] = c.calls[i]
         \/ d.calls[i].errored /\ d.calls[i].got = 0

LEMMA KinTrans ==
    ASSUME NEW c, NEW d, NEW e, Kin(c, d), Kin(d, e), Len(c.calls) \in Nat
    PROVE  Kin(c, e)
<1>1. Len(d.calls) = Len(c.calls)
  BY DEF Kin
<1>2. ASSUME NEW i \in 1 .. Len(c.calls)
      PROVE  \/ e.calls[i] = c.calls[i]
             \/ e.calls[i].errored /\ e.calls[i].got = 0
  <2>1. \/ d.calls[i] = c.calls[i]
        \/ d.calls[i].errored /\ d.calls[i].got = 0
    BY <1>2, Zenon DEF Kin
  <2>2. \/ e.calls[i] = d.calls[i]
        \/ e.calls[i].errored /\ e.calls[i].got = 0
    BY <1>1, <1>2, Zenon DEF Kin
  <2> QED  BY <2>1, <2>2
<1> QED  BY <1>1, <1>2 DEF Kin

LEMMA CloseFits ==
    ASSUME NEW c, Fit(c)
    PROVE  LET d == CloseChannel(c)
           IN  /\ Fit(d) /\ Kin(c, d) /\ d.closed
               /\ d.out = c.out /\ d.delayed = c.delayed /\ d.calls = c.calls
<1> DEFINE d == CloseChannel(c)
<1>1. CASE c.closed
  <2>1. d = c
    BY <1>1 DEF CloseChannel
  <2> QED  BY <1>1, <2>1 DEF Kin, Fit, Channels
<1>2. CASE ~c.closed
  <2> DEFINE end == IF c.writing = 0 THEN "closing" ELSE "draining"
             count == c.refcount - 1
  <2>1. /\ c.refcount \in Int /\ c.stream = "open"
        /\ d = [c EXCEPT !.closed = TRUE, !.stream = end, !.refcount = count]
    BY <1>2 DEF CloseChannel, Decref, StreamClose, Fit, Channels
  <2>5. end \in {"closing", "draining"} /\ count = c.refcount - 1 /\ count \in Int
    BY <2>1
  <2> HIDE DEF end, count
  <2>2. d \in Channels
    BY <2>1, <2>5 DEF Fit, Channels
  <2>6. d.closed /\ d.stream # "gone" /\ d.refcount = count
    BY <2>1, <2>5 DEF Fit, Channels
  <2>3. /\ d.out = c.out /\ d.delayed = c.delayed /\ d.calls = c.calls
        /\ d.next = c.next /\ d.pending = c.pending
    BY <2>1 DEF Fit, Channels
  <2>4. Own(d) = Own(c)
    BY <1>2, <2>1, <2>5, <2>6 DEF Own
  <2> QED  BY <2>2, <2>3, <2>4, <2>6 DEF Kin, Fit
<1> QED  BY <1>1, <1>2

LEMMA SetErrorFits ==
    ASSUME NEW c, Fit(c)
    PROVE  LET d == SetError(c)
           IN  Fit(d) /\ Kin(c, d) /\ d.out = c.out /\ d.delayed = c.delayed
<1> DEFINE s == [i \in DOMAIN c.calls |->
                  [c.calls[i] EXCEPT !.returned = TRUE, !.errored = TRUE, !.got = 0]]
           b == [c EXCEPT !.calls = s]
           d == SetError(c)
<1>1. d = CloseChannel(b)
  BY DEF SetError
<1> DEFINE n == Len(c.calls)
<1>0. /\ c.calls \in Seq(Frames) /\ n \in Nat /\ DOMAIN c.calls = 1 .. n
      /\ \A i \in 1 .. n : c.calls[i] \in Frames
  BY DEF Fit, Channels
<1>2. /\ c.calls \in Seq(Frames) /\ Len(s) = Len(c.calls) /\ s \in Seq(Frames)
      /\ \A i \in 1 .. Len(c.calls) :
           s[i] = [c.calls[i] EXCEPT !.returned = TRUE, !.errored = TRUE, !.got = 0]
  <2>1. c.calls \in Seq(Frames) /\ Len(c.calls) \in Nat
          /\ DOMAIN c.calls = 1 .. Len(c.calls)
    BY DEF Fit, Channels
  <2>2. \A i \in 1 .. Len(c.calls) :
          s[i] = [c.calls[i] EXCEPT !.returned = TRUE, !.errored = TRUE, !.got = 0]
    BY <2>1
  <2>3. \A i \in 1 .. Len(c.calls) : s[i] \in Frames
    <3> HIDE DEF s
    <3>1. ASSUME NEW i \in 1 .. Len(c.calls) PROVE s[i] \in Frames
      <4>1. c.calls[i] \in Frames /\ 0 \in 0 .. MaxCalls
        BY <2>1, ChannelAssumption
      <4> QED  BY <2>2, <4>1 DEF Frames
    <3> QED  BY <3>1
  <2>4. s \in [1 .. Len(c.calls) -> Frames]
    BY <2>1, <2>3
  <2> HIDE DEF s
  <2>5. s \in Seq(Frames) /\ Len(s) = Len(c.calls)
    BY <2>1, <2>4
  <2> QED  BY <2>1, <2>2, <2>5
<1> HIDE DEF s
<1>3. /\ b.calls = s /\ b \in Channels /\ b.closed = c.closed /\ b.stream = c.stream
         /\ b.out = c.out
      /\ b.delayed = c.delayed /\ b.next = c.next /\ b.pending = c.pending
      /\ b.refcount = c.refcount
  BY <1>2 DEF Fit, Channels
<1>4. Fit(b) /\ Own(b) = Own(c)
  BY <1>3 DEF Fit, Own
<1>5. \A i \in 1 .. Len(c.calls) : b.calls[i].errored /\ b.calls[i].got = 0
  <2>1. ASSUME NEW i \in 1 .. Len(c.calls)
        PROVE  s[i].errored /\ s[i].got = 0
    <3>1. c.calls[i] \in Frames
      BY <1>0
    <3>2. s[i] = [c.calls[i] EXCEPT !.returned = TRUE, !.errored = TRUE, !.got = 0]
      BY <1>2
    <3> QED  BY <3>1, <3>2 DEF Frames
  <2> QED  BY <1>3, <2>1
<1> HIDE DEF b, d
<1>6. /\ Fit(d) /\ Kin(b, d) /\ d.out = b.out /\ d.delayed = b.delayed
  BY <1>1, <1>4, CloseFits
<1>7. Kin(c, b)
  BY <1>2, <1>3, <1>4, <1>5 DEF Kin
<1>8. Len(c.calls) \in Nat
  BY <1>2, LenProperties
<1>9. Kin(c, d)
  BY <1>6, <1>7, <1>8, KinTrans
<1> QED  BY <1>3, <1>6, <1>9 DEF d

LEMMA WriteFits ==
    ASSUME NEW c, Fit(c), NEW m \in OutMessages
    PROVE  LET d == Write(c, m)
           IN  /\ Fit(d) /\ Kin(c, d) /\ d.delayed = c.delayed
               /\ d.out = c.out \/ d.out = Append(c.out, m)
<1> DEFINE d == Write(c, m)
<1>1. CASE Accepts(c)
  <2>1. d = [c EXCEPT !.writing = @ + 1, !.out = Append(@, m)]
    BY <1>1 DEF Write
  <2>2. d \in Channels
    <3>1. c.writing + 1 \in Nat /\ Append(c.out, m) \in Seq(OutMessages)
      BY DEF Fit, Channels
    <3> QED  BY <2>1, <3>1 DEF Fit, Channels
  <2>3. /\ d.closed = c.closed /\ d.stream = c.stream /\ d.refcount = c.refcount
        /\ d.next = c.next /\ d.pending = c.pending /\ d.calls = c.calls
        /\ d.delayed = c.delayed /\ d.out = Append(c.out, m)
    BY <2>1 DEF Fit, Channels
  <2> QED  BY <2>2, <2>3 DEF Fit, Kin, Own
<1>2. CASE ~Accepts(c) /\ c.closed
  <2>1. d = c
    BY <1>2 DEF Write
  <2> QED  BY <2>1 DEF Kin
<1>3. CASE ~Accepts(c) /\ ~c.closed
  <2>1. d = SetError(c)
    BY <1>3 DEF Write
  <2> QED  BY <2>1, SetErrorFits
<1> QED  BY <1>1, <1>2, <1>3
(***************************************************************************)
(* The notifications held back.  Each write takes the first of those that  *)
(* are left, so that what is sent and what is left stay in order.          *)
(***************************************************************************)
Loop(g, c, n) ==
    g = [i \in 0 .. n |->
          IF i = 0 THEN c ELSE Write(g[i - 1], Message("note", c.delayed[i]))]

LEMMA LoopExists ==
    ASSUME NEW c, NEW n \in Nat
    PROVE  \E g : Loop(g, c, n)
<1> DEFINE N == {k \in 0 .. n : \E g : Loop(g, c, k)}
<1>1. 0 \in N
  <2> DEFINE g == [i \in 0 .. 0 |-> c]
  <2>1. Loop(g, c, 0)
    BY DEF Loop
  <2> QED  BY <2>1
<1>2. ASSUME NEW k \in 0 .. n - 1, k \in N
      PROVE  k + 1 \in N
  <2>1. PICK g : Loop(g, c, k)
    BY <1>2
  <2> DEFINE h == [i \in 0 .. k + 1 |->
                    IF i = k + 1 THEN Write(g[k], Message("note", c.delayed[k + 1]))
                    ELSE g[i]]
             l == [i \in 0 .. k + 1 |->
                    IF i = 0 THEN c ELSE Write(h[i - 1], Message("note", c.delayed[i]))]
  <2>2. ASSUME NEW i \in 0 .. k + 1
        PROVE  h[i] = l[i]
    <3>1. CASE i = k + 1
      <4>1. i # 0 /\ i - 1 = k /\ k \in 0 .. k + 1 /\ k # k + 1
        BY <3>1
      <4>2. h[k] = g[k]
        BY <4>1
      <4> QED  BY <3>1, <4>1, <4>2
    <3>2. CASE i # k + 1
      <4>1. i \in 0 .. k /\ h[i] = g[i]
        BY <3>2
      <4>2. i # 0 => i - 1 \in 0 .. k + 1 /\ i - 1 # k + 1 /\ h[i - 1] = g[i - 1]
        BY <4>1
      <4>3. g[i] = IF i = 0 THEN c ELSE Write(g[i - 1], Message("note", c.delayed[i]))
        BY <2>1, <4>1, Zenon DEF Loop
      <4>4. l[i] = IF i = 0 THEN c ELSE Write(h[i - 1], Message("note", c.delayed[i]))
        OBVIOUS
      <4> HIDE DEF h, l
      <4> QED  BY <4>1, <4>2, <4>3, <4>4
    <3> QED  BY <3>1, <3>2
  <2>3. h = [i \in 0 .. k + 1 |-> h[i]] /\ l = [i \in 0 .. k + 1 |-> l[i]]
    OBVIOUS
  <2>4. h = l
    <3> HIDE DEF h, l
    <3> QED  BY <2>2, <2>3
  <2>5. Loop(h, c, k + 1)
    <3>1. l = [i \in 0 .. k + 1 |->
                IF i = 0 THEN c ELSE Write(h[i - 1], Message("note", c.delayed[i]))]
      OBVIOUS
    <3> HIDE DEF h, l
    <3> QED  BY <2>4, <3>1 DEF Loop
  <2>6. k + 1 \in 0 .. n
    OBVIOUS
  <2> HIDE DEF h, l
  <2> QED  BY <2>5, <2>6
<1>3. \A k \in 0 .. n : k \in N
  <2> HIDE DEF N
  <2> QED  BY <1>1, <1>2, AllUpTo
<1> QED  BY <1>3

LEMMA SentIsLast ==
    ASSUME NEW c, Len(c.delayed) \in Nat
    PROVE  \E g : /\ g[0] = c /\ Sent(c) = g[Len(c.delayed)]
                  /\ \A i \in 1 .. Len(c.delayed) :
                       g[i] = Write(g[i - 1], Message("note", c.delayed[i]))
<1> DEFINE n == Len(c.delayed)
           after == CHOOSE g : Loop(g, c, n)
<1>1. Loop(after, c, n)
  BY LoopExists
<1>2. Sent(c) = after[n]
  BY DEF Sent, Loop
<1> HIDE DEF after
<1>3. 0 \in 0 .. n /\ \A i \in 1 .. n : i \in 0 .. n /\ i # 0
  OBVIOUS
<1>4. after[0] = c
  BY <1>1, <1>3, Zenon DEF Loop
<1>5. \A i \in 1 .. n : after[i] = Write(after[i - 1], Message("note", c.delayed[i]))
  BY <1>1, <1>3, Zenon DEF Loop
<1> QED  BY <1>2, <1>4, <1>5

(* What is in the writes: numbers that were given out. *)
OutKnown(out, notes) ==
    \A i \in DOMAIN out : /\ out[i].type = "request" => out[i].n \in 1 .. MaxCalls
                          /\ out[i].type = "note" => out[i].n \in 1 .. notes

LEMMA OutGrows ==
    ASSUME NEW out \in Seq(OutMessages), NEW m \in OutMessages, NEW k \in Nat,
           OutKnown(out, k), m.type = "request" => m.n \in 1 .. MaxCalls,
           m.type = "note" => m.n \in 1 .. k
    PROVE  OutKnown(Append(out, m), k)
<1> DEFINE o == Append(out, m)
<1>1. /\ DOMAIN o = 1 .. Len(out) + 1 /\ DOMAIN out = 1 .. Len(out) /\ Len(out) \in Nat
      /\ \A i \in 1 .. Len(out) : o[i] = out[i]
      /\ o[Len(out) + 1] = m
  OBVIOUS
<1> HIDE DEF o
<1>2. ASSUME NEW i \in DOMAIN o
      PROVE  /\ o[i].type = "request" => o[i].n \in 1 .. MaxCalls
             /\ o[i].type = "note" => o[i].n \in 1 .. k
  <2>1. CASE i = Len(out) + 1
    BY <1>1, <2>1
  <2>2. CASE i # Len(out) + 1
    <3>1. i \in DOMAIN out /\ o[i] = out[i]
      BY <1>1, <2>2
    <3> QED  BY <3>1 DEF OutKnown
  <2> QED  BY <2>1, <2>2
<1>3. OutKnown(o, k)
  BY <1>2 DEF OutKnown
<1> QED  BY <1>3 DEF o

(* A notification that is written after those that went before it, and     *)
(* before those that are left.                                             *)
LEMMA NoteSent ==
    ASSUME NEW heard \in Seq(Nat), NEW out \in Seq(OutMessages), NEW left \in Seq(Nat),
           NEW m \in OutMessages, InOrder(heard, out, left),
           m.type = "note" =>
             /\ \A i \in DOMAIN heard : heard[i] < m.n
             /\ \A i \in DOMAIN out : out[i].type = "note" => out[i].n < m.n
             /\ \A i \in DOMAIN left : m.n < left[i]
    PROVE  InOrder(heard, Append(out, m), left)
<1> DEFINE o == Append(out, m)
<1>1. /\ DOMAIN o = 1 .. Len(out) + 1 /\ DOMAIN out = 1 .. Len(out) /\ Len(out) \in Nat
      /\ \A i \in 1 .. Len(out) : o[i] = out[i]
      /\ o[Len(out) + 1] = m
  OBVIOUS
<1> HIDE DEF o
<1> DEFINE notes == {i \in DOMAIN o : o[i].type = "note"}
<1>2. \A i \in notes : i = Len(out) + 1 \/ (i \in DOMAIN out /\ o[i] = out[i])
  BY <1>1
<1>3. ASSUME NEW i \in notes, NEW j \in notes, i < j PROVE o[i].n < o[j].n
  <2>1. i \in DOMAIN out /\ o[i] = out[i] /\ out[i].type = "note"
    BY <1>1, <1>3
  <2>2. CASE j = Len(out) + 1
    BY <1>1, <2>1, <2>2
  <2>3. CASE j # Len(out) + 1
    BY <1>1, <1>2, <1>3, <2>1, <2>3 DEF InOrder
  <2> QED  BY <2>2, <2>3
<1>4. ASSUME NEW i \in notes
      PROVE  /\ \A h \in DOMAIN heard : heard[h] < o[i].n
             /\ \A d \in DOMAIN left : o[i].n < left[d]
  <2>1. CASE i = Len(out) + 1
    BY <1>1, <2>1
  <2>2. CASE i # Len(out) + 1
    BY <1>2, <2>2 DEF InOrder
  <2> QED  BY <2>1, <2>2
<1>5. InOrder(heard, o, left)
  <2> HIDE DEF notes
  <2>1. notes = {i \in DOMAIN o : o[i].type = "note"}
    BY DEF notes
  <2> QED  BY <1>3, <1>4, <2>1 DEF InOrder
<1> QED  BY <1>5 DEF o

(* The first of those that are left goes, or is lost. *)
LEMMA FirstLeaves ==
    ASSUME NEW heard \in Seq(Nat), NEW out \in Seq(OutMessages), NEW left \in Seq(Nat),
           left # << >>, InOrder(heard, out, left)
    PROVE  /\ InOrder(heard, out, Tail(left))
           /\ InOrder(heard, Append(out, Message("note", left[1])), Tail(left))
<1> DEFINE m == Message("note", left[1])
           rest == Tail(left)
<1>1. /\ DOMAIN left = 1 .. Len(left) /\ Len(left) \in Nat /\ 1 \in DOMAIN left
      /\ rest \in Seq(Nat) /\ DOMAIN rest = 1 .. Len(left) - 1
      /\ \A i \in DOMAIN rest : i + 1 \in DOMAIN left /\ rest[i] = left[i + 1]
  OBVIOUS
<1>2. m \in OutMessages /\ m.n = left[1] /\ m.type = "note"
  BY <1>1 DEF Message, OutMessages
<1> HIDE DEF m, rest
<1>3. InOrder(heard, out, rest)
  <2>1. ASSUME NEW i \in DOMAIN rest, NEW j \in DOMAIN rest, i < j PROVE rest[i] < rest[j]
    <3>1. i + 1 < j + 1 /\ i + 1 \in DOMAIN left /\ j + 1 \in DOMAIN left
      BY <1>1, <2>1
    <3> QED  BY <1>1, <3>1 DEF InOrder
  <2> QED  BY <1>1, <2>1 DEF InOrder
<1>4. /\ \A i \in DOMAIN heard : heard[i] < left[1]
      /\ \A i \in DOMAIN out : out[i].type = "note" => out[i].n < left[1]
  BY <1>1 DEF InOrder
<1>5. ASSUME NEW i \in DOMAIN rest PROVE left[1] < rest[i]
  <2>1. 1 < i + 1 /\ i + 1 \in DOMAIN left /\ rest[i] = left[i + 1]
    BY <1>1
  <2> QED  BY <1>1, <2>1 DEF InOrder
<1>6. InOrder(heard, Append(out, m), rest)
  BY <1>1, <1>2, <1>3, <1>4, <1>5, NoteSent
<1> QED  BY <1>3, <1>6 DEF m, rest

LEMMA SeqInto ==
    ASSUME NEW S, NEW T, S \subseteq T, NEW s \in Seq(S)
    PROVE  s \in Seq(T)
<1>1. s \in [1 .. Len(s) -> T] /\ Len(s) \in Nat
  OBVIOUS
<1> QED  BY <1>1

LEMMA DelayedGo ==
    ASSUME NEW c, Fit(c), NEW heard \in Seq(Nat), NEW k \in Nat,
           InOrder(heard, c.out, c.delayed), OutKnown(c.out, k),
           \A i \in DOMAIN c.delayed : c.delayed[i] \in 1 .. k
    PROVE  LET d == SendDelayed(c)
           IN  /\ Fit(d) /\ Kin(c, d) /\ d.delayed = << >>
               /\ InOrder(heard, d.out, << >>) /\ OutKnown(d.out, k)
<1> DEFINE n == Len(c.delayed)
           left(i) == SubSeq(c.delayed, i + 1, n)
<1>1. c.delayed \in Seq(Nat) /\ n \in Nat /\ DOMAIN c.delayed = 1 .. n
        /\ Len(c.calls) \in Nat
  <2>1. c.delayed \in Seq(1 .. MaxNotes) /\ c.calls \in Seq(Frames)
    BY DEF Fit, Channels
  <2>2. n \in Nat /\ DOMAIN c.delayed = 1 .. n /\ Len(c.calls) \in Nat
    BY <2>1
  <2>3. 1 .. MaxNotes \subseteq Nat
    OBVIOUS
  <2> QED  BY <2>1, <2>2, <2>3, SeqInto
<1>2. PICK g : /\ g[0] = c /\ Sent(c) = g[n]
               /\ \A i \in 1 .. n : g[i] = Write(g[i - 1], Message("note", c.delayed[i]))
  BY <1>1, SentIsLast
<1> DEFINE Good(i) == /\ Fit(g[i]) /\ Kin(c, g[i])
                      /\ InOrder(heard, g[i].out, left(i)) /\ OutKnown(g[i].out, k)
           N == {i \in 0 .. n : Good(i)}
<1>3. left(0) = c.delayed /\ left(n) = << >>
  BY <1>1
<1>4. 0 \in N
  <2>1. Kin(c, c)
    BY <1>1 DEF Kin
  <2>2. 0 \in 0 .. n
    BY <1>1
  <2>3. Good(0)
    <3> HIDE DEF left
    <3> QED  BY <1>2, <1>3, <2>1
  <2> HIDE DEF Good
  <2> QED  BY <2>2, <2>3
<1>5. ASSUME NEW i \in 0 .. n - 1, i \in N
      PROVE  i + 1 \in N
  <2> DEFINE b == g[i]
             d == g[i + 1]
             m == Message("note", c.delayed[i + 1])
  <2>1. /\ left(i) \in Seq(Nat) /\ left(i) # << >> /\ left(i)[1] = c.delayed[i + 1]
        /\ Tail(left(i)) = left(i + 1) /\ i + 1 \in 1 .. n /\ (i + 1) - 1 = i
    <3>1. i \in Nat /\ i + 1 \in 1 .. n /\ (i + 1) - 1 = i
      BY <1>1
    <3>2. /\ left(i) \in Seq(Nat) /\ Len(left(i)) = n - i
          /\ \A j \in 1 .. n - i : left(i)[j] = c.delayed[i + j]
      <4>1. left(i) \in Seq(Nat)
        BY <1>1, <3>1
      <4>2. Len(left(i)) = n - i
        BY <1>1, <3>1
      <4>3. \A j \in 1 .. n - i : left(i)[j] = c.delayed[i + j]
        BY <1>1, <3>1
      <4> QED  BY <4>1, <4>2, <4>3
    <3>3. /\ left(i + 1) \in Seq(Nat) /\ Len(left(i + 1)) = n - i - 1
          /\ \A j \in 1 .. n - i - 1 : left(i + 1)[j] = c.delayed[i + 1 + j]
      BY <1>1, <3>1
    <3> HIDE DEF left
    <3>4. /\ Tail(left(i)) \in Seq(Nat) /\ Len(Tail(left(i))) = n - i - 1
          /\ \A j \in 1 .. n - i - 1 : Tail(left(i))[j] = left(i)[j + 1]
      BY <1>1, <3>1, <3>2
    <3>5. \A j \in 1 .. n - i - 1 : Tail(left(i))[j] = left(i + 1)[j]
      BY <1>1, <3>1, <3>2, <3>3, <3>4
    <3>6. Tail(left(i)) = left(i + 1)
      BY <3>3, <3>4, <3>5, SeqEqual
    <3>7. left(i) # << >> /\ left(i)[1] = c.delayed[i + 1]
      BY <1>1, <3>1, <3>2
    <3> QED  BY <3>1, <3>2, <3>6, <3>7
  <2>2. d = Write(b, m)
    BY <1>2, <2>1
  <2>3. Good(i)
    BY <1>5
  <2>4. m \in OutMessages /\ m.type = "note" /\ m.n = c.delayed[i + 1] /\ m.n \in 1 .. k
    <3>1. i + 1 \in DOMAIN c.delayed
      BY <1>1, <2>1
    <3>2. c.delayed[i + 1] \in 1 .. k
      BY <3>1
    <3> QED  BY <3>2 DEF Message, OutMessages
  <2>5. b.out \in Seq(OutMessages)
    BY <2>3 DEF Fit, Channels
  <2> HIDE DEF left
  <2>6. /\ InOrder(heard, b.out, left(i + 1))
        /\ InOrder(heard, Append(b.out, m), left(i + 1))
    BY <2>1, <2>3, <2>5, FirstLeaves
  <2>7. OutKnown(Append(b.out, m), k)
    BY <2>3, <2>4, <2>5, OutGrows
  <2>8. Fit(d) /\ Kin(b, d) /\ (d.out = b.out \/ d.out = Append(b.out, m))
    BY <2>2, <2>3, <2>4, WriteFits
  <2>9. Kin(c, d)
    BY <1>1, <2>3, <2>8, KinTrans
  <2>10. Good(i + 1)
    BY <2>3, <2>6, <2>7, <2>8, <2>9
  <2>11. i + 1 \in 0 .. n
    BY <1>1
  <2> HIDE DEF Good
  <2> QED  BY <2>10, <2>11
<1>6. \A i \in 0 .. n : i \in N
  <2> HIDE DEF N
  <2> QED  BY <1>1, <1>4, <1>5, AllUpTo
<1>7. Good(n)
  BY <1>1, <1>6
<1> DEFINE d == SendDelayed(c)
<1>8. d = [g[n] EXCEPT !.delayed = << >>]
  BY <1>2 DEF SendDelayed
<1>9. /\ d \in Channels /\ d.delayed = << >> /\ d.out = g[n].out /\ d.calls = g[n].calls
      /\ d.closed = g[n].closed /\ d.stream = g[n].stream /\ d.refcount = g[n].refcount
      /\ d.next = g[n].next /\ d.pending = g[n].pending
  <2>1. << >> \in Seq(1 .. MaxNotes) /\ g[n] \in Channels
    BY <1>7 DEF Fit
  <2> QED  BY <1>8, <2>1 DEF Channels
<1>10. Fit(d) /\ Kin(c, d)
  BY <1>7, <1>9 DEF Fit, Kin, Own
<1> QED  BY <1>3, <1>7, <1>9, <1>10
(***************************************************************************)
(* The stack of the main thread: main is at its bottom and nowhere else,   *)
(* and the calls are counted by their depths.                              *)
(***************************************************************************)
Shape(s) ==
    /\ s \in Seq(Places) /\ s # << >>
    /\ \A i \in DOMAIN s : s[i].kind = "main" <=> i = Len(s)

CallDepths(s) == {d \in 1 .. Len(s) : s[Len(s) + 1 - d].kind = "call"}

CallsOn(s, n) == IsFiniteSet(CallDepths(s)) /\ Cardinality(CallDepths(s)) = n

IsCall(f) == IF f.kind = "call" THEN 1 ELSE 0

(* A function is called. *)
LEMMA Pushed ==
    ASSUME NEW s, Shape(s), NEW f \in Places, f.kind # "main", NEW n \in Nat, CallsOn(s, n)
    PROVE  /\ Shape(<<f>> \o s) /\ Len(<<f>> \o s) = Len(s) + 1
           /\ Head(<<f>> \o s) = f /\ Tail(<<f>> \o s) = s
           /\ CallsOn(<<f>> \o s, n + IsCall(f))
<1> DEFINE t == <<f>> \o s
           k == Len(s)
<1>1. /\ s \in Seq(Places) /\ k \in Nat /\ DOMAIN s = 1 .. k /\ t \in Seq(Places)
      /\ Len(t) = k + 1 /\ DOMAIN t = 1 .. k + 1 /\ t[1] = f
      /\ \A i \in 1 .. k : t[i + 1] = s[i]
      /\ Head(t) = f /\ t # << >>
  BY DEF Shape
<1>2. Tail(t) = s
  BY <1>1, HeadTailAppend
<1> HIDE DEF t
<1>3. ASSUME NEW i \in DOMAIN t PROVE t[i].kind = "main" <=> i = k + 1
  <2>1. CASE i = 1
    <3>1. k # 0
      BY <1>1 DEF Shape
    <3> QED  BY <1>1, <2>1, <3>1
  <2>2. CASE i # 1
    <3>1. i - 1 \in 1 .. k /\ t[i] = s[i - 1] /\ (i - 1) + 1 = i
      BY <1>1, <2>2
    <3>2. s[i - 1].kind = "main" <=> i - 1 = k
      BY <1>1, <3>1 DEF Shape
    <3> QED  BY <1>1, <3>1, <3>2
  <2> QED  BY <2>1, <2>2
<1>4. Shape(t)
  BY <1>1, <1>3 DEF Shape
<1>5. CallDepths(t) = CallDepths(s) \cup (IF f.kind = "call" THEN {k + 1} ELSE {})
  <2>1. ASSUME NEW d \in 1 .. k
        PROVE  t[Len(t) + 1 - d] = s[k + 1 - d]
    <3>1. k + 1 - d \in 1 .. k /\ Len(t) + 1 - d = (k + 1 - d) + 1
      BY <1>1
    <3> QED  BY <1>1, <3>1
  <2>2. t[Len(t) + 1 - (k + 1)] = f
    <3>1. Len(t) + 1 - (k + 1) = 1
      BY <1>1
    <3> QED  BY <1>1, <3>1
  <2>3. 1 .. Len(t) = 1 .. k \cup {k + 1}
    BY <1>1
  <2> QED  BY <2>1, <2>2, <2>3 DEF CallDepths
<1>6. k + 1 \notin CallDepths(s)
  BY <1>1 DEF CallDepths
<1>7. CallsOn(t, n + IsCall(f))
  <2>1. CASE f.kind = "call"
    <3>1. CallDepths(t) = CallDepths(s) \cup {k + 1}
      BY <1>5, <2>1
    <3>2. IsFiniteSet(CallDepths(t)) /\ Cardinality(CallDepths(t)) = n + 1
      BY <1>6, <3>1, FS_AddElement DEF CallsOn
    <3> QED  BY <2>1, <3>2 DEF CallsOn, IsCall
  <2>2. CASE f.kind # "call"
    <3>1. CallDepths(t) = CallDepths(s)
      BY <1>5, <2>2
    <3> QED  BY <2>2, <3>1 DEF CallsOn, IsCall
  <2> QED  BY <2>1, <2>2
<1> QED  BY <1>1, <1>2, <1>4, <1>7 DEF t

(* It returns. *)
LEMMA Popped ==
    ASSUME NEW s, Shape(s), Head(s).kind # "main", NEW n \in Nat, CallsOn(s, n)
    PROVE  /\ Shape(Tail(s)) /\ Len(Tail(s)) = Len(s) - 1 /\ Len(s) >= 2
           /\ n - IsCall(Head(s)) \in Nat
           /\ CallsOn(Tail(s), n - IsCall(Head(s)))
<1> DEFINE t == Tail(s)
           f == Head(s)
           k == Len(s)
<1>1. /\ s \in Seq(Places) /\ k \in Nat /\ k >= 1 /\ DOMAIN s = 1 .. k /\ f = s[1]
      /\ t \in Seq(Places) /\ Len(t) = k - 1 /\ DOMAIN t = 1 .. k - 1
      /\ \A i \in 1 .. k - 1 : t[i] = s[i + 1]
  BY DEF Shape
<1>2. k >= 2
  BY <1>1 DEF Shape
<1> HIDE DEF t, f
<1>3. t # << >>
  BY <1>1, <1>2
<1>4. ASSUME NEW i \in DOMAIN t PROVE t[i].kind = "main" <=> i = k - 1
  <2>1. i + 1 \in DOMAIN s /\ t[i] = s[i + 1] /\ (i + 1 = k <=> i = k - 1)
    BY <1>1
  <2> QED  BY <2>1 DEF Shape
<1>5. Shape(t)
  BY <1>1, <1>3, <1>4 DEF Shape
<1>6. CallDepths(t) = CallDepths(s) \ (IF f.kind = "call" THEN {k} ELSE {})
  <2>1. ASSUME NEW d \in 1 .. k - 1
        PROVE  t[Len(t) + 1 - d] = s[k + 1 - d]
    <3>1. k - d \in 1 .. k - 1 /\ Len(t) + 1 - d = k - d /\ (k - d) + 1 = k + 1 - d
      BY <1>1
    <3> QED  BY <1>1, <3>1
  <2>2. s[k + 1 - k] = f
    <3>1. k + 1 - k = 1
      BY <1>1
    <3> QED  BY <1>1, <3>1
  <2>3. 1 .. k = 1 .. k - 1 \cup {k} /\ 1 .. Len(t) = 1 .. k - 1 /\ k \notin 1 .. k - 1
    BY <1>1
  <2> QED  BY <2>1, <2>2, <2>3 DEF CallDepths
<1>7. f.kind = "call" => k \in CallDepths(s)
  <2>1. k + 1 - k = 1 /\ k \in 1 .. k
    BY <1>1
  <2> QED  BY <1>1, <2>1 DEF CallDepths
<1>8. n - IsCall(f) \in Nat /\ CallsOn(t, n - IsCall(f))
  <2>1. CASE f.kind = "call"
    <3>1. Cardinality(CallDepths(s) \ {k}) = n - 1 /\ IsFiniteSet(CallDepths(s) \ {k})
      BY <1>7, <2>1, FS_RemoveElement DEF CallsOn
    <3>2. n # 0
      BY <1>7, <2>1, FS_EmptySet DEF CallsOn
    <3> QED  BY <1>6, <2>1, <3>1, <3>2 DEF CallsOn, IsCall
  <2>2. CASE f.kind # "call"
    <3>1. CallDepths(t) = CallDepths(s)
      BY <1>6, <2>2
    <3> QED  BY <2>2, <3>1 DEF CallsOn, IsCall
  <2> QED  BY <2>1, <2>2
<1> QED  BY <1>1, <1>2, <1>5, <1>8 DEF t, f

(* The function on top goes on. *)
LEMMA Moved ==
    ASSUME NEW s, Shape(s), NEW f \in Places, f.kind = Head(s).kind, NEW n \in Nat,
           CallsOn(s, n)
    PROVE  /\ Shape(<<f>> \o Tail(s)) /\ Len(<<f>> \o Tail(s)) = Len(s)
           /\ CallsOn(<<f>> \o Tail(s), n)
<1> DEFINE t == <<f>> \o Tail(s)
           k == Len(s)
<1>1. /\ s \in Seq(Places) /\ k \in Nat /\ k >= 1 /\ DOMAIN s = 1 .. k /\ Head(s) = s[1]
      /\ t \in Seq(Places) /\ Len(t) = k /\ DOMAIN t = 1 .. k /\ t[1] = f
      /\ \A i \in 2 .. k : t[i] = s[i]
  <2>1. s \in Seq(Places) /\ k \in Nat /\ k >= 1 /\ DOMAIN s = 1 .. k /\ Head(s) = s[1]
    BY DEF Shape
  <2>2. /\ Tail(s) \in Seq(Places) /\ Len(Tail(s)) = k - 1
        /\ \A i \in 1 .. k - 1 : Tail(s)[i] = s[i + 1]
    BY <2>1
  <2>3. /\ t \in Seq(Places) /\ Len(t) = k /\ DOMAIN t = 1 .. k /\ t[1] = f
        /\ \A i \in 2 .. k : t[i] = Tail(s)[i - 1]
    BY <2>1, <2>2
  <2>4. \A i \in 2 .. k : i - 1 \in 1 .. k - 1 /\ (i - 1) + 1 = i
    BY <2>1
  <2> HIDE DEF t
  <2> QED  BY <2>1, <2>2, <2>3, <2>4
<1> HIDE DEF t
<1>2. \A i \in 1 .. k : t[i].kind = s[i].kind
  <2>1. \A i \in 1 .. k : i = 1 \/ i \in 2 .. k
    BY <1>1
  <2> QED  BY <1>1, <2>1
<1>3. Shape(t)
  <2>1. t # << >>
    BY <1>1
  <2> QED  BY <1>1, <1>2, <2>1 DEF Shape
<1>4. CallDepths(t) = CallDepths(s)
  <2>1. \A d \in 1 .. k : k + 1 - d \in 1 .. k
    BY <1>1
  <2> QED  BY <1>1, <1>2, <2>1 DEF CallDepths
<1> QED  BY <1>1, <1>3, <1>4 DEF t, CallsOn
(***************************************************************************)
(* The inductive invariant.                                                *)
(***************************************************************************)
Answers(c) == \A i \in 1 .. Len(c.calls) : c.calls[i].returned => OwnResult(c.calls[i])

(* The channel is held by the functions on the stack and the events, and   *)
(* its calls are those on the stack.                                       *)
Held ==
    /\ Fit(ch) /\ Shape(stack)
    /\ Own(ch) = Len(stack) - 1 + Len(events)
    /\ CallsOn(stack, ch.pending) /\ Len(ch.calls) = ch.pending
    /\ Answers(ch)

(* Notifications are numbered as they are made; some are held back only as *)
(* long as there is a call.                                                *)
Notes ==
    /\ NotesInOrder /\ OutKnown(ch.out, made.notes)
    /\ \A i \in DOMAIN ch.delayed : ch.delayed[i] \in 1 .. made.notes
    /\ \A i \in DOMAIN peer.heard : peer.heard[i] \in 1 .. made.notes
    /\ ch.pending = 0 => ch.delayed = << >>

(* The messages of the peer's, in the five places they go through. *)
Asked ==
    /\ fromPeer \in Seq(Messages) /\ unpacker \in Seq(Messages) /\ events \in Seq(Events)
    /\ answered \in Seq(1 .. MaxAsks) /\ Len(peer.asked) <= MaxAsks
    /\ EachAskOnce

(* The peer, and what the history counts. *)
Around ==
    /\ blocking \in BOOLEAN
    /\ peer \in [asked : Seq(Asks), closed : BOOLEAN, owes : SUBSET (1 .. MaxCalls),
                 heard : Seq(1 .. MaxNotes)]
    /\ made \in [notes : 0 .. MaxNotes, stops : 0 .. MaxStops, unended : BOOLEAN]

IInv == Held /\ Notes /\ Asked /\ Around

LEMMA KinAnswers ==
    ASSUME NEW c, NEW d, Kin(c, d), Answers(c)
    PROVE  Answers(d)
<1>1. ASSUME NEW i \in 1 .. Len(d.calls), d.calls[i].returned
      PROVE  OwnResult(d.calls[i])
  <2>1. /\ i \in 1 .. Len(c.calls)
        /\ d.calls[i] = c.calls[i] \/ (d.calls[i].errored /\ d.calls[i].got = 0)
    BY <1>1, Zenon DEF Kin
  <2>2. CASE d.calls[i] = c.calls[i]
    BY <1>1, <2>1, <2>2 DEF Answers
  <2>3. CASE d.calls[i].errored /\ d.calls[i].got = 0
    BY <2>3 DEF OwnResult
  <2> QED  BY <2>1, <2>2, <2>3
<1> QED  BY <1>1 DEF Answers

LEMMA CountFits ==
    ASSUME NEW c, Fit(c)
    PROVE  /\ Fit(Incref(c)) /\ Own(Incref(c)) = Own(c) + 1
           /\ Fit(Decref(c)) /\ Own(Decref(c)) = Own(c) - 1
           /\ \A d \in {Incref(c), Decref(c)} :
                /\ d.calls = c.calls /\ d.pending = c.pending /\ d.out = c.out
                /\ d.delayed = c.delayed /\ d.next = c.next
<1>1. c.refcount \in Int /\ c.refcount + 1 \in Int /\ c.refcount - 1 \in Int
        /\ c \in Channels
  BY DEF Fit, Channels
<1>2. ASSUME NEW k \in Int
      PROVE  LET d == [c EXCEPT !.refcount = k]
             IN  /\ Fit(d) /\ Own(d) = Own(c) + k - c.refcount
                 /\ d.calls = c.calls /\ d.pending = c.pending /\ d.out = c.out
                 /\ d.delayed = c.delayed /\ d.next = c.next
  <2> DEFINE d == [c EXCEPT !.refcount = k]
  <2>1. /\ d \in Channels /\ d.refcount = k /\ d.closed = c.closed /\ d.stream = c.stream
        /\ d.calls = c.calls /\ d.pending = c.pending /\ d.out = c.out
        /\ d.delayed = c.delayed /\ d.next = c.next
    BY <1>1 DEF Channels
  <2> HIDE DEF d
  <2> QED  BY <1>1, <2>1 DEF Fit, Own, d
<1> DEFINE u == c.refcount + 1
           l == c.refcount - 1
<1>3. Incref(c) = [c EXCEPT !.refcount = u] /\ Decref(c) = [c EXCEPT !.refcount = l]
  BY DEF Incref, Decref
<1>4. u \in Int /\ l \in Int /\ u - c.refcount = 1 /\ l - c.refcount = -1 /\ Own(c) \in Int
  BY <1>1 DEF Own
<1>5. Own(c) + u - c.refcount = Own(c) + 1 /\ Own(c) + l - c.refcount = Own(c) - 1
  BY <1>1, <1>4
<1> HIDE DEF u, l
<1> QED  BY <1>2, <1>3, <1>4, <1>5

(* Whatever is written but a notification, and a number that was given out *)
(* before, leaves the notifications as they were.                          *)
LEMMA NotesKept ==
    ASSUME IInv, Fit(ch'), peer' = peer, made'.notes = made.notes, ch'.delayed = ch.delayed,
           ch'.pending = 0 => ch.pending = 0,
           \/ ch'.out = ch.out
           \/ \E m \in OutMessages :
                /\ ch'.out = Append(ch.out, m) /\ m.type # "note"
                /\ m.type = "request" => m.n \in 1 .. MaxCalls
    PROVE  Notes'
<1>1. /\ ch.out \in Seq(OutMessages) /\ ch.delayed \in Seq(Nat) /\ peer.heard \in Seq(Nat)
      /\ made.notes \in Nat
  <2>1. /\ ch.out \in Seq(OutMessages) /\ ch.delayed \in Seq(1 .. MaxNotes)
        /\ peer.heard \in Seq(1 .. MaxNotes) /\ made.notes \in 0 .. MaxNotes
    BY DEF IInv, Held, Fit, Channels, Around
  <2>2. 1 .. MaxNotes \subseteq Nat /\ 0 .. MaxNotes \subseteq Nat
    OBVIOUS
  <2> QED  BY <2>1, <2>2, SeqInto
<1>2. ASSUME NEW m \in OutMessages, m.type # "note", m.type = "request"
               => m.n \in 1 .. MaxCalls
      PROVE  /\ InOrder(peer.heard, Append(ch.out, m), ch.delayed)
             /\ OutKnown(Append(ch.out, m), made.notes)
  BY <1>1, <1>2, NoteSent, OutGrows DEF IInv, Notes, NotesInOrder
<1>3. InOrder(peer.heard, ch'.out, ch.delayed) /\ OutKnown(ch'.out, made.notes)
  BY <1>2 DEF IInv, Notes, NotesInOrder
<1> QED  BY <1>3 DEF IInv, Notes, NotesInOrder
(***************************************************************************)
(* Steps that leave the calls alone, or end them all with an error.        *)
(***************************************************************************)
LEMMA Known ==
    ASSUME IInv
    PROVE  /\ Fit(ch) /\ ch \in Channels /\ Own(ch) \in Int /\ Shape(stack)
           /\ Own(ch) = Len(stack) - 1 + Len(events) /\ Len(events) \in Nat
           /\ Len(stack) \in Nat /\ stack # << >> /\ Top \in Places /\ ch.pending \in Nat
           /\ CallsOn(stack, ch.pending) /\ Len(ch.calls) = ch.pending /\ Answers(ch)
           /\ Kin(ch, ch)
<1>1. Fit(ch) /\ ch \in Channels /\ Shape(stack) /\ Answers(ch)
        /\ Len(ch.calls) = ch.pending
  BY DEF IInv, Held, Fit
<1>2. Own(ch) \in Int /\ ch.pending \in Nat
  BY <1>1 DEF Own, Channels
<1>3. Len(events) \in Nat
  BY DEF IInv, Asked
<1>4. Len(stack) \in Nat /\ stack # << >> /\ Top \in Places
  BY <1>1 DEF Shape, Top
<1>5. Kin(ch, ch)
  BY <1>1 DEF Kin
<1> QED  BY <1>1, <1>2, <1>3, <1>4, <1>5 DEF IInv, Held

LEMMA HeldBy ==
    ASSUME IInv, NEW c, Kin(ch, c), ch'.calls = c.calls, ch'.pending = c.pending, Fit(ch'),
           Shape(stack'), CallsOn(stack', ch.pending),
           Own(ch') = Len(stack') - 1 + Len(events')
    PROVE  Held'
<1>1. Answers(c) /\ c.pending = ch.pending /\ Len(c.calls) = Len(ch.calls)
  BY Known, KinAnswers DEF Kin
<1>2. Answers(ch')
  BY <1>1 DEF Answers
<1> QED  BY <1>1, <1>2, Known DEF Held

(* A poll and its end, a drain and its end, a wait for a key. *)
LEMMA MovesStep ==
    ASSUME IInv, Wait \/ Block \/ EndDrain \/ EndPoll
    PROVE  Held' /\ Notes'
<1>1. UNCHANGED <<ch, events, peer, made>>
  BY DEF Wait, Block, EndDrain, EndPoll, history
<1>2. PICK at \in At : stack' = StackTop(GoTo(at))
  BY DEF Wait, Block, EndDrain, EndPoll, At
<1>3. GoTo(at) \in Places /\ GoTo(at).kind = Head(stack).kind
  BY Known DEF GoTo, Top, Places
<1>4. Shape(stack') /\ Len(stack') = Len(stack) /\ CallsOn(stack', ch.pending)
  BY <1>2, <1>3, Known, Moved DEF StackTop
<1>5. Held'
  BY <1>1, <1>4, Known, HeldBy
<1> QED  BY <1>1, <1>5, Known, NotesKept

LEMMA PeerStep ==
    ASSUME IInv, PeerCloses \/ (\E type \in Asks : PeerAsks(type))
                   \/ (\E n \in peer.owes : PeerAnswers(n))
    PROVE  Held' /\ Notes'
<1>1. UNCHANGED <<ch, stack, events, made>> /\ peer'.heard = peer.heard
  BY DEF PeerCloses, PeerAsks, PeerAnswers, OnlyPeer, history, IInv, Around
<1>2. Held'
  BY <1>1, Known, HeldBy
<1> QED  BY <1>1, <1>2 DEF IInv, Notes, NotesInOrder, InOrder

LEMMA PeerReadsStep ==
    ASSUME IInv, PeerReads
    PROVE  Held' /\ Notes'
<1> DEFINE m == Head(ch.out)
           rest == Tail(ch.out)
<1>1. /\ UNCHANGED <<stack, events, made>> /\ ch' = [ch EXCEPT !.out = rest]
      /\ peer'.heard = IF m.type = "note" THEN Append(peer.heard, m.n) ELSE peer.heard
      /\ ch.out # << >>
  BY DEF PeerReads, OnlyPeer, history, IInv, Around
<1>2. /\ ch.out \in Seq(OutMessages) /\ rest \in Seq(OutMessages) /\ ch \in Channels
      /\ peer.heard \in Seq(1 .. MaxNotes) /\ made.notes \in 0 .. MaxNotes
      /\ DOMAIN ch.out = 1 .. Len(ch.out) /\ Len(ch.out) \in Nat /\ 1 \in DOMAIN ch.out
      /\ DOMAIN rest = 1 .. Len(ch.out) - 1 /\ m = ch.out[1]
      /\ \A i \in DOMAIN rest : i + 1 \in DOMAIN ch.out /\ rest[i] = ch.out[i + 1]
         /\ 1 < i + 1
  <2>1. /\ ch.out \in Seq(OutMessages) /\ ch \in Channels
        /\ peer.heard \in Seq(1 .. MaxNotes) /\ made.notes \in 0 .. MaxNotes
    BY Known DEF Channels, IInv, Around
  <2> QED  BY <1>1, <2>1
<1> HIDE DEF rest, m
<1>3. /\ ch' \in Channels /\ ch'.out = rest /\ ch'.closed = ch.closed
      /\ ch'.stream = ch.stream /\ ch'.refcount = ch.refcount /\ ch'.calls = ch.calls
      /\ ch'.pending = ch.pending /\ ch'.delayed = ch.delayed
  BY <1>1, <1>2 DEF Channels
<1>4. Fit(ch') /\ Own(ch') = Own(ch)
  BY <1>3, Known DEF Fit, Own
<1>5. Held'
  BY <1>1, <1>3, <1>4, Known, HeldBy
<1> DEFINE heard == peer'.heard
<1>6. /\ \A i \in DOMAIN heard : \/ i \in DOMAIN peer.heard /\ heard[i] = peer.heard[i]
                                 \/ m.type = "note" /\ heard[i] = m.n
                                    /\ i = Len(peer.heard) + 1
      /\ DOMAIN peer.heard = 1 .. Len(peer.heard) /\ Len(peer.heard) \in Nat
      /\ \A i \in DOMAIN heard : i <= Len(peer.heard) + 1 /\ i \in Nat
  <2>1. CASE m.type = "note"
    <3>1. /\ DOMAIN heard = 1 .. Len(peer.heard) + 1
          /\ \A i \in 1 .. Len(peer.heard) : heard[i] = peer.heard[i]
          /\ heard[Len(peer.heard) + 1] = m.n
      BY <1>1, <1>2, <2>1
    <3>2. DOMAIN peer.heard = 1 .. Len(peer.heard) /\ Len(peer.heard) \in Nat
      BY <1>2
    <3>3. \A i \in 1 .. Len(peer.heard) + 1 : i \in 1 .. Len(peer.heard)
                                                \/ i = Len(peer.heard) + 1
      BY <3>2
    <3> QED  BY <2>1, <3>1, <3>2, <3>3
  <2>2. CASE m.type # "note"
    BY <1>1, <1>2, <2>2
  <2> QED  BY <2>1, <2>2
<1> HIDE DEF heard
<1>7. ASSUME NEW i \in DOMAIN heard
      PROVE  /\ \A j \in DOMAIN heard : i < j => heard[i] < heard[j]
             /\ \A j \in DOMAIN rest : rest[j].type = "note" => heard[i] < rest[j].n
             /\ \A j \in DOMAIN ch.delayed : heard[i] < ch.delayed[j]
             /\ heard[i] \in 1 .. made.notes
  <2>1. InOrder(peer.heard, ch.out, ch.delayed) /\ OutKnown(ch.out, made.notes)
    BY DEF IInv, Notes, NotesInOrder
  <2>2. CASE i \in DOMAIN peer.heard /\ heard[i] = peer.heard[i]
    <3>1. /\ \A j \in DOMAIN peer.heard : i < j => heard[i] < peer.heard[j]
          /\ m.type = "note" => heard[i] < m.n
      BY <1>2, <2>1, <2>2 DEF InOrder
    <3>2. \A j \in DOMAIN rest : rest[j].type = "note" => heard[i] < rest[j].n
      BY <1>2, <2>1, <2>2 DEF InOrder
    <3>3. \A j \in DOMAIN ch.delayed : heard[i] < ch.delayed[j]
      BY <2>1, <2>2 DEF InOrder
    <3>4. heard[i] \in 1 .. made.notes
      BY <2>2 DEF IInv, Notes
    <3> QED  BY <1>6, <3>1, <3>2, <3>3, <3>4
  <2>3. CASE m.type = "note" /\ heard[i] = m.n /\ i = Len(peer.heard) + 1
    <3>1. \A j \in DOMAIN heard : ~(i < j)
      BY <1>6, <2>3
    <3>2. ASSUME NEW j \in DOMAIN rest, rest[j].type = "note"
          PROVE  m.n < rest[j].n
      <4>1. j + 1 \in DOMAIN ch.out /\ rest[j] = ch.out[j + 1] /\ 1 < j + 1
        BY <1>2
      <4> QED  BY <1>2, <2>1, <2>3, <3>2, <4>1 DEF InOrder
    <3>3. \A j \in DOMAIN ch.delayed : m.n < ch.delayed[j]
      BY <1>2, <2>1, <2>3 DEF InOrder
    <3>4. m.n \in 1 .. made.notes
      BY <1>2, <2>1, <2>3 DEF OutKnown
    <3> QED  BY <2>3, <3>1, <3>2, <3>3, <3>4
  <2> QED  BY <1>6, <2>2, <2>3
<1>8. /\ \A i, j \in DOMAIN rest : (rest[i].type = "note" /\ rest[j].type = "note" /\ i < j)
                                      => rest[i].n < rest[j].n
      /\ \A i \in DOMAIN rest : rest[i].type = "note"
                                  => \A d \in DOMAIN ch.delayed : rest[i].n < ch.delayed[d]
      /\ \A i, j \in DOMAIN ch.delayed : i < j => ch.delayed[i] < ch.delayed[j]
  <2>1. InOrder(peer.heard, ch.out, ch.delayed)
    BY DEF IInv, Notes, NotesInOrder
  <2>2. ASSUME NEW i \in DOMAIN rest, NEW j \in DOMAIN rest, i < j,
               rest[i].type = "note", rest[j].type = "note"
        PROVE  rest[i].n < rest[j].n
    <3>1. i + 1 < j + 1 /\ i + 1 \in DOMAIN ch.out /\ j + 1 \in DOMAIN ch.out
      BY <1>2, <2>2
    <3>2. rest[i] = ch.out[i + 1] /\ rest[j] = ch.out[j + 1]
      BY <1>2
    <3>3. ch.out[i + 1].n < ch.out[j + 1].n
      BY <2>1, <2>2, <3>1, <3>2 DEF InOrder
    <3> QED  BY <3>2, <3>3
  <2>3. ASSUME NEW i \in DOMAIN rest, rest[i].type = "note", NEW d \in DOMAIN ch.delayed
        PROVE  rest[i].n < ch.delayed[d]
    BY <1>2, <2>1, <2>3 DEF InOrder
  <2> QED  BY <2>1, <2>2, <2>3 DEF InOrder
<1>9. InOrder(heard, rest, ch.delayed)
  BY <1>7, <1>8 DEF InOrder
<1>10. OutKnown(rest, made.notes)
  BY <1>2 DEF IInv, Notes, OutKnown
<1> QED  BY <1>1, <1>3, <1>5, <1>7, <1>9, <1>10 DEF heard, IInv, Notes, NotesInOrder
(* A response is written, or nothing, and a function or an event is done. *)
LEMMA RespondFits ==
    ASSUME NEW c, Fit(c), NEW n \in Nat
    PROVE  LET d == Respond(c, n)
           IN  /\ Fit(d) /\ Kin(c, d) /\ d.delayed = c.delayed
               /\ d.out = c.out \/ \E m \in OutMessages : d.out = Append(c.out, m)
                                                          /\ m.type = "response"
<1> DEFINE m == Message("response", n)
<1>1. m \in OutMessages /\ m.type = "response"
  BY DEF Message, OutMessages
<1>2. Respond(c, n) = Write(c, m)
  BY DEF Respond
<1> HIDE DEF m
<1> QED  BY <1>1, <1>2, WriteFits

LEMMA StopStep ==
    ASSUME IInv, Stop
    PROVE  Held' /\ Notes'
<1>1. /\ UNCHANGED <<stack, events, peer>> /\ ch' = CloseChannel(ch)
      /\ made'.notes = made.notes
  BY DEF Stop, IInv, Around
<1>2. Fit(ch') /\ Kin(ch, ch') /\ ch'.out = ch.out /\ ch'.delayed = ch.delayed
  BY <1>1, Known, CloseFits
<1>3. Held'
  BY <1>1, <1>2, Known, HeldBy DEF Kin
<1> QED  BY <1>1, <1>2, <1>3 DEF IInv, Notes, NotesInOrder, Kin

LEMMA ReceiveEofStep ==
    ASSUME IInv, ReceiveEof
    PROVE  Held' /\ Notes'
<1>1. UNCHANGED <<stack, events, peer, made>> /\ ch' = SetError(ch)
  BY DEF ReceiveEof, history
<1>2. Fit(ch') /\ Kin(ch, ch') /\ ch'.out = ch.out /\ ch'.delayed = ch.delayed
  BY <1>1, Known, SetErrorFits
<1>3. Held'
  BY <1>1, <1>2, Known, HeldBy DEF Kin
<1> QED  BY <1>1, <1>2, <1>3, NotesKept DEF Kin

LEMMA WriteDoneStep ==
    ASSUME IInv, WriteDone
    PROVE  Held' /\ Notes'
<1> DEFINE left == ch.writing - 1
           end == IF ch.stream = "draining" /\ ch.writing = 1 THEN "closing" ELSE ch.stream
<1>1. /\ UNCHANGED <<stack, events, peer, made>> /\ ch.writing > 0
      /\ ch' = [ch EXCEPT !.writing = left, !.stream = end]
  BY Known DEF WriteDone, history, Channels
<1>2. /\ left \in Nat /\ end \in {"open", "draining", "closing", "gone"}
      /\ end = "gone" <=> ch.stream = "gone"
      /\ ch.stream = "open" => end = "open"
  BY <1>1, Known DEF Channels
<1> HIDE DEF left, end
<1>3. /\ ch' \in Channels /\ ch'.closed = ch.closed /\ ch'.stream = end
      /\ ch'.refcount = ch.refcount /\ ch'.calls = ch.calls /\ ch'.next = ch.next
      /\ ch'.pending = ch.pending /\ ch'.delayed = ch.delayed /\ ch'.out = ch.out
  BY <1>1, <1>2, Known DEF Channels
<1>4. Fit(ch') /\ Own(ch') = Own(ch)
  BY <1>2, <1>3, Known DEF Fit, Own
<1>5. Held'
  BY <1>1, <1>3, <1>4, Known, HeldBy
<1> QED  BY <1>1, <1>3, <1>4, <1>5, NotesKept

LEMMA WritesBreakStep ==
    ASSUME IInv, WritesBreak
    PROVE  Held' /\ Notes'
<1>1. /\ UNCHANGED <<stack, events, peer, made>> /\ ch' = [ch EXCEPT !.broken = TRUE]
  BY DEF WritesBreak, history
<1>2. /\ ch' \in Channels /\ ch'.closed = ch.closed /\ ch'.stream = ch.stream
      /\ ch'.refcount = ch.refcount /\ ch'.calls = ch.calls /\ ch'.next = ch.next
      /\ ch'.pending = ch.pending /\ ch'.delayed = ch.delayed /\ ch'.out = ch.out
  BY <1>1, Known DEF Channels
<1>3. Fit(ch') /\ Own(ch') = Own(ch)
  BY <1>2, Known DEF Fit, Own
<1>4. Held'
  BY <1>1, <1>2, <1>3, Known, HeldBy
<1> QED  BY <1>1, <1>2, <1>3, <1>4, NotesKept

LEMMA StreamClosedStep ==
    ASSUME IInv, StreamClosed
    PROVE  Held' /\ Notes'
<1> DEFINE c == [ch EXCEPT !.stream = "gone"]
<1>1. /\ UNCHANGED <<stack, events, peer, made>> /\ ch.stream = "closing"
      /\ ch' = Decref(c)
  BY DEF StreamClosed, history
<1>2. /\ c \in Channels /\ c.closed = ch.closed /\ c.stream = "gone"
      /\ c.refcount = ch.refcount /\ c.calls = ch.calls
      /\ c.pending = ch.pending /\ c.delayed = ch.delayed /\ c.out = ch.out
  BY <1>1, Known DEF Channels
<1> HIDE DEF c
<1>3. Fit(c) /\ Own(c) = Own(ch) + 1
  <2>1. ch.closed /\ ch.refcount \in Int
    BY <1>1, Known DEF Fit, Channels
  <2> QED  BY <1>1, <1>2, <2>1 DEF Fit, Own
<1>4. /\ Fit(ch') /\ Own(ch') = Own(c) - 1 /\ ch'.calls = c.calls /\ ch'.pending = c.pending
      /\ ch'.out = c.out /\ ch'.delayed = c.delayed
  BY <1>1, <1>3, CountFits
<1>5. Own(ch') = Own(ch)
  BY <1>3, <1>4, Known
<1>6. Held'
  BY <1>1, <1>2, <1>4, <1>5, Known, HeldBy
<1> QED  BY <1>1, <1>2, <1>4, <1>6, NotesKept

LEMMA ParseAnswersStep ==
    ASSUME IInv, ParseImmediate \/ ParseInvalid
    PROVE  Held' /\ Notes'
<1> DEFINE n == Head(unpacker).n
<1>1. /\ UNCHANGED <<stack, events, peer, made>>
      /\ ch' = Respond(ch, n) \/ ch' = SetError(Respond(ch, n))
  BY DEF ParseImmediate, ParseInvalid, Unpacks
<1>2. n \in Nat
  <2>1. unpacker # << >> /\ unpacker \in Seq(Messages)
    BY DEF ParseImmediate, ParseInvalid, Unpacks, IInv, Asked
  <2>2. Head(unpacker) \in Messages
    BY <2>1
  <2> QED  BY <2>2 DEF Messages
<1> HIDE DEF n
<1>3. PICK c : /\ c = Respond(ch, n) /\ Fit(c) /\ Kin(ch, c) /\ c.delayed = ch.delayed
               /\ c.out = ch.out \/ \E m \in OutMessages : c.out = Append(ch.out, m)
                                                           /\ m.type = "response"
  BY <1>2, Known, RespondFits
<1>4. /\ Fit(SetError(c)) /\ Kin(c, SetError(c)) /\ SetError(c).out = c.out
      /\ SetError(c).delayed = c.delayed
  BY <1>3, SetErrorFits
<1>5. Kin(ch, SetError(c))
  BY <1>3, <1>4, Known, KinTrans
<1>6. /\ Fit(ch') /\ Kin(ch, ch') /\ ch'.delayed = ch.delayed /\ ch'.out = c.out
  BY <1>1, <1>3, <1>4, <1>5
<1>7. Held'
  BY <1>1, <1>6, Known, HeldBy DEF Kin
<1> QED  BY <1>1, <1>3, <1>6, <1>7, NotesKept DEF Kin

(***************************************************************************)
(* Steps that push and pop functions.                                      *)
(***************************************************************************)
LEMMA ReceiveStep ==
    ASSUME IInv, Receive
    PROVE  Held' /\ Notes'
<1>1. /\ UNCHANGED <<events, peer, made>> /\ ch' = Incref(ch)
      /\ \E at \in At : stack' = <<ReceiveFrame>> \o StackTop(GoTo(at))
  BY DEF Receive, history, At
<1>2. PICK at \in At : stack' = <<ReceiveFrame>> \o StackTop(GoTo(at))
  BY <1>1
<1>3. GoTo(at) \in Places /\ GoTo(at).kind = Head(stack).kind
  BY Known DEF GoTo, Top, Places
<1> DEFINE s == StackTop(GoTo(at))
<1>4. Shape(s) /\ Len(s) = Len(stack) /\ CallsOn(s, ch.pending)
  BY <1>3, Known, Moved DEF StackTop
<1>5. /\ ReceiveFrame \in Places /\ ReceiveFrame.kind # "main" /\ IsCall(ReceiveFrame) = 0
      /\ ch.pending + 0 = ch.pending
  BY Known DEF ReceiveFrame, Places, IsCall, At
<1> HIDE DEF s
<1>6. Shape(stack') /\ Len(stack') = Len(stack) + 1 /\ CallsOn(stack', ch.pending)
  BY <1>2, <1>4, <1>5, Known, Pushed DEF s
<1>7. /\ Fit(ch') /\ Own(ch') = Own(ch) + 1 /\ ch'.calls = ch.calls
      /\ ch'.pending = ch.pending /\ ch'.out = ch.out /\ ch'.delayed = ch.delayed
  BY <1>1, Known, CountFits
<1>8. Own(ch') = Len(stack') - 1 + Len(events')
  BY <1>1, <1>6, <1>7, Known
<1>9. Held'
  BY <1>6, <1>7, <1>8, Known, HeldBy
<1> QED  BY <1>1, <1>7, <1>9, NotesKept

LEMMA HandleStep ==
    ASSUME IInv, Handle
    PROVE  Held' /\ Notes'
<1>1. PICK i \in 1 .. Len(events) :
        /\ events' = RemoveAt(events, i)
        /\ stack' = Push(IF events[i].home = "channel" THEN "handler" ELSE "async",
                         events[i].n)
  BY DEF Handle
<1>2. UNCHANGED <<ch, peer, made>>
  BY DEF Handle, history
<1>3. PICK f : f \in Places /\ f.kind # "main" /\ IsCall(f) = 0 /\ stack' = <<f>> \o stack
  <2>1. events[i].n \in Nat
    <3>1. events[i] \in Events
      BY DEF IInv, Asked
    <3> QED  BY <3>1 DEF Events
  <2>2. CASE events[i].home = "channel"
    <3> DEFINE f == [kind |-> "handler", at |-> "check", n |-> events[i].n]
    <3>1. f \in Places /\ f.kind # "main" /\ IsCall(f) = 0
      BY <2>1 DEF Places, At, IsCall
    <3> QED  BY <1>1, <2>2, <3>1 DEF Push
  <2>3. CASE events[i].home # "channel"
    <3> DEFINE f == [kind |-> "async", at |-> "check", n |-> events[i].n]
    <3>1. f \in Places /\ f.kind # "main" /\ IsCall(f) = 0
      BY <2>1 DEF Places, At, IsCall
    <3> QED  BY <1>1, <2>3, <3>1 DEF Push
  <2> QED  BY <2>2, <2>3
<1>4. Shape(stack') /\ Len(stack') = Len(stack) + 1 /\ CallsOn(stack', ch.pending)
  <2>1. ch.pending + 0 = ch.pending
    BY Known
  <2> QED  BY <1>3, <2>1, Known, Pushed
<1>5. Len(events') = Len(events) - 1
  <2>1. events \in Seq(Events)
    BY DEF IInv, Asked
  <2> DEFINE a == SubSeq(events, 1, i - 1)
             b == SubSeq(events, i + 1, Len(events))
  <2>2. /\ a \in Seq(Events) /\ Len(a) = i - 1
        /\ b \in Seq(Events) /\ Len(b) = Len(events) - i
    BY <2>1
  <2>4. events' = a \o b
    BY <1>1 DEF RemoveAt
  <2> HIDE DEF a, b
  <2>3. Len(a \o b) = Len(a) + Len(b)
    BY <2>2, ConcatProperties
  <2>5. (i - 1) + (Len(events) - i) = Len(events) - 1
    BY <2>1
  <2> QED  BY <2>2, <2>3, <2>4, <2>5, Zenon
<1>6. Own(ch') = Len(stack') - 1 + Len(events')
  BY <1>2, <1>4, <1>5, Known
<1>7. Held'
  BY <1>2, <1>4, <1>6, Known, HeldBy
<1> QED  BY <1>2, <1>7, Known, NotesKept

LEMMA ParseDeferredStep ==
    ASSUME IInv, ParseDeferred
    PROVE  Held' /\ Notes'
<1>1. /\ UNCHANGED <<stack, peer, made>> /\ ch' = Incref(ch)
      /\ \E e : events' = Append(events, e)
  BY DEF ParseDeferred, Defer, history
<1>2. Len(events') = Len(events) + 1
  BY <1>1 DEF IInv, Asked
<1>3. /\ Fit(ch') /\ Own(ch') = Own(ch) + 1 /\ ch'.calls = ch.calls
      /\ ch'.pending = ch.pending /\ ch'.out = ch.out /\ ch'.delayed = ch.delayed
  BY <1>1, Known, CountFits
<1>4. Own(ch') = Len(stack') - 1 + Len(events')
  BY <1>1, <1>2, <1>3, Known
<1>5. Held'
  BY <1>1, <1>3, <1>4, Known, HeldBy
<1> QED  BY <1>1, <1>3, <1>5, NotesKept
LEMMA HandlerReturnsStep ==
    ASSUME IInv, HandlerReturns \/ ParseFails
    PROVE  Held' /\ Notes'
<1>1. /\ UNCHANGED <<events, peer, made>> /\ stack' = Tail(stack)
      /\ Head(stack).kind \in {"handler", "async", "receive"}
      /\ \/ ch' = Decref(ch) \/ ch' = Decref(Respond(ch, Top.n))
         \/ ch' = Decref(Respond(ch, 0))
  BY DEF HandlerReturns, ParseFails, Unpacks, Received, Top
<1>2. Head(stack).kind # "main" /\ IsCall(Head(stack)) = 0 /\ ch.pending - 0 = ch.pending
  BY <1>1, Known DEF IsCall
<1>3. Shape(stack') /\ Len(stack') = Len(stack) - 1 /\ CallsOn(stack', ch.pending)
  BY <1>1, <1>2, Known, Popped
<1>4. PICK c : /\ ch' = Decref(c) /\ Fit(c) /\ Kin(ch, c) /\ c.delayed = ch.delayed
               /\ c.out = ch.out \/ \E m \in OutMessages : c.out = Append(ch.out, m)
                                                           /\ m.type = "response"
  <2>1. CASE ch' = Decref(ch)
    BY <2>1, Known
  <2>2. CASE ch' = Decref(Respond(ch, Top.n))
    <3>1. Top.n \in Nat
      <4>1. Top \in Places
        BY Known
      <4> QED  BY <4>1 DEF Places
    <3> QED  BY <2>2, <3>1, Known, RespondFits
  <2>3. CASE ch' = Decref(Respond(ch, 0))
    BY <2>3, Known, RespondFits
  <2> QED  BY <1>1, <2>1, <2>2, <2>3
<1>5. /\ Fit(ch') /\ Own(ch') = Own(c) - 1 /\ ch'.calls = c.calls
      /\ ch'.pending = c.pending /\ ch'.out = c.out /\ ch'.delayed = c.delayed
  BY <1>4, CountFits
<1>6. Own(ch') = Len(stack') - 1 + Len(events')
  BY <1>1, <1>3, <1>4, <1>5, Known DEF Kin
<1>7. Held'
  BY <1>3, <1>4, <1>5, <1>6, Known, HeldBy
<1> QED  BY <1>1, <1>4, <1>5, <1>7, NotesKept DEF Kin

LEMMA EndReceiveStep ==
    ASSUME IInv, EndReceive
    PROVE  Held' /\ Notes'
<1>1. /\ UNCHANGED <<events, peer, made>> /\ stack' = Tail(stack)
      /\ Head(stack).kind = "receive" /\ ch' = Decref(ch)
  BY DEF EndReceive, Received, history, Top
<1>2. Head(stack).kind # "main" /\ IsCall(Head(stack)) = 0 /\ ch.pending - 0 = ch.pending
  BY <1>1, Known DEF IsCall
<1>3. Shape(stack') /\ Len(stack') = Len(stack) - 1 /\ CallsOn(stack', ch.pending)
  BY <1>1, <1>2, Known, Popped
<1>4. /\ Fit(ch') /\ Own(ch') = Own(ch) - 1 /\ ch'.calls = ch.calls
      /\ ch'.pending = ch.pending /\ ch'.out = ch.out /\ ch'.delayed = ch.delayed
  BY <1>1, Known, CountFits
<1>5. Own(ch') = Len(stack') - 1 + Len(events')
  BY <1>1, <1>3, <1>4, Known
<1>6. Held'
  BY <1>1, <1>3, <1>4, <1>5, Known, HeldBy
<1> QED  BY <1>1, <1>4, <1>6, NotesKept

(* The call waited for gets its own answer. *)
LEMMA AnswerFits ==
    ASSUME NEW c, Fit(c), Answers(c), c.calls # << >>,
           NEW f \in Frames, f.got = f.id
    PROVE  LET d == [c EXCEPT !.calls[Len(c.calls)] = f]
           IN  /\ Fit(d) /\ Own(d) = Own(c) /\ Answers(d) /\ Len(d.calls) = Len(c.calls)
               /\ d.pending = c.pending /\ d.out = c.out /\ d.delayed = c.delayed
<1> DEFINE k == Len(c.calls)
           s == [c.calls EXCEPT ![k] = f]
           d == [c EXCEPT !.calls = s]
<1>1. /\ c \in Channels /\ c.calls \in Seq(Frames) /\ k \in Nat /\ k >= 1
      /\ DOMAIN c.calls = 1 .. k
  BY DEF Fit, Channels
<1>4. /\ s \in Seq(Frames) /\ Len(s) = k /\ s[k] = f
      /\ \A i \in 1 .. k : i # k => s[i] = c.calls[i]
  BY <1>1
<1> HIDE DEF s
<1>5. /\ d \in Channels /\ d.closed = c.closed /\ d.stream = c.stream
      /\ d.refcount = c.refcount /\ d.calls = s
      /\ d.pending = c.pending /\ d.delayed = c.delayed /\ d.out = c.out
  BY <1>1, <1>4 DEF Channels
<1>6. d = [c EXCEPT !.calls[k] = f]
  BY <1>1 DEF s, Channels
<1> HIDE DEF d
<1>7. Fit(d) /\ Own(d) = Own(c)
  BY <1>5 DEF Fit, Own
<1>8. Answers(d)
  <2>1. ASSUME NEW i \in 1 .. k, s[i].returned
        PROVE  OwnResult(s[i])
    <3>1. CASE i = k
      BY <1>4, <3>1 DEF OwnResult
    <3>2. CASE i # k
      <4>1. s[i] = c.calls[i]
        BY <1>4, <3>2
      <4> QED  BY <2>1, <4>1 DEF Answers
    <3> QED  BY <3>1, <3>2
  <2> QED  BY <1>4, <1>5, <2>1 DEF Answers
<1> QED  BY <1>4, <1>5, <1>6, <1>7, <1>8

LEMMA ParseResponseStep ==
    ASSUME IInv, ParseResponse
    PROVE  Held' /\ Notes'
<1> DEFINE n == Head(unpacker).n
<1>0. PICK isError \in BOOLEAN :
        Received(IF Expected(n)
                 THEN [ch EXCEPT !.calls[Len(ch.calls)] =
                         [Frame EXCEPT !.returned = TRUE, !.errored = isError, !.got = n]]
                 ELSE SetError(ch))
  BY DEF ParseResponse
<1> DEFINE f == [Frame EXCEPT !.returned = TRUE, !.errored = isError, !.got = n]
           answeredCh == [ch EXCEPT !.calls[Len(ch.calls)] = f]
<1>1. /\ UNCHANGED <<events, peer, made>> /\ stack' = Tail(stack)
      /\ Head(stack).kind = "receive"
      /\ \/ Expected(n) /\ ch' = Decref(answeredCh)
         \/ ch' = Decref(SetError(ch))
  BY <1>0 DEF ParseResponse, Unpacks, Received, history, Top
<1>2. Head(stack).kind # "main" /\ IsCall(Head(stack)) = 0 /\ ch.pending - 0 = ch.pending
  BY <1>1, Known DEF IsCall
<1>3. Shape(stack') /\ Len(stack') = Len(stack) - 1 /\ CallsOn(stack', ch.pending)
  BY <1>1, <1>2, Known, Popped
<1>4. PICK c : /\ ch' = Decref(c) /\ Fit(c) /\ Own(c) = Own(ch) /\ Answers(c)
               /\ Len(c.calls) = Len(ch.calls) /\ c.pending = ch.pending
               /\ c.delayed = ch.delayed /\ c.out = ch.out
  <2>1. CASE Expected(n) /\ ch' = Decref(answeredCh)
    <3>1. ch.calls # << >> /\ Last(ch.calls).id = n
      BY <2>1 DEF Expected, Frame
    <3>2. f \in Frames /\ f.got = f.id
      <4>1. Frame \in Frames /\ isError \in BOOLEAN
        <5>1. ch.calls \in Seq(Frames)
          BY Known DEF Channels
        <5> QED  BY <1>0, <3>1, <5>1 DEF Frame, Last
      <4>2. Frame.id = n /\ n \in 0 .. MaxCalls
        BY <3>1, <4>1, ChannelAssumption DEF Frame, Frames
      <4> HIDE DEF n
      <4> QED  BY <4>1, <4>2 DEF Frames
    <3> HIDE DEF f
    <3>3. /\ Fit(answeredCh) /\ Own(answeredCh) = Own(ch) /\ Answers(answeredCh)
          /\ Len(answeredCh.calls) = Len(ch.calls) /\ answeredCh.pending = ch.pending
          /\ answeredCh.out = ch.out /\ answeredCh.delayed = ch.delayed
      BY <3>1, <3>2, Known, AnswerFits, Zenon
    <3> HIDE DEF answeredCh
    <3> QED  BY <2>1, <3>3
  <2>2. CASE ch' = Decref(SetError(ch))
    <3>1. /\ Fit(SetError(ch)) /\ Kin(ch, SetError(ch)) /\ SetError(ch).out = ch.out
          /\ SetError(ch).delayed = ch.delayed
      BY Known, SetErrorFits
    <3>2. Answers(SetError(ch))
      BY <3>1, Known, KinAnswers
    <3> QED  BY <2>2, <3>1, <3>2 DEF Kin
  <2> QED  BY <1>1, <2>1, <2>2
<1>5. /\ Fit(ch') /\ Own(ch') = Own(c) - 1 /\ ch'.calls = c.calls
      /\ ch'.pending = c.pending /\ ch'.out = c.out /\ ch'.delayed = c.delayed
  BY <1>4, CountFits
<1>6. Own(ch') = Len(stack') - 1 + Len(events')
  BY <1>1, <1>3, <1>4, <1>5, Known
<1>7. Answers(ch')
  BY <1>4, <1>5 DEF Answers
<1>8. Held'
  BY <1>3, <1>4, <1>5, <1>6, <1>7, Known DEF Held
<1> QED  BY <1>1, <1>4, <1>5, <1>8, NotesKept

(***************************************************************************)
(* A call begins and ends, a notification is sent.                         *)
(***************************************************************************)
LEMMA CallStep ==
    ASSUME IInv, Call
    PROVE  Held' /\ Notes'
<1> DEFINE b == [Incref(ch) EXCEPT !.next = @ + 1]
           m == Message("request", ch.next)
           c == Write(b, m)
           f == [id |-> ch.next, returned |-> FALSE, errored |-> FALSE, got |-> 0]
           t == [kind |-> "call", at |-> "check", n |-> ch.next]
<1>1. /\ UNCHANGED <<events, peer>> /\ made'.notes = made.notes /\ ch.next <= MaxCalls
      /\ ch' = [c EXCEPT !.calls = Append(@, f), !.pending = @ + 1]
      /\ stack' = <<t>> \o stack
  BY DEF Call, Push, IInv, Around
<1>2. /\ Fit(Incref(ch)) /\ Own(Incref(ch)) = Own(ch) + 1 /\ Incref(ch).calls = ch.calls
      /\ Incref(ch).pending = ch.pending /\ Incref(ch).out = ch.out
      /\ Incref(ch).delayed = ch.delayed /\ Incref(ch).next = ch.next
  BY Known, CountFits
<1>3. ch.next \in 1 .. MaxCalls /\ ch.next + 1 \in 1 .. MaxCalls + 1
  <2>1. ch.next \in 1 .. MaxCalls + 1
    BY Known DEF Channels
  <2>2. MaxCalls \in Nat
    BY ChannelAssumption
  <2> QED  BY <1>1, <2>1, <2>2
<1>4. /\ Fit(b) /\ Own(b) = Own(ch) + 1 /\ b.calls = ch.calls /\ b.pending = ch.pending
      /\ b.out = ch.out /\ b.delayed = ch.delayed
  <2> DEFINE a == Incref(ch)
             u == ch.next + 1
  <2>1. a \in Channels /\ a.next = ch.next /\ u \in 1 .. MaxCalls + 1
    BY <1>2, <1>3 DEF Fit
  <2> HIDE DEF a, u
  <2>2. b = [a EXCEPT !.next = u]
    BY <2>1 DEF a, u, Channels
  <2>3. /\ b \in Channels /\ b.closed = a.closed /\ b.stream = a.stream
        /\ b.refcount = a.refcount /\ b.calls = a.calls /\ b.pending = a.pending
        /\ b.out = a.out /\ b.delayed = a.delayed
    BY <2>1, <2>2 DEF Channels
  <2> HIDE DEF b
  <2> QED  BY <1>2, <2>3 DEF a, Fit, Own
<1>5. m \in OutMessages /\ m.type # "note" /\ m.n \in 1 .. MaxCalls
  BY <1>3, ChannelAssumption DEF Message, OutMessages
<1> HIDE DEF b, m
<1>6. /\ Fit(c) /\ Kin(b, c) /\ c.delayed = ch.delayed
      /\ c.out = ch.out \/ c.out = Append(ch.out, m)
  BY <1>4, <1>5, WriteFits
<1>7. /\ f \in Frames /\ ~f.returned
  BY <1>3, ChannelAssumption DEF Frames
<1>8. Answers(b)
  BY <1>4, Known DEF Answers
<1>9. Answers(c)
  BY <1>6, <1>8, KinAnswers
<1> HIDE DEF c, f
<1> DEFINE k == Len(c.calls)
           s == Append(c.calls, f)
           p == c.pending + 1
<1>10. /\ c.calls \in Seq(Frames) /\ c \in Channels /\ k = ch.pending
          /\ c.pending = ch.pending
       /\ k \in Nat
  BY <1>4, <1>6, Known DEF Fit, Channels, Kin
<1>11. /\ s \in Seq(Frames) /\ Len(s) = k + 1 /\ s[k + 1] = f /\ p \in Nat
       /\ \A i \in 1 .. k : s[i] = c.calls[i]
  BY <1>7, <1>10
<1>12. ch' = [c EXCEPT !.calls = s, !.pending = p]
  BY <1>1, <1>10 DEF Channels
<1> HIDE DEF s, p
<1>13. /\ ch' \in Channels /\ ch'.closed = c.closed /\ ch'.stream = c.stream
       /\ ch'.refcount = c.refcount /\ ch'.calls = s /\ ch'.pending = p
       /\ ch'.out = c.out /\ ch'.delayed = c.delayed
  BY <1>10, <1>11, <1>12 DEF Channels
<1>14. Fit(ch') /\ Own(ch') = Own(c)
  BY <1>6, <1>13 DEF Fit, Own
<1>15. Answers(ch')
  <2>1. ASSUME NEW i \in 1 .. k + 1, s[i].returned
        PROVE  OwnResult(s[i])
    <3>1. i # k + 1
      BY <1>7, <1>11, <2>1
    <3>2. i \in 1 .. k
      BY <1>10, <3>1
    <3> QED  BY <1>9, <1>11, <2>1, <3>2 DEF Answers
  <2> QED  BY <1>11, <1>13, <2>1 DEF Answers
<1>16. t \in Places /\ t.kind # "main" /\ IsCall(t) = 1
  BY <1>3 DEF Places, At, IsCall
<1> HIDE DEF t
<1>17. Shape(stack') /\ Len(stack') = Len(stack) + 1 /\ CallsOn(stack', ch.pending + 1)
  BY <1>1, <1>16, Known, Pushed
<1>18. ch'.pending = ch.pending + 1 /\ Len(ch'.calls) = ch.pending + 1
  BY <1>10, <1>11, <1>13 DEF p
<1>19. Own(ch') = Len(stack') - 1 + Len(events')
  BY <1>1, <1>4, <1>6, <1>14, <1>17, Known DEF Kin
<1>20. Held'
  BY <1>14, <1>15, <1>17, <1>18, <1>19 DEF Held
<1>21. ch'.pending # 0
  BY <1>18, Known
<1> QED  BY <1>1, <1>5, <1>6, <1>13, <1>14, <1>20, <1>21, NotesKept
LEMMA FinishCallStep ==
    ASSUME IInv, FinishCall
    PROVE  Held' /\ Notes'
<1> DEFINE front == Front(ch.calls)
           left == ch.pending - 1
           b == [ch EXCEPT !.calls = front, !.pending = left]
<1>1. /\ UNCHANGED <<events, peer, made>> /\ stack' = Tail(stack)
      /\ Head(stack).kind = "call"
      /\ ch' = Decref(IF HoldsBack(b) THEN b ELSE SendDelayed(b))
  <2>1. Returned(ch) = b
    BY Known DEF Returned, Channels
  <2> QED  BY <2>1 DEF FinishCall, history, Top
<1>2. /\ Shape(stack') /\ Len(stack') = Len(stack) - 1 /\ left \in Nat
      /\ CallsOn(stack', left)
  <2>1. Head(stack).kind # "main" /\ IsCall(Head(stack)) = 1
    BY <1>1 DEF IsCall
  <2> QED  BY <1>1, <2>1, Known, Popped
<1>3. /\ front \in Seq(Frames) /\ Len(front) = left
      /\ \A i \in 1 .. left : front[i] = ch.calls[i]
  <2>1. ch.calls \in Seq(Frames) /\ Len(ch.calls) = left + 1 /\ left \in Nat
    BY <1>2, Known DEF Channels
  <2> QED  BY <2>1 DEF Front
<1> HIDE DEF front, left
<1>4. /\ b \in Channels /\ b.closed = ch.closed /\ b.stream = ch.stream
      /\ b.refcount = ch.refcount /\ b.calls = front /\ b.pending = left
      /\ b.out = ch.out /\ b.delayed = ch.delayed
  BY <1>2, <1>3, Known DEF Channels
<1> HIDE DEF b
<1>5. Fit(b) /\ Own(b) = Own(ch) /\ Len(b.calls) = b.pending
  BY <1>3, <1>4, Known DEF Fit, Own
<1>6. Answers(b)
  <2>1. left \in 0 .. Len(ch.calls)
    BY <1>2, Known DEF left
  <2> QED  BY <1>3, <1>4, <2>1, Known DEF Answers
<1>7. Kin(b, b)
  BY <1>5 DEF Kin
<1>8. /\ InOrder(peer.heard, b.out, b.delayed) /\ OutKnown(b.out, made.notes)
      /\ \A i \in DOMAIN b.delayed : b.delayed[i] \in 1 .. made.notes
      /\ \A i \in DOMAIN peer.heard : peer.heard[i] \in 1 .. made.notes
  BY <1>4 DEF IInv, Notes, NotesInOrder
<1>9. peer.heard \in Seq(Nat) /\ made.notes \in Nat
  <2>1. peer.heard \in Seq(1 .. MaxNotes) /\ made.notes \in 0 .. MaxNotes
    BY DEF IInv, Around
  <2>2. 1 .. MaxNotes \subseteq Nat /\ 0 .. MaxNotes \subseteq Nat
    OBVIOUS
  <2> QED  BY <2>1, <2>2, SeqInto
<1>10. PICK c : /\ ch' = Decref(c) /\ Fit(c) /\ Kin(b, c)
                /\ InOrder(peer.heard, c.out, c.delayed) /\ OutKnown(c.out, made.notes)
                /\ \A i \in DOMAIN c.delayed : c.delayed[i] \in 1 .. made.notes
                /\ b.pending = 0 => c.delayed = << >>
  <2>1. CASE HoldsBack(b)
    <3>1. b.pending # 0
      BY <1>2, <1>4, <2>1 DEF HoldsBack
    <3> QED  BY <1>1, <1>5, <1>7, <1>8, <2>1, <3>1, Zenon
  <2>2. CASE ~HoldsBack(b)
    <3> DEFINE d == SendDelayed(b)
    <3>1. /\ Fit(d) /\ Kin(b, d) /\ d.delayed = << >>
          /\ InOrder(peer.heard, d.out, << >>) /\ OutKnown(d.out, made.notes)
      BY <1>5, <1>8, <1>9, DelayedGo
    <3>2. ch' = Decref(d)
      BY <1>1, <2>2
    <3> HIDE DEF d
    <3>3. \A i \in DOMAIN d.delayed : d.delayed[i] \in 1 .. made.notes
      BY <3>1
    <3> QED  BY <3>1, <3>2, <3>3
  <2> QED  BY <2>1, <2>2
<1>11. /\ Fit(ch') /\ Own(ch') = Own(c) - 1 /\ ch'.calls = c.calls
       /\ ch'.pending = c.pending /\ ch'.out = c.out /\ ch'.delayed = c.delayed
  BY <1>10, CountFits
<1>12. Own(ch') = Len(stack') - 1 + Len(events')
  BY <1>1, <1>2, <1>5, <1>10, <1>11, Known DEF Kin
<1>13. Answers(c)
  BY <1>6, <1>10, KinAnswers
<1>14. Answers(ch')
  BY <1>11, <1>13 DEF Answers
<1>15. ch'.pending = left /\ Len(ch'.calls) = left
  BY <1>4, <1>5, <1>10, <1>11 DEF Kin
<1>16. Held'
  BY <1>2, <1>11, <1>12, <1>14, <1>15 DEF Held
<1> QED  BY <1>1, <1>4, <1>8, <1>10, <1>11, <1>15, <1>16 DEF Notes, NotesInOrder

(* A notification is written behind those that went before it, or held     *)
(* back behind those that wait.                                            *)
LEMMA NotifyStep ==
    ASSUME IInv, Notify
    PROVE  Held' /\ Notes'
<1> DEFINE k == made.notes + 1
           m == Message("note", k)
           list == Append(ch.delayed, k)
<1>1. /\ UNCHANGED <<stack, events, peer>> /\ made.notes < MaxNotes
      /\ made'.notes = k
      /\ ch' = IF HoldsBack(ch) THEN [ch EXCEPT !.delayed = list] ELSE Write(ch, m)
  BY Known DEF Notify, IInv, Around, Channels
<1>2. made.notes \in Nat /\ k \in Nat /\ k \in 1 .. MaxNotes /\ k > made.notes
  BY <1>1, ChannelAssumption DEF IInv, Around
<1>3. /\ InOrder(peer.heard, ch.out, ch.delayed) /\ OutKnown(ch.out, made.notes)
      /\ \A i \in DOMAIN ch.delayed : ch.delayed[i] \in 1 .. made.notes
      /\ \A i \in DOMAIN peer.heard : peer.heard[i] \in 1 .. made.notes
      /\ ch.pending = 0 => ch.delayed = << >>
  BY DEF IInv, Notes, NotesInOrder
<1>4. /\ \A i \in DOMAIN peer.heard : peer.heard[i] \in 1 .. k /\ peer.heard[i] < k
      /\ \A i \in DOMAIN ch.delayed : ch.delayed[i] \in 1 .. k /\ ch.delayed[i] < k
      /\ \A i \in DOMAIN ch.out : ch.out[i].type = "note" => ch.out[i].n < k
      /\ OutKnown(ch.out, k)
  <2>1. \A x \in 1 .. made.notes : x \in 1 .. k /\ x < k
    BY <1>2
  <2> HIDE DEF k
  <2> QED  BY <1>3, <2>1 DEF OutKnown
<1>5. /\ ch.out \in Seq(OutMessages) /\ ch.delayed \in Seq(Nat) /\ peer.heard \in Seq(Nat)
      /\ ch.delayed \in Seq(1 .. MaxNotes)
  <2>1. /\ ch.out \in Seq(OutMessages) /\ ch.delayed \in Seq(1 .. MaxNotes)
        /\ peer.heard \in Seq(1 .. MaxNotes)
    BY Known DEF Channels, IInv, Around
  <2>2. 1 .. MaxNotes \subseteq Nat /\ 0 .. MaxNotes \subseteq Nat
    OBVIOUS
  <2> QED  BY <2>1, <2>2, SeqInto
<1> HIDE DEF k
<1>6. CASE HoldsBack(ch)
  <2>1. /\ list \in Seq(1 .. MaxNotes) /\ DOMAIN list = 1 .. Len(ch.delayed) + 1
        /\ DOMAIN ch.delayed = 1 .. Len(ch.delayed) /\ Len(ch.delayed) \in Nat
        /\ \A i \in 1 .. Len(ch.delayed) : list[i] = ch.delayed[i]
        /\ list[Len(ch.delayed) + 1] = k
    BY <1>2, <1>5
  <2> HIDE DEF list
  <2>2. /\ ch' \in Channels /\ ch'.closed = ch.closed /\ ch'.stream = ch.stream
        /\ ch'.refcount = ch.refcount /\ ch'.calls = ch.calls /\ ch'.pending = ch.pending
        /\ ch'.out = ch.out /\ ch'.delayed = list
    BY <1>1, <1>6, <2>1, Known DEF Channels
  <2>3. Fit(ch') /\ Own(ch') = Own(ch)
    BY <2>2, Known DEF Fit, Own
  <2>4. Held'
    BY <1>1, <2>2, <2>3, Known, HeldBy
  <2>5. ASSUME NEW d \in DOMAIN list
        PROVE  \/ d \in DOMAIN ch.delayed /\ list[d] = ch.delayed[d]
               \/ d = Len(ch.delayed) + 1 /\ list[d] = k
    BY <2>1
  <2>6. ASSUME NEW i \in DOMAIN list, NEW j \in DOMAIN list, i < j PROVE list[i] < list[j]
    <3>1. i \in DOMAIN ch.delayed /\ list[i] = ch.delayed[i]
      BY <2>1, <2>6
    <3>2. CASE j \in DOMAIN ch.delayed /\ list[j] = ch.delayed[j]
      BY <1>3, <2>6, <3>1, <3>2 DEF InOrder
    <3>3. CASE list[j] = k
      BY <1>4, <3>1, <3>3
    <3> QED  BY <2>5, <3>2, <3>3
  <2>7. InOrder(peer.heard, ch.out, list)
    BY <1>3, <1>4, <2>5, <2>6 DEF InOrder
  <2>8. \A i \in DOMAIN list : list[i] \in 1 .. k
    <3>1. k \in 1 .. k
      BY <1>2
    <3> QED  BY <1>4, <2>5, <3>1
  <2>9. ch.pending # 0
    BY <1>6, Known DEF HoldsBack
  <2> QED  BY <1>1, <1>4, <2>2, <2>4, <2>7, <2>8, <2>9 DEF Notes, NotesInOrder
<1>7. CASE ~HoldsBack(ch)
  <2>1. ch.delayed = << >>
    BY <1>3, <1>7, Known DEF HoldsBack
  <2>2. m \in OutMessages /\ m.type = "note" /\ m.n = k
    BY <1>2 DEF Message, OutMessages
  <2> HIDE DEF m
  <2>3. /\ Fit(ch') /\ Kin(ch, ch') /\ ch'.delayed = ch.delayed
        /\ ch'.out = ch.out \/ ch'.out = Append(ch.out, m)
    BY <1>1, <1>7, <2>2, Known, WriteFits
  <2>4. Held'
    BY <1>1, <2>3, Known, HeldBy DEF Kin
  <2>5. InOrder(peer.heard, ch'.out, ch.delayed)
    <3>1. DOMAIN ch.delayed = {}
      BY <2>1
    <3>2. InOrder(peer.heard, Append(ch.out, m), ch.delayed)
      BY <1>3, <1>4, <1>5, <2>2, <3>1, NoteSent
    <3> QED  BY <1>3, <2>3, <3>2
  <2>6. OutKnown(ch'.out, k)
    <3>1. k \in 1 .. k
      BY <1>2
    <3>2. OutKnown(Append(ch.out, m), k)
      BY <1>2, <1>4, <1>5, <2>2, <3>1, OutGrows
    <3> QED  BY <1>4, <2>3, <3>2
  <2> QED  BY <1>1, <1>4, <2>1, <2>3, <2>4, <2>5, <2>6 DEF Notes, NotesInOrder
<1> QED  BY <1>6, <1>7
(***************************************************************************)
(* The messages of the peer's.  The numbers in a sequence are those of its *)
(* parts, and are there once if they are in each part and in one part only.*)
(***************************************************************************)
LEMMA Joined ==
    ASSUME NEW S, NEW T, NEW a \in Seq(S), NEW b \in Seq(T), NEW K
    PROVE  /\ Numbers(a \o b, K) = Numbers(a, K) \cup Numbers(b, K)
           /\ Once(a \o b, K) <=> /\ Once(a, K) /\ Once(b, K)
                                  /\ Numbers(a, K) \cap Numbers(b, K) = {}
<1> DEFINE c == a \o b
           k == Len(a)
<1>1. /\ k \in Nat /\ Len(b) \in Nat /\ DOMAIN a = 1 .. k /\ DOMAIN b = 1 .. Len(b)
      /\ DOMAIN c = 1 .. k + Len(b)
      /\ \A i \in 1 .. k : c[i] = a[i]
      /\ \A i \in 1 .. Len(b) : c[k + i] = b[i]
  OBVIOUS
<1> HIDE DEF c, k
<1>2. ASSUME NEW i \in Among(c, K)
      PROVE  \/ i \in Among(a, K) /\ c[i] = a[i] /\ i <= k
             \/ i - k \in Among(b, K) /\ c[i] = b[i - k] /\ i > k
  <2>1. CASE i <= k
    BY <1>1, <2>1 DEF Among
  <2>2. CASE i > k
    <3>1. i - k \in 1 .. Len(b) /\ k + (i - k) = i
      BY <1>1, <2>2 DEF Among
    <3> QED  BY <1>1, <2>2, <3>1 DEF Among
  <2> QED  BY <1>1, <2>1, <2>2 DEF Among
<1>3. \A i \in Among(a, K) : i \in Among(c, K) /\ c[i] = a[i] /\ i <= k /\ i \in Nat
  BY <1>1 DEF Among
<1>4. \A i \in Among(b, K) : k + i \in Among(c, K) /\ c[k + i] = b[i] /\ k + i > k
        /\ i \in Nat
  BY <1>1 DEF Among
<1>5. Numbers(c, K) = Numbers(a, K) \cup Numbers(b, K)
  BY <1>2, <1>3, <1>4 DEF Numbers
<1>6. ASSUME Once(c, K)
      PROVE  Once(a, K) /\ Once(b, K) /\ Numbers(a, K) \cap Numbers(b, K) = {}
  <2>1. Once(a, K)
    BY <1>3, <1>6 DEF Once
  <2>2. Once(b, K)
    <3>1. ASSUME NEW i \in Among(b, K), NEW j \in Among(b, K), b[i].n = b[j].n
          PROVE  i = j
      <4>1. k + i = k + j
        BY <1>4, <1>6, <3>1 DEF Once
      <4> QED  BY <1>1, <1>4, <4>1
    <3> QED  BY <3>1 DEF Once
  <2>3. ASSUME NEW i \in Among(a, K), NEW j \in Among(b, K), a[i].n = b[j].n
        PROVE  FALSE
    <3>1. i = k + j
      BY <1>3, <1>4, <1>6, <2>3 DEF Once
    <3> QED  BY <1>1, <1>3, <1>4, <3>1
  <2> QED  BY <2>1, <2>2, <2>3 DEF Numbers
<1>7. ASSUME Once(a, K), Once(b, K), Numbers(a, K) \cap Numbers(b, K) = {}
      PROVE  Once(c, K)
  <2>1. ASSUME NEW i \in Among(c, K), NEW j \in Among(c, K), c[i].n = c[j].n
        PROVE  i = j
    <3>5. i \in Int /\ j \in Int /\ k \in Int
      BY <1>1 DEF Among
    <3>6. /\ i <= k => i \in Among(a, K) /\ c[i] = a[i]
          /\ i > k => i - k \in Among(b, K) /\ c[i] = b[i - k]
      BY <1>2, <3>5
    <3>7. /\ j <= k => j \in Among(a, K) /\ c[j] = a[j]
          /\ j > k => j - k \in Among(b, K) /\ c[j] = b[j - k]
      BY <1>2, <3>5
    <3>1. CASE i <= k /\ j <= k
      BY <1>7, <2>1, <3>1, <3>6, <3>7 DEF Once
    <3>2. CASE i > k /\ j > k
      <4>1. i - k = j - k
        <5> DEFINE p == i - k
                   q == j - k
        <5>1. p \in Among(b, K) /\ q \in Among(b, K) /\ b[p].n = b[q].n
          BY <2>1, <3>2, <3>6, <3>7
        <5> HIDE DEF p, q
        <5>2. p = q
          BY <1>7, <5>1, Zenon DEF Once
        <5> QED  BY <5>2 DEF p, q
      <4> QED  BY <3>5, <4>1
    <3>3. CASE i <= k /\ j > k
      <4>1. a[i].n \in Numbers(a, K) /\ b[j - k].n \in Numbers(b, K)
        BY <3>3, <3>6, <3>7 DEF Numbers
      <4> QED  BY <1>7, <2>1, <3>3, <3>6, <3>7, <4>1
    <3>4. CASE i > k /\ j <= k
      <4>1. a[j].n \in Numbers(a, K) /\ b[i - k].n \in Numbers(b, K)
        BY <3>4, <3>6, <3>7 DEF Numbers
      <4> QED  BY <1>7, <2>1, <3>4, <3>6, <3>7, <4>1
    <3> QED  BY <3>1, <3>2, <3>3, <3>4, <3>5
  <2> QED  BY <2>1 DEF Once
<1> QED  BY <1>5, <1>6, <1>7 DEF c

LEMMA Single ==
    ASSUME NEW x, NEW K
    PROVE  /\ Numbers(<<x>>, K) = IF x \in K THEN {x.n} ELSE {}
           /\ Once(<<x>>, K)
<1>1. Among(<<x>>, K) = IF x \in K THEN {1} ELSE {}
  BY DEF Among
<1> QED  BY <1>1 DEF Numbers, Once

(* One is put in, or taken out: at the front, at the end or in the middle. *)
Put(s, t, x, K) ==
    IF x \in K THEN /\ Numbers(t, K) = Numbers(s, K) \cup {x.n}
                    /\ Once(t, K) <=> Once(s, K) /\ x.n \notin Numbers(s, K)
    ELSE Numbers(t, K) = Numbers(s, K) /\ (Once(t, K) <=> Once(s, K))

LEMMA PutIn ==
    ASSUME NEW S, NEW s \in Seq(S), NEW x, NEW K
    PROVE  Put(s, <<x>> \o s, x, K) /\ Put(s, Append(s, x), x, K)
<1>1. <<x>> \in Seq({x})
  OBVIOUS
<1>2. Put(s, <<x>> \o s, x, K)
  <2>1. /\ Numbers(<<x>> \o s, K) = Numbers(<<x>>, K) \cup Numbers(s, K)
        /\ Once(<<x>> \o s, K) <=> /\ Once(<<x>>, K) /\ Once(s, K)
                                   /\ Numbers(<<x>>, K) \cap Numbers(s, K) = {}
    BY <1>1, Joined
  <2>2. CASE x \in K
    <3>1. Numbers(<<x>>, K) = {x.n} /\ Once(<<x>>, K)
      BY <2>2, Single
    <3> QED  BY <2>1, <2>2, <3>1, Zenon DEF Put
  <2>3. CASE x \notin K
    <3>1. Numbers(<<x>>, K) = {} /\ Once(<<x>>, K)
      BY <2>3, Single
    <3> QED  BY <2>1, <2>3, <3>1 DEF Put
  <2> QED  BY <2>2, <2>3
<1>3. Put(s, Append(s, x), x, K)
  <2>1. /\ Numbers(s \o <<x>>, K) = Numbers(s, K) \cup Numbers(<<x>>, K)
        /\ Once(s \o <<x>>, K) <=> /\ Once(s, K) /\ Once(<<x>>, K)
                                   /\ Numbers(s, K) \cap Numbers(<<x>>, K) = {}
    BY <1>1, Joined
  <2>2. Append(s, x) = s \o <<x>>
    OBVIOUS
  <2>3. CASE x \in K
    <3>1. Numbers(<<x>>, K) = {x.n} /\ Once(<<x>>, K)
      BY <2>3, Single
    <3> QED  BY <2>1, <2>2, <2>3, <3>1, Zenon DEF Put
  <2>4. CASE x \notin K
    <3>1. Numbers(<<x>>, K) = {} /\ Once(<<x>>, K)
      BY <2>4, Single
    <3> QED  BY <2>1, <2>2, <2>4, <3>1 DEF Put
  <2> QED  BY <2>3, <2>4
<1> QED  BY <1>2, <1>3

LEMMA TakenOut ==
    ASSUME NEW S, NEW s \in Seq(S), NEW K
    PROVE  /\ s # << >> => Put(Tail(s), s, Head(s), K)
           /\ \A i \in 1 .. Len(s) : Put(RemoveAt(s, i), s, s[i], K)
<1>1. ASSUME s # << >> PROVE Put(Tail(s), s, Head(s), K)
  <2>1. s = <<Head(s)>> \o Tail(s) /\ Tail(s) \in Seq(S)
    BY <1>1
  <2>2. Put(Tail(s), <<Head(s)>> \o Tail(s), Head(s), K)
    BY <2>1, PutIn
  <2> QED  BY <2>1, <2>2
<1>2. ASSUME NEW i \in 1 .. Len(s) PROVE Put(RemoveAt(s, i), s, s[i], K)
  <2> DEFINE a == SubSeq(s, 1, i - 1)
             b == SubSeq(s, i + 1, Len(s))
             c == <<s[i]>> \o b
  <2>1. a \in Seq(S) /\ b \in Seq(S) /\ s[i] \in S /\ c \in Seq(S)
    OBVIOUS
  <2>2. s = a \o c
    <3>1. /\ Len(a) = i - 1 /\ Len(b) = Len(s) - i /\ Len(c) = Len(s) - i + 1
          /\ \A j \in 1 .. i - 1 : a[j] = s[j]
          /\ \A j \in 1 .. Len(s) - i : b[j] = s[i + j]
          /\ c[1] = s[i]
      OBVIOUS
    <3>2. \A j \in 1 .. Len(s) - i + 1 : c[j] = s[i + j - 1]
      <4>1. ASSUME NEW j \in 1 .. Len(s) - i + 1 PROVE c[j] = s[i + j - 1]
        <5>1. CASE j = 1
          BY <3>1, <5>1
        <5>2. CASE j # 1
          <6>1. j - 1 \in 1 .. Len(s) - i /\ i + (j - 1) = i + j - 1
            BY <5>2
          <6>2. c[j] = b[j - 1]
            BY <2>1, <3>1, <6>1
          <6> QED  BY <3>1, <6>1, <6>2
        <5> QED  BY <5>1, <5>2
      <4> QED  BY <4>1
    <3> HIDE DEF a, c
    <3>3. a \o c \in Seq(S) /\ Len(a \o c) = Len(s)
      BY <2>1, <3>1
    <3>4. ASSUME NEW j \in 1 .. Len(s) PROVE (a \o c)[j] = s[j]
      <4>1. CASE j <= i - 1
        BY <2>1, <3>1, <4>1
      <4>2. CASE j > i - 1
        <5>1. j - (i - 1) \in 1 .. Len(s) - i + 1 /\ i + (j - (i - 1)) - 1 = j
          BY <4>2
        <5>2. (a \o c)[j] = c[j - (i - 1)]
          BY <2>1, <3>1, <4>2, <5>1
        <5> QED  BY <3>2, <5>1, <5>2
      <4>3. j <= i - 1 \/ j > i - 1
        OBVIOUS
      <4> QED  BY <4>1, <4>2, <4>3, Zenon
    <3> DEFINE d == a \o c
    <3>5. /\ d \in Seq(S) /\ s \in Seq(S) /\ Len(d) = Len(s)
          /\ \A j \in 1 .. Len(d) : d[j] = s[j]
      BY <3>3, <3>4
    <3> HIDE DEF d
    <3>6. d = s
      BY <3>5, SeqEqual
    <3> QED  BY <3>6 DEF d
  <2>3. RemoveAt(s, i) = a \o b
    BY DEF RemoveAt
  <2> HIDE DEF a, b
  <2>4. Put(b, c, s[i], K)
    BY <2>1, PutIn
  <2> HIDE DEF c
  <2>5. /\ Numbers(a \o b, K) = Numbers(a, K) \cup Numbers(b, K)
        /\ Once(a \o b, K) <=> /\ Once(a, K) /\ Once(b, K)
                               /\ Numbers(a, K) \cap Numbers(b, K) = {}
    BY <2>1, Joined
  <2>6. /\ Numbers(a \o c, K) = Numbers(a, K) \cup Numbers(c, K)
        /\ Once(a \o c, K) <=> /\ Once(a, K) /\ Once(c, K)
                               /\ Numbers(a, K) \cap Numbers(c, K) = {}
    BY <2>1, Joined
  <2> DEFINE r == a \o b
  <2>7. Put(r, s, s[i], K)
    <3>1. /\ Numbers(s, K) = Numbers(a, K) \cup Numbers(c, K)
          /\ Once(s, K) <=> /\ Once(a, K) /\ Once(c, K)
                            /\ Numbers(a, K) \cap Numbers(c, K) = {}
      BY <2>2, <2>6, Zenon
    <3>2. CASE s[i] \in K
      BY <2>4, <2>5, <3>1, <3>2 DEF Put
    <3>3. CASE s[i] \notin K
      BY <2>4, <2>5, <3>1, <3>3 DEF Put
    <3> QED  BY <3>2, <3>3
  <2> QED  BY <2>3, <2>7
<1> QED  BY <1>1, <1>2

LEMMA AnsweredGrows ==
    ASSUME NEW S, NEW s \in Seq(S), NEW x
    PROVE  /\ ToSet(Append(s, x)) = ToSet(s) \cup {x}
           /\ (IsInjective(s) /\ x \notin ToSet(s)) => IsInjective(Append(s, x))
<1> DEFINE t == Append(s, x)
<1>1. /\ DOMAIN s = 1 .. Len(s) /\ Len(s) \in Nat /\ DOMAIN t = 1 .. Len(s) + 1
      /\ \A i \in 1 .. Len(s) : t[i] = s[i]
      /\ t[Len(s) + 1] = x
  OBVIOUS
<1> HIDE DEF t
<1>2. \A i \in DOMAIN t : \/ i \in DOMAIN s /\ t[i] = s[i]
                          \/ i = Len(s) + 1 /\ t[i] = x
  BY <1>1
<1>3. ToSet(t) = ToSet(s) \cup {x}
  <2>1. Len(s) + 1 \in DOMAIN t /\ \A i \in DOMAIN s : i \in DOMAIN t /\ t[i] = s[i]
    BY <1>1
  <2> QED  BY <1>1, <1>2, <2>1 DEF ToSet
<1>4. ASSUME IsInjective(s), x \notin ToSet(s) PROVE IsInjective(t)
  <2>1. \A i \in DOMAIN s : s[i] # x
    BY <1>4 DEF ToSet
  <2>2. ASSUME NEW i \in DOMAIN t, NEW j \in DOMAIN t, t[i] = t[j] PROVE i = j
    BY <1>2, <1>4, <2>1, <2>2 DEF IsInjective
  <2> QED  BY <2>2 DEF IsInjective
<1> QED  BY <1>3, <1>4 DEF t
(***************************************************************************)
(* The five places a message of the peer's may be in.                      *)
(***************************************************************************)
OnWay == Numbers(fromPeer, AskMessages)
Fed == Numbers(unpacker, AskMessages)
Queued == Numbers(events, Events)
InHand == Numbers(stack, Handlers)
Over == ToSet(answered)

Split(f, u, e, h, a, T) ==
    /\ f \cup u \cup e \cup h \cup a = T
    /\ f \cap (u \cup e \cup h \cup a) = {} /\ u \cap (e \cup h \cup a) = {}
    /\ e \cap (h \cup a) = {} /\ h \cap a = {}

NoneTwice ==
    /\ Once(fromPeer, AskMessages) /\ Once(unpacker, AskMessages)
    /\ Once(events, Events) /\ Once(stack, Handlers) /\ IsInjective(answered)

LEMMA OfFive ==
    ASSUME NEW f, NEW u, NEW e, NEW h, NEW a, NEW T
    PROVE  LET places == <<f, u, e, h, a>> IN
           Split(f, u, e, h, a, T)
             <=> /\ UNION {places[i] : i \in 1 .. 5} = T
                 /\ \A i, j \in 1 .. 5 : i # j => places[i] \cap places[j] = {}
<1> DEFINE places == <<f, u, e, h, a>>
<1>1. /\ places[1] = f /\ places[2] = u /\ places[3] = e /\ places[4] = h /\ places[5] = a
      /\ 1 .. 5 = {1, 2, 3, 4, 5}
  OBVIOUS
<1> HIDE DEF places
<1>2. UNION {places[i] : i \in 1 .. 5} = f \cup u \cup e \cup h \cup a
  BY <1>1
<1>3. ASSUME \A i, j \in 1 .. 5 : i # j => places[i] \cap places[j] = {}
      PROVE  /\ f \cap u = {} /\ f \cap e = {} /\ f \cap h = {} /\ f \cap a = {}
             /\ u \cap e = {} /\ u \cap h = {} /\ u \cap a = {}
             /\ e \cap h = {} /\ e \cap a = {} /\ h \cap a = {}
  BY <1>1, <1>3
<1>4. ASSUME f \cap u = {}, f \cap e = {}, f \cap h = {}, f \cap a = {},
             u \cap e = {}, u \cap h = {}, u \cap a = {},
             e \cap h = {}, e \cap a = {}, h \cap a = {}
      PROVE  \A i, j \in 1 .. 5 : i # j => places[i] \cap places[j] = {}
  BY <1>1, <1>4
<1> QED  BY <1>2, <1>3, <1>4 DEF Split, places

LEMMA OnceMeans ==
    /\ EachAskOnce <=> /\ Split(OnWay, Fed, Queued, InHand, Over, 1 .. Len(peer.asked))
                       /\ NoneTwice
    /\ EachAskOnce' <=>
       /\ Split(OnWay', Fed', Queued', InHand', Over', 1 .. Len(peer'.asked))
                        /\ NoneTwice'
<1>1. EachAskOnce <=> /\ Split(OnWay, Fed, Queued, InHand, Over, 1 .. Len(peer.asked))
                      /\ NoneTwice
  BY OfFive, Zenon DEF EachAskOnce, NoneTwice, OnWay, Fed, Queued, InHand, Over
<1>2. EachAskOnce' <=>
        /\ Split(OnWay', Fed', Queued', InHand', Over', 1 .. Len(peer'.asked))
                       /\ NoneTwice'
  BY OfFive, Zenon DEF EachAskOnce, NoneTwice, OnWay, Fed, Queued, InHand, Over
<1> QED  BY <1>1, <1>2

LEMMA AskedKnown ==
    ASSUME IInv
    PROVE  /\ fromPeer \in Seq(Messages) /\ unpacker \in Seq(Messages)
           /\ events \in Seq(Events) /\ stack \in Seq(Places) /\ stack # << >>
           /\ answered \in Seq(1 .. MaxAsks)
           /\ peer.asked \in Seq(Asks) /\ Len(peer.asked) \in 0 .. MaxAsks
           /\ Split(OnWay, Fed, Queued, InHand, Over, 1 .. Len(peer.asked)) /\ NoneTwice
           /\ Fed \cup InHand \subseteq 1 .. MaxAsks
<1>1. /\ peer.asked \in Seq(Asks) /\ Len(peer.asked) <= MaxAsks /\ EachAskOnce
      /\ fromPeer \in Seq(Messages) /\ unpacker \in Seq(Messages)
      /\ events \in Seq(Events) /\ stack \in Seq(Places) /\ stack # << >>
      /\ answered \in Seq(1 .. MaxAsks)
  BY Known DEF IInv, Asked, Around, Shape
<1>2. Len(peer.asked) \in 0 .. MaxAsks /\ 1 .. Len(peer.asked) \subseteq 1 .. MaxAsks
  BY <1>1, ChannelAssumption
<1>3. Split(OnWay, Fed, Queued, InHand, Over, 1 .. Len(peer.asked)) /\ NoneTwice
  BY <1>1, OnceMeans
<1>4. Fed \cup InHand \subseteq 1 .. Len(peer.asked)
  BY <1>3 DEF Split
<1> QED  BY <1>1, <1>2, <1>3, <1>4

(* The functions on the stack that handle nothing may come and go.         *)
LEMMA HandlersStay ==
    ASSUME IInv,
           \/ stack' = stack
           \/ \E f : f \notin Handlers /\ stack' = <<f>> \o stack
           \/ Top \notin Handlers /\ stack' = Tail(stack)
           \/ \E f, g : /\ f \notin Handlers /\ g \notin Handlers /\ Top \notin Handlers
                        /\ f \in Places
                        /\ stack' = <<f>> \o Tail(stack) \/ stack' = <<g>> \o (<<f>> \o Tail(stack))
    PROVE  InHand' = InHand /\ Once(stack, Handlers)' 
<1>1. stack \in Seq(Places) /\ stack # << >> /\ Once(stack, Handlers)
  BY AskedKnown DEF NoneTwice
<1>2. Tail(stack) \in Seq(Places) /\ Put(Tail(stack), stack, Top, Handlers)
  <2>1. Tail(stack) \in Seq(Places)
    BY <1>1
  <2>2. Put(Tail(stack), stack, Head(stack), Handlers)
    BY <1>1, TakenOut
  <2> QED  BY <2>1, <2>2, Zenon DEF Top
<1>3. \A f : Put(stack, <<f>> \o stack, f, Handlers)
  BY <1>1, PutIn
<1>4. \A f : Put(Tail(stack), <<f>> \o Tail(stack), f, Handlers)
  BY <1>2, PutIn
<1>5. \A f \in Places : <<f>> \o Tail(stack) \in Seq(Places)
  BY <1>2
<1>6. \A g : \A f \in Places :
        Put(<<f>> \o Tail(stack), <<g>> \o (<<f>> \o Tail(stack)), g, Handlers)
  BY <1>5, PutIn
<1>7. Numbers(stack', Handlers) = Numbers(stack, Handlers) /\ Once(stack', Handlers)
  <2>1. CASE stack' = stack
    BY <1>1, <2>1
  <2>2. CASE \E f : f \notin Handlers /\ stack' = <<f>> \o stack
    <3>1. PICK f : f \notin Handlers /\ stack' = <<f>> \o stack
      BY <2>2
    <3>2. Put(stack, <<f>> \o stack, f, Handlers)
      BY <1>3
    <3> DEFINE t == <<f>> \o stack
    <3>3. stack' = t /\ Put(stack, t, f, Handlers)
      BY <3>1, <3>2
    <3> HIDE DEF t
    <3> QED  BY <1>1, <3>1, <3>3, Zenon DEF Put
  <2>3. CASE Top \notin Handlers /\ stack' = Tail(stack)
    BY <1>1, <1>2, <2>3, Zenon DEF Put
  <2>4. ASSUME NEW f \in Places, NEW g, f \notin Handlers, g \notin Handlers,
               Top \notin Handlers,
               \/ stack' = <<f>> \o Tail(stack)
               \/ stack' = <<g>> \o (<<f>> \o Tail(stack))
        PROVE  Numbers(stack', Handlers) = Numbers(stack, Handlers)
                 /\ Once(stack', Handlers)
    <3> DEFINE t == <<f>> \o Tail(stack)
    <3>1. Numbers(t, Handlers) = Numbers(stack, Handlers) /\ Once(t, Handlers)
      BY <1>1, <1>2, <1>4, <2>4, Zenon DEF Put
    <3>2. Put(t, <<g>> \o t, g, Handlers)
      BY <1>6
    <3> HIDE DEF t
    <3>3. Numbers(<<g>> \o t, Handlers) = Numbers(stack, Handlers)
            /\ Once(<<g>> \o t, Handlers)
      BY <2>4, <3>1, <3>2, Zenon DEF Put
    <3>4. stack' = t \/ stack' = <<g>> \o t
      BY <2>4 DEF t
    <3> QED  BY <3>1, <3>3, <3>4, Zenon
  <2> QED  BY <2>1, <2>2, <2>3, <2>4
<1> QED  BY <1>7 DEF InHand

LEMMA AskedBy ==
    ASSUME fromPeer' \in Seq(Messages), unpacker' \in Seq(Messages),
           events' \in Seq(Events),
           answered' \in Seq(1 .. MaxAsks), Len(peer'.asked) <= MaxAsks, NoneTwice',
           Split(OnWay', Fed', Queued', InHand', Over', 1 .. Len(peer'.asked))
    PROVE  Asked'
BY OnceMeans DEF Asked

(* A function that handles nothing. *)
LEMMA NoHandler ==
    ASSUME NEW f, f.kind \notin {"handler", "async"}
    PROVE  f \notin Handlers
BY DEF Handlers

(* Nothing moves, but functions that handle nothing. *)
LEMMA AskedStays ==
    ASSUME IInv, UNCHANGED <<fromPeer, unpacker, events, answered>>,
           peer'.asked = peer.asked,
           InHand' = InHand, Once(stack, Handlers)'
    PROVE  Asked'
<1>1. OnWay' = OnWay /\ Fed' = Fed /\ Queued' = Queued /\ Over' = Over
  BY DEF OnWay, Fed, Queued, Over
<1>2. NoneTwice'
  BY AskedKnown DEF NoneTwice
<1>3. Split(OnWay', Fed', Queued', InHand', Over', 1 .. Len(peer'.asked))
  BY <1>1, AskedKnown
<1> QED  BY <1>2, <1>3, AskedKnown, AskedBy
LeftStuck == ParseFails /\ UNCHANGED <<unpacker, answered>>
Skipped == ParseFails /\ unpacker' = Rest /\ answered' = Append(answered, Head(unpacker).n)

LEMMA AskedQuietStep ==
    ASSUME IInv, \/ Wait \/ Block \/ EndDrain \/ EndPoll \/ FinishCall \/ Call \/ Notify \/ Stop
                 \/ EndReceive \/ WriteDone \/ StreamClosed \/ WritesBreak \/ PeerReads
                 \/ LeftStuck
    PROVE  Asked'
<1>1. UNCHANGED <<fromPeer, unpacker, events, answered>> /\ peer'.asked = peer.asked
  <2>1. CASE PeerReads
    BY <2>1 DEF PeerReads, OnlyPeer, history, IInv, Around
  <2>2. CASE ~PeerReads
    BY <2>2 DEF Wait, Block, EndDrain, EndPoll, FinishCall, Call, Notify, Stop,
       EndReceive, WriteDone, StreamClosed, WritesBreak, LeftStuck, ParseFails, history
  <2> QED  BY <2>1, <2>2
<1>2. CASE Wait \/ Block \/ EndDrain \/ EndPoll
  <2>1. PICK at \in At : stack' = <<GoTo(at)>> \o Tail(stack)
    BY <1>2 DEF Wait, Block, EndDrain, EndPoll, At, StackTop
  <2>2. GoTo(at) \in Places /\ GoTo(at).kind = Top.kind
    BY Known DEF GoTo, Places
  <2>3. Top.kind \in {"main", "call"}
    BY <1>2 DEF Wait, Block, EndDrain, EndPoll, Waits, Polling
  <2>4. Top \notin Handlers /\ GoTo(at) \notin Handlers
    BY <2>2, <2>3, NoHandler
  <2>5. InHand' = InHand /\ Once(stack, Handlers)'
    BY <2>1, <2>2, <2>4, HandlersStay
  <2> QED  BY <1>1, <2>5, AskedStays
<1>3. CASE FinishCall \/ EndReceive \/ LeftStuck
  <2>1. Top.kind \in {"call", "receive"} /\ stack' = Tail(stack)
    BY <1>3 DEF FinishCall, EndReceive, LeftStuck, ParseFails, Unpacks, Received
  <2>2. Top \notin Handlers
    BY <2>1, NoHandler
  <2>3. InHand' = InHand /\ Once(stack, Handlers)'
    BY <2>1, <2>2, HandlersStay
  <2> QED  BY <1>1, <2>3, AskedStays
<1>4. CASE Call
  <2> DEFINE f == [kind |-> "call", at |-> "check", n |-> ch.next]
  <2>1. stack' = <<f>> \o stack /\ f.kind = "call"
    BY <1>4 DEF Call, Push
  <2>2. f \notin Handlers
    BY NoHandler
  <2> HIDE DEF f
  <2>3. InHand' = InHand /\ Once(stack, Handlers)'
    BY <2>1, <2>2, HandlersStay
  <2> QED  BY <1>1, <2>3, AskedStays
<1>5. CASE Notify \/ Stop \/ WriteDone \/ StreamClosed \/ WritesBreak \/ PeerReads
  <2>1. stack' = stack
    BY <1>5 DEF Notify, Stop, WriteDone, StreamClosed, WritesBreak, PeerReads, OnlyPeer
  <2>2. InHand' = InHand /\ Once(stack, Handlers)'
    BY <2>1, HandlersStay
  <2> QED  BY <1>1, <2>2, AskedStays
<1> QED  BY <1>2, <1>3, <1>4, <1>5

(* The messages that are in the unpacker: one goes. *)
LEMMA UnpackerGives ==
    ASSUME IInv, unpacker # << >>, unpacker' = Rest
    PROVE  /\ unpacker' \in Seq(Messages) /\ Once(unpacker, AskMessages)'
              /\ Head(unpacker).n \in Nat
           /\ Head(unpacker).type \in Asks =>
                /\ Fed = Fed' \cup {Head(unpacker).n} /\ Head(unpacker).n \notin Fed'
           /\ Head(unpacker).type \notin Asks => Fed' = Fed
<1>1. /\ unpacker \in Seq(Messages) /\ Head(unpacker) \in Messages
      /\ unpacker' = Tail(unpacker) /\ unpacker' \in Seq(Messages)
      /\ Once(unpacker, AskMessages)
  <2>1. unpacker \in Seq(Messages) /\ Once(unpacker, AskMessages)
    BY AskedKnown DEF NoneTwice
  <2> QED  BY <2>1 DEF Rest
<1>2. Put(unpacker', unpacker, Head(unpacker), AskMessages)
  BY <1>1, TakenOut
<1>3. Head(unpacker) \in AskMessages <=> Head(unpacker).type \in Asks
  BY <1>1 DEF AskMessages, Messages
<1>4. Head(unpacker).n \in Nat
  BY <1>1 DEF Messages
<1>5. CASE Head(unpacker) \in AskMessages
  BY <1>1, <1>2, <1>3, <1>4, <1>5, Zenon DEF Put, Fed
<1>6. CASE Head(unpacker) \notin AskMessages
  BY <1>1, <1>2, <1>3, <1>4, <1>6, Zenon DEF Put, Fed
<1> QED  BY <1>5, <1>6

LEMMA AskedResponseStep ==
    ASSUME IInv, ParseResponse
    PROVE  Asked'
<1>1. /\ UNCHANGED <<fromPeer, events, peer, answered>> /\ unpacker' = Rest
         /\ unpacker # << >>
      /\ Head(unpacker).type = "response" /\ Top.kind = "receive" /\ stack' = Tail(stack)
  BY DEF ParseResponse, Unpacks, Received, history
<1>2. "response" \notin Asks
  BY ChannelAssumption
<1>3. /\ unpacker' \in Seq(Messages) /\ Once(unpacker, AskMessages)' /\ Fed' = Fed
  BY <1>1, <1>2, UnpackerGives
<1>4. InHand' = InHand /\ Once(stack, Handlers)'
  <2>1. Top \notin Handlers
    BY <1>1, NoHandler
  <2> QED  BY <1>1, <2>1, HandlersStay
<1>5. OnWay' = OnWay /\ Queued' = Queued /\ Over' = Over
  BY <1>1 DEF OnWay, Queued, Over
<1>6. NoneTwice'
  BY <1>1, <1>3, <1>4, AskedKnown DEF NoneTwice
<1>7. Split(OnWay', Fed', Queued', InHand', Over', 1 .. Len(peer'.asked))
  BY <1>1, <1>3, <1>4, <1>5, AskedKnown
<1> QED  BY <1>1, <1>3, <1>6, <1>7, AskedKnown, AskedBy

LEMMA AskedDeferredStep ==
    ASSUME IInv, ParseDeferred
    PROVE  Asked'
<1> DEFINE n == Head(unpacker).n
<1>1. PICK home \in {"channel", "blocking"} :
        events' = Append(events, [home |-> home, n |-> n])
  BY DEF ParseDeferred, Defer
<1>2. /\ UNCHANGED <<fromPeer, stack, peer, answered>> /\ unpacker' = Rest
         /\ unpacker # << >>
      /\ Head(unpacker).type \in {"sync", "note", "get_mode"}
  BY DEF ParseDeferred, Unpacks, history
<1>3. Head(unpacker).type \in Asks
  <2>1. Head(unpacker) \in Messages
    BY <1>2, AskedKnown
  <2> QED  BY <1>2, <2>1 DEF Messages
<1>4. /\ unpacker' \in Seq(Messages) /\ Once(unpacker, AskMessages)'
      /\ Fed = Fed' \cup {n} /\ n \notin Fed'
  BY <1>2, <1>3, UnpackerGives
<1>5. n \in 1 .. MaxAsks
  BY <1>4, AskedKnown
<1> DEFINE e == [home |-> home, n |-> n]
<1>6. e \in Events /\ e.n = n
  BY <1>5 DEF Events
<1> HIDE DEF e, n
<1>7. events' = Append(events, e) /\ events' \in Seq(Events)
  BY <1>1, <1>6, AskedKnown DEF e
<1>8. Put(events, events', e, Events)
  BY <1>7, AskedKnown, PutIn
<1>9. Split(OnWay, Fed, Queued, InHand, Over, 1 .. Len(peer.asked)) /\ NoneTwice
  BY AskedKnown
<1>10. n \notin Queued
  BY <1>4, <1>9 DEF Split
<1>11. Queued' = Queued \cup {n} /\ Once(events, Events)'
  BY <1>6, <1>8, <1>9, <1>10, Zenon DEF Put, Queued, NoneTwice
<1>12. OnWay' = OnWay /\ InHand' = InHand /\ Over' = Over
  BY <1>2 DEF OnWay, InHand, Over
<1>13. NoneTwice'
  BY <1>2, <1>4, <1>9, <1>11 DEF NoneTwice
<1>14. Split(OnWay', Fed', Queued', InHand', Over', 1 .. Len(peer'.asked))
  BY <1>2, <1>4, <1>9, <1>11, <1>12 DEF Split
<1> QED  BY <1>2, <1>4, <1>7, <1>13, <1>14, AskedKnown, AskedBy

LEMMA AskedAnsweredStep ==
    ASSUME IInv, ParseImmediate \/ ParseInvalid \/ Skipped
    PROVE  Asked'
<1> DEFINE n == Head(unpacker).n
<1>1. /\ UNCHANGED <<fromPeer, events, peer>> /\ unpacker' = Rest /\ unpacker # << >>
      /\ Head(unpacker).type \in {"async", "get_mode", "invalid", "garbage"}
      /\ answered' = Append(answered, n)
      /\ stack' = stack \/ (stack' = Tail(stack) /\ Top.kind = "receive")
  BY DEF ParseImmediate, ParseInvalid, Skipped, ParseFails, Unpacks, Received
<1>2. Head(unpacker).type \in Asks
  <2>1. Head(unpacker) \in Messages
    BY <1>1, AskedKnown
  <2> QED  BY <1>1, <2>1 DEF Messages
<1>3. /\ unpacker' \in Seq(Messages) /\ Once(unpacker, AskMessages)'
      /\ Fed = Fed' \cup {n} /\ n \notin Fed'
  BY <1>1, <1>2, UnpackerGives
<1>4. n \in 1 .. MaxAsks
  BY <1>3, AskedKnown
<1> HIDE DEF n
<1>5. Split(OnWay, Fed, Queued, InHand, Over, 1 .. Len(peer.asked)) /\ NoneTwice
  BY AskedKnown
<1>6. n \notin Over
  BY <1>3, <1>5 DEF Split
<1>7. /\ answered' \in Seq(1 .. MaxAsks) /\ Over' = Over \cup {n} /\ IsInjective(answered')
  <2>1. answered' \in Seq(1 .. MaxAsks)
    BY <1>1, <1>4, AskedKnown
  <2>2. /\ ToSet(answered') = ToSet(answered) \cup {n}
        /\ n \notin ToSet(answered) => IsInjective(answered')
    BY <1>1, <1>5, AskedKnown, AnsweredGrows DEF NoneTwice
  <2> QED  BY <1>6, <2>1, <2>2 DEF Over
<1>8. InHand' = InHand /\ Once(stack, Handlers)'
  <2>1. Top.kind = "receive" => Top \notin Handlers
    BY NoHandler
  <2> QED  BY <1>1, <2>1, HandlersStay
<1>11. OnWay' = OnWay /\ Queued' = Queued
  BY <1>1 DEF OnWay, Queued
<1>9. NoneTwice'
  BY <1>1, <1>3, <1>5, <1>7, <1>8 DEF NoneTwice
<1>10. Split(OnWay', Fed', Queued', InHand', Over', 1 .. Len(peer'.asked))
  BY <1>1, <1>3, <1>5, <1>7, <1>8, <1>11 DEF Split
<1> QED  BY <1>1, <1>3, <1>7, <1>9, <1>10, AskedKnown, AskedBy

LEMMA ParseFailsTwoWays ==
    ASSUME ParseFails
    PROVE  LeftStuck \/ Skipped
BY DEF ParseFails, LeftStuck, Skipped

LEMMA AskedEofStep ==
    ASSUME IInv, ReceiveEof
    PROVE  Asked'
<1>1. /\ UNCHANGED <<unpacker, stack, events, peer, answered>> /\ fromPeer # << >>
      /\ fromPeer' = Tail(fromPeer) /\ Head(fromPeer).type = "eof"
  BY DEF ReceiveEof, history, Readable
<1>2. fromPeer' \in Seq(Messages) /\ Put(fromPeer', fromPeer, Head(fromPeer), AskMessages)
  <2>1. fromPeer' \in Seq(Messages)
    BY <1>1, AskedKnown
  <2>2. Put(Tail(fromPeer), fromPeer, Head(fromPeer), AskMessages)
    BY <1>1, AskedKnown, TakenOut
  <2> QED  BY <1>1, <2>1, <2>2
<1>3. Head(fromPeer) \notin AskMessages
  BY <1>1, ChannelAssumption DEF AskMessages
<1>4. OnWay' = OnWay /\ Once(fromPeer, AskMessages)'
  BY <1>2, <1>3, AskedKnown, Zenon DEF Put, OnWay, NoneTwice
<1>5. Fed' = Fed /\ InHand' = InHand /\ Queued' = Queued /\ Over' = Over
  BY <1>1 DEF Fed, InHand, Queued, Over
<1>6. NoneTwice'
  BY <1>1, <1>4, AskedKnown DEF NoneTwice
<1>7. Split(OnWay', Fed', Queued', InHand', Over', 1 .. Len(peer'.asked))
  BY <1>1, <1>4, <1>5, AskedKnown
<1> QED  BY <1>1, <1>2, <1>6, <1>7, AskedKnown, AskedBy

LEMMA AskedPeerStep ==
    ASSUME IInv, PeerCloses \/ (\E n \in peer.owes : PeerAnswers(n))
    PROVE  Asked'
<1>1. PICK m \in Messages : m.type \notin Asks /\ fromPeer' = Append(fromPeer, m)
  <2>1. CASE PeerCloses
    <3>1. Message("eof", 0) \in Messages /\ Message("eof", 0).type \notin Asks
      BY ChannelAssumption DEF Message, Messages
    <3> QED  BY <2>1, <3>1 DEF PeerCloses
  <2>2. ASSUME NEW n \in peer.owes, PeerAnswers(n)
        PROVE  \E m \in Messages : m.type \notin Asks /\ fromPeer' = Append(fromPeer, m)
    <3>1. n \in Nat
      BY DEF IInv, Around
    <3>2. Message("response", n) \in Messages /\ Message("response", n).type \notin Asks
      BY <3>1, ChannelAssumption DEF Message, Messages
    <3> QED  BY <2>2, <3>2 DEF PeerAnswers
  <2> QED  BY <2>1, <2>2
<1>2. UNCHANGED <<unpacker, stack, events, answered>> /\ peer'.asked = peer.asked
  BY DEF PeerCloses, PeerAnswers, OnlyPeer, history, IInv, Around
<1>3. fromPeer' \in Seq(Messages) /\ Put(fromPeer, fromPeer', m, AskMessages)
  <2>1. fromPeer' \in Seq(Messages)
    BY <1>1, AskedKnown
  <2>2. Put(fromPeer, Append(fromPeer, m), m, AskMessages)
    BY AskedKnown, PutIn
  <2> QED  BY <1>1, <2>1, <2>2
<1>4. m \notin AskMessages
  BY <1>1 DEF AskMessages
<1>5. OnWay' = OnWay /\ Once(fromPeer, AskMessages)'
  BY <1>3, <1>4, AskedKnown, Zenon DEF Put, OnWay, NoneTwice
<1>6. Fed' = Fed /\ InHand' = InHand /\ Queued' = Queued /\ Over' = Over
  BY <1>2 DEF Fed, InHand, Queued, Over
<1>7. NoneTwice'
  BY <1>2, <1>5, AskedKnown DEF NoneTwice
<1>8. Split(OnWay', Fed', Queued', InHand', Over', 1 .. Len(peer'.asked))
  BY <1>2, <1>5, <1>6, AskedKnown
<1> QED  BY <1>2, <1>3, <1>7, <1>8, AskedKnown, AskedBy

LEMMA AskedAsksStep ==
    ASSUME IInv, NEW type \in Asks, PeerAsks(type)
    PROVE  Asked'
<1> DEFINE k == Len(peer.asked) + 1
           m == Message(type, k)
<1>1. /\ UNCHANGED <<unpacker, stack, events, answered>> /\ fromPeer' = Append(fromPeer, m)
      /\ peer'.asked = Append(peer.asked, type) /\ Len(peer.asked) < MaxAsks
  BY DEF PeerAsks, OnlyPeer, history, IInv, Around
<1>2. /\ k \in Nat /\ Len(peer'.asked) = k /\ k <= MaxAsks
      /\ 1 .. k = 1 .. Len(peer.asked) \cup {k} /\ k \notin 1 .. Len(peer.asked)
  <2>1. peer.asked \in Seq(Asks) /\ Len(peer.asked) \in Nat /\ MaxAsks \in Nat
    BY AskedKnown, ChannelAssumption
  <2>2. Len(peer'.asked) = k
    BY <1>1, <2>1
  <2> QED  BY <1>1, <2>1, <2>2
<1> HIDE DEF k
<1>3. m \in Messages /\ m \in AskMessages /\ m.n = k
  BY <1>2 DEF Message, Messages, AskMessages
<1> HIDE DEF m
<1>4. fromPeer' \in Seq(Messages) /\ Put(fromPeer, fromPeer', m, AskMessages)
  <2>1. fromPeer' \in Seq(Messages)
    BY <1>1, <1>3, AskedKnown
  <2>2. Put(fromPeer, Append(fromPeer, m), m, AskMessages)
    BY AskedKnown, PutIn
  <2> QED  BY <1>1, <2>1, <2>2
<1>5. Split(OnWay, Fed, Queued, InHand, Over, 1 .. Len(peer.asked)) /\ NoneTwice
  BY AskedKnown
<1>6. k \notin OnWay \cup Fed \cup Queued \cup InHand \cup Over
  BY <1>2, <1>5 DEF Split
<1>7. OnWay' = OnWay \cup {k} /\ Once(fromPeer, AskMessages)'
  <2>1. k \notin OnWay
    BY <1>6
  <2> QED  BY <1>3, <1>4, <1>5, <2>1, Zenon DEF Put, OnWay, NoneTwice
<1>8. Fed' = Fed /\ InHand' = InHand /\ Queued' = Queued /\ Over' = Over
  BY <1>1 DEF Fed, InHand, Queued, Over
<1>9. NoneTwice'
  BY <1>1, <1>5, <1>7 DEF NoneTwice
<1>10. Split(OnWay', Fed', Queued', InHand', Over', 1 .. Len(peer'.asked))
  <2> DEFINE T == 1 .. Len(peer.asked)
  <2>1. 1 .. Len(peer'.asked) = T \cup {k}
    BY <1>2
  <2> HIDE DEF T
  <2>2. Split(OnWay, Fed, Queued, InHand, Over, T)
    BY <1>5 DEF T
  <2> QED  BY <1>6, <1>7, <1>8, <2>1, <2>2 DEF Split
<1> QED  BY <1>1, <1>2, <1>4, <1>9, <1>10, AskedKnown, AskedBy

LEMMA AskedHandleStep ==
    ASSUME IInv, Handle
    PROVE  Asked'
<1>1. PICK i \in 1 .. Len(events) :
        /\ events' = RemoveAt(events, i)
        /\ stack' = Push(IF events[i].home = "channel" THEN "handler" ELSE "async",
                         events[i].n)
  BY DEF Handle
<1>2. UNCHANGED <<fromPeer, unpacker, peer, answered>>
  BY DEF Handle, history
<1> DEFINE n == events[i].n
<1>3. /\ events \in Seq(Events) /\ events[i] \in Events /\ n \in Nat
      /\ Put(events', events, events[i], Events)
  <2>1. events \in Seq(Events)
    BY AskedKnown
  <2>2. events[i] \in Events
    BY <2>1
  <2>3. n \in Nat
    BY <2>2 DEF Events
  <2>4. Put(RemoveAt(events, i), events, events[i], Events)
    BY <2>1, TakenOut
  <2> QED  BY <1>1, <2>1, <2>2, <2>3, <2>4
<1>4. events' \in Seq(Events)
  BY <1>1, <1>3 DEF RemoveAt
<1>5. PICK f \in Handlers : f.n = n /\ stack' = <<f>> \o stack
  <2>1. CASE events[i].home = "channel"
    <3> DEFINE f == [kind |-> "handler", at |-> "check", n |-> n]
    <3>1. f \in Handlers /\ f.n = n
      BY <1>3 DEF Handlers, At
    <3> QED  BY <1>1, <2>1, <3>1 DEF Push
  <2>2. CASE events[i].home # "channel"
    <3> DEFINE f == [kind |-> "async", at |-> "check", n |-> n]
    <3>1. f \in Handlers /\ f.n = n
      BY <1>3 DEF Handlers, At
    <3> QED  BY <1>1, <2>2, <3>1 DEF Push
  <2> QED  BY <2>1, <2>2
<1>6. Put(stack, stack', f, Handlers)
  BY <1>5, AskedKnown, PutIn
<1> HIDE DEF n
<1>7. Split(OnWay, Fed, Queued, InHand, Over, 1 .. Len(peer.asked)) /\ NoneTwice
  BY AskedKnown
<1>8. Queued = Queued' \cup {n} /\ n \notin Queued' /\ Once(events, Events)'
  BY <1>3, <1>7, Zenon DEF Put, Queued, NoneTwice, n
<1>9. n \notin InHand
  BY <1>7, <1>8 DEF Split
<1>10. InHand' = InHand \cup {n} /\ Once(stack, Handlers)'
  BY <1>5, <1>6, <1>7, <1>9, Zenon DEF Put, InHand, NoneTwice
<1>11. OnWay' = OnWay /\ Fed' = Fed /\ Over' = Over
  BY <1>2 DEF OnWay, Fed, Over
<1>12. NoneTwice'
  BY <1>2, <1>7, <1>8, <1>10 DEF NoneTwice
<1>13. Split(OnWay', Fed', Queued', InHand', Over', 1 .. Len(peer'.asked))
  BY <1>2, <1>7, <1>8, <1>10, <1>11 DEF Split
<1> QED  BY <1>2, <1>4, <1>12, <1>13, AskedKnown, AskedBy

LEMMA AskedReturnsStep ==
    ASSUME IInv, HandlerReturns
    PROVE  Asked'
<1> DEFINE n == Top.n
<1>1. /\ UNCHANGED <<fromPeer, unpacker, events, peer>> /\ stack' = Tail(stack)
      /\ Top.kind \in {"handler", "async"} /\ answered' = Append(answered, n)
  BY DEF HandlerReturns
<1>2. Top \in Handlers
  BY <1>1, Known DEF Handlers, Places
<1>3. Put(stack', stack, Top, Handlers)
  BY <1>1, AskedKnown, TakenOut DEF Top
<1>4. Split(OnWay, Fed, Queued, InHand, Over, 1 .. Len(peer.asked)) /\ NoneTwice
  BY AskedKnown
<1>5. InHand = InHand' \cup {n} /\ n \notin InHand' /\ Once(stack, Handlers)'
  BY <1>2, <1>3, <1>4, Zenon DEF Put, InHand, NoneTwice
<1> HIDE DEF n
<1>6. n \in 1 .. MaxAsks /\ n \notin Over
  BY <1>4, <1>5, AskedKnown DEF Split
<1>7. /\ answered' \in Seq(1 .. MaxAsks) /\ Over' = Over \cup {n} /\ IsInjective(answered')
  <2>1. answered' \in Seq(1 .. MaxAsks)
    BY <1>1, <1>6, AskedKnown
  <2>2. /\ ToSet(answered') = ToSet(answered) \cup {n}
        /\ n \notin ToSet(answered) => IsInjective(answered')
    BY <1>1, <1>4, AskedKnown, AnsweredGrows DEF NoneTwice
  <2> QED  BY <1>6, <2>1, <2>2 DEF Over
<1>8. OnWay' = OnWay /\ Fed' = Fed /\ Queued' = Queued
  BY <1>1 DEF OnWay, Fed, Queued
<1>9. NoneTwice'
  BY <1>1, <1>4, <1>5, <1>7 DEF NoneTwice
<1>10. Split(OnWay', Fed', Queued', InHand', Over', 1 .. Len(peer'.asked))
  BY <1>1, <1>4, <1>5, <1>7, <1>8 DEF Split
<1> QED  BY <1>1, <1>7, <1>9, <1>10, AskedKnown, AskedBy

(* What has come is fed to the unpacker, the rest stays on its way. *)
LEMMA AskedReceiveStep ==
    ASSUME IInv, Receive
    PROVE  Asked'
<1>1. PICK k \in 1 .. Len(fromPeer) :
        /\ unpacker' = unpacker \o SubSeq(fromPeer, 1, k)
        /\ fromPeer' = SubSeq(fromPeer, k + 1, Len(fromPeer))
        /\ \E at \in At : stack' = <<ReceiveFrame>> \o StackTop(GoTo(at))
  BY DEF Receive, At
<1>2. UNCHANGED <<events, peer, answered>> /\ Top.kind \in {"main", "call"}
  BY DEF Receive, history, Polling, Waits
<1> DEFINE a == SubSeq(fromPeer, 1, k)
           b == SubSeq(fromPeer, k + 1, Len(fromPeer))
<1>3. /\ fromPeer \in Seq(Messages) /\ unpacker \in Seq(Messages)
      /\ Split(OnWay, Fed, Queued, InHand, Over, 1 .. Len(peer.asked)) /\ NoneTwice
  BY AskedKnown
<1>4. /\ a \in Seq(Messages) /\ b \in Seq(Messages) /\ fromPeer = a \o b
      /\ fromPeer' \in Seq(Messages) /\ unpacker' \in Seq(Messages)
  <2>1. /\ a \in Seq(Messages) /\ b \in Seq(Messages)
        /\ Len(a) = k /\ Len(b) = Len(fromPeer) - k
        /\ \A j \in 1 .. k : a[j] = fromPeer[j]
        /\ \A j \in 1 .. Len(fromPeer) - k : b[j] = fromPeer[k + j]
    BY <1>3
  <2> HIDE DEF a, b
  <2>2. fromPeer = a \o b
    <3> DEFINE c == a \o b
    <3>1. c \in Seq(Messages) /\ Len(c) = Len(fromPeer)
      <4>1. c \in Seq(Messages) /\ Len(c) = Len(a) + Len(b)
        BY <2>1
      <4>2. k + (Len(fromPeer) - k) = Len(fromPeer)
        BY <1>3
      <4> HIDE DEF c
      <4> QED  BY <2>1, <4>1, <4>2
    <3>2. ASSUME NEW j \in 1 .. Len(fromPeer) PROVE c[j] = fromPeer[j]
      <4>1. CASE j <= k
        BY <1>3, <2>1, <4>1
      <4>2. CASE j > k
        <5>1. j - k \in 1 .. Len(fromPeer) - k /\ k + (j - k) = j
          BY <1>3, <4>2
        <5>2. c[j] = b[j - k]
          BY <1>3, <2>1, <4>2, <5>1
        <5> QED  BY <2>1, <5>1, <5>2
      <4>3. j <= k \/ j > k
        OBVIOUS
      <4> QED  BY <4>1, <4>2, <4>3, Zenon
    <3> HIDE DEF c
    <3>3. c = fromPeer
      BY <1>3, <3>1, <3>2, SeqEqual
    <3> QED  BY <3>3 DEF c
  <2>3. unpacker' = unpacker \o a /\ fromPeer' = b
    BY <1>1 DEF a, b
  <2> QED  BY <1>3, <2>1, <2>2, <2>3
<1>5. unpacker' = unpacker \o a /\ fromPeer' = b
  BY <1>1
<1> HIDE DEF a, b
<1> DEFINE A == Numbers(a, AskMessages)
           B == Numbers(b, AskMessages)
<1>6. /\ Numbers(a \o b, AskMessages) = A \cup B
      /\ Once(a \o b, AskMessages)
           <=> Once(a, AskMessages) /\ Once(b, AskMessages) /\ A \cap B = {}
  BY <1>4, Joined
<1>7. /\ Numbers(unpacker \o a, AskMessages) = Numbers(unpacker, AskMessages) \cup A
      /\ Once(unpacker \o a, AskMessages)
           <=> /\ Once(unpacker, AskMessages) /\ Once(a, AskMessages)
               /\ Numbers(unpacker, AskMessages) \cap A = {}
  BY <1>3, <1>4, Joined
<1>8. /\ OnWay = A \cup B /\ A \cap B = {} /\ Once(a, AskMessages) /\ OnWay' = B
      /\ Once(fromPeer, AskMessages)'
  BY <1>3, <1>4, <1>5, <1>6, Zenon DEF OnWay, NoneTwice
<1> HIDE DEF A, B
<1>9. Fed \cap A = {}
  BY <1>3, <1>8 DEF Split
<1>10. Fed' = Fed \cup A /\ Once(unpacker, AskMessages)'
  BY <1>3, <1>5, <1>7, <1>8, <1>9, Zenon DEF Fed, NoneTwice, A
<1>11. InHand' = InHand /\ Once(stack, Handlers)'
  <2>1. PICK at \in At : stack' = <<ReceiveFrame>> \o (<<GoTo(at)>> \o Tail(stack))
    BY <1>1 DEF StackTop
  <2>2. GoTo(at) \in Places /\ GoTo(at).kind = Top.kind /\ ReceiveFrame.kind = "receive"
    BY Known DEF GoTo, Places, ReceiveFrame
  <2>3. Top \notin Handlers /\ GoTo(at) \notin Handlers /\ ReceiveFrame \notin Handlers
    BY <1>2, <2>2, NoHandler
  <2> QED  BY <2>1, <2>2, <2>3, HandlersStay
<1>12. Queued' = Queued /\ Over' = Over
  BY <1>2 DEF Queued, Over
<1>13. NoneTwice'
  BY <1>2, <1>3, <1>8, <1>10, <1>11 DEF NoneTwice
<1>14. Split(OnWay', Fed', Queued', InHand', Over', 1 .. Len(peer'.asked))
  BY <1>2, <1>3, <1>8, <1>10, <1>11, <1>12 DEF Split
<1> QED  BY <1>2, <1>4, <1>13, <1>14, AskedKnown, AskedBy

LEMMA AroundStep ==
    ASSUME IInv, Next
    PROVE  Around'
<1>1. /\ blocking \in BOOLEAN
      /\ peer \in [asked : Seq(Asks), closed : BOOLEAN, owes : SUBSET (1 .. MaxCalls),
                   heard : Seq(1 .. MaxNotes)]
      /\ made \in [notes : 0 .. MaxNotes, stops : 0 .. MaxStops, unended : BOOLEAN]
  BY DEF IInv, Around
<1>2. blocking' \in BOOLEAN
  BY <1>1 DEF Next, MainStep, Parse, Wait, FinishCall, Handle, HandlerReturns, EndDrain,
     EndPoll, ParseResponse, ParseDeferred, ParseImmediate, ParseInvalid, ParseFails,
     EndReceive,
     Block, WritesBreak, Receive, ReceiveEof, WriteDone, StreamClosed, Call, Notify,
     Stop, PeerReads,
     PeerCloses, PeerAsks, PeerAnswers, OnlyPeer
<1>3. made' \in [notes : 0 .. MaxNotes, stops : 0 .. MaxStops, unended : BOOLEAN]
  <2>1. CASE Notify
    <3> DEFINE k == made.notes + 1
    <3>1. made' = [made EXCEPT !.notes = k] /\ made.notes < MaxNotes
      BY <1>1, <2>1 DEF Notify
    <3>2. k \in 0 .. MaxNotes
      BY <1>1, <3>1, ChannelAssumption
    <3> HIDE DEF k
    <3> QED  BY <1>1, <3>1, <3>2
  <2>2. CASE Stop
    <3> DEFINE k == made.stops + 1
               u == made.unended \/ Waiting
    <3>1. made' = [made EXCEPT !.stops = k, !.unended = u] /\ made.stops < MaxStops
      BY <1>1, <2>2 DEF Stop
    <3>2. k \in 0 .. MaxStops /\ u \in BOOLEAN
      BY <1>1, <3>1, ChannelAssumption
    <3> HIDE DEF k, u
    <3> QED  BY <1>1, <3>1, <3>2
  <2>3. CASE Call
    <3> DEFINE c == Write([Incref(ch) EXCEPT !.next = @ + 1], Message("request", ch.next))
               u == made.unended \/ c.closed
    <3>1. made' = [made EXCEPT !.unended = u]
      BY <1>1, <2>3 DEF Call
    <3>2. u \in BOOLEAN
      BY <1>1
    <3> HIDE DEF u
    <3> QED  BY <1>1, <3>1, <3>2
  <2>4. CASE UNCHANGED made
    BY <1>1, <2>4
  <2> QED  BY <2>1, <2>2, <2>3, <2>4 DEF Next, MainStep, Parse, Wait, FinishCall, Handle,
     HandlerReturns, EndDrain, EndPoll, ParseResponse, ParseDeferred, ParseImmediate,
     ParseInvalid, ParseFails, EndReceive, Block, Receive, ReceiveEof, WriteDone,
     WritesBreak,
     StreamClosed, PeerReads, PeerCloses, PeerAsks, PeerAnswers, OnlyPeer, history
<1>4. peer' \in [asked : Seq(Asks), closed : BOOLEAN, owes : SUBSET (1 .. MaxCalls),
                 heard : Seq(1 .. MaxNotes)]
  <2>1. CASE PeerReads
    <3> DEFINE m == Head(ch.out)
               owes == IF m.type = "request" THEN peer.owes \cup {m.n} ELSE peer.owes
               heard == IF m.type = "note" THEN Append(peer.heard, m.n) ELSE peer.heard
    <3>1. peer' = [peer EXCEPT !.owes = owes, !.heard = heard] /\ ch.out # << >>
      BY <1>1, <2>1 DEF PeerReads
    <3>2. /\ m.type = "request" => m.n \in 1 .. MaxCalls
          /\ m.type = "note" => m.n \in 1 .. MaxNotes
      <4>1. OutKnown(ch.out, made.notes) /\ ch.out \in Seq(OutMessages)
        BY Known DEF IInv, Notes, Channels
      <4>2. 1 \in DOMAIN ch.out /\ m = ch.out[1]
        BY <3>1, <4>1
      <4>3. 1 .. made.notes \subseteq 1 .. MaxNotes
        BY <1>1, ChannelAssumption
      <4> HIDE DEF m
      <4> QED  BY <4>1, <4>2, <4>3 DEF OutKnown
    <3> HIDE DEF m
    <3>3. owes \in SUBSET (1 .. MaxCalls) /\ heard \in Seq(1 .. MaxNotes)
      <4>1. peer.owes \in SUBSET (1 .. MaxCalls) /\ peer.heard \in Seq(1 .. MaxNotes)
        BY <1>1
      <4>2. CASE m.type = "note"
        BY <3>2, <4>1, <4>2
      <4>3. CASE m.type = "request"
        BY <3>2, <4>1, <4>3
      <4>4. CASE m.type \notin {"note", "request"}
        BY <4>1, <4>4
      <4> QED  BY <4>2, <4>3, <4>4
    <3> HIDE DEF owes, heard
    <3> QED  BY <1>1, <3>1, <3>3
  <2>2. CASE PeerCloses
    BY <1>1, <2>2 DEF PeerCloses
  <2>3. ASSUME NEW type \in Asks, PeerAsks(type)
        PROVE  peer' \in [asked : Seq(Asks), closed : BOOLEAN, owes : SUBSET (1 .. MaxCalls),
                          heard : Seq(1 .. MaxNotes)]
    <3> DEFINE list == Append(peer.asked, type)
    <3>1. peer' = [peer EXCEPT !.asked = list] /\ list \in Seq(Asks)
      BY <1>1, <2>3 DEF PeerAsks
    <3> HIDE DEF list
    <3> QED  BY <1>1, <3>1
  <2>4. ASSUME NEW n \in peer.owes, PeerAnswers(n)
        PROVE  peer' \in [asked : Seq(Asks), closed : BOOLEAN, owes : SUBSET (1 .. MaxCalls),
                          heard : Seq(1 .. MaxNotes)]
    BY <1>1, <2>4 DEF PeerAnswers
  <2>5. CASE UNCHANGED peer
    BY <1>1, <2>5
  <2> QED  BY <2>1, <2>2, <2>3, <2>4, <2>5 DEF Next, MainStep, Parse, Wait, FinishCall,
              Handle,
     HandlerReturns, EndDrain, EndPoll, ParseResponse, ParseDeferred, ParseImmediate,
     ParseInvalid, ParseFails, EndReceive, Block, Receive, ReceiveEof, WriteDone,
     WritesBreak,
     StreamClosed, Call, Notify, Stop
<1> QED  BY <1>2, <1>3, <1>4 DEF Around
(***************************************************************************)
(* Every step keeps the invariant, and what it says.                       *)
(***************************************************************************)
LEMMA InitInvariant ==
    ASSUME Init
    PROVE  IInv
<1>1. Fit(ch)
  <2>1. 1 \in 1 .. MaxCalls + 1
    BY ChannelAssumption
  <2>2. << >> \in Seq(OutMessages) /\ << >> \in Seq(Frames) /\ << >> \in Seq(1 .. MaxNotes)
    OBVIOUS
  <2> QED  BY <2>1, <2>2 DEF Init, Fit, Channels
<1>2. Shape(stack) /\ Len(stack) = 1 /\ stack[1].kind = "main" /\ DOMAIN stack = {1}
  BY DEF Init, Shape, Places, At
<1>3. CallsOn(stack, 0)
  <2>1. CallDepths(stack) = {}
    BY <1>2 DEF CallDepths
  <2> QED  BY <2>1, FS_EmptySet DEF CallsOn
<1>4. Own(ch) = 0 /\ Len(events) = 0 /\ ch.pending = 0 /\ Len(ch.calls) = 0
  BY DEF Init, Own
<1>5. Held
  BY <1>1, <1>2, <1>3, <1>4 DEF Held, Answers
<1>6. Notes
  BY DEF Init, Notes, NotesInOrder, InOrder, OutKnown
<1>7. /\ OnWay = {} /\ Fed = {} /\ Queued = {} /\ InHand = {} /\ Over = {} /\ NoneTwice
  <2>1. \A K : Among(<< >>, K) = {}
    BY DEF Among
  <2>2. \A K : Numbers(<< >>, K) = {} /\ Once(<< >>, K)
    BY <2>1, Zenon DEF Numbers, Once
  <2>3. Among(stack, Handlers) = {}
    BY <1>2, NoHandler DEF Among
  <2>4. InHand = {} /\ Once(stack, Handlers)
    BY <2>3, Zenon DEF InHand, Numbers, Once
  <2>5. Over = {} /\ IsInjective(answered)
    BY DEF Init, Over, ToSet, IsInjective
  <2> QED  BY <2>2, <2>4, <2>5 DEF Init, OnWay, Fed, Queued, NoneTwice
<1>8. Split(OnWay, Fed, Queued, InHand, Over, 1 .. Len(peer.asked))
  <2>1. 1 .. Len(peer.asked) = {}
    BY DEF Init
  <2> QED  BY <1>7, <2>1 DEF Split
<1>9. Asked
  <2>1. /\ fromPeer \in Seq(Messages) /\ unpacker \in Seq(Messages)
           /\ events \in Seq(Events)
        /\ answered \in Seq(1 .. MaxAsks) /\ Len(peer.asked) <= MaxAsks
    BY ChannelAssumption DEF Init
  <2> QED  BY <1>7, <1>8, <2>1, OnceMeans DEF Asked
<1>10. Around
  <2>1. << >> \in Seq(Asks) /\ << >> \in Seq(1 .. MaxNotes) /\ 0 \in 0 .. MaxNotes
          /\ 0 \in 0 .. MaxStops
    BY ChannelAssumption
  <2> QED  BY <2>1 DEF Init, Around
<1> QED  BY <1>5, <1>6, <1>9, <1>10 DEF IInv

LEMMA NextInvariant ==
    ASSUME IInv, [Next]_vars
    PROVE  IInv'
<1>1. CASE UNCHANGED vars
  BY <1>1 DEF vars, history, IInv, Held, Notes, Asked, Around, NotesInOrder, EachAskOnce
<1>2. ASSUME Next PROVE Held' /\ Notes'
  BY <1>2, MovesStep, PeerStep, PeerReadsStep, StopStep, ReceiveEofStep, WriteDoneStep,
     WritesBreakStep, StreamClosedStep, ParseAnswersStep, ReceiveStep, HandleStep,
     ParseDeferredStep,
     HandlerReturnsStep, EndReceiveStep, ParseResponseStep, CallStep, FinishCallStep,
     NotifyStep DEF Next, MainStep, Parse
<1>3. ASSUME Next PROVE Asked'
  BY <1>3, ParseFailsTwoWays, AskedQuietStep, AskedResponseStep, AskedDeferredStep,
     AskedAnsweredStep,
     AskedEofStep, AskedPeerStep, AskedAsksStep, AskedHandleStep, AskedReturnsStep,
     AskedReceiveStep DEF Next, MainStep, Parse
<1> QED  BY <1>1, <1>2, <1>3, AroundStep DEF IInv

(* Every state of the channel and of its peer keeps the invariant. *)
THEOREM ChannelInvariant == Spec => []IInv
<1>1. Init => IInv
  BY InitInvariant
<1>2. IInv /\ [Next]_vars => IInv'
  BY NextInvariant
<1> QED  BY <1>1, <1>2, PTL DEF Spec

LEMMA HoldersCounted ==
    ASSUME IInv
    PROVE  /\ RefcountIsHolders /\ ch.refcount \in Nat /\ Holders \in Nat
<1>1. Holders = Len(stack) - 1 + Len(events) /\ Holders \in Nat
  <2>1. stack \in Seq(Places) /\ stack # << >>
    BY Known DEF Shape
  <2>2. Len(Front(stack)) = Len(stack) - 1 /\ Len(stack) >= 1
    <3>1. Len(stack) \in Nat /\ Len(stack) >= 1 /\ Len(stack) - 1 \in 0 .. Len(stack)
      BY <2>1
    <3>2. \A k \in 0 .. Len(stack) : Len(SubSeq(stack, 1, k)) = k
      BY <2>1, <3>1
    <3>3. Front(stack) = SubSeq(stack, 1, Len(stack) - 1)
      BY DEF Front
    <3> QED  BY <3>1, <3>2, <3>3
  <2> QED  BY <2>2, Known DEF Holders
<1>2. ch.refcount \in Int
  BY Known DEF Channels
<1>3. RefcountIsHolders
  BY <1>1, <1>2, Known DEF Own, RefcountIsHolders
<1> QED  BY <1>1, <1>2, <1>3 DEF RefcountIsHolders

(***************************************************************************)
(* The channel is allocated exactly as long as somebody holds it: its      *)
(* count is the number of the functions and the events that hold it, of    *)
(* the list of channels and of the stream, in every step of every caller.  *)
(***************************************************************************)
THEOREM ChannelIsHeld == Spec => []ChannelHeld
<1>1. IInv => ChannelHeld
  <2> SUFFICES ASSUME IInv PROVE ChannelHeld
    OBVIOUS
  <2>1. ch \in [refcount : Nat, closed : BOOLEAN,
               stream : {"open", "draining", "closing", "gone"}, writing : Nat,
               out : Seq([type : {"request", "note", "response"}, n : Nat]),
               next : 1 .. MaxCalls + 1, pending : Nat, calls : Seq(Frames),
               delayed : Seq(1 .. MaxNotes), broken : BOOLEAN]
    BY Known, HoldersCounted DEF Channels, OutMessages
  <2>2. TypeOK
    BY <2>1, Known, AskedKnown DEF TypeOK, IInv, Around, Shape
  <2> QED  BY <2>2, HoldersCounted DEF ChannelHeld
<1> QED  BY <1>1, ChannelInvariant, PTL

(* Notifications go out in the order they were made, those held back while *)
(* a call waits and those sent at once.                                    *)
THEOREM NotesStayInOrder == Spec => []NotesInOrder
<1>1. IInv => NotesInOrder
  BY DEF IInv, Notes
<1> QED  BY <1>1, ChannelInvariant, PTL

(* Every message of the peer's is in one place, once, from its sending to  *)
(* the end of its handling.                                                *)
THEOREM AsksAreOnce == Spec => []EachAskOnce
<1>1. IInv => EachAskOnce
  BY DEF IInv, Asked
<1> QED  BY <1>1, ChannelInvariant, PTL

(* A call that ends has the response to its own request, or the error of a *)
(* channel that failed.                                                    *)
THEOREM AnswersAreOwn == Spec => []OwnAnswer
<1>1. IInv => OwnAnswer
  BY DEF IInv, Held, Answers, OwnAnswer
<1> QED  BY <1>1, ChannelInvariant, PTL
==============================================================================

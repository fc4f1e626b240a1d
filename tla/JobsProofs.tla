------------------------------ MODULE JobsProofs ------------------------------
(***************************************************************************)
(* Proofs about Jobs, for any jobs and lists of them, any output, any room *)
(* and any number of calls: references are counted, handles closed once,   *)
(* the exit callback comes last, and nothing that is freed is used.        *)
(***************************************************************************)
EXTENDS Jobs, FiniteSetTheorems, SequenceTheorems, TLAPS

-----------------------------------------------------------------------------
(***************************************************************************)
(* The types.                                                              *)
(***************************************************************************)
InList == {"settle", "until", "until2", "once", "finish", "final", "gone", "restore"}
Steps == {"begin", "pick", "clear", "visit"} \cup InList

JobType ==
    [refs : Nat, in : {"none", "open", "closing", "closed"},
     out : {"none", "open", "waiting", "closing", "closed"},
     handle : {"none", "open", "closing", "closed"},
     reads : Nat, wrote : Nat, stopped : BOOLEAN, jobStopped : BOOLEAN, cut : BOOLEAN,
     killed : BOOLEAN, data : {"none", "live", "leaving", "freed"},
     parent : 0 .. MaxCalls, statusPtr : 0 .. MaxCalls]

FrameType ==
    [op : {"main"}] \cup [op : {"read", "exit"}, proc : Procs]
      \cup [op : {"flush"}, proc : Procs, step : {"poll", "drain"}, mark : Int, limit : Int]
      \cup [op : {"sleep"}, draining : BOOLEAN]
      \cup [op : {"wait"}, id : 1 .. MaxCalls, list : Lists, i : Nat \ {0}, step : Steps,
            draining : BOOLEAN, forever : BOOLEAN, intr : BOOLEAN]

EventType == [proc : Procs, what : {"read", "close", "exit"}]

Typed ==
    /\ os \in [Procs -> {"none", "running", "zombie", "reaped"}]
    /\ sigchld \in Nat /\ stopRequests \in Nat /\ calls \in 0 .. MaxCalls
    /\ pipe \in [Procs -> Nat] /\ \A p \in Procs : pipe[p] <= MaxOutput[p]
    /\ job \in [Procs -> JobType]
    /\ events \in Seq(EventType)
    /\ stack \in Seq(FrameType)
    /\ polling \in BOOLEAN /\ gotInt \in BOOLEAN

(***************************************************************************)
(* The stack: waits are numbered as they come; below another frame is one  *)
(* that processes events, and what it processes is above it.               *)
(***************************************************************************)
Callback(f, p) == f.op \in {"read", "exit", "flush"} /\ f.proc = p
Narrow(f) == f.op = "wait" /\ f.step \in {"settle", "restore", "gone"}
OfWait(f, id) == f.op = "wait" /\ f.id = id

Shape ==
    /\ Len(stack) > 0 /\ stack[1].op = "main"
    /\ \A n \in 2 .. Len(stack) : stack[n].op # "main"
    /\ \A n \in 1 .. Len(stack) : stack[n].op = "wait" =>
         /\ stack[n].id <= calls
         /\ stack[n].step \in InList => stack[n].i <= Len(stack[n].list)
    /\ \A n \in 1 .. Len(stack) : \A m \in 1 .. n - 1 :
         stack[m].op = "wait" /\ stack[n].op = "wait" => stack[m].id < stack[n].id

Polls == polling => Waiting(Top)

Above ==
    \A n \in 1 .. Len(stack) - 1 :
      /\ stack[n].op = "flush" =>
           stack[n].step = "drain" /\ Callback(stack[n + 1], stack[n].proc)
      /\ Narrow(stack[n]) => Callback(stack[n + 1], stack[n].list[stack[n].i])

(* What the wait on top uses without a reference is there. *)
TopUses == Narrow(Top) => Known(Top.list[Top.i])

(***************************************************************************)
(* What is counted: the events of a process, its callbacks, the waits for  *)
(* it.                                                                     *)
(***************************************************************************)
Places(s, S, n) == {k \in 1 .. n : s[k] \in S}
Upto(s, S, n) == Cardinality(Places(s, S, n))
Count(s, S) == Upto(s, S, Len(s))

Queued(p, what) == Count(events, {Event(p, what)})

Callbacks(p, op) == {f \in FrameType : f.op = op /\ f.proc = p}
Drains(p) == {f \in Callbacks(p, "flush") : f.step = "drain"}
Shorts(p) == {f \in Callbacks(p, "flush") : f.limit < Room + Flushes}
Holders(p) == {f \in FrameType : Holds(f, p)}
Running(p, op) == Count(stack, Callbacks(p, op))
Draining(p) == Count(stack, Drains(p))
Shortened(p) == Count(stack, Shorts(p))
Holding(p) == Count(stack, Holders(p))

(* After each close event of p in s come at most n read events. *)
ReadsAfter(s, p, c) == {k \in c + 1 .. Len(s) : s[k] = Event(p, "read")}
AtMost(s, p, n) ==
    \A c \in 1 .. Len(s) : s[c] = Event(p, "close") => Cardinality(ReadsAfter(s, p, c)) <= n

(***************************************************************************)
(* A process.                                                              *)
(***************************************************************************)
One(s) == IF s \in {"none", "closed"} THEN 0 ELSE 1
HandlesOf(j) == One(j.in) + One(j.out) + One(j.handle)

Referenced(p) == job[p].refs = HandlesOf(job[p]) + Holding(p)

Alive(p) ==
    /\ os[p] = "none" <=> job[p].data = "none"
    /\ job[p].data = "none" => job[p] = NewJob /\ pipe[p] = 0
    /\ job[p].data = "freed" => job[p] = [NewJob EXCEPT !.data = "freed"]
    /\ job[p].refs > 0 => job[p].data = "live"
    /\ job[p].data = "live" => /\ job[p].handle # "none"
                               /\ pipe[p] + job[p].reads <= job[p].wrote
    /\ job[p].wrote <= MaxOutput[p]
    /\ os[p] \in {"running", "zombie"} => job[p].handle = "open"

(* A stream with events is not closed. *)
Reading(p) ==
    /\ job[p].reads = Queued(p, "read") + Running(p, "read")
    /\ job[p].reads > 0 => job[p].out \in {"open", "waiting"}

(* The events and callbacks that come once. *)
Closes(p) ==
    LET n == Queued(p, "close") + Running(p, "flush")
    IN  n = 0 \/ (n = 1 /\ os[p] = "reaped" /\ job[p].handle = "open")

Exits(p) ==
    Queued(p, "exit") + Running(p, "exit") =
      IF job[p].data = "live" /\ job[p].refs = 0 THEN 1 ELSE 0

(* The output that comes after the process was reaped.  The poll of        *)
(* flush_stream takes what there is room for, once the events from before  *)
(* are handled; a full buffer came before, and a system buffer comes then, *)
(* if it ends at its limit.                                                *)
Lost(p) == job[p].cut \/ pipe[p] = 0
Drained(p) == Lost(p) \/ job[p].wrote > Room + Flushes

Output(p) ==
    /\ job[p].handle = "open" => job[p].cut \/ job[p].out = "open"
    /\ Lost(p) \/ AtMost(events, p, Arrived(p) - Room)
    /\ Running(p, "flush") > 0 => Lost(p) \/ Queued(p, "read") <= Arrived(p) - Room
    /\ job[p].handle \in {"closing", "closed"} => Drained(p)
    /\ Draining(p) > 0 => Drained(p)
    /\ Shortened(p) > 0 => Lost(p)

Whole(p) == Referenced(p) /\ Alive(p) /\ Reading(p) /\ Closes(p) /\ Exits(p) /\ Output(p)

(***************************************************************************)
(* The counters, and what waits leave in jobs.                             *)
(***************************************************************************)
Counters ==
    /\ stopRequests >= Cardinality({p \in Procs : job[p].stopped /\ os[p] \in {"running", "zombie"}})
    /\ stopRequests <= Cardinality({p \in Procs : job[p].stopped \/ job[p].data = "freed"})
    /\ sigchld <= Cardinality({p \in Procs : os[p] \in {"zombie", "reaped"}})

(* The wait f has the job p under its queue. *)
HasMoved(f, p) ==
    \E k \in 1 .. Len(f.list) :
      /\ f.list[k] = p
      /\ f.step \in {"begin", "settle"} => k < f.i
      /\ f.step \in {"visit", "restore"} => k >= f.i

(* It may have set the status pointer of p, and not cleared it. *)
MayPoint(f, p) == Contains(f.list, p) /\ f.step \notin {"visit", "restore"}

Parents ==
    \A p \in Procs : job[p].parent # Main =>
      \E n \in 1 .. Len(stack) : OfWait(stack[n], job[p].parent) /\ HasMoved(stack[n], p)

Pointers ==
    \A p \in Procs : FindJob(p) /\ job[p].statusPtr # None =>
      \E n \in 1 .. Len(stack) : OfWait(stack[n], job[p].statusPtr) /\ MayPoint(stack[n], p)

IInv == /\ Typed /\ Shape /\ Polls /\ Above /\ TopUses /\ \A p \in Procs : Whole(p)
        /\ Counters /\ Parents /\ Pointers

-----------------------------------------------------------------------------
(***************************************************************************)
(* Counting in sequences.                                                  *)
(***************************************************************************)
In(x, S) == IF x \in S THEN 1 ELSE 0

LEMMA UptoNat ==
    ASSUME NEW s, NEW S, NEW n \in Nat
    PROVE  /\ IsFiniteSet(Places(s, S, n)) /\ Upto(s, S, n) \in Nat
           /\ Upto(s, S, n) = 0 <=> \A k \in 1 .. n : s[k] \notin S
<1>1. IsFiniteSet(Places(s, S, n))
  <2>1. IsFiniteSet(1 .. n) /\ Places(s, S, n) \in SUBSET (1 .. n)
    BY FS_Interval DEF Places
  <2> QED  BY <2>1, FS_Subset
<1>2. Upto(s, S, n) \in Nat
  BY <1>1, FS_CardinalityType DEF Upto
<1>3. Upto(s, S, n) = 0 <=> Places(s, S, n) = {}
  BY <1>1, FS_EmptySet DEF Upto
<1>4. Places(s, S, n) = {} <=> \A k \in 1 .. n : s[k] \notin S
  BY DEF Places
<1> QED  BY <1>1, <1>2, <1>3, <1>4

(* One more place. *)
LEMMA UptoMore ==
    ASSUME NEW s, NEW S, NEW n \in Nat
    PROVE  Upto(s, S, n + 1) = Upto(s, S, n) + In(s[n + 1], S)
<1>1. IsFiniteSet(Places(s, S, n))
  BY UptoNat
<1>2. n + 1 \notin Places(s, S, n)
  BY DEF Places
<1>3. CASE s[n + 1] \in S
  <2>1. Places(s, S, n + 1) = Places(s, S, n) \cup {n + 1}
    BY <1>3 DEF Places
  <2>2. Cardinality(Places(s, S, n) \cup {n + 1}) = Cardinality(Places(s, S, n)) + 1
    BY <1>1, <1>2, FS_AddElement
  <2> QED  BY <1>3, <2>1, <2>2 DEF Upto, In
<1>4. CASE s[n + 1] \notin S
  <2>1. Places(s, S, n + 1) = Places(s, S, n)
    BY <1>4 DEF Places
  <2>2. Upto(s, S, n) \in Nat
    BY UptoNat
  <2> QED  BY <1>4, <2>1, <2>2 DEF Upto, In
<1> QED  BY <1>3, <1>4

LEMMA UptoAlike ==
    ASSUME NEW s, NEW t, NEW S, NEW n \in Nat, \A k \in 1 .. n : s[k] \in S <=> t[k] \in S
    PROVE  Upto(s, S, n) = Upto(t, S, n)
<1>1. Places(s, S, n) = Places(t, S, n)
  BY DEF Places
<1> QED  BY <1>1 DEF Upto

(* t is u without its place i; t is u and m places more. *)
Removed(u, t, i) ==
    /\ Len(u) \in Nat /\ i \in 1 .. Len(u) /\ Len(t) = Len(u) - 1
    /\ \A k \in 1 .. i - 1 : t[k] = u[k]
    /\ \A k \in i .. Len(u) - 1 : t[k] = u[k + 1]

Extended(u, t, m) ==
    /\ Len(u) \in Nat /\ m \in Nat /\ Len(t) = Len(u) + m
    /\ \A k \in 1 .. Len(u) : t[k] = u[k]

LEMMA CountLess ==
    ASSUME NEW u, NEW t, NEW i, Removed(u, t, i), NEW S
    PROVE  Count(u, S) = Count(t, S) + In(u[i], S)
<1> DEFINE n == Len(u)
           P == Places(t, S, n - 1)
           Q == Places(u, S, n) \ {i}
           f == [k \in P |-> IF k < i THEN k ELSE k + 1]
<1>1. /\ n \in Nat /\ i \in 1 .. n /\ n - 1 \in Nat /\ Len(t) = n - 1
      /\ \A k \in 1 .. i - 1 : t[k] = u[k]
      /\ \A k \in i .. n - 1 : t[k] = u[k + 1]
  BY DEF Removed
<1> HIDE DEF n
<1>2. IsFiniteSet(P) /\ IsFiniteSet(Places(u, S, n))
  BY <1>1, UptoNat
<1>3. f \in Bijection(P, Q)
  <2>1. \A k \in P : f[k] \in Q
    BY <1>1 DEF Places
  <2>2. \A k, l \in P : f[k] = f[l] => k = l
    BY <1>1 DEF Places
  <2>3. ASSUME NEW l \in Q
        PROVE  \E k \in P : f[k] = l
    <3>1. l \in 1 .. n /\ l # i /\ u[l] \in S
      BY DEF Places
    <3>2. CASE l < i
      <4>1. l \in P /\ f[l] = l
        BY <1>1, <3>1, <3>2 DEF Places
      <4> QED  BY <4>1
    <3>3. CASE l > i
      <4>1. l - 1 \in i .. n - 1 /\ (l - 1) + 1 = l
        BY <1>1, <3>1, <3>3
      <4>2. t[l - 1] = u[l]
        BY <1>1, <4>1
      <4>3. l - 1 \in P /\ f[l - 1] = l
        BY <1>1, <3>1, <3>3, <4>1, <4>2 DEF Places
      <4> QED  BY <4>3
    <3> QED  BY <1>1, <3>1, <3>2, <3>3
  <2>4. f \in [P -> Q]
    BY <2>1
  <2> HIDE DEF f, P, Q
  <2>5. f \in Injection(P, Q)
    BY <2>2, <2>4 DEF Injection, IsInjective
  <2>6. f \in Surjection(P, Q)
    BY <2>3, <2>4 DEF Surjection
  <2> QED  BY <2>5, <2>6 DEF Bijection
<1>4. Cardinality(Q) = Cardinality(P)
  <2> HIDE DEF f, P, Q
  <2>1. ExistsBijection(P, Q)
    BY <1>3 DEF ExistsBijection
  <2> QED  BY <1>2, <2>1, FS_Bijection
<1>5. Cardinality(Q) = IF i \in Places(u, S, n) THEN Cardinality(Places(u, S, n)) - 1
                       ELSE Cardinality(Places(u, S, n))
  BY <1>2, FS_RemoveElement
<1>6. i \in Places(u, S, n) <=> u[i] \in S
  BY <1>1 DEF Places
<1>7. Upto(u, S, n) \in Nat /\ Upto(t, S, n - 1) \in Nat
  BY <1>1, <1>2, UptoNat
<1>8. Count(u, S) = Upto(u, S, n) /\ Count(t, S) = Upto(t, S, n - 1)
  BY <1>1 DEF Count, n
<1> QED  BY <1>4, <1>5, <1>6, <1>7, <1>8 DEF Upto, In

(* At most one of the places that are added is in S. *)
LEMMA CountAdded ==
    ASSUME NEW u, NEW t, NEW m, Extended(u, t, m), NEW S,
           \A j, k \in 1 .. m : t[Len(u) + j] \in S /\ t[Len(u) + k] \in S => j = k
    PROVE  Count(t, S) =
             Count(u, S) + (IF \E j \in 1 .. m : t[Len(u) + j] \in S THEN 1 ELSE 0)
<1> DEFINE n == Len(u)
<1>1. /\ n \in Nat /\ m \in Nat /\ Len(t) = n + m
      /\ \A k \in 1 .. n : t[k] = u[k]
      /\ \A j, k \in 1 .. m : t[n + j] \in S /\ t[n + k] \in S => j = k
  BY DEF Extended
<1> SUFFICES Upto(t, S, n + m) =
               Upto(u, S, n) + (IF \E j \in 1 .. m : t[n + j] \in S THEN 1 ELSE 0)
  BY <1>1 DEF Count
<1> HIDE DEF n
<1>2. IsFiniteSet(Places(u, S, n)) /\ Upto(u, S, n) \in Nat
  BY <1>1, UptoNat
<1>3. CASE \E j \in 1 .. m : t[n + j] \in S
  <2>1. PICK j \in 1 .. m : t[n + j] \in S
    BY <1>3
  <2>2. Places(t, S, n + m) = Places(u, S, n) \cup {n + j}
    <3>1. ASSUME NEW k \in 1 .. n + m, t[k] \in S, k > n
          PROVE  k = n + j
      <4>1. k - n \in 1 .. m /\ n + (k - n) = k
        BY <1>1, <3>1
      <4>2. k - n = j
        BY <1>1, <2>1, <3>1, <4>1
      <4> QED  BY <4>1, <4>2
    <3>2. n + j \in 1 .. n + m
      BY <1>1
    <3> QED  BY <1>1, <2>1, <3>1, <3>2 DEF Places
  <2>3. n + j \notin Places(u, S, n)
    BY <1>1 DEF Places
  <2> QED  BY <1>2, <1>3, <2>2, <2>3, FS_AddElement DEF Upto
<1>4. CASE ~\E j \in 1 .. m : t[n + j] \in S
  <2>1. \A k \in 1 .. n + m : k > n => t[k] \notin S
    <3> SUFFICES ASSUME NEW k \in 1 .. n + m, k > n
                 PROVE  t[k] \notin S
      OBVIOUS
    <3>1. k - n \in 1 .. m /\ n + (k - n) = k
      BY <1>1
    <3> QED  BY <1>4, <3>1
  <2>2. Places(t, S, n + m) = Places(u, S, n)
    BY <1>1, <2>1 DEF Places
  <2> QED  BY <1>2, <1>4, <2>2 DEF Upto
<1> QED  BY <1>3, <1>4

-----------------------------------------------------------------------------
(***************************************************************************)
(* Frames of the stack.                                                    *)
(***************************************************************************)
LEMMA FrameKinds ==
    ASSUME NEW f \in FrameType
    PROVE  /\ f.op \in {"main", "read", "exit", "flush", "wait", "sleep"}
           /\ f.op \in {"read", "exit", "flush"} => f.proc \in Procs
           /\ f.op = "flush" => f.step \in {"poll", "drain"} /\ f.limit \in Int
           /\ f.op = "wait" =>
                /\ f.id \in 1 .. MaxCalls /\ f.list \in Lists /\ f.i \in Nat \ {0}
                /\ f.step \in Steps
                /\ f \in [op : {"wait"}, id : 1 .. MaxCalls, list : Lists, i : Nat \ {0},
                          step : Steps, draining : BOOLEAN, forever : BOOLEAN,
                          intr : BOOLEAN]
BY DEF FrameType

(* A wait that goes on. *)
LEMMA WaitGoes ==
    ASSUME NEW f \in FrameType, f.op = "wait", NEW s \in Steps, NEW d \in BOOLEAN,
           NEW k \in Nat \ {0}, NEW r \in BOOLEAN
    PROVE  LET g == [f EXCEPT !.step = s, !.draining = d, !.i = k, !.intr = r]
           IN  /\ g \in FrameType /\ g.op = "wait" /\ g.id = f.id /\ g.list = f.list
               /\ g.step = s /\ g.i = k
BY FrameKinds DEF FrameType

LEMMA Listed ==
    ASSUME NEW l \in Lists
    PROVE  Len(l) \in Nat \ {0} /\ \A k \in 1 .. Len(l) : l[k] \in Procs
BY JobsAssumption

LEMMA TopFacts ==
    ASSUME Typed, Shape
    PROVE  /\ Len(stack) \in Nat \ {0} /\ Top \in FrameType /\ Top = stack[Len(stack)]
           /\ Below \in Seq(FrameType) /\ Len(Below) = Len(stack) - 1
           /\ \A n \in 1 .. Len(stack) - 1 : Below[n] = stack[n]
<1>1. stack \in Seq(FrameType) /\ Len(stack) \in Nat \ {0}
  BY DEF Typed, Shape
<1>2. Top \in FrameType /\ Top = stack[Len(stack)]
  BY <1>1 DEF Top
<1>3. /\ Below \in Seq(FrameType) /\ Len(Below) = Len(stack) - 1
      /\ \A n \in 1 .. Len(stack) - 1 : Below[n] = stack[n]
  <2>1. \A n \in 1 .. Len(stack) - 1 : stack[n] \in FrameType
    BY <1>1
  <2>2. Len(stack) - 1 \in Int /\ 1 \in Int
    BY <1>1
  <2>3. /\ Below \in Seq(FrameType)
        /\ Len(Below) = IF 1 <= Len(stack) - 1 THEN (Len(stack) - 1) - 1 + 1 ELSE 0
        /\ \A i \in 1 .. (Len(stack) - 1) - 1 + 1 : Below[i] = stack[1 + i - 1]
    BY <2>1, <2>2, SubSeqProperties DEF Below
  <2> HIDE DEF Below
  <2>4. Len(Below) = Len(stack) - 1
    <3>1. \A l \in Nat \ {0} : (IF 1 <= l - 1 THEN (l - 1) - 1 + 1 ELSE 0) = l - 1
      OBVIOUS
    <3>2. Len(Below) = IF 1 <= Len(stack) - 1 THEN (Len(stack) - 1) - 1 + 1 ELSE 0
      BY <2>3
    <3> QED  BY <1>1, <3>1, <3>2
  <2>5. ASSUME NEW n \in 1 .. Len(stack) - 1
        PROVE  Below[n] = stack[n]
    <3>1. n \in 1 .. (Len(stack) - 1) - 1 + 1 /\ 1 + n - 1 = n
      BY <1>1
    <3> QED  BY <2>3, <3>1
  <2> QED  BY <2>3, <2>4, <2>5
<1> QED  BY <1>1, <1>2, <1>3

LEMMA NowFacts ==
    ASSUME Typed, Shape, NEW g \in FrameType
    PROVE  /\ Now(g) \in Seq(FrameType) /\ Len(Now(g)) = Len(stack)
           /\ \A n \in 1 .. Len(stack) - 1 : Now(g)[n] = stack[n]
           /\ Now(g)[Len(stack)] = g
<1>1. Below \in Seq(FrameType) /\ Len(Below) = Len(stack) - 1 /\ Len(stack) \in Nat \ {0}
  BY TopFacts
<1>2. \A n \in 1 .. Len(stack) - 1 : Below[n] = stack[n]
  BY TopFacts
<1> HIDE DEF Below
<1> QED  BY <1>1, <1>2 DEF Now

(* The three ways the stack changes. *)
Tops(g) == /\ Len(stack') = Len(stack) /\ g \in FrameType /\ stack' \in Seq(FrameType)
           /\ \A n \in 1 .. Len(stack) - 1 : stack'[n] = stack[n]
           /\ stack'[Len(stack)] = g /\ Top' = g

Pushes(f, g) ==
    /\ Len(stack') = Len(stack) + 1 /\ f \in FrameType /\ g \in FrameType
    /\ stack' \in Seq(FrameType)
    /\ \A n \in 1 .. Len(stack) - 1 : stack'[n] = stack[n]
    /\ stack'[Len(stack)] = f /\ stack'[Len(stack) + 1] = g /\ Top' = g

Pops == /\ Len(stack) > 1 /\ Len(stack') = Len(stack) - 1 /\ stack' \in Seq(FrameType)
        /\ \A n \in 1 .. Len(stack) - 1 : stack'[n] = stack[n]
        /\ Top' = stack[Len(stack) - 1]

LEMMA TopsBy ==
    ASSUME Typed, Shape, NEW g \in FrameType, stack' = Now(g)
    PROVE  Tops(g)
<1>1. Len(stack) \in Nat \ {0}
  BY TopFacts
<1> QED  BY <1>1, NowFacts DEF Tops, Top

LEMMA PushesBy ==
    ASSUME Typed, Shape, NEW f \in FrameType, NEW g \in FrameType,
           stack' = Append(Now(f), g)
    PROVE  Pushes(f, g)
<1>1. Len(stack) \in Nat \ {0}
  BY TopFacts
<1>2. ASSUME NEW s \in Seq(FrameType), Len(s) = Len(stack), stack' = Append(s, g)
      PROVE  /\ Len(stack') = Len(stack) + 1 /\ stack' \in Seq(FrameType)
             /\ \A n \in 1 .. Len(stack) : stack'[n] = s[n]
             /\ stack'[Len(stack) + 1] = g
  BY <1>1, <1>2
<1>3. /\ Now(f) \in Seq(FrameType) /\ Len(Now(f)) = Len(stack)
      /\ \A n \in 1 .. Len(stack) - 1 : Now(f)[n] = stack[n]
      /\ Now(f)[Len(stack)] = f
  BY NowFacts
<1> HIDE DEF Now
<1>4. /\ Len(stack') = Len(stack) + 1 /\ stack' \in Seq(FrameType)
      /\ \A n \in 1 .. Len(stack) : stack'[n] = Now(f)[n]
      /\ stack'[Len(stack) + 1] = g
  BY <1>2, <1>3
<1> QED  BY <1>1, <1>3, <1>4 DEF Pushes, Top

LEMMA PushesOne ==
    ASSUME Typed, Shape, NEW g \in FrameType, stack' = Append(stack, g)
    PROVE  Pushes(Top, g)
<1>1. Len(stack) \in Nat \ {0} /\ stack \in Seq(FrameType)
  BY TopFacts DEF Typed
<1>2. /\ Len(stack') = Len(stack) + 1 /\ stack' \in Seq(FrameType)
      /\ \A n \in 1 .. Len(stack) : stack'[n] = stack[n]
      /\ stack'[Len(stack) + 1] = g
  BY <1>1
<1> QED  BY <1>1, <1>2, TopFacts DEF Pushes, Top

LEMMA PopsBy ==
    ASSUME Typed, Shape, stack' = Below, Top.op # "main"
    PROVE  Pops
<1>1. Len(stack) \in Nat \ {0} /\ Len(stack) # 1
  BY TopFacts DEF Shape, Top
<1> QED  BY <1>1, TopFacts DEF Pops, Top

(* The wait on top goes on at step s with its entry k. *)
GoesTo(s, k) ==
    \E g \in FrameType :
      /\ Tops(g) /\ Top.op = "wait" /\ g.op = "wait" /\ g.id = Top.id /\ g.list = Top.list
      /\ g.step = s /\ g.i = k /\ s \in Steps /\ k \in Nat \ {0}

LEMMA GoesToBy ==
    ASSUME Typed, Shape, Top.op = "wait", NEW s \in Steps, NEW k \in Nat \ {0},
           NEW d \in BOOLEAN, NEW r \in BOOLEAN,
           stack' = Now([Top EXCEPT !.step = s, !.draining = d, !.i = k, !.intr = r])
    PROVE  GoesTo(s, k)
<1> DEFINE g == [Top EXCEPT !.step = s, !.draining = d, !.i = k, !.intr = r]
<1>1. /\ g \in FrameType /\ g.op = "wait" /\ g.id = Top.id /\ g.list = Top.list
      /\ g.step = s /\ g.i = k
  <2>1. Top \in FrameType
    BY TopFacts
  <2> HIDE DEF Top, Now
  <2>2. g \in FrameType
    BY <2>1, WaitGoes
  <2>3. g.op = "wait" /\ g.id = Top.id /\ g.list = Top.list /\ g.step = s /\ g.i = k
    <3>1. Top \in [op : {"wait"}, id : 1 .. MaxCalls, list : Lists, i : Nat \ {0},
                   step : Steps, draining : BOOLEAN, forever : BOOLEAN, intr : BOOLEAN]
      BY <2>1, FrameKinds
    <3> QED  BY <3>1
  <2> QED  BY <2>2, <2>3
<1>2. Tops(g)
  BY <1>1, TopsBy
<1> HIDE DEF g
<1> QED  BY <1>1, <1>2 DEF GoesTo

(* What a wait is made to look like by the steps of the specification. *)
LEMMA WaitFields ==
    ASSUME NEW f \in FrameType, f.op = "wait"
    PROVE  /\ f.step \in Steps /\ f.i \in Nat \ {0} /\ f.i + 1 \in Nat \ {0}
           /\ f.draining \in BOOLEAN /\ f.intr \in BOOLEAN
           /\ [f EXCEPT !.i = @ + 1] =
                 [f EXCEPT !.step = f.step, !.draining = f.draining, !.i = f.i + 1,
                           !.intr = f.intr]
           /\ \A d \in BOOLEAN : [f EXCEPT !.draining = d] =
                 [f EXCEPT !.step = f.step, !.draining = d, !.i = f.i, !.intr = f.intr]
<1>1. f \in [op : {"wait"}, id : 1 .. MaxCalls, list : Lists, i : Nat \ {0},
             step : Steps, draining : BOOLEAN, forever : BOOLEAN, intr : BOOLEAN]
  BY FrameKinds
<1>2. /\ f.step \in Steps /\ f.i \in Nat \ {0} /\ f.i + 1 \in Nat \ {0}
      /\ f.draining \in BOOLEAN /\ f.intr \in BOOLEAN
  BY <1>1
<1>3. [f EXCEPT !.i = @ + 1] =
        [f EXCEPT !.step = f.step, !.draining = f.draining, !.i = f.i + 1, !.intr = f.intr]
  BY <1>1
<1>4. ASSUME NEW d \in BOOLEAN
      PROVE  [f EXCEPT !.draining = d] =
               [f EXCEPT !.step = f.step, !.draining = d, !.i = f.i, !.intr = f.intr]
  BY <1>1
<1> QED  BY <1>2, <1>3, <1>4

LEMMA WaitGoesOn ==
    ASSUME NEW f \in FrameType, f.op = "wait", NEW s \in Steps
    PROVE  /\ Goes(f, s) =
                [f EXCEPT !.step = s, !.draining = FALSE, !.i = f.i, !.intr = f.intr]
           /\ Next1(f, s) =
                [f EXCEPT !.step = s, !.draining = FALSE, !.i = f.i + 1, !.intr = f.intr]
           /\ [Goes(f, s) EXCEPT !.i = 1] =
                [f EXCEPT !.step = s, !.draining = FALSE, !.i = 1, !.intr = f.intr]
           /\ [Goes(f, s) EXCEPT !.intr = TRUE] =
                [f EXCEPT !.step = s, !.draining = FALSE, !.i = f.i, !.intr = TRUE]
<1>1. f \in [op : {"wait"}, id : 1 .. MaxCalls, list : Lists, i : Nat \ {0},
             step : Steps, draining : BOOLEAN, forever : BOOLEAN, intr : BOOLEAN]
  BY FrameKinds
<1>2. Goes(f, s) = [f EXCEPT !.step = s, !.draining = FALSE, !.i = f.i, !.intr = f.intr]
  BY <1>1 DEF Goes
<1>3. Next1(f, s) = [f EXCEPT !.step = s, !.draining = FALSE, !.i = f.i + 1, !.intr = f.intr]
  BY <1>1 DEF Goes, Next1
<1>4. [Goes(f, s) EXCEPT !.i = 1] =
        [f EXCEPT !.step = s, !.draining = FALSE, !.i = 1, !.intr = f.intr]
  BY <1>1 DEF Goes
<1>5. [Goes(f, s) EXCEPT !.intr = TRUE] =
        [f EXCEPT !.step = s, !.draining = FALSE, !.i = f.i, !.intr = TRUE]
  BY <1>1 DEF Goes
<1> QED  BY <1>2, <1>3, <1>4, <1>5

LEMMA WaitMoves ==
    ASSUME Typed, Shape, Top.op = "wait"
    PROVE  /\ WaitSkip => GoesTo(Top.step, Top.i + 1)
           /\ WaitBegin => GoesTo("settle", Top.i)
           /\ WaitSettled => GoesTo("begin", Top.i + 1)
           /\ WaitBegun => GoesTo("pick", 1)
           /\ WaitPick => GoesTo(IF job[Job].refs = 0 THEN "gone" ELSE "until", Top.i)
           /\ WaitOnceDone => \/ Top.step = "once" /\ GoesTo("finish", Top.i)
                              \/ Top.step = "gone" /\ GoesTo("pick", Top.i + 1)
           /\ WaitInterrupted => GoesTo(IF Top.forever THEN "until2" ELSE "once", Top.i)
           /\ WaitReached => GoesTo("finish", Top.i)
           /\ WaitTimeout => \/ Top.step = "until" /\ GoesTo("finish", Top.i)
                             \/ Top.step = "pick" /\ GoesTo("clear", Top.i)
           /\ WaitFinish => GoesTo(IF LastRef(job[Job], 1) THEN "final" ELSE "clear", Top.i)
           /\ WaitFinal => GoesTo("clear", Top.i) \/ GoesTo("pick", Top.i + 1)
           /\ WaitClear => GoesTo("visit", 1)
           /\ WaitVisit => GoesTo("restore", Top.i)
           /\ WaitRestored => GoesTo("visit", Top.i + 1)
           /\ WaitEnd => Pops
<1>1. Top \in FrameType
  BY TopFacts
<1>2. /\ Top.step \in Steps /\ Top.i \in Nat \ {0} /\ Top.i + 1 \in Nat \ {0}
      /\ Top.draining \in BOOLEAN /\ Top.intr \in BOOLEAN
  BY <1>1, WaitFields
<1>3. {"settle", "begin", "pick", "gone", "until", "until2", "once", "finish", "final",
       "clear", "visit", "restore"} \subseteq Steps
  BY DEF Steps, InList
<1> DEFINE GoesBy(f, s, d, k, r) ==
      stack' = Now([f EXCEPT !.step = s, !.draining = d, !.i = k, !.intr = r])
<1>4. ASSUME NEW s \in Steps, NEW d \in BOOLEAN, NEW k \in Nat \ {0}, NEW r \in BOOLEAN,
             GoesBy(Top, s, d, k, r)
      PROVE  GoesTo(s, k)
  BY <1>4, GoesToBy
<1>5. ASSUME NEW s \in Steps
      PROVE  /\ stack' = Now(Goes(Top, s)) => GoesBy(Top, s, FALSE, Top.i, Top.intr)
             /\ stack' = Now(Next1(Top, s)) => GoesBy(Top, s, FALSE, Top.i + 1, Top.intr)
             /\ stack' = Now([Goes(Top, s) EXCEPT !.i = 1])
                  => GoesBy(Top, s, FALSE, 1, Top.intr)
             /\ stack' = Now([Goes(Top, s) EXCEPT !.intr = TRUE]) =>
                  GoesBy(Top, s, FALSE, Top.i, TRUE)
  <2> HIDE DEF Top, Now
  <2> QED  BY <1>1, <1>5, WaitGoesOn
<1>6. stack' = Now([Top EXCEPT !.i = @ + 1]) =>
        GoesBy(Top, Top.step, Top.draining, Top.i + 1, Top.intr)
  <2> HIDE DEF Top, Now
  <2> QED  BY <1>1, WaitFields
<1> HIDE DEF GoesBy, Top, Goes, Next1, Now
<1>7. ASSUME NEW s \in Steps
      PROVE  /\ stack' = Now(Goes(Top, s)) => GoesTo(s, Top.i)
             /\ stack' = Now(Next1(Top, s)) => GoesTo(s, Top.i + 1)
             /\ stack' = Now([Goes(Top, s) EXCEPT !.i = 1]) => GoesTo(s, 1)
             /\ stack' = Now([Goes(Top, s) EXCEPT !.intr = TRUE]) => GoesTo(s, Top.i)
  <2>1. stack' = Now(Goes(Top, s)) => GoesTo(s, Top.i)
    BY <1>2, <1>4, <1>5
  <2>2. stack' = Now(Next1(Top, s)) => GoesTo(s, Top.i + 1)
    BY <1>2, <1>4, <1>5
  <2>3. stack' = Now([Goes(Top, s) EXCEPT !.i = 1]) => GoesTo(s, 1)
    <3>1. 1 \in Nat \ {0}
      OBVIOUS
    <3> QED  BY <1>2, <1>4, <1>5, <3>1
  <2>4. stack' = Now([Goes(Top, s) EXCEPT !.intr = TRUE]) => GoesTo(s, Top.i)
    BY <1>2, <1>4, <1>5
  <2> QED  BY <2>1, <2>2, <2>3, <2>4
<1>8. stack' = Now([Top EXCEPT !.i = @ + 1]) => GoesTo(Top.step, Top.i + 1)
  BY <1>2, <1>4, <1>6
<1>9. /\ WaitSkip => GoesTo(Top.step, Top.i + 1)
      /\ WaitBegin => GoesTo("settle", Top.i)
      /\ WaitSettled => GoesTo("begin", Top.i + 1)
      /\ WaitBegun => GoesTo("pick", 1)
      /\ WaitReached => GoesTo("finish", Top.i)
      /\ WaitClear => GoesTo("visit", 1)
      /\ WaitVisit => GoesTo("restore", Top.i)
      /\ WaitRestored => GoesTo("visit", Top.i + 1)
  BY <1>3, <1>7, <1>8 DEF WaitSkip, WaitBegin, WaitSettled, WaitBegun, WaitReached,
     WaitClear, WaitVisit, WaitRestored
<1>10. WaitPick => GoesTo(IF job[Job].refs = 0 THEN "gone" ELSE "until", Top.i)
  BY <1>3, <1>7 DEF WaitPick
<1>11. WaitOnceDone => \/ Top.step = "once" /\ GoesTo("finish", Top.i)
                       \/ Top.step = "gone" /\ GoesTo("pick", Top.i + 1)
  BY <1>3, <1>7 DEF WaitOnceDone, AfterOnce, Once
<1>12. WaitInterrupted => GoesTo(IF Top.forever THEN "until2" ELSE "once", Top.i)
  BY <1>3, <1>7 DEF WaitInterrupted
<1>13. WaitTimeout => \/ Top.step = "until" /\ GoesTo("finish", Top.i)
                      \/ Top.step = "pick" /\ GoesTo("clear", Top.i)
  BY <1>3, <1>7 DEF WaitTimeout
<1>14. WaitFinish => GoesTo(IF LastRef(job[Job], 1) THEN "final" ELSE "clear", Top.i)
  BY <1>3, <1>7 DEF WaitFinish
<1>15. WaitFinal => GoesTo("clear", Top.i) \/ GoesTo("pick", Top.i + 1)
  BY <1>3, <1>7 DEF WaitFinal
<1>16. WaitEnd => Pops
  BY PopsBy DEF WaitEnd
<1> QED  BY <1>9, <1>10, <1>11, <1>12, <1>13, <1>14, <1>15, <1>16

-----------------------------------------------------------------------------
(***************************************************************************)
(* What the steps of the stack change in the numbers.                      *)
(***************************************************************************)
LEMMA CountTops ==
    ASSUME Typed, Shape, NEW g, Tops(g), NEW S
    PROVE  Count(stack', S) = Count(stack, S) - In(Top, S) + In(g, S)
<1> DEFINE n == Len(stack) - 1
<1>1. n \in Nat /\ Len(stack) = n + 1 /\ Len(stack') = n + 1 /\ Top = stack[n + 1]
      /\ stack'[n + 1] = g
  BY TopFacts DEF Tops
<1>2. Upto(stack, S, n) = Upto(stack', S, n)
  <2>1. \A k \in 1 .. n : stack'[k] = stack[k]
    BY DEF Tops
  <2> HIDE DEF n
  <2> QED  BY <1>1, <2>1, UptoAlike
<1> HIDE DEF n
<1>3. Upto(stack, S, n) \in Nat
        /\ Upto(stack, S, n + 1) = Upto(stack, S, n) + In(stack[n + 1], S)
  BY <1>1, UptoNat, UptoMore
<1>4. Upto(stack', S, n + 1) = Upto(stack', S, n) + In(stack'[n + 1], S)
  BY <1>1, UptoMore
<1>5. In(Top, S) \in Nat /\ In(g, S) \in Nat
  BY DEF In
<1> HIDE DEF Top, In
<1> QED  BY <1>1, <1>2, <1>3, <1>4, <1>5 DEF Count

LEMMA CountPushes ==
    ASSUME Typed, Shape, NEW f, NEW g, Pushes(f, g), NEW S, In(f, S) = In(Top, S)
    PROVE  Count(stack', S) = Count(stack, S) + In(g, S)
<1> DEFINE n == Len(stack) - 1
<1>1. n \in Nat /\ Len(stack) = n + 1 /\ Len(stack') = (n + 1) + 1 /\ Top = stack[n + 1]
      /\ stack'[n + 1] = f /\ stack'[(n + 1) + 1] = g
  BY TopFacts DEF Pushes
<1>2. Upto(stack, S, n) = Upto(stack', S, n)
  <2>1. \A k \in 1 .. n : stack'[k] = stack[k]
    BY DEF Pushes
  <2> HIDE DEF n
  <2> QED  BY <1>1, <2>1, UptoAlike
<1> HIDE DEF n
<1>3. Upto(stack, S, n) \in Nat
        /\ Upto(stack, S, n + 1) = Upto(stack, S, n) + In(stack[n + 1], S)
  BY <1>1, UptoNat, UptoMore
<1>4. Upto(stack', S, n + 1) = Upto(stack', S, n) + In(stack'[n + 1], S)
  BY <1>1, UptoMore
<1>5. n + 1 \in Nat
  BY <1>1
<1>6. Upto(stack', S, (n + 1) + 1) = Upto(stack', S, n + 1) + In(stack'[(n + 1) + 1], S)
  BY <1>5, UptoMore
<1>7. In(Top, S) \in Nat /\ In(g, S) \in Nat
  BY DEF In
<1> HIDE DEF Top, In
<1> QED  BY <1>1, <1>2, <1>3, <1>4, <1>6, <1>7 DEF Count

LEMMA CountPops ==
    ASSUME Typed, Shape, Pops, NEW S
    PROVE  Count(stack', S) = Count(stack, S) - In(Top, S)
<1> DEFINE n == Len(stack) - 1
<1>1. n \in Nat /\ Len(stack) = n + 1 /\ Len(stack') = n /\ Top = stack[n + 1]
  BY TopFacts DEF Pops
<1>2. Upto(stack, S, n) = Upto(stack', S, n)
  <2>1. \A k \in 1 .. n : stack'[k] = stack[k]
    BY DEF Pops
  <2> HIDE DEF n
  <2> QED  BY <1>1, <2>1, UptoAlike
<1> HIDE DEF n
<1>3. Upto(stack, S, n) \in Nat
        /\ Upto(stack, S, n + 1) = Upto(stack, S, n) + In(stack[n + 1], S)
  BY <1>1, UptoNat, UptoMore
<1>4. In(Top, S) \in Nat
  BY DEF In
<1> HIDE DEF Top, In
<1> QED  BY <1>1, <1>2, <1>3, <1>4 DEF Count

LEMMA Numbers ==
    ASSUME Typed, NEW p
    PROVE  /\ \A what : Queued(p, what) \in Nat
           /\ \A op : Running(p, op) \in Nat
           /\ Draining(p) \in Nat /\ Shortened(p) \in Nat /\ Holding(p) \in Nat
<1>1. Len(stack) \in Nat /\ Len(events) \in Nat
  BY DEF Typed
<1>2. \A S : Count(events, S) \in Nat /\ Count(stack, S) \in Nat
  BY <1>1, UptoNat DEF Count
<1> QED  BY <1>2 DEF Queued, Running, Draining, Shortened, Holding

(* A frame that goes on at the same place. *)
Alike(f, g) ==
    /\ f.op = g.op
    /\ f.op \in {"read", "exit", "flush"} => f.proc = g.proc
    /\ f.op = "flush" => f.step = g.step /\ f.limit = g.limit
    /\ f.op = "wait" => f.id = g.id /\ f.list = g.list /\ f.i = g.i /\ f.step = g.step

LEMMA AlikeIn ==
    ASSUME NEW f \in FrameType, NEW g \in FrameType, Alike(f, g), NEW p
    PROVE  /\ \A op \in {"read", "exit", "flush"} : In(f, Callbacks(p, op)) = In(g, Callbacks(p, op))
           /\ In(f, Drains(p)) = In(g, Drains(p))
           /\ In(f, Shorts(p)) = In(g, Shorts(p))
           /\ In(f, Holders(p)) = In(g, Holders(p))
BY DEF Alike, In, Callbacks, Drains, Shorts, Holders, Holds

(* The callbacks and holders in one frame. *)
LEMMA FrameIn ==
    ASSUME NEW f \in FrameType, NEW p
    PROVE  /\ \A op : In(f, Callbacks(p, op)) = IF f.op = op /\ f.proc = p THEN 1 ELSE 0
           /\ In(f, Drains(p)) = IF f.op = "flush" /\ f.proc = p
              /\ f.step = "drain" THEN 1 ELSE 0
           /\ In(f, Shorts(p)) = IF f.op = "flush" /\ f.proc = p
              /\ f.limit < Room + Flushes THEN 1 ELSE 0
           /\ In(f, Holders(p)) = IF Holds(f, p) THEN 1 ELSE 0
BY DEF In, Callbacks, Drains, Shorts, Holders

(* The stack means the same. *)
SameFrames(p) ==
    /\ \A op \in {"read", "exit", "flush"} : Running(p, op)' = Running(p, op)
    /\ Draining(p)' > 0 => Draining(p) > 0
    /\ Shortened(p)' > 0 => Shortened(p) > 0
    /\ Holding(p)' = Holding(p)

LEMMA SameTops ==
    ASSUME Typed, Shape, NEW g, Tops(g), Alike(Top, g), NEW p
    PROVE  SameFrames(p)
<1>1. Top \in FrameType /\ g \in FrameType
  BY TopFacts DEF Tops
<1>2. ASSUME NEW S, In(Top, S) = In(g, S)
      PROVE  Count(stack', S) = Count(stack, S)
  <2>1. Count(stack', S) = Count(stack, S) - In(Top, S) + In(g, S)
    BY CountTops
  <2>2. Count(stack, S) \in Nat /\ In(Top, S) \in Nat
    BY UptoNat DEF Count, Typed, In
  <2> HIDE DEF Top, In
  <2> QED  BY <1>2, <2>1, <2>2
<1> HIDE DEF Top
<1> QED  BY <1>1, <1>2, AlikeIn DEF SameFrames, Running, Draining, Shortened, Holding

LEMMA SameUnchanged ==
    ASSUME UNCHANGED stack, NEW p
    PROVE  SameFrames(p)
BY DEF SameFrames, Running, Draining, Shortened, Holding

(* The entry of the wait on top is p, at step s and entry k. *)
Held(s, k, p) ==
    IF s \in {"until", "until2", "once", "finish"} /\ Top.list[k] = p THEN 1 ELSE 0

LEMMA GoesCounts ==
    ASSUME Typed, Shape, NEW s, NEW k, GoesTo(s, k), NEW p \in Procs
    PROVE  /\ \A op \in {"read", "exit", "flush"} : Running(p, op)' = Running(p, op)
           /\ Draining(p)' = Draining(p) /\ Shortened(p)' = Shortened(p)
           /\ Holding(p)' = Holding(p) - Held(Top.step, Top.i, p) + Held(s, k, p)
<1>1. PICK g \in FrameType :
        /\ Tops(g) /\ Top.op = "wait" /\ g.op = "wait" /\ g.id = Top.id /\ g.list = Top.list
        /\ g.step = s /\ g.i = k
  BY DEF GoesTo
<1>2. Top \in FrameType
  BY TopFacts
<1>3. /\ \A S : Count(stack', S) = Count(stack, S) - In(Top, S) + In(g, S)
      /\ \A S : Count(stack, S) \in Nat
  BY <1>1, CountTops, UptoNat DEF Count, Typed
<1>4. /\ \A op \in {"read", "exit", "flush"} :
           In(Top, Callbacks(p, op)) = 0 /\ In(g, Callbacks(p, op)) = 0
      /\ In(Top, Drains(p)) = 0 /\ In(g, Drains(p)) = 0
      /\ In(Top, Shorts(p)) = 0 /\ In(g, Shorts(p)) = 0
  BY <1>1, <1>2, FrameIn
<1>5. In(Top, Holders(p)) = Held(Top.step, Top.i, p) /\ In(g, Holders(p)) = Held(s, k, p)
  <2> HIDE DEF Top
  <2> QED  BY <1>1, <1>2, FrameIn DEF Holds, Held
<1> HIDE DEF Top, In, Held, Callbacks, Drains, Shorts, Holders
<1>6. ASSUME NEW op \in {"read", "exit", "flush"}
      PROVE  Running(p, op)' = Running(p, op)
  BY <1>3, <1>4 DEF Running
<1>7. Draining(p)' = Draining(p) /\ Shortened(p)' = Shortened(p)
  BY <1>3, <1>4 DEF Draining, Shortened
<1>8. Holding(p)' = Holding(p) - Held(Top.step, Top.i, p) + Held(s, k, p)
  BY <1>3, <1>5 DEF Holding
<1> QED  BY <1>6, <1>7, <1>8

LEMMA PopCounts ==
    ASSUME Typed, Shape, Pops, NEW p \in Procs
    PROVE  /\ \A op : Running(p, op)' =
                 Running(p, op) - (IF Top.op = op /\ Top.proc = p THEN 1 ELSE 0)
           /\ Draining(p)' = Draining(p) -
                (IF Top.op = "flush" /\ Top.proc = p /\ Top.step = "drain" THEN 1 ELSE 0)
           /\ Shortened(p)' > 0 => Shortened(p) > 0
           /\ Holding(p)' = Holding(p) - (IF Holds(Top, p) THEN 1 ELSE 0)
<1>1. Top \in FrameType
  BY TopFacts
<1>2. \A S : Count(stack', S) = Count(stack, S) - In(Top, S)
  BY CountPops
<1> HIDE DEF Top
<1>3. Shortened(p)' > 0 => Shortened(p) > 0
  <2>1. Shortened(p) \in Nat /\ In(Top, Shorts(p)) \in Nat
    BY Numbers DEF In
  <2>2. Shortened(p)' = Shortened(p) - In(Top, Shorts(p))
    BY <1>2 DEF Shortened
  <2> QED  BY <2>1, <2>2
<1> QED  BY <1>1, <1>2, <1>3, FrameIn DEF Running, Draining, Holding

LEMMA PushCounts ==
    ASSUME Typed, Shape, NEW f, NEW g, Pushes(f, g), Alike(Top, f), NEW p \in Procs
    PROVE  /\ \A op \in {"read", "exit", "flush"} : Running(p, op)' =
                 Running(p, op) + (IF g.op = op /\ g.proc = p THEN 1 ELSE 0)
           /\ Draining(p)' = Draining(p) +
                (IF g.op = "flush" /\ g.proc = p /\ g.step = "drain" THEN 1 ELSE 0)
           /\ Shortened(p)' = Shortened(p) +
                (IF g.op = "flush" /\ g.proc = p /\ g.limit < Room + Flushes THEN 1 ELSE 0)
           /\ Holding(p)' = Holding(p) + (IF Holds(g, p) THEN 1 ELSE 0)
<1>1. Top \in FrameType /\ f \in FrameType /\ g \in FrameType
  BY TopFacts DEF Pushes
<1>2. \A S : In(f, S) = In(Top, S) => Count(stack', S) = Count(stack, S) + In(g, S)
  BY CountPushes
<1>3. /\ \A op \in {"read", "exit", "flush"} : In(f, Callbacks(p, op)) = In(Top, Callbacks(p, op))
      /\ In(f, Drains(p)) = In(Top, Drains(p)) /\ In(f, Shorts(p)) = In(Top, Shorts(p))
      /\ In(f, Holders(p)) = In(Top, Holders(p))
  <2> HIDE DEF Top
  <2> QED  BY <1>1, AlikeIn
<1> HIDE DEF Top, In
<1> QED  BY <1>1, <1>2, <1>3, FrameIn DEF Running, Draining, Shortened, Holding

-----------------------------------------------------------------------------
(***************************************************************************)
(* What the steps of the events change in the numbers.                     *)
(***************************************************************************)
LEMMA EventIs ==
    ASSUME NEW p, NEW q, NEW v, NEW w
    PROVE  Event(p, v) = Event(q, w) <=> p = q /\ v = w
BY DEF Event

LEMMA ReadsAfterFinite ==
    ASSUME NEW s, NEW p, NEW c \in Nat, Len(s) \in Nat
    PROVE  IsFiniteSet(ReadsAfter(s, p, c)) /\ Cardinality(ReadsAfter(s, p, c)) \in Nat
<1>1. IsFiniteSet(c + 1 .. Len(s)) /\ ReadsAfter(s, p, c) \in SUBSET (c + 1 .. Len(s))
  BY FS_Interval DEF ReadsAfter
<1> QED  BY <1>1, FS_Subset, FS_CardinalityType

(* Events other than reads of p are added. *)
LEMMA AtMostAdded ==
    ASSUME NEW s, NEW t, NEW m, Extended(s, t, m), NEW p, NEW n \in Int, AtMost(s, p, n),
           \A k \in Len(s) + 1 .. Len(s) + m :
              t[k] # Event(p, "read") /\ (t[k] = Event(p, "close") => n >= 0)
    PROVE  AtMost(t, p, n)
<1> USE DEF Extended
<1> SUFFICES ASSUME NEW c \in 1 .. Len(t), t[c] = Event(p, "close")
             PROVE  Cardinality(ReadsAfter(t, p, c)) <= n
  BY DEF AtMost
<1>1. CASE c <= Len(s)
  <2>1. ReadsAfter(t, p, c) = ReadsAfter(s, p, c)
    <3>1. ASSUME NEW k \in c + 1 .. Len(t), t[k] = Event(p, "read")
          PROVE  k \in c + 1 .. Len(s)
      <4>1. CASE k <= Len(s)
        BY <4>1
      <4>2. CASE k > Len(s)
        <5>1. k \in Len(s) + 1 .. Len(s) + m
          BY <4>2
        <5> QED  BY <3>1, <5>1
      <4> QED  BY <4>1, <4>2
    <3>2. \A k \in c + 1 .. Len(s) : k \in c + 1 .. Len(t) /\ t[k] = s[k]
      BY <1>1
    <3> QED  BY <3>1, <3>2 DEF ReadsAfter
  <2>2. c \in 1 .. Len(s) /\ s[c] = Event(p, "close")
    BY <1>1
  <2> QED  BY <2>1, <2>2 DEF AtMost
<1>2. CASE c > Len(s)
  <2>1. c \in Len(s) + 1 .. Len(s) + m
    BY <1>2
  <2>2. ReadsAfter(t, p, c) = {}
    <3>1. \A k \in c + 1 .. Len(t) : k \in Len(s) + 1 .. Len(s) + m
      BY <1>2
    <3> QED  BY <3>1 DEF ReadsAfter
  <2> QED  BY <2>1, <2>2, FS_EmptySet
<1> QED  BY <1>1, <1>2

(* A read of p is added. *)
LEMMA AtMostRead ==
    ASSUME NEW s, NEW t, Extended(s, t, 1), NEW p, NEW n \in Int, AtMost(s, p, n),
           t[Len(s) + 1] = Event(p, "read")
    PROVE  AtMost(t, p, n + 1)
<1> USE DEF Extended
<1> SUFFICES ASSUME NEW c \in 1 .. Len(t), t[c] = Event(p, "close")
             PROVE  Cardinality(ReadsAfter(t, p, c)) <= n + 1
  BY DEF AtMost
<1>1. c \in 1 .. Len(s) /\ s[c] = Event(p, "close")
  <2>1. Event(p, "close") # Event(p, "read")
    BY DEF Event
  <2>2. c # Len(s) + 1
    BY <2>1
  <2> QED  BY <2>2
<1>2. IsFiniteSet(ReadsAfter(s, p, c)) /\ Cardinality(ReadsAfter(s, p, c)) \in Nat
  BY <1>1, ReadsAfterFinite
<1>3. ReadsAfter(t, p, c) = ReadsAfter(s, p, c) \cup {Len(s) + 1}
  BY <1>1 DEF ReadsAfter
<1>4. Cardinality(ReadsAfter(t, p, c)) <= Cardinality(ReadsAfter(s, p, c)) + 1
  <2> DEFINE A == ReadsAfter(s, p, c)
             x == Len(s) + 1
  <2> HIDE DEF A, x
  <2>1. IsFiniteSet(A) /\ Cardinality(A) \in Nat
    BY <1>2 DEF A
  <2>2. Cardinality(A \cup {x}) = IF x \in A THEN Cardinality(A) ELSE Cardinality(A) + 1
    BY <2>1, FS_AddElement
  <2>3. Cardinality(A \cup {x}) <= Cardinality(A) + 1
    BY <2>1, <2>2
  <2> QED  BY <1>3, <2>3 DEF A, x
<1>5. Cardinality(ReadsAfter(s, p, c)) <= n
  BY <1>1 DEF AtMost
<1>6. Cardinality(ReadsAfter(t, p, c)) \in Nat
  BY ReadsAfterFinite
<1> QED  BY <1>2, <1>4, <1>5, <1>6

(* The event at i is taken out. *)
LEMMA AtMostLess ==
    ASSUME NEW s, NEW t, NEW i, Removed(s, t, i), NEW p, NEW n \in Int, AtMost(s, p, n)
    PROVE  AtMost(t, p, n)
<1> USE DEF Removed
<1> SUFFICES ASSUME NEW c \in 1 .. Len(t), t[c] = Event(p, "close")
             PROVE  Cardinality(ReadsAfter(t, p, c)) <= n
  BY DEF AtMost
<1> DEFINE was(k) == IF k < i THEN k ELSE k + 1
           P == ReadsAfter(t, p, c)
           Q == ReadsAfter(s, p, was(c))
           f == [k \in P |-> was(k)]
<1>1. was(c) \in 1 .. Len(s) /\ s[was(c)] = Event(p, "close")
  OBVIOUS
<1>2. IsFiniteSet(Q) /\ Cardinality(Q) \in Nat
  BY <1>1, ReadsAfterFinite
<1>3. \A k \in P : f[k] \in Q
  BY DEF ReadsAfter
<1>4. \A j, k \in P : f[j] = f[k] => j = k
  BY DEF ReadsAfter
<1>5. f \in [P -> Q]
  BY <1>3
<1>6. Cardinality(P) <= Cardinality(Q)
  <2> HIDE DEF f, P, Q
  <2>1. f \in Injection(P, Q)
    BY <1>4, <1>5 DEF Injection, IsInjective
  <2> QED  BY <1>2, <2>1, FS_Injection
<1>7. Cardinality(Q) <= n
  <2> HIDE DEF was
  <2> QED  BY <1>1 DEF AtMost
<1>8. Cardinality(P) \in Nat
  BY ReadsAfterFinite
<1> HIDE DEF P, Q
<1>9. Cardinality(P) <= n
  BY <1>2, <1>6, <1>7, <1>8
<1> QED  BY <1>9 DEF P

(* The first event of p is its close. *)
LEMMA CloseFirst ==
    ASSUME NEW s, NEW p, NEW n \in Int, Len(s) \in Nat, NEW c \in 1 .. Len(s),
           s[c] = Event(p, "close"), \A k \in 1 .. c - 1 : s[k].proc # p, AtMost(s, p, n)
    PROVE  Count(s, {Event(p, "read")}) <= n
<1>1. Places(s, {Event(p, "read")}, Len(s)) = ReadsAfter(s, p, c)
  <2>1. ASSUME NEW k \in 1 .. Len(s), s[k] = Event(p, "read")
        PROVE  k \in c + 1 .. Len(s)
    <3>1. s[k].proc = p /\ s[k] # s[c]
      BY <2>1 DEF Event
    <3>2. k \notin 1 .. c - 1 /\ k # c
      BY <3>1
    <3> QED  BY <3>2
  <2> QED  BY <2>1 DEF Places, ReadsAfter
<1> QED  BY <1>1 DEF Count, Upto, AtMost

(* The number of events of a kind, as events are added and taken. *)
SameEvents(p) == /\ \A what : Queued(p, what)' = Queued(p, what)
                 /\ \A n \in Int : AtMost(events, p, n) => AtMost(events', p, n)

LEMMA SameEventsBy ==
    ASSUME UNCHANGED events, NEW p
    PROVE  SameEvents(p)
BY DEF SameEvents, Queued

LEMMA EventAdded ==
    ASSUME Typed, NEW e \in EventType, events' = Append(events, e), NEW p \in Procs
    PROVE  /\ events' \in Seq(EventType)
           /\ \A what : Queued(p, what)' = Queued(p, what) + In(e, {Event(p, what)})
           /\ \A n \in Int : AtMost(events, p, n) =>
                /\ e \notin {Event(p, "read"), Event(p, "close")} => AtMost(events', p, n)
                /\ e = Event(p, "read") => AtMost(events', p, n + 1)
<1>1. /\ events' \in Seq(EventType) /\ Extended(events, events', 1)
      /\ events'[Len(events) + 1] = e
  <2>1. events \in Seq(EventType) /\ Len(events) \in Nat
    BY DEF Typed
  <2> QED  BY <2>1, AppendProperties DEF Extended
<1>2. ASSUME NEW S
      PROVE  Count(events', S) = Count(events, S) + In(e, S)
  <2>1. /\ \A j \in 1 .. 1 : events'[Len(events) + j] = e
        /\ \A j, k \in 1 .. 1 :
             events'[Len(events) + j] \in S /\ events'[Len(events) + k] \in S => j = k
    BY <1>1
  <2>2. Count(events', S) = Count(events, S) +
          (IF \E j \in 1 .. 1 : events'[Len(events) + j] \in S THEN 1 ELSE 0)
    BY <1>1, <2>1, CountAdded
  <2> QED  BY <2>1, <2>2 DEF In
<1>3. ASSUME NEW n \in Int, AtMost(events, p, n),
             e \notin {Event(p, "read"), Event(p, "close")}
      PROVE  AtMost(events', p, n)
  <2>1. \A k \in Len(events) + 1 .. Len(events) + 1 : events'[k] = e
    BY <1>1 DEF Extended
  <2> QED  BY <1>1, <1>3, <2>1, AtMostAdded
<1>4. ASSUME NEW n \in Int, AtMost(events, p, n), e = Event(p, "read")
      PROVE  AtMost(events', p, n + 1)
  BY <1>1, <1>4, AtMostRead
<1> QED  BY <1>1, <1>2, <1>3, <1>4 DEF Queued

(* An event of a kind for each process of R, in some order. *)
(* t is u, and for each process of R an event of the kind w. *)
Reported(u, t, R, w, m, s) ==
    /\ Extended(u, t, m) /\ s \in [1 .. m -> R]
    /\ \A i, j \in 1 .. m : i # j => s[i] # s[j]
    /\ \A q \in R : \E i \in 1 .. m : s[i] = q
    /\ \A k \in 1 .. m : t[Len(u) + k] = Event(s[k], w)

ReportsAdded(R, w, s) == events' = events \o [i \in 1 .. Len(s) |-> Event(s[i], w)]

LEMMA EventsConcat ==
    ASSUME Typed, NEW R \in SUBSET Procs, NEW s \in SetToSeqs(R),
           NEW w \in {"close", "exit"},
           events' = events \o [i \in 1 .. Len(s) |-> Event(s[i], w)]
    PROVE  /\ events' \in Seq(EventType)
           /\ Reported(events, events', R, w, Cardinality(R), s)
<1> DEFINE m == Cardinality(R)
           new == [i \in 1 .. Len(s) |-> Event(s[i], w)]
<1>1. events \in Seq(EventType) /\ Len(events) \in Nat
  BY DEF Typed
<1>2. IsFiniteSet(R)
  BY JobsAssumption, FS_Subset
<1>3. m \in Nat
  BY <1>2, FS_CardinalityType
<1> HIDE DEF m
<1>4. s \in [1 .. m -> R] /\ \A i, j \in 1 .. m : i # j => s[i] # s[j]
  BY DEF SetToSeqs, m
<1>5. Len(s) = m
  BY <1>3, <1>4
<1>6. \A q \in R : \E i \in 1 .. m : s[i] = q
  <2>1. s \in Injection(1 .. m, R)
    BY <1>4 DEF Injection, IsInjective
  <2>2. Cardinality(1 .. m) = Cardinality(R)
    BY <1>3, FS_Interval DEF m
  <2>3. s \in Surjection(1 .. m, R)
    BY <1>2, <2>1, <2>2, FS_Injection
  <2> QED  BY <2>3 DEF Surjection
<1>7. new \in Seq(EventType) /\ Len(new) = m /\ \A i \in 1 .. m : new[i] = Event(s[i], w)
  <2>1. \A i \in 1 .. m : Event(s[i], w) \in EventType
    BY <1>4 DEF Event, EventType
  <2> QED  BY <1>3, <1>5, <2>1
<1> HIDE DEF new
<1>8. /\ events' \in Seq(EventType) /\ Len(events') = Len(events) + m
      /\ \A k \in 1 .. Len(events) : events'[k] = events[k]
      /\ \A k \in 1 .. m : events'[Len(events) + k] = Event(s[k], w)
  <2>1. /\ events \o new \in Seq(EventType) /\ Len(events \o new) = Len(events) + m
        /\ \A k \in 1 .. Len(events) + m :
             (events \o new)[k] = IF k <= Len(events) THEN events[k] ELSE new[k - Len(events)]
    BY <1>1, <1>7, ConcatProperties
  <2>2. events' = events \o new
    BY DEF new
  <2>3. ASSUME NEW k \in 1 .. m
        PROVE  events'[Len(events) + k] = Event(s[k], w)
    <3>1. Len(events) + k \in 1 .. Len(events) + m /\ ~(Len(events) + k <= Len(events))
          /\ (Len(events) + k) - Len(events) = k
      BY <1>1, <1>3
    <3> QED  BY <1>7, <2>1, <2>2, <3>1
  <2>4. \A k \in 1 .. Len(events) : events'[k] = events[k]
    BY <1>1, <1>3, <2>1, <2>2
  <2> QED  BY <2>1, <2>2, <2>3, <2>4
<1> QED  BY <1>1, <1>3, <1>4, <1>6, <1>8 DEF Reported, Extended, m

LEMMA EventsCounted ==
    ASSUME NEW u, NEW t, NEW R, NEW w \in {"close", "exit"}, NEW m, NEW s,
           Reported(u, t, R, w, m, s), NEW p
    PROVE  /\ \A what : Count(t, {Event(p, what)}) =
                Count(u, {Event(p, what)}) + (IF what = w /\ p \in R THEN 1 ELSE 0)
           /\ \A n \in Int : AtMost(u, p, n) /\ (w = "close" /\ p \in R => n >= 0) =>
                AtMost(t, p, n)
<1> DEFINE a == Len(u)
<1>1. /\ Extended(u, t, m) /\ a \in Nat /\ m \in Nat
      /\ \A k \in 1 .. m : s[k] \in R /\ t[a + k] = Event(s[k], w)
      /\ \A i, j \in 1 .. m : i # j => s[i] # s[j]
      /\ \A q \in R : \E i \in 1 .. m : s[i] = q
  BY DEF Reported, Extended
<1>2. ASSUME NEW what
      PROVE  Count(t, {Event(p, what)}) =
                Count(u, {Event(p, what)}) + (IF what = w /\ p \in R THEN 1 ELSE 0)
  <2> DEFINE S == {Event(p, what)}
  <2> HIDE DEF a
  <2>1. ASSUME NEW k \in 1 .. m
        PROVE  t[a + k] \in S <=> s[k] = p /\ w = what
    <3>1. t[a + k] = Event(s[k], w)
      BY <1>1
    <3> QED  BY <3>1, EventIs
  <2> HIDE DEF S
  <2>2. ASSUME NEW j \in 1 .. m, NEW k \in 1 .. m, t[a + j] \in S, t[a + k] \in S
        PROVE  j = k
    <3>1. s[j] = p /\ s[k] = p
      BY <2>1, <2>2
    <3> QED  BY <1>1, <3>1
  <2>3. (\E k \in 1 .. m : t[a + k] \in S) <=> what = w /\ p \in R
    <3>1. (\E k \in 1 .. m : s[k] = p) <=> p \in R
      BY <1>1
    <3> QED  BY <2>1, <3>1
  <2>4. Count(t, S) = Count(u, S) + (IF \E k \in 1 .. m : t[a + k] \in S THEN 1 ELSE 0)
    BY <1>1, <2>2, CountAdded DEF a
  <2> QED  BY <2>3, <2>4 DEF S
<1>3. ASSUME NEW n \in Int, AtMost(u, p, n), w = "close" /\ p \in R => n >= 0
      PROVE  AtMost(t, p, n)
  <2>1. ASSUME NEW k \in a + 1 .. a + m
        PROVE  t[k] # Event(p, "read") /\ (t[k] = Event(p, "close") => n >= 0)
    <3> HIDE DEF a
    <3>1. PICK j \in 1 .. m : k = a + j
      <4>1. k - a \in 1 .. m /\ k = a + (k - a)
        BY <1>1
      <4> QED  BY <4>1
    <3>2. PICK q \in R : t[k] = Event(q, w)
      BY <1>1, <3>1
    <3>3. t[k] # Event(p, "read")
      BY <3>2, EventIs
    <3>4. ASSUME t[k] = Event(p, "close")
          PROVE  w = "close" /\ p = q
      <4>1. Event(q, w) = Event(p, "close")
        BY <3>2, <3>4
      <4> QED  BY <4>1, EventIs
    <3> QED  BY <1>3, <3>2, <3>3, <3>4
  <2> QED  BY <1>1, <1>3, <2>1, AtMostAdded
<1> QED  BY <1>2, <1>3

LEMMA EventsAdded ==
    ASSUME Typed, NEW R \in SUBSET Procs, NEW s \in SetToSeqs(R),
           NEW w \in {"close", "exit"},
           ReportsAdded(R, w, s), NEW p \in Procs
    PROVE  /\ events' \in Seq(EventType)
           /\ \A what : Queued(p, what)' =
                Queued(p, what) + (IF what = w /\ p \in R THEN 1 ELSE 0)
           /\ \A n \in Int : AtMost(events, p, n) /\ (w = "close" /\ p \in R => n >= 0) =>
                AtMost(events', p, n)
<1>1. events' \in Seq(EventType) /\ Reported(events, events', R, w, Cardinality(R), s)
  BY EventsConcat DEF ReportsAdded
<1> DEFINE t == events'
           m == Cardinality(R)
<1> HIDE DEF t, m
<1>2. Reported(events, t, R, w, m, s)
  BY <1>1 DEF t, m
<1>3. /\ \A what : Count(t, {Event(p, what)}) =
           Count(events, {Event(p, what)}) + (IF what = w /\ p \in R THEN 1 ELSE 0)
      /\ \A n \in Int : AtMost(events, p, n) /\ (w = "close" /\ p \in R => n >= 0) =>
           AtMost(t, p, n)
  BY <1>2, EventsCounted
<1> QED  BY <1>1, <1>3 DEF Queued, t

(* The event at i is taken. *)
LEMMA EventRemoved ==
    ASSUME Typed, NEW i \in 1 .. Len(events), events' = RemoveAt(events, i)
    PROVE  events' \in Seq(EventType) /\ Removed(events, events', i)
<1> DEFINE n == Len(events)
           a == SubSeq(events, 1, i - 1)
           b == SubSeq(events, i + 1, n)
<1>1. events \in Seq(EventType) /\ n \in Nat /\ \A k \in 1 .. n : events[k] \in EventType
  BY DEF Typed
<1>2. /\ a \in Seq(EventType) /\ Len(a) = i - 1
      /\ \A k \in 1 .. i - 1 : a[k] = events[k]
  <2>1. \A k \in 1 .. i - 1 : events[k] \in EventType
    BY <1>1
  <2>2. 1 \in Int /\ i - 1 \in Int /\ (i - 1) - 1 + 1 = i - 1
          /\ \A k \in Int : 1 + k - 1 = k
    OBVIOUS
  <2>3. /\ a \in Seq(EventType)
        /\ Len(a) = IF 1 <= i - 1 THEN (i - 1) - 1 + 1 ELSE 0
        /\ \A k \in 1 .. (i - 1) - 1 + 1 : a[k] = events[1 + k - 1]
    BY <2>1, <2>2, SubSeqProperties
  <2> HIDE DEF a
  <2> QED  BY <2>2, <2>3
<1>3. /\ b \in Seq(EventType) /\ Len(b) = n - i
      /\ \A k \in 1 .. n - i : b[k] = events[i + k]
  <2> DEFINE c == i + 1
  <2>1. c \in Int /\ n \in Int /\ c = i + 1
    BY <1>1
  <2> HIDE DEF c
  <2>2. \A k \in c .. n : events[k] \in EventType
    BY <1>1, <2>1
  <2>3. /\ SubSeq(events, c, n) \in Seq(EventType)
        /\ Len(SubSeq(events, c, n)) = IF c <= n THEN n - c + 1 ELSE 0
        /\ \A k \in 1 .. n - c + 1 : SubSeq(events, c, n)[k] = events[c + k - 1]
    BY <2>1, <2>2, SubSeqProperties
  <2>4. b = SubSeq(events, c, n)
    BY <2>1
  <2> HIDE DEF b
  <2>5. Len(b) = n - i
    BY <1>1, <2>1, <2>3, <2>4
  <2>6. ASSUME NEW k \in 1 .. n - i
        PROVE  b[k] = events[i + k]
    <3>1. k \in 1 .. n - c + 1 /\ c + k - 1 = i + k
      BY <1>1, <2>1
    <3> QED  BY <2>3, <2>4, <3>1
  <2> QED  BY <2>3, <2>4, <2>5, <2>6
<1>4. events' = a \o b
  BY DEF RemoveAt
<1> HIDE DEF a, b
<1>5. /\ a \o b \in Seq(EventType) /\ Len(a \o b) = Len(a) + Len(b)
      /\ \A k \in 1 .. Len(a) + Len(b) :
           (a \o b)[k] = IF k <= Len(a) THEN a[k] ELSE b[k - Len(a)]
  BY <1>2, <1>3, ConcatProperties
<1>6. /\ events' \in Seq(EventType) /\ Len(events') = n - 1
      /\ \A k \in 1 .. i - 1 : events'[k] = events[k]
      /\ \A k \in i .. n - 1 : events'[k] = events[k + 1]
  <2>1. Len(a) + Len(b) = n - 1
    BY <1>1, <1>2, <1>3
  <2>2. ASSUME NEW k \in 1 .. i - 1
        PROVE  events'[k] = events[k]
    BY <1>1, <1>2, <1>4, <1>5, <2>1
  <2>3. ASSUME NEW k \in i .. n - 1
        PROVE  events'[k] = events[k + 1]
    <3>1. k \in 1 .. n - 1 /\ ~(k <= i - 1) /\ k - (i - 1) \in 1 .. n - i
          /\ i + (k - (i - 1)) = k + 1
      BY <1>1
    <3> QED  BY <1>2, <1>3, <1>4, <1>5, <2>1, <3>1
  <2> QED  BY <1>4, <1>5, <2>1, <2>2, <2>3
<1> QED  BY <1>1, <1>6 DEF Removed

LEMMA EventTaken ==
    ASSUME Typed, NEW i \in 1 .. Len(events), events' = RemoveAt(events, i), NEW p \in Procs
    PROVE  /\ events' \in Seq(EventType)
           /\ \A what : Queued(p, what) = Queued(p, what)' + In(events[i], {Event(p, what)})
           /\ \A n \in Int : AtMost(events, p, n) => AtMost(events', p, n)
<1>1. events' \in Seq(EventType) /\ Removed(events, events', i)
  BY EventRemoved
<1>2. /\ \A S : Count(events, S) = Count(events', S) + In(events[i], S)
      /\ \A n \in Int : AtMost(events, p, n) => AtMost(events', p, n)
  BY <1>1, CountLess, AtMostLess
<1> QED  BY <1>1, <1>2 DEF Queued

-----------------------------------------------------------------------------
(***************************************************************************)
(* What the steps of the stack keep.                                       *)
(***************************************************************************)
LEMMA TopsKeep ==
    ASSUME Typed, Shape, Above, NEW g, Tops(g), g.op = Top.op,
           g.op = "wait" => /\ g.id = Top.id /\ g.list = Top.list
                            /\ g.step \in InList => g.i <= Len(g.list),
           \A p : Callback(Top, p) => Callback(g, p),
           calls' = calls
    PROVE  Shape' /\ Above'
<1> DEFINE n == Len(stack)
<1>1. /\ n \in Nat \ {0} /\ Len(stack') = n /\ stack' \in Seq(FrameType)
      /\ \A k \in 1 .. n - 1 : stack'[k] = stack[k]
      /\ stack[n] = Top /\ stack'[n] = g
  BY TopFacts DEF Tops
<1> HIDE DEF n, Top
<1>2. \A k \in 1 .. n : stack'[k].op = stack[k].op
  BY <1>1
<1>3. \A k \in 1 .. n : stack[k].op = "wait" => stack'[k].id = stack[k].id
  BY <1>1
<1>4. /\ Len(stack) = n /\ stack[1].op = "main" /\ calls \in Nat
      /\ \A k \in 2 .. n : stack[k].op # "main"
      /\ \A k \in 1 .. n : stack[k].op = "wait" =>
           /\ stack[k].id <= calls
           /\ stack[k].step \in InList => stack[k].i <= Len(stack[k].list)
      /\ \A k \in 1 .. n : \A m \in 1 .. k - 1 :
           stack[m].op = "wait" /\ stack[k].op = "wait" => stack[m].id < stack[k].id
  BY JobsAssumption DEF Shape, n, Typed
<1>5. \A k \in 1 .. n : stack'[k].op = "wait" =>
        /\ stack'[k].id <= calls'
        /\ stack'[k].step \in InList => stack'[k].i <= Len(stack'[k].list)
  BY <1>1, <1>2, <1>3, <1>4
<1>6. ASSUME NEW k \in 1 .. n, NEW m \in 1 .. k - 1,
             stack'[m].op = "wait", stack'[k].op = "wait"
      PROVE  stack'[m].id < stack'[k].id
  <2>1. m \in 1 .. n
    BY <1>1
  <2> QED  BY <1>2, <1>3, <1>4, <1>6, <2>1
<1>7. Shape'
  <2>1. 1 \in 1 .. n /\ \A k \in 2 .. n : k \in 1 .. n
    BY <1>1
  <2> QED  BY <1>1, <1>2, <1>4, <1>5, <1>6, <2>1 DEF Shape
<1>8. ASSUME NEW k \in 1 .. n - 1
      PROVE  /\ stack'[k].op = "flush" =>
                  stack'[k].step = "drain" /\ Callback(stack'[k + 1], stack'[k].proc)
             /\ Narrow(stack'[k]) => Callback(stack'[k + 1], stack'[k].list[stack'[k].i])
  <2>1. stack'[k] = stack[k]
    BY <1>1
  <2>2. /\ stack[k].op = "flush" =>
             stack[k].step = "drain" /\ Callback(stack[k + 1], stack[k].proc)
        /\ Narrow(stack[k]) => Callback(stack[k + 1], stack[k].list[stack[k].i])
    BY DEF Above, n
  <2>3. \A p : Callback(stack[k + 1], p) => Callback(stack'[k + 1], p)
    <3>1. CASE k + 1 = n
      BY <1>1, <3>1
    <3>2. CASE k + 1 # n
      BY <1>1, <3>2
    <3> QED  BY <3>1, <3>2
  <2> QED  BY <2>1, <2>2, <2>3
<1>9. Above'
  BY <1>1, <1>8 DEF Above
<1> QED  BY <1>7, <1>9

LEMMA PushesKeep ==
    ASSUME Typed, Shape, Above, NEW f, NEW g, Pushes(f, g), Alike(Top, f), g.op # "main",
           calls' \in Nat, calls <= calls',
           g.op = "wait" => calls < g.id /\ g.id <= calls' /\ g.step = "begin",
           Top.op = "flush" => Top.step = "drain" /\ Callback(g, Top.proc),
           Narrow(Top) => Callback(g, Top.list[Top.i])
    PROVE  Shape' /\ Above'
<1> DEFINE n == Len(stack)
<1>1. /\ n \in Nat \ {0} /\ Len(stack') = n + 1 /\ stack' \in Seq(FrameType)
      /\ \A k \in 1 .. n - 1 : stack'[k] = stack[k]
      /\ stack[n] = Top /\ stack'[n] = f /\ stack'[n + 1] = g
      /\ f \in FrameType /\ g \in FrameType
  BY TopFacts DEF Pushes
<1> HIDE DEF n, Top
<1>2. \A k \in 1 .. n : Alike(stack[k], stack'[k])
  BY <1>1 DEF Alike
<1>3. /\ Len(stack) = n /\ stack[1].op = "main" /\ calls \in Nat
      /\ \A k \in 2 .. n : stack[k].op # "main"
      /\ \A k \in 1 .. n : stack[k].op = "wait" =>
           /\ stack[k].id <= calls /\ stack[k].id \in Nat
           /\ stack[k].step \in InList => stack[k].i <= Len(stack[k].list)
      /\ \A k \in 1 .. n : \A m \in 1 .. k - 1 :
           stack[m].op = "wait" /\ stack[k].op = "wait" => stack[m].id < stack[k].id
  <2>1. \A k \in 1 .. n : stack[k].op = "wait" => stack[k].id \in Nat
    <3>1. \A k \in 1 .. n : stack[k] \in FrameType
      BY DEF Typed, n
    <3> QED  BY <3>1, FrameKinds, JobsAssumption
  <2> QED  BY <2>1, JobsAssumption DEF Shape, n, Typed
<1>4. g.op = "wait" => g.id \in Nat
  BY <1>1, FrameKinds, JobsAssumption
<1>5. ASSUME NEW k \in 1 .. n + 1, stack'[k].op = "wait"
      PROVE  /\ stack'[k].id <= calls'
             /\ stack'[k].step \in InList => stack'[k].i <= Len(stack'[k].list)
  <2>1. CASE k = n + 1
    BY <1>1, <1>5, <2>1 DEF InList
  <2>2. CASE k # n + 1
    <3>1. k \in 1 .. n
      BY <1>1, <2>2
    <3> QED  BY <1>2, <1>3, <1>5, <3>1 DEF Alike
  <2> QED  BY <2>1, <2>2
<1>6. ASSUME NEW k \in 1 .. n + 1, NEW m \in 1 .. k - 1,
             stack'[m].op = "wait", stack'[k].op = "wait"
      PROVE  stack'[m].id < stack'[k].id
  <2>1. m \in 1 .. n /\ stack[m].op = "wait" /\ stack'[m].id = stack[m].id
    BY <1>1, <1>2, <1>6 DEF Alike
  <2>2. CASE k = n + 1
    BY <1>1, <1>3, <1>4, <1>6, <2>1, <2>2
  <2>3. CASE k # n + 1
    <3>1. k \in 1 .. n
      BY <1>1, <2>3
    <3> QED  BY <1>2, <1>3, <1>6, <2>1, <3>1 DEF Alike
  <2> QED  BY <2>2, <2>3
<1>7. Shape'
  <2>1. stack'[1].op = "main"
    BY <1>1, <1>2, <1>3 DEF Alike
  <2>2. ASSUME NEW k \in 2 .. n + 1
        PROVE  stack'[k].op # "main"
    <3>1. CASE k = n + 1
      BY <1>1, <3>1
    <3>2. CASE k # n + 1
      BY <1>1, <1>2, <1>3, <3>2 DEF Alike
    <3> QED  BY <3>1, <3>2
  <2> QED  BY <1>1, <1>5, <1>6, <2>1, <2>2 DEF Shape
<1>8. ASSUME NEW k \in 1 .. n
      PROVE  /\ stack'[k].op = "flush" =>
                  stack'[k].step = "drain" /\ Callback(stack'[k + 1], stack'[k].proc)
             /\ Narrow(stack'[k]) => Callback(stack'[k + 1], stack'[k].list[stack'[k].i])
  <2>1. CASE k = n
    BY <1>1, <2>1 DEF Alike, Narrow
  <2>2. CASE k # n
    <3>1. /\ stack[k].op = "flush" =>
               stack[k].step = "drain" /\ Callback(stack[k + 1], stack[k].proc)
          /\ Narrow(stack[k]) => Callback(stack[k + 1], stack[k].list[stack[k].i])
      <4>1. k \in 1 .. Len(stack) - 1
        BY <1>1, <2>2 DEF n
      <4> QED  BY <4>1 DEF Above
    <3>2. \A p : Callback(stack[k + 1], p) => Callback(stack'[k + 1], p)
      <4>1. k + 1 \in 1 .. n
        BY <1>1, <2>2
      <4> QED  BY <1>2, <4>1 DEF Alike, Callback
    <3>3. stack'[k] = stack[k]
      BY <1>1, <2>2
    <3> QED  BY <3>1, <3>2, <3>3
  <2> QED  BY <2>1, <2>2
<1>9. Above'
  BY <1>1, <1>8 DEF Above
<1> QED  BY <1>7, <1>9

LEMMA PopsKeep ==
    ASSUME Typed, Shape, Above, Pops, calls' = calls
    PROVE  Shape' /\ Above'
<1> DEFINE n == Len(stack) - 1
<1>1. /\ n \in Nat \ {0} /\ Len(stack) = n + 1 /\ Len(stack') = n
      /\ \A k \in 1 .. n : stack'[k] = stack[k]
  BY TopFacts DEF Pops
<1> HIDE DEF n
<1>2. Shape'
  BY <1>1 DEF Shape
<1>3. ASSUME NEW k \in 1 .. n - 1
      PROVE  /\ stack'[k].op = "flush" =>
                  stack'[k].step = "drain" /\ Callback(stack'[k + 1], stack'[k].proc)
             /\ Narrow(stack'[k]) => Callback(stack'[k + 1], stack'[k].list[stack'[k].i])
  <2>1. k \in 1 .. Len(stack) - 1 /\ stack'[k] = stack[k] /\ stack'[k + 1] = stack[k + 1]
    BY <1>1
  <2> QED  BY <2>1 DEF Above
<1>4. Above'
  BY <1>1, <1>3 DEF Above
<1> QED  BY <1>2, <1>4

(* After a return, the wait on top uses what the callback was about. *)
LEMMA PopsTop ==
    ASSUME Typed, Shape, Above, Pops, Narrow(Top')
    PROVE  Callback(Top, Top'.list[Top'.i])
<1>1. Len(stack) \in Nat \ {0} /\ Top = stack[Len(stack)] /\ Len(stack) > 1
      /\ Top' = stack[Len(stack) - 1]
  BY TopFacts DEF Pops
<1> DEFINE k == Len(stack) - 1
<1>2. k \in 1 .. Len(stack) - 1 /\ k + 1 = Len(stack)
  BY <1>1
<1> HIDE DEF k, Top
<1>3. Narrow(stack[k]) => Callback(stack[k + 1], stack[k].list[stack[k].i])
  BY <1>2 DEF Above
<1> QED  BY <1>1, <1>2, <1>3 DEF k

(* The same frames. *)
LEMMA UnchangedKeeps ==
    ASSUME Typed, Shape, Above, UNCHANGED stack, calls' \in Nat, calls <= calls'
    PROVE  Shape' /\ Above'
<1>1. \A n \in 1 .. Len(stack) : stack[n].op = "wait" => stack[n].id \in Nat
  <2>1. \A n \in 1 .. Len(stack) : stack[n] \in FrameType
    BY DEF Typed
  <2> QED  BY <2>1, FrameKinds, JobsAssumption
<1>2. calls \in Nat
  BY JobsAssumption DEF Typed
<1> QED  BY <1>1, <1>2 DEF Shape, Above

-----------------------------------------------------------------------------
(***************************************************************************)
(* The waits that jobs refer to.                                           *)
(***************************************************************************)
CarriesMoved(p) ==
    \A n \in 1 .. Len(stack) : stack[n].op = "wait" /\ HasMoved(stack[n], p) =>
      \E m \in 1 .. Len(stack') : OfWait(stack'[m], stack[n].id) /\ HasMoved(stack'[m], p)

CarriesPoint(p) ==
    \A n \in 1 .. Len(stack) : stack[n].op = "wait" /\ MayPoint(stack[n], p) =>
      \E m \in 1 .. Len(stack') : OfWait(stack'[m], stack[n].id) /\ MayPoint(stack'[m], p)

LEMMA AlikeWaits ==
    ASSUME NEW f, NEW g, Alike(f, g), f.op = "wait", NEW p
    PROVE  /\ OfWait(g, f.id)
           /\ HasMoved(f, p) => HasMoved(g, p)
           /\ MayPoint(f, p) => MayPoint(g, p)
BY DEF Alike, OfWait, HasMoved, MayPoint

LEMMA CarriedTops ==
    ASSUME Typed, Shape, NEW g, Tops(g), g.op = Top.op, g.op = "wait" => g.id = Top.id,
           NEW p
    PROVE  /\ (g.op = "wait" /\ HasMoved(Top, p) => HasMoved(g, p)) => CarriesMoved(p)
           /\ (g.op = "wait" /\ MayPoint(Top, p) => MayPoint(g, p)) => CarriesPoint(p)
<1> DEFINE l == Len(stack)
<1>1. /\ l \in Nat \ {0} /\ Len(stack') = l
      /\ \A k \in 1 .. l - 1 : stack'[k] = stack[k]
      /\ stack[l] = Top /\ stack'[l] = g
  BY TopFacts DEF Tops
<1> HIDE DEF l, Top
<1>2. ASSUME g.op = "wait" /\ HasMoved(Top, p) => HasMoved(g, p),
             NEW n \in 1 .. l, stack[n].op = "wait", HasMoved(stack[n], p)
      PROVE  OfWait(stack'[n], stack[n].id) /\ HasMoved(stack'[n], p)
  <2>1. CASE n = l
    BY <1>1, <1>2, <2>1 DEF OfWait
  <2>2. CASE n # l
    BY <1>1, <1>2, <2>2 DEF OfWait
  <2> QED  BY <2>1, <2>2
<1>3. ASSUME g.op = "wait" /\ MayPoint(Top, p) => MayPoint(g, p),
             NEW n \in 1 .. l, stack[n].op = "wait", MayPoint(stack[n], p)
      PROVE  OfWait(stack'[n], stack[n].id) /\ MayPoint(stack'[n], p)
  <2>1. CASE n = l
    BY <1>1, <1>3, <2>1 DEF OfWait
  <2>2. CASE n # l
    BY <1>1, <1>3, <2>2 DEF OfWait
  <2> QED  BY <2>1, <2>2
<1> QED  BY <1>1, <1>2, <1>3 DEF CarriesMoved, CarriesPoint, l

LEMMA CarriedPushes ==
    ASSUME Typed, Shape, NEW f, NEW g, Pushes(f, g), Alike(Top, f), NEW p
    PROVE  CarriesMoved(p) /\ CarriesPoint(p)
<1> DEFINE l == Len(stack)
<1>1. /\ l \in Nat \ {0} /\ Len(stack') = l + 1
      /\ \A k \in 1 .. l - 1 : stack'[k] = stack[k]
      /\ stack[l] = Top /\ stack'[l] = f
  BY TopFacts DEF Pushes
<1> HIDE DEF l, Top
<1>2. ASSUME NEW n \in 1 .. l
      PROVE  Alike(stack[n], stack'[n]) /\ n \in 1 .. Len(stack')
  BY <1>1 DEF Alike
<1> QED  BY <1>2, AlikeWaits DEF CarriesMoved, CarriesPoint, l

LEMMA CarriedPops ==
    ASSUME Typed, Shape, Pops, NEW p
    PROVE  /\ ~(Top.op = "wait" /\ HasMoved(Top, p)) => CarriesMoved(p)
           /\ ~(Top.op = "wait" /\ MayPoint(Top, p)) => CarriesPoint(p)
<1> DEFINE l == Len(stack)
<1>1. /\ l \in Nat \ {0} /\ Len(stack') = l - 1
      /\ \A k \in 1 .. l - 1 : stack'[k] = stack[k]
      /\ stack[l] = Top
  BY TopFacts DEF Pops
<1> HIDE DEF l, Top
<1>2. ASSUME NEW n \in 1 .. l, n # l
      PROVE  n \in 1 .. Len(stack') /\ stack'[n] = stack[n]
  BY <1>1, <1>2
<1> QED  BY <1>1, <1>2 DEF CarriesMoved, CarriesPoint, OfWait, l

LEMMA CarriedUnchanged ==
    ASSUME UNCHANGED stack, NEW p
    PROVE  CarriesMoved(p) /\ CarriesPoint(p)
BY DEF CarriesMoved, CarriesPoint, OfWait

LEMMA ParentsBy ==
    ASSUME Parents,
           \A p \in Procs :
             \/ job'[p].parent = Main
             \/ job'[p].parent = job[p].parent /\ CarriesMoved(p)
             \/ \E m \in 1 .. Len(stack') :
                  OfWait(stack'[m], job'[p].parent) /\ HasMoved(stack'[m], p)
    PROVE  Parents'
<1> SUFFICES ASSUME NEW p \in Procs, job'[p].parent # Main
             PROVE  \E m \in 1 .. Len(stack') :
                      OfWait(stack'[m], job'[p].parent) /\ HasMoved(stack'[m], p)
  BY DEF Parents
<1>1. CASE job'[p].parent = job[p].parent /\ CarriesMoved(p)
  <2>1. PICK n \in 1 .. Len(stack) : OfWait(stack[n], job[p].parent)
          /\ HasMoved(stack[n], p)
    BY <1>1 DEF Parents
  <2>2. stack[n].op = "wait" /\ stack[n].id = job[p].parent
    BY <2>1 DEF OfWait
  <2> QED  BY <1>1, <2>1, <2>2 DEF CarriesMoved
<1> QED  BY <1>1

LEMMA PointersBy ==
    ASSUME Pointers,
           \A p \in Procs : FindJob(p)' =>
             \/ job'[p].statusPtr = None
             \/ FindJob(p) /\ job'[p].statusPtr = job[p].statusPtr /\ CarriesPoint(p)
             \/ \E m \in 1 .. Len(stack') :
                  OfWait(stack'[m], job'[p].statusPtr) /\ MayPoint(stack'[m], p)
    PROVE  Pointers'
<1> SUFFICES ASSUME NEW p \in Procs, FindJob(p)', job'[p].statusPtr # None
             PROVE  \E m \in 1 .. Len(stack') :
                      OfWait(stack'[m], job'[p].statusPtr) /\ MayPoint(stack'[m], p)
  BY DEF Pointers
<1>1. CASE FindJob(p) /\ job'[p].statusPtr = job[p].statusPtr /\ CarriesPoint(p)
  <2>1. PICK n \in 1 .. Len(stack) :
          OfWait(stack[n], job[p].statusPtr) /\ MayPoint(stack[n], p)
    BY <1>1 DEF Pointers
  <2>2. stack[n].op = "wait" /\ stack[n].id = job[p].statusPtr
    BY <2>1 DEF OfWait
  <2> QED  BY <1>1, <2>1, <2>2 DEF CarriesPoint
<1> QED  BY <1>1

(* What jobs refer to stays, where each keeps or forgets its own. *)
KeepsRefs(p) ==
    /\ job'[p].parent \in {Main, job[p].parent}
    /\ FindJob(p)' => \/ job'[p].statusPtr = None
                      \/ FindJob(p) /\ job'[p].statusPtr = job[p].statusPtr

LEMMA RefsBy ==
    ASSUME Parents, Pointers,
           \A p \in Procs : CarriesMoved(p) /\ CarriesPoint(p),
           \A p \in Procs : KeepsRefs(p)
    PROVE  Parents' /\ Pointers'
<1>1. Parents'
  BY ParentsBy DEF KeepsRefs
<1>2. Pointers'
  BY PointersBy DEF KeepsRefs
<1> QED  BY <1>1, <1>2

-----------------------------------------------------------------------------
(***************************************************************************)
(* What the steps keep of each process.                                    *)
(***************************************************************************)
LEMMA JobFacts ==
    ASSUME Typed, NEW p \in Procs
    PROVE  /\ job[p] \in JobType /\ pipe[p] \in Nat /\ Room \in Nat \ {0}
           /\ os[p] \in {"none", "running", "zombie", "reaped"}
           /\ job[p].refs \in Nat /\ job[p].reads \in Nat /\ job[p].wrote \in Nat
           /\ job[p].in \in {"none", "open", "closing", "closed"}
           /\ job[p].out \in {"none", "open", "waiting", "closing", "closed"}
           /\ job[p].handle \in {"none", "open", "closing", "closed"}
           /\ job[p].data \in {"none", "live", "leaving", "freed"}
           /\ job[p].cut \in BOOLEAN /\ job[p].stopped \in BOOLEAN
           /\ job[p].jobStopped \in BOOLEAN /\ job[p].killed \in BOOLEAN
           /\ job[p].parent \in 0 .. MaxCalls /\ job[p].statusPtr \in 0 .. MaxCalls
           /\ Arrived(p) \in Int /\ Arrived(p) = job[p].wrote - pipe[p]
           /\ MaxOutput[p] \in Nat
<1>1. job[p] \in JobType /\ pipe[p] \in Nat /\ Room \in Nat \ {0} /\ MaxOutput[p] \in Nat
      /\ os[p] \in {"none", "running", "zombie", "reaped"}
  BY JobsAssumption DEF Typed
<1> QED  BY <1>1 DEF JobType, Arrived

(* A change of a job that keeps its references and its output, but that a  *)
(* stream may be asked to close.                                           *)
Gentle(p) ==
    LET j == job[p]
        k == job'[p]
    IN  \/ k = j
        \/ /\ Known(p)
           /\ k.refs = j.refs /\ k.handle = j.handle /\ k.reads = j.reads
           /\ k.wrote = j.wrote /\ k.data = j.data
           /\ One(k.in) = One(j.in) /\ One(k.out) = One(j.out)
           /\ j.reads > 0 => k.out \in {j.out, "waiting"}
           /\ j.cut => k.cut
           /\ k.out = j.out \/ k.cut

LEMMA WholeGentle ==
    ASSUME Typed, NEW p \in Procs, Whole(p), Gentle(p),
           os'[p] = os[p], pipe'[p] = pipe[p], SameEvents(p), SameFrames(p)
    PROVE  Whole(p)'
<1>1. /\ Referenced(p) /\ Alive(p) /\ Reading(p) /\ Closes(p) /\ Exits(p) /\ Output(p)
  BY DEF Whole
<1>2. /\ job'[p].refs = job[p].refs /\ job'[p].handle = job[p].handle
      /\ job'[p].reads = job[p].reads /\ job'[p].wrote = job[p].wrote
      /\ job'[p].data = job[p].data
      /\ One(job'[p].in) = One(job[p].in) /\ One(job'[p].out) = One(job[p].out)
      /\ job[p].reads > 0 => job'[p].out \in {job[p].out, "waiting"}
      /\ job[p].cut => job'[p].cut
      /\ job'[p].out = job[p].out \/ job'[p].cut
      /\ job[p].data \in {"none", "freed"} => job'[p] = job[p]
  BY DEF Gentle, Known
<1>3. /\ \A what : Queued(p, what)' = Queued(p, what)
      /\ \A op \in {"read", "exit", "flush"} : Running(p, op)' = Running(p, op)
      /\ Draining(p)' > 0 => Draining(p) > 0
      /\ Shortened(p)' > 0 => Shortened(p) > 0
      /\ Holding(p)' = Holding(p)
  BY DEF SameEvents, SameFrames
<1>4. Referenced(p)'
  BY <1>1, <1>2, <1>3 DEF Referenced, HandlesOf
<1>5. Alive(p)'
  BY <1>1, <1>2 DEF Alive
<1>6. Reading(p)'
  BY <1>1, <1>2, <1>3 DEF Reading
<1>7. Closes(p)'
  BY <1>1, <1>2, <1>3 DEF Closes
<1>8. Exits(p)'
  BY <1>1, <1>2, <1>3 DEF Exits
<1>9. Output(p)'
  <2>1. Arrived(p) \in Int /\ Room \in Nat /\ Arrived(p)' = Arrived(p)
    BY <1>2, JobFacts DEF Arrived
  <2>2. Lost(p) => Lost(p)'
    BY <1>2 DEF Lost
  <2>3. Drained(p) => Drained(p)'
    BY <1>2, <2>2 DEF Drained
  <2>4. AtMost(events, p, Arrived(p) - Room) => AtMost(events, p, Arrived(p) - Room)'
    <3> DEFINE n == Arrived(p) - Room
               t == events'
    <3>1. n \in Int /\ n' = n
      BY <2>1
    <3> HIDE DEF n, t
    <3>2. AtMost(events, p, n) => AtMost(t, p, n)
      BY <3>1 DEF SameEvents, t
    <3> QED  BY <2>1, <3>2 DEF n, t
  <2>5. job[p].handle = "open" => job'[p].cut \/ job'[p].out = "open"
    BY <1>1, <1>2 DEF Output
  <2> QED  BY <1>1, <1>2, <1>3, <2>1, <2>2, <2>3, <2>4, <2>5 DEF Output
<1> QED  BY <1>4, <1>5, <1>6, <1>7, <1>8, <1>9 DEF Whole

LEMMA TopItem ==
    ASSUME Typed, Shape, Top.op = "wait", Top.step \in InList \/ Top.i <= Len(Top.list)
    PROVE  Top.list[Top.i] \in Procs /\ Top.i \in 1 .. Len(Top.list)
<1>1. Top \in FrameType /\ Top = stack[Len(stack)] /\ Len(stack) \in 1 .. Len(stack)
  BY TopFacts
<1>2. Top.step \in InList => Top.i <= Len(Top.list)
  BY <1>1 DEF Shape
<1> HIDE DEF Top
<1>3. Top.list \in Lists /\ Top.i \in Nat \ {0}
  BY <1>1, FrameKinds
<1>4. Len(Top.list) \in Nat
  BY <1>3, Listed
<1>5. Top.i \in 1 .. Len(Top.list)
  BY <1>2, <1>3, <1>4
<1> QED  BY <1>3, <1>5, Listed

(* The data of jobs stays. *)
LEMMA TopStays ==
    ASSUME Typed, Shape, TopUses, Top' = Top \/ Alike(Top, Top'),
           \A p \in Procs : Known(p) => Known(p)'
    PROVE  TopUses'
<1>1. Narrow(Top) => Top.list[Top.i] \in Procs /\ Known(Top.list[Top.i])
  BY TopItem DEF Narrow, InList, TopUses
<1>2. CASE Top' = Top
  <2> HIDE DEF Top
  <2> QED  BY <1>1, <1>2 DEF TopUses, Narrow
<1>3. CASE Alike(Top, Top')
  <2> HIDE DEF Top
  <2> QED  BY <1>1, <1>3 DEF TopUses, Narrow, Alike
<1> QED  BY <1>2, <1>3

-----------------------------------------------------------------------------
(***************************************************************************)
(* The steps that leave the stack alone.                                   *)
(***************************************************************************)
LEMMA Still ==
    ASSUME IInv, UNCHANGED <<stack, polling>>, calls' \in Nat, calls <= calls',
           \A p \in Procs : Known(p) => Known(p)', \A p \in Procs : KeepsRefs(p)
    PROVE  Shape' /\ Polls' /\ Above' /\ TopUses' /\ Parents' /\ Pointers'
<1>1. Shape' /\ Above'
  BY UnchangedKeeps DEF IInv
<1>2. Top' = Top
  BY DEF Top
<1>3. Polls'
  BY DEF IInv, Polls, Waiting, Top
<1>4. TopUses'
  BY <1>2, TopStays DEF IInv
<1>5. Parents' /\ Pointers'
  BY CarriedUnchanged, RefsBy DEF IInv
<1> QED  BY <1>1, <1>3, <1>4, <1>5

LEMMA JobChanged ==
    ASSUME Typed, NEW p \in Procs, NEW j \in JobType, job' = [job EXCEPT ![p] = j]
    PROVE  job' \in [Procs -> JobType] /\ job'[p] = j /\ \A q \in Procs : q # p
             => job'[q] = job[q]
BY DEF Typed

(* The sets of which the counters are bounds. *)
Unanswered == {p \in Procs : job[p].stopped /\ os[p] \in {"running", "zombie"}}
Asked == {p \in Procs : job[p].stopped \/ job[p].data = "freed"}
Dead == {p \in Procs : os[p] \in {"zombie", "reaped"}}

LEMMA CountersFacts ==
    ASSUME Typed
    PROVE  /\ IsFiniteSet(Unanswered) /\ IsFiniteSet(Asked) /\ IsFiniteSet(Dead)
           /\ Cardinality(Unanswered) \in Nat /\ Cardinality(Asked) \in Nat
           /\ Cardinality(Dead) \in Nat
           /\ Counters <=> /\ stopRequests >= Cardinality(Unanswered)
                           /\ stopRequests <= Cardinality(Asked)
                           /\ sigchld <= Cardinality(Dead)
<1>1. Unanswered \in SUBSET Procs /\ Asked \in SUBSET Procs /\ Dead \in SUBSET Procs
  BY DEF Unanswered, Asked, Dead
<1>2. IsFiniteSet(Unanswered) /\ IsFiniteSet(Asked) /\ IsFiniteSet(Dead)
  BY <1>1, JobsAssumption, FS_Subset
<1> QED  BY <1>2, FS_CardinalityType DEF Counters, Unanswered, Asked, Dead

LEMMA CountersSame ==
    ASSUME Counters, UNCHANGED <<os, sigchld, stopRequests>>,
           \A p \in Procs : job'[p].stopped = job[p].stopped /\ job'[p].data = job[p].data
    PROVE  Counters'
<1>1. Unanswered' = Unanswered /\ Asked' = Asked /\ Dead' = Dead
  BY DEF Unanswered, Asked, Dead
<1> QED  BY <1>1 DEF Counters, Unanswered, Asked, Dead

LEMMA CountersStop ==
    ASSUME Typed, Typed', Counters, NEW p \in Procs, Known(p), CountStop(job[p]),
           UNCHANGED <<os, sigchld>>, \A q \in Procs : q # p => job'[q] = job[q],
           job'[p].stopped, job'[p].data = job[p].data
    PROVE  Counters'
<1>1. Dead' = Dead
  BY DEF Dead
<1>2. CASE job[p].stopped
  <2>1. Unanswered' = Unanswered /\ Asked' = Asked
    BY <1>2 DEF Unanswered, Asked
  <2> QED  BY <1>1, <1>2, <2>1 DEF CountStop, Counters, Unanswered, Asked, Dead
<1>3. CASE ~job[p].stopped
  <2>1. Unanswered' \subseteq Unanswered \cup {p} /\ Asked' = Asked \cup {p}
          /\ p \notin Asked
    BY <1>3 DEF Unanswered, Asked, Known
  <2>2. /\ IsFiniteSet(Unanswered) /\ IsFiniteSet(Asked)
        /\ Cardinality(Unanswered) \in Nat /\ Cardinality(Asked) \in Nat
        /\ Cardinality(Dead) \in Nat
    BY CountersFacts
  <2> HIDE DEF Unanswered, Asked, Dead
  <2>3. /\ IsFiniteSet(Unanswered \cup {p})
        /\ Cardinality(Unanswered \cup {p}) \in Nat
        /\ Cardinality(Unanswered \cup {p}) <= Cardinality(Unanswered) + 1
    <3>1. IsFiniteSet(Unanswered \cup {p})
      BY <2>2, FS_AddElement
    <3>2. Cardinality(Unanswered \cup {p}) =
            IF p \in Unanswered THEN Cardinality(Unanswered) ELSE Cardinality(Unanswered) + 1
      BY <2>2, FS_AddElement
    <3> QED  BY <2>2, <3>1, <3>2
  <2>4. Cardinality(Asked \cup {p}) = Cardinality(Asked) + 1
    BY <2>1, <2>2, FS_AddElement
  <2>7. Cardinality(Unanswered') <= Cardinality(Unanswered \cup {p})
          /\ Cardinality(Unanswered') \in Nat
    <3> DEFINE A == Unanswered'
               B == Unanswered \cup {p}
    <3>1. A \subseteq B /\ IsFiniteSet(B)
      BY <2>1, <2>3
    <3> HIDE DEF A, B
    <3>2. IsFiniteSet(A) /\ Cardinality(A) <= Cardinality(B)
      BY <3>1, FS_Subset
    <3> QED  BY <3>2, FS_CardinalityType DEF A, B
  <2>5. /\ stopRequests \in Nat /\ stopRequests' = stopRequests + 1
        /\ stopRequests >= Cardinality(Unanswered) /\ stopRequests <= Cardinality(Asked)
        /\ sigchld <= Cardinality(Dead) /\ sigchld' = sigchld
    BY <1>3, CountersFacts DEF CountStop, Typed
  <2>6. /\ stopRequests' >= Cardinality(Unanswered')
        /\ stopRequests' <= Cardinality(Asked')
        /\ sigchld' <= Cardinality(Dead')
    BY <1>1, <2>1, <2>2, <2>3, <2>4, <2>5, <2>7
  <2> QED  BY <2>6 DEF Counters, Unanswered, Asked, Dead
<1> QED  BY <1>2, <1>3

(* A step that changes jobs a little. *)
LEMMA GentleStill ==
    ASSUME IInv, Typed', UNCHANGED <<os, pipe, events, stack, polling>>, calls <= calls',
           \A p \in Procs : Gentle(p) /\ KeepsRefs(p), Counters'
    PROVE  IInv'
<1>1. \A p \in Procs : Known(p) => Known(p)'
  BY DEF Gentle, Known
<1>2. calls' \in Nat
  BY JobsAssumption DEF Typed
<1>3. Shape' /\ Polls' /\ Above' /\ TopUses' /\ Parents' /\ Pointers'
  BY <1>1, <1>2, Still
<1>4. \A p \in Procs : Whole(p)'
  BY WholeGentle, SameEventsBy, SameUnchanged DEF IInv
<1> QED  BY <1>3, <1>4 DEF IInv

LEMMA KillCbKeeps ==
    ASSUME IInv, KillCb
    PROVE  IInv'
<1>1. Typed /\ \A p \in Procs : Whole(p)
  BY DEF IInv
<1>2. PICK p \in children : job' = [job EXCEPT ![p].killed = TRUE]
  BY DEF KillCb
<1>3. p \in Procs /\ job[p].refs > 0 /\ job[p] \in JobType
  BY <1>1, <1>2 DEF children, Typed
<1>4. Known(p)
  BY <1>1, <1>3 DEF Whole, Alive, Known
<1> DEFINE j == [job[p] EXCEPT !.killed = TRUE]
<1>5. /\ j \in JobType /\ j.refs = job[p].refs /\ j.handle = job[p].handle
         /\ j.in = job[p].in
      /\ j.reads = job[p].reads /\ j.wrote = job[p].wrote /\ j.data = job[p].data
      /\ j.out = job[p].out /\ j.cut = job[p].cut /\ j.stopped = job[p].stopped
      /\ j.parent = job[p].parent /\ j.statusPtr = job[p].statusPtr
      /\ j.jobStopped = job[p].jobStopped
  BY <1>3 DEF JobType
<1> HIDE DEF j
<1>6. job' \in [Procs -> JobType] /\ job'[p] = j /\ \A q \in Procs : q # p
        => job'[q] = job[q]
  BY <1>1, <1>2, <1>3, <1>5, JobChanged DEF j
<1>7. Typed' /\ UNCHANGED <<os, pipe, events, stack, polling, sigchld, stopRequests, calls>>
  BY <1>1, <1>6 DEF Typed, KillCb, osVars
<1>8. ASSUME NEW q \in Procs
      PROVE  /\ Gentle(q) /\ KeepsRefs(q)
             /\ job'[q].stopped = job[q].stopped /\ job'[q].data = job[q].data
  BY <1>3, <1>4, <1>5, <1>6 DEF Gentle, KeepsRefs, FindJob, Known
<1>9. Counters'
  BY <1>7, <1>8, CountersSame DEF IInv
<1>10. calls <= calls'
  BY <1>7, JobsAssumption DEF Typed
<1> QED  BY <1>7, <1>8, <1>9, <1>10, GentleStill

LEMMA InterruptKeeps ==
    ASSUME IInv, Interrupt
    PROVE  IInv'
<1>1. Typed' /\ UNCHANGED <<os, pipe, events, stack, polling, sigchld, stopRequests, job>>
  BY JobsAssumption DEF IInv, Typed, Interrupt, Calls, osVars, procVars
<1>2. calls <= calls'
  BY JobsAssumption DEF IInv, Typed, Interrupt, Calls
<1>3. \A p \in Procs : Gentle(p) /\ KeepsRefs(p)
  BY <1>1 DEF Gentle, KeepsRefs, FindJob, Known
<1>4. Counters'
  BY <1>1, CountersSame DEF IInv
<1> QED  BY <1>1, <1>2, <1>3, <1>4, GentleStill

(* Streams that are asked to close. *)
LEMMA CloseStreamIs ==
    ASSUME NEW s, NEW n \in Nat
    PROVE  /\ One(CloseStream(s, n)) = One(s)
           /\ n > 0 => CloseStream(s, n) \in {s, "waiting"}
           /\ n = 0 => CloseStream(s, n) \in {s, "closing"}
           /\ CloseStream(s, n) \in {s, "waiting", "closing"}
BY DEF CloseStream, One

SameButStreams(j, k) ==
    /\ k.refs = j.refs /\ k.handle = j.handle /\ k.reads = j.reads /\ k.wrote = j.wrote
    /\ k.data = j.data /\ k.parent = j.parent /\ k.statusPtr = j.statusPtr
    /\ k.jobStopped = j.jobStopped /\ k.killed = j.killed

StreamsAsked(j, k) ==
    /\ One(k.in) = One(j.in) /\ One(k.out) = One(j.out)
    /\ j.reads > 0 => k.out \in {j.out, "waiting"}
    /\ j.cut => k.cut

LEMMA CloseStreamsIs ==
    ASSUME NEW j \in JobType
    PROVE  /\ CloseStreams(j) \in JobType /\ SameButStreams(j, CloseStreams(j))
           /\ StreamsAsked(j, CloseStreams(j))
           /\ CloseStreams(j).cut = j.cut /\ CloseStreams(j).stopped = j.stopped
<1> DEFINE i == CloseStream(j.in, 0)
           o == CloseStream(j.out, j.reads)
           k == [j EXCEPT !.in = i, !.out = o]
<1>1. CloseStreams(j) = k
  BY DEF CloseStreams
<1>2. j.reads \in Nat
  BY DEF JobType
<1>3. /\ One(i) = One(j.in) /\ i \in {j.in, "closing"} /\ One(o) = One(j.out)
      /\ j.reads > 0 => o \in {j.out, "waiting"}
      /\ o \in {j.out, "waiting", "closing"}
  BY <1>2, CloseStreamIs
<1> HIDE DEF i, o
<1>4. k \in JobType
  BY <1>3 DEF JobType
<1>5. SameButStreams(j, k)
  BY DEF SameButStreams, JobType
<1>6. StreamsAsked(j, k) /\ k.cut = j.cut /\ k.stopped = j.stopped
  BY <1>3 DEF StreamsAsked, JobType
<1> QED  BY <1>1, <1>4, <1>5, <1>6

LEMMA StoppedIs ==
    ASSUME NEW p, NEW j \in JobType
    PROVE  /\ Stopped(p, j) \in JobType /\ SameButStreams(j, Stopped(p, j))
           /\ StreamsAsked(j, Stopped(p, j)) /\ Stopped(p, j).stopped
           /\ Stopped(p, j).out = j.out \/ Stopped(p, j).cut
<1>1. CASE j.stopped
  <2>1. Stopped(p, j) = j
    BY <1>1 DEF Stopped
  <2> QED  BY <1>1, <2>1 DEF SameButStreams, StreamsAsked
<1>2. CASE ~j.stopped /\ p \in Pty
  <2> DEFINE c == CloseStreams(j)
             k == [c EXCEPT !.cut = TRUE, !.stopped = TRUE]
  <2>1. c \in JobType /\ SameButStreams(j, c) /\ StreamsAsked(j, c)
    BY CloseStreamsIs
  <2>2. Stopped(p, j) = [[c EXCEPT !.cut = TRUE] EXCEPT !.stopped = TRUE]
    BY <1>2 DEF Stopped
  <2> HIDE DEF c
  <2>3. /\ k \in JobType /\ k.cut /\ k.stopped
        /\ k.refs = c.refs /\ k.handle = c.handle /\ k.reads = c.reads /\ k.wrote = c.wrote
        /\ k.data = c.data /\ k.parent = c.parent /\ k.statusPtr = c.statusPtr
        /\ k.jobStopped = c.jobStopped /\ k.killed = c.killed
        /\ k.in = c.in /\ k.out = c.out
    BY <2>1 DEF JobType
  <2>4. Stopped(p, j) = k
    BY <2>1, <2>2 DEF JobType
  <2> HIDE DEF k
  <2> QED  BY <2>1, <2>3, <2>4 DEF SameButStreams, StreamsAsked
<1>3. CASE ~j.stopped /\ p \notin Pty
  <2> DEFINE i == CloseStream(j.in, 0)
             k == [j EXCEPT !.in = i, !.stopped = TRUE]
  <2>1. One(i) = One(j.in) /\ i \in {j.in, "closing"}
    BY CloseStreamIs
  <2>2. Stopped(p, j) = [[j EXCEPT !.in = i] EXCEPT !.stopped = TRUE]
    BY <1>3 DEF Stopped
  <2> HIDE DEF i
  <2>3. /\ k \in JobType /\ k.cut = j.cut /\ k.stopped
        /\ k.refs = j.refs /\ k.handle = j.handle /\ k.reads = j.reads /\ k.wrote = j.wrote
        /\ k.data = j.data /\ k.parent = j.parent /\ k.statusPtr = j.statusPtr
        /\ k.jobStopped = j.jobStopped /\ k.killed = j.killed
        /\ k.in = i /\ k.out = j.out
    BY <2>1 DEF JobType
  <2>4. Stopped(p, j) = k
    BY <2>1, <2>2 DEF JobType
  <2> HIDE DEF k
  <2> QED  BY <2>1, <2>3, <2>4 DEF SameButStreams, StreamsAsked
<1> QED  BY <1>1, <1>2, <1>3

LEMMA GentleBy ==
    ASSUME NEW p, Known(p), SameButStreams(job[p], job'[p]), StreamsAsked(job[p], job'[p]),
           job'[p].out = job[p].out \/ job'[p].cut
    PROVE  Gentle(p)
BY DEF Gentle, SameButStreams, StreamsAsked

LEMMA JobStopKeeps ==
    ASSUME IInv, NEW p \in Procs, JobStop(p)
    PROVE  IInv'
<1> DEFINE s == Stopped(p, job[p])
           j == [s EXCEPT !.jobStopped = TRUE]
<1>1. Typed /\ job[p] \in JobType /\ FindJob(p) /\ Known(p) /\ Calls
      /\ CountStop(job[p])
         /\ UNCHANGED <<os, pipe, events, stack, polling, sigchld, gotInt>>
      /\ job' = [job EXCEPT ![p] = j]
  BY DEF IInv, Typed, JobStop, FindJob, osVars
<1>2. s \in JobType /\ SameButStreams(job[p], s) /\ StreamsAsked(job[p], s) /\ s.stopped
      /\ (s.out = job[p].out \/ s.cut)
  BY <1>1, StoppedIs
<1> HIDE DEF s
<1>3. /\ j \in JobType /\ j.refs = s.refs /\ j.handle = s.handle /\ j.in = s.in
      /\ j.reads = s.reads /\ j.wrote = s.wrote /\ j.data = s.data
      /\ j.out = s.out /\ j.cut = s.cut /\ j.stopped = s.stopped
      /\ j.parent = s.parent /\ j.statusPtr = s.statusPtr /\ j.jobStopped
  BY <1>2 DEF JobType
<1> HIDE DEF j
<1>4. job' \in [Procs -> JobType] /\ job'[p] = j /\ \A q \in Procs : q # p
        => job'[q] = job[q]
  BY <1>1, <1>3, JobChanged
<1>5. Typed' /\ calls <= calls'
  <2>1. stopRequests' \in Nat
    BY <1>1 DEF CountStop, Typed
  <2>2. calls' \in 0 .. MaxCalls /\ calls <= calls'
    BY <1>1, JobsAssumption DEF Calls, Typed
  <2> QED  BY <1>1, <1>4, <2>1, <2>2 DEF Typed
<1>6. Gentle(p) /\ KeepsRefs(p)
  BY <1>1, <1>2, <1>3, <1>4 DEF Gentle, KeepsRefs, FindJob, SameButStreams, StreamsAsked
<1>7. \A q \in Procs : q # p => Gentle(q) /\ KeepsRefs(q)
  BY <1>4 DEF Gentle, KeepsRefs, FindJob, Known
<1>8. Counters'
  <2>1. job'[p].stopped /\ job'[p].data = job[p].data
    BY <1>2, <1>3, <1>4 DEF SameButStreams
  <2> QED  BY <1>1, <1>4, <1>5, <2>1, CountersStop DEF IInv
<1> QED  BY <1>1, <1>5, <1>6, <1>7, <1>8, GentleStill

(* A stream closed by jobclose: the input, or the output, which is cut. *)
LEMMA JobCloseKeeps ==
    ASSUME IInv, NEW p \in Procs, JobClose(p)
    PROVE  IInv'
<1>1. Typed /\ job[p] \in JobType /\ FindJob(p) /\ Known(p) /\ Calls
      /\ UNCHANGED <<os, pipe, events, stack, polling, sigchld, gotInt, stopRequests>>
  BY DEF IInv, Typed, JobClose, FindJob, osVars
<1>2. job[p].reads \in Nat /\ job[p].in \in {"none", "open", "closing", "closed"}
      /\ job[p].out \in {"none", "open", "waiting", "closing", "closed"}
  BY <1>1 DEF JobType
<1> DEFINE i == CloseStream(job[p].in, 0)
           o == CloseStream(job[p].out, job[p].reads)
           c == CloseStreams(job[p])
           Is(j) == /\ j \in JobType /\ job' = [job EXCEPT ![p] = j]
                    /\ SameButStreams(job[p], j) /\ StreamsAsked(job[p], j)
                    /\ j.out = job[p].out \/ j.cut
                    /\ j.stopped = job[p].stopped
<1>3. /\ One(i) = One(job[p].in) /\ i \in {job[p].in, "closing"} /\ One(o) = One(job[p].out)
      /\ job[p].reads > 0 => o \in {job[p].out, "waiting"}
      /\ o \in {job[p].out, "waiting", "closing"}
  BY <1>2, CloseStreamIs
<1>4. \/ job' = [job EXCEPT ![p].in = i]
      \/ job' = [job EXCEPT ![p].out = o, ![p].cut = TRUE]
      \/ job' = [job EXCEPT ![p] = [c EXCEPT !.cut = TRUE]]
  BY DEF JobClose
<1>5. c \in JobType /\ SameButStreams(job[p], c) /\ StreamsAsked(job[p], c)
      /\ c.stopped = job[p].stopped
  BY <1>1, CloseStreamsIs
<1> HIDE DEF i, o, c
<1>6. \E j : Is(j)
  <2>1. CASE job' = [job EXCEPT ![p].in = i]
    <3> DEFINE j == [job[p] EXCEPT !.in = i]
    <3>1. j \in JobType /\ job' = [job EXCEPT ![p] = j]
      BY <1>1, <1>2, <1>3, <2>1 DEF JobType
    <3>2. SameButStreams(job[p], j) /\ StreamsAsked(job[p], j)
          /\ j.out = job[p].out /\ j.stopped = job[p].stopped
      BY <1>1, <1>3 DEF JobType, SameButStreams, StreamsAsked
    <3> QED  BY <3>1, <3>2
  <2>2. CASE job' = [job EXCEPT ![p].out = o, ![p].cut = TRUE]
    <3> DEFINE j == [job[p] EXCEPT !.out = o, !.cut = TRUE]
    <3>1. j \in JobType
      BY <1>1, <1>2, <1>3 DEF JobType
    <3>2. job' = [job EXCEPT ![p] = j]
      BY <1>1, <2>2 DEF Typed, JobType
    <3>3. SameButStreams(job[p], j) /\ StreamsAsked(job[p], j)
          /\ j.cut /\ j.stopped = job[p].stopped
      BY <1>1, <1>3 DEF JobType, SameButStreams, StreamsAsked
    <3> QED  BY <3>1, <3>2, <3>3
  <2>3. CASE job' = [job EXCEPT ![p] = [c EXCEPT !.cut = TRUE]]
    <3> DEFINE j == [c EXCEPT !.cut = TRUE]
    <3>1. j \in JobType /\ job' = [job EXCEPT ![p] = j]
      BY <1>5, <2>3 DEF JobType
    <3>2. SameButStreams(job[p], j) /\ StreamsAsked(job[p], j)
          /\ j.cut /\ j.stopped = job[p].stopped
      BY <1>5 DEF JobType, SameButStreams, StreamsAsked
    <3> QED  BY <3>1, <3>2
  <2> QED  BY <1>4, <2>1, <2>2, <2>3
<1>7. PICK j : Is(j)
  BY <1>6
<1>8. job' \in [Procs -> JobType] /\ job'[p] = j /\ \A q \in Procs : q # p
        => job'[q] = job[q]
  BY <1>1, <1>7, JobChanged
<1>9. Typed' /\ calls <= calls'
  <2>1. calls' \in 0 .. MaxCalls /\ calls <= calls'
    BY <1>1, JobsAssumption DEF Calls, Typed
  <2> QED  BY <1>1, <1>8, <2>1 DEF Typed
<1>10. Gentle(p) /\ KeepsRefs(p)
  BY <1>1, <1>7, <1>8, GentleBy DEF KeepsRefs, FindJob, SameButStreams
<1>11. \A q \in Procs : q # p => Gentle(q) /\ KeepsRefs(q)
  BY <1>8 DEF Gentle, KeepsRefs, FindJob, Known
<1>12. Counters'
  <2>1. job'[p].stopped = job[p].stopped /\ job'[p].data = job[p].data
    BY <1>7, <1>8 DEF SameButStreams
  <2> QED  BY <1>1, <1>8, <2>1, CountersSame DEF IInv
<1> QED  BY <1>1, <1>9, <1>10, <1>11, <1>12, GentleStill

(***************************************************************************)
(* The children, and what a poll reads and reaps.                          *)
(***************************************************************************)
LEMMA NoClose ==
    ASSUME Typed, NEW p \in Procs, Queued(p, "close") = 0, NEW n
    PROVE  AtMost(events, p, n)
<1>1. Len(events) \in Nat
  BY DEF Typed
<1>2. \A k \in 1 .. Len(events) : events[k] \notin {Event(p, "close")}
  BY <1>1, UptoNat DEF Queued, Count
<1> QED  BY <1>2 DEF AtMost

LEMMA DrainsRun ==
    ASSUME Typed, NEW p \in Procs
    PROVE  Draining(p) > 0 => Running(p, "flush") > 0
<1>1. Len(stack) \in Nat
  BY DEF Typed
<1>2. /\ Draining(p) \in Nat /\ Running(p, "flush") \in Nat
      /\ Draining(p) = 0 <=> \A k \in 1 .. Len(stack) : stack[k] \notin Drains(p)
      /\ Running(p, "flush") = 0 <=>
           \A k \in 1 .. Len(stack) : stack[k] \notin Callbacks(p, "flush")
  BY <1>1, UptoNat DEF Draining, Running, Count
<1>3. Drains(p) \subseteq Callbacks(p, "flush")
  BY DEF Drains
<1> QED  BY <1>2, <1>3

LEMMA ShortsRun ==
    ASSUME Typed, NEW p \in Procs
    PROVE  Shortened(p) > 0 => Running(p, "flush") > 0
<1>1. Len(stack) \in Nat
  BY DEF Typed
<1>2. /\ Shortened(p) \in Nat /\ Running(p, "flush") \in Nat
      /\ Shortened(p) = 0 <=> \A k \in 1 .. Len(stack) : stack[k] \notin Shorts(p)
      /\ Running(p, "flush") = 0 <=>
           \A k \in 1 .. Len(stack) : stack[k] \notin Callbacks(p, "flush")
  BY <1>1, UptoNat DEF Shortened, Running, Count
<1>3. Shorts(p) \subseteq Callbacks(p, "flush")
  BY DEF Shorts
<1> QED  BY <1>2, <1>3

(* A child that was not reaped. *)
LEMMA ChildFacts ==
    ASSUME Typed, NEW p \in Procs, Whole(p), os[p] \in {"running", "zombie"}
    PROVE  /\ job[p].data = "live" /\ job[p].handle = "open" /\ job[p].refs > 0
           /\ Queued(p, "close") = 0 /\ Running(p, "flush") = 0 /\ Draining(p) = 0
           /\ Shortened(p) = 0
           /\ pipe[p] + job[p].reads <= job[p].wrote /\ job[p].wrote <= MaxOutput[p]
<1>1. /\ job[p].handle = "open" /\ job[p].refs = HandlesOf(job[p]) + Holding(p)
      /\ job[p].refs > 0 => job[p].data = "live"
      /\ job[p].data = "live" => pipe[p] + job[p].reads <= job[p].wrote
      /\ job[p].wrote <= MaxOutput[p]
  BY DEF Whole, Alive, Referenced
<1>2. HandlesOf(job[p]) \in Nat /\ HandlesOf(job[p]) > 0
  BY <1>1 DEF HandlesOf, One
<1>3. job[p].refs > 0
  BY <1>1, <1>2, Numbers
<1>4. Queued(p, "close") + Running(p, "flush") = 0
  BY DEF Whole, Closes
<1>5. Queued(p, "close") = 0 /\ Running(p, "flush") = 0
  <2>1. Queued(p, "close") \in Nat /\ Running(p, "flush") \in Nat
    BY Numbers
  <2> QED  BY <1>4, <2>1
<1>6. Draining(p) = 0 /\ Shortened(p) = 0
  <2>1. Draining(p) \in Nat /\ Shortened(p) \in Nat
    BY Numbers
  <2> QED  BY <1>5, <2>1, DrainsRun, ShortsRun
<1> QED  BY <1>1, <1>3, <1>5, <1>6

(* A change of a job that no script sees. *)
Unseen(p) ==
    /\ job'[p].data = job[p].data /\ job'[p].parent = job[p].parent
    /\ job'[p].statusPtr = job[p].statusPtr /\ job'[p].jobStopped = job[p].jobStopped
    /\ job'[p].stopped = job[p].stopped

LEMMA UnseenKeeps ==
    ASSUME NEW p, Unseen(p)
    PROVE  KeepsRefs(p) /\ (Known(p) => Known(p)')
BY DEF Unseen, KeepsRefs, FindJob, Known

LEMMA ChildWritesKeeps ==
    ASSUME IInv, NEW p \in Procs, ChildWrites(p)
    PROVE  IInv'
<1>1. /\ Typed /\ Whole(p) /\ os[p] = "running" /\ job[p].wrote < MaxOutput[p]
      /\ pipe' = [pipe EXCEPT ![p] = @ + 1] /\ job[p] \in JobType
      /\ UNCHANGED <<os, sigchld, stopRequests, events, stack, polling, gotInt, calls>>
  BY DEF IInv, ChildWrites, Typed
<1> DEFINE j == [job[p] EXCEPT !.wrote = @ + 1]
<1>2. /\ j \in JobType /\ j.refs = job[p].refs /\ j.handle = job[p].handle
         /\ j.in = job[p].in
      /\ j.reads = job[p].reads /\ j.wrote = job[p].wrote + 1 /\ j.data = job[p].data
      /\ j.out = job[p].out /\ j.cut = job[p].cut /\ j.stopped = job[p].stopped
      /\ j.parent = job[p].parent /\ j.statusPtr = job[p].statusPtr
      /\ j.jobStopped = job[p].jobStopped
  BY <1>1 DEF JobType
<1>3. job' = [job EXCEPT ![p] = j]
  BY DEF ChildWrites
<1> HIDE DEF j
<1>4. job' \in [Procs -> JobType] /\ job'[p] = j /\ \A q \in Procs : q # p
        => job'[q] = job[q]
  BY <1>1, <1>2, <1>3, JobChanged
<1>5. /\ job[p].data = "live" /\ job[p].handle = "open" /\ job[p].refs > 0
      /\ Queued(p, "close") = 0 /\ Running(p, "flush") = 0 /\ Draining(p) = 0
      /\ Shortened(p) = 0
      /\ pipe[p] + job[p].reads <= job[p].wrote /\ job[p].wrote \in Nat
         /\ job[p].reads \in Nat
      /\ pipe[p] \in Nat /\ MaxOutput[p] \in Nat
  BY <1>1, ChildFacts, JobFacts
<1>6. pipe'[p] = pipe[p] + 1 /\ \A q \in Procs : q # p => pipe'[q] = pipe[q]
  BY <1>1 DEF Typed
<1>7. Typed'
  <2>1. pipe' \in [Procs -> Nat] /\ \A q \in Procs : pipe'[q] <= MaxOutput[q]
    BY <1>1, <1>5, <1>6 DEF Typed
  <2> QED  BY <1>1, <1>4, <2>1 DEF Typed
<1>8. \A q \in Procs : Unseen(q)
  BY <1>2, <1>4 DEF Unseen
<1>9. SameEvents(p) /\ SameFrames(p)
  BY <1>1, SameEventsBy, SameUnchanged
<1>10. Whole(p)'
  <2>1. Referenced(p)'
    BY <1>1, <1>2, <1>4, <1>9 DEF Referenced, HandlesOf, SameFrames, Whole
  <2>2. Alive(p)'
    BY <1>1, <1>2, <1>4, <1>5, <1>6 DEF Alive, Whole
  <2>3. Reading(p)' /\ Closes(p)' /\ Exits(p)'
    BY <1>1, <1>2, <1>4, <1>5, <1>9 DEF Reading, Closes, Exits, SameFrames, SameEvents,
       Whole
  <2>4. Output(p)'
    <3>1. AtMost(events, p, Arrived(p) - Room)'
      <4>1. \A n : AtMost(events, p, n)
        BY <1>1, <1>5, NoClose
      <4> QED  BY <1>1, <4>1
    <3> QED  BY <1>1, <1>2, <1>4, <1>5, <1>9, <3>1 DEF Output, Whole, SameFrames
  <2> QED  BY <2>1, <2>2, <2>3, <2>4 DEF Whole
<1>11. ASSUME NEW q \in Procs, q # p
       PROVE  Whole(q)'
  <2>1. Gentle(q)
    BY <1>4, <1>11 DEF Gentle
  <2>2. SameEvents(q) /\ SameFrames(q) /\ Whole(q)
    BY <1>1, SameEventsBy, SameUnchanged DEF IInv
  <2> QED  BY <1>1, <1>6, <1>11, <2>1, <2>2, WholeGentle
<1>12. Counters'
  BY <1>1, <1>8, CountersSame DEF IInv, Unseen
<1>13. Shape' /\ Polls' /\ Above' /\ TopUses' /\ Parents' /\ Pointers'
  <2>1. calls' \in Nat /\ calls <= calls'
    BY <1>1, JobsAssumption DEF Typed
  <2> QED  BY <1>1, <1>8, <2>1, UnseenKeeps, Still
<1> QED  BY <1>7, <1>10, <1>11, <1>12, <1>13 DEF IInv

LEMMA ChildExitsKeeps ==
    ASSUME IInv, NEW p \in Procs, ChildExits(p)
    PROVE  IInv'
<1>1. /\ Typed /\ Whole(p) /\ os[p] = "running" /\ os' = [os EXCEPT ![p] = "zombie"]
      /\ UNCHANGED <<pipe, job, stopRequests, events, stack, polling, gotInt, calls>>
      /\ sigchld \in Nat /\ sigchld' \in Nat /\ sigchld' <= sigchld + 1
  BY DEF IInv, ChildExits, Typed, procVars
<1>2. os'[p] = "zombie" /\ \A q \in Procs : q # p => os'[q] = os[q]
  BY <1>1 DEF Typed
<1>3. Typed'
  BY <1>1 DEF Typed
<1>4. job[p].data = "live" /\ job[p].handle = "open" /\ Queued(p, "close") = 0
      /\ Running(p, "flush") = 0
  BY <1>1, ChildFacts
<1>5. SameEvents(p) /\ SameFrames(p)
  BY <1>1, SameEventsBy, SameUnchanged
<1>6. Whole(p)'
  <2>1. Referenced(p)' /\ Reading(p)' /\ Exits(p)'
    BY <1>1, <1>5 DEF Referenced, Reading, Exits, HandlesOf, SameFrames, SameEvents, Whole
  <2>2. Alive(p)'
    BY <1>1, <1>2, <1>4 DEF Alive, Whole
  <2>3. Closes(p)'
    BY <1>4, <1>5 DEF Closes, SameFrames, SameEvents
  <2>4. Output(p)'
    BY <1>1, <1>5 DEF Output, Whole, SameFrames, SameEvents, Lost, Drained, Arrived
  <2> QED  BY <2>1, <2>2, <2>3, <2>4 DEF Whole
<1>7. ASSUME NEW q \in Procs, q # p
      PROVE  Whole(q)'
  <2>1. Gentle(q)
    BY <1>1 DEF Gentle
  <2>2. SameEvents(q) /\ SameFrames(q) /\ Whole(q)
    BY <1>1, SameEventsBy, SameUnchanged DEF IInv
  <2> QED  BY <1>1, <1>2, <1>7, <2>1, <2>2, WholeGentle
<1>8. Counters'
  <2>1. Unanswered' = Unanswered /\ Asked' = Asked
    BY <1>1, <1>2 DEF Unanswered, Asked
  <2>2. Dead' = Dead \cup {p} /\ p \notin Dead
    BY <1>1, <1>2 DEF Dead
  <2>3. IsFiniteSet(Dead) /\ Cardinality(Dead) \in Nat
        /\ stopRequests >= Cardinality(Unanswered)
        /\ stopRequests <= Cardinality(Asked) /\ sigchld <= Cardinality(Dead)
    BY <1>1, CountersFacts DEF IInv
  <2> HIDE DEF Dead
  <2>4. Cardinality(Dead \cup {p}) = Cardinality(Dead) + 1
    BY <2>2, <2>3, FS_AddElement
  <2>5. stopRequests' >= Cardinality(Unanswered') /\ stopRequests' <= Cardinality(Asked')
        /\ sigchld' <= Cardinality(Dead')
    BY <1>1, <2>1, <2>2, <2>3, <2>4
  <2> QED  BY <2>5 DEF Counters, Unanswered, Asked, Dead
<1>9. Shape' /\ Polls' /\ Above' /\ TopUses' /\ Parents' /\ Pointers'
  <2>1. calls' \in Nat /\ calls <= calls'
    BY <1>1, JobsAssumption DEF Typed
  <2>2. \A q \in Procs : Unseen(q)
    BY <1>1 DEF Unseen
  <2> QED  BY <1>1, <2>1, <2>2, UnseenKeeps, Still
<1> QED  BY <1>3, <1>6, <1>7, <1>8, <1>9 DEF IInv

LEMMA OtherEvents ==
    ASSUME Typed, NEW p \in Procs, NEW w \in {"read", "close", "exit"},
           events' = Append(events, Event(p, w)), NEW q \in Procs, q # p
    PROVE  SameEvents(q)
<1> DEFINE e == Event(p, w)
<1>1. e \in EventType
  BY DEF Event, EventType
<1>2. \A v : e # Event(q, v)
  BY EventIs
<1> HIDE DEF e
<1>3. events' = Append(events, e)
  BY DEF e
<1>4. /\ \A what : Queued(q, what)' = Queued(q, what) + In(e, {Event(q, what)})
      /\ \A n \in Int : AtMost(events, q, n) =>
           /\ e \notin {Event(q, "read"), Event(q, "close")} => AtMost(events', q, n)
           /\ e = Event(q, "read") => AtMost(events', q, n + 1)
  BY <1>1, <1>3, EventAdded
<1>5. \A what : In(e, {Event(q, what)}) = 0
  BY <1>2 DEF In
<1>6. ASSUME NEW what
      PROVE  Queued(q, what)' = Queued(q, what)
  <2>1. Queued(q, what) \in Nat /\ In(e, {Event(q, what)}) = 0
    BY <1>5, Numbers
  <2>2. Queued(q, what)' = Queued(q, what) + In(e, {Event(q, what)})
    BY <1>4
  <2> HIDE DEF Queued, In
  <2> QED  BY <2>1, <2>2
<1> QED  BY <1>2, <1>4, <1>6 DEF SameEvents

(* A stream that is open keeps the data of its process. *)
LEMMA OpenIsLive ==
    ASSUME Typed, NEW p \in Procs, Whole(p),
           One(job[p].in) = 1 \/ One(job[p].out) = 1 \/ One(job[p].handle) = 1
    PROVE  job[p].refs > 0 /\ job[p].data = "live"
<1>1. HandlesOf(job[p]) \in Nat /\ HandlesOf(job[p]) > 0
  BY DEF HandlesOf, One
<1>2. job[p].refs > 0
  BY <1>1, Numbers DEF Whole, Referenced
<1> QED  BY <1>2 DEF Whole, Alive

LEMMA ReadCbKeeps ==
    ASSUME IInv, NEW p \in Procs, ReadCb(p)
    PROVE  IInv'
<1>1. /\ Typed /\ Whole(p) /\ pipe[p] > 0 /\ job[p].out \in {"open", "waiting"}
      /\ pipe' = [pipe EXCEPT ![p] = @ - 1] /\ job[p] \in JobType /\ pipe[p] \in Nat
      /\ events' = Append(events, Event(p, "read"))
      /\ UNCHANGED <<os, sigchld, stopRequests, stack, polling, gotInt, calls>>
  BY DEF IInv, ReadCb, Readable, Typed
<1> DEFINE j == [job[p] EXCEPT !.reads = @ + 1]
<1>2. /\ j \in JobType /\ j.refs = job[p].refs /\ j.handle = job[p].handle
         /\ j.in = job[p].in
      /\ j.reads = job[p].reads + 1 /\ j.wrote = job[p].wrote /\ j.data = job[p].data
      /\ j.out = job[p].out /\ j.cut = job[p].cut /\ j.stopped = job[p].stopped
      /\ j.parent = job[p].parent /\ j.statusPtr = job[p].statusPtr
      /\ j.jobStopped = job[p].jobStopped
  <2>1. job[p].reads \in Nat
    BY <1>1 DEF JobType
  <2>2. j \in JobType
    <3> DEFINE n == job[p].reads + 1
    <3>1. n \in Nat /\ j = [job[p] EXCEPT !.reads = n]
      BY <2>1
    <3> HIDE DEF n, j
    <3> QED  BY <1>1, <3>1 DEF JobType
  <2> QED  BY <1>1, <2>2 DEF JobType
<1>3. job' = [job EXCEPT ![p] = j]
  BY DEF ReadCb
<1> HIDE DEF j
<1>4. job' \in [Procs -> JobType] /\ job'[p] = j /\ \A q \in Procs : q # p
        => job'[q] = job[q]
  BY <1>1, <1>2, <1>3, JobChanged
<1>5. /\ job[p].data = "live" /\ job[p].refs > 0
      /\ pipe[p] + job[p].reads <= job[p].wrote /\ job[p].wrote \in Nat
         /\ job[p].reads \in Nat
      /\ MaxOutput[p] \in Nat /\ job[p].wrote <= MaxOutput[p]
      /\ Arrived(p) \in Int /\ Room \in Nat
  <2>1. One(job[p].out) = 1
    BY <1>1 DEF One
  <2>2. job[p].data = "live" /\ job[p].refs > 0
    BY <1>1, <2>1, OpenIsLive
  <2> QED  BY <1>1, <2>2, JobFacts DEF Whole, Alive
<1>6. pipe'[p] = pipe[p] - 1 /\ pipe'[p] \in Nat /\ \A q \in Procs : q # p
        => pipe'[q] = pipe[q]
  BY <1>1 DEF Typed
<1>7. /\ events' \in Seq(EventType)
      /\ Queued(p, "read")' = Queued(p, "read") + 1
      /\ \A w \in {"close", "exit"} : Queued(p, w)' = Queued(p, w)
      /\ \A n \in Int : AtMost(events, p, n) => AtMost(events', p, n + 1)
  <2> DEFINE e == Event(p, "read")
  <2>1. e \in EventType /\ e = Event(p, "read")
    BY DEF Event, EventType
  <2>2. In(e, {Event(p, "read")}) = 1
          /\ \A w \in {"close", "exit"} : In(e, {Event(p, w)}) = 0
    BY EventIs DEF In
  <2> HIDE DEF e
  <2>3. events' = Append(events, e)
    BY <1>1 DEF e
  <2>4. /\ events' \in Seq(EventType)
        /\ \A what : Queued(p, what)' = Queued(p, what) + In(e, {Event(p, what)})
        /\ \A n \in Int : AtMost(events, p, n) =>
             /\ e \notin {Event(p, "read"), Event(p, "close")} => AtMost(events', p, n)
             /\ e = Event(p, "read") => AtMost(events', p, n + 1)
    BY <1>1, <2>1, <2>3, EventAdded
  <2>5. \A what : Queued(p, what) \in Nat
    BY <1>1, Numbers
  <2>6. ASSUME NEW n \in Int, AtMost(events, p, n)
        PROVE  AtMost(events', p, n + 1)
    BY <2>1, <2>4, <2>6
  <2>7. ASSUME NEW w \in {"close", "exit"}
        PROVE  Queued(p, w)' = Queued(p, w)
    <3>1. Queued(p, w)' = Queued(p, w) + In(e, {Event(p, w)}) /\ In(e, {Event(p, w)}) = 0
      BY <2>2, <2>4
    <3> QED  BY <2>5, <3>1
  <2>8. Queued(p, "read")' = Queued(p, "read") + 1
    BY <2>2, <2>4
  <2> QED  BY <2>4, <2>6, <2>7, <2>8
<1>8. Typed'
  <2>1. pipe' \in [Procs -> Nat] /\ \A q \in Procs : pipe'[q] <= MaxOutput[q]
    BY <1>1, <1>5, <1>6 DEF Typed
  <2> QED  BY <1>1, <1>4, <1>7, <2>1 DEF Typed
<1>9. \A q \in Procs : Unseen(q)
  BY <1>2, <1>4 DEF Unseen
<1>10. SameFrames(p)
  BY <1>1, SameUnchanged
<1>11. Whole(p)'
  <2>1. Referenced(p)'
    BY <1>1, <1>2, <1>4, <1>10 DEF Referenced, HandlesOf, SameFrames, Whole
  <2>2. Alive(p)'
    BY <1>1, <1>2, <1>4, <1>5, <1>6 DEF Alive, Whole
  <2>3. Reading(p)'
    <3>1. /\ job[p].reads = Queued(p, "read") + Running(p, "read")
          /\ Queued(p, "read") \in Nat /\ Running(p, "read") \in Nat
          /\ Running(p, "read")' = Running(p, "read")
      BY <1>1, <1>10, Numbers DEF Reading, SameFrames, Whole
    <3>2. job'[p].reads = Queued(p, "read")' + Running(p, "read")'
      BY <1>2, <1>4, <1>7, <3>1
    <3> QED  BY <1>1, <1>2, <1>4, <3>2 DEF Reading
  <2>4. Closes(p)' /\ Exits(p)'
    BY <1>1, <1>2, <1>4, <1>5, <1>7, <1>10 DEF Closes, Exits, SameFrames, Whole
  <2>5. Output(p)'
    <3>1. Arrived(p)' = Arrived(p) + 1
      <4>1. /\ job'[p].wrote = job[p].wrote /\ pipe'[p] = pipe[p] - 1
            /\ pipe[p] \in Nat /\ job[p].wrote \in Nat
        BY <1>1, <1>2, <1>4, <1>5, <1>6
      <4>2. Arrived(p)' = job'[p].wrote - pipe'[p] /\ Arrived(p) = job[p].wrote - pipe[p]
        BY DEF Arrived
      <4> QED  BY <4>1, <4>2
    <3>2. AtMost(events, p, Arrived(p) - Room) => AtMost(events, p, Arrived(p) - Room)'
      <4> DEFINE n == Arrived(p) - Room
                 t == events'
      <4>1. n \in Int /\ (Arrived(p) - Room)' = n + 1
        BY <1>5, <3>1
      <4> HIDE DEF n, t
      <4>2. AtMost(events, p, n) => AtMost(t, p, n + 1)
        BY <1>7, <4>1 DEF t
      <4> QED  BY <4>1, <4>2 DEF n, t
    <3>3. (Lost(p) => Lost(p)') /\ (Drained(p) => Drained(p)')
      BY <1>1, <1>2, <1>4 DEF Lost, Drained
    <3>4. Queued(p, "read") <= Arrived(p) - Room
            => Queued(p, "read")' <= (Arrived(p) - Room)'
      <4>1. Queued(p, "read") \in Nat /\ Queued(p, "read")' = Queued(p, "read") + 1
        BY <1>1, <1>7, Numbers
      <4>2. (Arrived(p) - Room)' = Arrived(p)' - Room
        OBVIOUS
      <4> DEFINE a == Arrived(p)
                 b == Arrived(p)'
                 q == Queued(p, "read")'
      <4> HIDE DEF a, b, q
      <4>3. a \in Int /\ b = a + 1 /\ Room \in Nat /\ q = Queued(p, "read") + 1
        BY <1>5, <3>1, <4>1 DEF a, b, q
      <4>4. Queued(p, "read") <= a - Room => q <= b - Room
        BY <4>1, <4>3
      <4> QED  BY <4>2, <4>4 DEF a, b, q
    <3> QED  BY <1>1, <1>2, <1>4, <1>10, <3>2, <3>3, <3>4 DEF Output, Whole, SameFrames
  <2> QED  BY <2>1, <2>2, <2>3, <2>4, <2>5 DEF Whole
<1>12. ASSUME NEW q \in Procs, q # p
       PROVE  Whole(q)'
  <2>1. Gentle(q)
    BY <1>4, <1>12 DEF Gentle
  <2>2. SameEvents(q) /\ SameFrames(q) /\ Whole(q)
    BY <1>1, <1>12, OtherEvents, SameUnchanged DEF IInv
  <2> QED  BY <1>1, <1>6, <1>12, <2>1, <2>2, WholeGentle
<1>13. Counters'
  BY <1>1, <1>9, CountersSame DEF IInv, Unseen
<1>14. Shape' /\ Polls' /\ Above' /\ TopUses' /\ Parents' /\ Pointers'
  <2>1. calls' \in Nat /\ calls <= calls'
    BY <1>1, JobsAssumption DEF Typed
  <2> QED  BY <1>1, <1>9, <2>1, UnseenKeeps, Still
<1> QED  BY <1>8, <1>11, <1>12, <1>13, <1>14 DEF IInv

LEMMA SpawnKeeps ==
    ASSUME IInv, NEW p \in Procs, Spawn(p)
    PROVE  IInv'
<1>1. /\ Typed /\ Whole(p) /\ os[p] = "none" /\ os' = [os EXCEPT ![p] = "running"]
      /\ UNCHANGED <<pipe, sigchld, stopRequests, events, stack, polling, gotInt, calls>>
  BY DEF IInv, Spawn
<1>2. job[p].data = "none" /\ job[p] = NewJob /\ pipe[p] = 0
  BY <1>1 DEF Whole, Alive
<1> DEFINE j == [job[p] EXCEPT !.refs = 3, !.in = "open", !.out = "open",
                               !.handle = "open", !.data = "live"]
<1>3. /\ j \in JobType /\ j.refs = 3 /\ j.handle = "open" /\ j.in = "open" /\ j.out = "open"
      /\ j.reads = 0 /\ j.wrote = 0 /\ j.data = "live" /\ ~j.stopped
      /\ j.parent = Main /\ j.statusPtr = None /\ job[p].refs = 0 /\ job[p].reads = 0
      /\ job[p].parent = Main /\ ~job[p].stopped /\ HandlesOf(job[p]) = 0
  <2>1. MaxCalls \in Nat /\ Main = 0 /\ None = 0
    BY JobsAssumption DEF Main, None
  <2>2. job[p].refs = 0 /\ job[p].reads = 0 /\ job[p].parent = Main /\ ~job[p].stopped
        /\ job[p].statusPtr = None /\ job[p].wrote = 0
        /\ job[p].in = "none" /\ job[p].out = "none" /\ job[p].handle = "none"
    BY <1>2 DEF NewJob
  <2>3. HandlesOf(job[p]) = 0
    BY <2>2 DEF HandlesOf, One
  <2>4. job[p] \in JobType
    BY <1>1 DEF Typed
  <2>5. j \in JobType
    BY <2>4 DEF JobType
  <2> QED  BY <2>2, <2>3, <2>4, <2>5 DEF JobType
<1>4. job' = [job EXCEPT ![p] = j]
  BY DEF Spawn
<1> HIDE DEF j
<1>5. job' \in [Procs -> JobType] /\ job'[p] = j /\ \A q \in Procs : q # p
        => job'[q] = job[q]
  BY <1>1, <1>3, <1>4, JobChanged
<1>6. os'[p] = "running" /\ \A q \in Procs : q # p => os'[q] = os[q]
  BY <1>1 DEF Typed
<1>7. Typed'
  BY <1>1, <1>5 DEF Typed
<1>8. SameEvents(p) /\ SameFrames(p)
  BY <1>1, SameEventsBy, SameUnchanged
<1>9. /\ Holding(p) = 0 /\ Queued(p, "close") = 0 /\ Running(p, "flush") = 0
         /\ Draining(p) = 0 /\ Shortened(p) = 0
      /\ Queued(p, "read") + Running(p, "read") = 0
      /\ Queued(p, "exit") + Running(p, "exit") = 0
  <2>1. Holding(p) = 0
    BY <1>1, <1>3, Numbers DEF Whole, Referenced
  <2>2. Queued(p, "close") + Running(p, "flush") = 0
    BY <1>1 DEF Whole, Closes
  <2>3. Queued(p, "close") = 0 /\ Running(p, "flush") = 0
    BY <1>1, <2>2, Numbers
  <2>4. Draining(p) = 0 /\ Shortened(p) = 0
    <3>1. Draining(p) \in Nat /\ Shortened(p) \in Nat
      BY <1>1, Numbers
    <3> QED  BY <1>1, <2>3, <3>1, DrainsRun, ShortsRun
  <2> QED  BY <1>1, <1>2, <1>3, <2>1, <2>3, <2>4 DEF Whole, Reading, Exits
<1>10. Whole(p)'
  <2>1. Referenced(p)'
    BY <1>3, <1>5, <1>8, <1>9 DEF Referenced, HandlesOf, One, SameFrames
  <2>2. Alive(p)'
    BY <1>1, <1>2, <1>3, <1>5, <1>6, JobFacts DEF Alive
  <2>3. Reading(p)' /\ Closes(p)' /\ Exits(p)'
    BY <1>3, <1>5, <1>8, <1>9 DEF Reading, Closes, Exits, SameFrames, SameEvents
  <2>4. Output(p)'
    <3>1. AtMost(events, p, Arrived(p) - Room)'
      <4>1. \A n : AtMost(events, p, n)
        BY <1>1, <1>9, NoClose
      <4> QED  BY <1>1, <4>1
    <3> QED  BY <1>3, <1>5, <1>8, <1>9, <3>1 DEF Output, SameFrames
  <2> QED  BY <2>1, <2>2, <2>3, <2>4 DEF Whole
<1>11. ASSUME NEW q \in Procs, q # p
       PROVE  Whole(q)'
  <2>1. Gentle(q)
    BY <1>5, <1>11 DEF Gentle
  <2>2. SameEvents(q) /\ SameFrames(q) /\ Whole(q)
    BY <1>1, SameEventsBy, SameUnchanged DEF IInv
  <2> QED  BY <1>1, <1>6, <1>11, <2>1, <2>2, WholeGentle
<1>12. Counters'
  <2>1. Unanswered' = Unanswered /\ Asked' = Asked /\ Dead' = Dead
    BY <1>1, <1>2, <1>3, <1>5, <1>6 DEF Unanswered, Asked, Dead
  <2> QED  BY <1>1, <2>1 DEF IInv, Counters, Unanswered, Asked, Dead
<1>13. Shape' /\ Polls' /\ Above' /\ TopUses' /\ Parents' /\ Pointers'
  <2>1. calls' \in Nat /\ calls <= calls'
    BY <1>1, JobsAssumption DEF Typed
  <2>2. \A q \in Procs : KeepsRefs(q) /\ (Known(q) => Known(q)')
    BY <1>2, <1>3, <1>5 DEF KeepsRefs, FindJob, Known
  <2> QED  BY <1>1, <2>1, <2>2, Still
<1> QED  BY <1>7, <1>10, <1>11, <1>12, <1>13 DEF IInv

(* A child that died, with nothing more to read: what is left in the pipe, *)
(* the ring buffer has no room for.                                        *)
LEMMA ZombieFull ==
    ASSUME Typed, NEW p \in Procs, Whole(p), os[p] = "zombie", ~Readable(p)
    PROVE  Lost(p) \/ Arrived(p) - Room >= 0
<1>1. /\ job[p].handle = "open" /\ pipe[p] + job[p].reads <= job[p].wrote
  BY ChildFacts
<1>2. CASE ~Lost(p)
  <2>1. job[p].out = "open" /\ pipe[p] > 0
    BY <1>1, <1>2, JobFacts DEF Whole, Output, Lost
  <2>2. Places(events, {Event(p, "read")}, Len(events)) =
          {i \in 1 .. Len(events) : events[i] = Event(p, "read")}
    BY DEF Places
  <2>3. Queued(p, "read") \in Nat /\ ~(Queued(p, "read") < Room)
    BY <2>1, <2>2, Numbers DEF Readable, Queued, Count, Upto
  <2>4. job[p].reads >= Queued(p, "read")
    BY <2>3, Numbers DEF Whole, Reading
  <2> QED  BY <1>1, <2>3, <2>4, JobFacts
<1> QED  BY <1>2

LEMMA ExitCbKeeps ==
    ASSUME IInv, ExitCb
    PROVE  IInv'
<1>1. /\ Typed /\ \A p \in Procs : Whole(p) /\ ~Readable(p)
      /\ sigchld' = sigchld - 1 /\ sigchld > 0 /\ sigchld \in Nat
      /\ UNCHANGED <<pipe, job, stack, polling, gotInt, calls>>
  BY DEF IInv, ExitCb, Typed
<1>2. PICK R \in Reaped :
        /\ os' = [p \in Procs |-> IF p \in R THEN "reaped" ELSE os[p]]
        /\ LET n == Cardinality(Answered(R))
           IN  stopRequests' = IF n < stopRequests THEN stopRequests - n ELSE 0
        /\ \E s \in Reports(R) : ReportsAdded(R, "close", s)
  BY DEF ExitCb, ReportsAdded
<1>3. R \in SUBSET Procs /\ \A p \in R : os[p] = "zombie"
  BY <1>2 DEF Reaped, Zombies
<1>4. PICK s \in SetToSeqs(R) : ReportsAdded(R, "close", s)
  BY <1>2 DEF Reports
<1>5. ASSUME NEW p \in Procs
      PROVE  /\ events' \in Seq(EventType)
             /\ \A what : Queued(p, what)' =
                  Queued(p, what) + (IF what = "close" /\ p \in R THEN 1 ELSE 0)
             /\ \A n \in Int : AtMost(events, p, n) /\ (p \in R => n >= 0) =>
                  AtMost(events', p, n)
  BY <1>1, <1>3, <1>4, EventsAdded
<1>6. Typed'
  <2>1. os' \in [Procs -> {"none", "running", "zombie", "reaped"}]
    BY <1>1, <1>2 DEF Typed
  <2>2. Cardinality(Answered(R)) \in Nat
    <3>1. Answered(R) \in SUBSET Procs
      BY <1>3 DEF Answered
    <3> QED  BY <3>1, JobsAssumption, FS_Subset, FS_CardinalityType
  <2>3. stopRequests' \in Nat
    BY <1>1, <1>2, <2>2 DEF Typed
  <2>4. events' \in Seq(EventType)
    <3>1. CASE Procs = {}
      <4>1. s \in SetToSeqs(R) /\ R \in SUBSET Procs /\ "close" \in {"close", "exit"}
        BY <1>3
      <4> QED  BY <1>1, <1>4, <4>1, EventsConcat DEF ReportsAdded
    <3> QED  BY <1>5, <3>1
  <2>5. sigchld' \in Nat
    BY <1>1
  <2> QED  BY <1>1, <2>1, <2>3, <2>4, <2>5 DEF Typed
<1>7. ASSUME NEW p \in Procs, p \in R
      PROVE  Whole(p)'
  <2>1. os[p] = "zombie" /\ os'[p] = "reaped" /\ Whole(p) /\ ~Readable(p)
    BY <1>1, <1>2, <1>3, <1>7
  <2>2. /\ job[p].data = "live" /\ job[p].handle = "open"
        /\ Queued(p, "close") = 0 /\ Running(p, "flush") = 0 /\ Draining(p) = 0
        /\ Shortened(p) = 0
    BY <1>1, <2>1, ChildFacts
  <2>3. SameFrames(p)
    BY <1>1, SameUnchanged
  <2>4. /\ Queued(p, "close")' = 1
        /\ \A w \in {"read", "exit"} : Queued(p, w)' = Queued(p, w)
    BY <1>1, <1>5, <1>7, <2>2, Numbers
  <2>5. Referenced(p)' /\ Reading(p)' /\ Exits(p)'
    BY <1>1, <2>1, <2>3, <2>4 DEF Referenced, Reading, Exits, HandlesOf, SameFrames, Whole
  <2>6. Alive(p)' /\ Closes(p)'
    BY <1>1, <2>1, <2>2, <2>3, <2>4 DEF Alive, Closes, SameFrames, Whole
  <2>7. Output(p)'
    <3> DEFINE n == Arrived(p) - Room
               t == events'
    <3>1. n \in Int /\ n' = n
      BY <1>1, JobFacts DEF Arrived
    <3>2. Lost(p) \/ n >= 0
      BY <1>1, <2>1, ZombieFull
    <3> HIDE DEF n, t
    <3>3. AtMost(events, p, n)
      BY <1>1, <2>2, NoClose
    <3>4. n >= 0 => AtMost(t, p, n)
      BY <1>5, <3>1, <3>3 DEF t
    <3>5. Lost(p)' \/ AtMost(events, p, Arrived(p) - Room)'
      BY <1>1, <3>1, <3>2, <3>4 DEF Lost, n, t
    <3> QED  BY <1>1, <2>1, <2>2, <2>3, <3>5 DEF Output, Whole, SameFrames
  <2> QED  BY <2>5, <2>6, <2>7 DEF Whole
<1>8. ASSUME NEW p \in Procs, p \notin R
      PROVE  Whole(p)'
  <2>1. Gentle(p)
    BY <1>1 DEF Gentle
  <2>2. SameEvents(p)
    <3>1. ASSUME NEW what
          PROVE  Queued(p, what)' = Queued(p, what)
      <4>1. Queued(p, what) \in Nat
        BY <1>1, Numbers
      <4>2. Queued(p, what)' =
              Queued(p, what) + (IF what = "close" /\ p \in R THEN 1 ELSE 0)
        BY <1>5
      <4> QED  BY <1>8, <4>1, <4>2
    <3>2. \A n \in Int : AtMost(events, p, n) => AtMost(events', p, n)
      BY <1>5, <1>8
    <3> QED  BY <3>1, <3>2 DEF SameEvents
  <2>3. SameFrames(p) /\ Whole(p) /\ os'[p] = os[p]
    BY <1>1, <1>2, <1>8, SameUnchanged
  <2> QED  BY <1>1, <2>1, <2>2, <2>3, WholeGentle
<1>9. Counters'
  <2>1. Asked' = Asked /\ Dead' = Dead
    BY <1>1, <1>2, <1>3 DEF Asked, Dead
  <2>2. Unanswered' = Unanswered \ Answered(R) /\ Answered(R) \subseteq Unanswered
    BY <1>1, <1>2, <1>3 DEF Unanswered, Answered
  <2>3. /\ IsFiniteSet(Unanswered) /\ Cardinality(Unanswered) \in Nat
        /\ Cardinality(Asked) \in Nat /\ Cardinality(Dead) \in Nat
        /\ stopRequests >= Cardinality(Unanswered)
        /\ stopRequests <= Cardinality(Asked) /\ sigchld <= Cardinality(Dead)
        /\ stopRequests \in Nat
    BY <1>1, CountersFacts DEF IInv, Typed
  <2> DEFINE A == Answered(R)
             U == Unanswered
  <2>4. IsFiniteSet(A) /\ Cardinality(A) \in Nat
    BY <2>2, <2>3, FS_Subset, FS_CardinalityType
  <2>5. Cardinality(U \ A) = Cardinality(U) - Cardinality(A)
    <3> HIDE DEF A, U
    <3>1. A \subseteq U /\ IsFiniteSet(U)
      BY <2>2, <2>3 DEF A, U
    <3>2. Cardinality(U \ A) = Cardinality(U) - Cardinality(U \cap A)
      BY <2>4, <3>1, FS_Difference
    <3>3. U \cap A = A
      BY <3>1
    <3> QED  BY <3>2, <3>3
  <2>6. stopRequests' = IF Cardinality(A) < stopRequests THEN stopRequests - Cardinality(A) ELSE 0
    BY <1>2
  <2> HIDE DEF A, Unanswered, Asked, Dead
  <2>7. /\ stopRequests' >= Cardinality(Unanswered \ A)
        /\ stopRequests' <= Cardinality(Asked)
        /\ sigchld' <= Cardinality(Dead)
    BY <1>1, <2>3, <2>4, <2>5, <2>6
  <2>8. /\ stopRequests' >= Cardinality(Unanswered')
        /\ stopRequests' <= Cardinality(Asked')
        /\ sigchld' <= Cardinality(Dead')
    BY <2>1, <2>2, <2>7 DEF A
  <2> QED  BY <2>8 DEF Counters, Unanswered, Asked, Dead
<1>10. Shape' /\ Polls' /\ Above' /\ TopUses' /\ Parents' /\ Pointers'
  <2>1. calls' \in Nat /\ calls <= calls'
    BY <1>1, JobsAssumption DEF Typed
  <2>2. \A p \in Procs : Unseen(p)
    BY <1>1 DEF Unseen
  <2> QED  BY <1>1, <2>1, <2>2, UnseenKeeps, Still
<1> QED  BY <1>6, <1>7, <1>8, <1>9, <1>10 DEF IInv

-----------------------------------------------------------------------------
(***************************************************************************)
(* A wait goes on; a poll begins and ends.                                 *)
(***************************************************************************)
LEMMA TopRuns ==
    ASSUME Typed, Shape, NEW p
    PROVE  /\ Top.op \in {"read", "exit", "flush"} /\ Top.proc = p => Running(p, Top.op) > 0
           /\ Holds(Top, p) => Holding(p) > 0
<1>1. Len(stack) \in Nat /\ Top \in FrameType /\ Top = stack[Len(stack)]
      /\ Len(stack) \in 1 .. Len(stack)
  BY TopFacts
<1>2. \A S : /\ Count(stack, S) \in Nat
             /\ Count(stack, S) = 0 => stack[Len(stack)] \notin S
  BY <1>1, UptoNat DEF Count
<1> HIDE DEF Top
<1>3. Top.op \in {"read", "exit", "flush"} /\ Top.proc = p => Top \in Callbacks(p, Top.op)
  BY <1>1 DEF Callbacks
<1>4. Holds(Top, p) => Top \in Holders(p)
  BY <1>1 DEF Holders
<1> QED  BY <1>1, <1>2, <1>3, <1>4 DEF Running, Holding

(* A wait at step s with entry k has p of its list l under its queue. *)
Moved(l, s, k, p) ==
    \E n \in 1 .. Len(l) : /\ l[n] = p
                           /\ s \in {"begin", "settle"} => n < k
                           /\ s \in {"visit", "restore"} => n >= k

LEMMA GoesCarries ==
    ASSUME Typed, Shape, NEW s, NEW k, GoesTo(s, k), NEW p
    PROVE  /\ (Moved(Top.list, Top.step, Top.i, p) => Moved(Top.list, s, k, p))
                => CarriesMoved(p)
           /\ s \notin {"visit", "restore"} \/ Top.step \in {"visit", "restore"}
                => CarriesPoint(p)
<1>1. PICK g \in FrameType :
        /\ Tops(g) /\ Top.op = "wait" /\ g.op = "wait" /\ g.id = Top.id /\ g.list = Top.list
        /\ g.step = s /\ g.i = k
  BY DEF GoesTo
<1>2. /\ (g.op = "wait" /\ HasMoved(Top, p) => HasMoved(g, p)) => CarriesMoved(p)
      /\ (g.op = "wait" /\ MayPoint(Top, p) => MayPoint(g, p)) => CarriesPoint(p)
  BY <1>1, CarriedTops
<1> HIDE DEF Top
<1>3. /\ HasMoved(Top, p) <=> Moved(Top.list, Top.step, Top.i, p)
      /\ HasMoved(g, p) <=> Moved(Top.list, s, k, p)
  BY <1>1 DEF HasMoved, Moved
<1>4. MayPoint(Top, p)
        /\ (s \notin {"visit", "restore"} \/ Top.step \in {"visit", "restore"}) =>
        MayPoint(g, p)
  BY <1>1 DEF MayPoint
<1> QED  BY <1>2, <1>3, <1>4

LEMMA Going ==
    ASSUME IInv, NEW s, NEW k, GoesTo(s, k), s \in InList => k <= Len(Top.list),
           calls' = calls
    PROVE  /\ Shape' /\ Above'
           /\ Top'.op = "wait" /\ Top'.step = s /\ Top'.i = k
           /\ Top'.list = Top.list /\ Top'.id = Top.id
           /\ OfWait(stack'[Len(stack')], Top.id)
           /\ \A p : HasMoved(stack'[Len(stack')], p) <=> Moved(Top.list, s, k, p)
           /\ \A p : MayPoint(stack'[Len(stack')], p) <=>
                       Contains(Top.list, p) /\ s \notin {"visit", "restore"}
           /\ Len(stack') \in 1 .. Len(stack')
           /\ Waiting(Top)' <=> s \in {"until", "until2", "once", "gone"}
<1>1. PICK g \in FrameType :
        /\ Tops(g) /\ Top.op = "wait" /\ g.op = "wait" /\ g.id = Top.id /\ g.list = Top.list
        /\ g.step = s /\ g.i = k
  BY DEF GoesTo
<1>2. Typed /\ Shape /\ Above
  BY DEF IInv
<1>3. Shape' /\ Above'
  <2>1. \A p : Callback(Top, p) => Callback(g, p)
    <3> HIDE DEF Top
    <3> QED  BY <1>1 DEF Callback
  <2> QED  BY <1>1, <1>2, <2>1, TopsKeep
<1>4. Top' = g /\ stack'[Len(stack')] = g /\ Len(stack') \in 1 .. Len(stack')
  <2>1. Len(stack) \in Nat \ {0}
    BY <1>2, TopFacts
  <2> QED  BY <1>1, <2>1 DEF Tops
<1>5. Waiting(Top)' <=> s \in {"until", "until2", "once", "gone"}
  BY <1>1, <1>4 DEF Waiting
<1> HIDE DEF Top
<1>6. OfWait(g, Top.id) /\ \A p : HasMoved(g, p) <=> Moved(Top.list, s, k, p)
  BY <1>1 DEF OfWait, HasMoved, Moved
<1>7. \A p : MayPoint(g, p) <=> Contains(Top.list, p) /\ s \notin {"visit", "restore"}
  BY <1>1 DEF MayPoint
<1> QED  BY <1>1, <1>3, <1>4, <1>5, <1>6, <1>7

(* The top is in S as before, or no more. *)
LEMMA CountTopsSame ==
    ASSUME Typed, Shape, NEW g, Tops(g), NEW S
    PROVE  /\ (Top \in S <=> g \in S) => Count(stack', S) = Count(stack, S)
           /\ g \notin S => (Count(stack', S) > 0 => Count(stack, S) > 0)
<1>1. Count(stack', S) = Count(stack, S) - In(Top, S) + In(g, S)
  BY CountTops
<1>2. Count(stack, S) \in Nat
  BY UptoNat DEF Count, Typed
<1> HIDE DEF Top, Count
<1> QED  BY <1>1, <1>2 DEF In

(* A flush goes on. *)
LEMMA FlushGoes ==
    ASSUME Typed, Shape, Above, calls' = calls, NEW s \in {"poll", "drain"},
           Top.op = "flush",
           \/ stack' = Now([Top EXCEPT !.step = s])
           \/ \E m \in Int : stack' = Now([Top EXCEPT !.step = s, !.mark = m])
    PROVE  /\ Shape' /\ Above' /\ Top'.op = "flush" /\ Top'.step = s /\ Top'.proc = Top.proc
           /\ \A p : CarriesMoved(p) /\ CarriesPoint(p)
           /\ stack' \in Seq(FrameType)
           /\ \A p \in Procs :
                /\ \A op \in {"read", "exit", "flush"} : Running(p, op)' = Running(p, op)
                /\ Holding(p)' = Holding(p)
                /\ Draining(p)' > 0 => Draining(p) > 0 \/ (s = "drain" /\ Top.proc = p)
                /\ Shortened(p)' > 0 => Shortened(p) > 0
<1>1. Top \in FrameType
  BY TopFacts
<1>2. \E g \in FrameType : /\ stack' = Now(g) /\ g.op = "flush" /\ g.proc = Top.proc
                           /\ g.step = s /\ g.limit = Top.limit
  <2> HIDE DEF Top, Now
  <2>1. Top \in [op : {"flush"}, proc : Procs, step : {"poll", "drain"}, mark : Int,
                 limit : Int]
    BY <1>1 DEF FrameType
  <2>2. /\ [Top EXCEPT !.step = s] \in FrameType /\ [Top EXCEPT !.step = s].op = "flush"
        /\ [Top EXCEPT !.step = s].proc = Top.proc /\ [Top EXCEPT !.step = s].step = s
        /\ [Top EXCEPT !.step = s].limit = Top.limit
    BY <2>1 DEF FrameType
  <2>3. ASSUME NEW m \in Int
        PROVE  LET g == [Top EXCEPT !.step = s, !.mark = m]
               IN  /\ g \in FrameType /\ g.op = "flush" /\ g.proc = Top.proc /\ g.step = s
                   /\ g.limit = Top.limit
    BY <2>1 DEF FrameType
  <2> QED  BY <2>2, <2>3
<1>3. PICK g \in FrameType : stack' = Now(g) /\ g.op = "flush" /\ g.proc = Top.proc
        /\ g.step = s /\ g.limit = Top.limit
  BY <1>2
<1>4. Tops(g)
  BY <1>3, TopsBy
<1>5. Shape' /\ Above'
  <2>1. \A p : Callback(Top, p) => Callback(g, p)
    <3> HIDE DEF Top
    <3> QED  BY <1>3 DEF Callback
  <2> QED  BY <1>3, <1>4, <2>1, TopsKeep
<1>6. Top' = g /\ stack' \in Seq(FrameType)
  BY <1>4 DEF Tops
<1>7. \A p : CarriesMoved(p) /\ CarriesPoint(p)
  BY <1>3, <1>4, CarriedTops
<1>8. ASSUME NEW p \in Procs
      PROVE  /\ \A op \in {"read", "exit", "flush"} : Running(p, op)' = Running(p, op)
             /\ Holding(p)' = Holding(p)
             /\ Draining(p)' > 0 => Draining(p) > 0 \/ (s = "drain" /\ Top.proc = p)
             /\ Shortened(p)' > 0 => Shortened(p) > 0
  <2>1. /\ \A S : (Top \in S <=> g \in S) => Count(stack', S) = Count(stack, S)
        /\ \A S : g \notin S => (Count(stack', S) > 0 => Count(stack, S) > 0)
    BY <1>4, CountTopsSame
  <2> HIDE DEF Top
  <2>2. /\ \A op : Top \in Callbacks(p, op) <=> g \in Callbacks(p, op)
        /\ Top \notin Holders(p) /\ g \notin Holders(p)
        /\ g \in Drains(p) => s = "drain" /\ Top.proc = p
        /\ Top \in Shorts(p) <=> g \in Shorts(p)
    BY <1>1, <1>3 DEF Callbacks, Holders, Holds, Drains, Shorts
  <2> QED  BY <2>1, <2>2 DEF Running, Holding, Draining, Shortened
<1> QED  BY <1>3, <1>5, <1>6, <1>7, <1>8

LEMMA GoesSame ==
    ASSUME Typed, Shape, NEW s, NEW k, GoesTo(s, k)
    PROVE  /\ stack' \in Seq(FrameType)
           /\ \A p \in Procs : Held(Top.step, Top.i, p) = Held(s, k, p) => SameFrames(p)
<1>1. stack' \in Seq(FrameType)
  BY DEF GoesTo, Tops
<1>2. ASSUME NEW p \in Procs, Held(Top.step, Top.i, p) = Held(s, k, p)
      PROVE  SameFrames(p)
  <2>1. /\ \A op \in {"read", "exit", "flush"} : Running(p, op)' = Running(p, op)
        /\ Draining(p)' = Draining(p) /\ Shortened(p)' = Shortened(p)
        /\ Holding(p)' = Holding(p) - Held(Top.step, Top.i, p) + Held(s, k, p)
    BY GoesCounts
  <2>2. Holding(p) \in Nat /\ Held(s, k, p) \in Nat
    BY Numbers DEF Held
  <2> HIDE DEF Top, Held
  <2>3. Holding(p)' = Holding(p)
    BY <1>2, <2>1, <2>2
  <2> QED  BY <2>1, <2>3 DEF SameFrames
<1> QED  BY <1>1, <1>2

(* A wait that goes on, and changes jobs a little. *)
LEMMA GentleGoes ==
    ASSUME IInv, Typed', NEW s, NEW k, GoesTo(s, k), s \in InList => k <= Len(Top.list),
           UNCHANGED <<os, pipe, events, calls>>,
           polling' => s \in {"until", "until2", "once", "gone"},
           \A p \in Procs : Gentle(p),
           \A p \in Procs : Held(Top.step, Top.i, p) = Held(s, k, p),
           \A q \in Procs : q = Top.list[k] /\ s \in {"settle", "restore", "gone"}
             => Known(q)',
           Counters', Parents', Pointers'
    PROVE  IInv'
<1>1. Shape' /\ Above' /\ Polls'
  BY Going DEF Polls
<1>2. TopUses'
  <2> DEFINE q == Top.list[k]
  <2>1. Top'.step = s /\ Top'.i = k /\ Top'.list = Top.list
    BY Going
  <2>2. s \in {"settle", "restore", "gone"} => q \in Procs
    <3>1. Top \in FrameType /\ Top.op = "wait" /\ k \in Nat \ {0}
      BY TopFacts DEF GoesTo, IInv
    <3> HIDE DEF Top
    <3>2. Top.list \in Lists
      BY <3>1, FrameKinds
    <3>3. s \in {"settle", "restore", "gone"} => k \in 1 .. Len(Top.list)
      BY <3>1, <3>2, Listed DEF InList
    <3> QED  BY <3>2, <3>3, Listed
  <2>3. s \in {"settle", "restore", "gone"}
          => job'[Top.list[k]].data \in {"live", "leaving"}
    BY <2>2 DEF Known
  <2> HIDE DEF Top
  <2> QED  BY <2>1, <2>3 DEF TopUses, Narrow, Known
<1>3. \A p \in Procs : Whole(p)'
  BY GoesSame, SameEventsBy, WholeGentle DEF IInv
<1> QED  BY <1>1, <1>2, <1>3 DEF IInv

(* The top goes on where it is. *)
LEMMA PollGoes ==
    ASSUME Typed, Shape, Top.op = "wait", NEW d \in BOOLEAN,
           stack' = Now([Top EXCEPT !.draining = d])
    PROVE  GoesTo(Top.step, Top.i)
<1>1. Top \in FrameType
  BY TopFacts
<1>2. /\ Top.step \in Steps /\ Top.i \in Nat \ {0} /\ Top.intr \in BOOLEAN
      /\ [Top EXCEPT !.draining = d] =
           [Top EXCEPT !.step = Top.step, !.draining = d, !.i = Top.i, !.intr = Top.intr]
  <2> HIDE DEF Top
  <2> QED  BY <1>1, WaitFields
<1>3. stack' = Now([Top EXCEPT !.step = Top.step, !.draining = d, !.i = Top.i, !.intr = Top.intr])
  <2> HIDE DEF Top, Now
  <2> QED  BY <1>2
<1> QED  BY <1>2, <1>3, GoesToBy

(* A sleep goes on. *)
LEMMA SleepGoes ==
    ASSUME Typed, Shape, Top.op = "sleep", NEW d \in BOOLEAN,
           stack' = Now([Top EXCEPT !.draining = d])
    PROVE  \E g \in FrameType : Tops(g) /\ g.op = "sleep"
<1> DEFINE g == [Top EXCEPT !.draining = d]
<1>1. g \in FrameType /\ g.op = "sleep"
  <2>1. Top \in FrameType
    BY TopFacts
  <2> HIDE DEF Top
  <2>2. Top \in [op : {"sleep"}, draining : BOOLEAN]
    BY <2>1 DEF FrameType
  <2> QED  BY <2>2 DEF FrameType
<1>2. stack' = Now(g)
  OBVIOUS
<1> HIDE DEF g
<1> QED  BY <1>1, <1>2, TopsBy

LEMMA PollKeeps ==
    ASSUME IInv, Poll
    PROVE  IInv'
<1>1. /\ Typed /\ Shape /\ Waiting(Top)
      /\ UNCHANGED <<os, sigchld, pipe, job, stopRequests, events, gotInt, calls>>
      /\ polling' = TRUE
      /\ stack' = IF Top.op \in {"wait", "sleep"}
                  THEN Now([Top EXCEPT !.draining = FALSE]) ELSE stack
  BY DEF IInv, Poll, osVars, procVars
<1>2. Counters'
  BY <1>1, CountersSame DEF IInv
<1>3. \A p \in Procs : Gentle(p) /\ KeepsRefs(p) /\ (Known(p) => Known(p)')
  BY <1>1 DEF Gentle, KeepsRefs, FindJob, Known
<1>4. CASE Top.op = "wait"
  <2>1. GoesTo(Top.step, Top.i)
    BY <1>1, <1>4, PollGoes
  <2>2. Typed'
    BY <1>1, <2>1, GoesSame DEF Typed
  <2>3. Top.step \in {"until", "until2", "once", "gone"}
    BY <1>1, <1>4 DEF Waiting
  <2>4. Top.i \in 1 .. Len(Top.list) /\ Top.list[Top.i] \in Procs
    BY <1>1, <1>4, <2>3, TopItem DEF InList
  <2>5. Parents' /\ Pointers'
    <3>1. \A p \in Procs : CarriesMoved(p) /\ CarriesPoint(p)
      BY <1>1, <2>1, <2>3, GoesCarries
    <3> QED  BY <1>3, <3>1, RefsBy DEF IInv
  <2>6. ASSUME NEW q \in Procs, q = Top.list[Top.i],
               Top.step \in {"settle", "restore", "gone"}
        PROVE  Known(q)'
    BY <1>3, <1>4, <2>6 DEF IInv, TopUses, Narrow
  <2>7. Top.i <= Len(Top.list)
    BY <2>4
  <2> HIDE DEF Top
  <2> QED  BY <1>1, <1>2, <1>3, <2>1, <2>2, <2>3, <2>5, <2>6, <2>7, GentleGoes
<1>5. CASE Top.op = "sleep"
  <2>1. PICK g \in FrameType : Tops(g) /\ g.op = "sleep"
    BY <1>1, <1>5, SleepGoes
  <2>2. Alike(Top, g)
    BY <1>5, <2>1 DEF Alike
  <2>3. Typed'
    BY <1>1, <2>1 DEF Typed, Tops
  <2>4. Top' = g /\ calls' = calls
    BY <1>1, <2>1 DEF Tops
  <2>5. Shape' /\ Above'
    <3>1. \A p : Callback(Top, p) => Callback(g, p)
      BY <1>5 DEF Callback
    <3> QED  BY <1>1, <1>5, <2>1, <3>1, TopsKeep DEF IInv
  <2>6. Polls' /\ TopUses'
    BY <2>1, <2>4 DEF Polls, TopUses, Waiting, Narrow
  <2>7. Parents' /\ Pointers'
    <3>1. \A p \in Procs : CarriesMoved(p) /\ CarriesPoint(p)
      BY <1>1, <1>5, <2>1, CarriedTops
    <3> QED  BY <1>3, <3>1, RefsBy DEF IInv
  <2>8. \A p \in Procs : Whole(p)'
    BY <1>1, <1>3, <2>1, <2>2, SameTops, SameEventsBy, WholeGentle DEF IInv
  <2> QED  BY <1>2, <2>3, <2>5, <2>6, <2>7, <2>8 DEF IInv
<1>6. CASE Top.op \notin {"wait", "sleep"}
  <2>1. UNCHANGED stack /\ Typed'
    BY <1>1, <1>6 DEF Typed
  <2>2. Shape' /\ Above'
    <3>1. calls' \in Nat /\ calls <= calls'
      BY <1>1, JobsAssumption DEF Typed
    <3> QED  BY <2>1, <3>1, UnchangedKeeps DEF IInv
  <2>3. Top' = Top /\ Waiting(Top)'
    BY <1>1, <2>1 DEF Top, Waiting
  <2>4. Polls' /\ TopUses'
    BY <1>1, <1>3, <2>3, TopStays DEF IInv, Polls
  <2>5. Parents' /\ Pointers'
    BY <1>3, <2>1, CarriedUnchanged, RefsBy DEF IInv
  <2>6. \A p \in Procs : Whole(p)'
    BY <1>1, <1>3, <2>1, SameUnchanged, SameEventsBy, WholeGentle DEF IInv
  <2> QED  BY <1>2, <2>1, <2>2, <2>4, <2>5, <2>6 DEF IInv
<1> QED  BY <1>4, <1>5, <1>6

(* The handles of a process that are called back. *)
CloseOf(s) == IF s = "closing" THEN "closed" ELSE s
Ones(s, v) == IF s = v THEN 1 ELSE 0

LEMMA ClosedIs ==
    ASSUME Typed, NEW p \in Procs
    PROVE  Closed(p) = [job[p] EXCEPT !.in = CloseOf(job[p].in), !.out = CloseOf(job[p].out),
                                      !.handle = CloseOf(job[p].handle)]
<1> DEFINE j == job[p]
           k == [j EXCEPT !.in = CloseOf(j.in), !.out = CloseOf(j.out),
                          !.handle = CloseOf(j.handle)]
           D == {"refs", "in", "out", "handle", "reads", "wrote", "stopped", "jobStopped",
                 "cut", "killed", "data", "parent", "statusPtr"}
<1>1. j \in JobType
  BY DEF Typed
<1>2. Closed(p) = [x \in DOMAIN j |-> IF x \in Closing(p) THEN "closed" ELSE j[x]]
  BY DEF Closed
<1>3. \A x : x \in Closing(p) <=> x \in {"in", "out", "handle"} /\ j[x] = "closing"
  BY DEF Closing, Handles
<1> HIDE DEF j
<1>4. DOMAIN j = D
  BY <1>1 DEF JobType
<1>5. k = [x \in D |-> k[x]]
  BY <1>1 DEF JobType
<1>6. \A x \in D : k[x] = IF x \in {"in", "out", "handle"} THEN CloseOf(j[x]) ELSE j[x]
  BY <1>1 DEF JobType
<1>7. \A x \in D : (IF x \in Closing(p) THEN "closed" ELSE j[x]) = k[x]
  BY <1>3, <1>6 DEF CloseOf
<1> HIDE DEF k, D
<1>8. Closed(p) = k
  BY <1>2, <1>4, <1>5, <1>7
<1> QED  BY <1>8 DEF k, j

LEMMA ClosingIs ==
    ASSUME Typed, NEW p \in Procs
    PROVE  Cardinality(Closing(p)) =
             Ones(job[p].in, "closing") + Ones(job[p].out, "closing")
               + Ones(job[p].handle, "closing")
<1> DEFINE with(x, v) == IF v = "closing" THEN {x} ELSE {}
           A == with("in", job[p].in)
           B == A \cup with("out", job[p].out)
           C == B \cup with("handle", job[p].handle)
<1>1. Closing(p) = C
  <2>1. job[p] \in JobType
    BY DEF Typed
  <2>2. job[p]["in"] = job[p].in /\ job[p]["out"] = job[p].out
        /\ job[p]["handle"] = job[p].handle
    BY <2>1 DEF JobType
  <2> QED  BY <2>2 DEF Closing, Handles
<1>2. ASSUME NEW S, IsFiniteSet(S), NEW x, x \notin S, NEW v
      PROVE  IsFiniteSet(S \cup with(x, v)) /\ Cardinality(S) \in Nat
             /\ Cardinality(S \cup with(x, v)) = Cardinality(S) + Ones(v, "closing")
  <2>1. Cardinality(S) \in Nat
    BY <1>2, FS_CardinalityType
  <2>2. CASE v = "closing"
    BY <1>2, <2>1, <2>2, FS_AddElement DEF Ones
  <2>3. CASE v # "closing"
    <3>1. S \cup with(x, v) = S
      BY <2>3
    <3> QED  BY <1>2, <2>1, <2>3, <3>1 DEF Ones
  <2> QED  BY <2>2, <2>3
<1>3. IsFiniteSet({}) /\ Cardinality({}) = 0
  BY FS_EmptySet
<1>4. "in" \notin {} /\ "out" \notin A /\ "handle" \notin B /\ {} \cup A = A
  OBVIOUS
<1>5. IsFiniteSet(A) /\ Cardinality(A) = 0 + Ones(job[p].in, "closing")
  <2>1. IsFiniteSet({} \cup with("in", job[p].in))
        /\ Cardinality({} \cup with("in", job[p].in)) = Cardinality({}) + Ones(job[p].in, "closing")
    BY <1>2, <1>3, <1>4
  <2> QED  BY <1>3, <1>4, <2>1
<1>6. IsFiniteSet(B) /\ Cardinality(B) = Cardinality(A) + Ones(job[p].out, "closing")
  <2> HIDE DEF A, with
  <2> QED  BY <1>2, <1>4, <1>5
<1>7. Cardinality(C) = Cardinality(B) + Ones(job[p].handle, "closing")
  <2> HIDE DEF B, with
  <2> QED  BY <1>2, <1>4, <1>6
<1> HIDE DEF A, B, C, with
<1> QED  BY <1>1, <1>5, <1>6, <1>7 DEF Ones

(* What a poll makes of a process at its end. *)
LEMMA PolledJob ==
    ASSUME Typed, NEW p \in Procs, Whole(p), NEW k,
           k = Decref(Closed(p), Cardinality(Closing(p)))
    PROVE  LET j == job[p]
               n == Cardinality(Closing(p))
           IN  /\ k \in JobType /\ n \in Nat /\ k.refs = j.refs - n /\ n <= j.refs
               /\ HandlesOf(k) = HandlesOf(j) - n
               /\ k.in = CloseOf(j.in) /\ k.out = CloseOf(j.out)
               /\ k.handle = CloseOf(j.handle)
               /\ k.reads = j.reads /\ k.wrote = j.wrote /\ k.cut = j.cut /\ k.data = j.data
               /\ k.stopped = j.stopped /\ k.jobStopped = j.jobStopped
               /\ k.parent = j.parent /\ k.statusPtr = j.statusPtr
               /\ n = 0 => k = j
<1> DEFINE j == job[p]
           n == Cardinality(Closing(p))
           i == CloseOf(j.in)
           o == CloseOf(j.out)
           h == CloseOf(j.handle)
           m == j.refs - n
           c == [j EXCEPT !.in = i, !.out = o, !.handle = h]
<1>1. /\ j \in JobType /\ j.refs \in Nat
      /\ j.in \in {"none", "open", "closing", "closed"}
      /\ j.out \in {"none", "open", "waiting", "closing", "closed"}
      /\ j.handle \in {"none", "open", "closing", "closed"}
  BY JobFacts
<1>2. n = Ones(j.in, "closing") + Ones(j.out, "closing") + Ones(j.handle, "closing")
  BY ClosingIs
<1>3. HandlesOf(j) = One(j.in) + One(j.out) + One(j.handle)
  BY DEF HandlesOf
<1>4. j.refs = HandlesOf(j) + Holding(p) /\ Holding(p) \in Nat
  BY Numbers DEF Whole, Referenced
<1>5. Closed(p) = c
  BY ClosedIs
<1> HIDE DEF j, n
<1>6. n \in Nat /\ n <= j.refs
  BY <1>1, <1>2, <1>3, <1>4 DEF Ones, One
<1>7. /\ i \in {"none", "open", "closed"} /\ o \in {"none", "open", "waiting", "closed"}
      /\ h \in {"none", "open", "closed"}
      /\ One(i) = One(j.in) - Ones(j.in, "closing")
      /\ One(o) = One(j.out) - Ones(j.out, "closing")
      /\ One(h) = One(j.handle) - Ones(j.handle, "closing")
      /\ n = 0 => i = j.in /\ o = j.out /\ h = j.handle
  BY <1>1, <1>2 DEF CloseOf, One, Ones
<1>8. m \in Nat /\ (n = 0 => m = j.refs)
  BY <1>1, <1>6
<1>9. k = [c EXCEPT !.refs = m]
  <2>1. c.refs = j.refs
    BY <1>1 DEF JobType
  <2>2. k = [c EXCEPT !.refs = @ - n]
    BY <1>5 DEF Decref, n
  <2> HIDE DEF c
  <2> QED  BY <2>1, <2>2
<1> HIDE DEF i, o, h, m
<1>10. k = [j EXCEPT !.in = i, !.out = o, !.handle = h, !.refs = m]
  BY <1>1, <1>9 DEF JobType
<1>11. /\ k \in JobType /\ k.refs = m /\ k.in = i /\ k.out = o /\ k.handle = h
       /\ k.reads = j.reads /\ k.wrote = j.wrote /\ k.cut = j.cut /\ k.data = j.data
       /\ k.stopped = j.stopped /\ k.jobStopped = j.jobStopped
       /\ k.parent = j.parent /\ k.statusPtr = j.statusPtr
  <2>1. i \in {"none", "open", "closing", "closed"}
          /\ h \in {"none", "open", "closing", "closed"}
        /\ o \in {"none", "open", "waiting", "closing", "closed"} /\ m \in Nat
    BY <1>7, <1>8
  <2>2. k \in JobType
    BY <1>1, <1>10, <2>1 DEF JobType
  <2> QED  BY <1>1, <1>10, <2>2 DEF JobType
<1>12. HandlesOf(k) = HandlesOf(j) - n
  <2>1. HandlesOf(k) = One(i) + One(o) + One(h)
    BY <1>11 DEF HandlesOf
  <2> QED  BY <1>2, <1>3, <1>7, <2>1 DEF One, Ones
<1>13. n = 0 => k = j
  <2>1. [j EXCEPT !.in = j.in, !.out = j.out, !.handle = j.handle, !.refs = j.refs] = j
    BY <1>1 DEF JobType
  <2>2. n = 0 => i = j.in /\ o = j.out /\ h = j.handle /\ m = j.refs
    BY <1>7, <1>8
  <2> QED  BY <1>10, <2>1, <2>2
<1> QED  BY <1>6, <1>11, <1>12, <1>13 DEF j, n, i, o, h, m

LEMMA OnceGoes ==
    ASSUME Typed, Shape, Once(Top), stack' = Now(AfterOnce(Top))
    PROVE  \/ Top.step = "once" /\ GoesTo("finish", Top.i)
           \/ Top.step = "gone" /\ GoesTo("pick", Top.i + 1)
<1>1. Top \in FrameType /\ Top.op = "wait" /\ Top.step \in {"once", "gone"}
  BY TopFacts DEF Once
<1>2. Top.i \in Nat \ {0} /\ Top.i + 1 \in Nat \ {0} /\ Top.intr \in BOOLEAN
  BY <1>1, WaitFields
<1>3. "finish" \in Steps /\ "pick" \in Steps
  BY DEF Steps, InList
<1>4. CASE Top.step = "once"
  <2>1. stack' = Now([Top EXCEPT !.step = "finish", !.draining = FALSE, !.i = Top.i,
                                 !.intr = Top.intr])
    <3>1. stack' = Now(Goes(Top, "finish"))
      BY <1>4 DEF AfterOnce
    <3> HIDE DEF Top, Now
    <3> QED  BY <1>1, <1>3, <3>1, WaitGoesOn
  <2> QED  BY <1>1, <1>2, <1>3, <1>4, <2>1, GoesToBy
<1>5. CASE Top.step = "gone"
  <2>1. stack' = Now([Top EXCEPT !.step = "pick", !.draining = FALSE, !.i = Top.i + 1,
                                 !.intr = Top.intr])
    <3>1. stack' = Now(Next1(Top, "pick"))
      BY <1>5 DEF AfterOnce
    <3> HIDE DEF Top, Now
    <3> QED  BY <1>1, <1>3, <3>1, WaitGoesOn
  <2> QED  BY <1>1, <1>2, <1>3, <1>5, <2>1, GoesToBy
<1> QED  BY <1>1, <1>4, <1>5

(* The stack as a poll ends. *)
LEMMA PollLeft ==
    ASSUME IInv, LeavePoll
    PROVE  /\ stack' \in Seq(FrameType) /\ Shape' /\ Above' /\ TopUses' /\ Polls'
           /\ \A p \in Procs :
                /\ CarriesMoved(p) /\ CarriesPoint(p)
                /\ \A op \in {"read", "exit", "flush"} : Running(p, op)' = Running(p, op)
                /\ Holding(p)' = Holding(p)
                /\ Draining(p)' > 0 =>
                     \/ Draining(p) > 0
                     \/ Top.op = "flush" /\ Top.step = "poll" /\ Top.proc = p
                /\ Shortened(p)' > 0 => Shortened(p) > 0
<1>1. Typed /\ Shape /\ Above /\ calls' = calls /\ polling' = FALSE /\ Waiting(Top)
  BY DEF IInv, LeavePoll, Polls
<1>2. Polls'
  BY <1>1 DEF Polls
<1>3. CASE Top.op = "flush"
  <2>1. stack' = Now([Top EXCEPT !.step = "drain"]) /\ Top.step = "poll"
    <3>1. stack' = CASE Top.op = "flush" -> Now([Top EXCEPT !.step = "drain"])
                     [] Once(Top) -> Now(AfterOnce(Top))
                     [] OTHER -> stack
      BY DEF LeavePoll
    <3>2. ~Once(Top)
      BY <1>3 DEF Once
    <3> HIDE DEF Top, Now
    <3> QED  BY <1>1, <1>3, <3>1, <3>2 DEF Waiting
  <2>2. /\ Shape' /\ Above' /\ Top'.op = "flush" /\ stack' \in Seq(FrameType)
        /\ \A p : CarriesMoved(p) /\ CarriesPoint(p)
        /\ \A p \in Procs :
             /\ \A op \in {"read", "exit", "flush"} : Running(p, op)' = Running(p, op)
             /\ Holding(p)' = Holding(p)
             /\ Draining(p)' > 0 => Draining(p) > 0 \/ Top.proc = p
             /\ Shortened(p)' > 0 => Shortened(p) > 0
    BY <1>1, <1>3, <2>1, FlushGoes
  <2>3. TopUses'
    BY <2>2 DEF TopUses, Narrow
  <2> QED  BY <1>2, <1>3, <2>1, <2>2, <2>3
<1>4. CASE Once(Top)
  <2>1. stack' = Now(AfterOnce(Top)) /\ Top.op = "wait"
    BY <1>4 DEF LeavePoll, Once
  <2>2. Top.i <= Len(Top.list)
    BY <1>1, <1>4, TopItem DEF Once, InList
  <2>3. PICK s, k : /\ GoesTo(s, k)
                    /\ \/ Top.step = "once" /\ s = "finish" /\ k = Top.i
                       \/ Top.step = "gone" /\ s = "pick" /\ k = Top.i + 1
    BY <1>1, <1>4, <2>1, OnceGoes
  <2>4. Shape' /\ Above' /\ Top'.step = s
    BY <1>1, <2>2, <2>3, Going DEF InList
  <2>5. TopUses'
    BY <2>3, <2>4 DEF TopUses, Narrow
  <2>6. \A p : CarriesMoved(p) /\ CarriesPoint(p)
    <3>1. \A p : /\ Moved(Top.list, Top.step, Top.i, p) => Moved(Top.list, s, k, p)
                 /\ s \notin {"visit", "restore"}
      BY <2>3 DEF Moved
    <3> QED  BY <1>1, <2>3, <3>1, GoesCarries
  <2>7. stack' \in Seq(FrameType) /\ \A p \in Procs : SameFrames(p)
    <3>1. \A p \in Procs : Held(Top.step, Top.i, p) = Held(s, k, p)
      BY <2>3 DEF Held
    <3> QED  BY <1>1, <2>3, <3>1, GoesSame
  <2> QED  BY <1>2, <2>4, <2>5, <2>6, <2>7 DEF SameFrames
<1>5. CASE Top.op # "flush" /\ ~Once(Top)
  <2>1. UNCHANGED stack
    BY <1>5 DEF LeavePoll
  <2>2. Top' = Top
    BY <2>1 DEF Top
  <2>3. TopUses'
    BY <1>1, <1>5, <2>2 DEF TopUses, Narrow, Waiting, Once
  <2>4. Shape' /\ Above'
    <3>1. calls' \in Nat /\ calls <= calls'
      BY <1>1, JobsAssumption DEF Typed
    <3> QED  BY <1>1, <2>1, <3>1, UnchangedKeeps
  <2>5. \A p \in Procs : CarriesMoved(p) /\ CarriesPoint(p) /\ SameFrames(p)
    BY <2>1, CarriedUnchanged, SameUnchanged
  <2> QED  BY <1>1, <1>2, <2>1, <2>3, <2>4, <2>5 DEF SameFrames, Typed
<1> QED  BY <1>3, <1>4, <1>5

(* A flush that begins to drain, with nothing more to read. *)
LEMMA FlushDrains ==
    ASSUME Typed, Shape, NEW p \in Procs, Whole(p), ~Readable(p),
           Top.op = "flush", Top.proc = p
    PROVE  Drained(p)
<1>1. Running(p, "flush") > 0
  BY TopRuns
<1>2. /\ Queued(p, "close") + Running(p, "flush") = 1 /\ job[p].handle = "open"
      /\ Lost(p) \/ Queued(p, "read") <= Arrived(p) - Room
      /\ job[p].cut \/ job[p].out = "open"
  <2>1. Queued(p, "close") + Running(p, "flush") # 0
    BY <1>1, Numbers
  <2> QED  BY <1>1, <2>1 DEF Whole, Closes, Output
<1>3. CASE ~Lost(p)
  <2>1. job[p].out = "open" /\ pipe[p] > 0
    BY <1>2, <1>3, JobFacts DEF Lost
  <2>2. Places(events, {Event(p, "read")}, Len(events)) =
          {i \in 1 .. Len(events) : events[i] = Event(p, "read")}
    BY DEF Places
  <2>3. Queued(p, "read") \in Nat /\ ~(Queued(p, "read") < Room)
    BY <2>1, <2>2, Numbers DEF Readable, Queued, Count, Upto
  <2>4. job[p].wrote > Room + Room
    BY <1>2, <1>3, <2>1, <2>3, JobFacts
  <2>5. Flushes \in Nat /\ Flushes <= Room /\ Room \in Nat
    BY JobsAssumption DEF Flushes
  <2>6. job[p].wrote > Room + Flushes
    BY <2>4, <2>5, JobFacts
  <2> QED  BY <2>6 DEF Drained
<1> QED  BY <1>3 DEF Drained

(* The jobs as a poll ends. *)
LEMMA LeavePollWhole ==
    ASSUME IInv, LeavePoll
    PROVE  /\ job' \in [Procs -> JobType] /\ events' \in Seq(EventType)
           /\ \A p \in Procs :
                /\ Whole(p)' /\ KeepsRefs(p)
                /\ job[p].data = "leaving" => job'[p].data = "freed"
                /\ job[p].data # "leaving" => /\ job'[p].data = job[p].data
                                              /\ job'[p].stopped = job[p].stopped
<1> DEFINE n(p) == Cardinality(Closing(p))
           next(p) == Decref(Closed(p), n(p))
           R == {p \in Procs : LastRef(job[p], n(p))}
<1>1. /\ Typed /\ Shape /\ UNCHANGED <<os, pipe, stopRequests, gotInt, calls>>
      /\ \A p \in Procs : Whole(p) /\ ~Readable(p)
  BY DEF IInv, LeavePoll, osVars
<1>2. \A p \in Procs : job'[p] = IF job[p].data = "leaving"
                                 THEN [NewJob EXCEPT !.data = "freed"] ELSE next(p)
  BY DEF LeavePoll
<1>3. DOMAIN job' = Procs /\ job' = [p \in Procs |-> job'[p]]
  BY DEF LeavePoll
<1>4. PICK s \in SetToSeqs(R) : ReportsAdded(R, "exit", s)
  BY DEF LeavePoll, ReportsAdded
<1>5. R \in SUBSET Procs /\ \A p \in Procs : p \in R <=> LastRef(job[p], n(p))
  OBVIOUS
<1>6. events' \in Seq(EventType)
  <2> HIDE DEF R
  <2>1. "exit" \in {"close", "exit"}
    OBVIOUS
  <2> QED  BY <1>1, <1>4, <1>5, <2>1, EventsConcat DEF ReportsAdded
<1>7. ASSUME NEW p \in Procs
      PROVE  /\ \A what : Queued(p, what)' =
                  Queued(p, what) + (IF what = "exit" /\ p \in R THEN 1 ELSE 0)
             /\ \A m \in Int : AtMost(events, p, m) => AtMost(events', p, m)
  <2> HIDE DEF R
  <2>1. "exit" \in {"close", "exit"}
    OBVIOUS
  <2> QED  BY <1>1, <1>4, <1>5, <2>1, EventsAdded
<1>8. ASSUME NEW p \in Procs
      PROVE  /\ \A op \in {"read", "exit", "flush"} : Running(p, op)' = Running(p, op)
             /\ Holding(p)' = Holding(p)
             /\ Draining(p)' > 0 =>
                  \/ Draining(p) > 0
                  \/ Top.op = "flush" /\ Top.step = "poll" /\ Top.proc = p
             /\ Shortened(p)' > 0 => Shortened(p) > 0
  BY PollLeft
<1>9. ASSUME NEW p \in Procs
      PROVE  Draining(p)' > 0 => Drained(p)
  <2>1. Draining(p) > 0 => Drained(p)
    BY <1>1 DEF Whole, Output
  <2>2. Top.op = "flush" /\ Top.proc = p => Drained(p)
    BY <1>1, FlushDrains
  <2> QED  BY <1>8, <2>1, <2>2
<1> HIDE DEF R, next
<1>10. ASSUME NEW p \in Procs, job[p].data = "leaving"
       PROVE  /\ job'[p] \in JobType /\ Whole(p)' /\ KeepsRefs(p) /\ job'[p].data = "freed"
  <2> DEFINE k == [NewJob EXCEPT !.data = "freed"]
  <2>1. job'[p] = k
    BY <1>2, <1>10
  <2>2. /\ k.refs = 0 /\ k.reads = 0 /\ k.data = "freed" /\ k.parent = Main
           /\ k.handle = "none"
        /\ k.wrote = 0 /\ k.in = "none" /\ k.out = "none"
    BY DEF NewJob
  <2>3. k \in JobType
    <3>1. 0 \in 0 .. MaxCalls /\ Main = 0 /\ None = 0
      BY JobsAssumption DEF Main, None
    <3>2. NewJob \in JobType
      BY <3>1 DEF JobType, NewJob
    <3> HIDE DEF NewJob
    <3> QED  BY <3>2 DEF JobType
  <2> HIDE DEF k
  <2>4. /\ job[p].refs = 0 /\ HandlesOf(job[p]) = 0 /\ Holding(p) = 0
    <3>1. /\ ~(job[p].refs > 0) /\ job[p].refs = HandlesOf(job[p]) + Holding(p)
      BY <1>1, <1>10 DEF Whole, Alive, Referenced
    <3>2. HandlesOf(job[p]) \in Nat
      BY DEF HandlesOf, One
    <3> QED  BY <1>1, <3>1, <3>2, Numbers, JobFacts
  <2>5. job[p].out \notin {"open", "waiting"} /\ job[p].handle # "open"
    BY <1>1, <1>10, OpenIsLive DEF One
  <2>6. /\ job[p].reads = 0 /\ Queued(p, "read") + Running(p, "read") = 0
        /\ Queued(p, "close") + Running(p, "flush") = 0
        /\ Queued(p, "exit") + Running(p, "exit") = 0
    <3>1. job[p].reads = 0
      BY <1>1, <2>5, JobFacts DEF Whole, Reading
    <3> QED  BY <1>1, <1>10, <2>4, <2>5, <3>1 DEF Whole, Reading, Closes, Exits
  <2>7. p \notin R
    BY <1>5, <2>4, JobFacts, <1>1 DEF LastRef
  <2>8. ASSUME NEW w
        PROVE  Queued(p, w)' = Queued(p, w)
    <3>1. Queued(p, w) \in Nat
      BY <1>1, Numbers
    <3> QED  BY <1>7, <2>7, <3>1
  <2>9. Running(p, "flush") = 0 /\ Queued(p, "close") = 0
    BY <1>1, <2>6, Numbers
  <2>10. ~(Draining(p)' > 0)
    <3>1. ~(Draining(p) > 0)
      BY <1>1, <2>9, DrainsRun
    <3>2. ~(Top.op = "flush" /\ Top.proc = p)
      BY <1>1, <2>9, TopRuns
    <3> QED  BY <1>8, <3>1, <3>2
  <2>16. ~(Shortened(p)' > 0)
    <3>1. ~(Shortened(p) > 0)
      BY <1>1, <2>9, ShortsRun
    <3> QED  BY <1>8, <3>1
  <2>11. Referenced(p)'
    <3>1. HandlesOf(k) = 0
      BY <2>2 DEF HandlesOf, One
    <3> QED  BY <1>8, <2>1, <2>2, <2>4, <3>1 DEF Referenced
  <2>12. Alive(p)'
    <3>1. os[p] \notin {"none", "running", "zombie"}
      BY <1>1, <1>10, <2>5, ChildFacts DEF Whole, Alive
    <3> QED  BY <1>1, <2>1, <2>2, <3>1, JobFacts DEF Alive, k
  <2>13. Reading(p)' /\ Closes(p)' /\ Exits(p)'
    BY <1>8, <2>1, <2>2, <2>6, <2>8 DEF Reading, Closes, Exits
  <2>14. Output(p)'
    <3>1. AtMost(events, p, Arrived(p) - Room)'
      <4> DEFINE m == Arrived(p)' - Room
                 t == events'
      <4>1. m \in Int
        BY <1>1, <2>1, <2>2, JobFacts DEF Arrived
      <4> HIDE DEF m, t
      <4>2. AtMost(events, p, m)
        BY <1>1, <2>9, NoClose
      <4>3. AtMost(t, p, m)
        BY <1>7, <4>1, <4>2 DEF t
      <4> QED  BY <4>3 DEF m, t
    <3> QED  BY <1>8, <2>1, <2>2, <2>9, <2>10, <2>16, <3>1 DEF Output
  <2>15. KeepsRefs(p)
    BY <2>1, <2>2 DEF KeepsRefs, FindJob, Known
  <2> QED  BY <2>1, <2>2, <2>3, <2>11, <2>12, <2>13, <2>14, <2>15 DEF Whole
<1>11. ASSUME NEW p \in Procs, job[p].data # "leaving"
       PROVE  /\ job'[p] \in JobType /\ Whole(p)' /\ KeepsRefs(p)
              /\ job'[p].data = job[p].data /\ job'[p].stopped = job[p].stopped
  <2> DEFINE j == job[p]
             k == job'[p]
             c == n(p)
  <2>1. k = next(p)
    BY <1>2, <1>11
  <2>2. /\ k \in JobType /\ c \in Nat /\ k.refs = j.refs - c /\ c <= j.refs
        /\ HandlesOf(k) = HandlesOf(j) - c
        /\ k.in = CloseOf(j.in) /\ k.out = CloseOf(j.out) /\ k.handle = CloseOf(j.handle)
        /\ k.reads = j.reads /\ k.wrote = j.wrote /\ k.cut = j.cut /\ k.data = j.data
        /\ k.stopped = j.stopped /\ k.jobStopped = j.jobStopped
        /\ k.parent = j.parent /\ k.statusPtr = j.statusPtr
        /\ c = 0 => k = j
    BY <1>1, <2>1, PolledJob DEF next
  <2>3. p \in R <=> c > 0 /\ j.refs = c
    BY <1>5 DEF LastRef
  <2>4. j.refs \in Nat /\ Whole(p)
    BY <1>1, JobFacts
  <2> HIDE DEF k, c
  <2>5. ASSUME NEW w \in {"read", "close"}
        PROVE  Queued(p, w)' = Queued(p, w)
    <3>1. Queued(p, w) \in Nat
      BY <1>1, Numbers
    <3> QED  BY <1>7, <3>1
  <2>6. Referenced(p)'
    <3>1. j.refs = HandlesOf(j) + Holding(p) /\ Holding(p) \in Nat /\ HandlesOf(j) \in Nat
      BY <1>1, <2>4, Numbers DEF Whole, Referenced, HandlesOf, One
    <3>2. k.refs = HandlesOf(k) + Holding(p)
      <4> HIDE DEF j
      <4> QED  BY <2>2, <3>1
    <3> QED  BY <1>8, <3>2 DEF Referenced, k
  <2>7. Alive(p)'
    <3>1. /\ os[p] = "none" <=> j.data = "none"
          /\ j.data = "none" => j = NewJob /\ pipe[p] = 0
          /\ j.data = "freed" => j = [NewJob EXCEPT !.data = "freed"]
          /\ j.refs > 0 => j.data = "live"
          /\ j.data = "live" => j.handle # "none" /\ pipe[p] + j.reads <= j.wrote
          /\ j.wrote <= MaxOutput[p]
          /\ os[p] \in {"running", "zombie"} => j.handle = "open"
      BY <2>4 DEF Whole, Alive
    <3>2. j.data \in {"none", "freed"} => c = 0
      <4>1. j.data \in {"none", "freed"} => ~(j.refs > 0)
        BY <3>1
      <4> QED  BY <2>2, <2>4, <4>1
    <3>3. k.refs > 0 => j.refs > 0
      BY <2>2, <2>4
    <3>4. k.handle = "none" => j.handle = "none"
      BY <2>2 DEF CloseOf
    <3>5. j.handle = "open" => k.handle = "open"
      BY <2>2 DEF CloseOf
    <3> HIDE DEF j
    <3>6. /\ os[p] = "none" <=> k.data = "none"
          /\ k.data = "none" => k = NewJob /\ pipe[p] = 0
          /\ k.data = "freed" => k = [NewJob EXCEPT !.data = "freed"]
          /\ k.refs > 0 => k.data = "live"
          /\ k.data = "live" => k.handle # "none" /\ pipe[p] + k.reads <= k.wrote
          /\ k.wrote <= MaxOutput[p]
          /\ os[p] \in {"running", "zombie"} => k.handle = "open"
      BY <2>2, <3>1, <3>2, <3>3, <3>4, <3>5
    <3> QED  BY <1>1, <3>6 DEF Alive, k
  <2>8. Reading(p)'
    <3>1. k.out = j.out \/ j.out = "closing"
      BY <2>2 DEF CloseOf
    <3> QED  BY <1>8, <2>2, <2>4, <2>5, <3>1 DEF Reading, Whole, k
  <2>9. Closes(p)'
    <3>1. j.handle = "open" => k.handle = "open"
      BY <2>2 DEF CloseOf
    <3> QED  BY <1>1, <1>8, <2>4, <2>5, <3>1 DEF Closes, Whole, k
  <2>10. Exits(p)'
    <3> DEFINE x == Queued(p, "exit")
               y == Running(p, "exit")
    <3>1. x \in Nat /\ y \in Nat
      BY <1>1, Numbers
    <3>2. x + y = IF j.data = "live" /\ j.refs = 0 THEN 1 ELSE 0
      BY <2>4 DEF Whole, Exits
    <3>3. j.refs > 0 => j.data = "live"
      BY <2>4 DEF Whole, Alive
    <3>4. Queued(p, "exit")' = x + (IF p \in R THEN 1 ELSE 0) /\ Running(p, "exit")' = y
      BY <1>7, <1>8
    <3> HIDE DEF x, y, j
    <3>5. x + (IF p \in R THEN 1 ELSE 0) + y = IF k.data = "live"
            /\ k.refs = 0 THEN 1 ELSE 0
      BY <2>2, <2>3, <2>4, <3>1, <3>2, <3>3
    <3> QED  BY <3>4, <3>5 DEF Exits, k
  <2>11. Output(p)'
    <3>1. (Lost(p) => Lost(p)') /\ (Drained(p) => Drained(p)')
      BY <1>1, <2>2 DEF Lost, Drained, k
    <3>2. AtMost(events, p, Arrived(p) - Room) => AtMost(events, p, Arrived(p) - Room)'
      <4> DEFINE m == Arrived(p) - Room
                 t == events'
      <4>1. m \in Int /\ m' = m
        BY <1>1, <2>2, JobFacts DEF Arrived, k
      <4> HIDE DEF m, t
      <4>2. AtMost(events, p, m) => AtMost(t, p, m)
        BY <1>7, <4>1 DEF t
      <4> QED  BY <4>1, <4>2 DEF m, t
    <3>3. Arrived(p)' = Arrived(p)
      BY <1>1, <2>2 DEF Arrived, k
    <3>4. /\ k.handle = "open" => j.handle = "open"
          /\ j.out = "open" => k.out = "open"
          /\ k.handle \in {"closing", "closed"} => j.handle \in {"closing", "closed"}
      BY <2>2 DEF CloseOf
    <3> QED  BY <1>8, <1>9, <2>2, <2>4, <2>5, <3>1, <3>2, <3>3, <3>4 DEF Output, Whole, k
  <2>12. KeepsRefs(p)
    BY <2>2 DEF KeepsRefs, FindJob, Known, k
  <2> QED  BY <2>2, <2>6, <2>7, <2>8, <2>9, <2>10, <2>11, <2>12 DEF Whole, k
<1> QED  BY <1>3, <1>6, <1>10, <1>11

LEMMA LeavePollKeeps ==
    ASSUME IInv, LeavePoll
    PROVE  IInv'
<1>1. /\ Typed /\ UNCHANGED <<os, sigchld, pipe, stopRequests, gotInt, calls>>
      /\ polling' = FALSE /\ \A p \in Procs : Whole(p)
  BY DEF IInv, LeavePoll, osVars
<1>2. /\ job' \in [Procs -> JobType] /\ events' \in Seq(EventType)
      /\ \A p \in Procs :
           /\ Whole(p)' /\ KeepsRefs(p)
           /\ job[p].data = "leaving" => job'[p].data = "freed"
           /\ job[p].data # "leaving" => /\ job'[p].data = job[p].data
                                         /\ job'[p].stopped = job[p].stopped
  BY LeavePollWhole
<1>3. /\ stack' \in Seq(FrameType) /\ Shape' /\ Above' /\ TopUses' /\ Polls'
      /\ \A p \in Procs : CarriesMoved(p) /\ CarriesPoint(p)
  BY PollLeft
<1>4. Typed'
  BY <1>1, <1>2, <1>3 DEF Typed
<1>5. Parents' /\ Pointers'
  BY <1>2, <1>3, RefsBy DEF IInv
<1>6. Counters'
  <2>1. Unanswered' = Unanswered
    <3>1. \A p \in Procs : os[p] \in {"running", "zombie"} => job[p].data # "leaving"
      BY <1>1, ChildFacts
    <3> QED  BY <1>1, <1>2, <3>1 DEF Unanswered
  <2>2. Dead' = Dead
    BY <1>1 DEF Dead
  <2>3. Asked \subseteq Asked'
    BY <1>2 DEF Asked
  <2>4. IsFiniteSet(Asked') /\ Cardinality(Asked') \in Nat
    <3> DEFINE A == Asked'
    <3>1. A \in SUBSET Procs
      BY DEF Asked
    <3> HIDE DEF A
    <3>2. IsFiniteSet(A)
      BY <3>1, JobsAssumption, FS_Subset
    <3> QED  BY <3>2, FS_CardinalityType DEF A
  <2>5. Cardinality(Asked) <= Cardinality(Asked')
    <3> DEFINE A == Asked
               B == Asked'
    <3>1. A \subseteq B /\ IsFiniteSet(B)
      BY <2>3, <2>4
    <3> HIDE DEF A, B
    <3> QED  BY <3>1, FS_Subset DEF A, B
  <2>6. /\ Cardinality(Asked) \in Nat /\ stopRequests \in Nat
        /\ stopRequests >= Cardinality(Unanswered)
        /\ stopRequests <= Cardinality(Asked) /\ sigchld <= Cardinality(Dead)
    BY <1>1, CountersFacts DEF IInv, Typed
  <2> HIDE DEF Unanswered, Asked, Dead
  <2>7. stopRequests' <= Cardinality(Asked')
    BY <1>1, <2>4, <2>5, <2>6
  <2>8. stopRequests' >= Cardinality(Unanswered') /\ sigchld' <= Cardinality(Dead')
    BY <1>1, <2>1, <2>2, <2>6
  <2> QED  BY <2>7, <2>8 DEF Counters, Unanswered, Asked, Dead
<1> QED  BY <1>2, <1>3, <1>4, <1>5, <1>6 DEF IInv

-----------------------------------------------------------------------------
(***************************************************************************)
(* A callback returns.                                                     *)
(***************************************************************************)
LEMMA PopFrames ==
    ASSUME Typed, Shape, Pops, Top.op \in {"read", "exit", "flush"}, NEW p \in Procs
    PROVE  /\ \A op \in {"read", "exit", "flush"} : op # Top.op \/ Top.proc # p =>
                Running(p, op)' = Running(p, op)
           /\ Top.proc = p => /\ Running(p, Top.op) > 0
                              /\ \A op : op = Top.op => Running(p, op)' = Running(p, op) - 1
           /\ Holding(p)' = Holding(p)
           /\ Draining(p)' > 0 => Draining(p) > 0
           /\ Shortened(p)' > 0 => Shortened(p) > 0
           /\ Top.proc # p => SameFrames(p)
<1>1. /\ \A op : Running(p, op)' =
            Running(p, op) - (IF Top.op = op /\ Top.proc = p THEN 1 ELSE 0)
      /\ Draining(p)' = Draining(p) -
           (IF Top.op = "flush" /\ Top.proc = p /\ Top.step = "drain" THEN 1 ELSE 0)
      /\ Shortened(p)' > 0 => Shortened(p) > 0
      /\ Holding(p)' = Holding(p) - (IF Holds(Top, p) THEN 1 ELSE 0)
  BY PopCounts
<1>2. Draining(p) \in Nat /\ Holding(p) \in Nat /\ \A op : Running(p, op) \in Nat
  BY Numbers
<1>3. Top.op \in {"read", "exit", "flush"} /\ Top.proc = p => Running(p, Top.op) > 0
  BY TopRuns
<1> HIDE DEF Top
<1>4. Holding(p)' = Holding(p)
  <2>1. ~Holds(Top, p)
    BY DEF Holds
  <2> QED  BY <1>1, <1>2, <2>1
<1>5. Draining(p)' > 0 => Draining(p) > 0
  BY <1>1, <1>2
<1>6. ASSUME NEW op \in {"read", "exit", "flush"}, op # Top.op \/ Top.proc # p
      PROVE  Running(p, op)' = Running(p, op)
  <2>1. Running(p, op)' = Running(p, op) - (IF Top.op = op /\ Top.proc = p THEN 1 ELSE 0)
    BY <1>1
  <2>2. Running(p, op) \in Nat
    BY <1>2
  <2> QED  BY <1>6, <2>1, <2>2
<1>7. ASSUME Top.proc = p, NEW op, op = Top.op
      PROVE  Running(p, op)' = Running(p, op) - 1
  BY <1>1, <1>7
<1> QED  BY <1>1, <1>3, <1>4, <1>5, <1>6, <1>7 DEF SameFrames

LEMMA PopStack ==
    ASSUME IInv, Pops, Top.op \in {"read", "exit", "flush"}, calls' = calls,
           UNCHANGED polling, \A p \in Procs : KeepsRefs(p), Top.op # "flush" \/ ~polling,
           \A p \in Procs : p = Top.proc => Known(p)'
    PROVE  Shape' /\ Above' /\ Polls' /\ TopUses' /\ Parents' /\ Pointers'
<1>1. Typed /\ Shape /\ Above /\ Polls
  BY DEF IInv
<1>2. Shape' /\ Above'
  BY <1>1, PopsKeep
<1>3. ~polling'
  BY <1>1 DEF Polls, Waiting
<1>4. Top.proc \in Procs
  <2>1. Top \in FrameType
    BY <1>1, TopFacts
  <2> HIDE DEF Top
  <2> QED  BY <2>1, FrameKinds
<1>5. TopUses'
  <2>1. Narrow(Top') => Callback(Top, Top'.list[Top'.i])
    BY <1>1, PopsTop
  <2>2. job'[Top.proc].data \in {"live", "leaving"}
    BY <1>4 DEF Known
  <2>3. Narrow(Top') => Top'.list[Top'.i] = Top.proc
    BY <2>1 DEF Callback
  <2> QED  BY <2>2, <2>3 DEF TopUses, Known, Narrow
<1>6. \A p \in Procs : CarriesMoved(p) /\ CarriesPoint(p)
  <2>1. Top.op # "wait"
    OBVIOUS
  <2> QED  BY <1>1, <2>1, CarriedPops
<1>7. Parents' /\ Pointers'
  BY <1>6, RefsBy DEF IInv
<1> QED  BY <1>2, <1>3, <1>5, <1>7 DEF Polls

LEMMA TopProc ==
    ASSUME IInv, Top.op \in {"read", "exit", "flush"}
    PROVE  \E p \in Procs : p = Top.proc
<1>1. Top \in FrameType
  BY TopFacts DEF IInv
<1> HIDE DEF Top
<1> QED  BY <1>1, FrameKinds

LEMMA EndReadOf ==
    ASSUME IInv, EndRead, NEW p \in Procs, p = Top.proc
    PROVE  IInv'
<1> DEFINE r == job[p].reads - 1
           o == IF job[p].out = "waiting" /\ job[p].reads = 1 THEN "closing" ELSE job[p].out
           j == [job[p] EXCEPT !.reads = r, !.out = o]
<1>1. /\ Typed /\ Shape /\ Top.op = "read" /\ stack' = Below
      /\ UNCHANGED <<os, sigchld, pipe, stopRequests, events, polling, gotInt, calls>>
  BY DEF IInv, EndRead, osVars
<1>2. Pops
  <2>1. Top.op # "main"
    BY <1>1
  <2> QED  BY <1>1, <2>1, PopsBy
<1>3. job' = [job EXCEPT ![p] = j]
  <2>1. job' = [job EXCEPT ![p] =
                  [job[p] EXCEPT !.reads = @ - 1,
                      !.out = IF @ = "waiting" /\ job[p].reads = 1 THEN "closing" ELSE @]]
    BY DEF EndRead
  <2> QED  BY <2>1
<1>4. /\ Running(p, "read") > 0
         /\ \A op \in {"exit", "flush"} : Running(p, op)' = Running(p, op)
      /\ Running(p, "read")' = Running(p, "read") - 1 /\ Holding(p)' = Holding(p)
      /\ Draining(p)' > 0 => Draining(p) > 0
      /\ Shortened(p)' > 0 => Shortened(p) > 0
  <2>1. "read" = Top.op /\ Top.op \in {"read", "exit", "flush"}
    BY <1>1
  <2>2. \A op \in {"exit", "flush"} : op # Top.op /\ op \in {"read", "exit", "flush"}
    BY <1>1
  <2>3. Running(p, "read") > 0
    BY <1>1, <2>1, TopRuns
  <2>4. /\ \A op : op = Top.op => Running(p, op)' = Running(p, op) - 1
        /\ \A op \in {"read", "exit", "flush"} : op # Top.op
             => Running(p, op)' = Running(p, op)
        /\ Holding(p)' = Holding(p)
        /\ Draining(p)' > 0 => Draining(p) > 0
        /\ Shortened(p)' > 0 => Shortened(p) > 0
    BY <1>1, <1>2, <2>1, PopFrames
  <2> HIDE DEF Top
  <2> QED  BY <2>1, <2>2, <2>3, <2>4
<1>5. \A q \in Procs : q # p => SameFrames(q)
  BY <1>1, <1>2, PopFrames
<1>6. UNCHANGED polling /\ (Top.op # "flush" \/ ~polling)
        /\ Top.op \in {"read", "exit", "flush"}
  BY <1>1
<1>7. Whole(p) /\ job[p] \in JobType
  BY <1>1 DEF IInv, Typed
<1>8. /\ job[p].reads = Queued(p, "read") + Running(p, "read") /\ job[p].reads > 0
      /\ job[p].out \in {"open", "waiting"} /\ job[p].data = "live"
      /\ Queued(p, "read") \in Nat /\ Running(p, "read") \in Nat /\ job[p].reads \in Nat
  <2>1. job[p].reads = Queued(p, "read") + Running(p, "read") /\ Queued(p, "read") \in Nat
        /\ Running(p, "read") \in Nat
    BY <1>1, <1>7, Numbers DEF Whole, Reading
  <2>2. job[p].reads > 0 /\ job[p].out \in {"open", "waiting"}
    BY <1>4, <1>7, <2>1 DEF Whole, Reading
  <2>3. One(job[p].out) = 1
    BY <2>2 DEF One
  <2> QED  BY <1>1, <1>7, <2>1, <2>2, <2>3, OpenIsLive
<1>9. /\ r \in Nat /\ o \in {"open", "waiting", "closing"} /\ One(o) = One(job[p].out)
      /\ r > 0 => o = job[p].out
      /\ job[p].out = "open" => o = "open"
  BY <1>8 DEF One
<1>10. /\ j \in JobType /\ j.refs = job[p].refs /\ j.handle = job[p].handle
          /\ j.in = job[p].in
       /\ j.reads = r /\ j.wrote = job[p].wrote /\ j.data = job[p].data
       /\ j.out = o /\ j.cut = job[p].cut /\ j.stopped = job[p].stopped
       /\ j.parent = job[p].parent /\ j.statusPtr = job[p].statusPtr
       /\ j.jobStopped = job[p].jobStopped
  <2> HIDE DEF r, o
  <2>1. j \in JobType
    BY <1>7, <1>9 DEF JobType
  <2> QED  BY <1>7, <2>1 DEF JobType
<1> HIDE DEF j
<1>11. job' \in [Procs -> JobType] /\ job'[p] = j /\ \A q \in Procs : q # p
         => job'[q] = job[q]
  BY <1>1, <1>3, <1>10, JobChanged
<1>12. Typed'
  BY <1>1, <1>2, <1>11 DEF Typed, Pops
<1>13. \A q \in Procs : Unseen(q)
  BY <1>10, <1>11 DEF Unseen
<1>14. SameEvents(p)
  BY <1>1, SameEventsBy
<1>15. Whole(p)'
  <2>1. Referenced(p)'
    BY <1>4, <1>7, <1>9, <1>10, <1>11 DEF Referenced, HandlesOf, Whole
  <2>2. Alive(p)'
    <3>1. /\ os[p] # "none" /\ job[p].handle # "none"
             /\ pipe[p] + job[p].reads <= job[p].wrote
          /\ job[p].wrote <= MaxOutput[p]
          /\ os[p] \in {"running", "zombie"} => job[p].handle = "open"
      BY <1>7, <1>8 DEF Whole, Alive
    <3>2. pipe[p] + r <= job[p].wrote
      BY <1>1, <1>8, <3>1, JobFacts
    <3> HIDE DEF r, o
    <3> QED  BY <1>1, <1>8, <1>10, <1>11, <3>1, <3>2 DEF Alive
  <2>3. Reading(p)'
    <3>1. Queued(p, "read")' = Queued(p, "read")
      BY <1>14 DEF SameEvents
    <3>2. r = Queued(p, "read") + (Running(p, "read") - 1)
      BY <1>8
    <3> HIDE DEF r, o
    <3> QED  BY <1>4, <1>8, <1>9, <1>10, <1>11, <3>1, <3>2 DEF Reading
  <2>4. Closes(p)' /\ Exits(p)'
    BY <1>1, <1>4, <1>7, <1>10, <1>11, <1>14 DEF Closes, Exits, Whole, SameEvents
  <2>5. Output(p)'
    <3> HIDE DEF r, o
    <3>1. (Lost(p) => Lost(p)') /\ (Drained(p) => Drained(p)') /\ Arrived(p)' = Arrived(p)
      BY <1>1, <1>10, <1>11 DEF Lost, Drained, Arrived
    <3>2. AtMost(events, p, Arrived(p) - Room) => AtMost(events, p, Arrived(p) - Room)'
      BY <1>1, <3>1
    <3> QED  BY <1>4, <1>7, <1>9, <1>10, <1>11, <1>14, <3>1, <3>2 DEF Output, Whole,
                SameEvents
  <2> QED  BY <2>1, <2>2, <2>3, <2>4, <2>5 DEF Whole
<1>16. ASSUME NEW q \in Procs, q # p
       PROVE  Whole(q)'
  <2>1. Gentle(q)
    BY <1>11, <1>16 DEF Gentle
  <2>2. SameEvents(q) /\ SameFrames(q) /\ Whole(q)
    BY <1>1, <1>5, <1>16, SameEventsBy DEF IInv
  <2> QED  BY <1>1, <1>16, <2>1, <2>2, WholeGentle
<1>17. Counters'
  BY <1>1, <1>13, CountersSame DEF IInv, Unseen
<1>18. Shape' /\ Polls' /\ Above' /\ TopUses' /\ Parents' /\ Pointers'
  <2>1. \A q \in Procs : q = Top.proc => Known(q)'
    BY <1>8, <1>10, <1>11 DEF Known
  <2> QED  BY <1>1, <1>2, <1>6, <1>13, <2>1, UnseenKeeps, PopStack
<1> QED  BY <1>12, <1>15, <1>16, <1>17, <1>18 DEF IInv

LEMMA EndReadKeeps ==
    ASSUME IInv, EndRead
    PROVE  IInv'
<1>1. PICK p \in Procs : p = Top.proc
  BY TopProc DEF EndRead
<1> QED  BY <1>1, EndReadOf

LEMMA EndExitOf ==
    ASSUME IInv, EndExit, NEW p \in Procs, p = Top.proc
    PROVE  IInv'
<1> DEFINE j == [job[p] EXCEPT !.data = "leaving"]
<1>1. /\ Typed /\ Shape /\ Top.op = "exit" /\ stack' = Below
      /\ UNCHANGED <<os, sigchld, pipe, stopRequests, events, polling, gotInt, calls>>
      /\ job' = [job EXCEPT ![p] = j]
  BY DEF IInv, EndExit, osVars
<1>2. Pops
  <2>1. Top.op # "main"
    BY <1>1
  <2> QED  BY <1>1, <2>1, PopsBy
<1>3. /\ Running(p, "exit") > 0
         /\ \A op \in {"read", "flush"} : Running(p, op)' = Running(p, op)
      /\ Running(p, "exit")' = Running(p, "exit") - 1 /\ Holding(p)' = Holding(p)
      /\ Draining(p)' > 0 => Draining(p) > 0
      /\ Shortened(p)' > 0 => Shortened(p) > 0
  <2>1. "exit" = Top.op /\ Top.op \in {"read", "exit", "flush"}
    BY <1>1
  <2>2. \A op \in {"read", "flush"} : op # Top.op /\ op \in {"read", "exit", "flush"}
    BY <1>1
  <2>3. Running(p, "exit") > 0
    BY <1>1, <2>1, TopRuns
  <2>4. /\ \A op : op = Top.op => Running(p, op)' = Running(p, op) - 1
        /\ \A op \in {"read", "exit", "flush"} : op # Top.op
             => Running(p, op)' = Running(p, op)
        /\ Holding(p)' = Holding(p)
        /\ Draining(p)' > 0 => Draining(p) > 0
        /\ Shortened(p)' > 0 => Shortened(p) > 0
    BY <1>1, <1>2, <2>1, PopFrames
  <2> HIDE DEF Top
  <2> QED  BY <2>1, <2>2, <2>3, <2>4
<1>4. \A q \in Procs : q # p => SameFrames(q)
  BY <1>1, <1>2, PopFrames
<1>5. UNCHANGED polling /\ (Top.op # "flush" \/ ~polling)
        /\ Top.op \in {"read", "exit", "flush"}
  BY <1>1
<1>6. Whole(p) /\ job[p] \in JobType
  BY <1>1 DEF IInv, Typed
<1>7. /\ job[p].data = "live" /\ job[p].refs = 0
      /\ Queued(p, "exit") = 0 /\ Running(p, "exit") = 1
  <2>1. Queued(p, "exit") \in Nat /\ Running(p, "exit") \in Nat
    BY <1>1, Numbers
  <2>2. Queued(p, "exit") + Running(p, "exit") =
          IF job[p].data = "live" /\ job[p].refs = 0 THEN 1 ELSE 0
    BY <1>6 DEF Whole, Exits
  <2> QED  BY <1>3, <2>1, <2>2
<1>8. /\ j \in JobType /\ j.refs = job[p].refs /\ j.handle = job[p].handle
         /\ j.in = job[p].in
      /\ j.reads = job[p].reads /\ j.wrote = job[p].wrote /\ j.data = "leaving"
      /\ j.out = job[p].out /\ j.cut = job[p].cut /\ j.stopped = job[p].stopped
      /\ j.parent = job[p].parent /\ j.statusPtr = job[p].statusPtr
      /\ j.jobStopped = job[p].jobStopped
  BY <1>6 DEF JobType
<1> HIDE DEF j
<1>9. job' \in [Procs -> JobType] /\ job'[p] = j /\ \A q \in Procs : q # p
        => job'[q] = job[q]
  BY <1>1, <1>8, JobChanged
<1>10. Typed'
  BY <1>1, <1>2, <1>9 DEF Typed, Pops
<1>11. SameEvents(p)
  BY <1>1, SameEventsBy
<1>12. Whole(p)'
  <2>1. Referenced(p)'
    BY <1>3, <1>6, <1>8, <1>9 DEF Referenced, HandlesOf, Whole
  <2>2. Alive(p)'
    BY <1>1, <1>6, <1>7, <1>8, <1>9 DEF Alive, Whole
  <2>3. Reading(p)' /\ Closes(p)'
    BY <1>1, <1>3, <1>6, <1>8, <1>9, <1>11 DEF Reading, Closes, Whole, SameEvents
  <2>4. Exits(p)'
    BY <1>3, <1>7, <1>8, <1>9, <1>11 DEF Exits, SameEvents
  <2>5. Output(p)'
    <3>1. (Lost(p) => Lost(p)') /\ (Drained(p) => Drained(p)') /\ Arrived(p)' = Arrived(p)
      BY <1>1, <1>8, <1>9 DEF Lost, Drained, Arrived
    <3>2. AtMost(events, p, Arrived(p) - Room) => AtMost(events, p, Arrived(p) - Room)'
      BY <1>1, <3>1
    <3> QED  BY <1>3, <1>6, <1>8, <1>9, <1>11, <3>1, <3>2 DEF Output, Whole, SameEvents
  <2> QED  BY <2>1, <2>2, <2>3, <2>4, <2>5 DEF Whole
<1>13. ASSUME NEW q \in Procs, q # p
       PROVE  Whole(q)'
  <2>1. Gentle(q)
    BY <1>9, <1>13 DEF Gentle
  <2>2. SameEvents(q) /\ SameFrames(q) /\ Whole(q)
    BY <1>1, <1>4, <1>13, SameEventsBy DEF IInv
  <2> QED  BY <1>1, <1>13, <2>1, <2>2, WholeGentle
<1>14. Counters'
  <2>1. Unanswered' = Unanswered /\ Asked' = Asked /\ Dead' = Dead
    BY <1>1, <1>7, <1>8, <1>9 DEF Unanswered, Asked, Dead
  <2> QED  BY <1>1, <2>1 DEF IInv, Counters, Unanswered, Asked, Dead
<1>15. Shape' /\ Polls' /\ Above' /\ TopUses' /\ Parents' /\ Pointers'
  <2>1. \A q \in Procs : q = Top.proc => Known(q)'
    BY <1>8, <1>9 DEF Known
  <2>2. \A q \in Procs : KeepsRefs(q)
    BY <1>7, <1>8, <1>9 DEF KeepsRefs, FindJob, Known
  <2> QED  BY <1>1, <1>2, <1>5, <2>1, <2>2, PopStack
<1> QED  BY <1>10, <1>12, <1>13, <1>14, <1>15 DEF IInv

LEMMA EndExitKeeps ==
    ASSUME IInv, EndExit
    PROVE  IInv'
<1>1. PICK p \in Procs : p = Top.proc
  BY TopProc DEF EndExit
<1> QED  BY <1>1, EndExitOf

LEMMA FlushAgainKeeps ==
    ASSUME IInv, FlushAgain
    PROVE  IInv'
<1>1. /\ Typed /\ Shape /\ Above /\ Top.op = "flush" /\ Top.step = "drain"
      /\ stack' = Now([Top EXCEPT !.step = "poll", !.mark = Arrived(Top.proc)])
      /\ UNCHANGED <<os, sigchld, pipe, job, stopRequests, events, polling, gotInt, calls>>
  BY DEF IInv, FlushAgain, osVars, procVars
<1>2. ~polling
  BY <1>1 DEF IInv, Polls, Waiting
<1>3. /\ Shape' /\ Above' /\ Top'.op = "flush" /\ stack' \in Seq(FrameType)
      /\ \A p : CarriesMoved(p) /\ CarriesPoint(p)
      /\ \A p \in Procs : SameFrames(p)
  <2>1. Arrived(Top.proc) \in Int
    <3>1. \E p \in Procs : p = Top.proc
      BY <1>1, TopProc
    <3> QED  BY <1>1, <3>1, JobFacts
  <2>2. \E m \in Int : stack' = Now([Top EXCEPT !.step = "poll", !.mark = m])
    BY <1>1, <2>1
  <2> QED  BY <1>1, <2>2, FlushGoes DEF SameFrames
<1>4. Typed'
  BY <1>1, <1>3 DEF Typed
<1>5. Polls' /\ TopUses'
  BY <1>1, <1>2, <1>3 DEF Polls, TopUses, Narrow
<1>6. \A p \in Procs : Gentle(p) /\ KeepsRefs(p)
  BY <1>1 DEF Gentle, KeepsRefs, FindJob, Known
<1>7. Parents' /\ Pointers'
  BY <1>3, <1>6, RefsBy DEF IInv
<1>8. \A p \in Procs : Whole(p)'
  BY <1>1, <1>3, <1>6, SameEventsBy, WholeGentle DEF IInv
<1>9. Counters'
  BY <1>1, CountersSame DEF IInv
<1> QED  BY <1>3, <1>4, <1>5, <1>7, <1>8, <1>9 DEF IInv

(* The exit event of p, or none. *)
LEMMA ExitAdded ==
    ASSUME Typed, NEW p \in Procs, NEW b \in BOOLEAN,
           b => events' = Append(events, Event(p, "exit")), ~b => UNCHANGED events
    PROVE  /\ events' \in Seq(EventType)
           /\ Queued(p, "exit")' = Queued(p, "exit") + (IF b THEN 1 ELSE 0)
           /\ \A w \in {"read", "close"} : Queued(p, w)' = Queued(p, w)
           /\ \A n \in Int : AtMost(events, p, n) => AtMost(events', p, n)
           /\ \A q \in Procs : q # p => SameEvents(q)
<1>1. CASE b
  <2> DEFINE e == Event(p, "exit")
  <2>1. e \in EventType /\ e \notin {Event(p, "read"), Event(p, "close")}
    <3>1. e # Event(p, "read") /\ e # Event(p, "close")
      BY EventIs
    <3> QED  BY <3>1 DEF Event, EventType
  <2>2. In(e, {Event(p, "exit")}) = 1
          /\ \A w \in {"read", "close"} : In(e, {Event(p, w)}) = 0
    BY EventIs DEF In
  <2> HIDE DEF e
  <2>3. events' = Append(events, e)
    BY <1>1 DEF e
  <2>4. /\ events' \in Seq(EventType)
        /\ \A what : Queued(p, what)' = Queued(p, what) + In(e, {Event(p, what)})
        /\ \A n \in Int : AtMost(events, p, n) =>
             /\ e \notin {Event(p, "read"), Event(p, "close")} => AtMost(events', p, n)
             /\ e = Event(p, "read") => AtMost(events', p, n + 1)
    BY <2>1, <2>3, EventAdded
  <2>5. \A n \in Int : AtMost(events, p, n) => AtMost(events', p, n)
    BY <2>1, <2>4
  <2>6. ASSUME NEW w \in {"read", "close"}
        PROVE  Queued(p, w)' = Queued(p, w)
    <3>1. Queued(p, w)' = Queued(p, w) + In(e, {Event(p, w)}) /\ In(e, {Event(p, w)}) = 0
      BY <2>2, <2>4
    <3>2. Queued(p, w) \in Nat
      BY Numbers
    <3> QED  BY <3>1, <3>2
  <2>7. Queued(p, "exit")' = Queued(p, "exit") + 1
    BY <2>2, <2>4
  <2>8. \A q \in Procs : q # p => SameEvents(q)
    BY <1>1, OtherEvents
  <2> QED  BY <1>1, <2>4, <2>5, <2>6, <2>7, <2>8
<1>2. CASE ~b
  <2>1. \A q : SameEvents(q)
    BY <1>2, SameEventsBy
  <2>2. Queued(p, "exit") \in Nat
    BY Numbers
  <2>3. events' \in Seq(EventType)
    BY <1>2 DEF Typed
  <2> QED  BY <1>2, <2>1, <2>2, <2>3 DEF SameEvents
<1> QED  BY <1>1, <1>2

LEMMA CloseHandlesOf ==
    ASSUME IInv, CloseHandles, NEW p \in Procs, p = Top.proc
    PROVE  IInv'
<1> DEFINE c == CloseStreams(job[p])
           b == p \in Pty /\ LastRef(c, 1)
           h == IF p \in Pty THEN "closed" ELSE "closing"
           m == IF p \in Pty THEN c.refs - 1 ELSE c.refs
           j == [c EXCEPT !.handle = h, !.refs = m]
<1>1. /\ Typed /\ Shape /\ Above /\ Top.op = "flush" /\ stack' = Below
      /\ ~polling /\ Flushed(Top)
      /\ UNCHANGED <<os, sigchld, pipe, stopRequests, polling, gotInt, calls>>
  BY DEF IInv, CloseHandles, osVars
<1>2. Pops
  <2>1. Top.op # "main"
    BY <1>1
  <2> QED  BY <1>1, <2>1, PopsBy
<1>3. /\ Running(p, "flush") > 0
         /\ \A op \in {"read", "exit"} : Running(p, op)' = Running(p, op)
      /\ Running(p, "flush")' = Running(p, "flush") - 1 /\ Holding(p)' = Holding(p)
      /\ Shortened(p)' > 0 => Shortened(p) > 0
  <2>1. "flush" = Top.op /\ Top.op \in {"read", "exit", "flush"}
    BY <1>1
  <2>2. \A op \in {"read", "exit"} : op # Top.op /\ op \in {"read", "exit", "flush"}
    BY <1>1
  <2>3. Running(p, "flush") > 0
    BY <1>1, <2>1, TopRuns
  <2>4. /\ \A op : op = Top.op => Running(p, op)' = Running(p, op) - 1
        /\ \A op \in {"read", "exit", "flush"} : op # Top.op
             => Running(p, op)' = Running(p, op)
        /\ Holding(p)' = Holding(p)
        /\ Shortened(p)' > 0 => Shortened(p) > 0
    BY <1>1, <1>2, <2>1, PopFrames
  <2> HIDE DEF Top
  <2> QED  BY <2>1, <2>2, <2>3, <2>4
<1>4. \A q \in Procs : q # p => SameFrames(q)
  BY <1>1, <1>2, PopFrames
<1>5. UNCHANGED polling /\ (Top.op # "flush" \/ ~polling)
        /\ Top.op \in {"read", "exit", "flush"}
  BY <1>1
<1>6. Whole(p) /\ job[p] \in JobType /\ job[p].refs \in Nat
  BY <1>1, JobFacts DEF IInv
<1>7. /\ Queued(p, "close") = 0 /\ Running(p, "flush") = 1 /\ os[p] = "reaped"
      /\ job[p].handle = "open" /\ job[p].refs > 0 /\ job[p].data = "live"
  <2>1. Queued(p, "close") \in Nat /\ Running(p, "flush") \in Nat
    BY <1>1, Numbers
  <2>2. Queued(p, "close") + Running(p, "flush") = 1 /\ os[p] = "reaped"
          /\ job[p].handle = "open"
    BY <1>3, <1>6, <2>1 DEF Whole, Closes
  <2>3. job[p].refs > 0 /\ job[p].data = "live"
    BY <1>1, <1>6, <2>2, OpenIsLive DEF One
  <2> QED  BY <1>3, <2>1, <2>2, <2>3
<1>8. Drained(p)
  <2>1. CASE Top.step = "poll" /\ job[p].out # "open"
    <3>1. job[p].cut
      BY <1>6, <1>7, <2>1 DEF Whole, Output
    <3> QED  BY <3>1 DEF Drained, Lost
  <2>2. CASE Top.step = "poll" /\ Arrived(p) >= Top.limit
    <3>1. Top.limit < Room + Flushes => Shortened(p) > 0
      <4>1. Len(stack) \in Nat /\ Top \in FrameType /\ Top = stack[Len(stack)]
            /\ Len(stack) \in 1 .. Len(stack)
        BY <1>1, TopFacts
      <4>2. Count(stack, Shorts(p)) \in Nat
            /\ (Count(stack, Shorts(p)) = 0 => stack[Len(stack)] \notin Shorts(p))
        BY <4>1, UptoNat DEF Count
      <4>3. Top.limit < Room + Flushes => Top \in Shorts(p)
        <5> HIDE DEF Top
        <5> QED  BY <1>1, <4>1 DEF Shorts, Callbacks
      <4> HIDE DEF Top
      <4> QED  BY <4>1, <4>2, <4>3 DEF Shortened
    <3>2. Top.limit < Room + Flushes => Lost(p)
      BY <1>6, <3>1 DEF Whole, Output
    <3>3. Top.limit \in Int
      <4>1. Top \in FrameType
        BY <1>1, TopFacts
      <4> HIDE DEF Top
      <4> QED  BY <1>1, <4>1, FrameKinds
    <3>4. /\ Flushes \in Nat /\ Room \in Nat /\ pipe[p] \in Nat /\ job[p].wrote \in Nat
          /\ Arrived(p) = job[p].wrote - pipe[p]
      BY <1>1, JobFacts, JobsAssumption DEF Flushes
    <3> DEFINE l == Top.limit
               n == Arrived(p)
    <3>5. l \in Int /\ n >= l
      BY <2>2, <3>3
    <3> HIDE DEF l, n
    <3>6. pipe[p] # 0 /\ ~(l < Room + Flushes) => job[p].wrote > Room + Flushes
      BY <3>4, <3>5 DEF n
    <3> QED  BY <3>2, <3>6 DEF Drained, Lost, l
  <2>3. CASE Top.step = "drain"
    <3>1. Draining(p) > 0
      <4>1. Len(stack) \in Nat /\ Top \in FrameType /\ Top = stack[Len(stack)]
            /\ Len(stack) \in 1 .. Len(stack)
        BY <1>1, TopFacts
      <4>2. Count(stack, Drains(p)) \in Nat
            /\ (Count(stack, Drains(p)) = 0 => stack[Len(stack)] \notin Drains(p))
        BY <4>1, UptoNat DEF Count
      <4>3. Top \in Drains(p)
        <5> HIDE DEF Top
        <5> QED  BY <1>1, <2>3, <4>1 DEF Drains, Callbacks
      <4> QED  BY <4>1, <4>2, <4>3 DEF Draining
    <3> QED  BY <1>6, <3>1 DEF Whole, Output
  <2> QED  BY <1>1, <2>1, <2>2, <2>3 DEF Flushed
<1>9. /\ c \in JobType /\ SameButStreams(job[p], c) /\ StreamsAsked(job[p], c)
      /\ c.cut = job[p].cut /\ c.stopped = job[p].stopped
  BY <1>6, CloseStreamsIs
<1>10. c.refs = job[p].refs /\ c.handle = "open"
  BY <1>7, <1>9 DEF SameButStreams
<1>11. /\ job' = [job EXCEPT ![p] = j]
       /\ b => events' = Append(events, Event(p, "exit"))
       /\ ~b => UNCHANGED events
  <2>1. IF p \in Pty
        THEN /\ job' = [job EXCEPT ![p] = Decref([c EXCEPT !.handle = "closed"], 1)]
             /\ events' = IF LastRef(c, 1) THEN Append(events, Event(p, "exit")) ELSE events
        ELSE /\ job' = [job EXCEPT ![p] = [c EXCEPT !.handle = "closing"]]
             /\ UNCHANGED events
    BY DEF CloseHandles
  <2> HIDE DEF c
  <2>2. CASE p \in Pty
    <3>1. [[c EXCEPT !.handle = "closed"] EXCEPT !.refs = @ - 1] = j
      BY <1>9, <2>2 DEF JobType
    <3> HIDE DEF j
    <3> QED  BY <2>1, <2>2, <3>1 DEF Decref
  <2>3. CASE p \notin Pty
    <3>1. [c EXCEPT !.handle = "closing"] = j
      BY <1>9, <2>3 DEF JobType
    <3> HIDE DEF j
    <3> QED  BY <2>1, <2>3, <3>1
  <2> QED  BY <2>2, <2>3
<1>12. b \in BOOLEAN /\ (b <=> p \in Pty /\ job[p].refs = 1)
  BY <1>10 DEF LastRef
<1>13. /\ h \in {"closing", "closed"} /\ m \in Nat
       /\ m = job[p].refs - (1 - One(h))
       /\ m = 0 <=> b
  BY <1>6, <1>7, <1>10, <1>12 DEF One
<1>14. /\ j \in JobType /\ j.refs = m /\ j.handle = h /\ j.in = c.in /\ j.out = c.out
       /\ j.reads = job[p].reads /\ j.wrote = job[p].wrote /\ j.data = job[p].data
       /\ j.cut = job[p].cut /\ j.stopped = job[p].stopped
       /\ j.parent = job[p].parent /\ j.statusPtr = job[p].statusPtr
       /\ j.jobStopped = job[p].jobStopped
  <2> HIDE DEF c, h, m
  <2>1. j \in JobType
    BY <1>9, <1>13 DEF JobType
  <2> QED  BY <1>9, <2>1 DEF JobType, SameButStreams
<1>15. One(c.in) = One(job[p].in) /\ One(c.out) = One(job[p].out)
       /\ (job[p].reads > 0 => c.out \in {job[p].out, "waiting"})
  BY <1>9 DEF StreamsAsked
<1> HIDE DEF j, b, c, h, m
<1>16. job' \in [Procs -> JobType] /\ job'[p] = j /\ \A q \in Procs : q # p
         => job'[q] = job[q]
  BY <1>1, <1>11, <1>14, JobChanged
<1>17. /\ events' \in Seq(EventType)
       /\ Queued(p, "exit")' = Queued(p, "exit") + (IF b THEN 1 ELSE 0)
       /\ \A w \in {"read", "close"} : Queued(p, w)' = Queued(p, w)
       /\ \A n \in Int : AtMost(events, p, n) => AtMost(events', p, n)
       /\ \A q \in Procs : q # p => SameEvents(q)
  BY <1>1, <1>11, <1>12, ExitAdded
<1>18. Typed'
  BY <1>1, <1>2, <1>16, <1>17 DEF Typed, Pops
<1>19. \A q \in Procs : Unseen(q)
  BY <1>14, <1>16 DEF Unseen
<1>20. Whole(p)'
  <2>1. Referenced(p)'
    <3>1. /\ job[p].refs = One(job[p].in) + One(job[p].out) + One(job[p].handle) + Holding(p)
          /\ Holding(p) \in Nat /\ One(job[p].handle) = 1 /\ One(h) \in {0, 1}
          /\ One(job[p].in) \in Nat /\ One(job[p].out) \in Nat
      BY <1>1, <1>6, <1>7, Numbers DEF Whole, Referenced, HandlesOf, One
    <3>2. m = One(job[p].in) + One(job[p].out) + One(h) + Holding(p)
      <4> HIDE DEF One
      <4> QED  BY <1>6, <1>13, <3>1
    <3>3. job'[p].refs = m /\ HandlesOf(job'[p]) = One(job[p].in) + One(job[p].out) + One(h)
      BY <1>14, <1>15, <1>16 DEF HandlesOf
    <3> QED  BY <1>3, <3>2, <3>3 DEF Referenced
  <2>2. Alive(p)'
    BY <1>1, <1>6, <1>7, <1>13, <1>14, <1>16 DEF Alive, Whole
  <2>3. Reading(p)'
    BY <1>3, <1>6, <1>14, <1>15, <1>16, <1>17 DEF Reading, Whole
  <2>4. Closes(p)'
    BY <1>3, <1>7, <1>17 DEF Closes
  <2>5. Exits(p)'
    <3>1. Queued(p, "exit") + Running(p, "exit") = 0
      BY <1>6, <1>7 DEF Whole, Exits
    <3>2. Queued(p, "exit") = 0 /\ Running(p, "exit") = 0
      <4>1. Queued(p, "exit") \in Nat /\ Running(p, "exit") \in Nat
        BY <1>1, Numbers
      <4> QED  BY <3>1, <4>1
    <3> QED  BY <1>3, <1>7, <1>13, <1>14, <1>16, <1>17, <3>2 DEF Exits
  <2>6. Output(p)'
    <3>1. Drained(p)' /\ Arrived(p)' = Arrived(p)
      BY <1>1, <1>8, <1>14, <1>16 DEF Lost, Drained, Arrived
    <3>2. AtMost(events, p, Arrived(p) - Room)'
      <4> DEFINE n == Arrived(p) - Room
                 t == events'
      <4>1. n \in Int /\ n' = n
        BY <1>1, <3>1, JobFacts
      <4> HIDE DEF n, t
      <4>2. AtMost(events, p, n)
        BY <1>1, <1>7, NoClose
      <4>3. AtMost(t, p, n)
        BY <1>17, <4>1, <4>2 DEF t
      <4> QED  BY <4>1, <4>3 DEF n, t
    <3>3. Shortened(p)' > 0 => Lost(p)'
      BY <1>1, <1>3, <1>6, <1>14, <1>16 DEF Whole, Output, Lost
    <3> QED  BY <1>3, <1>7, <1>13, <1>14, <1>16, <3>1, <3>2, <3>3 DEF Output
  <2> QED  BY <2>1, <2>2, <2>3, <2>4, <2>5, <2>6 DEF Whole
<1>21. ASSUME NEW q \in Procs, q # p
       PROVE  Whole(q)'
  <2>1. Gentle(q)
    BY <1>16, <1>21 DEF Gentle
  <2>2. SameEvents(q) /\ SameFrames(q) /\ Whole(q)
    BY <1>4, <1>17, <1>21 DEF IInv
  <2> QED  BY <1>1, <1>21, <2>1, <2>2, WholeGentle
<1>22. Counters'
  BY <1>1, <1>19, CountersSame DEF IInv, Unseen
<1>23. Shape' /\ Polls' /\ Above' /\ TopUses' /\ Parents' /\ Pointers'
  <2>1. \A q \in Procs : q = Top.proc => Known(q)'
    BY <1>7, <1>14, <1>16 DEF Known
  <2>2. \A q \in Procs : KeepsRefs(q)
    BY <1>19, UnseenKeeps
  <2> QED  BY <1>1, <1>2, <1>5, <2>1, <2>2, PopStack
<1> QED  BY <1>18, <1>20, <1>21, <1>22, <1>23 DEF IInv

LEMMA CloseHandlesKeeps ==
    ASSUME IInv, CloseHandles
    PROVE  IInv'
<1>1. PICK p \in Procs : p = Top.proc
  BY TopProc DEF CloseHandles
<1> QED  BY <1>1, CloseHandlesOf

-----------------------------------------------------------------------------
(***************************************************************************)
(* An event is taken, and its callback begins.                             *)
(***************************************************************************)
LEMMA LeastOne ==
    ASSUME NEW N \in SUBSET Nat, N # {}
    PROVE  \E m \in N : \A k \in N : m <= k
<1>1. PICK m \in N : \A k \in N : <<k, m>> \notin OpToRel(<, Nat)
  BY WFMin, NatLessThanWellFounded, Zenon
<1>2. \A k \in N : ~(k < m)
  BY <1>1, Zenon DEF OpToRel
<1>3. m \in Nat /\ \A k \in N : k \in Nat
  OBVIOUS
<1> QED  BY <1>2, <1>3

(* It is the first of those the frame on top processes. *)
FirstUnread(i) ==
    /\ i \in 1 .. Len(events) /\ events[i].proc \in Source(Top)
    /\ \A l \in 1 .. i - 1 : events[l].proc \notin Source(Top)

LEMMA TakenIs ==
    ASSUME Typed, TakeEvent
    PROVE  \E i : /\ FirstUnread(i) /\ events' = RemoveAt(events, i)
                  /\ stack' = Append(IF Waiting(Top) /\ Top.op \in {"wait", "sleep"}
                                     THEN Now([Top EXCEPT !.draining = TRUE]) ELSE stack,
                                     Handler(events[i]))
<1> DEFINE N == {k \in 1 .. Len(events) : events[k].proc \in Source(Top)}
           i == CHOOSE k \in 1 .. Len(events) :
                  /\ events[k].proc \in Source(Top)
                  /\ \A l \in 1 .. k - 1 : events[l].proc \notin Source(Top)
<1>1. Len(events) \in Nat
  BY DEF Typed
<1>2. N \in SUBSET Nat /\ N # {}
  BY <1>1 DEF TakeEvent, Unread
<1>3. PICK m \in N : \A k \in N : m <= k
  <2> HIDE DEF N
  <2> QED  BY <1>2, LeastOne
<1>4. ASSUME NEW l \in 1 .. m - 1
      PROVE  events[l].proc \notin Source(Top)
  <2>1. l \in 1 .. Len(events) /\ ~(m <= l)
    BY <1>1, <1>3
  <2> QED  BY <1>3, <2>1
<1>5. FirstUnread(i)
  <2>1. \E k \in 1 .. Len(events) :
          /\ events[k].proc \in Source(Top)
          /\ \A l \in 1 .. k - 1 : events[l].proc \notin Source(Top)
    BY <1>3, <1>4
  <2> QED  BY <2>1 DEF FirstUnread
<1>6. /\ events' = RemoveAt(events, i)
      /\ stack' = Append(IF Waiting(Top) /\ Top.op \in {"wait", "sleep"}
                         THEN Now([Top EXCEPT !.draining = TRUE]) ELSE stack,
                         Handler(events[i]))
  BY DEF TakeEvent
<1> HIDE DEF i
<1> QED  BY <1>5, <1>6

LEMMA SourceIs ==
    ASSUME NEW f, NEW p \in Source(f)
    PROVE  /\ f.op = "flush" => f.step = "drain" /\ p = f.proc
           /\ Narrow(f) => p = f.list[f.i]
BY DEF Source, Narrow

LEMMA HandlerIs ==
    ASSUME Typed, NEW e \in EventType
    PROVE  /\ Handler(e) \in FrameType /\ Handler(e).proc = e.proc /\ e.proc \in Procs
           /\ e = Event(e.proc, e.what) /\ e.what \in {"read", "close", "exit"}
           /\ Handler(e).op = IF e.what = "close" THEN "flush" ELSE e.what
           /\ e.what = "close" => /\ Handler(e).step = "poll"
                                 /\ Handler(e).limit = Arrived(e.proc) + Buffer
<1>1. /\ e.proc \in Procs /\ e.what \in {"read", "close", "exit"}
      /\ e = Event(e.proc, e.what)
  BY DEF EventType, Event
<1>2. CASE e.what = "close"
  <2>1. Arrived(e.proc) \in Int /\ Buffer \in Nat
    BY <1>1, JobFacts, JobsAssumption
  <2> DEFINE m == Arrived(e.proc)
  <2> HIDE DEF m
  <2>2. /\ Handler(e) = [op |-> "flush", proc |-> e.proc, step |-> "poll", mark |-> m,
                         limit |-> m + Buffer]
        /\ m \in Int /\ m + Buffer \in Int
    BY <1>2, <2>1 DEF Handler, m
  <2> QED  BY <1>1, <1>2, <2>2 DEF FrameType, m
<1>3. CASE e.what # "close"
  <2>1. Handler(e) = [op |-> e.what, proc |-> e.proc]
    BY <1>3 DEF Handler
  <2> QED  BY <1>1, <1>3, <2>1 DEF FrameType
<1> QED  BY <1>1, <1>2, <1>3

LEMMA TakePushes ==
    ASSUME Typed, Shape, NEW g \in FrameType,
           stack' = Append(IF Waiting(Top) /\ Top.op \in {"wait", "sleep"}
                           THEN Now([Top EXCEPT !.draining = TRUE]) ELSE stack, g)
    PROVE  \E f \in FrameType : Pushes(f, g) /\ Alike(Top, f)
<1>1. Top \in FrameType
  BY TopFacts
<1>2. CASE Waiting(Top) /\ Top.op \in {"wait", "sleep"}
  <2> DEFINE f == [Top EXCEPT !.draining = TRUE]
  <2>1. f \in FrameType /\ Alike(Top, f)
    <3> HIDE DEF Top
    <3>1. CASE Top.op = "wait"
      <4>1. Top \in [op : {"wait"}, id : 1 .. MaxCalls, list : Lists, i : Nat \ {0},
                     step : Steps, draining : BOOLEAN, forever : BOOLEAN, intr : BOOLEAN]
        BY <1>1, <3>1, FrameKinds
      <4>2. f \in FrameType
        BY <4>1 DEF FrameType
      <4> QED  BY <4>1, <4>2 DEF Alike
    <3>2. CASE Top.op = "sleep"
      <4>1. Top \in [op : {"sleep"}, draining : BOOLEAN]
        BY <1>1, <3>2 DEF FrameType
      <4>2. f \in FrameType
        BY <4>1 DEF FrameType
      <4> QED  BY <4>1, <4>2 DEF Alike
    <3> QED  BY <1>2, <3>1, <3>2
  <2>2. stack' = Append(Now(f), g)
    BY <1>2
  <2>3. Pushes(f, g)
    <3> HIDE DEF f
    <3> QED  BY <2>1, <2>2, PushesBy
  <2> QED  BY <2>1, <2>3
<1>3. CASE ~(Waiting(Top) /\ Top.op \in {"wait", "sleep"})
  <2>1. stack' = Append(stack, g)
    BY <1>3
  <2>2. Pushes(Top, g) /\ Alike(Top, Top)
    BY <2>1, PushesOne DEF Alike
  <2> QED  BY <1>1, <2>2
<1> QED  BY <1>2, <1>3

LEMMA TakeEventOf ==
    ASSUME IInv, TakeEvent, NEW i \in 1 .. Len(events), FirstUnread(i),
           events' = RemoveAt(events, i), NEW f \in FrameType,
           Pushes(f, Handler(events[i])), Alike(Top, f),
           NEW p \in Procs, NEW w, events[i] = Event(p, w)
    PROVE  IInv'
<1> DEFINE g == Handler(events[i])
<1>1. /\ Typed /\ Shape /\ Above /\ ~polling
      /\ UNCHANGED <<os, sigchld, pipe, job, stopRequests, polling, gotInt, calls>>
  BY DEF IInv, TakeEvent, osVars
<1>2. events[i] \in EventType /\ events[i].proc = p /\ events[i].what = w
  BY <1>1 DEF Typed, Event
<1>3. /\ g \in FrameType /\ g.proc = p /\ w \in {"read", "close", "exit"}
      /\ g.op = IF w = "close" THEN "flush" ELSE w
      /\ g.op = "flush" => g.step = "poll" /\ g.limit = Arrived(p) + Buffer
  BY <1>1, <1>2, HandlerIs
<1>4. p \in Source(Top) /\ \A l \in 1 .. i - 1 : events[l].proc # p
  BY <1>2 DEF FirstUnread
<1>5. Pushes(f, g)
  OBVIOUS
<1> HIDE DEF g
<1>6. ASSUME NEW q \in Procs
      PROVE  /\ events' \in Seq(EventType)
             /\ \A what : Queued(q, what)' \in Nat
             /\ \A what : Queued(q, what) =
                            Queued(q, what)' + (IF q = p /\ what = w THEN 1 ELSE 0)
             /\ \A n \in Int : AtMost(events, q, n) => AtMost(events', q, n)
  <2>1. /\ events' \in Seq(EventType)
        /\ \A what : Queued(q, what) =
             Queued(q, what)' + In(events[i], {Event(q, what)})
        /\ \A n \in Int : AtMost(events, q, n) => AtMost(events', q, n)
    BY <1>1, EventTaken
  <2>2. \A what : In(events[i], {Event(q, what)}) = IF q = p /\ what = w THEN 1 ELSE 0
    BY EventIs DEF In
  <2>3. ASSUME NEW what
        PROVE  Queued(q, what)' \in Nat
    <3> DEFINE t == events'
    <3>1. Len(t) \in Nat
      BY <2>1
    <3> HIDE DEF t
    <3>2. Count(t, {Event(q, what)}) \in Nat
      BY <3>1, UptoNat DEF Count
    <3> QED  BY <3>2 DEF Queued, t
  <2> QED  BY <2>1, <2>2, <2>3
<1>7. ASSUME NEW q \in Procs
      PROVE  /\ \A op \in {"read", "exit", "flush"} : Running(q, op)' =
                   Running(q, op) + (IF g.op = op /\ q = p THEN 1 ELSE 0)
             /\ Draining(q)' = Draining(q) /\ Holding(q)' = Holding(q)
             /\ Shortened(q)' > 0 => \/ Shortened(q) > 0
                                     \/ w = "close" /\ q = p /\ g.limit < Room + Flushes
  <2>1. /\ \A op \in {"read", "exit", "flush"} : Running(q, op)' =
               Running(q, op) + (IF g.op = op /\ g.proc = q THEN 1 ELSE 0)
        /\ Draining(q)' = Draining(q) +
             (IF g.op = "flush" /\ g.proc = q /\ g.step = "drain" THEN 1 ELSE 0)
        /\ Shortened(q)' = Shortened(q) +
             (IF g.op = "flush" /\ g.proc = q /\ g.limit < Room + Flushes THEN 1 ELSE 0)
        /\ Holding(q)' = Holding(q) + (IF Holds(g, q) THEN 1 ELSE 0)
    BY <1>1, <1>5, PushCounts
  <2>2. Draining(q) \in Nat /\ Shortened(q) \in Nat /\ Holding(q) \in Nat
    BY <1>1, Numbers
  <2>3. ~Holds(g, q)
    BY <1>3 DEF Holds
  <2>4. Shortened(q)' > 0 => \/ Shortened(q) > 0
                             \/ w = "close" /\ q = p /\ g.limit < Room + Flushes
    BY <1>3, <2>1, <2>2
  <2> QED  BY <1>3, <2>1, <2>2, <2>3, <2>4
<1>8. Typed'
  BY <1>1, <1>5, <1>6 DEF Typed, Pushes
<1>9. Shape' /\ Above'
  <2>1. /\ Top.op = "flush" => Top.step = "drain" /\ Callback(g, Top.proc)
        /\ Narrow(Top) => Callback(g, Top.list[Top.i])
        /\ g.op # "main" /\ g.op # "wait"
    <3> HIDE DEF Top
    <3> QED  BY <1>3, <1>4, SourceIs DEF Callback
  <2>2. calls' \in Nat /\ calls <= calls'
    BY <1>1, JobsAssumption DEF Typed
  <2> HIDE DEF Top
  <2> QED  BY <1>1, <1>5, <2>1, <2>2, PushesKeep
<1>10. Polls' /\ TopUses'
  <2>1. Top' = g
    BY <1>5 DEF Pushes
  <2> QED  BY <1>1, <1>3, <2>1 DEF Polls, TopUses, Narrow
<1>11. Parents' /\ Pointers'
  <2>1. \A q \in Procs : CarriesMoved(q) /\ CarriesPoint(q)
    BY <1>1, <1>5, CarriedPushes
  <2>2. \A q \in Procs : KeepsRefs(q)
    BY <1>1 DEF KeepsRefs, FindJob, Known
  <2> QED  BY <2>1, <2>2, RefsBy DEF IInv
<1>12. Counters'
  BY <1>1, CountersSame DEF IInv
<1>13. Whole(p)'
  <2> DEFINE x == Running(p, "read")
             y == Running(p, "flush")
             z == Running(p, "exit")
             a == Queued(p, "read")
             b == Queued(p, "close")
             c == Queued(p, "exit")
             aa == Queued(p, "read")'
             bb == Queued(p, "close")'
             cc == Queued(p, "exit")'
  <2>1. Whole(p)
    BY DEF IInv
  <2>2. x \in Nat /\ y \in Nat /\ z \in Nat /\ aa \in Nat /\ bb \in Nat /\ cc \in Nat
    BY <1>1, <1>6, Numbers
  <2>3. /\ Running(p, "read")' = x + (IF w = "read" THEN 1 ELSE 0)
        /\ Running(p, "flush")' = y + (IF w = "close" THEN 1 ELSE 0)
        /\ Running(p, "exit")' = z + (IF w = "exit" THEN 1 ELSE 0)
    BY <1>3, <1>7
  <2>4. /\ a = aa + (IF w = "read" THEN 1 ELSE 0)
        /\ b = bb + (IF w = "close" THEN 1 ELSE 0)
        /\ c = cc + (IF w = "exit" THEN 1 ELSE 0)
    BY <1>6
  <2>5. Referenced(p)' /\ Alive(p)'
    BY <1>1, <1>7, <2>1 DEF Referenced, Alive, Whole
  <2>6. Reading(p)'
    <3>1. job[p].reads = a + x /\ (job[p].reads > 0 => job[p].out \in {"open", "waiting"})
      BY <2>1 DEF Whole, Reading
    <3>2. a + x = aa + Running(p, "read")'
      <4> HIDE DEF x, y, z, a, b, c, aa, bb, cc
      <4> QED  BY <2>2, <2>3, <2>4
    <3> QED  BY <1>1, <3>1, <3>2 DEF Reading
  <2>7. Closes(p)'
    <3>1. b + y = bb + Running(p, "flush")'
      <4> HIDE DEF x, y, z, a, b, c, aa, bb, cc
      <4> QED  BY <2>2, <2>3, <2>4
    <3> QED  BY <1>1, <2>1, <3>1 DEF Closes, Whole
  <2>8. Exits(p)'
    <3>1. c + z = cc + Running(p, "exit")'
      <4> HIDE DEF x, y, z, a, b, c, aa, bb, cc
      <4> QED  BY <2>2, <2>3, <2>4
    <3> QED  BY <1>1, <2>1, <3>1 DEF Exits, Whole
  <2>9. Output(p)'
    <3>1. Arrived(p)' = Arrived(p) /\ Lost(p)' = Lost(p) /\ Drained(p)' = Drained(p)
          /\ Arrived(p) - Room \in Int
      BY <1>1, JobFacts DEF Arrived, Lost, Drained
    <3>2. Lost(p) \/ AtMost(events, p, Arrived(p) - Room)'
      <4> DEFINE n == Arrived(p) - Room
                 t == events'
      <4>1. n \in Int /\ n' = n
        BY <3>1
      <4> HIDE DEF n, t
      <4>2. AtMost(events, p, n) => AtMost(t, p, n)
        BY <1>6, <4>1 DEF t
      <4>3. Lost(p) \/ AtMost(events, p, n)
        BY <2>1 DEF Whole, Output, n
      <4> QED  BY <4>1, <4>2, <4>3 DEF n, t
    <3>3. Running(p, "flush")' > 0 => Lost(p) \/ aa <= Arrived(p) - Room
      <4>1. CASE w = "close"
        <5>1. Len(events) \in Nat /\ events[i] = Event(p, "close")
          BY <1>1, <4>1 DEF Typed
        <5>2. AtMost(events, p, Arrived(p) - Room) => a <= Arrived(p) - Room
          <6> DEFINE n == Arrived(p) - Room
          <6>1. n \in Int
            BY <3>1
          <6> HIDE DEF n
          <6>2. AtMost(events, p, n) => Count(events, {Event(p, "read")}) <= n
            BY <1>4, <5>1, <6>1, CloseFirst
          <6> QED  BY <6>2 DEF n, Queued
        <5>3. aa = a
          <6> HIDE DEF x, y, z, a, b, c, aa, bb, cc
          <6> QED  BY <2>2, <2>4, <4>1
        <5>4. Lost(p) \/ AtMost(events, p, Arrived(p) - Room)
          BY <2>1 DEF Whole, Output
        <5> QED  BY <5>2, <5>3, <5>4
      <4>2. CASE w # "close"
        <5>1. y > 0 => Lost(p) \/ a <= Arrived(p) - Room
          BY <2>1 DEF Whole, Output
        <5> DEFINE r == Arrived(p) - Room
        <5>2. r \in Int
          BY <3>1
        <5> HIDE DEF x, y, z, a, b, c, aa, bb, cc, r
        <5>3. Running(p, "flush")' = y /\ (a <= r => aa <= r)
          BY <2>2, <2>3, <2>4, <4>2, <5>2
        <5> QED  BY <5>1, <5>3 DEF r
      <4> QED  BY <4>1, <4>2
    <3>4. (Arrived(p) - Room)' = Arrived(p) - Room
      BY <3>1
    <3>5. /\ job[p].handle = "open" => job[p].cut \/ job[p].out = "open"
          /\ job[p].handle \in {"closing", "closed"} => Drained(p)
          /\ Draining(p)' > 0 => Drained(p)
      BY <1>7, <2>1 DEF Whole, Output
    <3>6. Shortened(p)' > 0 => Lost(p)
      <4>1. Shortened(p) > 0 => Lost(p)
        BY <2>1 DEF Whole, Output
      <4>2. ASSUME w = "close", g.limit < Room + Flushes
            PROVE  Lost(p)
        <5>1. g.limit = Arrived(p) + Buffer
          BY <1>3, <4>2
        <5>2. /\ Flushes <= Buffer /\ Flushes \in Nat /\ Buffer \in Nat /\ Room \in Nat
              /\ Arrived(p) \in Int
          BY <1>1, JobFacts, JobsAssumption DEF Flushes
        <5> DEFINE n == Arrived(p)
        <5>3. Lost(p) \/ aa <= n - Room
          BY <2>2, <2>3, <3>3, <4>2
        <5> HIDE DEF x, y, z, a, b, c, aa, bb, cc, n
        <5>4. ~(aa <= n - Room)
          BY <2>2, <4>2, <5>1, <5>2 DEF n
        <5> QED  BY <5>3, <5>4
      <4> QED  BY <1>7, <4>1, <4>2
    <3> QED  BY <1>1, <3>1, <3>2, <3>3, <3>4, <3>5, <3>6 DEF Output
  <2> QED  BY <2>5, <2>6, <2>7, <2>8, <2>9 DEF Whole
<1>14. ASSUME NEW q \in Procs, q # p
       PROVE  Whole(q)'
  <2>1. Gentle(q) /\ Whole(q)
    BY <1>1 DEF Gentle, IInv
  <2>2. SameEvents(q)
    <3>1. ASSUME NEW what
          PROVE  Queued(q, what)' = Queued(q, what)
      <4>1. /\ Queued(q, what)' \in Nat
            /\ Queued(q, what) = Queued(q, what)' + (IF q = p /\ what = w THEN 1 ELSE 0)
        BY <1>6
      <4> QED  BY <1>14, <4>1
    <3> QED  BY <1>6, <3>1 DEF SameEvents
  <2>3. SameFrames(q)
    <3>1. ASSUME NEW op \in {"read", "exit", "flush"}
          PROVE  Running(q, op)' = Running(q, op)
      <4>1. Running(q, op) \in Nat
        BY <1>1, Numbers
      <4>2. Running(q, op)' = Running(q, op) + (IF g.op = op /\ q = p THEN 1 ELSE 0)
        BY <1>7
      <4> QED  BY <1>14, <4>1, <4>2
    <3> QED  BY <1>7, <1>14, <3>1 DEF SameFrames
  <2> QED  BY <1>1, <2>1, <2>2, <2>3, WholeGentle
<1> QED  BY <1>8, <1>9, <1>10, <1>11, <1>12, <1>13, <1>14 DEF IInv

LEMMA TakeEventKeeps ==
    ASSUME IInv, TakeEvent
    PROVE  IInv'
<1>1. Typed /\ Shape
  BY DEF IInv
<1>2. PICK i : /\ FirstUnread(i) /\ events' = RemoveAt(events, i)
               /\ stack' = Append(IF Waiting(Top) /\ Top.op \in {"wait", "sleep"}
                                  THEN Now([Top EXCEPT !.draining = TRUE]) ELSE stack,
                                  Handler(events[i]))
  BY <1>1, TakenIs
<1>3. i \in 1 .. Len(events)
  BY <1>2 DEF FirstUnread
<1>4. events[i] \in EventType
  BY <1>1, <1>3 DEF Typed
<1>5. /\ Handler(events[i]) \in FrameType /\ events[i].proc \in Procs
      /\ events[i] = Event(events[i].proc, events[i].what)
  BY <1>1, <1>4, HandlerIs
<1>6. PICK f \in FrameType : Pushes(f, Handler(events[i])) /\ Alike(Top, f)
  BY <1>1, <1>2, <1>5, TakePushes
<1>7. PICK p \in Procs : \E w : events[i] = Event(p, w)
  BY <1>5
<1>8. PICK w : events[i] = Event(p, w)
  BY <1>7
<1> QED  BY <1>2, <1>3, <1>6, <1>8, TakeEventOf

-----------------------------------------------------------------------------
(***************************************************************************)
(* The steps of jobwait.                                                   *)
(***************************************************************************)
LEMMA JobWaitKeeps ==
    ASSUME IInv, NEW list \in Lists, NEW forever \in BOOLEAN, JobWait(list, forever)
    PROVE  IInv'
<1> DEFINE g == [op |-> "wait", id |-> calls + 1, list |-> list, i |-> 1,
                 step |-> "begin", draining |-> FALSE, forever |-> forever, intr |-> FALSE]
<1>1. /\ Typed /\ Shape /\ Above /\ ~polling /\ Top.op \in {"main", "read", "exit"}
      /\ calls \in Nat /\ calls < MaxCalls /\ calls' = calls + 1 /\ MaxCalls \in Nat
      /\ UNCHANGED <<os, sigchld, pipe, job, stopRequests, events, polling, gotInt>>
  BY JobsAssumption DEF IInv, Typed, JobWait, Script, Calls, osVars, procVars
<1>2. /\ g \in FrameType /\ g.op = "wait" /\ g.id = calls + 1 /\ g.step = "begin"
      /\ stack' = Append(stack, g)
  <2>1. calls + 1 \in 1 .. MaxCalls /\ "begin" \in Steps /\ 1 \in Nat \ {0}
    BY <1>1 DEF Steps
  <2>2. g \in FrameType
    BY <2>1 DEF FrameType
  <2> QED  BY <2>2 DEF JobWait
<1> HIDE DEF g
<1>3. Pushes(Top, g) /\ Alike(Top, Top)
  BY <1>1, <1>2, PushesOne DEF Alike
<1>4. Typed'
  BY <1>1, <1>3 DEF Typed, Pushes
<1>5. Shape' /\ Above'
  <2>1. ~Narrow(Top) /\ Top.op # "flush" /\ g.op # "main"
    BY <1>1, <1>2 DEF Narrow
  <2>2. calls' \in Nat /\ calls <= calls' /\ calls < g.id /\ g.id <= calls'
    BY <1>1, <1>2
  <2> HIDE DEF Top
  <2> QED  BY <1>1, <1>2, <1>3, <2>1, <2>2, PushesKeep
<1>6. Polls' /\ TopUses'
  <2>1. Top' = g
    BY <1>3 DEF Pushes
  <2> QED  BY <1>1, <1>2, <2>1 DEF Polls, TopUses, Narrow
<1>7. Parents' /\ Pointers'
  <2>1. \A q \in Procs : CarriesMoved(q) /\ CarriesPoint(q)
    BY <1>1, <1>3, CarriedPushes
  <2>2. \A q \in Procs : KeepsRefs(q)
    BY <1>1 DEF KeepsRefs, FindJob, Known
  <2> QED  BY <2>1, <2>2, RefsBy DEF IInv
<1>8. Counters'
  BY <1>1, CountersSame DEF IInv
<1>9. ASSUME NEW q \in Procs
      PROVE  Whole(q)'
  <2>1. SameFrames(q)
    <3>1. /\ \A op \in {"read", "exit", "flush"} : Running(q, op)' =
               Running(q, op) + (IF g.op = op /\ g.proc = q THEN 1 ELSE 0)
          /\ Draining(q)' = Draining(q) +
               (IF g.op = "flush" /\ g.proc = q /\ g.step = "drain" THEN 1 ELSE 0)
          /\ Shortened(q)' = Shortened(q) +
               (IF g.op = "flush" /\ g.proc = q /\ g.limit < Room + Flushes THEN 1 ELSE 0)
          /\ Holding(q)' = Holding(q) + (IF Holds(g, q) THEN 1 ELSE 0)
      BY <1>1, <1>3, PushCounts
    <3>2. /\ Draining(q) \in Nat /\ Shortened(q) \in Nat /\ Holding(q) \in Nat
          /\ \A op : Running(q, op) \in Nat
      BY <1>1, Numbers
    <3>3. ~Holds(g, q)
      BY <1>2 DEF Holds
    <3>4. \A op \in {"read", "exit", "flush"} : Running(q, op)' = Running(q, op)
      BY <1>2, <3>1, <3>2
    <3> QED  BY <1>2, <3>1, <3>2, <3>3, <3>4 DEF SameFrames
  <2>2. Gentle(q) /\ SameEvents(q) /\ Whole(q)
    BY <1>1, SameEventsBy DEF Gentle, IInv
  <2> QED  BY <1>1, <2>1, <2>2, WholeGentle
<1> QED  BY <1>4, <1>5, <1>6, <1>7, <1>8, <1>9 DEF IInv

(* The wait on top, which does not poll. *)
Waits == /\ ~polling /\ Top.op = "wait" /\ UNCHANGED <<osVars, polling, calls>>

(* The steps that leave jobs alone: in the list, or to the end of it. *)
LEMMA WaitStays ==
    ASSUME IInv, Waits, NEW s, NEW k, GoesTo(s, k), s \in InList => k <= Len(Top.list),
           UNCHANGED <<job, gotInt, stopRequests, events>>,
           \A p \in Procs : Held(Top.step, Top.i, p) = Held(s, k, p),
           \A q \in Procs : q = Top.list[k] /\ s \in {"settle", "restore", "gone"}
             => Known(q),
           \A p : Moved(Top.list, Top.step, Top.i, p) =>
                    Moved(Top.list, s, k, p) \/ (p \in Procs /\ job[p].parent = Main),
           s \notin {"visit", "restore"} \/ Top.step \in {"visit", "restore"}
    PROVE  IInv'
<1>1. /\ Typed /\ Shape /\ ~polling'
      /\ UNCHANGED <<os, sigchld, pipe, job, stopRequests, events, gotInt, calls, polling>>
  BY DEF IInv, Waits, osVars
<1>2. Typed'
  BY <1>1, GoesSame DEF Typed
<1>3. Counters'
  BY <1>1, CountersSame DEF IInv
<1>4. Parents'
  <2>1. \A p \in Procs : job'[p].parent = Main \/ CarriesMoved(p)
    BY <1>1, GoesCarries
  <2> QED  BY <1>1, <2>1, ParentsBy DEF IInv
<1>5. Pointers'
  <2>1. \A p \in Procs : CarriesPoint(p)
    BY <1>1, GoesCarries
  <2>2. \A p \in Procs : FindJob(p)' => FindJob(p)
    BY <1>1 DEF FindJob, Known
  <2> QED  BY <1>1, <2>1, <2>2, PointersBy DEF IInv
<1>6. \A p \in Procs : Gentle(p) /\ (Known(p) => Known(p)')
  BY <1>1 DEF Gentle, Known
<1> HIDE DEF Top
<1> QED  BY <1>1, <1>2, <1>3, <1>4, <1>5, <1>6, GentleGoes

LEMMA UnknownIsMain ==
    ASSUME Typed, NEW p \in Procs, Alive(p), ~Known(p)
    PROVE  job[p].parent = Main
<1>1. job[p] \in JobType
  BY DEF Typed
<1>2. job[p].data \in {"none", "live", "leaving", "freed"}
  BY <1>1, JobFacts
<1>3. job[p] = NewJob \/ job[p] = [NewJob EXCEPT !.data = "freed"]
  BY <1>2 DEF Alive, Known
<1> QED  BY <1>3 DEF NewJob

LEMMA JobIs ==
    ASSUME IInv, Top.op = "wait", Top.step \in InList \/ ~AllVisited
    PROVE  /\ Job \in Procs /\ Job = Top.list[Top.i]
           /\ Top.i \in 1 .. Len(Top.list) /\ Top.i <= Len(Top.list)
              /\ Len(Top.list) \in Nat
<1>1. Top \in FrameType
  BY TopFacts DEF IInv
<1>2. Top.i \in Nat /\ Len(Top.list) \in Nat
  <2> HIDE DEF Top
  <2>1. Top.list \in Lists /\ Top.i \in Nat \ {0}
    BY <1>1, FrameKinds
  <2> QED  BY <2>1, Listed
<1>3. Top.step \in InList \/ Top.i <= Len(Top.list)
  BY <1>2 DEF AllVisited
<1>4. Top.list[Top.i] \in Procs /\ Top.i \in 1 .. Len(Top.list)
  BY <1>3, TopItem DEF IInv
<1> HIDE DEF Top
<1> QED  BY <1>2, <1>4 DEF Job

LEMMA WaitSkipKeeps ==
    ASSUME IInv, Waits, WaitSkip
    PROVE  IInv'
<1>1. /\ Typed /\ Shape /\ Top.op = "wait" /\ GoesTo(Top.step, Top.i + 1)
      /\ Top.step \in {"begin", "pick", "visit"} /\ ~AllVisited
      /\ Top.step = "visit" => ~Known(Job)
      /\ UNCHANGED <<job, gotInt, stopRequests, events>>
  BY WaitMoves DEF IInv, Waits, WaitSkip, Restores
<1>2. Job \in Procs /\ Job = Top.list[Top.i] /\ Top.i \in 1 .. Len(Top.list)
      /\ Len(Top.list) \in Nat
  BY <1>1, JobIs
<1>3. Top.step = "visit" => job[Job].parent = Main
  BY <1>1, <1>2, UnknownIsMain DEF IInv, Whole
<1>4. ASSUME NEW p, Moved(Top.list, Top.step, Top.i, p),
             ~Moved(Top.list, Top.step, Top.i + 1, p)
      PROVE  p \in Procs /\ job[p].parent = Main
  <2> HIDE DEF Top
  <2>1. PICK n \in 1 .. Len(Top.list) :
          /\ Top.list[n] = p
          /\ Top.step \in {"begin", "settle"} => n < Top.i
          /\ Top.step \in {"visit", "restore"} => n >= Top.i
    BY <1>4 DEF Moved
  <2>2. Top.step = "visit" /\ n = Top.i
    BY <1>1, <1>2, <1>4, <2>1 DEF Moved
  <2> QED  BY <1>2, <1>3, <2>1, <2>2
<1>5. \A p \in Procs : Held(Top.step, Top.i, p) = Held(Top.step, Top.i + 1, p)
  BY <1>1 DEF Held
<1>6. Top.step \notin InList
  BY <1>1 DEF InList
<1>7. \A q \in Procs : q = Top.list[Top.i + 1]
        /\ Top.step \in {"settle", "restore", "gone"} =>
        Known(q)
  BY <1>1
<1> HIDE DEF Top
<1> QED  BY <1>1, <1>4, <1>5, <1>6, <1>7, WaitStays

(* No job is lost from the list. *)
LEMMA MovedKept ==
    ASSUME NEW l, NEW s, NEW k, NEW t, NEW m,
           \/ t \notin {"begin", "settle", "visit", "restore"}
           \/ s = "visit" /\ t = "restore" /\ m = k
    PROVE  \A p : Moved(l, s, k, p) => Moved(l, t, m, p)
BY DEF Moved

LEMMA WaitBegunKeeps ==
    ASSUME IInv, Waits, WaitBegun
    PROVE  IInv'
<1>1. /\ Typed /\ Shape /\ Top.op = "wait" /\ GoesTo("pick", 1) /\ Top.step = "begin"
      /\ UNCHANGED <<job, gotInt, stopRequests, events>>
  BY WaitMoves DEF IInv, Waits, WaitBegun
<1>2. \A p \in Procs : Held(Top.step, Top.i, p) = Held("pick", 1, p)
  BY <1>1 DEF Held
<1>3. \A p : Moved(Top.list, Top.step, Top.i, p) => Moved(Top.list, "pick", 1, p)
  BY MovedKept
<1> HIDE DEF Top
<1> QED  BY <1>1, <1>2, <1>3, WaitStays DEF InList

LEMMA WaitOnceDoneKeeps ==
    ASSUME IInv, Waits, WaitOnceDone
    PROVE  IInv'
<1>1. /\ Typed /\ Shape /\ Top.op = "wait" /\ Top.step \in InList
      /\ \/ Top.step = "once" /\ GoesTo("finish", Top.i)
         \/ Top.step = "gone" /\ GoesTo("pick", Top.i + 1)
      /\ UNCHANGED <<job, gotInt, stopRequests, events>>
  BY WaitMoves DEF IInv, Waits, WaitOnceDone, Once, InList
<1>2. Top.i <= Len(Top.list)
  BY <1>1, JobIs
<1>3. PICK s, k : /\ GoesTo(s, k)
                  /\ \/ Top.step = "once" /\ s = "finish" /\ k = Top.i
                     \/ Top.step = "gone" /\ s = "pick" /\ k = Top.i + 1
  BY <1>1
<1>4. \A p \in Procs : Held(Top.step, Top.i, p) = Held(s, k, p)
  BY <1>3 DEF Held
<1>5. \A p : Moved(Top.list, Top.step, Top.i, p) => Moved(Top.list, s, k, p)
  BY <1>3, MovedKept
<1>6. s \notin {"settle", "restore", "gone", "visit"}
        /\ (s \in InList => k <= Len(Top.list))
  BY <1>2, <1>3 DEF InList
<1> HIDE DEF Top
<1> QED  BY <1>1, <1>3, <1>4, <1>5, <1>6, WaitStays

LEMMA WaitFinishesKeeps ==
    ASSUME IInv, Waits, WaitReached \/ WaitTimeout
    PROVE  IInv'
<1>1. /\ Typed /\ Shape /\ Top.op = "wait"
      /\ \/ Top.step \in {"until", "until2"} /\ GoesTo("finish", Top.i)
         \/ Top.step = "pick" /\ GoesTo("clear", Top.i)
      /\ UNCHANGED <<job, gotInt, stopRequests, events>>
  BY WaitMoves DEF IInv, Waits, WaitReached, WaitTimeout
<1>2. Top.step \in {"until", "until2"} => Top.i <= Len(Top.list)
  BY <1>1, JobIs DEF InList
<1>3. PICK s : /\ GoesTo(s, Top.i)
               /\ \/ Top.step \in {"until", "until2"} /\ s = "finish"
                  \/ Top.step = "pick" /\ s = "clear"
  BY <1>1
<1>4. \A p \in Procs : Held(Top.step, Top.i, p) = Held(s, Top.i, p)
  BY <1>3 DEF Held
<1>5. \A p : Moved(Top.list, Top.step, Top.i, p) => Moved(Top.list, s, Top.i, p)
  BY <1>3, MovedKept
<1>6. s \notin {"settle", "restore", "gone", "visit"}
        /\ (s \in InList => Top.i <= Len(Top.list))
  BY <1>2, <1>3 DEF InList
<1> HIDE DEF Top
<1> QED  BY <1>1, <1>3, <1>4, <1>5, <1>6, WaitStays

LEMMA WaitFinalKeeps ==
    ASSUME IInv, Waits, WaitFinal
    PROVE  IInv'
<1>1. /\ Typed /\ Shape /\ Top.op = "wait" /\ Top.step = "final"
      /\ GoesTo("clear", Top.i) \/ GoesTo("pick", Top.i + 1)
      /\ UNCHANGED <<job, gotInt, stopRequests, events>>
  BY WaitMoves DEF IInv, Waits, WaitFinal
<1>2. PICK s, k : GoesTo(s, k) /\ s \in {"clear", "pick"}
  BY <1>1
<1>3. \A p \in Procs : Held(Top.step, Top.i, p) = Held(s, k, p)
  BY <1>1, <1>2 DEF Held
<1>4. \A p : Moved(Top.list, Top.step, Top.i, p) => Moved(Top.list, s, k, p)
  BY <1>2, MovedKept
<1>5. s \notin InList
  BY <1>2 DEF InList
<1> HIDE DEF Top
<1> QED  BY <1>1, <1>2, <1>3, <1>4, <1>5, WaitStays

LEMMA WaitVisitKeeps ==
    ASSUME IInv, Waits, WaitVisit
    PROVE  IInv'
<1>1. /\ Typed /\ Shape /\ Top.op = "wait" /\ Top.step = "visit" /\ ~AllVisited
      /\ GoesTo("restore", Top.i) /\ Known(Job)
      /\ UNCHANGED <<job, gotInt, stopRequests, events>>
  BY WaitMoves DEF IInv, Waits, WaitVisit, Restores
<1>2. Job = Top.list[Top.i] /\ Top.i <= Len(Top.list)
  BY <1>1, JobIs
<1>3. \A p \in Procs : Held(Top.step, Top.i, p) = Held("restore", Top.i, p)
  BY <1>1 DEF Held
<1>4. \A p : Moved(Top.list, Top.step, Top.i, p) => Moved(Top.list, "restore", Top.i, p)
  BY <1>1, MovedKept
<1>5. \A q \in Procs : q = Top.list[Top.i] => Known(q)
  BY <1>1, <1>2
<1> HIDE DEF Top
<1> QED  BY <1>1, <1>2, <1>3, <1>4, <1>5, WaitStays

(* The steps that change the job of the entry, a little. *)
(* The wait goes on at step s with its entry k. *)
GoesWell(s, k) ==
    /\ GoesTo(s, k) /\ (s \in InList => k <= Len(Top.list))
    /\ \A q \in Procs : Held(Top.step, Top.i, q) = Held(s, k, q)
    /\ \A q \in Procs : q = Top.list[k] /\ s \in {"settle", "restore", "gone"} => Known(q)
    /\ s \notin {"visit", "restore"} \/ Top.step \in {"visit", "restore"}

(* Then the job p is j. *)
JobGoes(p, j) ==
    /\ UNCHANGED events /\ stopRequests' \in Nat /\ gotInt' \in BOOLEAN
    /\ j \in JobType /\ job' = [job EXCEPT ![p] = j]
    /\ Gentle(p) /\ j.data = job[p].data /\ j.jobStopped = job[p].jobStopped
    /\ Typed' => Counters'

(* What the waits wrote in jobs is kept, or changed for the wait on top. *)
NamesGo(s, k, p, j) ==
    /\ \A q : q # p /\ Moved(Top.list, Top.step, Top.i, q) => Moved(Top.list, s, k, q)
    /\ \/ j.parent = Main
       \/ /\ j.parent = job[p].parent
          /\ Moved(Top.list, Top.step, Top.i, p) => Moved(Top.list, s, k, p)
       \/ j.parent = Top.id /\ Moved(Top.list, s, k, p)
    /\ \/ j.statusPtr = job[p].statusPtr
       \/ /\ j.statusPtr = Top.id /\ Contains(Top.list, p)
          /\ s \notin {"visit", "restore"}

LEMMA WaitChanges ==
    ASSUME IInv, Waits, NEW s, NEW k, GoesWell(s, k),
           NEW p \in Procs, NEW j, JobGoes(p, j), NamesGo(s, k, p, j)
    PROVE  IInv'
<1> USE DEF GoesWell, JobGoes, NamesGo
<1>1. /\ Typed /\ Shape /\ ~polling'
         /\ UNCHANGED <<os, sigchld, pipe, events, calls, polling>>
  BY DEF IInv, Waits, osVars
<1>2. job' \in [Procs -> JobType] /\ job'[p] = j /\ \A q \in Procs : q # p
        => job'[q] = job[q]
  BY <1>1, JobChanged
<1>3. Typed'
  BY <1>1, <1>2, GoesSame DEF Typed
<1>4. \A q \in Procs : /\ Gentle(q) /\ (Known(q) => Known(q)')
                       /\ FindJob(q)' => FindJob(q)
  BY <1>2 DEF Gentle, Known, FindJob
<1> DEFINE n == Len(stack')
<1>5. /\ n \in 1 .. Len(stack') /\ OfWait(stack'[n], Top.id)
      /\ \A q : HasMoved(stack'[n], q) <=> Moved(Top.list, s, k, q)
      /\ \A q : MayPoint(stack'[n], q) <=>
                  Contains(Top.list, q) /\ s \notin {"visit", "restore"}
  BY <1>1, Going
<1>6. \A q : /\ (Moved(Top.list, Top.step, Top.i, q) => Moved(Top.list, s, k, q)) =>
                  CarriesMoved(q)
             /\ CarriesPoint(q)
  BY <1>1, GoesCarries
<1> HIDE DEF n, Top
<1>7. Parents'
  <2>1. ASSUME NEW q \in Procs, q # p
        PROVE  job'[q].parent = job[q].parent /\ CarriesMoved(q)
    BY <1>2, <1>6, <2>1
  <2>2. \/ job'[p].parent = Main
        \/ job'[p].parent = job[p].parent /\ CarriesMoved(p)
        \/ OfWait(stack'[n], job'[p].parent) /\ HasMoved(stack'[n], p)
    BY <1>2, <1>5, <1>6
  <2> QED  BY <1>5, <2>1, <2>2, ParentsBy DEF IInv
<1>8. Pointers'
  <2>1. ASSUME NEW q \in Procs, q # p
        PROVE  job'[q].statusPtr = job[q].statusPtr /\ CarriesPoint(q)
    BY <1>2, <1>6, <2>1
  <2>2. \/ job'[p].statusPtr = job[p].statusPtr /\ CarriesPoint(p)
        \/ OfWait(stack'[n], job'[p].statusPtr) /\ MayPoint(stack'[n], p)
    BY <1>2, <1>5, <1>6
  <2> QED  BY <1>4, <1>5, <2>1, <2>2, PointersBy DEF IInv
<1> QED  BY <1>1, <1>3, <1>4, <1>7, <1>8, GentleGoes

(* A wait that writes its name in the job, or takes it out. *)
LEMMA NamedIs ==
    ASSUME Typed, NEW p \in Procs, Known(p), NEW v \in 0 .. MaxCalls
    PROVE  /\ LET j == [job[p] EXCEPT !.parent = v]
              IN  /\ j \in JobType /\ j.parent = v /\ j.statusPtr = job[p].statusPtr
                  /\ j.data = job[p].data /\ j.jobStopped = job[p].jobStopped
                  /\ j.stopped = job[p].stopped
                  /\ job' = [job EXCEPT ![p] = j] => Gentle(p)
           /\ LET j == [job[p] EXCEPT !.statusPtr = v]
              IN  /\ j \in JobType /\ j.statusPtr = v /\ j.parent = job[p].parent
                  /\ j.data = job[p].data /\ j.jobStopped = job[p].jobStopped
                  /\ j.stopped = job[p].stopped
                  /\ job' = [job EXCEPT ![p] = j] => Gentle(p)
<1>1. job[p] \in JobType /\ job \in [Procs -> JobType]
  BY DEF Typed
<1> DEFINE j1 == [job[p] EXCEPT !.parent = v]
           j2 == [job[p] EXCEPT !.statusPtr = v]
<1>2. /\ j1 \in JobType /\ j1.refs = job[p].refs /\ j1.handle = job[p].handle
      /\ j1.in = job[p].in /\ j1.reads = job[p].reads /\ j1.wrote = job[p].wrote
      /\ j1.data = job[p].data /\ j1.out = job[p].out /\ j1.cut = job[p].cut
      /\ j1.stopped = job[p].stopped /\ j1.parent = v
      /\ j1.statusPtr = job[p].statusPtr /\ j1.jobStopped = job[p].jobStopped
  BY <1>1 DEF JobType
<1>3. /\ j2 \in JobType /\ j2.refs = job[p].refs /\ j2.handle = job[p].handle
      /\ j2.in = job[p].in /\ j2.reads = job[p].reads /\ j2.wrote = job[p].wrote
      /\ j2.data = job[p].data /\ j2.out = job[p].out /\ j2.cut = job[p].cut
      /\ j2.stopped = job[p].stopped /\ j2.parent = job[p].parent
      /\ j2.statusPtr = v /\ j2.jobStopped = job[p].jobStopped
  BY <1>1 DEF JobType
<1> HIDE DEF j1, j2
<1>4. job' = [job EXCEPT ![p] = j1] => Gentle(p)
  <2>1. job' = [job EXCEPT ![p] = j1] => job'[p] = j1
    BY <1>1
  <2> QED  BY <1>2, <2>1 DEF Gentle
<1>5. job' = [job EXCEPT ![p] = j2] => Gentle(p)
  <2>1. job' = [job EXCEPT ![p] = j2] => job'[p] = j2
    BY <1>1
  <2> QED  BY <1>3, <2>1 DEF Gentle
<1> QED  BY <1>2, <1>3, <1>4, <1>5 DEF j1, j2

LEMMA TopId ==
    ASSUME Typed, Shape, Top.op = "wait"
    PROVE  Top.id \in 0 .. MaxCalls /\ Top.id \in 1 .. MaxCalls
<1>1. Top \in FrameType
  BY TopFacts
<1> HIDE DEF Top
<1> QED  BY <1>1, FrameKinds, JobsAssumption

(* What the wait holds is live. *)
LEMMA HeldIsLive ==
    ASSUME IInv, NEW p \in Procs, Holding(p) > 0
    PROVE  job[p].data = "live" /\ job[p].refs > 0
<1>1. Typed /\ Referenced(p) /\ Alive(p)
  BY DEF IInv, Whole
<1>2. HandlesOf(job[p]) \in Nat /\ Holding(p) \in Nat
  BY <1>1, Numbers DEF HandlesOf, One
<1>3. job[p].refs > 0
  BY <1>1, <1>2 DEF Referenced
<1> QED  BY <1>1, <1>3 DEF Alive

LEMMA CountersNamed ==
    ASSUME IInv, UNCHANGED <<osVars, stopRequests>>, NEW p \in Procs, NEW j,
           job' = [job EXCEPT ![p] = j], j.stopped = job[p].stopped, j.data = job[p].data
    PROVE  Counters'
<1>1. \A q \in Procs : job'[q].stopped = job[q].stopped /\ job'[q].data = job[q].data
  BY DEF IInv, Typed
<1> QED  BY <1>1, CountersSame DEF IInv, osVars

LEMMA WaitBeginOf ==
    ASSUME IInv, Waits, WaitBegin, NEW p \in Procs, p = Job
    PROVE  IInv'
<1> DEFINE v == Top.id
           j == [job[p] EXCEPT !.statusPtr = v]
<1>1. /\ Typed /\ Shape /\ Top.op = "wait" /\ Top.step = "begin" /\ ~AllVisited
      /\ GoesTo("settle", Top.i) /\ FindJob(p) /\ Known(p) /\ gotInt \in BOOLEAN
      /\ stopRequests \in Nat
      /\ job' = [job EXCEPT ![p] = j]
      /\ UNCHANGED <<gotInt, stopRequests, events>>
  BY WaitMoves DEF IInv, Waits, WaitBegin, FindJob, Typed
<1>2. p = Top.list[Top.i] /\ Top.i \in 1 .. Len(Top.list) /\ Top.i <= Len(Top.list)
  BY <1>1, JobIs
<1>3. v \in 0 .. MaxCalls
  BY <1>1, TopId
<1>4. Contains(Top.list, p)
  BY <1>2 DEF Contains
<1> HIDE DEF v
<1>5. /\ j \in JobType /\ j.statusPtr = v /\ j.parent = job[p].parent
      /\ j.data = job[p].data /\ j.jobStopped = job[p].jobStopped
      /\ j.stopped = job[p].stopped /\ Gentle(p)
  BY <1>1, <1>3, NamedIs
<1> HIDE DEF j
<1>6. Counters'
  BY <1>1, <1>5, CountersNamed DEF Waits
<1>7. \A q \in Procs : Held(Top.step, Top.i, q) = Held("settle", Top.i, q)
  BY <1>1 DEF Held
<1>8. \A q : Moved(Top.list, Top.step, Top.i, q) => Moved(Top.list, "settle", Top.i, q)
  BY <1>1 DEF Moved
<1>9. j.statusPtr = Top.id
  BY <1>5 DEF v
<1>10. \A q \in Procs : q = Top.list[Top.i] => Known(q)
  BY <1>1, <1>2
<1>11. GoesWell("settle", Top.i)
  BY <1>1, <1>2, <1>7, <1>10 DEF GoesWell, InList
<1>12. JobGoes(p, j)
  BY <1>1, <1>5, <1>6 DEF JobGoes
<1>13. NamesGo("settle", Top.i, p, j)
  <2> HIDE DEF Top
  <2> QED  BY <1>4, <1>5, <1>8, <1>9 DEF NamesGo
<1> QED  BY <1>11, <1>12, <1>13, WaitChanges

LEMMA WaitSettledOf ==
    ASSUME IInv, Waits, WaitSettled, NEW p \in Procs, p = Job
    PROVE  IInv'
<1> DEFINE v == Top.id
           j == [job[p] EXCEPT !.parent = v]
<1>1. /\ Typed /\ Shape /\ Top.op = "wait" /\ Top.step = "settle"
      /\ GoesTo("begin", Top.i + 1) /\ gotInt \in BOOLEAN
      /\ stopRequests \in Nat
      /\ job' = [job EXCEPT ![p] = j]
      /\ UNCHANGED <<gotInt, stopRequests, events>>
  BY WaitMoves DEF IInv, Waits, WaitSettled, Typed
<1>2. p = Top.list[Top.i] /\ Top.i \in 1 .. Len(Top.list)
  BY <1>1, JobIs DEF InList
<1>3. v \in 0 .. MaxCalls
  BY <1>1, TopId
<1>4. Known(p)
  BY <1>1, <1>2 DEF IInv, TopUses, Narrow
<1> HIDE DEF v
<1>5. /\ j \in JobType /\ j.parent = v /\ j.statusPtr = job[p].statusPtr
      /\ j.data = job[p].data /\ j.jobStopped = job[p].jobStopped
      /\ j.stopped = job[p].stopped /\ Gentle(p)
  BY <1>1, <1>3, <1>4, NamedIs
<1> HIDE DEF j
<1>6. Counters'
  BY <1>1, <1>5, CountersNamed DEF Waits
<1>7. \A q \in Procs : Held(Top.step, Top.i, q) = Held("begin", Top.i + 1, q)
  BY <1>1 DEF Held
<1>8. \A q : Moved(Top.list, Top.step, Top.i, q) => Moved(Top.list, "begin", Top.i + 1, q)
  <2> HIDE DEF Top
  <2> QED  BY <1>1, <1>2 DEF Moved
<1>9. Moved(Top.list, "begin", Top.i + 1, p) /\ j.parent = Top.id
  <2>1. j.parent = Top.id
    BY <1>5 DEF v
  <2> HIDE DEF Top
  <2> QED  BY <1>2, <2>1 DEF Moved
<1>10. "begin" \notin InList
  BY DEF InList
<1>11. GoesWell("begin", Top.i + 1)
  BY <1>1, <1>7, <1>10 DEF GoesWell, InList
<1>12. JobGoes(p, j)
  BY <1>1, <1>5, <1>6 DEF JobGoes
<1>13. NamesGo("begin", Top.i + 1, p, j)
  <2> HIDE DEF Top
  <2> QED  BY <1>5, <1>8, <1>9 DEF NamesGo
<1> QED  BY <1>11, <1>12, <1>13, WaitChanges

LEMMA WaitRestoredOf ==
    ASSUME IInv, Waits, WaitRestored, NEW p \in Procs, p = Job
    PROVE  IInv'
<1> DEFINE j == [job[p] EXCEPT !.parent = Main]
<1>1. /\ Typed /\ Shape /\ Top.op = "wait" /\ Top.step = "restore"
      /\ GoesTo("visit", Top.i + 1) /\ gotInt \in BOOLEAN
      /\ stopRequests \in Nat
      /\ job' = [job EXCEPT ![p] = j]
      /\ UNCHANGED <<gotInt, stopRequests, events>>
  BY WaitMoves DEF IInv, Waits, WaitRestored, Typed
<1>2. p = Top.list[Top.i] /\ Top.i \in 1 .. Len(Top.list)
  BY <1>1, JobIs DEF InList
<1>3. Main \in 0 .. MaxCalls
  BY JobsAssumption DEF Main
<1>4. Known(p)
  BY <1>1, <1>2 DEF IInv, TopUses, Narrow
<1>5. /\ j \in JobType /\ j.parent = Main /\ j.statusPtr = job[p].statusPtr
      /\ j.data = job[p].data /\ j.jobStopped = job[p].jobStopped
      /\ j.stopped = job[p].stopped /\ Gentle(p)
  BY <1>1, <1>3, <1>4, NamedIs
<1> HIDE DEF j
<1>6. Counters'
  BY <1>1, <1>5, CountersNamed DEF Waits
<1>7. \A q \in Procs : Held(Top.step, Top.i, q) = Held("visit", Top.i + 1, q)
  BY <1>1 DEF Held
<1>8. ASSUME NEW q, q # p, Moved(Top.list, Top.step, Top.i, q)
      PROVE  Moved(Top.list, "visit", Top.i + 1, q)
  <2> HIDE DEF Top
  <2>1. PICK n \in 1 .. Len(Top.list) : Top.list[n] = q /\ n >= Top.i
    BY <1>1, <1>8 DEF Moved
  <2>2. n >= Top.i + 1
    BY <1>2, <1>8, <2>1
  <2> QED  BY <2>1, <2>2 DEF Moved
<1>9. "visit" \notin InList
  BY DEF InList
<1>10. GoesWell("visit", Top.i + 1)
  BY <1>1, <1>7, <1>9 DEF GoesWell, InList
<1>11. JobGoes(p, j)
  BY <1>1, <1>5, <1>6 DEF JobGoes
<1>12. NamesGo("visit", Top.i + 1, p, j)
  <2> HIDE DEF Top
  <2> QED  BY <1>5, <1>8 DEF NamesGo
<1> QED  BY <1>10, <1>11, <1>12, WaitChanges

LEMMA WaitInterruptedOf ==
    ASSUME IInv, Waits, WaitInterrupted, NEW p \in Procs, p = Job
    PROVE  IInv'
<1> DEFINE j == Stopped(p, job[p])
<1>1. /\ Typed /\ Shape /\ Top.op = "wait" /\ Top.step = "until"
      /\ GoesTo(IF Top.forever THEN "until2" ELSE "once", Top.i)
      /\ stopRequests \in Nat /\ gotInt' = FALSE
      /\ job' = [job EXCEPT ![p] = j] /\ CountStop(job[p])
      /\ UNCHANGED <<os, sigchld, events>>
  BY WaitMoves DEF IInv, Waits, WaitInterrupted, Typed, osVars
<1>2. p = Top.list[Top.i] /\ Top.i \in 1 .. Len(Top.list) /\ Top.i <= Len(Top.list)
  BY <1>1, JobIs DEF InList
<1>3. job[p].data = "live" /\ Known(p)
  <2>1. Holds(Top, p)
    <3> HIDE DEF Top
    <3> QED  BY <1>1, <1>2 DEF Holds
  <2> QED  BY <1>1, <2>1, TopRuns, HeldIsLive DEF Known
<1>4. /\ j \in JobType /\ SameButStreams(job[p], j) /\ StreamsAsked(job[p], j)
      /\ j.stopped /\ (j.out = job[p].out \/ j.cut)
  <2>1. job[p] \in JobType
    BY <1>1 DEF Typed
  <2> QED  BY <2>1, StoppedIs
<1> HIDE DEF j
<1>5. /\ j.data = job[p].data /\ j.jobStopped = job[p].jobStopped
      /\ j.parent = job[p].parent /\ j.statusPtr = job[p].statusPtr
  BY <1>4 DEF SameButStreams
<1>6. job'[p] = j /\ \A q \in Procs : q # p => job'[q] = job[q]
  BY <1>1, <1>4, JobChanged
<1>7. Gentle(p)
  BY <1>3, <1>4, <1>6, GentleBy
<1>8. stopRequests' \in Nat
  BY <1>1 DEF CountStop
<1>9. Typed' => Counters'
  BY <1>1, <1>3, <1>4, <1>5, <1>6, CountersStop DEF IInv
<1>10. PICK s \in {"until2", "once"} : GoesTo(s, Top.i)
  BY <1>1
<1>11. \A q \in Procs : Held(Top.step, Top.i, q) = Held(s, Top.i, q)
  BY <1>1, <1>10 DEF Held
<1>12. \A q : Moved(Top.list, Top.step, Top.i, q) => Moved(Top.list, s, Top.i, q)
  BY <1>10, MovedKept
<1>13. GoesWell(s, Top.i)
  BY <1>2, <1>10, <1>11 DEF GoesWell, InList
<1>14. JobGoes(p, j)
  BY <1>1, <1>4, <1>5, <1>7, <1>8, <1>9 DEF JobGoes
<1>15. NamesGo(s, Top.i, p, j)
  <2> HIDE DEF Top
  <2> QED  BY <1>5, <1>12 DEF NamesGo
<1> QED  BY <1>13, <1>14, <1>15, WaitChanges

(* A wait takes a reference of the job p, or gives it back.  If b, it was  *)
(* the last.                                                               *)
HoldGoes(p, n, b) ==
    /\ UNCHANGED <<gotInt, stopRequests>>
    /\ job' = [job EXCEPT ![p] = [job[p] EXCEPT !.refs = n]]
    /\ b => events' = Append(events, Event(p, "exit"))
    /\ ~b => UNCHANGED events
    /\ n \in Nat /\ job[p].refs > 0 /\ b \in BOOLEAN /\ (b <=> n = 0)
    /\ n = HandlesOf(job[p]) + Holding(p)'

LEMMA HoldKeeps ==
    ASSUME IInv, Waits, NEW s \in {"until", "final", "clear"}, GoesTo(s, Top.i),
           Top.i <= Len(Top.list), NEW p \in Procs, NEW n, NEW b, HoldGoes(p, n, b),
           \A q \in Procs : q # p => Held(Top.step, Top.i, q) = Held(s, Top.i, q)
    PROVE  IInv'
<1> DEFINE j == [job[p] EXCEPT !.refs = n]
<1>1. /\ Typed /\ Shape /\ ~polling' /\ Whole(p) /\ job[p] \in JobType
      /\ UNCHANGED <<os, sigchld, pipe, gotInt, stopRequests, calls, polling>>
  BY DEF IInv, Waits, osVars, HoldGoes, Typed
<1>2. /\ job' = [job EXCEPT ![p] = j] /\ n \in Nat /\ job[p].refs > 0
      /\ b \in BOOLEAN /\ (b <=> n = 0) /\ n = HandlesOf(job[p]) + Holding(p)'
  BY DEF HoldGoes
<1>3. /\ j \in JobType /\ j.refs = n /\ j.handle = job[p].handle /\ j.in = job[p].in
      /\ j.reads = job[p].reads /\ j.wrote = job[p].wrote /\ j.data = job[p].data
      /\ j.out = job[p].out /\ j.cut = job[p].cut /\ j.stopped = job[p].stopped
      /\ j.parent = job[p].parent /\ j.statusPtr = job[p].statusPtr
      /\ j.jobStopped = job[p].jobStopped
  BY <1>1, <1>2 DEF JobType
<1> HIDE DEF j
<1>4. job' \in [Procs -> JobType] /\ job'[p] = j /\ \A q \in Procs : q # p
        => job'[q] = job[q]
  BY <1>1, <1>2, <1>3, JobChanged
<1>5. /\ events' \in Seq(EventType)
      /\ Queued(p, "exit")' = Queued(p, "exit") + (IF b THEN 1 ELSE 0)
      /\ \A w \in {"read", "close"} : Queued(p, w)' = Queued(p, w)
      /\ \A m \in Int : AtMost(events, p, m) => AtMost(events', p, m)
      /\ \A q \in Procs : q # p => SameEvents(q)
  BY <1>1, <1>2, ExitAdded DEF HoldGoes
<1>6. Typed'
  BY <1>1, <1>4, <1>5, GoesSame DEF Typed
<1>7. \A q \in Procs : Unseen(q)
  BY <1>3, <1>4 DEF Unseen
<1>8. Shape' /\ Above' /\ Polls' /\ TopUses'
  <2>1. Shape' /\ Above' /\ Top'.step = s
    BY <1>1, Going
  <2> QED  BY <1>1, <2>1 DEF Polls, TopUses, Narrow
<1>9. Parents' /\ Pointers'
  <2>1. \A q : Moved(Top.list, Top.step, Top.i, q) => Moved(Top.list, s, Top.i, q)
    BY MovedKept
  <2>2. \A q \in Procs : CarriesMoved(q) /\ CarriesPoint(q)
    BY <1>1, <2>1, GoesCarries
  <2> QED  BY <1>7, <2>2, UnseenKeeps, RefsBy DEF IInv
<1>10. Counters'
  BY <1>1, <1>7, CountersSame DEF IInv, Unseen
<1>11. Whole(p)'
  <2>1. /\ \A op \in {"read", "exit", "flush"} : Running(p, op)' = Running(p, op)
        /\ Draining(p)' = Draining(p) /\ Shortened(p)' = Shortened(p)
    BY <1>1, GoesCounts
  <2>2. job[p].data = "live" /\ os[p] # "none"
    BY <1>1, <1>2 DEF Whole, Alive
  <2>3. Referenced(p)'
    BY <1>2, <1>3, <1>4 DEF Referenced, HandlesOf
  <2>4. Alive(p)'
    BY <1>1, <1>3, <1>4, <2>2 DEF Alive, Whole
  <2>5. Reading(p)' /\ Closes(p)'
    BY <1>1, <1>3, <1>4, <1>5, <2>1 DEF Reading, Closes, Whole
  <2>6. Exits(p)'
    <3>1. Queued(p, "exit") + Running(p, "exit") = 0
      BY <1>1, <1>2 DEF Whole, Exits
    <3>2. Queued(p, "exit") = 0 /\ Running(p, "exit") = 0
      <4>1. Queued(p, "exit") \in Nat /\ Running(p, "exit") \in Nat
        BY <1>1, Numbers
      <4> QED  BY <3>1, <4>1
    <3> QED  BY <1>2, <1>3, <1>4, <1>5, <2>1, <2>2, <3>2 DEF Exits
  <2>7. Output(p)'
    <3>1. /\ Arrived(p)' = Arrived(p) /\ Lost(p)' = Lost(p) /\ Drained(p)' = Drained(p)
          /\ Arrived(p) - Room \in Int
      BY <1>1, <1>3, <1>4, JobFacts DEF Arrived, Lost, Drained
    <3>2. AtMost(events, p, Arrived(p) - Room) => AtMost(events, p, Arrived(p) - Room)'
      <4> DEFINE m == Arrived(p) - Room
                 t == events'
      <4>1. m \in Int /\ m' = m
        BY <3>1
      <4> HIDE DEF m, t
      <4>2. AtMost(events, p, m) => AtMost(t, p, m)
        BY <1>5, <4>1 DEF t
      <4> QED  BY <4>1, <4>2 DEF m, t
    <3>3. (Arrived(p) - Room)' = Arrived(p) - Room
      BY <3>1
    <3> QED  BY <1>1, <1>3, <1>4, <1>5, <2>1, <3>1, <3>2, <3>3 DEF Output, Whole
  <2> QED  BY <2>3, <2>4, <2>5, <2>6, <2>7 DEF Whole
<1>12. ASSUME NEW q \in Procs, q # p
       PROVE  Whole(q)'
  <2>1. Gentle(q)
    BY <1>4, <1>12 DEF Gentle
  <2>2. SameEvents(q) /\ SameFrames(q) /\ Whole(q)
    BY <1>1, <1>5, <1>12, GoesSame DEF IInv
  <2> QED  BY <1>1, <1>12, <2>1, <2>2, WholeGentle
<1> QED  BY <1>6, <1>8, <1>9, <1>10, <1>11, <1>12 DEF IInv

LEMMA WaitPickOf ==
    ASSUME IInv, Waits, WaitPick, NEW p \in Procs, p = Job
    PROVE  IInv'
<1>1. /\ Typed /\ Shape /\ Top.op = "wait" /\ Top.step = "pick" /\ ~AllVisited
      /\ GoesTo(IF job[p].refs = 0 THEN "gone" ELSE "until", Top.i) /\ Known(p)
      /\ UNCHANGED <<gotInt, stopRequests, events>>
  BY WaitMoves DEF IInv, Waits, WaitPick, FindJob
<1>2. p = Top.list[Top.i] /\ Top.i <= Len(Top.list)
  BY <1>1, JobIs
<1>3. CASE job[p].refs = 0
  <2>1. GoesTo("gone", Top.i) /\ UNCHANGED job
    BY <1>1, <1>3 DEF WaitPick
  <2>2. \A q \in Procs : Held(Top.step, Top.i, q) = Held("gone", Top.i, q)
    BY <1>1 DEF Held
  <2>3. \A q : Moved(Top.list, Top.step, Top.i, q) => Moved(Top.list, "gone", Top.i, q)
    BY MovedKept
  <2>4. \A q \in Procs : q = Top.list[Top.i] => Known(q)
    BY <1>1, <1>2
  <2> HIDE DEF Top
  <2> QED  BY <1>1, <1>2, <2>1, <2>2, <2>3, <2>4, WaitStays
<1>4. CASE job[p].refs # 0
  <2> DEFINE n == job[p].refs + 1
  <2>1. GoesTo("until", Top.i)
    BY <1>1, <1>4
  <2>2. job' = [job EXCEPT ![p] = [job[p] EXCEPT !.refs = n]]
    BY <1>4 DEF WaitPick
  <2>3. ASSUME NEW q \in Procs
        PROVE  Held(Top.step, Top.i, q) = 0
                 /\ Held("until", Top.i, q) = IF q = p THEN 1 ELSE 0
    BY <1>1, <1>2 DEF Held
  <2>4. Holding(p)' = Holding(p) + 1
    <3>1. Holding(p)' = Holding(p) - Held(Top.step, Top.i, p) + Held("until", Top.i, p)
      BY <1>1, <2>1, GoesCounts
    <3>2. Holding(p) \in Nat
      BY <1>1, Numbers
    <3> QED  BY <2>3, <3>1, <3>2
  <2>5. n = HandlesOf(job[p]) + Holding(p)' /\ n \in Nat /\ job[p].refs > 0 /\ n # 0
    <3>1. job[p].refs = HandlesOf(job[p]) + Holding(p) /\ job[p].refs \in Nat
          /\ HandlesOf(job[p]) \in Nat /\ Holding(p) \in Nat
      BY <1>1, JobFacts, Numbers DEF IInv, Whole, Referenced, HandlesOf, One
    <3> QED  BY <1>4, <2>4, <3>1
  <2> HIDE DEF n
  <2>6. HoldGoes(p, n, FALSE)
    BY <1>1, <2>2, <2>5 DEF HoldGoes
  <2>7. \A q \in Procs : q # p => Held(Top.step, Top.i, q) = Held("until", Top.i, q)
    BY <2>3
  <2> HIDE DEF Top
  <2> QED  BY <1>2, <2>1, <2>6, <2>7, HoldKeeps
<1> QED  BY <1>3, <1>4

LEMMA WaitFinishOf ==
    ASSUME IInv, Waits, WaitFinish, NEW p \in Procs, p = Job
    PROVE  IInv'
<1> DEFINE n == job[p].refs - 1
           b == LastRef(job[p], 1)
<1>1. /\ Typed /\ Shape /\ Top.op = "wait" /\ Top.step = "finish"
      /\ GoesTo(IF b THEN "final" ELSE "clear", Top.i)
      /\ job' = [job EXCEPT ![p] = [job[p] EXCEPT !.refs = n]]
      /\ b => events' = Append(events, Event(p, "exit"))
      /\ ~b => UNCHANGED events
      /\ UNCHANGED <<gotInt, stopRequests>>
  BY WaitMoves DEF IInv, Waits, WaitFinish, Decref
<1>2. p = Top.list[Top.i] /\ Top.i <= Len(Top.list)
  BY <1>1, JobIs DEF InList
<1>3. Holding(p) > 0
  <2>1. Holds(Top, p)
    <3> HIDE DEF Top
    <3> QED  BY <1>1, <1>2 DEF Holds
  <2> QED  BY <1>1, <2>1, TopRuns
<1>4. PICK s \in {"final", "clear"} : GoesTo(s, Top.i)
  BY <1>1
<1>5. ASSUME NEW q \in Procs
      PROVE  Held(s, Top.i, q) = 0 /\ Held(Top.step, Top.i, q) = IF q = p THEN 1 ELSE 0
  BY <1>1, <1>2 DEF Held
<1>6. Holding(p)' = Holding(p) - 1
  <2>1. Holding(p)' = Holding(p) - Held(Top.step, Top.i, p) + Held(s, Top.i, p)
    BY <1>1, <1>4, GoesCounts
  <2>2. Holding(p) \in Nat
    BY <1>1, Numbers
  <2> QED  BY <1>5, <2>1, <2>2
<1>7. n = HandlesOf(job[p]) + Holding(p)' /\ n \in Nat /\ job[p].refs > 0 /\ (b <=> n = 0)
      /\ b \in BOOLEAN
  <2>1. job[p].refs = HandlesOf(job[p]) + Holding(p) /\ job[p].refs \in Nat
        /\ HandlesOf(job[p]) \in Nat /\ Holding(p) \in Nat
    BY <1>1, JobFacts, Numbers DEF IInv, Whole, Referenced, HandlesOf, One
  <2> QED  BY <1>3, <1>6, <2>1 DEF LastRef
<1> HIDE DEF n, b
<1>8. HoldGoes(p, n, b)
  BY <1>1, <1>7 DEF HoldGoes
<1>9. \A q \in Procs : q # p => Held(Top.step, Top.i, q) = Held(s, Top.i, q)
  BY <1>5
<1> HIDE DEF Top
<1> QED  BY <1>2, <1>4, <1>8, <1>9, HoldKeeps

LEMMA WaitClearKeeps ==
    ASSUME IInv, Waits, WaitClear
    PROVE  IInv'
<1>1. /\ Typed /\ Shape /\ ~polling' /\ Top.op = "wait" /\ Top.step \in {"clear", "pick"}
      /\ GoesTo("visit", 1)
      /\ UNCHANGED <<os, sigchld, pipe, events, gotInt, stopRequests, calls, polling>>
  BY WaitMoves DEF IInv, Waits, WaitClear, osVars
<1>2. ASSUME NEW p \in Procs
      PROVE  /\ job'[p] \in JobType /\ Gentle(p)
             /\ job'[p].parent = job[p].parent /\ job'[p].data = job[p].data
             /\ job'[p].jobStopped = job[p].jobStopped /\ job'[p].stopped = job[p].stopped
             /\ job'[p].statusPtr = IF Clears(Top, p) THEN None ELSE job[p].statusPtr
  <2> DEFINE j == [job[p] EXCEPT !.statusPtr = None]
  <2>1. job[p] \in JobType
    BY <1>1 DEF Typed
  <2>2. None \in 0 .. MaxCalls
    BY JobsAssumption DEF None
  <2>3. /\ j \in JobType /\ j.refs = job[p].refs /\ j.handle = job[p].handle
        /\ j.in = job[p].in /\ j.reads = job[p].reads /\ j.wrote = job[p].wrote
        /\ j.data = job[p].data /\ j.out = job[p].out /\ j.cut = job[p].cut
        /\ j.stopped = job[p].stopped /\ j.parent = job[p].parent
        /\ j.statusPtr = None /\ j.jobStopped = job[p].jobStopped
    BY <2>1, <2>2 DEF JobType
  <2>4. job'[p] = IF Clears(Top, p) THEN j ELSE job[p]
    BY DEF WaitClear
  <2> HIDE DEF j, Top
  <2> QED  BY <2>1, <2>3, <2>4 DEF Gentle, Clears, FindJob
<1>3. Typed'
  <2>1. job' = [p \in Procs |-> job'[p]]
    BY DEF WaitClear
  <2>2. job' \in [Procs -> JobType]
    BY <1>2, <2>1
  <2> QED  BY <1>1, <2>2, GoesSame DEF Typed
<1>4. Counters'
  BY <1>1, <1>2, CountersSame DEF IInv
<1>5. Parents'
  <2>1. \A p : Moved(Top.list, Top.step, Top.i, p) => Moved(Top.list, "visit", 1, p)
    <3> HIDE DEF Top
    <3> QED  BY <1>1 DEF Moved
  <2>2. \A p : CarriesMoved(p)
    BY <1>1, <2>1, GoesCarries
  <2> QED  BY <1>2, <2>2, ParentsBy DEF IInv
<1>6. Pointers'
  <2>1. PICK g \in FrameType :
          Tops(g) /\ Top.op = "wait" /\ g.op = "wait" /\ g.id = Top.id
    BY <1>1 DEF GoesTo
  <2>2. ASSUME NEW p \in Procs, FindJob(p)', job'[p].statusPtr # None
        PROVE  FindJob(p) /\ job'[p].statusPtr = job[p].statusPtr /\ CarriesPoint(p)
    <3>1. FindJob(p)
      BY <1>2, <2>2 DEF FindJob, Known
    <3>2. ~MayPoint(Top, p)
      <4> HIDE DEF Top
      <4> QED  BY <1>2, <2>2, <3>1 DEF Clears, MayPoint
    <3>3. CarriesPoint(p)
      BY <1>1, <2>1, <3>2, CarriedTops
    <3> QED  BY <1>2, <2>2, <3>1, <3>3
  <2> QED  BY <2>2, PointersBy DEF IInv
<1>7. \A p \in Procs : Held(Top.step, Top.i, p) = Held("visit", 1, p)
  BY <1>1 DEF Held
<1>8. "visit" \notin InList
  BY DEF InList
<1> HIDE DEF Top
<1> QED  BY <1>1, <1>2, <1>3, <1>4, <1>5, <1>6, <1>7, <1>8, GentleGoes

LEMMA WaitEndKeeps ==
    ASSUME IInv, Waits, WaitEnd
    PROVE  IInv'
<1>1. /\ Typed /\ Shape /\ Above /\ ~polling' /\ Top.op = "wait" /\ Top.step = "visit"
      /\ AllVisited /\ Pops
      /\ UNCHANGED <<os, sigchld, pipe, job, events, gotInt, stopRequests, calls, polling>>
  BY WaitMoves DEF IInv, Waits, WaitEnd, osVars
<1>2. Typed'
  BY <1>1 DEF Typed, Pops
<1>3. Shape' /\ Above'
  BY <1>1, PopsKeep
<1>4. Polls' /\ TopUses'
  <2>1. ~Narrow(Top')
    <3>1. Narrow(Top') => Callback(Top, Top'.list[Top'.i])
      BY <1>1, PopsTop
    <3> HIDE DEF Top
    <3> QED  BY <1>1, <3>1 DEF Callback
  <2> QED  BY <1>1, <2>1 DEF Polls, TopUses, Narrow
<1>5. Parents' /\ Pointers'
  <2>1. Top.i \in Nat /\ Len(Top.list) \in Nat /\ Top.i > Len(Top.list)
    <3>1. Top \in FrameType
      BY <1>1, TopFacts
    <3>2. Top.i > Len(Top.list)
      BY <1>1 DEF AllVisited
    <3> HIDE DEF Top
    <3> QED  BY <1>1, <3>1, <3>2, FrameKinds, Listed
  <2>2. \A p : ~HasMoved(Top, p) /\ ~MayPoint(Top, p)
    <3> HIDE DEF Top
    <3> QED  BY <1>1, <2>1 DEF HasMoved, MayPoint
  <2>3. \A p \in Procs : CarriesMoved(p) /\ CarriesPoint(p)
    BY <1>1, <2>2, CarriedPops
  <2>4. \A p \in Procs : KeepsRefs(p)
    BY <1>1 DEF KeepsRefs, FindJob, Known
  <2> QED  BY <2>3, <2>4, RefsBy DEF IInv
<1>6. Counters'
  BY <1>1, CountersSame DEF IInv
<1>7. ASSUME NEW p \in Procs
      PROVE  Whole(p)'
  <2>1. SameFrames(p)
    <3>1. /\ \A op : Running(p, op)' =
                Running(p, op) - (IF Top.op = op /\ Top.proc = p THEN 1 ELSE 0)
          /\ Draining(p)' = Draining(p) -
               (IF Top.op = "flush" /\ Top.proc = p /\ Top.step = "drain" THEN 1 ELSE 0)
          /\ Shortened(p)' > 0 => Shortened(p) > 0
          /\ Holding(p)' = Holding(p) - (IF Holds(Top, p) THEN 1 ELSE 0)
      BY <1>1, PopCounts
    <3>2. Draining(p) \in Nat /\ Holding(p) \in Nat /\ \A op : Running(p, op) \in Nat
      BY <1>1, Numbers
    <3> HIDE DEF Top
    <3>3. ~Holds(Top, p)
      BY <1>1 DEF Holds
    <3>4. \A op \in {"read", "exit", "flush"} : Running(p, op)' = Running(p, op)
      BY <1>1, <3>1, <3>2
    <3> QED  BY <1>1, <3>1, <3>2, <3>3, <3>4 DEF SameFrames
  <2>2. Gentle(p) /\ SameEvents(p) /\ Whole(p)
    BY <1>1, SameEventsBy DEF Gentle, IInv
  <2> QED  BY <1>1, <2>1, <2>2, WholeGentle
<1> QED  BY <1>2, <1>3, <1>4, <1>5, <1>6, <1>7 DEF IInv

LEMMA WaitStepKeeps ==
    ASSUME IInv, Waits, WaitTimeout \/ WaitStep
    PROVE  IInv'
<1>1. ASSUME WaitBegin \/ WaitSettled \/ WaitPick \/ WaitInterrupted \/ WaitFinish
                \/ WaitRestored
      PROVE  \E p \in Procs : p = Job
  <2>1. Top.op = "wait" /\ (Top.step \in InList \/ ~AllVisited)
    BY <1>1 DEF Waits, InList, WaitBegin, WaitSettled, WaitPick, WaitInterrupted,
       WaitFinish,
       WaitRestored
  <2> QED  BY <2>1, JobIs
<1> HIDE DEF Job
<1>2. WaitBegin => IInv'
  BY <1>1, WaitBeginOf
<1>3. WaitSettled => IInv'
  BY <1>1, WaitSettledOf
<1>4. WaitPick => IInv'
  BY <1>1, WaitPickOf
<1>5. WaitInterrupted => IInv'
  BY <1>1, WaitInterruptedOf
<1>6. WaitFinish => IInv'
  BY <1>1, WaitFinishOf
<1>7. WaitRestored => IInv'
  BY <1>1, WaitRestoredOf
<1>8. WaitSkip \/ WaitBegun \/ WaitOnceDone \/ WaitVisit => IInv'
  BY WaitSkipKeeps, WaitBegunKeeps, WaitOnceDoneKeeps, WaitVisitKeeps
<1>9. WaitReached \/ WaitTimeout \/ WaitFinal \/ WaitClear \/ WaitEnd => IInv'
  BY WaitFinishesKeeps, WaitFinalKeeps, WaitClearKeeps, WaitEndKeeps
<1> QED  BY <1>2, <1>3, <1>4, <1>5, <1>6, <1>7, <1>8, <1>9 DEF WaitStep

-----------------------------------------------------------------------------
(***************************************************************************)
(* A sleep begins and ends.                                                *)
(***************************************************************************)
LEMMA SleepKeeps ==
    ASSUME IInv, Sleep
    PROVE  IInv'
<1> DEFINE g == [op |-> "sleep", draining |-> FALSE]
<1>1. /\ Typed /\ Shape /\ Above /\ ~polling /\ Top.op \in {"main", "read", "exit"}
      /\ calls' \in 0 .. MaxCalls /\ calls' \in Nat /\ calls <= calls'
      /\ UNCHANGED <<os, sigchld, pipe, job, stopRequests, events, polling, gotInt>>
  BY JobsAssumption DEF IInv, Typed, Sleep, Script, Calls, osVars, procVars
<1>2. g \in FrameType /\ g.op = "sleep" /\ stack' = Append(stack, g)
  BY DEF FrameType, Sleep
<1> HIDE DEF g
<1>3. Pushes(Top, g) /\ Alike(Top, Top)
  BY <1>1, <1>2, PushesOne DEF Alike
<1>4. Typed'
  BY <1>1, <1>3 DEF Typed, Pushes
<1>5. Shape' /\ Above'
  <2>1. ~Narrow(Top) /\ Top.op # "flush" /\ g.op # "main" /\ g.op # "wait"
    BY <1>1, <1>2 DEF Narrow
  <2> HIDE DEF Top
  <2> QED  BY <1>1, <1>3, <2>1, PushesKeep
<1>6. Polls' /\ TopUses'
  <2>1. Top' = g
    BY <1>3 DEF Pushes
  <2> QED  BY <1>1, <1>2, <2>1 DEF Polls, TopUses, Narrow
<1>7. Parents' /\ Pointers'
  <2>1. \A q \in Procs : CarriesMoved(q) /\ CarriesPoint(q)
    BY <1>1, <1>3, CarriedPushes
  <2>2. \A q \in Procs : KeepsRefs(q)
    BY <1>1 DEF KeepsRefs, FindJob, Known
  <2> QED  BY <2>1, <2>2, RefsBy DEF IInv
<1>8. Counters'
  BY <1>1, CountersSame DEF IInv
<1>9. ASSUME NEW q \in Procs
      PROVE  Whole(q)'
  <2>1. SameFrames(q)
    <3>1. /\ \A op \in {"read", "exit", "flush"} : Running(q, op)' =
               Running(q, op) + (IF g.op = op /\ g.proc = q THEN 1 ELSE 0)
          /\ Draining(q)' = Draining(q) +
               (IF g.op = "flush" /\ g.proc = q /\ g.step = "drain" THEN 1 ELSE 0)
          /\ Shortened(q)' = Shortened(q) +
               (IF g.op = "flush" /\ g.proc = q /\ g.limit < Room + Flushes THEN 1 ELSE 0)
          /\ Holding(q)' = Holding(q) + (IF Holds(g, q) THEN 1 ELSE 0)
      BY <1>1, <1>3, PushCounts
    <3>2. /\ Draining(q) \in Nat /\ Shortened(q) \in Nat /\ Holding(q) \in Nat
          /\ \A op : Running(q, op) \in Nat
      BY <1>1, Numbers
    <3>3. ~Holds(g, q)
      BY <1>2 DEF Holds
    <3>4. \A op \in {"read", "exit", "flush"} : Running(q, op)' = Running(q, op)
      BY <1>2, <3>1, <3>2
    <3> QED  BY <1>2, <3>1, <3>2, <3>3, <3>4 DEF SameFrames
  <2>2. Gentle(q) /\ SameEvents(q) /\ Whole(q)
    BY <1>1, SameEventsBy DEF Gentle, IInv
  <2> QED  BY <1>1, <2>1, <2>2, WholeGentle
<1> QED  BY <1>4, <1>5, <1>6, <1>7, <1>8, <1>9 DEF IInv

LEMMA EndSleepKeeps ==
    ASSUME IInv, EndSleep
    PROVE  IInv'
<1>1. /\ Typed /\ Shape /\ Above /\ Top.op = "sleep" /\ ~polling /\ stack' = Below
      /\ UNCHANGED <<os, sigchld, pipe, job, stopRequests, events, polling, gotInt, calls>>
  BY DEF IInv, EndSleep, osVars, procVars
<1>2. Pops
  <2>1. Top.op # "main"
    BY <1>1
  <2> QED  BY <1>1, <2>1, PopsBy
<1>3. Typed' /\ Shape' /\ Above'
  BY <1>1, <1>2, PopsKeep DEF Typed, Pops
<1>4. Polls' /\ TopUses'
  <2>1. ~Narrow(Top')
    <3>1. Narrow(Top') => Callback(Top, Top'.list[Top'.i])
      BY <1>1, <1>2, PopsTop
    <3> HIDE DEF Top
    <3> QED  BY <1>1, <3>1 DEF Callback
  <2> QED  BY <1>1, <2>1 DEF Polls, TopUses, Narrow
<1>5. Parents' /\ Pointers'
  <2>1. Top.op # "wait"
    BY <1>1
  <2>2. \A p \in Procs : CarriesMoved(p) /\ CarriesPoint(p)
    BY <1>1, <1>2, <2>1, CarriedPops
  <2>3. \A p \in Procs : KeepsRefs(p)
    BY <1>1 DEF KeepsRefs, FindJob, Known
  <2> QED  BY <2>2, <2>3, RefsBy DEF IInv
<1>6. Counters'
  BY <1>1, CountersSame DEF IInv
<1>7. ASSUME NEW p \in Procs
      PROVE  Whole(p)'
  <2>1. SameFrames(p)
    <3>1. /\ \A op : Running(p, op)' =
                Running(p, op) - (IF Top.op = op /\ Top.proc = p THEN 1 ELSE 0)
          /\ Draining(p)' = Draining(p) -
               (IF Top.op = "flush" /\ Top.proc = p /\ Top.step = "drain" THEN 1 ELSE 0)
          /\ Shortened(p)' > 0 => Shortened(p) > 0
          /\ Holding(p)' = Holding(p) - (IF Holds(Top, p) THEN 1 ELSE 0)
      BY <1>1, <1>2, PopCounts
    <3>2. Draining(p) \in Nat /\ Holding(p) \in Nat /\ \A op : Running(p, op) \in Nat
      BY <1>1, Numbers
    <3> HIDE DEF Top
    <3>3. ~Holds(Top, p)
      BY <1>1 DEF Holds
    <3>4. \A op \in {"read", "exit", "flush"} : Running(p, op)' = Running(p, op)
      BY <1>1, <3>1, <3>2
    <3> QED  BY <1>1, <3>1, <3>2, <3>3, <3>4 DEF SameFrames
  <2>2. Gentle(p) /\ SameEvents(p) /\ Whole(p)
    BY <1>1, SameEventsBy DEF Gentle, IInv
  <2> QED  BY <1>1, <2>1, <2>2, WholeGentle
<1> QED  BY <1>3, <1>4, <1>5, <1>6, <1>7 DEF IInv

-----------------------------------------------------------------------------
(***************************************************************************)
(* All steps.                                                              *)
(***************************************************************************)
LEMMA InitInvariant ==
    ASSUME Init
    PROVE  IInv
<1>1. /\ os = [p \in Procs |-> "none"] /\ sigchld = 0 /\ pipe = [p \in Procs |-> 0]
      /\ job = [p \in Procs |-> NewJob] /\ stopRequests = 0 /\ events = <<>>
      /\ stack = <<[op |-> "main"]>> /\ ~polling /\ gotInt = FALSE /\ polling = FALSE
      /\ calls = 0
  BY DEF Init
<1>2. NewJob \in JobType
  <2>1. 0 \in 0 .. MaxCalls
    BY JobsAssumption
  <2> QED  BY <2>1 DEF NewJob, JobType, Main, None
<1>3. [op |-> "main"] \in FrameType /\ Len(stack) = 1 /\ stack[1] = [op |-> "main"]
      /\ Len(events) = 0 /\ Top = [op |-> "main"]
  BY <1>1 DEF FrameType, Top
<1>4. Typed
  <2>1. stack \in Seq(FrameType)
    BY <1>1, <1>3
  <2>2. events \in Seq(EventType)
    BY <1>1
  <2>3. pipe \in [Procs -> Nat] /\ \A p \in Procs : pipe[p] <= MaxOutput[p]
    BY <1>1, JobsAssumption
  <2>4. job \in [Procs -> JobType]
          /\ os \in [Procs -> {"none", "running", "zombie", "reaped"}]
    BY <1>1, <1>2
  <2>5. calls \in 0 .. MaxCalls
    BY <1>1, JobsAssumption
  <2> QED  BY <1>1, <2>1, <2>2, <2>3, <2>4, <2>5 DEF Typed
<1>5. Shape /\ Polls /\ Above /\ TopUses
  BY <1>1, <1>3 DEF Shape, Polls, Above, TopUses, Narrow
<1>6. Counters
  <2>1. \A p \in Procs : job[p].stopped = FALSE /\ job[p].data = "none" /\ os[p] = "none"
    BY <1>1 DEF NewJob
  <2>2. Unanswered = {} /\ Asked = {} /\ Dead = {}
    BY <2>1 DEF Unanswered, Asked, Dead
  <2>3. Cardinality({}) = 0
    BY FS_EmptySet
  <2> HIDE DEF Unanswered, Asked, Dead
  <2> QED  BY <1>1, <1>4, <2>2, <2>3, CountersFacts
<1>7. Parents /\ Pointers
  BY <1>1 DEF Parents, Pointers, NewJob, Main, None
<1>8. ASSUME NEW p \in Procs
      PROVE  Whole(p)
  <2>1. \A S : Count(events, S) = 0
    BY <1>3, UptoNat DEF Count
  <2>2. \A S : stack[1] \notin S => Count(stack, S) = 0
    BY <1>3, UptoNat DEF Count
  <2>3. /\ stack[1] \notin Callbacks(p, "read") /\ stack[1] \notin Callbacks(p, "exit")
        /\ stack[1] \notin Callbacks(p, "flush") /\ stack[1] \notin Drains(p)
        /\ stack[1] \notin Shorts(p) /\ stack[1] \notin Holders(p)
    BY <1>3 DEF Callbacks, Drains, Shorts, Holders, Holds
  <2>4. /\ \A what : Queued(p, what) = 0
        /\ Running(p, "read") = 0 /\ Running(p, "exit") = 0 /\ Running(p, "flush") = 0
        /\ Draining(p) = 0 /\ Shortened(p) = 0 /\ Holding(p) = 0
    BY <2>1, <2>2, <2>3 DEF Queued, Running, Draining, Shortened, Holding
  <2>5. job[p] = NewJob /\ pipe[p] = 0 /\ os[p] = "none" /\ MaxOutput[p] \in Nat
    BY <1>1, JobsAssumption
  <2>6. /\ NewJob.refs = 0 /\ NewJob.in = "none" /\ NewJob.out = "none"
        /\ NewJob.handle = "none" /\ NewJob.reads = 0 /\ NewJob.wrote = 0
        /\ NewJob.data = "none"
    BY DEF NewJob
  <2> HIDE DEF NewJob
  <2>7. Referenced(p) /\ Alive(p) /\ Reading(p) /\ Closes(p) /\ Exits(p)
    BY <2>4, <2>5, <2>6 DEF Referenced, Alive, Reading, Closes, Exits, HandlesOf, One
  <2>8. Output(p)
    BY <2>4, <2>5, <2>6 DEF Output, Lost
  <2> QED  BY <2>7, <2>8 DEF Whole
<1> QED  BY <1>4, <1>5, <1>6, <1>7, <1>8 DEF IInv

LEMMA StutterKeeps ==
    ASSUME IInv, UNCHANGED vars
    PROVE  IInv'
<1>1. /\ UNCHANGED <<os, sigchld, pipe, job, stopRequests, events, stack, polling, gotInt, calls>>
  BY DEF vars, osVars, procVars
<1>2. Typed' /\ calls <= calls'
  BY <1>1, JobsAssumption DEF IInv, Typed
<1>3. \A p \in Procs : Gentle(p) /\ KeepsRefs(p)
  BY <1>1 DEF Gentle, KeepsRefs, FindJob, Known
<1>4. Counters'
  BY <1>1, CountersSame DEF IInv
<1> QED  BY <1>1, <1>2, <1>3, <1>4, GentleStill

LEMMA NextKeeps ==
    ASSUME IInv, [Next]_vars
    PROVE  IInv'
<1>1. ASSUME NEW p \in Procs,
             ChildWrites(p) \/ ChildExits(p) \/ ReadCb(p) \/ Spawn(p) \/ JobStop(p) \/ JobClose(p)
      PROVE  IInv'
  BY <1>1, ChildWritesKeeps, ChildExitsKeeps, ReadCbKeeps, SpawnKeeps, JobStopKeeps,
     JobCloseKeeps
<1>2. CASE Poll \/ LeavePoll \/ ExitCb \/ KillCb \/ Interrupt
  BY <1>2, PollKeeps, LeavePollKeeps, ExitCbKeeps, KillCbKeeps, InterruptKeeps
<1>3. CASE TakeEvent \/ EndRead \/ EndExit \/ FlushAgain \/ CloseHandles
  BY <1>3, TakeEventKeeps, EndReadKeeps, EndExitKeeps, FlushAgainKeeps, CloseHandlesKeeps
<1>4. CASE WaitStep
  <2>1. Waits
    BY <1>4 DEF WaitStep, Waits
  <2> QED  BY <1>4, <2>1, WaitStepKeeps
<1>5. ASSUME NEW l \in Lists, NEW forever \in BOOLEAN, JobWait(l, forever)
      PROVE  IInv'
  BY <1>5, JobWaitKeeps
<1>6. CASE ~polling /\ Top.op = "wait" /\ WaitTimeout
             /\ UNCHANGED <<osVars, polling, calls>>
  <2>1. Waits /\ WaitTimeout
    BY <1>6 DEF Waits
  <2> QED  BY <2>1, WaitStepKeeps
<1>7. CASE Sleep \/ EndSleep
  BY <1>7, SleepKeeps, EndSleepKeeps
<1>8. CASE UNCHANGED vars
  BY <1>8, StutterKeeps
<1> QED  BY <1>1, <1>2, <1>3, <1>4, <1>5, <1>6, <1>7, <1>8 DEF Next, MainSteps

(* Through every step of the children, of libuv and of the main thread the  *)
(* types, the shape of the stack, what each process counts and the places   *)
(* to which jobs point hold together.                                       *)
THEOREM JobsInvariant == Spec => []IInv
<1>1. Init => IInv
  BY InitInvariant
<1>2. IInv /\ [Next]_vars => IInv'
  BY NextKeeps
<1> QED  BY <1>1, <1>2, PTL DEF Spec

-----------------------------------------------------------------------------
(***************************************************************************)
(* What the invariant says of the properties.                              *)
(***************************************************************************)
LEMMA PendingIs ==
    ASSUME Typed, NEW p, NEW what
    PROVE  Pending(p, what) <=> Queued(p, what) > 0
<1>1. Len(events) \in Nat
  BY DEF Typed
<1>2. /\ Queued(p, what) \in Nat
      /\ Queued(p, what) = 0 <=> \A k \in 1 .. Len(events) : events[k] \notin {Event(p, what)}
  BY <1>1, UptoNat DEF Queued, Count
<1> QED  BY <1>2 DEF Pending

LEMMA FrameRuns ==
    ASSUME Typed, NEW p
    PROVE  /\ \A op : (\E f \in Frames : f.op = op /\ f.proc = p) <=> Running(p, op) > 0
           /\ \A n \in 1 .. Len(stack) : Holds(stack[n], p) => Holding(p) > 0
<1>1. Len(stack) \in Nat /\ \A k \in 1 .. Len(stack) : stack[k] \in FrameType
  BY DEF Typed
<1>2. \A S : /\ Count(stack, S) \in Nat
             /\ Count(stack, S) = 0 <=> \A k \in 1 .. Len(stack) : stack[k] \notin S
  BY <1>1, UptoNat DEF Count
<1>3. ASSUME NEW op
      PROVE  (\E f \in Frames : f.op = op /\ f.proc = p) <=> Running(p, op) > 0
  BY <1>1, <1>2 DEF Frames, Running, Callbacks
<1>4. ASSUME NEW n \in 1 .. Len(stack), Holds(stack[n], p)
      PROVE  Holding(p) > 0
  BY <1>1, <1>2, <1>4 DEF Holding, Holders
<1> QED  BY <1>3, <1>4

(* Each wait for a job is one call. *)
LEMMA HoldingBounded ==
    ASSUME Typed, Shape, NEW p
    PROVE  Holding(p) \in 0 .. MaxCalls
<1> DEFINE P == Places(stack, Holders(p), Len(stack))
           f == [k \in P |-> stack[k].id]
<1>1. Len(stack) \in Nat /\ MaxCalls \in Nat
        /\ \A k \in 1 .. Len(stack) : stack[k] \in FrameType
  BY JobsAssumption DEF Typed
<1>2. \A k \in P : k \in 1 .. Len(stack) /\ stack[k].op = "wait"
        /\ stack[k].id \in 1 .. MaxCalls
  BY <1>1, FrameKinds DEF Places, Holders, Holds
<1>3. ASSUME NEW k \in P, NEW m \in P, stack[k].id = stack[m].id
      PROVE  k = m
  <2>1. /\ m < k => stack[m].id < stack[k].id
        /\ k < m => stack[k].id < stack[m].id
    BY <1>2 DEF Shape
  <2> QED  BY <1>2, <1>3, <2>1
<1> HIDE DEF P
<1>4. f \in Injection(P, 1 .. MaxCalls)
  BY <1>2, <1>3 DEF Injection, IsInjective
<1>5. IsFiniteSet(1 .. MaxCalls) /\ Cardinality(1 .. MaxCalls) = MaxCalls
  BY <1>1, FS_Interval
<1>6. Cardinality(P) <= MaxCalls
  BY <1>4, <1>5, FS_Injection
<1>7. Holding(p) \in Nat
  BY Numbers
<1> QED  BY <1>1, <1>6, <1>7 DEF Holding, Count, Upto, P

LEMMA HandlesCounted ==
    ASSUME Typed, NEW p \in Procs
    PROVE  Cardinality({x \in Handles : job[p][x] \notin {"none", "closed"}}) = HandlesOf(job[p])
<1> DEFINE with(x, v) == IF v \in {"none", "closed"} THEN {} ELSE {x}
           A == with("in", job[p].in)
           B == A \cup with("out", job[p].out)
           C == B \cup with("handle", job[p].handle)
<1>1. {x \in Handles : job[p][x] \notin {"none", "closed"}} = C
  <2>1. job[p] \in JobType
    BY DEF Typed
  <2>2. job[p]["in"] = job[p].in /\ job[p]["out"] = job[p].out
        /\ job[p]["handle"] = job[p].handle
    BY <2>1 DEF JobType
  <2> QED  BY <2>2 DEF Handles
<1>2. ASSUME NEW S, IsFiniteSet(S), NEW x, x \notin S, NEW v
      PROVE  IsFiniteSet(S \cup with(x, v)) /\ Cardinality(S) \in Nat
             /\ Cardinality(S \cup with(x, v)) = Cardinality(S) + One(v)
  <2>1. Cardinality(S) \in Nat
    BY <1>2, FS_CardinalityType
  <2>2. CASE v \notin {"none", "closed"}
    BY <1>2, <2>1, <2>2, FS_AddElement DEF One
  <2>3. CASE v \in {"none", "closed"}
    <3>1. S \cup with(x, v) = S
      BY <2>3
    <3> QED  BY <1>2, <2>1, <2>3, <3>1 DEF One
  <2> QED  BY <2>2, <2>3
<1>3. IsFiniteSet({}) /\ Cardinality({}) = 0
  BY FS_EmptySet
<1>4. "in" \notin {} /\ "out" \notin A /\ "handle" \notin B /\ {} \cup A = A
  OBVIOUS
<1>5. IsFiniteSet(A) /\ Cardinality(A) = One(job[p].in)
  <2>1. IsFiniteSet({} \cup with("in", job[p].in))
        /\ Cardinality({} \cup with("in", job[p].in)) = Cardinality({}) + One(job[p].in)
    BY <1>2, <1>3, <1>4
  <2>2. One(job[p].in) \in Nat
    BY DEF One
  <2> HIDE DEF A, with
  <2> QED  BY <1>3, <1>4, <2>1, <2>2 DEF A
<1>6. IsFiniteSet(B) /\ Cardinality(B) = Cardinality(A) + One(job[p].out)
  <2> HIDE DEF A, with
  <2> QED  BY <1>2, <1>4, <1>5
<1>7. Cardinality(C) = Cardinality(B) + One(job[p].handle)
  <2> HIDE DEF B, with
  <2> QED  BY <1>2, <1>4, <1>6
<1> HIDE DEF A, B, C
<1> QED  BY <1>1, <1>5, <1>6, <1>7 DEF HandlesOf

LEMMA CountersAreBounded ==
    ASSUME Typed, Counters
    PROVE  sigchld \in 0 .. Cardinality(Procs) /\ stopRequests \in 0 .. Cardinality(Procs)
<1>1. IsFiniteSet(Procs) /\ Cardinality(Procs) \in Nat
  BY JobsAssumption, FS_CardinalityType
<1>2. Asked \in SUBSET Procs /\ Dead \in SUBSET Procs
  BY DEF Asked, Dead
<1>3. Cardinality(Asked) <= Cardinality(Procs) /\ Cardinality(Dead) <= Cardinality(Procs)
  BY <1>1, <1>2, FS_Subset
<1>4. /\ stopRequests <= Cardinality(Asked) /\ sigchld <= Cardinality(Dead)
      /\ Cardinality(Asked) \in Nat /\ Cardinality(Dead) \in Nat
  BY CountersFacts
<1>5. stopRequests \in Nat /\ sigchld \in Nat
  BY DEF Typed
<1> QED  BY <1>1, <1>3, <1>4, <1>5

LEMMA InvariantCounts ==
    ASSUME IInv
    PROVE  ProcessesCounted
<1>1. Typed /\ Shape /\ Counters /\ \A p \in Procs : Whole(p)
  BY DEF IInv
<1>2. TypeOK
  <2>1. ASSUME NEW p \in Procs
        PROVE  /\ pipe[p] \in 0 .. MaxOutput[p]
               /\ job[p].refs \in 0 .. 3 + MaxCalls
               /\ {job[p].in, job[p].out, job[p].handle}
                    \subseteq {"none", "open", "waiting", "closing", "closed"}
               /\ job[p].data \in {"none", "live", "leaving", "freed"}
               /\ {job[p].parent, job[p].statusPtr} \subseteq 0 .. MaxCalls
    <3>1. job[p].refs \in 0 .. 3 + MaxCalls
      <4>1. job[p].refs = HandlesOf(job[p]) + Holding(p) /\ MaxCalls \in Nat
        BY <1>1, JobsAssumption DEF Whole, Referenced
      <4>2. HandlesOf(job[p]) \in 0 .. 3
        BY DEF HandlesOf, One
      <4>3. Holding(p) \in 0 .. MaxCalls
        BY <1>1, HoldingBounded
      <4> QED  BY <4>1, <4>2, <4>3
    <3>2. pipe[p] \in 0 .. MaxOutput[p]
      <4>1. pipe[p] \in Nat /\ pipe[p] <= MaxOutput[p] /\ MaxOutput[p] \in Nat
        BY <1>1, JobsAssumption DEF Typed
      <4> QED  BY <4>1
    <3> QED  BY <1>1, <3>1, <3>2, JobFacts
  <2>2. sigchld \in 0 .. Cardinality(Procs) /\ stopRequests \in 0 .. Cardinality(Procs)
    BY <1>1, CountersAreBounded
  <2> QED  BY <1>1, <2>1, <2>2 DEF TypeOK, Typed, Shape
<1>3. RefcountIsHolders
  <2>1. ASSUME NEW p \in Procs
        PROVE  Cardinality({i \in 1 .. Len(stack) : Holds(stack[i], p)}) = Holding(p)
    <3>1. {i \in 1 .. Len(stack) : Holds(stack[i], p)} = Places(stack, Holders(p), Len(stack))
      <4>1. \A i \in 1 .. Len(stack) : stack[i] \in FrameType
        BY <1>1 DEF Typed
      <4> QED  BY <4>1 DEF Places, Holders
    <3> QED  BY <3>1 DEF Holding, Count, Upto
  <2>2. ASSUME NEW p \in Procs
        PROVE  job[p].refs =
                 Cardinality({x \in Handles : job[p][x] \notin {"none", "closed"}})
                   + Cardinality({i \in 1 .. Len(stack) : Holds(stack[i], p)})
    BY <1>1, <2>1, HandlesCounted DEF Whole, Referenced
  <2> QED  BY <2>2 DEF RefcountIsHolders
<1>4. ClosedOnce
  <2> SUFFICES ASSUME NEW p \in Procs
               PROVE  /\ (Pending(p, "close") \/ \E f \in Frames : f.op = "flush" /\ f.proc = p) =>
                           job[p].handle = "open"
                      /\ Cardinality({i \in 1 .. Len(events) : events[i] = Event(p, "close")})
                           + Cardinality({i \in 1 .. Len(stack) :
                                stack[i].op = "flush" /\ stack[i].proc = p}) <= 1
    BY DEF ClosedOnce
  <2>1. /\ Queued(p, "close") \in Nat /\ Running(p, "flush") \in Nat
        /\ \/ Queued(p, "close") + Running(p, "flush") = 0
           \/ Queued(p, "close") + Running(p, "flush") = 1 /\ job[p].handle = "open"
    BY <1>1, Numbers DEF Whole, Closes
  <2>2. Cardinality({i \in 1 .. Len(events) : events[i] = Event(p, "close")}) = Queued(p, "close")
    <3>1. {i \in 1 .. Len(events) : events[i] = Event(p, "close")} =
            Places(events, {Event(p, "close")}, Len(events))
      BY DEF Places
    <3> QED  BY <3>1 DEF Queued, Count, Upto
  <2>3. Cardinality({i \in 1 .. Len(stack) : stack[i].op = "flush" /\ stack[i].proc = p}) =
          Running(p, "flush")
    <3>1. {i \in 1 .. Len(stack) : stack[i].op = "flush" /\ stack[i].proc = p} =
            Places(stack, Callbacks(p, "flush"), Len(stack))
      <4>1. \A i \in 1 .. Len(stack) : stack[i] \in FrameType
        BY <1>1 DEF Typed
      <4> QED  BY <4>1 DEF Places, Callbacks
    <3> QED  BY <3>1 DEF Running, Count, Upto
  <2>4. Pending(p, "close") => Queued(p, "close") > 0
    BY <1>1, PendingIs
  <2>5. (\E f \in Frames : f.op = "flush" /\ f.proc = p) => Running(p, "flush") > 0
    BY <1>1, FrameRuns
  <2> QED  BY <2>1, <2>2, <2>3, <2>4, <2>5
<1>5. StopsAreCounted
  BY <1>1 DEF Counters, StopsAreCounted
<1> QED  BY <1>2, <1>3, <1>4, <1>5 DEF ProcessesCounted

LEMMA InvariantOrders ==
    ASSUME IInv
    PROVE  OutputBeforeExit
<1> SUFFICES ASSUME NEW p \in Procs, Exiting(p)
             PROVE  /\ os[p] = "reaped"
                    /\ job[p].reads = 0 /\ ~Pending(p, "read") /\ ~Pending(p, "close")
                    /\ job[p].cut \/ pipe[p] = 0 \/ job[p].wrote > Room + Flushes
  BY DEF OutputBeforeExit
<1>1. /\ Typed /\ Referenced(p) /\ Alive(p) /\ Reading(p) /\ Closes(p) /\ Exits(p)
         /\ Output(p)
  BY DEF IInv, Whole
<1>2. \A what, op : Queued(p, what) \in Nat /\ Running(p, op) \in Nat /\ Holding(p) \in Nat
  BY <1>1, Numbers
<1>3. job[p].data = "live" /\ job[p].refs = 0
  <2>1. Queued(p, "exit") > 0 \/ Running(p, "exit") > 0
    BY <1>1, PendingIs, FrameRuns DEF Exiting
  <2>2. Queued(p, "exit") \in Nat /\ Running(p, "exit") \in Nat
    BY <1>2
  <2>3. Queued(p, "exit") + Running(p, "exit") # 0
    BY <2>1, <2>2
  <2> QED  BY <1>1, <2>3 DEF Exits
<1>4. job[p].out \in {"none", "closed"} /\ job[p].handle = "closed"
  <2>1. One(job[p].in) + One(job[p].out) + One(job[p].handle) + Holding(p) = 0
    BY <1>1, <1>3 DEF Referenced, HandlesOf
  <2>2. One(job[p].in) \in Nat /\ One(job[p].out) \in Nat /\ One(job[p].handle) \in Nat
        /\ Holding(p) \in Nat
    BY <1>2 DEF One
  <2>3. One(job[p].out) = 0 /\ One(job[p].handle) = 0
    <3>1. \A a, b, c, d \in Nat : a + b + c + d = 0 => b = 0 /\ c = 0
      OBVIOUS
    <3> DEFINE a == One(job[p].in)
               b == One(job[p].out)
               c == One(job[p].handle)
               d == Holding(p)
    <3>2. a + b + c + d = 0 /\ a \in Nat /\ b \in Nat /\ c \in Nat /\ d \in Nat
      BY <2>1, <2>2, Zenon
    <3> HIDE DEF a, b, c, d
    <3>3. b = 0 /\ c = 0
      BY <3>1, <3>2
    <3> QED  BY <3>3 DEF b, c
  <2> QED  BY <1>1, <1>3, <2>3 DEF One, Alive
<1>5. os[p] = "reaped"
  <2>1. os[p] \in {"none", "running", "zombie", "reaped"}
    BY <1>1 DEF Typed
  <2> QED  BY <1>1, <1>3, <1>4, <2>1 DEF Alive
<1>6. job[p].reads = 0 /\ ~Pending(p, "read")
  <2>1. job[p].reads \in Nat
    BY <1>1, JobFacts
  <2>2. job[p].reads = 0
    BY <1>1, <1>4, <2>1 DEF Reading
  <2>3. Queued(p, "read") \in Nat /\ Running(p, "read") \in Nat
        /\ Queued(p, "read") + Running(p, "read") = 0
    BY <1>1, <1>2, <2>2 DEF Reading
  <2>4. ~(Queued(p, "read") > 0)
    BY <2>3
  <2> QED  BY <1>1, <2>2, <2>4, PendingIs
<1>7. ~Pending(p, "close")
  <2>1. Queued(p, "close") \in Nat /\ Running(p, "flush") \in Nat
        /\ Queued(p, "close") + Running(p, "flush") = 0
    BY <1>1, <1>2, <1>4 DEF Closes
  <2>2. ~(Queued(p, "close") > 0)
    BY <2>1
  <2> QED  BY <1>1, <2>2, PendingIs
<1>8. job[p].cut \/ pipe[p] = 0 \/ job[p].wrote > Room + Flushes
  BY <1>1, <1>4 DEF Output, Drained, Lost
<1> QED  BY <1>5, <1>6, <1>7, <1>8

(* A job that was freed is nowhere. *)
LEMMA FreedIsNowhere ==
    ASSUME IInv, NEW p \in Procs, job[p].data = "freed"
    PROVE  /\ \A what \in {"read", "close", "exit"} : Queued(p, what) = 0
           /\ \A op \in {"read", "exit", "flush"} : Running(p, op) = 0
           /\ Holding(p) = 0 /\ ~Known(p)
<1>1. /\ Typed /\ Referenced(p) /\ Alive(p) /\ Reading(p) /\ Closes(p) /\ Exits(p)
  BY DEF IInv, Whole
<1>2. job[p].refs = 0 /\ job[p].reads = 0 /\ job[p].handle = "none" /\ HandlesOf(job[p]) = 0
  <2>1. job[p] = [NewJob EXCEPT !.data = "freed"]
    BY <1>1 DEF Alive
  <2>2. job[p].refs = 0 /\ job[p].reads = 0 /\ job[p].handle = "none"
        /\ job[p].in = "none" /\ job[p].out = "none"
    BY <2>1 DEF NewJob
  <2> QED  BY <2>2 DEF HandlesOf, One
<1>3. /\ Queued(p, "read") + Running(p, "read") = 0
      /\ Queued(p, "close") + Running(p, "flush") = 0
      /\ Queued(p, "exit") + Running(p, "exit") = 0
      /\ Holding(p) + 0 = 0
  <2>1. Holding(p) \in Nat
    BY <1>1, Numbers
  <2> QED  BY <1>1, <1>2, <2>1 DEF Referenced, Reading, Closes, Exits
<1>4. /\ Queued(p, "read") \in Nat /\ Running(p, "read") \in Nat
      /\ Queued(p, "close") \in Nat /\ Running(p, "flush") \in Nat
      /\ Queued(p, "exit") \in Nat /\ Running(p, "exit") \in Nat /\ Holding(p) \in Nat
  BY <1>1, Numbers
<1>5. /\ Queued(p, "read") = 0 /\ Running(p, "read") = 0
      /\ Queued(p, "close") = 0 /\ Running(p, "flush") = 0
      /\ Queued(p, "exit") = 0 /\ Running(p, "exit") = 0 /\ Holding(p) = 0
  BY <1>3, <1>4
<1>6. ~Known(p)
  BY DEF Known
<1> QED  BY <1>5, <1>6

LEMMA InvariantHolds ==
    ASSUME IInv
    PROVE  NothingDangles
<1>1. Typed /\ Shape /\ Above /\ TopUses /\ Parents /\ Pointers
  BY DEF IInv
<1>2. FreedIsUnused
  <2> SUFFICES ASSUME NEW p \in Procs, job[p].data = "freed"
               PROVE  /\ \A f \in Frames : ~Uses(f, p)
                      /\ \A i \in 1 .. Len(events) : events[i].proc # p
    BY DEF FreedIsUnused
  <2>1. /\ \A what \in {"read", "close", "exit"} : Queued(p, what) = 0
        /\ \A op \in {"read", "exit", "flush"} : Running(p, op) = 0
        /\ Holding(p) = 0 /\ ~Known(p)
    BY FreedIsNowhere
  <2>2. ASSUME NEW i \in 1 .. Len(events)
        PROVE  events[i].proc # p
    <3>1. events[i] \in EventType
      BY <1>1 DEF Typed
    <3>2. events[i].what \in {"read", "close", "exit"}
          /\ events[i] = Event(events[i].proc, events[i].what)
      BY <3>1 DEF EventType, Event
    <3>3. \A what \in {"read", "close", "exit"} : ~Pending(p, what)
      BY <1>1, <2>1, PendingIs
    <3> QED  BY <3>2, <3>3 DEF Pending
  <2>3. \A n \in 1 .. Len(stack) : ~Callback(stack[n], p)
    <3>1. \A op \in {"read", "exit", "flush"} : ~\E f \in Frames : f.op = op /\ f.proc = p
      BY <1>1, <2>1, FrameRuns
    <3> QED  BY <3>1 DEF Callback, Frames
  <2>4. ASSUME NEW n \in 1 .. Len(stack)
        PROVE  ~Uses(stack[n], p)
    <3>1. ~Holds(stack[n], p)
      BY <1>1, <2>1, FrameRuns
    <3>2. ~(Narrow(stack[n]) /\ stack[n].list[stack[n].i] = p)
      <4>1. CASE n = Len(stack)
        BY <1>1, <2>1, <4>1 DEF TopUses, Top
      <4>2. CASE n # Len(stack)
        <5>1. n \in 1 .. Len(stack) - 1 /\ n + 1 \in 1 .. Len(stack)
          BY <1>1, <4>2, TopFacts
        <5> QED  BY <1>1, <2>3, <5>1 DEF Above
      <4> QED  BY <4>1, <4>2
    <3> QED  BY <2>3, <3>1, <3>2 DEF Uses, Callback, Holds, Narrow
  <2> QED  BY <2>2, <2>4 DEF Frames
<1>3. ParentExists
  BY <1>1 DEF ParentExists, Parents, WaitIds, Frames, OfWait
<1>4. StatusPtrOwned
  BY <1>1 DEF StatusPtrOwned, Pointers, FindJob, WaitIds, Frames, OfWait
<1> QED  BY <1>2, <1>3, <1>4 DEF NothingDangles

-----------------------------------------------------------------------------
(* The counters of processes are what they count: references are handles   *)
(* and waits, handles are closed once, stops are counted.                  *)
THEOREM CountedAlways == Spec => []ProcessesCounted
<1>1. IInv => ProcessesCounted
  BY InvariantCounts
<1> QED  BY <1>1, JobsInvariant, PTL

(* The exit callback comes after the output and the close, for any number  *)
(* of jobs, on terminals or not, in nested waits, with any stops.          *)
THEOREM OutputComesFirst == Spec => []OutputBeforeExit
<1>1. IInv => OutputBeforeExit
  BY InvariantOrders
<1> QED  BY <1>1, JobsInvariant, PTL

(* The main thread never uses a job that was freed, and no job names a     *)
(* wait that returned.                                                     *)
THEOREM NothingIsDangling == Spec => []NothingDangles
<1>1. IInv => NothingDangles
  BY InvariantHolds
<1> QED  BY <1>1, JobsInvariant, PTL
=============================================================================

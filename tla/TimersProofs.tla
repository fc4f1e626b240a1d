----------------------------- MODULE TimersProofs -----------------------------
(* The safety properties of the timers of a script, for any timers, counts  *)
(* and depth of callbacks that sleep.                                       *)
EXTENDS Timers, SequenceTheorems, FiniteSetTheorems, TLAPS

-----------------------------------------------------------------------------
(* The inductive invariant.                                                 *)

Pending(t) == \E i \in 1 .. Len(events) : events[i] = t

(* The references are the map's and those of the callbacks; who is not in   *)
(* the map has no event; each call made is counted.                         *)
Sound(r, calls, pending) ==
    /\ r.refs = calls + (IF r.at = "known" THEN 1 ELSE 0)
    /\ r.at \in {"none", "freed"} => calls = 0 /\ ~r.stopped
    /\ r.at # "known" => ~pending /\ ~r.armed
    /\ r.at = "known" => ~r.closed
    /\ r.at = "unknown" => r.stopped /\ r.closed /\ r.refs # 0
    /\ r.stopped => ~r.armed
    /\ r.repeat # Forever => /\ r.left >= 0 /\ r.calls + r.left = r.repeat
                             /\ r.left = 0 => r.stopped

(* The stack: the main loop, and callbacks and sleeps above it.             *)
StackShape ==
    /\ stack[1].op = "main"
    /\ \A i \in 2 .. Len(stack) : stack[i].op # "main"
    /\ \A i \in 1 .. Len(stack) : stack[i].op = "callback" <=> stack[i].timer # None
    /\ Top.op # "callback" => Len(stack) <= 2 * MaxNested + 1

AllSound == \A t \in Timers : Sound(timer[t], CallbacksOf(t), Pending(t))

IInv == TypeOK /\ StackShape /\ OneEventEach /\ AllSound

-----------------------------------------------------------------------------
(* What the functions of the code do to one timer.                          *)

LEMMA RecordFields ==
    ASSUME NEW r \in Record
    PROVE  /\ r.at \in {"none", "known", "unknown", "freed"} /\ r.zero \in BOOLEAN
           /\ r.repeat \in Nat \cup {Forever} /\ r.left \in Nat \cup {Forever} /\ r.refs \in Nat
           /\ r.stopped \in BOOLEAN /\ r.paused \in BOOLEAN /\ r.armed \in BOOLEAN
           /\ r.closed \in BOOLEAN /\ r.calls \in Nat /\ r.missed \in BOOLEAN
<1>1. r.at \in {"none", "known", "unknown", "freed"}
  BY DEF Record
<1>2. r.repeat \in Nat \cup {Forever} /\ r.left \in Nat \cup {Forever}
  <2>1. r.repeat \in Repeats \cup {1} /\ r.left \in Nat \cup {Forever}
    BY DEF Record
  <2>2. \A n \in Repeats : n \in Nat \cup {Forever}
    BY TimersAssumption
  <2>3. r.repeat \in Nat \cup {Forever}
    <3>1. CASE r.repeat \in Repeats
      BY <2>2, <3>1
    <3>2. CASE r.repeat = 1
      BY <3>2
    <3> QED  BY <2>1, <3>1, <3>2
  <2> QED  BY <2>1, <2>3
<1>3. r.refs \in Nat /\ r.calls \in Nat
  BY DEF Record
<1>4. /\ r.zero \in BOOLEAN /\ r.stopped \in BOOLEAN /\ r.paused \in BOOLEAN
      /\ r.armed \in BOOLEAN /\ r.closed \in BOOLEAN /\ r.missed \in BOOLEAN
  BY DEF Record
<1> QED  BY <1>1, <1>2, <1>3, <1>4

LEMMA NewSound ==
    /\ NewTimer \in Record /\ Freed \in Record
    /\ Sound(NewTimer, 0, FALSE) /\ Sound(Freed, 0, FALSE)
    /\ NewTimer.at = "none" /\ ~NewTimer.stopped /\ Freed.at = "freed"
<1>1. /\ NewTimer \in Record /\ NewTimer.at = "none" /\ ~NewTimer.stopped /\ ~NewTimer.armed
      /\ NewTimer.refs = 0 /\ NewTimer.repeat = 1 /\ NewTimer.left = 1 /\ NewTimer.calls = 0
  BY DEF NewTimer, Record
<1> DEFINE u == [NewTimer EXCEPT !.at = "freed"]
<1>2. /\ u \in Record /\ u.at = "freed" /\ ~u.stopped /\ ~u.armed
      /\ u.refs = 0 /\ u.repeat = 1 /\ u.left = 1 /\ u.calls = 0
  BY <1>1 DEF Record
<1> HIDE DEF u
<1>3. Sound(NewTimer, 0, FALSE) /\ Sound(u, 0, FALSE)
  BY <1>1, <1>2 DEF Sound
<1> QED  BY <1>1, <1>2, <1>3 DEF Freed, u

(* timer_start *)
LEMMA StartSound ==
    ASSUME NEW zero \in BOOLEAN, NEW n \in Repeats, NEW p \in BOOLEAN
    PROVE  LET r == [NewTimer EXCEPT !.at = "known", !.zero = zero, !.repeat = n,
                                     !.left = n, !.refs = 1, !.armed = TRUE]
           IN  r \in Record /\ Sound(r, 0, p)
<1> DEFINE r == [NewTimer EXCEPT !.at = "known", !.zero = zero, !.repeat = n,
                                 !.left = n, !.refs = 1, !.armed = TRUE]
<1>1. n \in Nat \cup {Forever} /\ n # 0
  BY TimersAssumption DEF Forever
<1>2. /\ r \in Record /\ r.at = "known" /\ r.refs = 1 /\ r.repeat = n /\ r.left = n
      /\ r.calls = 0 /\ ~r.stopped /\ ~r.closed
  BY <1>1 DEF NewTimer, Record
<1> HIDE DEF r
<1>3. Sound(r, 0, p)
  BY <1>1, <1>2 DEF Sound
<1> QED  BY <1>2, <1>3 DEF r

(* timer_stop *)
LEMMA StopSound ==
    ASSUME NEW r \in Record, NEW c \in Nat, NEW p \in BOOLEAN, Sound(r, c, p), r.at = "known"
    PROVE  TimerStop(r) \in Record /\ Sound(TimerStop(r), c, p)
  BY DEF TimerStop, Record, Sound

(* Any of the fields the invariant does not speak of.                       *)
LEMMA PauseSound ==
    ASSUME NEW r \in Record, NEW c \in Nat, NEW p \in BOOLEAN, Sound(r, c, p), NEW b \in BOOLEAN
    PROVE  /\ [r EXCEPT !.paused = b] \in Record /\ Sound([r EXCEPT !.paused = b], c, p)
           /\ [r EXCEPT !.missed = b] \in Record /\ Sound([r EXCEPT !.missed = b], c, p)
  BY DEF Record, Sound

(* time_watcher_cb *)
LEMMA FireSound ==
    ASSUME NEW r \in Record, NEW c \in Nat, NEW p \in BOOLEAN, NEW q \in BOOLEAN,
           Sound(r, c, p), r.armed, NEW b \in BOOLEAN
    PROVE  [r EXCEPT !.armed = b] \in Record /\ Sound([r EXCEPT !.armed = b], c, q)
  BY DEF Record, Sound

(* timer_close_cb, which frees the queue of the timer too.                  *)
LEMMA CloseSound ==
    ASSUME NEW r \in Record, NEW c \in Nat, NEW p \in BOOLEAN, Sound(r, c, p),
           r.stopped, ~r.closed
    PROVE  LET s == Decref([r EXCEPT !.closed = TRUE, !.at = "unknown"])
           IN  s \in Record /\ Sound(s, c, FALSE)
<1> DEFINE s == [r EXCEPT !.closed = TRUE, !.at = "unknown"]
<1>1. r.at = "known" /\ r.refs = c + 1
  BY RecordFields DEF Sound
<1>2. /\ s \in Record /\ s.at = "unknown" /\ s.closed /\ s.stopped /\ s.refs = c + 1
      /\ s.armed = r.armed /\ s.repeat = r.repeat /\ s.left = r.left /\ s.calls = r.calls
  BY <1>1 DEF Record
<1> HIDE DEF s
<1>3. CASE c = 0
  <2>1. Decref(s) = Freed
    BY <1>2, <1>3 DEF Decref
  <2>2. Decref(s) \in Record /\ Sound(Decref(s), c, FALSE)
    BY <1>3, <2>1, NewSound
  <2> QED  BY <2>2 DEF s
<1>4. CASE c # 0
  <2> DEFINE u == [s EXCEPT !.refs = @ - 1]
  <2>1. /\ u \in Record /\ u.at = "unknown" /\ u.closed /\ u.stopped /\ u.refs = c
        /\ u.armed = r.armed /\ u.repeat = r.repeat /\ u.left = r.left /\ u.calls = r.calls
    BY <1>2 DEF Record
  <2>2. Decref(s) = u
    BY <1>2, <1>4 DEF Decref
  <2> HIDE DEF u
  <2>3. Sound(u, c, FALSE)
    BY <1>1, <1>4, <2>1 DEF Sound
  <2>4. Decref(s) \in Record /\ Sound(Decref(s), c, FALSE)
    BY <2>1, <2>2, <2>3
  <2> QED  BY <2>4 DEF s
<1> QED  BY <1>3, <1>4

(* timer_due_cb: the callback is called.                                    *)
LEMMA CallSound ==
    ASSUME NEW r \in Record, NEW c \in Nat, NEW p \in BOOLEAN, Sound(r, c, TRUE), ~r.stopped
    PROVE  /\ Count(Held(Called(r))) \in Record
           /\ Sound(Count(Held(Called(r))), c + 1, p)
<1> DEFINE s == Held(Called(r))
<1>1. r.at = "known"
  BY DEF Sound
<1>2. /\ s \in Record /\ s.at = "known" /\ s.refs = c + 2 /\ ~s.closed /\ ~s.stopped
      /\ s.armed = r.armed /\ s.repeat = r.repeat /\ s.left = r.left
      /\ (r.repeat # Forever => s.calls = r.calls + 1)
  <2>1. /\ Called(r) \in Record /\ Called(r).refs = r.refs /\ Called(r).at = r.at
        /\ Called(r).closed = r.closed /\ Called(r).stopped = r.stopped
        /\ Called(r).armed = r.armed /\ Called(r).repeat = r.repeat /\ Called(r).left = r.left
        /\ (r.repeat # Forever => Called(r).calls = r.calls + 1)
    BY DEF Called, Record
  <2>2. r.refs = c + 1
    BY <1>1 DEF Sound
  <2> HIDE DEF Called
  <2>3. \A u \in Record : /\ Held(u) \in Record /\ Held(u).at = u.at /\ Held(u).refs = u.refs + 1
                          /\ Held(u).closed = u.closed /\ Held(u).stopped = u.stopped
                          /\ Held(u).armed = u.armed /\ Held(u).repeat = u.repeat
                          /\ Held(u).left = u.left /\ Held(u).calls = u.calls
    BY DEF Held, Record
  <2>4. ~r.closed
    BY <1>1 DEF Sound
  <2>5. /\ s \in Record /\ s.at = Called(r).at /\ s.refs = Called(r).refs + 1
        /\ s.closed = Called(r).closed /\ s.stopped = Called(r).stopped
        /\ s.armed = Called(r).armed /\ s.repeat = Called(r).repeat
        /\ s.left = Called(r).left /\ s.calls = Called(r).calls
    BY <2>1, <2>3
  <2> HIDE DEF s
  <2> QED  BY <1>1, <2>1, <2>2, <2>4, <2>5
<1> HIDE DEF s
<1>3. s.left \in Nat \cup {Forever} /\ s.calls \in Nat /\ s.repeat \in Nat \cup {Forever}
  BY <1>2, RecordFields
<1>4. CASE s.left < 0
  <2>1. Count(s) = s
    BY <1>4 DEF Count
  <2>2. r.repeat # Forever => s.left >= 0
    BY <1>2 DEF Sound
  <2>3. s.repeat = Forever
    BY <1>2, <1>3, <1>4, <2>2 DEF Forever
  <2>5. Sound(s, c + 1, p)
    BY <1>2, <2>3 DEF Sound
  <2>4. Count(s) \in Record /\ Sound(Count(s), c + 1, p)
    BY <1>2, <2>1, <2>5
  <2> QED  BY <2>4 DEF s
<1>5. CASE s.left = 1
  <2> DEFINE u == [s EXCEPT !.left = 0]
             v == [u EXCEPT !.stopped = TRUE, !.armed = FALSE]
  <2>1. /\ u \in Record /\ ~u.stopped /\ u.left = 0 /\ u.at = "known" /\ u.refs = c + 2
        /\ ~u.closed /\ u.repeat = s.repeat /\ u.calls = s.calls
    BY <1>2 DEF Record
  <2> HIDE DEF u
  <2>2. /\ v \in Record /\ v.stopped /\ ~v.armed /\ v.left = 0 /\ v.at = "known"
        /\ v.refs = c + 2 /\ ~v.closed /\ v.repeat = s.repeat /\ v.calls = s.calls
    BY <2>1 DEF Record
  <2>3. Count(s) = v
    BY <1>5, <2>1 DEF Count, TimerStop, u
  <2> HIDE DEF v
  <2>4. r.repeat # Forever => r.calls + r.left = r.repeat
    BY DEF Sound
  <2>5. r.repeat # Forever => v.calls + v.left = v.repeat
    BY <1>2, <1>3, <1>5, <2>2, <2>4, RecordFields
  <2>6. Sound(v, c + 1, p)
    BY <1>2, <2>2, <2>5 DEF Sound
  <2>7. Count(s) \in Record /\ Sound(Count(s), c + 1, p)
    BY <2>2, <2>3, <2>6
  <2> QED  BY <2>7 DEF s
<1>6. CASE ~(s.left < 0) /\ s.left # 1
  <2> DEFINE u == [s EXCEPT !.left = @ - 1]
  <2>1. s.left - 1 \in Nat \cup {Forever}
    BY <1>3, <1>6 DEF Forever
  <2>2. /\ u \in Record /\ ~u.stopped /\ u.left = s.left - 1 /\ u.at = "known"
        /\ u.refs = c + 2 /\ ~u.closed /\ u.repeat = s.repeat /\ u.calls = s.calls
        /\ u.armed = s.armed
    BY <1>2, <2>1 DEF Record
  <2>3. Count(s) = u
    BY <1>6 DEF Count
  <2> HIDE DEF u
  <2>4. r.repeat # Forever => r.calls + r.left = r.repeat /\ r.left >= 0 /\ (r.left = 0 => r.stopped)
    BY DEF Sound
  <2>5. r.repeat # Forever => u.calls + u.left = u.repeat /\ u.left >= 1
    <3>1. r.left \in Int /\ r.calls \in Nat /\ r.repeat \in Int
      BY RecordFields DEF Forever
    <3> QED  BY <1>2, <1>6, <2>2, <2>4, <3>1
  <2>6. Sound(u, c + 1, p)
    <3>1. /\ u.at = "known" /\ u.refs = c + 1 + 1 /\ ~u.closed /\ ~u.stopped
          /\ (u.repeat # Forever => u.calls + u.left = u.repeat /\ u.left >= 1)
      BY <1>2, <2>2, <2>5
    <3>2. u.left \in Int
      BY <2>2, RecordFields DEF Forever
    <3> QED  BY <3>1, <3>2 DEF Sound
  <2>7. Count(s) \in Record /\ Sound(Count(s), c + 1, p)
    BY <2>2, <2>3, <2>6
  <2> QED  BY <2>7 DEF s
<1> QED  BY <1>4, <1>5, <1>6

(* The end of timer_due_cb: the timer may start again, and is let go of.    *)
LEMMA ReturnSound ==
    ASSUME NEW r \in Record, NEW c \in Nat, NEW p \in BOOLEAN, Sound(r, c + 1, p)
    PROVE  LET s == Decref(IF Restarts(r) THEN [r EXCEPT !.armed = TRUE] ELSE r)
           IN  s \in Record /\ Sound(s, c, p)
<1> DEFINE s == IF Restarts(r) THEN [r EXCEPT !.armed = TRUE] ELSE r
<1>1. /\ s \in Record /\ s.at = r.at /\ s.refs = r.refs /\ s.closed = r.closed
      /\ s.stopped = r.stopped /\ s.repeat = r.repeat /\ s.left = r.left /\ s.calls = r.calls
      /\ s.armed => r.armed \/ ~r.stopped
  <2>1. CASE Restarts(r)
    <3>1. s = [r EXCEPT !.armed = TRUE] /\ ~r.stopped
      BY <2>1 DEF Restarts
    <3> HIDE DEF s
    <3> QED  BY <3>1 DEF Record
  <2>2. CASE ~Restarts(r)
    BY <2>2
  <2> QED  BY <2>1, <2>2
<1>2. r.at \in {"known", "unknown"} /\ (r.at = "unknown" => ~p)
  BY RecordFields DEF Sound
<1>3. r.refs = c + 1 + (IF r.at = "known" THEN 1 ELSE 0)
  BY DEF Sound
<1> HIDE DEF s
<1>4. CASE s.refs = 1
  <2>1. c = 0 /\ r.at = "unknown"
    BY <1>1, <1>2, <1>3, <1>4
  <2> QED  BY <1>2, <1>4, <2>1, NewSound DEF Decref, s
<1>5. CASE s.refs # 1
  <2> DEFINE u == [s EXCEPT !.refs = @ - 1]
  <2>1. s.refs - 1 \in Nat
    BY <1>1, <1>2, <1>3
  <2>2. /\ u \in Record /\ u.at = r.at /\ u.refs = r.refs - 1 /\ u.closed = r.closed
        /\ u.stopped = r.stopped /\ u.repeat = r.repeat /\ u.left = r.left /\ u.calls = r.calls
        /\ u.armed => r.armed \/ ~r.stopped
    BY <1>1, <2>1 DEF Record
  <2>3. Decref(s) = u
    BY <1>5 DEF Decref
  <2> HIDE DEF u
  <2>4. Sound(u, c, p)
    BY <1>1, <1>2, <1>3, <1>5, <2>2, RecordFields DEF Sound
  <2> QED  BY <2>2, <2>3, <2>4 DEF s
<1> QED  BY <1>4, <1>5
-----------------------------------------------------------------------------
(* What a step does to the stack.                                           *)

Alike(s, u) ==
    /\ u \in Seq(Frame) /\ Len(u) = Len(s)
    /\ \A i \in 1 .. Len(s) : u[i].op = s[i].op /\ u[i].timer = s[i].timer
Grown(s, u, f) ==
    /\ u \in Seq(Frame) /\ Len(u) = Len(s) + 1
    /\ \A i \in 1 .. Len(s) : u[i].op = s[i].op /\ u[i].timer = s[i].timer
    /\ u[Len(s) + 1].op = f.op /\ u[Len(s) + 1].timer = f.timer

LEMMA TopEdited ==
    ASSUME NEW s \in Seq(Frame), Len(s) >= 1, NEW d \in BOOLEAN
    PROVE  Alike(s, [s EXCEPT ![Len(s)].draining = d])
<1> DEFINE u == [s EXCEPT ![Len(s)].draining = d]
<1>1. Len(s) \in Nat /\ s[Len(s)] \in Frame
  OBVIOUS
<1>2. /\ [s[Len(s)] EXCEPT !.draining = d] \in Frame
      /\ [s[Len(s)] EXCEPT !.draining = d].op = s[Len(s)].op
      /\ [s[Len(s)] EXCEPT !.draining = d].timer = s[Len(s)].timer
  BY <1>1 DEF Frame
<1>3. u = [s EXCEPT ![Len(s)] = [s[Len(s)] EXCEPT !.draining = d]]
  OBVIOUS
<1> DEFINE f == [s[Len(s)] EXCEPT !.draining = d]
<1> HIDE DEF f
<1>4. /\ [s EXCEPT ![Len(s)] = f] \in Seq(Frame) /\ Len([s EXCEPT ![Len(s)] = f]) = Len(s)
      /\ \A i \in 1 .. Len(s) : [s EXCEPT ![Len(s)] = f][i] = IF i = Len(s) THEN f ELSE s[i]
  BY <1>1, <1>2 DEF f
<1>5. u = [s EXCEPT ![Len(s)] = f] /\ f.op = s[Len(s)].op /\ f.timer = s[Len(s)].timer
  BY <1>2, <1>3 DEF f
<1> HIDE DEF u
<1>6. Alike(s, u)
  BY <1>4, <1>5 DEF Alike
<1> QED  BY <1>6 DEF u

LEMMA Pushed ==
    ASSUME NEW s \in Seq(Frame), NEW u, Alike(s, u), NEW f \in Frame
    PROVE  Grown(s, Append(u, f), f)
<1>1. u \in Seq(Frame) /\ Len(u) = Len(s)
  BY DEF Alike
<1>2. /\ Append(u, f) \in Seq(Frame) /\ Len(Append(u, f)) = Len(u) + 1
      /\ Append(u, f)[Len(u) + 1] = f
      /\ \A i \in 1 .. Len(u) : Append(u, f)[i] = u[i]
  BY <1>1
<1> QED  BY <1>1, <1>2 DEF Grown, Alike

LEMMA Popped ==
    ASSUME NEW s \in Seq(Frame), Len(s) >= 2
    PROVE  LET u == SubSeq(s, 1, Len(s) - 1)
           IN  u \in Seq(Frame) /\ Len(u) = Len(s) - 1 /\ Grown(u, s, s[Len(s)])
<1> DEFINE u == SubSeq(s, 1, Len(s) - 1)
<1>1. u \in Seq(Frame) /\ Len(u) = Len(s) - 1 /\ \A i \in 1 .. Len(s) - 1 : u[i] = s[i]
  OBVIOUS
<1> HIDE DEF u
<1>2. Grown(u, s, s[Len(s)])
  BY <1>1 DEF Grown
<1> QED  BY <1>1, <1>2 DEF u

(* The number of frames of a timer.                                         *)
OfTimer(s, t) == {i \in 1 .. Len(s) : s[i].timer = t}

LEMMA CountTyped ==
    ASSUME NEW s \in Seq(Frame), NEW t
    PROVE  /\ IsFiniteSet(OfTimer(s, t)) /\ Cardinality(OfTimer(s, t)) \in Nat
           /\ Cardinality(OfTimer(s, t)) = 0 <=> \A i \in 1 .. Len(s) : s[i].timer # t
<1>1. IsFiniteSet(1 .. Len(s))
  BY FS_Interval
<1>2. IsFiniteSet(OfTimer(s, t))
  BY <1>1, FS_Subset DEF OfTimer
<1>3. Cardinality(OfTimer(s, t)) \in Nat
  BY <1>2, FS_CardinalityType
<1>4. Cardinality(OfTimer(s, t)) = 0 <=> OfTimer(s, t) = {}
  BY <1>2, FS_EmptySet
<1>5. OfTimer(s, t) = {} <=> \A i \in 1 .. Len(s) : s[i].timer # t
  BY DEF OfTimer
<1> QED  BY <1>2, <1>3, <1>4, <1>5

LEMMA CountAlike ==
    ASSUME NEW s \in Seq(Frame), NEW u, Alike(s, u), NEW t
    PROVE  Cardinality(OfTimer(u, t)) = Cardinality(OfTimer(s, t))
  BY DEF Alike, OfTimer

LEMMA CountGrown ==
    ASSUME NEW s \in Seq(Frame), NEW u \in Seq(Frame), NEW f, Grown(s, u, f), NEW t
    PROVE  Cardinality(OfTimer(u, t))
             = Cardinality(OfTimer(s, t)) + (IF f.timer = t THEN 1 ELSE 0)
<1> DEFINE n == Len(s) + 1
<1>1. /\ Len(s) \in Nat /\ Len(u) = n /\ u[n].timer = f.timer
      /\ \A i \in 1 .. Len(s) : u[i].timer = s[i].timer
      /\ \A i : i \in 1 .. n <=> i \in 1 .. Len(s) \/ i = n
      /\ n \notin 1 .. Len(s)
  BY DEF Grown
<1> HIDE DEF n
<1>2. n \notin OfTimer(s, t)
  BY <1>1 DEF OfTimer
<1>3. CASE f.timer = t
  <2>1. OfTimer(u, t) = OfTimer(s, t) \cup {n}
    BY <1>1, <1>3 DEF OfTimer
  <2>2. IsFiniteSet(OfTimer(s, t)) /\ Cardinality(OfTimer(s, t)) \in Nat
    BY CountTyped
  <2>3. Cardinality(OfTimer(s, t) \cup {n}) = Cardinality(OfTimer(s, t)) + 1
    BY <1>2, <2>2, FS_AddElement
  <2> QED  BY <1>3, <2>1, <2>3
<1>4. CASE f.timer # t
  <2>1. OfTimer(u, t) = OfTimer(s, t)
    BY <1>1, <1>4 DEF OfTimer
  <2>2. Cardinality(OfTimer(s, t)) \in Nat
    BY CountTyped
  <2> QED  BY <1>4, <2>1, <2>2
<1> QED  BY <1>3, <1>4

LEMMA StackFacts ==
    ASSUME TypeOK, StackShape
    PROVE  /\ stack \in Seq(Frame) /\ Len(stack) \in Nat /\ Len(stack) >= 1
           /\ Top \in Frame /\ Top.timer \in Timers \cup {None}
           /\ Top.op = "callback" => Top.timer \in Timers
           /\ Top.op # "main" => Len(stack) >= 2
           /\ Top.op # "callback" => Top.timer = None
<1>1. stack \in Seq(Frame) /\ Len(stack) \in Nat /\ Len(stack) >= 1
  BY DEF TypeOK
<1>2. Top \in Frame /\ Top.timer \in Timers \cup {None}
  <2>1. Top \in Frame
    BY <1>1 DEF Top
  <2>2. \A f \in Frame : f.timer \in Timers \cup {None}
    BY DEF Frame
  <2> QED  BY <2>1, <2>2
<1>3. Top.op = "callback" <=> Top.timer # None
  BY <1>1 DEF StackShape, Top
<1>4. Top.op # "main" => Len(stack) >= 2
  BY <1>1 DEF StackShape, Top
<1> QED  BY <1>1, <1>2, <1>3, <1>4

ShapeKept == /\ stack' \in Seq(Frame) /\ Len(stack') \in 1 .. 2 * MaxNested + 2
             /\ StackShape'

LEMMA AlikeShape ==
    ASSUME TypeOK, StackShape, Alike(stack, stack')
    PROVE  ShapeKept
<1>1. /\ stack' \in Seq(Frame) /\ Len(stack') = Len(stack)
      /\ Len(stack) \in Nat /\ Len(stack) >= 1 /\ Len(stack) \in 1 .. 2 * MaxNested + 2
      /\ \A i \in 1 .. Len(stack) : stack'[i].op = stack[i].op /\ stack'[i].timer = stack[i].timer
  BY StackFacts DEF Alike, TypeOK
<1>2. stack'[1].op = "main"
  BY <1>1 DEF StackShape
<1>3. \A i \in 2 .. Len(stack') : stack'[i].op # "main"
  BY <1>1 DEF StackShape
<1>4. \A i \in 1 .. Len(stack') : stack'[i].op = "callback" <=> stack'[i].timer # None
  BY <1>1 DEF StackShape
<1>5. Top'.op # "callback" => Len(stack') <= 2 * MaxNested + 1
  BY <1>1 DEF StackShape, Top
<1> QED  BY <1>1, <1>2, <1>3, <1>4, <1>5 DEF ShapeKept, StackShape

LEMMA GrownShape ==
    ASSUME TypeOK, StackShape, NEW f, Grown(stack, stack', f),
           \/ f.op = "sleep" /\ f.timer = None /\ Len(stack) <= 2 * MaxNested
           \/ f.op = "callback" /\ f.timer # None /\ Top.op # "callback"
    PROVE  ShapeKept
<1> DEFINE n == Len(stack) + 1
<1>1. /\ stack' \in Seq(Frame) /\ Len(stack') = n /\ Len(stack) \in Nat /\ Len(stack) >= 1
      /\ \A i \in 1 .. Len(stack) : stack'[i].op = stack[i].op /\ stack'[i].timer = stack[i].timer
      /\ stack'[n].op = f.op /\ stack'[n].timer = f.timer
      /\ \A i \in 1 .. n : i \in 1 .. Len(stack) \/ i = n
  BY StackFacts DEF Grown
<1>2. MaxNested \in Nat
  BY TimersAssumption
<1>3. Len(stack') \in 1 .. 2 * MaxNested + 2
  BY <1>1, <1>2 DEF StackShape
<1>4. stack'[1].op = "main"
  BY <1>1 DEF StackShape
<1>5. ASSUME NEW i \in 2 .. Len(stack')
      PROVE  stack'[i].op # "main"
  BY <1>1 DEF StackShape
<1>6. ASSUME NEW i \in 1 .. Len(stack')
      PROVE  stack'[i].op = "callback" <=> stack'[i].timer # None
  BY <1>1 DEF StackShape
<1>7. Top'.op # "callback" => Len(stack') <= 2 * MaxNested + 1
  BY <1>1, <1>2 DEF Top
<1> QED  BY <1>1, <1>3, <1>4, <1>5, <1>6, <1>7 DEF ShapeKept, StackShape

LEMMA ShrunkShape ==
    ASSUME TypeOK, StackShape, Len(stack) >= 2, stack' = Below
    PROVE  ShapeKept
<1>1. /\ stack' \in Seq(Frame) /\ Len(stack') = Len(stack) - 1
      /\ Grown(stack', stack, stack[Len(stack)])
  BY StackFacts, Popped DEF Below
<1>2. \A i \in 1 .. Len(stack') : stack'[i].op = stack[i].op /\ stack'[i].timer = stack[i].timer
  BY <1>1 DEF Grown
<1>3. Len(stack) \in 1 .. 2 * MaxNested + 2 /\ MaxNested \in Nat
  BY TimersAssumption DEF TypeOK
<1>4. /\ Len(stack') \in Nat /\ Len(stack') >= 1 /\ Len(stack') = Len(stack) - 1
      /\ Len(stack') \in 1 .. 2 * MaxNested + 2 /\ Len(stack') <= 2 * MaxNested + 1
  BY <1>1, <1>3
<1>5. stack'[1].op = "main"
  BY <1>2, <1>4 DEF StackShape
<1>6. ASSUME NEW i \in 2 .. Len(stack')
      PROVE  stack'[i].op # "main"
  BY <1>2, <1>4 DEF StackShape
<1>7. ASSUME NEW i \in 1 .. Len(stack')
      PROVE  stack'[i].op = "callback" <=> stack'[i].timer # None
  BY <1>2, <1>4 DEF StackShape
<1> QED  BY <1>1, <1>4, <1>5, <1>6, <1>7 DEF ShapeKept, StackShape
-----------------------------------------------------------------------------
(* Each step keeps the timers sound.                                        *)

LEMMA SoundLess ==
    ASSUME NEW r, NEW c, NEW p \in BOOLEAN, NEW q \in BOOLEAN, q => p, Sound(r, c, p)
    PROVE  Sound(r, c, q)
  BY DEF Sound

LEMMA CallbacksCounted ==
    \A t : CallbacksOf(t) = Cardinality(OfTimer(stack, t))
  BY DEF CallbacksOf, OfTimer

(* The timers that a step does not change.                                  *)
LEMMA TimerSame ==
    ASSUME AllSound, NEW t \in Timers, timer'[t] = timer[t],
           CallbacksOf(t)' = CallbacksOf(t), Pending(t)' => Pending(t)
    PROVE  Sound(timer[t], CallbacksOf(t), Pending(t))'
<1>1. Sound(timer[t], CallbacksOf(t), Pending(t))
  BY DEF AllSound
<1>2. Pending(t) \in BOOLEAN /\ Pending(t)' \in BOOLEAN
  BY DEF Pending
<1>3. Sound(timer[t], CallbacksOf(t), Pending(t)')
  BY <1>1, <1>2, SoundLess
<1> QED  BY <1>3 DEF Sound

LEMMA EventsPopped ==
    ASSUME TypeOK, OneEventEach, events # << >>, events' = Tail(events)
    PROVE  /\ events' \in Seq(Timers) /\ OneEventEach' /\ Head(events) \in Timers
           /\ Pending(Head(events))
           /\ \A t : Pending(t)' => Pending(t)
<1>1. /\ events \in Seq(Timers) /\ Len(events) \in Nat /\ Len(events) >= 1
  BY DEF TypeOK
<1>2. /\ events' \in Seq(Timers) /\ Len(events') = Len(events) - 1
      /\ Head(events) = events[1] /\ events[1] \in Timers
      /\ \A i \in 1 .. Len(events) - 1 : events'[i] = events[i + 1]
  BY <1>1
<1>3. \A i \in 1 .. Len(events') : i + 1 \in 1 .. Len(events) /\ events'[i] = events[i + 1]
  BY <1>1, <1>2
<1>4. OneEventEach'
  <2>1. SUFFICES ASSUME NEW i \in 1 .. Len(events'), NEW j \in 1 .. Len(events'),
                        events'[i] = events'[j]
                 PROVE  i = j
    BY DEF OneEventEach
  <2>2. i + 1 = j + 1
    BY <1>3, <2>1 DEF OneEventEach
  <2> QED  BY <2>2
<1>5. Pending(Head(events))
  BY <1>1, <1>2 DEF Pending
<1>6. \A t : Pending(t)' => Pending(t)
  BY <1>3 DEF Pending
<1> QED  BY <1>2, <1>4, <1>5, <1>6

(* timer_close_cb frees the events of the timers that close.                *)
LEMMA EventsClosed ==
    ASSUME TypeOK, OneEventEach, events' \in Kept
    PROVE  /\ events' \in Seq(Timers) /\ OneEventEach'
           /\ \A t : Pending(t)' => Pending(t) /\ t \notin Closing
<1> DEFINE I == {i \in DOMAIN events : events[i] \notin Closing}
<1>1. events \in Seq(Timers) /\ DOMAIN events = 1 .. Len(events)
  BY DEF TypeOK
<1>2. events' \in Selections(events, I)
  BY DEF Kept
<1>3. \A i \in I : events[i] \notin Closing
  OBVIOUS
<1> HIDE DEF I
<1>4. PICK f \in Ascending(I) : events' = [k \in DOMAIN f |-> events[f[k]]]
  BY <1>2 DEF Selections
<1>5. /\ events' \in Seq(Timers) /\ Len(events') = Cardinality(I)
      /\ f \in [1 .. Cardinality(I) -> I] /\ I \in SUBSET (1 .. Len(events))
  <2>1. I \in SUBSET (1 .. Len(events))
    BY <1>1 DEF I
  <2>2. Cardinality(I) \in Nat
    <3>1. IsFiniteSet(1 .. Len(events))
      <4>1. Len(events) \in Int /\ 1 \in Int
        BY <1>1
      <4> QED  BY <4>1, FS_Interval, Zenon
    <3>2. IsFiniteSet(I)
      BY <2>1, <3>1, FS_Subset, Zenon
    <3> QED  BY <3>2, FS_CardinalityType, Zenon
  <2>3. f \in [1 .. Cardinality(I) -> I]
    BY DEF Ascending
  <2>4. \A k \in 1 .. Cardinality(I) : events[f[k]] \in Timers
    <3> SUFFICES ASSUME NEW k \in 1 .. Cardinality(I) PROVE events[f[k]] \in Timers
      OBVIOUS
    <3>1. f[k] \in 1 .. Len(events)
      BY <2>1, <2>3
    <3> QED  BY <1>1, <3>1
  <2> QED  BY <1>4, <2>1, <2>2, <2>3, <2>4
<1>6. /\ \A k \in 1 .. Len(events') : f[k] \in 1 .. Len(events) /\ f[k] \in I
                                      /\ events'[k] = events[f[k]]
      /\ \A k, l \in 1 .. Len(events') : k < l => f[k] < f[l]
  BY <1>4, <1>5 DEF Ascending
<1>7. OneEventEach'
  <2>1. SUFFICES ASSUME NEW k \in 1 .. Len(events'), NEW l \in 1 .. Len(events'),
                        events'[k] = events'[l]
                 PROVE  k = l
    BY DEF OneEventEach
  <2>2. f[k] = f[l] /\ f[k] \in Nat
    <3>1. /\ f[k] \in 1 .. Len(events) /\ events'[k] = events[f[k]]
          /\ f[l] \in 1 .. Len(events) /\ events'[l] = events[f[l]]
      BY <1>6
    <3>2. f[k] = f[l]
      BY <2>1, <3>1 DEF OneEventEach
    <3> QED  BY <3>1, <3>2
  <2>3. ~(k < l) /\ ~(l < k)
    <3>1. (k < l => f[k] < f[l]) /\ (l < k => f[l] < f[k])
      BY <1>6
    <3> QED  BY <2>2, <3>1
  <2> QED  BY <2>3
<1>8. ASSUME NEW t, Pending(t)'
      PROVE  Pending(t) /\ t \notin Closing
  <2>1. PICK k \in 1 .. Len(events') : events'[k] = t
    BY <1>8 DEF Pending
  <2>2. f[k] \in 1 .. Len(events) /\ f[k] \in I /\ events[f[k]] = t
    BY <1>6, <2>1
  <2> QED  BY <1>3, <2>2 DEF Pending
<1> QED  BY <1>5, <1>7, <1>8

(* A timer that fires has an event then.                                    *)
LEMMA EventsFired ==
    ASSUME TypeOK, OneEventEach, NEW t \in Timers,
           events' = IF Blocks(t) THEN events ELSE Append(events, t)
    PROVE  /\ events' \in Seq(Timers) /\ OneEventEach'
           /\ \A u : u # t => (Pending(u)' => Pending(u))
<1>1. events \in Seq(Timers) /\ Len(events) \in Nat
  BY DEF TypeOK
<1>2. CASE Blocks(t)
  BY <1>1, <1>2 DEF OneEventEach, Pending
<1>3. CASE ~Blocks(t)
  <2>1. /\ events' \in Seq(Timers) /\ Len(events') = Len(events) + 1
        /\ events'[Len(events) + 1] = t
        /\ \A i \in 1 .. Len(events) : events'[i] = events[i]
        /\ \A i \in 1 .. Len(events') : i \in 1 .. Len(events) \/ i = Len(events) + 1
    BY <1>1, <1>3
  <2>2. \A i \in 1 .. Len(events) : events[i] # t
    BY <1>3 DEF Blocks
  <2>3. OneEventEach'
    <3>1. SUFFICES ASSUME NEW k \in 1 .. Len(events'), NEW l \in 1 .. Len(events'),
                          events'[k] = events'[l]
                   PROVE  k = l
      BY DEF OneEventEach
    <3> QED  BY <2>1, <2>2, <3>1 DEF OneEventEach
  <2>4. \A u : u # t => (Pending(u)' => Pending(u))
    BY <2>1 DEF Pending
  <2> QED  BY <2>1, <2>3, <2>4
<1> QED  BY <1>2, <1>3

LEMMA StackQuiet ==
    ASSUME TypeOK, StackShape, stack' = stack
    PROVE  ShapeKept /\ \A t : CallbacksOf(t)' = CallbacksOf(t)
  BY DEF TypeOK, ShapeKept, StackShape, Top, CallbacksOf

LEMMA StackAlike ==
    ASSUME TypeOK, StackShape, Alike(stack, stack')
    PROVE  ShapeKept /\ \A t : CallbacksOf(t)' = CallbacksOf(t)
<1>1. ShapeKept
  BY AlikeShape
<1>2. \A t : CallbacksOf(t)' = CallbacksOf(t)
  BY StackFacts DEF Alike, CallbacksOf
<1> QED  BY <1>1, <1>2

LEMMA EventsQuiet ==
    ASSUME TypeOK, OneEventEach, events' = events
    PROVE  /\ events' \in Seq(Timers) /\ OneEventEach'
           /\ \A t : Pending(t)' => Pending(t)
  BY DEF TypeOK, OneEventEach, Pending

LEMMA CallbacksTyped ==
    ASSUME TypeOK, NEW t
    PROVE  /\ CallbacksOf(t) \in Nat
           /\ CallbacksOf(t) = 0 <=> \A i \in 1 .. Len(stack) : stack[i].timer # t
  BY CallbacksCounted, CountTyped DEF TypeOK

(* What is left to show of a step: its types and its timers.                *)
LEMMA Whole ==
    ASSUME ShapeKept, timer' \in [Timers -> Record], events' \in Seq(Timers), OneEventEach',
           polling' \in BOOLEAN, AllSound'
    PROVE  IInv'
  BY DEF IInv, TypeOK, ShapeKept
LEMMA Typed ==
    ASSUME TypeOK, NEW t \in Timers
    PROVE  /\ timer[t] \in Record /\ Pending(t) \in BOOLEAN /\ Pending(t)' \in BOOLEAN
           /\ CallbacksOf(t) \in Nat
  BY CallbacksTyped DEF TypeOK, Pending

(* A step of one timer that calls nothing.                                  *)
LEMMA OneTimer ==
    ASSUME IInv, NEW t \in Timers, NEW r \in Record, timer' = [timer EXCEPT ![t] = r],
           stack' = stack, polling' \in BOOLEAN,
           events' \in Seq(Timers), OneEventEach',
           \A u : u # t => (Pending(u)' => Pending(u)),
           Sound(r, CallbacksOf(t), Pending(t)')
    PROVE  IInv'
<1> USE DEF IInv
<1>1. ShapeKept /\ \A u : CallbacksOf(u)' = CallbacksOf(u)
  BY StackQuiet
<1>2. timer' \in [Timers -> Record] /\ timer'[t] = r
      /\ \A u \in Timers : u # t => timer'[u] = timer[u]
  BY DEF TypeOK
<1>3. ASSUME NEW u \in Timers
      PROVE  Sound(timer[u], CallbacksOf(u), Pending(u))'
  <2>1. CASE u = t
    <3>1. Sound(timer'[t], CallbacksOf(t)', Pending(t)')
      BY <1>1, <1>2
    <3>2. Sound(timer[t], CallbacksOf(t), Pending(t))'
      BY <3>1 DEF Sound
    <3> QED  BY <2>1, <3>2
  <2>2. CASE u # t
    BY <1>1, <1>2, <2>2, TimerSame
  <2> QED  BY <2>1, <2>2
<1>4. AllSound'
  BY <1>3 DEF AllSound
<1> QED  BY <1>1, <1>2, <1>4, Whole

LEMMA TimerStartStep ==
    ASSUME IInv, NEW t \in Timers, NEW zero \in BOOLEAN, NEW n \in Repeats,
           TimerStart(t, zero, n)
    PROVE  IInv'
<1> DEFINE r == [NewTimer EXCEPT !.at = "known", !.zero = zero, !.repeat = n,
                                 !.left = n, !.refs = 1, !.armed = TRUE]
<1>1. timer' = [timer EXCEPT ![t] = r] /\ timer[t].at = "none"
      /\ stack' = stack /\ events' = events /\ polling' = polling
  BY DEF TimerStart
<1>2. Sound(timer[t], CallbacksOf(t), Pending(t)) /\ CallbacksOf(t) \in Nat
      /\ polling \in BOOLEAN /\ Pending(t)' \in BOOLEAN
  BY Typed DEF IInv, AllSound, TypeOK
<1>3. CallbacksOf(t) = 0
  BY <1>1, <1>2 DEF Sound
<1>4. r \in Record /\ Sound(r, CallbacksOf(t), Pending(t)')
  BY <1>2, <1>3, StartSound
<1>5. events' \in Seq(Timers) /\ OneEventEach' /\ \A u : Pending(u)' => Pending(u)
  BY <1>1, EventsQuiet DEF IInv
<1> HIDE DEF r
<1> QED  BY <1>1, <1>2, <1>4, <1>5, OneTimer

LEMMA TimerPauseStep ==
    ASSUME IInv, NEW t \in Timers, TimerPause(t)
    PROVE  IInv'
<1>1. PICK p \in BOOLEAN : timer' = [timer EXCEPT ![t].paused = p]
  BY DEF TimerPause
<1>2. stack' = stack /\ events' = events /\ polling' = polling
  BY DEF TimerPause
<1>3. /\ Sound(timer[t], CallbacksOf(t), Pending(t)) /\ CallbacksOf(t) \in Nat
      /\ polling \in BOOLEAN /\ Pending(t)' \in BOOLEAN /\ Pending(t) \in BOOLEAN
      /\ timer[t] \in Record
  BY Typed DEF IInv, AllSound, TypeOK
<1>4. events' \in Seq(Timers) /\ OneEventEach' /\ \A u : Pending(u)' => Pending(u)
  BY <1>2, EventsQuiet DEF IInv
<1> DEFINE r == [timer[t] EXCEPT !.paused = p]
<1>5. r \in Record /\ Sound(r, CallbacksOf(t), Pending(t))
  BY <1>3, PauseSound
<1>6. timer' = [timer EXCEPT ![t] = r]
  BY <1>1
<1> HIDE DEF r
<1>7. Sound(r, CallbacksOf(t), Pending(t)')
  BY <1>3, <1>4, <1>5, SoundLess
<1> QED  BY <1>2, <1>3, <1>4, <1>5, <1>6, <1>7, OneTimer

LEMMA FireStep ==
    ASSUME IInv, NEW t \in Timers, Fire(t)
    PROVE  IInv'
<1>1. /\ timer' = [timer EXCEPT ![t].armed = ~timer[t].zero] /\ timer[t].armed
      /\ events' = IF Blocks(t) THEN events ELSE Append(events, t)
      /\ stack' = stack /\ polling' = polling
  BY DEF Fire
<1>2. /\ Sound(timer[t], CallbacksOf(t), Pending(t)) /\ CallbacksOf(t) \in Nat
      /\ polling \in BOOLEAN /\ Pending(t)' \in BOOLEAN /\ Pending(t) \in BOOLEAN
      /\ timer[t] \in Record
  BY Typed DEF IInv, AllSound, TypeOK
<1>3. /\ events' \in Seq(Timers) /\ OneEventEach'
      /\ \A u : u # t => (Pending(u)' => Pending(u))
  BY <1>1, EventsFired DEF IInv
<1> DEFINE b == ~timer[t].zero
           r == [timer[t] EXCEPT !.armed = b]
<1>4. b \in BOOLEAN /\ timer' = [timer EXCEPT ![t] = r]
  BY <1>1
<1> HIDE DEF b
<1>5. r \in Record /\ Sound(r, CallbacksOf(t), Pending(t)')
  BY <1>1, <1>2, <1>4, FireSound
<1> HIDE DEF r
<1> QED  BY <1>1, <1>2, <1>3, <1>4, <1>5, OneTimer

LEMMA StopStep ==
    ASSUME IInv, NEW T \in SUBSET Timers, Stop(T)
    PROVE  IInv'
<1>1. /\ timer' = [t \in Timers |-> IF t \in T /\ Known(t) THEN TimerStop(timer[t]) ELSE timer[t]]
      /\ stack' = stack /\ events' = events /\ polling' = polling
  BY DEF Stop
<1>2. ShapeKept /\ \A t : CallbacksOf(t)' = CallbacksOf(t)
  BY <1>1, StackQuiet DEF IInv
<1>3. events' \in Seq(Timers) /\ OneEventEach' /\ \A t : Pending(t)' => Pending(t)
  BY <1>1, EventsQuiet DEF IInv
<1>4. polling' \in BOOLEAN
  BY <1>1 DEF IInv, TypeOK
<1>5. ASSUME NEW t \in Timers
      PROVE  timer'[t] \in Record /\ Sound(timer[t], CallbacksOf(t), Pending(t))'
  <2>1. /\ Sound(timer[t], CallbacksOf(t), Pending(t)) /\ CallbacksOf(t) \in Nat
        /\ Pending(t)' \in BOOLEAN /\ Pending(t) \in BOOLEAN /\ timer[t] \in Record
    BY Typed DEF IInv, AllSound
  <2>2. CASE t \in T /\ Known(t)
    <3>1. timer'[t] = TimerStop(timer[t])
      BY <1>1, <2>2
    <3>2. TimerStop(timer[t]) \in Record /\ Sound(TimerStop(timer[t]), CallbacksOf(t), Pending(t))
      BY <2>1, <2>2, StopSound DEF Known
    <3>3. Sound(TimerStop(timer[t]), CallbacksOf(t), Pending(t)')
      BY <1>3, <2>1, <3>2, SoundLess
    <3>4. Sound(timer'[t], CallbacksOf(t)', Pending(t)')
      BY <1>2, <3>1, <3>3
    <3> QED  BY <3>1, <3>2, <3>4 DEF Sound
  <2>3. CASE ~(t \in T /\ Known(t))
    <3>1. timer'[t] = timer[t]
      BY <1>1, <2>3
    <3> QED  BY <1>2, <1>3, <2>1, <3>1, TimerSame DEF IInv
  <2> QED  BY <2>2, <2>3
<1>6. timer' \in [Timers -> Record]
  BY <1>1, <1>5
<1> QED  BY <1>2, <1>3, <1>4, <1>5, <1>6, Whole DEF AllSound

LEMMA LeavePollStep ==
    ASSUME IInv, LeavePoll
    PROVE  IInv'
<1>1. /\ timer' = [t \in Timers |->
                     IF t \in Closing
                     THEN Decref([timer[t] EXCEPT !.closed = TRUE, !.at = "unknown"])
                     ELSE timer[t]]
      /\ stack' = stack /\ events' \in Kept /\ polling' = FALSE
  BY DEF LeavePoll
<1>2. ShapeKept /\ \A t : CallbacksOf(t)' = CallbacksOf(t)
  BY <1>1, StackQuiet DEF IInv
<1>3. /\ events' \in Seq(Timers) /\ OneEventEach'
      /\ \A t : Pending(t)' => Pending(t) /\ t \notin Closing
  BY <1>1, EventsClosed DEF IInv
<1>4. ASSUME NEW t \in Timers
      PROVE  timer'[t] \in Record /\ Sound(timer[t], CallbacksOf(t), Pending(t))'
  <2>1. /\ Sound(timer[t], CallbacksOf(t), Pending(t)) /\ CallbacksOf(t) \in Nat
        /\ Pending(t)' \in BOOLEAN /\ Pending(t) \in BOOLEAN /\ timer[t] \in Record
    BY Typed DEF IInv, AllSound
  <2>2. CASE t \in Closing
    <3> DEFINE s == Decref([timer[t] EXCEPT !.closed = TRUE, !.at = "unknown"])
    <3>1. timer'[t] = s
      BY <1>1, <2>2
    <3>2. timer[t].stopped /\ ~timer[t].closed
      BY <2>2 DEF Closing
    <3>3. s \in Record /\ Sound(s, CallbacksOf(t), FALSE)
      BY <2>1, <3>2, CloseSound
    <3> HIDE DEF s
    <3>4. Pending(t)' = FALSE
      BY <1>3, <2>1, <2>2
    <3>5. Sound(timer'[t], CallbacksOf(t)', Pending(t)')
      BY <1>2, <3>1, <3>3, <3>4
    <3> QED  BY <3>1, <3>3, <3>5 DEF Sound
  <2>3. CASE t \notin Closing
    <3>1. timer'[t] = timer[t]
      BY <1>1, <2>3
    <3> QED  BY <1>2, <1>3, <2>1, <3>1, TimerSame DEF IInv
  <2> QED  BY <2>2, <2>3
<1>5. timer' \in [Timers -> Record]
  BY <1>1, <1>4
<1> QED  BY <1>1, <1>2, <1>3, <1>4, <1>5, Whole DEF AllSound
(* A step of the waits alone.                                               *)
LEMMA WaitsOnly ==
    ASSUME IInv, timer' = timer, events' = events, polling' \in BOOLEAN, ShapeKept,
           \A t \in Timers : CallbacksOf(t)' = CallbacksOf(t)
    PROVE  IInv'
<1>1. events' \in Seq(Timers) /\ OneEventEach' /\ \A t : Pending(t)' => Pending(t)
  BY EventsQuiet DEF IInv
<1>2. timer' \in [Timers -> Record]
  BY DEF IInv, TypeOK
<1>3. AllSound'
  BY <1>1, TimerSame DEF IInv, AllSound
<1> QED  BY <1>1, <1>2, <1>3, Whole

LEMMA PushStep ==
    ASSUME TypeOK, StackShape, NEW f, Grown(stack, stack', f), NEW t
    PROVE  CallbacksOf(t)' = CallbacksOf(t) + (IF f.timer = t THEN 1 ELSE 0)
<1>1. CallbacksOf(t)' = Cardinality(OfTimer(stack', t))
  BY DEF CallbacksOf, OfTimer
<1>2. stack \in Seq(Frame) /\ stack' \in Seq(Frame)
  BY StackFacts DEF Grown
<1> QED  BY <1>1, <1>2, CallbacksCounted, CountGrown

LEMMA PopStep ==
    ASSUME TypeOK, StackShape, Len(stack) >= 2, stack' = Below, NEW t
    PROVE  CallbacksOf(t) = CallbacksOf(t)' + (IF Top.timer = t THEN 1 ELSE 0)
<1>1. CallbacksOf(t)' = Cardinality(OfTimer(stack', t))
  BY DEF CallbacksOf, OfTimer
<1>2. stack \in Seq(Frame) /\ stack' \in Seq(Frame) /\ Grown(stack', stack, Top)
  BY StackFacts, Popped DEF Below, Top
<1> QED  BY <1>1, <1>2, CallbacksCounted, CountGrown

LEMMA WaitStep ==
    ASSUME IInv, Poll \/ StartSleep \/ EndSleep
    PROVE  IInv'
<1> USE DEF IInv
<1>1. timer' = timer /\ events' = events
  BY DEF Poll, StartSleep, EndSleep
<1>2. CASE Poll
  <2>1. Alike(stack, stack')
    BY <1>2, StackFacts, TopEdited DEF Poll
  <2>2. polling' \in BOOLEAN
    BY <1>2 DEF Poll
  <2> QED  BY <1>1, <2>1, <2>2, StackAlike, WaitsOnly
<1>3. CASE StartSleep
  <2>1. Sleep \in Frame /\ Sleep.op = "sleep" /\ Sleep.timer = None
    BY DEF Sleep, Frame
  <2>2. Alike(stack, stack)
    BY StackFacts DEF Alike
  <2>3. Grown(stack, stack', Sleep) /\ Len(stack) <= 2 * MaxNested
    BY <1>3, <2>1, <2>2, StackFacts, Pushed DEF StartSleep
  <2>4. ShapeKept
    BY <2>1, <2>3, GrownShape
  <2>5. \A t \in Timers : CallbacksOf(t)' = CallbacksOf(t)
    BY <2>1, <2>3, PushStep, CallbacksTyped, TimersAssumption
  <2>6. polling' \in BOOLEAN
    BY <1>3 DEF StartSleep, TypeOK
  <2> QED  BY <1>1, <2>4, <2>5, <2>6, WaitsOnly
<1>4. CASE EndSleep
  <2>1. Top.op = "sleep" /\ stack' = Below /\ polling' = polling
    BY <1>4 DEF EndSleep
  <2>2. Len(stack) >= 2 /\ Top.timer = None
    BY <2>1, StackFacts
  <2>3. ShapeKept
    BY <2>1, <2>2, ShrunkShape
  <2>4. \A t \in Timers : CallbacksOf(t)' = CallbacksOf(t)
    <3>1. SUFFICES ASSUME NEW t \in Timers PROVE CallbacksOf(t)' = CallbacksOf(t)
      OBVIOUS
    <3>2. CallbacksOf(t)' \in Nat
      BY <2>3, CountTyped DEF ShapeKept, CallbacksOf, OfTimer
    <3> QED  BY <2>1, <2>2, <3>2, PopStep, TimersAssumption
  <2>5. polling' \in BOOLEAN
    BY <2>1 DEF TypeOK
  <2> QED  BY <1>1, <2>3, <2>4, <2>5, WaitsOnly
<1> QED  BY <1>2, <1>3, <1>4

LEMMA EndCallbackStep ==
    ASSUME IInv, EndCallback
    PROVE  IInv'
<1> DEFINE t == Top.timer
           r == timer[t]
           s == Decref(IF Restarts(r) THEN [r EXCEPT !.armed = TRUE] ELSE r)
<1>1. /\ Top.op = "callback" /\ timer' = [timer EXCEPT ![t] = s]
      /\ stack' = Below /\ events' = events /\ polling' = polling
  BY DEF EndCallback
<1>2. Len(stack) >= 2 /\ t \in Timers
  BY <1>1, StackFacts DEF IInv
<1>3. ShapeKept
  BY <1>1, <1>2, ShrunkShape DEF IInv
<1>4. events' \in Seq(Timers) /\ OneEventEach' /\ \A u : Pending(u)' => Pending(u)
  BY <1>1, EventsQuiet DEF IInv
<1>5. ASSUME NEW u \in Timers
      PROVE  /\ CallbacksOf(u)' \in Nat
             /\ CallbacksOf(u) = CallbacksOf(u)' + (IF t = u THEN 1 ELSE 0)
  <2>1. CallbacksOf(u)' \in Nat
    BY <1>3, CountTyped DEF ShapeKept, CallbacksOf, OfTimer
  <2> QED  BY <1>1, <1>2, <2>1, PopStep DEF IInv
<1> HIDE DEF t
<1>6. /\ r \in Record /\ Sound(r, CallbacksOf(t), Pending(t))
      /\ Pending(t) \in BOOLEAN
  BY <1>2, Typed DEF IInv, AllSound
<1> DEFINE c == CallbacksOf(t) - 1
<1>7. c \in Nat /\ Sound(r, c + 1, Pending(t))
  <2>1. CallbacksOf(t) >= 1 /\ CallbacksOf(t) \in Nat
    <3>1. \A u \in Timers : u = t => CallbacksOf(u) >= 1 /\ CallbacksOf(u) \in Nat
      BY <1>5
    <3> QED  BY <1>2, <3>1
  <2>2. c + 1 = CallbacksOf(t)
    BY <2>1
  <2> QED  BY <1>6, <2>1, <2>2
<1>8. s \in Record /\ Sound(s, c, Pending(t))
  <2> HIDE DEF r, c
  <2> QED  BY <1>6, <1>7, ReturnSound DEF r
<1> HIDE DEF s, r
<1>9. ASSUME NEW u \in Timers
      PROVE  timer'[u] \in Record /\ Sound(timer[u], CallbacksOf(u), Pending(u))'
  <2>1. CASE u = t
    <3>1. timer'[u] = s
      BY <1>1, <1>2, <2>1 DEF IInv, TypeOK
    <3>2. CallbacksOf(u)' = c
      BY <1>5, <2>1
    <3>3. Sound(s, c, Pending(u)) /\ (Pending(u)' => Pending(u))
      BY <1>4, <1>8, <2>1
    <3>4. Pending(u) \in BOOLEAN /\ Pending(u)' \in BOOLEAN
      BY Typed DEF IInv
    <3>5. Sound(s, c, Pending(u)')
      BY <3>3, <3>4, SoundLess
    <3>6. Sound(timer'[u], CallbacksOf(u)', Pending(u)')
      BY <3>1, <3>2, <3>5
    <3> QED  BY <1>8, <3>1, <3>6 DEF Sound
  <2>2. CASE u # t
    <3>1. timer'[u] = timer[u] /\ timer[u] \in Record
      BY <1>1, <2>2 DEF IInv, TypeOK
    <3>2. CallbacksOf(u)' = CallbacksOf(u)
      BY <1>5, <2>2
    <3> QED  BY <1>4, <3>1, <3>2, TimerSame DEF IInv
  <2> QED  BY <2>1, <2>2
<1>10. timer' \in [Timers -> Record]
  BY <1>1, <1>9 DEF IInv, TypeOK
<1>11. polling' \in BOOLEAN
  BY <1>1 DEF IInv, TypeOK
<1> QED  BY <1>3, <1>4, <1>9, <1>10, <1>11, Whole DEF AllSound

LEMMA TakeEventStep ==
    ASSUME IInv, TakeEvent
    PROVE  IInv'
<1> DEFINE t == Head(events)
           h == [stack EXCEPT ![Len(stack)].draining = (Top.op = "sleep")]
<1>1. /\ Top.op # "callback" /\ events # << >> /\ events' = Tail(events) /\ polling' = polling
  BY DEF TakeEvent
<1>2. /\ events' \in Seq(Timers) /\ OneEventEach' /\ t \in Timers /\ Pending(t)
      /\ \A u : Pending(u)' => Pending(u)
  BY <1>1, EventsPopped DEF IInv
<1>3. Alike(stack, h)
  BY StackFacts, TopEdited DEF IInv
<1>4. /\ timer[t] \in Record /\ CallbacksOf(t) \in Nat
      /\ Sound(timer[t], CallbacksOf(t), Pending(t))
  BY <1>2, Typed DEF IInv, AllSound
<1>5. polling' \in BOOLEAN
  BY <1>1 DEF IInv, TypeOK
<1>6. CASE Silent(t)
  <2>1. stack' = h /\ timer' = [timer EXCEPT ![t].missed = @ \/ timer[t].zero]
    BY <1>6 DEF TakeEvent
  <2>2. ShapeKept /\ \A u : CallbacksOf(u)' = CallbacksOf(u)
    BY <1>3, <2>1, StackAlike DEF IInv
  <2> DEFINE b == timer[t].missed \/ timer[t].zero
             r == [timer[t] EXCEPT !.missed = b]
  <2>3. b \in BOOLEAN /\ timer' = [timer EXCEPT ![t] = r]
    BY <2>1
  <2> HIDE DEF b, t, h
  <2>4. r \in Record /\ Sound(r, CallbacksOf(t), Pending(t))
    <3>1. Pending(t) \in BOOLEAN
      BY <1>2, Typed DEF IInv
    <3> QED  BY <1>4, <2>3, <3>1, PauseSound
  <2> HIDE DEF r
  <2>5. ASSUME NEW u \in Timers
        PROVE  timer'[u] \in Record /\ Sound(timer[u], CallbacksOf(u), Pending(u))'
    <3>1. CASE u = t
      <4>1. timer'[u] = r
        BY <1>2, <2>3, <3>1 DEF IInv, TypeOK
      <4>2. Sound(r, CallbacksOf(u), Pending(u)) /\ (Pending(u)' => Pending(u))
        BY <1>2, <2>4, <3>1
      <4>3. Pending(u) \in BOOLEAN /\ Pending(u)' \in BOOLEAN
        BY Typed DEF IInv
      <4>4. Sound(r, CallbacksOf(u), Pending(u)')
        BY <4>2, <4>3, SoundLess
      <4>5. Sound(timer'[u], CallbacksOf(u)', Pending(u)')
        BY <2>2, <4>1, <4>4
      <4> QED  BY <2>4, <4>1, <4>5 DEF Sound
    <3>2. CASE u # t
      <4>1. timer'[u] = timer[u] /\ timer[u] \in Record
        BY <2>3, <3>2 DEF IInv, TypeOK
      <4> QED  BY <1>2, <2>2, <4>1, TimerSame DEF IInv
    <3> QED  BY <3>1, <3>2
  <2>6. timer' \in [Timers -> Record]
    BY <2>3, <2>5 DEF IInv, TypeOK
  <2> QED  BY <1>2, <1>5, <2>2, <2>5, <2>6, Whole DEF AllSound
<1>7. CASE ~Silent(t)
  <2> DEFINE r == Count(Held(Called(timer[t])))
  <2>1. stack' = Append(h, Callback(t)) /\ timer' = [timer EXCEPT ![t] = r]
    BY <1>7 DEF TakeEvent
  <2>2. /\ Callback(t) \in Frame /\ Callback(t).op = "callback" /\ Callback(t).timer = t
        /\ t # None
    BY <1>2, TimersAssumption DEF Callback, Frame
  <2>3. ~timer[t].stopped
    BY <1>7 DEF Silent
  <2>4. Grown(stack, stack', Callback(t))
    BY <1>3, <2>1, <2>2, StackFacts, Pushed DEF IInv
  <2> HIDE DEF t, h
  <2>5. ShapeKept
    BY <1>1, <2>2, <2>4, GrownShape DEF IInv
  <2>6. \A u : CallbacksOf(u)' = CallbacksOf(u) + (IF t = u THEN 1 ELSE 0)
    BY <2>2, <2>4, PushStep DEF IInv
  <2>7. r \in Record /\ \A p \in BOOLEAN : Sound(r, CallbacksOf(t) + 1, p)
    <3>1. Sound(timer[t], CallbacksOf(t), TRUE)
      <4>1. Pending(t) = TRUE
        BY <1>2 DEF Pending
      <4> QED  BY <1>4, <4>1
    <3> QED  BY <1>4, <2>3, <3>1, CallSound
  <2> HIDE DEF r
  <2>8. ASSUME NEW u \in Timers
        PROVE  timer'[u] \in Record /\ Sound(timer[u], CallbacksOf(u), Pending(u))'
    <3>1. CASE u = t
      <4>1. timer'[u] = r
        BY <1>2, <2>1, <3>1 DEF IInv, TypeOK
      <4>2. Pending(u)' \in BOOLEAN
        BY Typed DEF IInv
      <4>3. Sound(timer'[u], CallbacksOf(u)', Pending(u)')
        BY <2>6, <2>7, <3>1, <4>1, <4>2
      <4> QED  BY <2>7, <4>1, <4>3 DEF Sound
    <3>2. CASE u # t
      <4>1. timer'[u] = timer[u] /\ timer[u] \in Record
        BY <2>1, <3>2 DEF IInv, TypeOK
      <4>2. CallbacksOf(u)' = CallbacksOf(u)
        BY <2>6, <3>2, Typed DEF IInv
      <4> QED  BY <1>2, <4>1, <4>2, TimerSame DEF IInv
    <3> QED  BY <3>1, <3>2
  <2>9. timer' \in [Timers -> Record]
    BY <2>1, <2>8 DEF IInv, TypeOK
  <2> QED  BY <1>2, <1>5, <2>5, <2>8, <2>9, Whole DEF AllSound
<1> QED  BY <1>6, <1>7
LEMMA UnchangedStep ==
    ASSUME IInv, UNCHANGED vars
    PROVE  IInv'
<1>1. timer' = timer /\ events' = events /\ stack' = stack /\ polling' = polling
  BY DEF vars
<1>2. ShapeKept /\ \A t : CallbacksOf(t)' = CallbacksOf(t)
  BY <1>1, StackQuiet DEF IInv
<1>3. polling' \in BOOLEAN
  BY <1>1 DEF IInv, TypeOK
<1> QED  BY <1>1, <1>2, <1>3, WaitsOnly

LEMMA InitSound ==
    ASSUME Init
    PROVE  IInv
<1> DEFINE f == [op |-> "main", timer |-> None, draining |-> FALSE]
<1>1. f \in Frame /\ f.op = "main" /\ f.timer = None
  BY DEF Frame
<1>2. stack = <<f>>
  BY DEF Init
<1> HIDE DEF f
<1>3. stack \in Seq(Frame) /\ Len(stack) = 1 /\ stack[1] = f
  BY <1>1, <1>2
<1>4. MaxNested \in Nat
  BY TimersAssumption
<1>5. StackShape
  BY <1>1, <1>3, <1>4 DEF StackShape, Top
<1>6. timer \in [Timers -> Record]
  BY NewSound DEF Init
<1>7. events \in Seq(Timers) /\ Len(events) = 0 /\ polling \in BOOLEAN
  <2>1. events = << >> /\ polling = FALSE
    BY DEF Init
  <2>2. events \in Seq(Timers) /\ Len(events) = 0
    BY <2>1
  <2>3. polling \in BOOLEAN
    BY <2>1
  <2> QED  BY <2>2, <2>3
<1>8. TypeOK
  BY <1>3, <1>4, <1>6, <1>7 DEF TypeOK
<1>9. OneEventEach
  BY <1>7 DEF OneEventEach
<1>10. ASSUME NEW t \in Timers
       PROVE  Sound(timer[t], CallbacksOf(t), Pending(t))
  <2>1. Pending(t) = FALSE
    BY <1>7 DEF Pending
  <2>2. CallbacksOf(t) = 0
    BY <1>1, <1>3, <1>8, CallbacksTyped, TimersAssumption
  <2>3. timer[t] = NewTimer
    BY DEF Init
  <2> QED  BY <2>1, <2>2, <2>3, NewSound
<1> QED  BY <1>5, <1>8, <1>9, <1>10 DEF IInv, AllSound

LEMMA NextSound ==
    ASSUME IInv, [Next]_vars
    PROVE  IInv'
<1>1. Timers \in SUBSET Timers
  OBVIOUS
<1>2. \A t \in Timers : {t} \in SUBSET Timers
  OBVIOUS
<1> QED
  BY <1>1, <1>2, TimerStartStep, TimerPauseStep, StopStep, FireStep, WaitStep, LeavePollStep,
     TakeEventStep, EndCallbackStep, UnchangedStep DEF Next

-----------------------------------------------------------------------------
(* The theorems.                                                            *)

(* Whatever scripts start, pause and stop, and however callbacks nest, the  *)
(* references of each timer are those of the map and of its callbacks.      *)
THEOREM InductiveInvariant == Spec => []IInv
<1>1. Init => IInv
  BY InitSound
<1>2. IInv /\ [Next]_vars => IInv'
  BY NextSound
<1> QED  BY <1>1, <1>2, PTL DEF Spec

(* timer_due_cb calls a timer at most as often as timer_start said, and     *)
(* time_watcher_cb never leaves it two events.                              *)
THEOREM CountsHold == Spec => []CalledInTurn
<1>1. IInv => CalledInTurn
  <2>1. SUFFICES ASSUME IInv PROVE AtMostRepeat
    BY DEF IInv, CalledInTurn
  <2>2. SUFFICES ASSUME NEW t \in Timers, timer[t].repeat # Forever
                 PROVE  timer[t].calls <= timer[t].repeat
    BY DEF AtMostRepeat
  <2>3. Sound(timer[t], CallbacksOf(t), Pending(t)) /\ timer[t] \in Record
    BY <2>1, Typed DEF IInv, AllSound
  <2>4. timer[t].left >= 0 /\ timer[t].calls + timer[t].left = timer[t].repeat
    BY <2>2, <2>3 DEF Sound
  <2>5. timer[t].calls \in Nat /\ timer[t].left \in Int
    BY <2>3, RecordFields DEF Forever
  <2> QED  BY <2>4, <2>5
<1> QED  BY <1>1, InductiveInvariant, PTL

(* timer_decref frees no timer that a callback still uses, and one whose    *)
(* handle is closed has no event left.                                      *)
THEOREM NothingUsedAfter == Spec => []TimerOutlivesUse
<1>1. IInv => TimerOutlivesUse
  <2>1. SUFFICES ASSUME IInv PROVE CallbackHasTimer /\ ClosedIsQuiet
    BY DEF TimerOutlivesUse
  <2>2. ASSUME NEW t \in Running
        PROVE  timer[t].at \in {"known", "unknown"}
    <3>1. PICK i \in 1 .. Len(stack) : stack[i].timer = t
      BY DEF Running
    <3>2. t \in Timers
      <4>1. stack[i] \in Frame
        BY <2>1 DEF IInv, TypeOK
      <4>2. t # None
        BY DEF Running
      <4> QED  BY <3>1, <4>1, <4>2 DEF Frame
    <3>3. CallbacksOf(t) # 0
      BY <2>1, <3>1, CallbacksTyped DEF IInv
    <3>4. Sound(timer[t], CallbacksOf(t), Pending(t)) /\ timer[t] \in Record
      BY <2>1, <3>2, Typed DEF IInv, AllSound
    <3>5. timer[t].at \in {"none", "known", "unknown", "freed"}
      BY <3>4, RecordFields
    <3> QED  BY <3>3, <3>4, <3>5 DEF Sound
  <2>3. ClosedIsQuiet
    <3>1. SUFFICES ASSUME NEW t \in Timers, timer[t].at \in {"unknown", "freed"}
                   PROVE  ~timer[t].armed /\ ~Pending(t)
      BY DEF ClosedIsQuiet, Pending
    <3>2. Sound(timer[t], CallbacksOf(t), Pending(t))
      BY <2>1, <3>1 DEF IInv, AllSound
    <3> QED  BY <3>1, <3>2 DEF Sound
  <2> QED  BY <2>2, <2>3 DEF CallbackHasTimer
<1> QED  BY <1>1, InductiveInvariant, PTL

(* After timer_stop no callback of the timer begins, whatever it has in the *)
(* queue.                                                                   *)
THEOREM SilentOnceStopped == Spec => StoppedIsSilent
<1>1. ASSUME IInv, [Next]_vars, NEW t \in Timers, timer[t].stopped
      PROVE  CallbacksOf(t)' <= CallbacksOf(t)
  <2> USE <1>1 DEF IInv
  <2>1. CallbacksOf(t) \in Nat /\ CallbacksOf(t)' \in Nat
    <3>1. IInv'
      BY NextSound
    <3> QED  BY <3>1, Typed, CountTyped DEF TypeOK, CallbacksOf, OfTimer
  <2>2. CASE stack' = stack
    BY <2>1, <2>2, StackQuiet
  <2>3. CASE Poll
    <3>1. Alike(stack, stack')
      BY <2>3, StackFacts, TopEdited DEF Poll
    <3> QED  BY <2>1, <3>1, StackAlike
  <2>4. CASE StartSleep
    <3>1. Sleep \in Frame /\ Sleep.timer = None
      BY DEF Sleep, Frame
    <3>2. Grown(stack, stack', Sleep)
      BY <2>4, <3>1, StackFacts, Pushed DEF StartSleep, Alike
    <3>3. t # None
      BY TimersAssumption
    <3> QED  BY <2>1, <3>1, <3>2, <3>3, PushStep
  <2>5. CASE EndSleep \/ EndCallback
    <3>1. stack' = Below /\ Len(stack) >= 2
      BY <2>5, StackFacts DEF EndSleep, EndCallback
    <3> QED  BY <2>1, <3>1, PopStep
  <2>6. CASE TakeEvent
    <3> DEFINE h == [stack EXCEPT ![Len(stack)].draining = (Top.op = "sleep")]
               e == Head(events)
    <3>1. Alike(stack, h)
      BY StackFacts, TopEdited
    <3>2. CASE Silent(e)
      <4>1. Alike(stack, stack')
        BY <2>6, <3>1, <3>2 DEF TakeEvent
      <4> QED  BY <2>1, <4>1, StackAlike
    <3>3. CASE ~Silent(e)
      <4>1. e \in Timers /\ e # t
        BY <2>6, <3>3, EventsPopped DEF TakeEvent, Silent
      <4>2. Callback(e) \in Frame /\ Callback(e).timer = e
        BY <4>1 DEF Callback, Frame
      <4>3. stack' = Append(h, Callback(e))
        BY <2>6, <3>3 DEF TakeEvent
      <4> HIDE DEF h, e
      <4>4. Grown(stack, stack', Callback(e))
        BY <3>1, <4>2, <4>3, StackFacts, Pushed
      <4> QED  BY <2>1, <4>1, <4>2, <4>4, PushStep
    <3> QED  BY <3>2, <3>3
  <2> QED
    BY <2>2, <2>3, <2>4, <2>5, <2>6
       DEF Next, TimerStart, TimerPause, Stop, Fire, LeavePoll, vars
<1>2. IInv /\ [Next]_vars => [\A t \in Timers : timer[t].stopped => CallbacksOf(t)' <= CallbacksOf(t)]_vars
  BY <1>1
<1> QED  BY <1>2, InductiveInvariant, PTL DEF Spec, StoppedIsSilent
==============================================================================

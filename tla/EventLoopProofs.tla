--------------------------- MODULE EventLoopProofs ---------------------------
(* The safety properties of the event loop, for any number of threads,      *)
(* child queues, events and nested waits.                                   *)
EXTENDS EventLoop, FiniteSetTheorems, SequenceTheorems, TLAPS

-----------------------------------------------------------------------------
(* The inductive invariant.                                                 *)

(* Only the frame on top polls, and while it does uv_run is entered. The    *)
(* outermost frame is the editor's own wait.                                *)
StackShape ==
    /\ Len(stack) >= 1
    /\ stack[Len(stack)].kind = "wait"
    /\ \A i \in 2 .. Len(stack) : stack[i].kind # "poll"
    /\ recursive = IF stack[1].kind = "poll" THEN 1 ELSE 0

(* The thread that is in loop_schedule has the mutex, and an event left if  *)
(* it is to put one.                                                        *)
MutexHeld ==
    \A t \in Threads : /\ pc[t] # "idle" <=> mutex = t
                       /\ pc[t] = "put" => alloc < MaxEvents

(* The poll on top has not run the callbacks of the sources yet.            *)
Before == {"enter", "timers", "block", "ready", "async_cb"}
Polls == stack[1].kind = "poll" /\ stack[1].at \in Before

(* Until something stops it, a poll serves a wait that has nothing to read. *)
WaitServed ==
    Polls => stop \/ stack[2].reads = "none" \/ Visible(stack[2].reads) = {}

(* A fast event is drained, now or after the poll it has stopped.           *)
FastDrained == Visible("fast") = {} \/ stop \/ DrainSuspended("fast")

(* What lets the owner sleep: no wake-up is lost, the wait it polls for has *)
(* nothing to read, and the fast events are drained.                        *)
Awake ==
    /\ NoLostWakeup
    /\ WaitServed
    /\ FastDrained

(* Each event is in one place, and once there.                              *)
Waiting == {queue[i].event : i \in 1 .. Len(queue)}
Kept == {threadEvents[i] : i \in 1 .. Len(threadEvents)}
Gone == {started[i] : i \in 1 .. Len(started)}

Apart ==
    /\ \A i, j \in 1 .. Len(threadEvents) : threadEvents[i] = threadEvents[j] => i = j
    /\ \A i, j \in 1 .. Len(queue) : queue[i].event = queue[j].event => i = j
    /\ \A i, j \in 1 .. Len(started) : started[i] = started[j] => i = j
    /\ Kept \cap Waiting = {} /\ Kept \cap Gone = {} /\ Waiting \cap Gone = {}
    /\ lost \cap (Kept \cup Waiting \cup Gone) = {}
    /\ lost \cup Kept \cup Waiting \cup Gone = 1 .. alloc

(* An event is at home in the queue it was put on, one of a thread in       *)
(* fast_events; of the events of one origin the older is further on.        *)
Home(o) == IF o = "thread" THEN "fast" ELSE o

Ordered ==
    /\ \A i \in 1 .. Len(threadEvents) : origin[threadEvents[i]] = "thread"
    /\ \A i \in 1 .. Len(queue) : queue[i].home = Home(origin[queue[i].event])
    /\ \A i, j \in 1 .. Len(threadEvents) : i < j => threadEvents[i] < threadEvents[j]
    /\ \A i, j \in 1 .. Len(queue) :
          i < j /\ origin[queue[i].event] = origin[queue[j].event]
            => queue[i].event < queue[j].event
    /\ \A i \in 1 .. Len(queue), j \in 1 .. Len(threadEvents) :
          origin[queue[i].event] = "thread" => queue[i].event < threadEvents[j]
    /\ \A i \in 1 .. Len(started), j \in 1 .. Len(threadEvents) :
          origin[started[i]] = "thread" => started[i] < threadEvents[j]
    /\ \A i \in 1 .. Len(started), j \in 1 .. Len(queue) :
          origin[started[i]] = origin[queue[j].event] => started[i] < queue[j].event
    /\ StartedInOrder

Structure == TypeOK /\ StackShape /\ MutexHeld
IInv == Structure /\ Awake /\ Apart /\ Ordered

-----------------------------------------------------------------------------
(* Sequences.                                                               *)

(* The stack with its top replaced, pushed on, or popped.                   *)
LEMMA Replaced ==
    ASSUME NEW S, NEW s \in Seq(S), Len(s) >= 1, NEW f \in S
    PROVE  LET r == <<f>> \o Tail(s)
           IN  /\ r \in Seq(S) /\ Len(r) = Len(s) /\ r[1] = f
               /\ \A i \in 2 .. Len(s) : r[i] = s[i]
  OBVIOUS

LEMMA Replaced2 ==
    ASSUME NEW S, NEW s \in Seq(S), Len(s) >= 1, NEW f \in S, NEW g \in S
    PROVE  LET r == <<f, g>> \o Tail(s)
           IN  /\ r \in Seq(S) /\ Len(r) = Len(s) + 1 /\ r[1] = f /\ r[2] = g
               /\ \A i \in 2 .. Len(s) : r[i + 1] = s[i]
  OBVIOUS

LEMMA Pushed ==
    ASSUME NEW S, NEW s \in Seq(S), NEW f \in S
    PROVE  LET r == <<f>> \o s
           IN  /\ r \in Seq(S) /\ Len(r) = Len(s) + 1 /\ r[1] = f
               /\ \A i \in 1 .. Len(s) : r[i + 1] = s[i]
  OBVIOUS

LEMMA Pushed2 ==
    ASSUME NEW S, NEW s \in Seq(S), NEW f \in S, NEW g \in S
    PROVE  LET r == <<f, g>> \o s
           IN  /\ r \in Seq(S) /\ Len(r) = Len(s) + 2 /\ r[1] = f /\ r[2] = g
               /\ \A i \in 1 .. Len(s) : r[i + 2] = s[i]
  OBVIOUS

LEMMA Popped ==
    ASSUME NEW S, NEW s \in Seq(S), Len(s) >= 1
    PROVE  /\ Tail(s) \in Seq(S) /\ Len(Tail(s)) = Len(s) - 1
           /\ Head(s) = s[1]
           /\ \A i \in 1 .. Len(s) - 1 : Tail(s)[i] = s[i + 1]
  OBVIOUS

LEMMA Removed ==
    ASSUME NEW S, NEW s \in Seq(S), NEW i \in 1 .. Len(s)
    PROVE  /\ RemoveAt(s, i) \in Seq(S)
           /\ Len(RemoveAt(s, i)) = Len(s) - 1
           /\ \A k \in 1 .. Len(s) - 1 :
                 RemoveAt(s, i)[k] = IF k < i THEN s[k] ELSE s[k + 1]
<1> DEFINE u == SubSeq(s, 1, i - 1)
           v == SubSeq(s, i + 1, Len(s))
<1>1. /\ u \in Seq(S) /\ Len(u) = i - 1
      /\ \A k \in 1 .. i - 1 : u[k] = s[k]
  OBVIOUS
<1>2. /\ v \in Seq(S) /\ Len(v) = Len(s) - i
      /\ \A k \in 1 .. Len(s) - i : v[k] = s[i + k]
  OBVIOUS
<1>3. RemoveAt(s, i) = u \o v
  BY DEF RemoveAt
<1> HIDE DEF u, v
<1>4. /\ u \o v \in Seq(S) /\ Len(u \o v) = Len(s) - 1
  BY <1>1, <1>2
<1>5. ASSUME NEW k \in 1 .. Len(s) - 1
      PROVE  (u \o v)[k] = IF k < i THEN s[k] ELSE s[k + 1]
  BY <1>1, <1>2
<1> QED  BY <1>3, <1>4, <1>5

-----------------------------------------------------------------------------
(* What a step does to the stack.                                           *)

Turns(f) ==   \* the frame on top goes on
    /\ f \in Frame /\ f.kind = stack[1].kind /\ f.reads = stack[1].reads
    /\ stack' = <<f>> \o Tail(stack) /\ recursive' = recursive
Calls(f, g) ==   \* it goes on when f is done
    /\ f \in Frame /\ g \in Frame /\ g.kind = stack[1].kind /\ g.reads = stack[1].reads
    /\ stack[1].kind # "poll"
    /\ stack' = <<f, g>> \o Tail(stack)
    /\ recursive' = IF f.kind = "poll" THEN recursive + 1 ELSE recursive
Leaves(f) ==   \* the poll goes on as a drain
    /\ f \in Frame /\ f.kind = "drain" /\ stack[1].kind = "poll"
    /\ stack' = <<f>> \o Tail(stack) /\ recursive' = recursive - 1
Handles(f) ==   \* an event is handled, above the drain
    /\ f \in Frame /\ f.kind = "handler" /\ stack[1].kind # "poll"
    /\ stack' = <<f>> \o stack /\ recursive' = recursive
Exits(f, g) ==
    /\ f \in Frame /\ g \in Frame /\ {f.kind, g.kind} \subseteq {"drain", "exit"}
    /\ stack[1].kind # "poll"
    /\ stack' = <<f, g>> \o stack /\ recursive' = recursive
Ends ==
    /\ stack[1].kind # "poll" /\ (stack[1].kind = "wait" => Len(stack) > 1)
    /\ stack' = Tail(stack) /\ recursive' = recursive

StackStep ==
    \/ stack' = stack /\ recursive' = recursive
    \/ \E f \in Frame : Turns(f) \/ Leaves(f) \/ Handles(f)
    \/ \E f, g \in Frame : Calls(f, g) \/ Exits(f, g)
    \/ Ends

LEMMA StackSteps ==
    ASSUME TypeOK, StackShape, [Next]_vars
    PROVE  StackStep
<1> DEFINE h == Head(stack)
<1>1. h = stack[1] /\ h \in Frame /\ Len(stack) >= 1 /\ recursive \in Nat
  BY Popped DEF TypeOK, StackShape
<1> HIDE DEF h
<1>2. ASSUME NEW at \in Places
      PROVE  /\ [h EXCEPT !.at = at] \in Frame
             /\ [h EXCEPT !.at = at].kind = h.kind
             /\ [h EXCEPT !.at = at].reads = h.reads
  BY <1>1 DEF Frame
<1>3. ASSUME NEW at \in Places, GoTo(at), recursive' = recursive
      PROVE  StackStep
  BY <1>1, <1>2, <1>3 DEF GoTo, StackStep, Turns, h
<1>4. CASE TakeTurn
  <2>1. h.kind = "wait" /\ [h EXCEPT !.at = "turned"] \in Frame
    BY <1>1, <1>2, <1>4 DEF TakeTurn, Running, Places, h
  <2>2. h.reads \in Waited /\ h.mode \in Modes
    BY <1>1 DEF Frame
  <2>3. Drain(h.reads) \in Frame /\ Poll(h.mode) \in Frame
    BY <2>2 DEF Frame, Drain, Poll, Waited, Modes, Places
  <2>4. \/ /\ stack' = <<Drain(h.reads), [h EXCEPT !.at = "turned"]>> \o Tail(stack)
           /\ recursive' = recursive
        \/ /\ stack' = <<Poll(h.mode), [h EXCEPT !.at = "turned"]>> \o Tail(stack)
           /\ recursive' = recursive + 1
    BY <1>4 DEF TakeTurn, Enter, h
  <2>5. Drain(h.reads).kind = "drain" /\ Poll(h.mode).kind = "poll"
    BY DEF Drain, Poll
  <2>6. /\ [h EXCEPT !.at = "turned"].kind = h.kind
        /\ [h EXCEPT !.at = "turned"].reads = h.reads
    BY <1>2 DEF Places
  <2>7. \E f, g \in Frame : Calls(f, g)
    BY <1>1, <2>1, <2>3, <2>4, <2>5, <2>6 DEF Calls
  <2> QED  BY <2>7 DEF StackStep
<1>5. CASE EndWait \/ EndDrain \/ HandlerReturns
  BY <1>1, <1>5 DEF EndWait, EndDrain, HandlerReturns, Handling, Running, Return,
     OnlyStack, StackStep, Ends, h
<1>6. CASE Run \/ EndTimers \/ WakeUp \/ InputArrives
  BY <1>3, <1>6 DEF Run, EndTimers, WakeUp, InputArrives, OnlyStack, Places
<1>7. CASE TakeAsync \/ AsyncCb
  BY <1>3, <1>7 DEF TakeAsync, AsyncCb, Places
<1>8. CASE LeavePoll
  <2>1. Drain("fast") \in Frame
    BY DEF Drain, Frame, Waited, Homes, Modes, Places
  <2>2. Leaves(Drain("fast"))
    BY <1>1, <1>8, <2>1 DEF LeavePoll, Leaves, Running, Drain, h
  <2> QED  BY <2>1, <2>2 DEF StackStep
<1>9. CASE Process
  <2>1. Handler \in Frame
    BY DEF Handler, Frame, Waited, Modes, Places
  <2>2. Handles(Handler)
    BY <1>1, <1>9, <2>1 DEF Process, Call, Handles, Running, Handler, h
  <2> QED  BY <2>1, <2>2 DEF StackStep
<1>10. CASE BeginExit
  <2>1. Drain("root") \in Frame /\ Exit \in Frame
    BY DEF Drain, Exit, Frame, Waited, Homes, Modes, Places
  <2>2. Exits(Drain("root"), Exit)
    BY <1>1, <1>10, <2>1 DEF BeginExit, Exits, Handling, Running, OnlyStack, Drain, Exit, h
  <2> QED  BY <2>1, <2>2 DEF StackStep
<1>11. CASE WaitForChildren
  <2>1. /\ Wait("root", "block") \in Frame
        /\ [h EXCEPT !.at = "close"] \in Frame
        /\ [h EXCEPT !.at = "close"].kind = h.kind
        /\ [h EXCEPT !.at = "close"].reads = h.reads
    BY <1>2 DEF Wait, Frame, Waited, Homes, Modes, Places
  <2>2. Calls(Wait("root", "block"), [h EXCEPT !.at = "close"])
    BY <1>1, <1>11, <2>1 DEF WaitForChildren, Calls, Running, OnlyStack, Wait, h
  <2> QED  BY <2>1, <2>2 DEF StackStep
<1>12. ASSUME NEW q \in Waited \ {"fast"}, NEW m \in Modes, BeginWait(q, m)
       PROVE  StackStep
  <2>1. /\ Wait(q, m) \in Frame
        /\ [h EXCEPT !.at = "waited"] \in Frame
        /\ [h EXCEPT !.at = "waited"].kind = h.kind
        /\ [h EXCEPT !.at = "waited"].reads = h.reads
    BY <1>2 DEF Wait, Frame, Places
  <2>2. Calls(Wait(q, m), [h EXCEPT !.at = "waited"])
    BY <1>1, <1>12, <2>1 DEF BeginWait, Calls, Running, OnlyStack, Wait, h
  <2> QED  BY <2>1, <2>2 DEF StackStep
<1>13. CASE HandlerSchedule \/ Purge \/ Close
  BY <1>13 DEF HandlerSchedule, Purge, Close, StackStep, ownerVars
<1>14. ASSUME NEW q, Callback(q) \/ HandlerPut(q)
       PROVE  StackStep
  BY <1>14 DEF Callback, HandlerPut, StackStep, ownerVars
<1>15. ASSUME NEW t \in Threads, Lock(t) \/ Schedule(t)
       PROVE  StackStep
  BY <1>15 DEF Lock, Schedule, ThreadPut, Send, Unlock, StackStep, ownerVars
<1>16. CASE UNCHANGED vars
  BY <1>16 DEF vars, StackStep
<1> QED
  BY <1>4, <1>5, <1>6, <1>7, <1>8, <1>9, <1>10, <1>11, <1>12, <1>13, <1>14, <1>15, <1>16
     DEF Next, OwnerStep

(* The stack keeps its shape.                                               *)
LEMMA StackKept ==
    ASSUME TypeOK, StackShape, StackStep
    PROVE  stack' \in Seq(Frame) /\ recursive' \in Nat /\ StackShape'
<1> stack \in Seq(Frame) /\ Len(stack) >= 1 /\ Len(stack) \in Nat /\ recursive \in Nat
  BY DEF TypeOK, StackShape
<1>1. CASE stack' = stack /\ recursive' = recursive
  BY <1>1 DEF StackShape
<1>2. ASSUME NEW f \in Frame, Turns(f)
      PROVE  stack' \in Seq(Frame) /\ recursive' \in Nat /\ StackShape'
  <2>1. /\ stack' \in Seq(Frame) /\ Len(stack') = Len(stack) /\ stack'[1] = f
        /\ \A i \in 2 .. Len(stack) : stack'[i] = stack[i]
    BY <1>2, Replaced DEF Turns
  <2> QED  BY <1>2, <2>1 DEF Turns, StackShape
<1>3. ASSUME NEW f \in Frame, Leaves(f)
      PROVE  stack' \in Seq(Frame) /\ recursive' \in Nat /\ StackShape'
  <2>1. /\ stack' \in Seq(Frame) /\ Len(stack') = Len(stack) /\ stack'[1] = f
        /\ \A i \in 2 .. Len(stack) : stack'[i] = stack[i]
    BY <1>3, Replaced DEF Leaves
  <2> QED  BY <1>3, <2>1 DEF Leaves, StackShape
<1>4. ASSUME NEW f \in Frame, Handles(f)
      PROVE  stack' \in Seq(Frame) /\ recursive' \in Nat /\ StackShape'
  <2>1. /\ stack' \in Seq(Frame) /\ Len(stack') = Len(stack) + 1 /\ stack'[1] = f
        /\ \A i \in 1 .. Len(stack) : stack'[i + 1] = stack[i]
    BY <1>4, Pushed DEF Handles
  <2>2. \A i \in 2 .. Len(stack') : stack'[i] = stack[i - 1]
    BY <2>1
  <2>3. \A i \in 2 .. Len(stack') : stack'[i].kind # "poll"
    BY <1>4, <2>1, <2>2 DEF Handles, StackShape
  <2> QED  BY <1>4, <2>1, <2>3 DEF Handles, StackShape
<1>5. ASSUME NEW f \in Frame, NEW g \in Frame, Calls(f, g)
      PROVE  stack' \in Seq(Frame) /\ recursive' \in Nat /\ StackShape'
  <2>1. /\ stack' \in Seq(Frame) /\ Len(stack') = Len(stack) + 1
        /\ stack'[1] = f /\ stack'[2] = g
        /\ \A i \in 2 .. Len(stack) : stack'[i + 1] = stack[i]
    BY <1>5, Replaced2 DEF Calls
  <2>2. \A i \in 3 .. Len(stack') : stack'[i] = stack[i - 1]
    BY <2>1
  <2>3. \A i \in 2 .. Len(stack') : stack'[i].kind # "poll"
    <3>1. stack'[2].kind # "poll"
      BY <1>5, <2>1 DEF Calls
    <3>2. \A i \in 3 .. Len(stack') : stack'[i].kind # "poll"
      BY <2>1, <2>2 DEF StackShape
    <3>3. \A i \in 2 .. Len(stack') : i = 2 \/ i \in 3 .. Len(stack')
      BY <2>1
    <3> QED  BY <3>1, <3>2, <3>3
  <2>4. stack'[Len(stack')].kind = "wait"
    BY <1>5, <2>1, <2>2 DEF Calls, StackShape
  <2> QED  BY <1>5, <2>1, <2>3, <2>4 DEF Calls, StackShape
<1>6. ASSUME NEW f \in Frame, NEW g \in Frame, Exits(f, g)
      PROVE  stack' \in Seq(Frame) /\ recursive' \in Nat /\ StackShape'
  <2>1. /\ stack' \in Seq(Frame) /\ Len(stack') = Len(stack) + 2
        /\ stack'[1] = f /\ stack'[2] = g
        /\ \A i \in 1 .. Len(stack) : stack'[i + 2] = stack[i]
    BY <1>6, Pushed2 DEF Exits
  <2>2. \A i \in 3 .. Len(stack') : stack'[i] = stack[i - 2]
    BY <2>1
  <2>3. \A i \in 2 .. Len(stack') : stack'[i].kind # "poll"
    <3>1. stack'[2].kind # "poll"
      BY <1>6, <2>1 DEF Exits
    <3>2. \A i \in 3 .. Len(stack') : stack'[i].kind # "poll"
      <4>1. \A i \in 1 .. Len(stack) : stack[i].kind # "poll"
        BY <1>6 DEF Exits, StackShape
      <4> QED  BY <2>1, <2>2, <4>1
    <3>3. \A i \in 2 .. Len(stack') : i = 2 \/ i \in 3 .. Len(stack')
      BY <2>1
    <3> QED  BY <3>1, <3>2, <3>3
  <2> QED  BY <1>6, <2>1, <2>2, <2>3 DEF Exits, StackShape
<1>7. CASE Ends
  <2>1. Len(stack) > 1
    BY <1>7 DEF Ends, StackShape
  <2>2. /\ stack' \in Seq(Frame) /\ Len(stack') = Len(stack) - 1
        /\ \A i \in 1 .. Len(stack) - 1 : stack'[i] = stack[i + 1]
    BY <1>7, Popped DEF Ends
  <2> QED  BY <1>7, <2>1, <2>2 DEF Ends, StackShape
<1> QED  BY <1>1, <1>2, <1>3, <1>4, <1>5, <1>6, <1>7 DEF StackStep

-----------------------------------------------------------------------------
(* What a step does to the events.                                          *)

PutsOn(home) ==
    /\ home \in Homes /\ Room /\ NewEvent(home)
    /\ queue' = Append(queue, [home |-> home, event |-> alloc + 1])
    /\ UNCHANGED <<threadEvents, started, lost>>
PutsBehind ==
    /\ alloc < MaxEvents /\ NewEvent("thread")
    /\ threadEvents' = Append(threadEvents, alloc + 1)
    /\ UNCHANGED <<queue, started, lost>>
Moves ==
    /\ threadEvents' = << >> /\ queue' = queue \o Moved(threadEvents)
    /\ UNCHANGED <<alloc, origin, started, lost>>
Starts(i) ==
    /\ \E q : Sees(q, queue[i]) /\ \A j \in 1 .. i - 1 : ~Sees(q, queue[j])
    /\ queue' = RemoveAt(queue, i)
    /\ started' = Append(started, queue[i].event)
    /\ UNCHANGED <<threadEvents, alloc, origin, lost>>
Purges ==
    /\ threadEvents' = << >>
    /\ queue' \in Selections(queue, {i \in DOMAIN queue : queue[i].home # "fast"})
    /\ lost' = lost \cup Range(threadEvents) \cup Visible("fast")
    /\ UNCHANGED <<alloc, origin, started>>
Frees ==
    /\ threadEvents' = << >> /\ queue' = << >>
    /\ lost' = lost \cup Range(threadEvents) \cup Range(EventsOf(queue))
    /\ UNCHANGED <<alloc, origin, started>>

EventStep ==
    \/ UNCHANGED <<threadEvents, queue, alloc, origin, started, lost>>
    \/ \E home \in Homes : PutsOn(home)
    \/ PutsBehind
    \/ Moves
    \/ \E i \in 1 .. Len(queue) : Starts(i)
    \/ Purges
    \/ Frees

LEMMA EventSteps ==
    ASSUME TypeOK, MutexHeld, [Next]_vars
    PROVE  EventStep
<1>1. CASE TakeTurn \/ EndWait \/ Run \/ EndTimers \/ WakeUp \/ InputArrives \/ TakeAsync
           \/ LeavePoll \/ EndDrain \/ HandlerReturns \/ BeginExit \/ WaitForChildren
  BY <1>1 DEF TakeTurn, EndWait, Run, EndTimers, WakeUp, InputArrives, TakeAsync, LeavePoll,
     EndDrain, HandlerReturns, BeginExit, WaitForChildren, OnlyStack, queueVars, EventStep
<1>2. ASSUME NEW q, NEW m, BeginWait(q, m)
      PROVE  EventStep
  BY <1>2 DEF BeginWait, OnlyStack, queueVars, EventStep
<1>3. CASE AsyncCb
  <2>1. SubSeq(threadEvents, Len(threadEvents) + 1, Len(threadEvents)) = << >>
    <3>1. Len(threadEvents) \in Nat
      BY DEF TypeOK
    <3> QED  BY <3>1, SubSeqEmpty
  <2> QED  BY <1>3, <2>1 DEF AsyncCb, Taken, EventStep, Moves
<1>4. CASE Process
  <2>1. PICK i \in 1 .. Len(queue) :
           /\ Sees(Head(stack).reads, queue[i])
           /\ \A j \in 1 .. i - 1 : ~Sees(Head(stack).reads, queue[j])
           /\ queue' = RemoveAt(queue, i)
           /\ started' = Append(started, queue[i].event)
    BY <1>4 DEF Process
  <2>2. Starts(i)
    BY <1>4, <2>1 DEF Process, Starts
  <2> QED  BY <2>2 DEF EventStep
<1>5. CASE Purge \/ Close
  BY <1>5 DEF Purge, Close, Purges, Frees, EventStep
<1>6. CASE HandlerSchedule
  <2>1. alloc < MaxEvents
    BY <1>6, LoopAssumption DEF HandlerSchedule, Room, TypeOK
  <2> QED  BY <1>6, <2>1 DEF HandlerSchedule, PutsBehind, EventStep
<1>7. ASSUME NEW home \in Homes, Callback(home) \/ HandlerPut(home)
      PROVE  EventStep
  <2>1. PutsOn(home)
    BY <1>7 DEF Callback, HandlerPut, PutEvent, PutsOn
  <2> QED  BY <2>1 DEF EventStep
<1>8. ASSUME NEW t \in Threads, Lock(t) \/ Send(t) \/ Unlock(t)
      PROVE  EventStep
  BY <1>8 DEF Lock, Send, Unlock, queueVars, EventStep
<1>9. ASSUME NEW t \in Threads, ThreadPut(t)
      PROVE  EventStep
  <2>1. PutsBehind
    BY <1>9 DEF ThreadPut, MutexHeld, PutsBehind
  <2> QED  BY <2>1 DEF EventStep
<1>10. CASE UNCHANGED vars
  BY <1>10 DEF vars, EventStep
<1> QED
  BY <1>1, <1>2, <1>3, <1>4, <1>5, <1>6, <1>7, <1>8, <1>9, <1>10
     DEF Next, OwnerStep, Schedule, Homes

(* The part of TypeOK about the events.                                     *)
EventsTyped ==
    /\ threadEvents \in Seq(Event)
    /\ queue \in Seq([home : Homes, event : Event])
    /\ alloc \in 0 .. MaxEvents
    /\ origin \in [Event -> Homes \cup {"thread", "none"}]
    /\ started \in Seq(Event)
    /\ lost \subseteq Event

LEMMA QueueTyped ==
    ASSUME EventsTyped
    PROVE  /\ Len(queue) \in Nat
           /\ \A i \in 1 .. Len(queue) : /\ queue[i] \in [home : Homes, event : Event]
                                        /\ queue[i].home \in Homes
                                        /\ queue[i].event \in Event
<1> DEFINE T == [home : Homes, event : Event]
<1>1. queue \in Seq(T)
  BY DEF EventsTyped
<1>2. \A m \in T : m.home \in Homes /\ m.event \in Event
  OBVIOUS
<1> HIDE DEF T
<1>3. \A i \in 1 .. Len(queue) : queue[i] \in T
  BY <1>1
<1>4. Len(queue) \in Nat
  BY <1>1
<1> QED  BY <1>2, <1>3, <1>4 DEF T

(* The queue after a purge: what is not for fast_events, in its order.      *)
LEMMA PurgedQueue ==
    ASSUME EventsTyped, Purges
    PROVE  /\ queue' \in Seq([home : Homes, event : Event])
           /\ \E f \in [1 .. Len(queue') -> Nat] :
                 /\ \A k \in 1 .. Len(queue') :
                       f[k] \in 1 .. Len(queue) /\ queue[f[k]].home # "fast" /\ queue'[k] = queue[f[k]]
                 /\ \A k, l \in 1 .. Len(queue') : k < l => f[k] < f[l]
                 /\ \A i \in 1 .. Len(queue) :
                       queue[i].home # "fast" => \E k \in 1 .. Len(queue') : f[k] = i
<1> DEFINE I == {i \in DOMAIN queue : queue[i].home # "fast"}
           T == [home : Homes, event : Event]
<1>1. queue' \in Selections(queue, I) /\ queue \in Seq(T)
  BY DEF Purges, EventsTyped
<1>2. DOMAIN queue = 1 .. Len(queue)
  BY <1>1
<1>3. \A i : i \in I <=> i \in 1 .. Len(queue) /\ queue[i].home # "fast"
  BY <1>2
<1> HIDE DEF I, T
<1>4. Cardinality(I) \in Nat
  <2>1. I \in SUBSET (1 .. Len(queue)) /\ Len(queue) \in Int /\ 1 \in Int
    BY <1>1, <1>3
  <2>2. IsFiniteSet(1 .. Len(queue))
    BY <2>1, FS_Interval, Zenon
  <2>3. IsFiniteSet(I)
    BY <2>1, <2>2, FS_Subset, Zenon
  <2> QED  BY <2>3, FS_CardinalityType, Zenon
<1>5. PICK f \in Ascending(I) : queue' = [k \in DOMAIN f |-> queue[f[k]]]
  BY <1>1 DEF Selections
<1>6. /\ f \in [1 .. Cardinality(I) -> I] /\ DOMAIN f = 1 .. Cardinality(I)
      /\ \A k, l \in 1 .. Cardinality(I) : k < l => f[k] < f[l]
      /\ \A i \in I : \E k \in 1 .. Cardinality(I) : f[k] = i
  BY DEF Ascending
<1>7. queue' \in Seq(T) /\ Len(queue') = Cardinality(I)
  <2>1. \A k \in 1 .. Cardinality(I) : queue[f[k]] \in T
    BY <1>1, <1>3, <1>6
  <2> QED  BY <1>4, <1>5, <1>6, <2>1
<1>8. f \in [1 .. Len(queue') -> Nat]
  BY <1>1, <1>3, <1>6, <1>7
<1>9. /\ \A k \in 1 .. Len(queue') :
            f[k] \in 1 .. Len(queue) /\ queue[f[k]].home # "fast" /\ queue'[k] = queue[f[k]]
      /\ \A k, l \in 1 .. Len(queue') : k < l => f[k] < f[l]
      /\ \A i \in 1 .. Len(queue) :
            queue[i].home # "fast" => \E k \in 1 .. Len(queue') : f[k] = i
  BY <1>3, <1>5, <1>6, <1>7
<1>10. queue' \in Seq([home : Homes, event : Event])
  BY <1>7 DEF T
<1> QED  BY <1>8, <1>9, <1>10

(* The queue when the events of other threads are moved to it.              *)
LEMMA MovedQueue ==
    ASSUME EventsTyped, Moves
    PROVE  /\ queue' \in Seq([home : Homes, event : Event])
           /\ Len(queue') = Len(queue) + Len(threadEvents)
           /\ \A i \in 1 .. Len(queue) : queue'[i] = queue[i]
           /\ \A i \in 1 .. Len(threadEvents) :
                 queue'[Len(queue) + i] = [home |-> "fast", event |-> threadEvents[i]]
<1> DEFINE T == [home : Homes, event : Event]
           m == Moved(threadEvents)
<1>1. /\ m \in Seq(T) /\ Len(m) = Len(threadEvents)
      /\ \A i \in 1 .. Len(threadEvents) : m[i] = [home |-> "fast", event |-> threadEvents[i]]
  BY DEF Moved, EventsTyped, Homes
<1>2. queue \in Seq(T) /\ queue' = queue \o m
  BY DEF EventsTyped, Moves
<1> HIDE DEF m, T
<1>3. queue' \in Seq(T) /\ Len(queue') = Len(queue) + Len(m)
  BY <1>1, <1>2, ConcatProperties
<1>4. \A i \in 1 .. Len(queue) : queue'[i] = queue[i]
  BY <1>1, <1>2
<1>5. ASSUME NEW i \in 1 .. Len(m)
      PROVE  queue'[Len(queue) + i] = m[i]
  BY <1>1, <1>2
<1> QED  BY <1>1, <1>3, <1>4, <1>5 DEF T

LEMMA EventsKept ==
    ASSUME EventsTyped, EventStep
    PROVE  EventsTyped'
<1> USE LoopAssumption
<1>1. CASE UNCHANGED <<threadEvents, queue, alloc, origin, started, lost>>
  BY <1>1 DEF EventsTyped
<1>2. ASSUME NEW home \in Homes, PutsOn(home)
      PROVE  EventsTyped'
  <2>1. alloc + 1 \in 1 .. MaxEvents
    BY <1>2 DEF PutsOn, Room, EventsTyped
  <2> alloc + 1 \in Event
    BY <2>1 DEF Event
  <2>2. [home |-> home, event |-> alloc + 1] \in [home : Homes, event : Event]
    BY <2>1
  <2>3. queue' \in Seq([home : Homes, event : Event])
    BY <1>2, <2>2 DEF PutsOn, EventsTyped
  <2>4. origin' \in [Event -> Homes \cup {"thread", "none"}]
    BY <1>2 DEF PutsOn, NewEvent, EventsTyped
  <2> QED  BY <1>2, <2>1, <2>3, <2>4 DEF PutsOn, NewEvent, EventsTyped
<1>3. CASE PutsBehind
  <2>1. alloc + 1 \in 1 .. MaxEvents
    BY <1>3 DEF PutsBehind, EventsTyped
  <2> alloc + 1 \in Event
    BY <2>1 DEF Event
  <2>2. threadEvents' \in Seq(Event)
    BY <1>3, <2>1 DEF PutsBehind, EventsTyped
  <2>3. origin' \in [Event -> Homes \cup {"thread", "none"}]
    BY <1>3 DEF PutsBehind, NewEvent, EventsTyped
  <2> QED  BY <1>3, <2>1, <2>2, <2>3 DEF PutsBehind, NewEvent, EventsTyped
<1>4. CASE Moves
  <2>1. queue' \in Seq([home : Homes, event : Event])
    BY <1>4, MovedQueue
  <2>2. << >> \in Seq(Event)
    OBVIOUS
  <2> QED  BY <1>4, <2>1, <2>2 DEF Moves, EventsTyped
<1>5. ASSUME NEW i \in 1 .. Len(queue), Starts(i)
      PROVE  EventsTyped'
  <2>1. queue[i].event \in Event
    BY QueueTyped
  <2>2. queue' \in Seq([home : Homes, event : Event])
    BY <1>5, Removed DEF Starts, EventsTyped
  <2>3. started' \in Seq(Event)
    BY <1>5, <2>1 DEF Starts, EventsTyped
  <2> QED  BY <1>5, <2>2, <2>3 DEF Starts, EventsTyped
<1>6. CASE Purges
  <2>1. queue' \in Seq([home : Homes, event : Event])
    BY <1>6, PurgedQueue
  <2>2. Range(threadEvents) \subseteq Event
    BY DEF EventsTyped, Range
  <2>3. Visible("fast") \subseteq Event
    BY QueueTyped DEF EventsTyped, Visible
  <2>4. << >> \in Seq(Event)
    OBVIOUS
  <2> QED  BY <1>6, <2>1, <2>2, <2>3, <2>4 DEF Purges, EventsTyped
<1>7. CASE Frees
  <2>1. Range(threadEvents) \subseteq Event
    BY DEF EventsTyped, Range
  <2>2. Range(EventsOf(queue)) \subseteq Event
    BY QueueTyped DEF Range, EventsOf
  <2>3. << >> \in Seq(Event) /\ << >> \in Seq([home : Homes, event : Event])
    OBVIOUS
  <2> QED  BY <1>7, <2>1, <2>2, <2>3 DEF Frees, EventsTyped
<1> QED  BY <1>1, <1>2, <1>3, <1>4, <1>5, <1>6, <1>7 DEF EventStep
-----------------------------------------------------------------------------
(* Types, stack and mutex.                                                  *)

LEMMA MutexStep ==
    ASSUME TypeOK, MutexHeld, [Next]_vars
    PROVE  /\ mutex' \in Threads \cup {NoThread}
           /\ pc' \in [Threads -> {"idle", "put", "send", "unlock"}]
           /\ async' \in BOOLEAN /\ stop' \in BOOLEAN /\ closed' \in BOOLEAN
           /\ MutexHeld'
<1> USE LoopAssumption DEF TypeOK, MutexHeld
<1>1. CASE TakeTurn \/ EndWait \/ Run \/ EndTimers \/ WakeUp \/ InputArrives \/ TakeAsync
           \/ LeavePoll \/ EndDrain \/ HandlerReturns \/ BeginExit \/ WaitForChildren
           \/ AsyncCb \/ Process \/ Purge \/ Close
  BY <1>1 DEF TakeTurn, EndWait, Run, EndTimers, WakeUp, InputArrives, TakeAsync, LeavePoll,
     EndDrain, HandlerReturns, BeginExit, WaitForChildren, AsyncCb, Process, Purge, Close,
     OnlyStack, queueVars, ownerVars, OnPut
<1>2. ASSUME NEW q, NEW m, BeginWait(q, m)
      PROVE  /\ mutex' \in Threads \cup {NoThread}
             /\ pc' \in [Threads -> {"idle", "put", "send", "unlock"}]
             /\ async' \in BOOLEAN /\ stop' \in BOOLEAN /\ closed' \in BOOLEAN
             /\ MutexHeld'
  BY <1>2 DEF BeginWait, OnlyStack, queueVars
<1>3. CASE HandlerSchedule
  <2>1. \A t \in Threads : pc[t] = "idle"
    BY <1>3 DEF HandlerSchedule
  <2> QED  BY <1>3, <2>1 DEF HandlerSchedule, ownerVars
<1>4. ASSUME NEW home \in Homes, Callback(home) \/ HandlerPut(home)
      PROVE  /\ mutex' \in Threads \cup {NoThread}
             /\ pc' \in [Threads -> {"idle", "put", "send", "unlock"}]
             /\ async' \in BOOLEAN /\ stop' \in BOOLEAN /\ closed' \in BOOLEAN
             /\ MutexHeld'
  <2>1. (\E t \in Threads : pc[t] = "put") => alloc + 1 < MaxEvents
    BY <1>4 DEF Callback, HandlerPut, PutEvent, Room
  <2> QED  BY <1>4, <2>1 DEF Callback, HandlerPut, PutEvent, NewEvent, OnPut, ownerVars
<1>5. ASSUME NEW t \in Threads, Lock(t)
      PROVE  /\ mutex' \in Threads \cup {NoThread}
             /\ pc' \in [Threads -> {"idle", "put", "send", "unlock"}]
             /\ async' \in BOOLEAN /\ stop' \in BOOLEAN /\ closed' \in BOOLEAN
             /\ MutexHeld'
  <2>1. alloc < MaxEvents
    BY <1>5 DEF Lock, Room
  <2> QED  BY <1>5, <2>1 DEF Lock, ownerVars, queueVars
<1>6. ASSUME NEW t \in Threads, ThreadPut(t) \/ Send(t) \/ Unlock(t)
      PROVE  /\ mutex' \in Threads \cup {NoThread}
             /\ pc' \in [Threads -> {"idle", "put", "send", "unlock"}]
             /\ async' \in BOOLEAN /\ stop' \in BOOLEAN /\ closed' \in BOOLEAN
             /\ MutexHeld'
  BY <1>6 DEF ThreadPut, Send, Unlock, NewEvent, ownerVars, queueVars
<1>7. CASE UNCHANGED vars
  BY <1>7 DEF vars
<1> QED
  BY <1>1, <1>2, <1>3, <1>4, <1>5, <1>6, <1>7 DEF Next, OwnerStep, Schedule, Homes

LEMMA StructureStep ==
    ASSUME Structure, [Next]_vars
    PROVE  Structure'
<1> USE DEF Structure
<1>1. StackStep
  BY StackSteps
<1>2. stack' \in Seq(Frame) /\ recursive' \in Nat /\ StackShape'
  BY <1>1, StackKept
<1>3. EventsTyped'
  <2>1. EventsTyped
    BY DEF TypeOK, EventsTyped
  <2>2. EventStep
    BY EventSteps
  <2> QED  BY <2>1, <2>2, EventsKept
<1>4. /\ mutex' \in Threads \cup {NoThread}
      /\ pc' \in [Threads -> {"idle", "put", "send", "unlock"}]
      /\ async' \in BOOLEAN /\ stop' \in BOOLEAN /\ closed' \in BOOLEAN
      /\ MutexHeld'
  BY MutexStep
<1> QED  BY <1>2, <1>3, <1>4 DEF TypeOK, EventsTyped

LEMMA StructureInit ==
    ASSUME Init
    PROVE  Structure
<1>1. Wait("root", "block") \in Frame /\ Wait("root", "block").kind = "wait"
  BY DEF Wait, Frame, Waited, Homes, Modes, Places
<1>2. stack \in Seq(Frame) /\ Len(stack) = 1 /\ stack[1] = Wait("root", "block")
  BY <1>1 DEF Init
<1>3. StackShape
  BY <1>1, <1>2 DEF Init, StackShape
<1>4. MutexHeld
  BY LoopAssumption DEF Init, MutexHeld
<1>5. << >> \in Seq(Event) /\ << >> \in Seq([home : Homes, event : Event])
  OBVIOUS
<1>6. /\ threadEvents \in Seq(Event) /\ started \in Seq(Event)
      /\ queue \in Seq([home : Homes, event : Event])
  BY <1>5 DEF Init
<1>7. pc \in [Threads -> {"idle", "put", "send", "unlock"}]
  BY DEF Init
<1>8. origin \in [Event -> Homes \cup {"thread", "none"}]
  BY DEF Init
<1>9. recursive \in Nat /\ alloc \in 0 .. MaxEvents
  BY LoopAssumption DEF Init
<1>10. TypeOK
  BY <1>2, <1>6, <1>7, <1>8, <1>9 DEF Init, TypeOK
<1> QED  BY <1>3, <1>4, <1>10 DEF Structure


-----------------------------------------------------------------------------
(* The owner wakes up.                                                      *)

LEMMA StackFacts ==
    ASSUME Structure
    PROVE  /\ stack \in Seq(Frame) /\ Len(stack) \in Nat /\ Len(stack) >= 1
           /\ Head(stack) = stack[1] /\ stack[1] \in Frame
           /\ stack[1].kind # "wait" => Len(stack) >= 2
  BY Popped DEF Structure, TypeOK, StackShape

LEMMA WakeupStep ==
    ASSUME Structure, NoLostWakeup, [Next]_vars
    PROVE  NoLostWakeup'
<1> USE DEF NoLostWakeup
<1> stack \in Seq(Frame) /\ Len(stack) >= 1
  BY StackFacts
<1>1. CASE EndWait \/ Run \/ EndTimers \/ WakeUp \/ InputArrives \/ TakeTurn
           \/ LeavePoll \/ EndDrain \/ HandlerReturns \/ BeginExit \/ WaitForChildren
           \/ Process
  <2>1. ~Running("poll", "async_cb")
    BY <1>1 DEF EndWait, Run, EndTimers, WakeUp, InputArrives, TakeTurn, LeavePoll, EndDrain,
       HandlerReturns, BeginExit, WaitForChildren, Process, Handling, Running
  <2>2. UNCHANGED <<threadEvents, async, mutex, pc>>
    BY <1>1 DEF EndWait, Run, EndTimers, WakeUp, InputArrives, TakeTurn, LeavePoll, EndDrain,
       HandlerReturns, BeginExit, WaitForChildren, Process, OnlyStack, queueVars
  <2> QED  BY <2>1, <2>2
<1>2. ASSUME NEW q, NEW m, BeginWait(q, m)
      PROVE  NoLostWakeup'
  <2>1. ~Running("poll", "async_cb")
    BY <1>2 DEF BeginWait, Running
  <2> QED  BY <1>2, <2>1 DEF BeginWait, OnlyStack, queueVars
<1>3. CASE TakeAsync
  <2>1. Head(stack').kind = "poll" /\ Head(stack').at = "async_cb"
    <3>1. [Head(stack) EXCEPT !.at = "async_cb"] \in Frame
      BY StackFacts DEF Frame, Places
    <3>2. stack'[1] = [Head(stack) EXCEPT !.at = "async_cb"] /\ stack' \in Seq(Frame) /\ Len(stack') >= 1
      BY <1>3, <3>1, Replaced DEF TakeAsync, GoTo
    <3>3. Head(stack').kind = Head(stack).kind /\ Head(stack').at = "async_cb"
      BY <3>1, <3>2, StackFacts DEF Frame
    <3> QED  BY <1>3, <3>3 DEF TakeAsync, Running
  <2> QED  BY <1>3, <2>1 DEF TakeAsync, Running
<1>4. CASE AsyncCb
  <2>1. threadEvents' = << >>
    BY <1>4, SubSeqEmpty DEF AsyncCb, Taken, Structure, TypeOK
  <2> QED  BY <2>1
<1>5. CASE HandlerSchedule \/ Purge \/ Close
  BY <1>5 DEF HandlerSchedule, Purge, Close
<1>6. ASSUME NEW home \in Homes, Callback(home) \/ HandlerPut(home)
      PROVE  NoLostWakeup'
  BY <1>6 DEF Callback, HandlerPut, ownerVars, Running
<1>7. ASSUME NEW t \in Threads, Lock(t) \/ Unlock(t)
      PROVE  NoLostWakeup'
  <2>1. \A u \in Threads : mutex = u /\ pc[u] = "send" => FALSE
    BY <1>7, LoopAssumption DEF Lock, Unlock, Structure, MutexHeld
  <2> QED  BY <1>7, <2>1 DEF Lock, Unlock, ownerVars, queueVars, Running
<1>8. ASSUME NEW t \in Threads, ThreadPut(t) \/ Send(t)
      PROVE  NoLostWakeup'
  <2>1. CASE ThreadPut(t)
    <3>1. mutex' = t /\ pc'[t] = "send"
      BY <2>1 DEF ThreadPut, Structure, MutexHeld, TypeOK
    <3> QED  BY <3>1
  <2>2. CASE Send(t)
    BY <2>2 DEF Send
  <2> QED  BY <1>8, <2>1, <2>2
<1>9. CASE UNCHANGED vars
  BY <1>9 DEF vars, Running
<1> QED
  BY <1>1, <1>2, <1>3, <1>4, <1>5, <1>6, <1>7, <1>8, <1>9
     DEF Next, OwnerStep, Schedule, Homes

(* Something new for fast_events stops the loop.                            *)
LEMMA FastSeen ==
    ASSUME Structure, [Next]_vars
    PROVE  Visible("fast")' \subseteq Visible("fast") \/ stop'
<1> EventsTyped
  BY DEF Structure, TypeOK, EventsTyped
<1>1. CASE queue' = queue
  BY <1>1 DEF Visible, Sees
<1>2. CASE AsyncCb
  <2>1. CASE threadEvents = << >>
    <3>1. Moves
      BY <2>1, <1>2, SubSeqEmpty DEF AsyncCb, Moves, Taken, EventsTyped
    <3>2. queue' \in Seq([home : Homes, event : Event])
          /\ Len(queue') = Len(queue) /\ \A i \in 1 .. Len(queue) : queue'[i] = queue[i]
      BY <2>1, <3>1, MovedQueue, QueueTyped
    <3>3. DOMAIN queue = 1 .. Len(queue) /\ DOMAIN queue' = 1 .. Len(queue)
      BY <3>2 DEF EventsTyped
    <3> QED  BY <3>2, <3>3 DEF Visible, Sees
  <2> QED  BY <2>1, <1>2 DEF AsyncCb, OnPut
<1>3. ASSUME NEW home \in Homes, PutEvent(home)
      PROVE  Visible("fast")' \subseteq Visible("fast") \/ stop'
  <2>1. CASE home # "root"
    BY <1>3, <2>1 DEF PutEvent, OnPut
  <2>2. CASE home = "root"
    <3> DEFINE T == [home : Homes, event : Event]
               m == [home |-> home, event |-> alloc + 1]
    <3>0. alloc + 1 \in Event
      BY <1>3, LoopAssumption DEF PutEvent, Room, EventsTyped, Event
    <3>1. queue \in Seq(T) /\ m \in T
      BY <3>0 DEF EventsTyped
    <3>2. queue' = Append(queue, m) /\ m.home # "fast"
      BY <1>3, <2>2 DEF PutEvent
    <3> HIDE DEF T, m
    <3>3. Len(queue') = Len(queue) + 1 /\ queue'[Len(queue) + 1] = m
          /\ DOMAIN queue = 1 .. Len(queue) /\ DOMAIN queue' = 1 .. Len(queue) + 1
          /\ Len(queue) \in Nat
          /\ \A i \in 1 .. Len(queue) : queue'[i] = queue[i]
      BY <3>1, <3>2
    <3>4. \A i \in DOMAIN queue' : i \in DOMAIN queue \/ i = Len(queue) + 1
      BY <3>3
    <3>5. ASSUME NEW i \in DOMAIN queue', Sees("fast", queue'[i])
          PROVE  i \in DOMAIN queue /\ Sees("fast", queue[i]) /\ queue'[i] = queue[i]
      BY <3>2, <3>3, <3>4, <3>5 DEF Sees
    <3>6. Visible("fast")' \subseteq Visible("fast")
      BY <3>5 DEF Visible, Sees
    <3> QED  BY <3>6
  <2> QED  BY <2>1, <2>2
<1>4. CASE Process
  <2>1. PICK i \in 1 .. Len(queue) : queue' = RemoveAt(queue, i)
    BY <1>4 DEF Process
  <2>2. /\ queue' \in Seq([home : Homes, event : Event])
        /\ Len(queue') = Len(queue) - 1
        /\ \A k \in 1 .. Len(queue) - 1 : queue'[k] = IF k < i THEN queue[k] ELSE queue[k + 1]
    BY <2>1, Removed DEF EventsTyped
  <2>3. DOMAIN queue = 1 .. Len(queue) /\ DOMAIN queue' = 1 .. Len(queue) - 1 /\ Len(queue) \in Nat
    BY <2>2, QueueTyped DEF EventsTyped
  <2>4. ASSUME NEW k \in DOMAIN queue'
        PROVE  \E l \in DOMAIN queue : queue'[k] = queue[l]
    BY <2>2, <2>3
  <2> QED  BY <2>4 DEF Visible, Sees
<1>5. CASE Purge
  <2>1. Purges
    BY <1>5 DEF Purge, Purges
  <2>2. \A k \in 1 .. Len(queue') : queue'[k].home # "fast"
    BY <2>1, PurgedQueue
  <2>3. DOMAIN queue' = 1 .. Len(queue')
    BY <2>1, PurgedQueue
  <2> QED  BY <2>2, <2>3 DEF Visible, Sees
<1>6. CASE Close
  BY <1>6 DEF Close, Visible
<1>7. CASE UNCHANGED vars
  BY <1>1, <1>7 DEF vars
<1>8. ASSUME NEW home \in Homes, Callback(home) \/ HandlerPut(home)
      PROVE  Visible("fast")' \subseteq Visible("fast") \/ stop'
  BY <1>3, <1>8 DEF Callback, HandlerPut
<1>9. CASE EndWait \/ Run \/ EndTimers \/ WakeUp \/ InputArrives \/ TakeTurn \/ TakeAsync
           \/ LeavePoll \/ EndDrain \/ HandlerReturns \/ BeginExit \/ WaitForChildren
           \/ HandlerSchedule
  BY <1>1, <1>9 DEF EndWait, Run, EndTimers, WakeUp, InputArrives, TakeTurn, TakeAsync,
     LeavePoll, EndDrain, HandlerReturns, BeginExit, WaitForChildren, HandlerSchedule,
     OnlyStack, queueVars
<1>10. ASSUME NEW q, NEW m, BeginWait(q, m)
       PROVE  Visible("fast")' \subseteq Visible("fast") \/ stop'
  BY <1>1, <1>10 DEF BeginWait, OnlyStack, queueVars
<1>11. ASSUME NEW t \in Threads, Lock(t) \/ Schedule(t)
       PROVE  Visible("fast")' \subseteq Visible("fast") \/ stop'
  BY <1>1, <1>11 DEF Lock, Schedule, ThreadPut, Send, Unlock, queueVars
<1> QED
  BY <1>2, <1>4, <1>5, <1>6, <1>7, <1>8, <1>9, <1>10, <1>11 DEF Next, OwnerStep, Homes
(* Only the end of a drain takes a drain off the stack.                     *)
LEMMA DrainsKept ==
    ASSUME Structure, StackStep, DrainSuspended("fast"),
           ~(Ends /\ stack[1].kind = "drain")
    PROVE  DrainSuspended("fast")'
<1> USE StackFacts
<1>1. PICK i \in 1 .. Len(stack) : stack[i].kind = "drain" /\ stack[i].reads \in {"fast", "root"}
  BY DEF DrainSuspended
<1>2. ASSUME NEW j \in 1 .. Len(stack'),
             stack'[j].kind = "drain", stack'[j].reads \in {"fast", "root"}
      PROVE  DrainSuspended("fast")'
  BY <1>2 DEF DrainSuspended
<1>3. CASE stack' = stack
  BY <1>1, <1>3 DEF DrainSuspended
<1>4. ASSUME NEW f \in Frame, Turns(f)
      PROVE  DrainSuspended("fast")'
  <2>1. /\ Len(stack') = Len(stack) /\ stack'[1] = f
        /\ \A k \in 2 .. Len(stack) : stack'[k] = stack[k]
    BY <1>4, Replaced DEF Turns
  <2>2. stack'[i].kind = stack[i].kind /\ stack'[i].reads = stack[i].reads
    BY <1>4, <2>1 DEF Turns
  <2> QED  BY <1>1, <1>2, <2>1, <2>2
<1>5. ASSUME NEW f \in Frame, Leaves(f)
      PROVE  DrainSuspended("fast")'
  <2>1. /\ Len(stack') = Len(stack) /\ stack'[1] = f
        /\ \A k \in 2 .. Len(stack) : stack'[k] = stack[k]
    BY <1>5, Replaced DEF Leaves
  <2>2. i # 1
    BY <1>1, <1>5 DEF Leaves
  <2> QED  BY <1>1, <1>2, <2>1, <2>2
<1>6. ASSUME NEW f \in Frame, Handles(f)
      PROVE  DrainSuspended("fast")'
  <2>1. /\ Len(stack') = Len(stack) + 1
        /\ \A k \in 1 .. Len(stack) : stack'[k + 1] = stack[k]
    BY <1>6, Pushed DEF Handles
  <2>2. i + 1 \in 1 .. Len(stack')
    BY <2>1
  <2> QED  BY <1>1, <1>2, <2>1, <2>2
<1>7. ASSUME NEW f \in Frame, NEW g \in Frame, Exits(f, g)
      PROVE  DrainSuspended("fast")'
  <2>1. /\ Len(stack') = Len(stack) + 2
        /\ \A k \in 1 .. Len(stack) : stack'[k + 2] = stack[k]
    BY <1>7, Pushed2 DEF Exits
  <2>2. i + 2 \in 1 .. Len(stack')
    BY <2>1
  <2> QED  BY <1>1, <1>2, <2>1, <2>2
<1>8. ASSUME NEW f \in Frame, NEW g \in Frame, Calls(f, g)
      PROVE  DrainSuspended("fast")'
  <2>1. /\ Len(stack') = Len(stack) + 1 /\ stack'[2] = g
        /\ \A k \in 2 .. Len(stack) : stack'[k + 1] = stack[k]
    BY <1>8, Replaced2 DEF Calls
  <2>2. i + 1 \in 1 .. Len(stack')
    BY <2>1
  <2>3. stack'[i + 1].kind = stack[i].kind /\ stack'[i + 1].reads = stack[i].reads
    BY <1>8, <2>1 DEF Calls
  <2> QED  BY <1>1, <1>2, <2>2, <2>3
<1>9. CASE Ends
  <2>1. /\ Len(stack') = Len(stack) - 1
        /\ \A k \in 1 .. Len(stack) - 1 : stack'[k] = stack[k + 1]
    BY <1>9, Popped DEF Ends
  <2>2. i # 1
    BY <1>1, <1>9
  <2>3. i - 1 \in 1 .. Len(stack') /\ stack'[i - 1] = stack[i]
    BY <2>1, <2>2
  <2> QED  BY <1>1, <1>2, <2>3
<1> QED  BY <1>3, <1>4, <1>5, <1>6, <1>7, <1>8, <1>9 DEF StackStep

(* A drain ends when there is nothing more to read.                         *)
LEMMA DrainEnds ==
    ASSUME Structure, [Next]_vars, Ends, stack[1].kind = "drain"
    PROVE  EndDrain
<1> USE StackFacts
<1>1. Len(stack') = Len(stack) - 1
  BY Popped DEF Ends
<1>2. stack' # stack
  BY <1>1
<1>3. ~Process
  <2>1. ASSUME Process
        PROVE  FALSE
    <3>1. Handler \in Frame
      BY DEF Handler, Frame, Waited, Modes, Places
    <3>2. Len(stack') = Len(stack) + 1
      BY <2>1, <3>1, Pushed DEF Process, Call
    <3> QED  BY <1>1, <3>2
  <2> QED  BY <2>1
<1>4. /\ ~TakeTurn /\ ~EndWait /\ ~Run /\ ~EndTimers /\ ~WakeUp /\ ~TakeAsync /\ ~AsyncCb
      /\ ~LeavePoll /\ ~HandlerSchedule /\ ~Purge /\ ~HandlerReturns /\ ~BeginExit
      /\ ~WaitForChildren /\ ~Close /\ ~InputArrives
  BY DEF TakeTurn, EndWait, Run, EndTimers, WakeUp, TakeAsync, AsyncCb, LeavePoll,
     HandlerSchedule, Purge, HandlerReturns, BeginExit, WaitForChildren, Close, InputArrives,
     Handling, Running
<1>5. \A h : ~Callback(h) /\ ~HandlerPut(h)
  BY DEF Callback, HandlerPut, Handling, Running
<1>6. \A q, m : ~BeginWait(q, m)
  BY DEF BeginWait, Running
<1>7. \A t : ~Lock(t) /\ ~Schedule(t)
  BY <1>2 DEF Lock, Schedule, ThreadPut, Send, Unlock, ownerVars
<1>8. ~UNCHANGED vars
  BY <1>2 DEF vars
<1> QED  BY <1>3, <1>4, <1>5, <1>6, <1>7, <1>8 DEF Next, OwnerStep

LEMMA FastStep ==
    ASSUME Structure, FastDrained, [Next]_vars
    PROVE  FastDrained'
<1> USE DEF FastDrained
<1>1. StackStep
  BY StackSteps DEF Structure
<1>2. CASE LeavePoll
  <2>1. Drain("fast") \in Frame
    BY DEF Drain, Frame, Waited, Homes, Modes, Places
  <2>2. stack'[1] = Drain("fast") /\ Len(stack') >= 1 /\ Len(stack') \in Nat
    BY <1>2, <2>1, StackFacts, Replaced DEF LeavePoll
  <2>3. DrainSuspended("fast")'
    BY <2>2 DEF DrainSuspended, Drain
  <2> QED  BY <2>3
<1>3. CASE Ends /\ stack[1].kind = "drain"
  <2>1. EndDrain
    BY <1>3, DrainEnds
  <2>2. queue' = queue /\ stop' = stop /\ Visible(stack[1].reads) = {}
    BY <2>1, StackFacts DEF EndDrain, OnlyStack, queueVars
  <2>3. CASE stack[1].reads \in {"fast", "root"}
    <3>1. Visible("fast") = {}
      BY <2>2, <2>3 DEF Visible, Sees
    <3> QED  BY <2>2, <3>1 DEF Visible, Sees
  <2>4. CASE stack[1].reads \notin {"fast", "root"}
    <3>1. DrainSuspended("fast") => DrainSuspended("fast")'
      <4>1. SUFFICES ASSUME NEW i \in 1 .. Len(stack), stack[i].kind = "drain",
                            stack[i].reads \in {"fast", "root"}
                     PROVE  DrainSuspended("fast")'
        BY DEF DrainSuspended
      <4>2. i # 1
        BY <2>4, <4>1
      <4>3. /\ Len(stack') = Len(stack) - 1
            /\ \A k \in 1 .. Len(stack) - 1 : stack'[k] = stack[k + 1]
        BY <1>3, StackFacts, Popped DEF Ends
      <4>4. i - 1 \in 1 .. Len(stack') /\ stack'[i - 1] = stack[i]
        BY <4>2, <4>3, StackFacts
      <4> QED  BY <4>1, <4>4 DEF DrainSuspended
    <3>2. Visible("fast") = {} => Visible("fast")' = {}
      BY <2>2 DEF Visible, Sees
    <3> QED  BY <2>2, <3>1, <3>2
  <2> QED  BY <2>3, <2>4
<1>4. CASE ~LeavePoll /\ ~(Ends /\ stack[1].kind = "drain")
  <2>1. stop => stop'
    <3>1. CASE EndWait \/ Run \/ EndTimers \/ WakeUp \/ InputArrives \/ TakeTurn \/ TakeAsync
               \/ AsyncCb \/ EndDrain \/ HandlerReturns \/ BeginExit \/ WaitForChildren
               \/ Process \/ HandlerSchedule \/ Purge \/ Close
      BY <3>1 DEF EndWait, Run, EndTimers, WakeUp, InputArrives, TakeTurn, TakeAsync,
         AsyncCb, EndDrain, HandlerReturns, BeginExit, WaitForChildren, Process,
         HandlerSchedule, Purge, Close, OnlyStack, queueVars, OnPut
    <3>2. ASSUME NEW q, NEW m, BeginWait(q, m)
          PROVE  stop => stop'
      BY <3>2 DEF BeginWait, OnlyStack, queueVars
    <3>3. ASSUME NEW home, Callback(home) \/ HandlerPut(home)
          PROVE  stop => stop'
      BY <3>3 DEF Callback, HandlerPut, PutEvent, OnPut
    <3>4. ASSUME NEW t \in Threads, Lock(t) \/ Schedule(t)
          PROVE  stop => stop'
      BY <3>4 DEF Lock, Schedule, ThreadPut, Send, Unlock, queueVars
    <3>5. CASE UNCHANGED vars
      BY <3>5 DEF vars
    <3> QED  BY <1>4, <3>1, <3>2, <3>3, <3>4, <3>5 DEF Next, OwnerStep
  <2>2. Visible("fast")' \subseteq Visible("fast") \/ stop'
    BY FastSeen
  <2>3. DrainSuspended("fast") => DrainSuspended("fast")'
    BY <1>1, <1>4, DrainsKept
  <2> QED  BY <2>1, <2>2, <2>3
<1> QED  BY <1>2, <1>3, <1>4

(* With the same queue a wait of the same kind sees the same events.        *)
LEMMA VisibleSame ==
    ASSUME queue' = queue, NEW q, Visible(q) = {}
    PROVE  {queue'[i].event : i \in {j \in DOMAIN queue' : Sees(q, queue'[j])}} = {}
  BY DEF Visible

LEMMA ServedStep ==
    ASSUME Structure, WaitServed, [Next]_vars
    PROVE  WaitServed'
<1> USE StackFacts DEF WaitServed
<1>1. ASSUME NEW at \in Places, GoTo(at), at \in Before => Polls,
             queue' = queue, stop' = stop
      PROVE  WaitServed'
  <2>1. [Head(stack) EXCEPT !.at = at] \in Frame
    BY DEF Frame
  <2>2. /\ [Head(stack) EXCEPT !.at = at].kind = stack[1].kind
        /\ [Head(stack) EXCEPT !.at = at].at = at
    BY DEF Frame
  <2>3. /\ stack'[1] = [Head(stack) EXCEPT !.at = at]
        /\ \A k \in 2 .. Len(stack) : stack'[k] = stack[k]
    BY <1>1, <2>1, Replaced DEF GoTo
  <2>4. SUFFICES ASSUME Polls'
                 PROVE  (stop \/ stack[2].reads = "none" \/ Visible(stack[2].reads) = {})'
    OBVIOUS
  <2>5. Polls
    BY <1>1, <2>2, <2>3, <2>4 DEF Polls
  <2>6. stack'[2] = stack[2]
    BY <2>3, <2>5 DEF Polls
  <2>7. CASE stop \/ stack[2].reads = "none"
    BY <1>1, <2>6, <2>7
  <2>8. CASE Visible(stack[2].reads) = {}
    <3>1. \A q : q = stack[2].reads =>
            {queue'[i].event : i \in {j \in DOMAIN queue' : Sees(q, queue'[j])}} = {}
      BY <1>1, <2>8, VisibleSame
    <3>2. Visible(stack[2].reads)' = {}
      BY <2>6, <3>1 DEF Visible, Sees
    <3> QED  BY <3>2
  <2> QED  BY <2>5, <2>7, <2>8
<1>2. CASE Run \/ EndTimers \/ WakeUp \/ InputArrives \/ TakeAsync
  <2>1. queue' = queue /\ stop' = stop
    BY <1>2 DEF Run, EndTimers, WakeUp, InputArrives, TakeAsync, OnlyStack, queueVars
  <2>2. Polls
    BY <1>2 DEF Run, EndTimers, WakeUp, InputArrives, TakeAsync, Running, Polls, Before
  <2>3. \E at \in Places : GoTo(at)
    BY <1>2 DEF Run, EndTimers, WakeUp, InputArrives, TakeAsync, Places
  <2> QED  BY <1>1, <2>1, <2>2, <2>3
<1>3. ASSUME stack' \in Seq(Frame), Len(stack') >= 1, stack'[1].kind # "poll"
      PROVE  WaitServed'
  BY <1>3 DEF Polls
<1>4. CASE AsyncCb
  <2>1. [Head(stack) EXCEPT !.at = "callbacks"] \in Frame
    BY DEF Frame, Places
  <2>2. [Head(stack) EXCEPT !.at = "callbacks"].at = "callbacks"
    BY DEF Frame
  <2>3. stack'[1] = [Head(stack) EXCEPT !.at = "callbacks"]
    BY <1>4, <2>1, Replaced DEF AsyncCb, GoTo
  <2> QED  BY <2>2, <2>3 DEF Polls, Before
<1>5. CASE TakeTurn
  <2> DEFINE w == stack[1]
             v == [w EXCEPT !.at = "turned"]
  <2>1. v \in Frame /\ v.reads = w.reads /\ w.reads \in Waited /\ w.mode \in Modes
    BY DEF Frame, Places
  <2>2. Drain(w.reads) \in Frame /\ Poll(w.mode) \in Frame
    BY <2>1 DEF Frame, Drain, Poll, Waited, Modes, Places
  <2>3. CASE stack' = <<Drain(w.reads), v>> \o Tail(stack)
    <3> HIDE DEF w, v
    <3>1. stack'[1] = Drain(w.reads)
      BY <2>1, <2>2, <2>3, Replaced2
    <3> QED  BY <3>1 DEF Polls, Drain
  <2>4. CASE /\ stack' = <<Poll(w.mode), v>> \o Tail(stack)
             /\ w.reads = "none" \/ Visible(w.reads) = {}
    <3> HIDE DEF w, v
    <3>1. stack'[2] = v
      BY <2>1, <2>2, <2>4, Replaced2
    <3>2. queue' = queue
      BY <1>5 DEF TakeTurn, queueVars
    <3>3. stack'[2].reads = w.reads
      BY <2>1, <3>1
    <3>4. CASE w.reads = "none"
      BY <3>3, <3>4
    <3>5. CASE Visible(w.reads) = {}
      <4>1. \A q : q = w.reads =>
              {queue'[i].event : i \in {j \in DOMAIN queue' : Sees(q, queue'[j])}} = {}
        BY <3>2, <3>5, VisibleSame
      <4>2. Visible(stack[2].reads)' = {}
        BY <3>3, <4>1 DEF Visible, Sees
      <4> QED  BY <4>2
    <3> QED  BY <2>4, <3>4, <3>5
  <2>5. \/ stack' = <<Drain(w.reads), v>> \o Tail(stack)
        \/ /\ stack' = <<Poll(w.mode), v>> \o Tail(stack)
           /\ w.reads = "none" \/ Visible(w.reads) = {}
    BY <1>5 DEF TakeTurn
  <2> QED  BY <2>3, <2>4, <2>5
<1>6. CASE EndWait \/ EndDrain \/ HandlerReturns
  <2>1. stack' = Tail(stack) /\ (stack[1].kind = "wait" => Len(stack) > 1)
    BY <1>6 DEF EndWait, EndDrain, HandlerReturns, Handling, Running, Return
  <2>2. Len(stack) >= 2
    BY <2>1
  <2>3. stack' \in Seq(Frame) /\ Len(stack') >= 1 /\ stack'[1] = stack[2]
    BY <2>1, <2>2, Popped
  <2>4. stack[2].kind # "poll"
    BY <2>2 DEF Structure, StackShape
  <2> QED  BY <1>3, <2>3, <2>4
<1>7. CASE LeavePoll
  <2>1. Drain("fast") \in Frame
    BY DEF Drain, Frame, Waited, Homes, Modes, Places
  <2>2. stack'[1] = Drain("fast")
    BY <1>7, <2>1, Replaced DEF LeavePoll
  <2> QED  BY <2>2 DEF Polls, Drain
<1>8. CASE Process
  <2>1. Handler \in Frame
    BY DEF Handler, Frame, Waited, Modes, Places
  <2>2. stack'[1] = Handler
    BY <1>8, <2>1, Pushed DEF Process, Call
  <2> QED  BY <2>2 DEF Polls, Handler
<1>9. CASE BeginExit
  <2>1. Drain("root") \in Frame /\ Exit \in Frame
    BY DEF Drain, Exit, Frame, Waited, Homes, Modes, Places
  <2>2. stack'[1] = Drain("root")
    BY <1>9, <2>1, Pushed2 DEF BeginExit
  <2> QED  BY <2>2 DEF Polls, Drain
<1>10. CASE WaitForChildren
  <2>1. Wait("root", "block") \in Frame /\ [Head(stack) EXCEPT !.at = "close"] \in Frame
    BY DEF Wait, Frame, Waited, Homes, Modes, Places
  <2>2. stack'[1] = Wait("root", "block")
    BY <1>10, <2>1, Replaced2 DEF WaitForChildren
  <2> QED  BY <2>2 DEF Polls, Wait
<1>11. ASSUME NEW q \in Waited, NEW m \in Modes, BeginWait(q, m)
       PROVE  WaitServed'
  <2>1. Wait(q, m) \in Frame /\ [Head(stack) EXCEPT !.at = "waited"] \in Frame
    BY DEF Wait, Frame, Places
  <2>2. stack'[1] = Wait(q, m)
    BY <1>11, <2>1, Replaced2 DEF BeginWait
  <2> QED  BY <2>2 DEF Polls, Wait
<1>12. CASE HandlerSchedule \/ Purge \/ Close
  BY <1>12 DEF HandlerSchedule, Purge, Close, Handling, Running, ownerVars, Polls
<1>13. ASSUME NEW home \in Homes, HandlerPut(home)
       PROVE  WaitServed'
  BY <1>13 DEF HandlerPut, Handling, Running, ownerVars, Polls
<1>14. ASSUME NEW home \in Children \cup {"fast"}, Callback(home)
       PROVE  WaitServed'
  <2>1. home # "root" => stop'
    BY <1>14 DEF Callback, PutEvent, OnPut
  <2>2. CASE home = "root"
    BY <1>14, <2>2, LoopAssumption DEF Callback
  <2> QED  BY <2>1, <2>2
<1>15. ASSUME NEW t \in Threads, Lock(t) \/ Schedule(t)
       PROVE  WaitServed'
  <2>1. UNCHANGED <<queue, stop, stack>>
    BY <1>15 DEF Lock, Schedule, ThreadPut, Send, Unlock, ownerVars, queueVars
  <2> QED  BY <2>1 DEF Polls, Visible, Sees
<1>16. CASE UNCHANGED vars
  BY <1>16 DEF vars, Polls, Visible, Sees
<1> QED
  BY <1>2, <1>4, <1>5, <1>6, <1>7, <1>8, <1>9, <1>10, <1>11, <1>12, <1>13, <1>14,
     <1>15, <1>16 DEF Next, OwnerStep

LEMMA AwakeStep ==
    ASSUME Structure, Awake, [Next]_vars
    PROVE  Awake'
  BY WakeupStep, ServedStep, FastStep DEF Awake


-----------------------------------------------------------------------------
(* Each event is in one place.                                              *)

LEMMA Domains ==
    ASSUME EventsTyped
    PROVE  /\ DOMAIN queue = 1 .. Len(queue) /\ Len(queue) \in Nat
           /\ DOMAIN threadEvents = 1 .. Len(threadEvents) /\ Len(threadEvents) \in Nat
           /\ DOMAIN started = 1 .. Len(started) /\ Len(started) \in Nat
           /\ Range(threadEvents) = Kept
           /\ Visible("fast") = {queue[i].event : i \in {j \in 1 .. Len(queue) : queue[j].home = "fast"}}
           /\ Range(EventsOf(queue)) = Waiting
<1>1. DOMAIN queue = 1 .. Len(queue) /\ Len(queue) \in Nat
  BY DEF EventsTyped
<1>2. DOMAIN threadEvents = 1 .. Len(threadEvents) /\ Len(threadEvents) \in Nat
  BY DEF EventsTyped
<1>3. DOMAIN started = 1 .. Len(started) /\ Len(started) \in Nat
  BY DEF EventsTyped
<1>4. Range(threadEvents) = Kept
  BY <1>2 DEF Range, Kept
<1>5. Visible("fast") = {queue[i].event : i \in {j \in 1 .. Len(queue) : queue[j].home = "fast"}}
  BY <1>1 DEF Visible, Sees
<1>6. Range(EventsOf(queue)) = Waiting
  BY <1>1 DEF Range, EventsOf, Waiting
<1> QED  BY <1>1, <1>2, <1>3, <1>4, <1>5, <1>6

(* What a put appends.                                                      *)
LEMMA Appended ==
    ASSUME NEW S, NEW s \in Seq(S), NEW e \in S
    PROVE  /\ Append(s, e) \in Seq(S) /\ Len(Append(s, e)) = Len(s) + 1
           /\ Append(s, e)[Len(s) + 1] = e
           /\ \A i \in 1 .. Len(s) : Append(s, e)[i] = s[i]
           /\ \A i \in 1 .. Len(s) + 1 : i \in 1 .. Len(s) \/ i = Len(s) + 1
  OBVIOUS

LEMMA PutApart ==
    ASSUME EventsTyped, Apart, NEW home \in Homes, PutsOn(home)
    PROVE  Apart'
<1> DEFINE T == [home : Homes, event : Event]
           e == alloc + 1
           m == [home |-> home, event |-> e]
<1>1. e \in Event /\ m \in T /\ m.event = e
  BY LoopAssumption DEF PutsOn, Room, EventsTyped, Event
<1>2. queue \in Seq(T) /\ queue' = Append(queue, m)
  BY DEF EventsTyped, PutsOn
<1>3. alloc \in Nat /\ alloc' = alloc + 1 /\ UNCHANGED <<threadEvents, started, lost>>
  BY DEF PutsOn, NewEvent, EventsTyped
<1>4. e \notin 1 .. alloc /\ 1 .. alloc' = (1 .. alloc) \cup {e}
  BY <1>3
<1>5. e \notin Waiting /\ e \notin Kept /\ e \notin Gone /\ e \notin lost
  BY <1>4 DEF Apart
<1> HIDE DEF T, e, m
<1>6. /\ Len(queue') = Len(queue) + 1 /\ queue'[Len(queue) + 1] = m /\ Len(queue) \in Nat
      /\ \A i \in 1 .. Len(queue) : queue'[i] = queue[i]
      /\ \A i \in 1 .. Len(queue') : i \in 1 .. Len(queue) \/ i = Len(queue) + 1
  BY <1>1, <1>2, Appended
<1>7. Waiting' = Waiting \cup {e}
  BY <1>1, <1>6 DEF Waiting
<1>8. \A i \in 1 .. Len(queue) : queue[i].event # e
  BY <1>5 DEF Waiting
<1>9. ASSUME NEW i \in 1 .. Len(queue'), NEW j \in 1 .. Len(queue'),
             queue'[i].event = queue'[j].event
      PROVE  i = j
  BY <1>1, <1>6, <1>8, <1>9 DEF Apart
<1>10. Kept' = Kept /\ Gone' = Gone
  BY <1>3 DEF Kept, Gone
<1>11. /\ Kept' \cap Waiting' = {} /\ Kept' \cap Gone' = {} /\ Waiting' \cap Gone' = {}
       /\ lost' \cap (Kept' \cup Waiting' \cup Gone') = {}
       /\ lost' \cup Kept' \cup Waiting' \cup Gone' = 1 .. alloc'
  BY <1>3, <1>4, <1>5, <1>7, <1>10 DEF Apart
<1> QED  BY <1>3, <1>9, <1>11 DEF Apart

LEMMA PutBehindApart ==
    ASSUME EventsTyped, Apart, PutsBehind
    PROVE  Apart'
<1> DEFINE e == alloc + 1
<1>1. e \in Event
  BY LoopAssumption DEF PutsBehind, EventsTyped, Event
<1>2. threadEvents \in Seq(Event) /\ threadEvents' = Append(threadEvents, e)
  BY DEF EventsTyped, PutsBehind
<1>3. alloc \in Nat /\ alloc' = alloc + 1 /\ UNCHANGED <<queue, started, lost>>
  BY DEF PutsBehind, NewEvent, EventsTyped
<1>4. e \notin 1 .. alloc /\ 1 .. alloc' = (1 .. alloc) \cup {e}
  BY <1>3
<1>5. e \notin Waiting /\ e \notin Kept /\ e \notin Gone /\ e \notin lost
  BY <1>4 DEF Apart
<1> HIDE DEF e
<1>6. /\ Len(threadEvents') = Len(threadEvents) + 1 /\ threadEvents'[Len(threadEvents) + 1] = e
      /\ Len(threadEvents) \in Nat
      /\ \A i \in 1 .. Len(threadEvents) : threadEvents'[i] = threadEvents[i]
      /\ \A i \in 1 .. Len(threadEvents') : i \in 1 .. Len(threadEvents) \/ i = Len(threadEvents) + 1
  BY <1>1, <1>2, Appended
<1>7. Kept' = Kept \cup {e}
  BY <1>6 DEF Kept
<1>8. \A i \in 1 .. Len(threadEvents) : threadEvents[i] # e
  BY <1>5 DEF Kept
<1>9. ASSUME NEW i \in 1 .. Len(threadEvents'), NEW j \in 1 .. Len(threadEvents'),
             threadEvents'[i] = threadEvents'[j]
      PROVE  i = j
  BY <1>6, <1>8, <1>9 DEF Apart
<1>10. Waiting' = Waiting /\ Gone' = Gone
  BY <1>3 DEF Waiting, Gone
<1>11. /\ Kept' \cap Waiting' = {} /\ Kept' \cap Gone' = {} /\ Waiting' \cap Gone' = {}
       /\ lost' \cap (Kept' \cup Waiting' \cup Gone') = {}
       /\ lost' \cup Kept' \cup Waiting' \cup Gone' = 1 .. alloc'
  BY <1>3, <1>4, <1>5, <1>7, <1>10 DEF Apart
<1> QED  BY <1>3, <1>9, <1>11 DEF Apart

LEMMA MoveApart ==
    ASSUME EventsTyped, Apart, Moves
    PROVE  Apart'
<1>1. UNCHANGED <<alloc, started, lost>> /\ threadEvents' = << >>
  BY DEF Moves
<1>2. /\ Len(queue') = Len(queue) + Len(threadEvents)
      /\ Len(queue) \in Nat /\ Len(threadEvents) \in Nat
      /\ \A i \in 1 .. Len(queue) : queue'[i] = queue[i]
      /\ \A i \in 1 .. Len(threadEvents) : queue'[Len(queue) + i].event = threadEvents[i]
  <2>1. \A e : [home |-> "fast", event |-> e].event = e
    OBVIOUS
  <2>2. ASSUME NEW i \in 1 .. Len(threadEvents)
        PROVE  queue'[Len(queue) + i].event = threadEvents[i]
    <3>1. queue'[Len(queue) + i] = [home |-> "fast", event |-> threadEvents[i]]
      BY MovedQueue
    <3> QED  BY <2>1, <3>1
  <2>3. Len(queue') = Len(queue) + Len(threadEvents)
    BY MovedQueue
  <2>4. \A i \in 1 .. Len(queue) : queue'[i] = queue[i]
    BY MovedQueue
  <2> QED  BY <2>2, <2>3, <2>4, Domains
<1>3. ASSUME NEW i \in 1 .. Len(queue'), i \notin 1 .. Len(queue)
      PROVE  /\ i - Len(queue) \in 1 .. Len(threadEvents)
             /\ queue'[i].event = threadEvents[i - Len(queue)]
  <2>1. i - Len(queue) \in 1 .. Len(threadEvents) /\ i = Len(queue) + (i - Len(queue))
    BY <1>2, <1>3
  <2> QED  BY <1>2, <2>1
<1>4. Waiting' = Waiting \cup Kept
  <2>1. ASSUME NEW i \in 1 .. Len(threadEvents)
        PROVE  Len(queue) + i \in 1 .. Len(queue')
    BY <1>2
  <2>2. \A i \in 1 .. Len(queue) : i \in 1 .. Len(queue')
    BY <1>2
  <2>3. Waiting' \subseteq Waiting \cup Kept
    BY <1>2, <1>3 DEF Waiting, Kept
  <2>4. Waiting \subseteq Waiting'
    BY <1>2, <2>2 DEF Waiting
  <2>5. Kept \subseteq Waiting'
    BY <1>2, <2>1 DEF Waiting, Kept
  <2> QED  BY <2>3, <2>4, <2>5
<1>5. Kept' = {} /\ Gone' = Gone
  BY <1>1 DEF Kept, Gone
<1>6. \A i \in 1 .. Len(queue), j \in 1 .. Len(threadEvents) : queue[i].event # threadEvents[j]
  BY DEF Apart, Waiting, Kept
<1>7. ASSUME NEW i \in 1 .. Len(queue'), NEW j \in 1 .. Len(queue'),
             queue'[i].event = queue'[j].event
      PROVE  i = j
  <2>1. CASE i \in 1 .. Len(queue) /\ j \in 1 .. Len(queue)
    BY <1>2, <1>7, <2>1 DEF Apart
  <2>2. CASE i \in 1 .. Len(queue) /\ j \notin 1 .. Len(queue)
    BY <1>2, <1>3, <1>6, <1>7, <2>2
  <2>3. CASE i \notin 1 .. Len(queue) /\ j \in 1 .. Len(queue)
    BY <1>2, <1>3, <1>6, <1>7, <2>3
  <2>4. CASE i \notin 1 .. Len(queue) /\ j \notin 1 .. Len(queue)
    <3>1. i - Len(queue) = j - Len(queue)
      BY <1>3, <1>7, <2>4 DEF Apart
    <3> QED  BY <1>2, <3>1
  <2> QED  BY <2>1, <2>2, <2>3, <2>4
<1>8. /\ Kept' \cap Waiting' = {} /\ Kept' \cap Gone' = {} /\ Waiting' \cap Gone' = {}
      /\ lost' \cap (Kept' \cup Waiting' \cup Gone') = {}
      /\ lost' \cup Kept' \cup Waiting' \cup Gone' = 1 .. alloc'
  BY <1>1, <1>4, <1>5 DEF Apart
<1> QED  BY <1>1, <1>7, <1>8 DEF Apart

LEMMA StartApart ==
    ASSUME EventsTyped, Apart, NEW i \in 1 .. Len(queue), Starts(i)
    PROVE  Apart'
<1> DEFINE e == queue[i].event
<1>1. UNCHANGED <<alloc, threadEvents, lost>>
  BY DEF Starts
<1>2. /\ Len(queue') = Len(queue) - 1 /\ Len(queue) \in Nat
      /\ \A k \in 1 .. Len(queue) - 1 : queue'[k] = IF k < i THEN queue[k] ELSE queue[k + 1]
  BY Removed, QueueTyped DEF EventsTyped, Starts
<1>3. e \in Event /\ e \in Waiting
  BY QueueTyped DEF Waiting
<1>4. /\ Len(started') = Len(started) + 1 /\ started'[Len(started) + 1] = e
      /\ Len(started) \in Nat
      /\ \A k \in 1 .. Len(started) : started'[k] = started[k]
      /\ \A k \in 1 .. Len(started') : k \in 1 .. Len(started) \/ k = Len(started) + 1
  BY <1>3, Appended DEF Starts, EventsTyped
<1>5. \A k \in 1 .. Len(queue) : queue[k].event = e => k = i
  BY DEF Apart
<1> HIDE DEF e
<1>6. Gone' = Gone \cup {e}
  BY <1>4 DEF Gone
<1>7. Waiting' = Waiting \ {e}
  <2>1. ASSUME NEW k \in 1 .. Len(queue')
        PROVE  queue'[k].event \in Waiting \ {e}
    BY <1>2, <1>5 DEF Waiting
  <2>2. ASSUME NEW k \in 1 .. Len(queue), queue[k].event # e
        PROVE  queue[k].event \in Waiting'
    <3>1. CASE k < i
      BY <1>2, <3>1 DEF Waiting
    <3>2. CASE k > i
      <4>1. k - 1 \in 1 .. Len(queue') /\ queue'[k - 1] = queue[k]
        BY <1>2, <3>2
      <4> QED  BY <4>1 DEF Waiting
    <3>3. k # i
      BY <2>2 DEF e
    <3> QED  BY <1>2, <3>1, <3>2, <3>3
  <2>3. Waiting' \subseteq Waiting \ {e}
    BY <2>1 DEF Waiting
  <2>4. Waiting \ {e} \subseteq Waiting'
    BY <2>2 DEF Waiting
  <2> QED  BY <2>3, <2>4
<1>8. Kept' = Kept
  BY <1>1 DEF Kept
<1>9. ASSUME NEW j \in 1 .. Len(queue'), NEW k \in 1 .. Len(queue'),
             queue'[j].event = queue'[k].event
      PROVE  j = k
  <2> DEFINE at(l) == IF l < i THEN l ELSE l + 1
  <2>1. /\ at(j) \in 1 .. Len(queue) /\ queue'[j] = queue[at(j)]
        /\ at(k) \in 1 .. Len(queue) /\ queue'[k] = queue[at(k)]
    BY <1>2
  <2>2. at(j) = at(k)
    <3> HIDE DEF at
    <3> QED  BY <1>9, <2>1 DEF Apart
  <2> QED  BY <1>2, <2>2
<1>10. e \notin Gone
  BY <1>3 DEF Apart
<1>11. ASSUME NEW j \in 1 .. Len(started'), NEW k \in 1 .. Len(started'),
              started'[j] = started'[k]
       PROVE  j = k
  <2>1. \A l \in 1 .. Len(started) : started[l] # e
    BY <1>10 DEF Gone
  <2> QED  BY <1>4, <1>11, <2>1 DEF Apart
<1>12. /\ Kept' \cap Waiting' = {} /\ Kept' \cap Gone' = {} /\ Waiting' \cap Gone' = {}
       /\ lost' \cap (Kept' \cup Waiting' \cup Gone') = {}
       /\ lost' \cup Kept' \cup Waiting' \cup Gone' = 1 .. alloc'
  BY <1>1, <1>3, <1>6, <1>7, <1>8 DEF Apart
<1> QED  BY <1>1, <1>9, <1>11, <1>12 DEF Apart

LEMMA PurgeApart ==
    ASSUME EventsTyped, Apart, Purges
    PROVE  Apart'
<1>1. UNCHANGED <<alloc, started>> /\ threadEvents' = << >>
      /\ lost' = lost \cup Kept \cup Visible("fast")
  BY Domains DEF Purges
<1>2. PICK f \in [1 .. Len(queue') -> Nat] :
         /\ \A k \in 1 .. Len(queue') :
               f[k] \in 1 .. Len(queue) /\ queue[f[k]].home # "fast" /\ queue'[k] = queue[f[k]]
         /\ \A k, l \in 1 .. Len(queue') : k < l => f[k] < f[l]
         /\ \A i \in 1 .. Len(queue) :
               queue[i].home # "fast" => \E k \in 1 .. Len(queue') : f[k] = i
  BY PurgedQueue
<1>3. Len(queue') \in Nat /\ Len(queue) \in Nat
  BY PurgedQueue, QueueTyped
<1>4. Kept' = {} /\ Gone' = Gone
  BY <1>1 DEF Kept, Gone
<1>5. Waiting = Waiting' \cup Visible("fast")
  <2>1. Waiting' \subseteq Waiting
    BY <1>2 DEF Waiting
  <2>2. Visible("fast") \subseteq Waiting
    BY Domains DEF Waiting
  <2>3. ASSUME NEW i \in 1 .. Len(queue)
        PROVE  queue[i].event \in Waiting' \cup Visible("fast")
    <3>1. CASE queue[i].home = "fast"
      BY <3>1, Domains
    <3>2. CASE queue[i].home # "fast"
      <4>1. PICK k \in 1 .. Len(queue') : f[k] = i
        BY <1>2, <3>2
      <4>2. queue'[k] = queue[i]
        BY <1>2, <4>1
      <4> QED  BY <4>2 DEF Waiting
    <3> QED  BY <3>1, <3>2
  <2>4. Waiting \subseteq Waiting' \cup Visible("fast")
    BY <2>3 DEF Waiting
  <2> QED  BY <2>1, <2>2, <2>4
<1>6. Waiting' \cap Visible("fast") = {}
  <2>1. ASSUME NEW k \in 1 .. Len(queue'), NEW i \in 1 .. Len(queue), queue[i].home = "fast",
               queue'[k].event = queue[i].event
        PROVE  FALSE
    <3>1. f[k] = i
      BY <1>2, <2>1 DEF Apart
    <3> QED  BY <1>2, <2>1, <3>1
  <2> QED  BY <2>1, Domains DEF Waiting
<1>7. ASSUME NEW j \in 1 .. Len(queue'), NEW k \in 1 .. Len(queue'),
             queue'[j].event = queue'[k].event
      PROVE  j = k
  <2>1. f[j] = f[k]
    BY <1>2, <1>7 DEF Apart
  <2>2. f[j] \in Nat /\ f[k] \in Nat
    OBVIOUS
  <2>3. ~(j < k) /\ ~(k < j)
    <3>1. (j < k => f[j] < f[k]) /\ (k < j => f[k] < f[j])
      BY <1>2
    <3> QED  BY <2>1, <2>2, <3>1
  <2> QED  BY <1>3, <2>3
<1>8. /\ Kept' \cap Waiting' = {} /\ Kept' \cap Gone' = {} /\ Waiting' \cap Gone' = {}
      /\ lost' \cap (Kept' \cup Waiting' \cup Gone') = {}
      /\ lost' \cup Kept' \cup Waiting' \cup Gone' = 1 .. alloc'
  BY <1>1, <1>4, <1>5, <1>6 DEF Apart
<1> QED  BY <1>1, <1>7, <1>8 DEF Apart

LEMMA FreeApart ==
    ASSUME EventsTyped, Apart, Frees
    PROVE  Apart'
<1>1. /\ UNCHANGED <<alloc, started>> /\ threadEvents' = << >> /\ queue' = << >>
      /\ lost' = lost \cup Kept \cup Waiting
  BY Domains DEF Frees
<1>2. Kept' = {} /\ Waiting' = {} /\ Gone' = Gone
  BY <1>1 DEF Kept, Waiting, Gone
<1> QED  BY <1>1, <1>2 DEF Apart

LEMMA ApartStep ==
    ASSUME Structure, Apart, [Next]_vars
    PROVE  Apart'
<1>1. EventsTyped
  BY DEF Structure, TypeOK, EventsTyped
<1>2. EventStep
  BY EventSteps DEF Structure
<1>3. CASE UNCHANGED <<threadEvents, queue, alloc, origin, started, lost>>
  <2>1. Kept' = Kept /\ Waiting' = Waiting /\ Gone' = Gone
    BY <1>3 DEF Kept, Waiting, Gone
  <2> QED  BY <1>3, <2>1 DEF Apart
<1>4. CASE \E home \in Homes : PutsOn(home)
  BY <1>1, <1>4, PutApart
<1>5. CASE PutsBehind \/ Moves
  BY <1>1, <1>5, PutBehindApart, MoveApart
<1>6. CASE \E i \in 1 .. Len(queue) : Starts(i)
  BY <1>1, <1>6, StartApart
<1>7. CASE Purges \/ Frees
  BY <1>1, <1>7, PurgeApart, FreeApart
<1> QED
  BY <1>2, <1>3, <1>4, <1>5, <1>6, <1>7 DEF EventStep

Distinct(s) == \A i, j \in 1 .. Len(s) : s[i] = s[j] => i = j
Elements(s) == {s[i] : i \in 1 .. Len(s)}

(* Two sequences without repetition, and with no element in common.         *)
LEMMA Joined ==
    ASSUME NEW S, NEW a \in Seq(S), NEW b \in Seq(S),
           Distinct(a), Distinct(b), Elements(a) \cap Elements(b) = {}
    PROVE  /\ a \o b \in Seq(S) /\ Distinct(a \o b)
           /\ Elements(a \o b) = Elements(a) \cup Elements(b)
<1> DEFINE c == a \o b
<1>1. /\ c \in Seq(S) /\ Len(c) = Len(a) + Len(b) /\ Len(a) \in Nat /\ Len(b) \in Nat
      /\ \A i \in 1 .. Len(a) : c[i] = a[i]
      /\ \A i \in 1 .. Len(b) : c[Len(a) + i] = b[i]
  OBVIOUS
<1> HIDE DEF c
<1> USE DEF Distinct
<1>0. \A i \in 1 .. Len(a), j \in 1 .. Len(b) : a[i] # b[j]
  BY DEF Elements
<1>2. ASSUME NEW i \in 1 .. Len(c), i \notin 1 .. Len(a)
      PROVE  i - Len(a) \in 1 .. Len(b) /\ c[i] = b[i - Len(a)]
  <2>1. i - Len(a) \in 1 .. Len(b) /\ i = Len(a) + (i - Len(a))
    BY <1>1, <1>2
  <2> QED  BY <1>1, <2>1
<1>3. ASSUME NEW i \in 1 .. Len(c), NEW j \in 1 .. Len(c), c[i] = c[j]
      PROVE  i = j
  <2>1. CASE i \in 1 .. Len(a) /\ j \in 1 .. Len(a)
    BY <1>1, <1>3, <2>1
  <2>2. CASE i \in 1 .. Len(a) /\ j \notin 1 .. Len(a)
    BY <1>0, <1>1, <1>2, <1>3, <2>2
  <2>3. CASE i \notin 1 .. Len(a) /\ j \in 1 .. Len(a)
    <3>1. i - Len(a) \in 1 .. Len(b) /\ c[i] = b[i - Len(a)]
      BY <1>2, <2>3
    <3>2. c[j] = a[j]
      BY <1>1, <2>3
    <3> QED  BY <1>0, <1>3, <2>3, <3>1, <3>2
  <2>4. CASE i \notin 1 .. Len(a) /\ j \notin 1 .. Len(a)
    <3>1. i - Len(a) = j - Len(a)
      BY <1>2, <1>3, <2>4
    <3> QED  BY <1>1, <3>1
  <2> QED  BY <2>1, <2>2, <2>3, <2>4
<1>4. Elements(c) = Elements(a) \cup Elements(b)
  <2>1. ASSUME NEW i \in 1 .. Len(a)
        PROVE  a[i] \in Elements(c)
    BY <1>1 DEF Elements
  <2>2. ASSUME NEW i \in 1 .. Len(b)
        PROVE  b[i] \in Elements(c)
    <3>1. Len(a) + i \in 1 .. Len(c) /\ c[Len(a) + i] = b[i]
      BY <1>1
    <3> QED  BY <3>1 DEF Elements
  <2>3. ASSUME NEW i \in 1 .. Len(c)
        PROVE  c[i] \in Elements(a) \cup Elements(b)
    <3>1. CASE i \in 1 .. Len(a)
      <4>1. c[i] = a[i]
        BY <1>1, <3>1
      <4> QED  BY <3>1, <4>1 DEF Elements
    <3>2. CASE i \notin 1 .. Len(a)
      <4> DEFINE k == i - Len(a)
      <4>1. k \in 1 .. Len(b) /\ c[i] = b[k]
        BY <1>2, <3>2
      <4> HIDE DEF k
      <4> QED  BY <4>1 DEF Elements
    <3> QED  BY <3>1, <3>2
  <2>4. Elements(c) \subseteq Elements(a) \cup Elements(b)
    BY <2>3 DEF Elements
  <2>5. Elements(a) \subseteq Elements(c) /\ Elements(b) \subseteq Elements(c)
    BY <2>1, <2>2 DEF Elements
  <2> QED  BY <2>4, <2>5
<1> QED  BY <1>1, <1>3, <1>4 DEF c

LEMMA ApartIsOnce ==
    ASSUME EventsTyped, Apart
    PROVE  EachEventOnce
<1> DEFINE q == EventsOf(queue)
           a == threadEvents \o q
           b == a \o started
<1>1. /\ q \in Seq(Event) /\ Len(q) = Len(queue)
      /\ \A i \in 1 .. Len(queue) : q[i] = queue[i].event
  BY QueueTyped DEF EventsOf
<1>2. threadEvents \in Seq(Event) /\ started \in Seq(Event)
  BY DEF EventsTyped
<1> HIDE DEF q
<1>3. Elements(threadEvents) = Kept /\ Elements(q) = Waiting /\ Elements(started) = Gone
  BY <1>1 DEF Elements, Kept, Waiting, Gone
<1>4. Distinct(threadEvents) /\ Distinct(q) /\ Distinct(started)
  BY <1>1 DEF Distinct, Apart
<1>5. a \in Seq(Event) /\ Distinct(a) /\ Elements(a) = Kept \cup Waiting
  <2>1. Elements(threadEvents) \cap Elements(q) = {}
    BY <1>3 DEF Apart
  <2> QED  BY <1>1, <1>2, <1>3, <1>4, <2>1, Joined
<1> HIDE DEF a
<1>6. b \in Seq(Event) /\ Distinct(b) /\ Elements(b) = Kept \cup Waiting \cup Gone
  <2>1. Elements(a) \cap Elements(started) = {}
    BY <1>3, <1>5 DEF Apart
  <2> QED  BY <1>2, <1>3, <1>4, <1>5, <2>1, Joined
<1> HIDE DEF b
<1>7. DOMAIN b = 1 .. Len(b)
  BY <1>6
<1>8. IsInjective(b)
  BY <1>6, <1>7 DEF IsInjective, Distinct
<1>9. Range(b) = Kept \cup Waiting \cup Gone
  BY <1>6, <1>7 DEF Range, Elements
<1>10. b = threadEvents \o EventsOf(queue) \o started
  BY DEF b, a, q
<1> QED  BY <1>8, <1>9, <1>10 DEF EachEventOnce, Apart


-----------------------------------------------------------------------------
(* Handlers are called in the order of the puts.                            *)

(* What has been put is numbered up to alloc.                               *)
LEMMA Numbered ==
    ASSUME EventsTyped, Apart
    PROVE  /\ alloc \in Nat
           /\ \A i \in 1 .. Len(threadEvents) :
                 threadEvents[i] \in Event /\ threadEvents[i] \in Nat /\ threadEvents[i] <= alloc
           /\ \A i \in 1 .. Len(queue) :
                 queue[i].event \in Event /\ queue[i].event \in Nat /\ queue[i].event <= alloc
           /\ \A i \in 1 .. Len(started) :
                 started[i] \in Event /\ started[i] \in Nat /\ started[i] <= alloc
<1>1. alloc \in Nat
  BY DEF EventsTyped
<1>2. ASSUME NEW e \in Kept \cup Waiting \cup Gone
      PROVE  e \in 1 .. alloc /\ e \in Event /\ e \in Nat /\ e <= alloc
  <2>1. e \in 1 .. alloc
    BY DEF Apart
  <2> QED  BY <1>1, <2>1, LoopAssumption DEF Event, EventsTyped
<1>3. ASSUME NEW i \in 1 .. Len(threadEvents)
      PROVE  threadEvents[i] \in Event /\ threadEvents[i] \in Nat /\ threadEvents[i] <= alloc
  <2>1. threadEvents[i] \in Kept
    BY DEF Kept
  <2> QED  BY <1>2, <2>1
<1>4. ASSUME NEW i \in 1 .. Len(queue)
      PROVE  queue[i].event \in Event /\ queue[i].event \in Nat /\ queue[i].event <= alloc
  <2>1. queue[i].event \in Waiting
    BY DEF Waiting
  <2> QED  BY <1>2, <2>1
<1>5. ASSUME NEW i \in 1 .. Len(started)
      PROVE  started[i] \in Event /\ started[i] \in Nat /\ started[i] <= alloc
  <2>1. started[i] \in Gone
    BY DEF Gone
  <2> QED  BY <1>2, <2>1
<1> QED  BY <1>1, <1>3, <1>4, <1>5

(* A put leaves the origin of the events before it.                         *)
LEMMA OriginKept ==
    ASSUME EventsTyped, Apart, NEW o, NewEvent(o), alloc < MaxEvents
    PROVE  /\ alloc + 1 \in Event /\ alloc' = alloc + 1
           /\ origin'[alloc + 1] = o
           /\ \A i \in 1 .. Len(threadEvents) : origin'[threadEvents[i]] = origin[threadEvents[i]]
           /\ \A i \in 1 .. Len(queue) : origin'[queue[i].event] = origin[queue[i].event]
           /\ \A i \in 1 .. Len(started) : origin'[started[i]] = origin[started[i]]
<1>1. alloc + 1 \in Event /\ alloc \in Nat
  BY LoopAssumption DEF EventsTyped, Event
<1>2. /\ origin'[alloc + 1] = o
      /\ \A e \in Event : e # alloc + 1 => origin'[e] = origin[e]
  BY <1>1 DEF NewEvent, EventsTyped
<1>3. \A e \in Event : e \in Nat /\ e <= alloc => origin'[e] = origin[e]
  BY <1>1, <1>2
<1>4. alloc' = alloc + 1
  BY DEF NewEvent
<1> QED  BY <1>1, <1>2, <1>3, <1>4, Numbered

LEMMA PutOrdered ==
    ASSUME EventsTyped, Apart, Ordered, NEW home \in Homes, PutsOn(home)
    PROVE  Ordered'
<1> DEFINE T == [home : Homes, event : Event]
           e == alloc + 1
           m == [home |-> home, event |-> e]
<1>1. alloc < MaxEvents
  BY LoopAssumption DEF PutsOn, Room, EventsTyped
<1>2. /\ e \in Event /\ e \in Nat /\ origin'[e] = home
      /\ \A i \in 1 .. Len(threadEvents) : origin'[threadEvents[i]] = origin[threadEvents[i]]
      /\ \A i \in 1 .. Len(queue) : origin'[queue[i].event] = origin[queue[i].event]
      /\ \A i \in 1 .. Len(started) : origin'[started[i]] = origin[started[i]]
  BY <1>1, OriginKept DEF PutsOn, Event
<1>3. /\ \A i \in 1 .. Len(queue) : queue[i].event \in Nat /\ queue[i].event < e
      /\ \A i \in 1 .. Len(started) : started[i] \in Nat /\ started[i] < e
  BY Numbered
<1>4. queue \in Seq(T) /\ m \in T /\ m.home = home /\ m.event = e
  BY <1>2 DEF EventsTyped
<1>5. queue' = Append(queue, m) /\ UNCHANGED <<threadEvents, started>>
  BY DEF PutsOn
<1>6. home # "thread" /\ Home(home) = home
  BY LoopAssumption DEF Homes, Home
<1> HIDE DEF T, e, m
<1>7. /\ Len(queue') = Len(queue) + 1 /\ queue'[Len(queue) + 1] = m /\ Len(queue) \in Nat
      /\ \A i \in 1 .. Len(queue) : queue'[i] = queue[i]
      /\ \A i \in 1 .. Len(queue') : i \in 1 .. Len(queue) \/ i = Len(queue) + 1
  BY <1>4, <1>5, Appended
<1> DEFINE n == Len(queue) + 1
<1>8. ASSUME NEW i \in 1 .. Len(queue')
      PROVE  \/ /\ i \in 1 .. Len(queue) /\ queue'[i] = queue[i]
                /\ origin'[queue'[i].event] = origin[queue[i].event]
             \/ /\ i = n /\ queue'[i].event = e /\ queue'[i].home = home
                /\ origin'[queue'[i].event] = home
  BY <1>2, <1>4, <1>7
<1>9. \A i \in 1 .. Len(threadEvents') : origin'[threadEvents'[i]] = "thread"
  BY <1>2, <1>5 DEF Ordered
<1>10. ASSUME NEW i \in 1 .. Len(queue')
       PROVE  queue'[i].home = Home(origin'[queue'[i].event])
  <2>1. \A o : Home(o)' = Home(o)
    BY DEF Home
  <2> QED  BY <1>6, <1>8 DEF Ordered, Home
<1>11. \A i, j \in 1 .. Len(threadEvents') : i < j => threadEvents'[i] < threadEvents'[j]
  BY <1>5 DEF Ordered
<1>12. ASSUME NEW i \in 1 .. Len(queue'), NEW j \in 1 .. Len(queue'),
              i < j, origin'[queue'[i].event] = origin'[queue'[j].event]
       PROVE  queue'[i].event < queue'[j].event
  <2>1. i \in 1 .. Len(queue) /\ queue'[i] = queue[i]
    BY <1>7, <1>12
  <2>2. CASE j \in 1 .. Len(queue)
    <3>1. /\ queue'[j] = queue[j] /\ origin'[queue[j].event] = origin[queue[j].event]
          /\ origin'[queue[i].event] = origin[queue[i].event]
      BY <1>2, <1>7, <2>1, <2>2
    <3>2. origin[queue[i].event] = origin[queue[j].event]
      BY <1>12, <2>1, <3>1
    <3> QED  BY <1>12, <2>1, <2>2, <3>1, <3>2 DEF Ordered
  <2>3. CASE j = n
    BY <1>3, <1>4, <1>7, <2>1, <2>3
  <2> QED  BY <1>7, <2>2, <2>3
<1>13. ASSUME NEW i \in 1 .. Len(queue'), NEW j \in 1 .. Len(threadEvents'),
              origin'[queue'[i].event] = "thread"
       PROVE  queue'[i].event < threadEvents'[j]
  BY <1>5, <1>6, <1>8, <1>13 DEF Ordered
<1>14. ASSUME NEW i \in 1 .. Len(started'), NEW j \in 1 .. Len(threadEvents'),
              origin'[started'[i]] = "thread"
       PROVE  started'[i] < threadEvents'[j]
  BY <1>2, <1>5, <1>14 DEF Ordered
<1>15. ASSUME NEW i \in 1 .. Len(started'), NEW j \in 1 .. Len(queue'),
              origin'[started'[i]] = origin'[queue'[j].event]
       PROVE  started'[i] < queue'[j].event
  <2>1. i \in 1 .. Len(started) /\ started'[i] = started[i]
        /\ origin'[started[i]] = origin[started[i]]
    BY <1>2, <1>5
  <2>2. CASE j \in 1 .. Len(queue)
    <3>1. queue'[j] = queue[j] /\ origin'[queue[j].event] = origin[queue[j].event]
      BY <1>2, <1>7, <2>2
    <3>2. origin[started[i]] = origin[queue[j].event]
      BY <1>15, <2>1, <3>1
    <3> QED  BY <2>1, <2>2, <3>1, <3>2 DEF Ordered
  <2>3. CASE j = n
    BY <1>3, <1>4, <1>7, <2>1, <2>3
  <2> QED  BY <1>7, <2>2, <2>3
<1>16. StartedInOrder'
  BY <1>2, <1>5 DEF Ordered, StartedInOrder
<1> QED
  BY <1>9, <1>10, <1>11, <1>12, <1>13, <1>14, <1>15, <1>16 DEF Ordered, Home

LEMMA PutBehindOrdered ==
    ASSUME EventsTyped, Apart, Ordered, PutsBehind
    PROVE  Ordered'
<1> DEFINE e == alloc + 1
<1>1. /\ e \in Event /\ e \in Nat /\ origin'[e] = "thread"
      /\ \A i \in 1 .. Len(threadEvents) : origin'[threadEvents[i]] = origin[threadEvents[i]]
      /\ \A i \in 1 .. Len(queue) : origin'[queue[i].event] = origin[queue[i].event]
      /\ \A i \in 1 .. Len(started) : origin'[started[i]] = origin[started[i]]
  BY OriginKept DEF PutsBehind, Event
<1>2. /\ \A i \in 1 .. Len(threadEvents) : threadEvents[i] \in Nat /\ threadEvents[i] < e
      /\ \A i \in 1 .. Len(queue) : queue[i].event \in Nat /\ queue[i].event < e
      /\ \A i \in 1 .. Len(started) : started[i] \in Nat /\ started[i] < e
  BY Numbered
<1>3. threadEvents \in Seq(Event) /\ threadEvents' = Append(threadEvents, e)
      /\ UNCHANGED <<queue, started>>
  BY DEF EventsTyped, PutsBehind
<1> HIDE DEF e
<1>4. /\ Len(threadEvents') = Len(threadEvents) + 1 /\ threadEvents'[Len(threadEvents) + 1] = e
      /\ Len(threadEvents) \in Nat
      /\ \A i \in 1 .. Len(threadEvents) : threadEvents'[i] = threadEvents[i]
      /\ \A i \in 1 .. Len(threadEvents') : i \in 1 .. Len(threadEvents) \/ i = Len(threadEvents) + 1
  BY <1>1, <1>3, Appended
<1>5. \A i \in 1 .. Len(threadEvents') : origin'[threadEvents'[i]] = "thread"
  BY <1>1, <1>4 DEF Ordered
<1>6. \A i \in 1 .. Len(queue') : queue'[i].home = Home(origin'[queue'[i].event])
  BY <1>1, <1>3 DEF Ordered
<1>7. ASSUME NEW i \in 1 .. Len(threadEvents'), NEW j \in 1 .. Len(threadEvents'), i < j
      PROVE  threadEvents'[i] < threadEvents'[j]
  <2>1. i \in 1 .. Len(threadEvents)
    BY <1>4, <1>7
  <2> QED  BY <1>2, <1>4, <1>7, <2>1 DEF Ordered
<1>8. \A i, j \in 1 .. Len(queue') :
         i < j /\ origin'[queue'[i].event] = origin'[queue'[j].event]
           => queue'[i].event < queue'[j].event
  BY <1>1, <1>3 DEF Ordered
<1>9. ASSUME NEW i \in 1 .. Len(queue'), NEW j \in 1 .. Len(threadEvents'),
             origin'[queue'[i].event] = "thread"
      PROVE  queue'[i].event < threadEvents'[j]
  <2>1. /\ i \in 1 .. Len(queue) /\ queue'[i] = queue[i]
        /\ origin[queue[i].event] = "thread" /\ queue[i].event < e
    BY <1>1, <1>2, <1>3, <1>9
  <2>2. CASE j \in 1 .. Len(threadEvents)
    BY <1>4, <2>1, <2>2 DEF Ordered
  <2>3. CASE j = Len(threadEvents) + 1
    BY <1>4, <2>1, <2>3
  <2> QED  BY <1>4, <2>2, <2>3
<1>10. ASSUME NEW i \in 1 .. Len(started'), NEW j \in 1 .. Len(threadEvents'),
              origin'[started'[i]] = "thread"
       PROVE  started'[i] < threadEvents'[j]
  <2>1. /\ i \in 1 .. Len(started) /\ started'[i] = started[i]
        /\ origin[started[i]] = "thread" /\ started[i] < e
    BY <1>1, <1>2, <1>3, <1>10
  <2>2. CASE j \in 1 .. Len(threadEvents)
    BY <1>4, <2>1, <2>2 DEF Ordered
  <2>3. CASE j = Len(threadEvents) + 1
    BY <1>4, <2>1, <2>3
  <2> QED  BY <1>4, <2>2, <2>3
<1>11. \A i \in 1 .. Len(started'), j \in 1 .. Len(queue') :
         origin'[started'[i]] = origin'[queue'[j].event] => started'[i] < queue'[j].event
  BY <1>1, <1>3 DEF Ordered
<1>12. StartedInOrder'
  BY <1>1, <1>3 DEF Ordered, StartedInOrder
<1> QED
  BY <1>5, <1>6, <1>7, <1>8, <1>9, <1>10, <1>11, <1>12 DEF Ordered, Home

LEMMA MoveOrdered ==
    ASSUME EventsTyped, Apart, Ordered, Moves
    PROVE  Ordered'
<1>1. UNCHANGED <<origin, started>> /\ threadEvents' = << >>
  BY DEF Moves
<1>2. /\ Len(queue') = Len(queue) + Len(threadEvents)
      /\ Len(queue) \in Nat /\ Len(threadEvents) \in Nat
      /\ \A i \in 1 .. Len(queue) : queue'[i] = queue[i]
      /\ \A i \in 1 .. Len(threadEvents) :
            queue'[Len(queue) + i] = [home |-> "fast", event |-> threadEvents[i]]
  BY MovedQueue, Domains
<1>3. ASSUME NEW i \in 1 .. Len(queue'), i \notin 1 .. Len(queue)
      PROVE  /\ i - Len(queue) \in 1 .. Len(threadEvents)
             /\ queue'[i].event = threadEvents[i - Len(queue)]
             /\ queue'[i].home = "fast"
             /\ origin[queue'[i].event] = "thread"
  <2> DEFINE k == i - Len(queue)
  <2>1. k \in 1 .. Len(threadEvents) /\ i = Len(queue) + k
    BY <1>2, <1>3
  <2> HIDE DEF k
  <2>2. queue'[i] = [home |-> "fast", event |-> threadEvents[k]]
    BY <1>2, <2>1
  <2>3. queue'[i].event = threadEvents[k] /\ queue'[i].home = "fast"
    BY <2>2
  <2>4. origin[threadEvents[k]] = "thread"
    BY <2>1 DEF Ordered
  <2> QED  BY <2>1, <2>3, <2>4 DEF k
<1>4. \A i \in 1 .. Len(threadEvents') : FALSE
  BY <1>1
<1>5. ASSUME NEW i \in 1 .. Len(queue')
      PROVE  queue'[i].home = Home(origin'[queue'[i].event])
  <2>1. CASE i \in 1 .. Len(queue)
    BY <1>1, <1>2, <2>1 DEF Ordered
  <2>2. CASE i \notin 1 .. Len(queue)
    BY <1>1, <1>3, <2>2 DEF Home
  <2> QED  BY <2>1, <2>2
<1>6. ASSUME NEW i \in 1 .. Len(queue'), NEW j \in 1 .. Len(queue'),
             i < j, origin'[queue'[i].event] = origin'[queue'[j].event]
      PROVE  queue'[i].event < queue'[j].event
  <2>1. CASE i \in 1 .. Len(queue) /\ j \in 1 .. Len(queue)
    BY <1>1, <1>2, <1>6, <2>1 DEF Ordered
  <2>2. CASE i \in 1 .. Len(queue) /\ j \notin 1 .. Len(queue)
    <3>1. origin[queue[i].event] = "thread" /\ queue'[i] = queue[i]
      BY <1>1, <1>2, <1>3, <1>6, <2>2
    <3> QED  BY <1>3, <2>2, <3>1 DEF Ordered
  <2>3. CASE i \notin 1 .. Len(queue) /\ j \notin 1 .. Len(queue)
    <3>1. i - Len(queue) < j - Len(queue)
      BY <1>2, <1>6
    <3> QED  BY <1>3, <2>3, <3>1 DEF Ordered
  <2> QED  BY <1>2, <1>6, <2>1, <2>2, <2>3
<1>7. ASSUME NEW i \in 1 .. Len(started'), NEW j \in 1 .. Len(queue'),
             origin'[started'[i]] = origin'[queue'[j].event]
      PROVE  started'[i] < queue'[j].event
  <2>1. CASE j \in 1 .. Len(queue)
    BY <1>1, <1>2, <1>7, <2>1 DEF Ordered
  <2>2. CASE j \notin 1 .. Len(queue)
    BY <1>1, <1>3, <1>7, <2>2 DEF Ordered
  <2> QED  BY <2>1, <2>2
<1>8. StartedInOrder'
  BY <1>1 DEF Ordered, StartedInOrder
<1> QED  BY <1>4, <1>5, <1>6, <1>7, <1>8 DEF Ordered, Home

LEMMA StartOrdered ==
    ASSUME EventsTyped, Apart, Ordered, NEW i \in 1 .. Len(queue), Starts(i)
    PROVE  Ordered'
<1> DEFINE e == queue[i].event
<1>1. UNCHANGED <<origin, threadEvents>>
  BY DEF Starts
<1>2. /\ Len(queue') = Len(queue) - 1 /\ Len(queue) \in Nat
      /\ \A k \in 1 .. Len(queue) - 1 : queue'[k] = IF k < i THEN queue[k] ELSE queue[k + 1]
  BY Removed, QueueTyped DEF EventsTyped, Starts
<1>3. e \in Event
  BY QueueTyped
<1>4. PICK q : Sees(q, queue[i]) /\ \A j \in 1 .. i - 1 : ~Sees(q, queue[j])
  BY DEF Starts
<1>5. \A j \in 1 .. i - 1 : queue[j].home # queue[i].home
  BY <1>4 DEF Sees
<1>6. \A j \in 1 .. Len(queue) : queue[j].home = Home(origin[queue[j].event])
  BY DEF Ordered
<1>7. \A j \in 1 .. Len(queue) : j # i /\ origin[queue[j].event] = origin[e] => e < queue[j].event
  <2>1. SUFFICES ASSUME NEW j \in 1 .. Len(queue), j # i, origin[queue[j].event] = origin[e]
                 PROVE  e < queue[j].event
    OBVIOUS
  <2>2. queue[j].home = queue[i].home
    BY <1>6, <2>1
  <2>3. i < j
    BY <1>2, <1>5, <2>1, <2>2
  <2> QED  BY <2>1, <2>3 DEF Ordered
<1> DEFINE at(k) == IF k < i THEN k ELSE k + 1
<1>8. ASSUME NEW k \in 1 .. Len(queue')
      PROVE  at(k) \in 1 .. Len(queue) /\ at(k) # i /\ queue'[k] = queue[at(k)]
  BY <1>2
<1>9. \A k, l \in 1 .. Len(queue') : k < l => at(k) < at(l)
  BY <1>2
<1>10. /\ Len(started') = Len(started) + 1 /\ started'[Len(started) + 1] = e
       /\ Len(started) \in Nat
       /\ \A k \in 1 .. Len(started) : started'[k] = started[k]
       /\ \A k \in 1 .. Len(started') : k \in 1 .. Len(started) \/ k = Len(started) + 1
  BY <1>3, Appended DEF Starts, EventsTyped
<1> HIDE DEF e, at
<1>11. \A k \in 1 .. Len(threadEvents') : origin'[threadEvents'[k]] = "thread"
  BY <1>1 DEF Ordered
<1>12. \A k \in 1 .. Len(queue') : queue'[k].home = Home(origin'[queue'[k].event])
  BY <1>1, <1>6, <1>8
<1>13. \A k, l \in 1 .. Len(threadEvents') : k < l => threadEvents'[k] < threadEvents'[l]
  BY <1>1 DEF Ordered
<1>14. ASSUME NEW k \in 1 .. Len(queue'), NEW l \in 1 .. Len(queue'),
              k < l, origin'[queue'[k].event] = origin'[queue'[l].event]
       PROVE  queue'[k].event < queue'[l].event
  BY <1>1, <1>8, <1>9, <1>14 DEF Ordered
<1>15. ASSUME NEW k \in 1 .. Len(queue'), NEW l \in 1 .. Len(threadEvents'),
              origin'[queue'[k].event] = "thread"
       PROVE  queue'[k].event < threadEvents'[l]
  BY <1>1, <1>8, <1>15 DEF Ordered
<1>16. ASSUME NEW k \in 1 .. Len(started'), NEW l \in 1 .. Len(threadEvents'),
              origin'[started'[k]] = "thread"
       PROVE  started'[k] < threadEvents'[l]
  <2>1. CASE k \in 1 .. Len(started)
    BY <1>1, <1>10, <1>16, <2>1 DEF Ordered
  <2>2. CASE k = Len(started) + 1
    BY <1>1, <1>10, <1>16, <2>2 DEF Ordered, e
  <2> QED  BY <1>10, <2>1, <2>2
<1>17. ASSUME NEW k \in 1 .. Len(started'), NEW l \in 1 .. Len(queue'),
              origin'[started'[k]] = origin'[queue'[l].event]
       PROVE  started'[k] < queue'[l].event
  <2>1. CASE k \in 1 .. Len(started)
    BY <1>1, <1>8, <1>10, <1>17, <2>1 DEF Ordered
  <2>2. CASE k = Len(started) + 1
    BY <1>1, <1>7, <1>8, <1>10, <1>17, <2>2
  <2> QED  BY <1>10, <2>1, <2>2
<1>18. ASSUME NEW k \in 1 .. Len(started'), NEW l \in 1 .. Len(started'),
              k < l, origin'[started'[k]] = origin'[started'[l]]
       PROVE  started'[k] < started'[l]
  <2>1. k \in 1 .. Len(started) /\ started'[k] = started[k]
    BY <1>10, <1>18
  <2>2. CASE l \in 1 .. Len(started)
    <3>1. started'[l] = started[l]
      BY <1>10, <2>2
    <3> QED  BY <1>1, <1>18, <2>1, <2>2, <3>1 DEF Ordered, StartedInOrder
  <2>3. CASE l = Len(started) + 1
    BY <1>1, <1>10, <1>18, <2>1, <2>3 DEF Ordered, e
  <2> QED  BY <1>10, <2>2, <2>3
<1> QED
  BY <1>11, <1>12, <1>13, <1>14, <1>15, <1>16, <1>17, <1>18 DEF Ordered, StartedInOrder, Home

LEMMA PurgeOrdered ==
    ASSUME EventsTyped, Apart, Ordered, Purges
    PROVE  Ordered'
<1>1. UNCHANGED <<origin, started>> /\ threadEvents' = << >>
  BY DEF Purges
<1>2. PICK f \in [1 .. Len(queue') -> Nat] :
         /\ \A k \in 1 .. Len(queue') :
               f[k] \in 1 .. Len(queue) /\ queue[f[k]].home # "fast" /\ queue'[k] = queue[f[k]]
         /\ \A k, l \in 1 .. Len(queue') : k < l => f[k] < f[l]
         /\ \A i \in 1 .. Len(queue) :
               queue[i].home # "fast" => \E k \in 1 .. Len(queue') : f[k] = i
  BY PurgedQueue
<1>3. \A i \in 1 .. Len(threadEvents') : FALSE
  BY <1>1
<1>4. \A k \in 1 .. Len(queue') : queue'[k].home = Home(origin'[queue'[k].event])
  BY <1>1, <1>2 DEF Ordered
<1>5. ASSUME NEW k \in 1 .. Len(queue'), NEW l \in 1 .. Len(queue'),
             k < l, origin'[queue'[k].event] = origin'[queue'[l].event]
      PROVE  queue'[k].event < queue'[l].event
  <2>1. /\ f[k] \in 1 .. Len(queue) /\ queue'[k] = queue[f[k]]
        /\ f[l] \in 1 .. Len(queue) /\ queue'[l] = queue[f[l]]
        /\ f[k] < f[l]
    BY <1>2, <1>5
  <2> QED  BY <1>1, <1>5, <2>1 DEF Ordered
<1>6. ASSUME NEW k \in 1 .. Len(started'), NEW l \in 1 .. Len(queue'),
             origin'[started'[k]] = origin'[queue'[l].event]
      PROVE  started'[k] < queue'[l].event
  <2>1. f[l] \in 1 .. Len(queue) /\ queue'[l] = queue[f[l]]
    BY <1>2
  <2> QED  BY <1>1, <1>6, <2>1 DEF Ordered
<1>7. StartedInOrder'
  BY <1>1 DEF Ordered, StartedInOrder
<1> QED  BY <1>3, <1>4, <1>5, <1>6, <1>7 DEF Ordered, Home

LEMMA OrderedStep ==
    ASSUME Structure, Apart, Ordered, [Next]_vars
    PROVE  Ordered'
<1>1. EventsTyped
  BY DEF Structure, TypeOK, EventsTyped
<1>2. EventStep
  BY EventSteps DEF Structure
<1>3. CASE UNCHANGED <<threadEvents, queue, alloc, origin, started, lost>>
  BY <1>3 DEF Ordered, StartedInOrder, Home
<1>4. CASE \E home \in Homes : PutsOn(home)
  BY <1>1, <1>4, PutOrdered
<1>5. CASE PutsBehind \/ Moves
  BY <1>1, <1>5, PutBehindOrdered, MoveOrdered
<1>6. CASE \E i \in 1 .. Len(queue) : Starts(i)
  BY <1>1, <1>6, StartOrdered
<1>7. CASE Purges
  BY <1>1, <1>7, PurgeOrdered
<1>8. CASE Frees
  <2>1. UNCHANGED <<origin, started>> /\ threadEvents' = << >> /\ queue' = << >>
    BY <1>8 DEF Frees
  <2> QED  BY <2>1 DEF Ordered, StartedInOrder
<1> QED
  BY <1>2, <1>3, <1>4, <1>5, <1>6, <1>7, <1>8 DEF EventStep

-----------------------------------------------------------------------------
(* The theorems.                                                            *)

(* Init and every step of the loop, its threads and its handlers keep the   *)
(* inductive invariant.                                                     *)
THEOREM InductiveInvariant == Spec => []IInv
<1>1. Init => IInv
  <2>1. Init => /\ threadEvents = << >> /\ queue = << >> /\ started = << >>
                /\ lost = {} /\ alloc = 0
    BY DEF Init
  <2>2. Init => Awake
    BY <2>1 DEF Awake, NoLostWakeup, WaitServed, FastDrained, Visible
  <2>3. Init => Apart /\ Ordered
    BY <2>1 DEF Apart, Waiting, Kept, Gone, Ordered, StartedInOrder
  <2> QED  BY <2>2, <2>3, StructureInit DEF IInv
<1>2. IInv /\ [Next]_vars => IInv'
  BY StructureStep, AwakeStep, ApartStep, OrderedStep DEF IInv
<1> QED  BY <1>1, <1>2, PTL DEF Spec

(* No wake-up sent to the owner is lost, and it does not sleep on events it *)
(* could read: loop_schedule, loop_on_put and the drain after uv_run see to *)
(* it whatever the threads and the nested waits do.                         *)
THEOREM OwnerWakes == Spec => []WakesUp
<1>1. IInv => WakesUp
  <2>1. SUFFICES ASSUME Structure, Awake, Asleep
                 PROVE  /\ stack[2].reads # "none" => Visible(stack[2].reads) = {}
                        /\ Visible("fast") = {} \/ DrainSuspended("fast")
    BY DEF WakesUp, SleepsOnlyWhenDrained, Awake, IInv
  <2>2. Polls
    BY <2>1, StackFacts DEF Asleep, Running, Polls, Before
  <2> QED  BY <2>1, <2>2 DEF Awake, WaitServed, FastDrained, Asleep
<1> QED  BY <1>1, InductiveInvariant, PTL

(* Whatever the threads, the sources and the handlers do, every event put   *)
(* is waiting in one queue, given to its handler, purged, or freed with the *)
(* loop, once; and uv_run is not entered twice.                             *)
THEOREM EventsKeptApart == Spec => []EventsAccounted
<1>1. IInv => EventsAccounted
  <2>1. Structure => EventsTyped
    BY DEF Structure, TypeOK, EventsTyped
  <2>2. Structure => NoReentry
    BY DEF Structure, StackShape, NoReentry
  <2> QED  BY <2>1, <2>2, ApartIsOnce DEF EventsAccounted, Structure, IInv
<1> QED  BY <1>1, InductiveInvariant, PTL

(* The handlers of the events put on one queue, and of those another thread *)
(* scheduled, are called in the order of the puts, though handlers wait and *)
(* drain the queues again from within.                                      *)
THEOREM HandledInOrder == Spec => []StartedInOrder
<1>1. IInv => StartedInOrder
  BY DEF IInv, Ordered
<1> QED  BY <1>1, InductiveInvariant, PTL
==============================================================================

----------------------------- MODULE EventLoop -----------------------------
(***************************************************************************)
(* One main_loop_st (nvim/event/loop.c, loop.h): its owner thread, which   *)
(* nests waits, polls and event handlers on its stack, and other threads   *)
(* that hand it events with loop_schedule.                                 *)
(*                                                                         *)
(* A multiqueue is the ordered list SelectiveFifo promises: queue holds    *)
(* the events of loop->events and of its children in the order of their    *)
(* puts, each with its home.  An event is named by its number.  Of libuv   *)
(* is kept what the code relies on: a stop flag that is seen when uv_run   *)
(* begins and when it is about to block, and reset when it returns; a      *)
(* wake-up (uv_async_t) that stays pending until its callback is run.      *)
(***************************************************************************)
EXTENDS Naturals, Sequences, SequencesExt, Subsequences

CONSTANTS Threads,    \* threads that schedule events on this loop
          Children,   \* child queues of loop->events besides fast_events
          NoThread,   \* the mutex is free
          MaxEvents,  \* bound on the events ever put
          MaxWaits    \* bound on the waits nested on the owner's stack

ASSUME LoopAssumption ==
    /\ NoThread \notin Threads /\ MaxEvents \in Nat /\ MaxWaits \in Nat \ {0}
    /\ \A q \in {"root", "fast", "thread", "none"} : q \notin Children

Event == 1 .. MaxEvents
Homes == Children \cup {"root", "fast"}
Waited == Homes \cup {"none"}   \* what a wait may read; "none" is NULL
Modes == {"block", "timed", "once"}   \* timeout -1, above 0, 0

VARIABLES threadEvents,  \* loop->thread_events
          queue,         \* loop->events and its children, in order of put
          async,         \* uv_async_send was called, async_cb not yet
          stop,          \* uv.stop_flag
          recursive,     \* loop->recursive
          mutex,         \* the thread that holds loop->mutex
          pc,            \* where each thread is in loop_schedule
          stack,         \* the owner's frames, the running one first
          alloc,         \* the last event put
          origin,        \* history: the queue each event was first put on
          started,       \* history: the events whose handlers were called
          lost,          \* history: the events purged, or freed with the loop
          closed         \* loop_close has returned

vars == <<threadEvents, queue, async, stop, recursive, mutex, pc, stack,
          alloc, origin, started, lost, closed>>
ownerVars == <<recursive, stack, closed>>
queueVars == <<threadEvents, queue, async, stop, alloc, origin, started, lost>>

Places == {"check", "turned",   \* where a frame is: a wait or a drain,
           "enter", "timers", "block", "ready", "async_cb", "callbacks", "leave",
           "fresh", "waited",   \* a poll, a handler, the exit
           "drain", "close"}
Frame == [kind : {"wait", "poll", "drain", "handler", "exit"},
          reads : Waited, mode : Modes, at : Places]
Wait(q, m) == [kind |-> "wait", reads |-> q, mode |-> m, at |-> "check"]
Poll(m)    == [kind |-> "poll", reads |-> "none", mode |-> m, at |-> "enter"]
Drain(q)   == [kind |-> "drain", reads |-> q, mode |-> "once", at |-> "check"]
Handler    == [kind |-> "handler", reads |-> "none", mode |-> "once", at |-> "fresh"]
Exit       == [kind |-> "exit", reads |-> "none", mode |-> "once", at |-> "drain"]

Running(kind, at) == /\ ~closed
                     /\ Head(stack).kind = kind
                     /\ Head(stack).at = at
GoTo(at) == stack' = <<[Head(stack) EXCEPT !.at = at]>> \o Tail(stack)
Call(frame) == stack' = <<frame>> \o stack
Return == stack' = Tail(stack)
OnlyStack == UNCHANGED <<queueVars, mutex, pc, recursive, closed>>

(* Fault: the put callback of loop->events is not installed. *)
OnPutMissing(home) == stop' = stop

(* put_cb is called for a put on a child only. *)
OnPut(home) == stop' = (stop \/ home # "root")

Sees(q, m) == q = "root" \/ m.home = q
Visible(q) == {queue[i].event : i \in {j \in DOMAIN queue : Sees(q, queue[j])}}
EventsOf(s) == [i \in 1 .. Len(s) |-> s[i].event]

-----------------------------------------------------------------------------
(* The scheduling threads.                                                 *)

(* The bound leaves room for the event of the thread that has the mutex. *)
Room == alloc + (IF \E t \in Threads : pc[t] = "put" THEN 1 ELSE 0) < MaxEvents

(* One loop_schedule: lock, put, send, unlock.  Threads are joined before  *)
(* the loop is torn down (mch_exit stops the UIs first).                   *)
Lock(t) ==
    /\ pc[t] = "idle"
    /\ mutex = NoThread
    /\ Room
    /\ ~closed /\ \A i \in 1 .. Len(stack) : stack[i].kind # "exit"
    /\ mutex' = t
    /\ pc' = [pc EXCEPT ![t] = "put"]
    /\ UNCHANGED <<ownerVars, queueVars>>

NewEvent(home) ==
    /\ alloc' = alloc + 1
    /\ origin' = [origin EXCEPT ![alloc + 1] = home]

ThreadPut(t) ==
    /\ pc[t] = "put"
    /\ NewEvent("thread")
    /\ threadEvents' = Append(threadEvents, alloc + 1)
    /\ pc' = [pc EXCEPT ![t] = "send"]
    /\ UNCHANGED <<ownerVars, queue, async, stop, mutex, started, lost>>

(* Fault: the loop is not woken. *)
SendForgotten(t) ==
    /\ pc[t] = "send"
    /\ pc' = [pc EXCEPT ![t] = "unlock"]
    /\ UNCHANGED <<ownerVars, queueVars, mutex>>

Send(t) ==
    /\ pc[t] = "send"
    /\ async' = TRUE
    /\ pc' = [pc EXCEPT ![t] = "unlock"]
    /\ UNCHANGED <<ownerVars, threadEvents, queue, stop, mutex, alloc, origin,
                   started, lost>>

Unlock(t) ==
    /\ pc[t] = "unlock"
    /\ mutex' = NoThread
    /\ pc' = [pc EXCEPT ![t] = "idle"]
    /\ UNCHANGED <<ownerVars, queueVars>>

Schedule(t) == ThreadPut(t) \/ Send(t) \/ Unlock(t)

-----------------------------------------------------------------------------
(* The owner: waits.                                                       *)

Waits == Len(SelectSeq(stack, LAMBDA f : f.kind = "wait"))

(* Fault: uv_run is not counted. *)
EnterUncounted == UNCHANGED recursive

(* if(loop->recursive++) abort(): see NoReentry. *)
Enter == recursive' = recursive + 1

(* LOOP_PROCESS_EVENTS: what the queue holds, or else a poll.  A wait with *)
(* timeout 0 takes one turn.                                               *)
TakeTurn ==
    /\ \/ Running("wait", "check")
       \/ Running("wait", "turned") /\ Head(stack).mode # "once"
    /\ LET w == Head(stack) IN
       \/ /\ w.reads # "none" /\ Visible(w.reads) # {}
          /\ stack' = <<Drain(w.reads), [w EXCEPT !.at = "turned"]>> \o Tail(stack)
          /\ UNCHANGED recursive
       \/ /\ w.reads = "none" \/ Visible(w.reads) = {}
          /\ Enter
          /\ stack' = <<Poll(w.mode), [w EXCEPT !.at = "turned"]>> \o Tail(stack)
    /\ UNCHANGED <<queueVars, mutex, pc, closed>>

(* Its condition holds, or its time is over; the outermost wait is the     *)
(* editor's own and goes on until the program exits, the one of the exit   *)
(* until its queue is empty too.                                           *)
EndWait ==
    /\ ~closed
    /\ Head(stack).kind = "wait"
    /\ Len(stack) > 1
    /\ stack[2].kind = "exit" => queue = <<>>
    /\ Return
    /\ OnlyStack

-----------------------------------------------------------------------------
(* The owner: loop_poll_events, with uv_run.                               *)

(* uv_run; a stop requested before makes it return at once. *)
Run ==
    /\ Running("poll", "enter")
    /\ GoTo(IF stop THEN "leave" ELSE "timers")
    /\ OnlyStack

PutEvent(home) ==
    /\ Room
    /\ NewEvent(home)
    /\ queue' = Append(queue, [home |-> home, event |-> alloc + 1])
    /\ OnPut(home)

(* A timer, stream or process callback puts an event on its queue. *)
Callback(home) ==
    /\ \E at \in {"timers", "ready", "callbacks"} : Running("poll", at)
    /\ PutEvent(home)
    /\ UNCHANGED <<ownerVars, threadEvents, async, mutex, pc, started, lost>>

EndTimers ==
    /\ Running("poll", "timers")
    /\ GoTo("block")
    /\ OnlyStack

(* The poll ends: it may not block, its time is over, or the wake-up is    *)
(* pending, which is then among what is ready.                             *)
WakeUp ==
    /\ Running("poll", "block")
    /\ stop \/ async \/ Head(stack).mode # "block"
    /\ GoTo(IF async THEN "ready" ELSE "callbacks")
    /\ OnlyStack

(* The outside may end it at any time, and need not. *)
InputArrives ==
    /\ Running("poll", "block")
    /\ ~(stop \/ async \/ Head(stack).mode # "block")
    /\ GoTo("callbacks")
    /\ OnlyStack

(* libuv takes the wake-up back before it calls async_cb. *)
TakeAsync ==
    /\ Running("poll", "ready")
    /\ async' = FALSE
    /\ GoTo("async_cb")
    /\ UNCHANGED <<threadEvents, queue, stop, alloc, origin, started, lost,
                   mutex, pc, recursive, closed>>

(* Fault: one event for one wake-up. *)
TakenOnce == SubSeq(threadEvents, 1, 1)

(* while(!multiqueue_empty(l->thread_events)) *)
Taken == threadEvents

(* Fault: the newest event first. *)
MovedBackwards(s) == [i \in 1 .. Len(s) |-> [home |-> "fast", event |-> Reverse(s)[i]]]
Moved(s) == [i \in 1 .. Len(s) |-> [home |-> "fast", event |-> s[i]]]

(* Under the mutex, so in one step.  fast_events is a child: its put       *)
(* callback stops the loop.                                                *)
AsyncCb ==
    /\ Running("poll", "async_cb")
    /\ mutex = NoThread
    /\ threadEvents' = SubSeq(threadEvents, Len(Taken) + 1, Len(threadEvents))
    /\ queue' = queue \o Moved(Taken)
    /\ IF threadEvents = <<>> THEN UNCHANGED stop ELSE OnPut("fast")
    /\ GoTo("callbacks")
    /\ UNCHANGED <<async, alloc, origin, started, lost, mutex, pc, recursive, closed>>

(* Fault: the loop is entered again by a handler before it is left. *)
LeavePollLate ==
    /\ Running("poll", "callbacks") \/ Running("poll", "leave")
    /\ stop' = FALSE
    /\ stack' = <<Drain("fast")>> \o Tail(stack)
    /\ UNCHANGED <<threadEvents, queue, async, alloc, origin, started, lost,
                   mutex, pc, recursive, closed>>

(* uv_run returns, the loop may be entered again, and fast_events is       *)
(* processed.                                                              *)
LeavePoll ==
    /\ Running("poll", "callbacks") \/ Running("poll", "leave")
    /\ stop' = FALSE
    /\ recursive' = recursive - 1
    /\ stack' = <<Drain("fast")>> \o Tail(stack)
    /\ UNCHANGED <<threadEvents, queue, async, alloc, origin, started, lost,
                   mutex, pc, closed>>

-----------------------------------------------------------------------------
(* The owner: multiqueue_process_events and the handlers it calls.         *)

Process ==
    /\ Running("drain", "check")
    /\ \E i \in 1 .. Len(queue) :
         /\ Sees(Head(stack).reads, queue[i])
         /\ \A j \in 1 .. i - 1 : ~Sees(Head(stack).reads, queue[j])
         /\ queue' = RemoveAt(queue, i)
         /\ started' = Append(started, queue[i].event)
    /\ Call(Handler)
    /\ UNCHANGED <<threadEvents, async, stop, alloc, origin, lost, mutex, pc,
                   recursive, closed>>

EndDrain ==
    /\ Running("drain", "check")
    /\ Visible(Head(stack).reads) = {}
    /\ Return
    /\ OnlyStack

Handling == Running("handler", "fresh") \/ Running("handler", "waited")

HandlerPut(home) ==
    /\ Handling
    /\ PutEvent(home)
    /\ UNCHANGED <<ownerVars, threadEvents, async, mutex, pc, started, lost>>

(* The owner schedules on its own loop (ui_schedule_refresh). *)
HandlerSchedule ==
    /\ Handling
    /\ Room
    /\ mutex = NoThread
    /\ NewEvent("thread")
    /\ threadEvents' = Append(threadEvents, alloc + 1)
    /\ async' = TRUE
    /\ UNCHANGED <<ownerVars, queue, stop, mutex, pc, started, lost>>

(* Fault: thread_events alone is purged, but all is counted as gone. *)
PurgeHalf ==
    /\ Handling
    /\ mutex = NoThread
    /\ threadEvents' = <<>>
    /\ UNCHANGED <<queue, ownerVars, async, stop, mutex, pc, alloc, origin, started>>
    /\ lost' = lost \cup Range(threadEvents) \cup Visible("fast")

(* loop_purge *)
Purge ==
    /\ Handling
    /\ mutex = NoThread
    /\ threadEvents' = <<>>
    /\ queue' \in Selections(queue, {i \in DOMAIN queue : queue[i].home # "fast"})
    /\ lost' = lost \cup Range(threadEvents) \cup Visible("fast")
    /\ UNCHANGED <<ownerVars, async, stop, mutex, pc, alloc, origin, started>>

(* A handler waits itself: an RPC request, a job, a sleep (once each, here). *)
BeginWait(q, m) ==
    /\ Running("handler", "fresh")
    /\ Waits < MaxWaits
    /\ stack' = <<Wait(q, m), [Head(stack) EXCEPT !.at = "waited"]>> \o Tail(stack)
    /\ OnlyStack

HandlerReturns ==
    /\ Handling
    /\ Return
    /\ OnlyStack

(* event_teardown, from a handler: what is queued is processed first... *)
BeginExit ==
    /\ Handling
    /\ \A t \in Threads : pc[t] = "idle"
    /\ \A i \in 1 .. Len(stack) : stack[i].kind # "exit"
    /\ stack' = <<Drain("root"), Exit>> \o stack
    /\ OnlyStack

(* ... process_teardown waits, with no limit, for the children to exit...  *)
WaitForChildren ==
    /\ Running("exit", "drain")
    /\ stack' = <<Wait("root", "block"), [Head(stack) EXCEPT !.at = "close"]>>
                  \o Tail(stack)
    /\ OnlyStack

(* ... and loop_close frees the queues with what they hold by then.  Its   *)
(* uv_run ends when the handles are closed: none of its callbacks here.    *)
Close ==
    /\ Running("exit", "close")
    /\ closed' = TRUE
    /\ threadEvents' = <<>>
    /\ queue' = <<>>
    /\ lost' = lost \cup Range(threadEvents) \cup Range(EventsOf(queue))
    /\ UNCHANGED <<stack, recursive, async, stop, mutex, pc, alloc, origin, started>>

-----------------------------------------------------------------------------
Init ==
    /\ threadEvents = <<>>
    /\ queue = <<>>
    /\ async = FALSE
    /\ stop = FALSE
    /\ recursive = 0
    /\ mutex = NoThread
    /\ pc = [t \in Threads |-> "idle"]
    /\ stack = <<Wait("root", "block")>>
    /\ alloc = 0
    /\ origin = [e \in Event |-> "none"]
    /\ started = <<>>
    /\ lost = {}
    /\ closed = FALSE

OwnerStep ==
    \/ TakeTurn \/ EndWait
    \/ Run \/ EndTimers \/ WakeUp \/ TakeAsync \/ AsyncCb \/ LeavePoll
    \/ Process \/ EndDrain \/ HandlerSchedule \/ Purge \/ HandlerReturns
    \/ BeginExit \/ WaitForChildren \/ Close
    \/ \E h \in Children \cup {"fast"} : Callback(h)
    \/ \E h \in Homes : HandlerPut(h)
    \/ \E q \in Waited \ {"fast"}, m \in Modes : BeginWait(q, m)

Next ==
    \/ OwnerStep
    \/ InputArrives
    \/ \E t \in Threads : Lock(t) \/ Schedule(t)

(* A thread that holds the mutex goes on, and the owner runs unless its    *)
(* poll blocks.  Nothing is assumed of the outside, nor of when a nested   *)
(* wait ends.                                                              *)
Fairness == WF_vars(OwnerStep) /\ \A t \in Threads : WF_vars(Schedule(t))

Spec == Init /\ [][Next]_vars /\ Fairness

-----------------------------------------------------------------------------
TypeOK ==
    /\ threadEvents \in Seq(Event)
    /\ queue \in Seq([home : Homes, event : Event])
    /\ async \in BOOLEAN /\ stop \in BOOLEAN /\ closed \in BOOLEAN
    /\ recursive \in Nat
    /\ mutex \in Threads \cup {NoThread}
    /\ pc \in [Threads -> {"idle", "put", "send", "unlock"}]
    /\ stack \in Seq(Frame)
    /\ alloc \in 0 .. MaxEvents
    /\ origin \in [Event -> Homes \cup {"thread", "none"}]
    /\ started \in Seq(Event)
    /\ lost \subseteq Event

(* Every event put is in one place, once: waiting in thread_events or in a *)
(* queue, given to its handler, purged, or freed with the loop.            *)
EachEventOnce ==
    /\ IsInjective(threadEvents \o EventsOf(queue) \o started)
    /\ lost \cap Range(threadEvents \o EventsOf(queue) \o started) = {}
    /\ lost \cup Range(threadEvents \o EventsOf(queue) \o started) = 1 .. alloc

(* Events wait in thread_events only while a wake-up is under way: sent,   *)
(* about to be sent by the thread that holds the mutex, or taken by the    *)
(* owner, which is in async_cb.                                            *)
NoLostWakeup ==
    threadEvents # <<>> =>
        \/ async
        \/ \E t \in Threads : mutex = t /\ pc[t] = "send"
        \/ Running("poll", "async_cb")

(* The comment of loop_on_put: an event put by a callback does not wait    *)
(* for a poll to return.  A poll blocks only when nothing can be read by   *)
(* the wait it serves, nor from fast_events, except the rest of a drain    *)
(* that is itself suspended below on the stack.                            *)
Asleep == Running("poll", "block") /\ ~stop /\ Head(stack).mode = "block"
DrainSuspended(q) == \E i \in 1 .. Len(stack) :
                       stack[i].kind = "drain" /\ stack[i].reads \in {q, "root"}
SleepsOnlyWhenDrained ==
    Asleep => /\ stack[2].reads # "none" => Visible(stack[2].reads) = {}
              /\ Visible("fast") = {} \/ DrainSuspended("fast")

(* Handlers are called in the order their events were put on the same      *)
(* queue, also for events handed over from another thread, and though      *)
(* waits nest inside handlers.                                             *)
StartedInOrder ==
    \A i, j \in 1 .. Len(started) :
      (i < j /\ origin[started[i]] = origin[started[j]]) => started[i] < started[j]

(* The abort() of loop_poll_events is not reached. *)
NoReentry == recursive <= 1

(* The state is consistent: its types, one place for each event, one       *)
(* uv_run.                                                                 *)
EventsAccounted == TypeOK /\ EachEventOnce /\ NoReentry

(* The owner wakes up: no wake-up sent to it is lost, and it does not      *)
(* sleep on what it could read.                                            *)
WakesUp == NoLostWakeup /\ SleepsOnlyWhenDrained

(* An event scheduled from another thread is handled, purged or freed,     *)
(* unless the owner sleeps in a nested wait that a handler called from a   *)
(* drain of fast_events began: then the rest waits for what ends it.       *)
Stuck == Asleep /\ ~async /\ DrainSuspended("fast")
Scheduled(e) == e <= alloc /\ origin[e] = "thread"
Settled(e) == e \in Range(started) \cup lost
Delivered == \A e \in Event : Scheduled(e) ~> (Settled(e) \/ Stuck)

=============================================================================

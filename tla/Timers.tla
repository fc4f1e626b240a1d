------------------------------- MODULE Timers --------------------------------
(***************************************************************************)
(* The timers of a script: event/time.c and timer_start(), timer_pause(),  *)
(* timer_stop() and timer_stopall() of eval.c.  A timer fires in a poll    *)
(* and puts an event on a queue of its own, under main_loop.events; the    *)
(* main loop calls the callback, in which a script may start, pause and    *)
(* stop timers and wait: :sleep processes main_loop.events too, so that    *)
(* callbacks nest, also those of one timer; jobwait() polls without.       *)
(***************************************************************************)
EXTENDS Integers, FiniteSets, Sequences, Subsequences

CONSTANTS Timers,    \* the timers
          Repeats,   \* how often one may be called: numbers and Forever
          MaxNested  \* bound on the :sleeps in each other

Forever == -1
None == "no timer"

ASSUME TimersAssumption ==
    /\ IsFiniteSet(Timers) /\ None \notin Timers
    /\ Repeats \subseteq (Nat \ {0}) \cup {Forever}
    /\ MaxNested \in Nat

VARIABLES
    timer,   \* each timer_st, with the handle of its watcher and its history
    events,  \* the timers with an event in main_loop.events, oldest first
    stack,   \* the callbacks that run and the :sleeps
    polling  \* the main thread is in uv_run

vars == <<timer, events, stack, polling>>

NewTimer == [at |-> "none",      \* none, known (in the map), freed
             zero |-> FALSE,     \* its timeout is 0
             repeat |-> 1,       \* as given to timer_start
             left |-> 1,         \* repeat_count
             refs |-> 0, stopped |-> FALSE, paused |-> FALSE,
             armed |-> FALSE,    \* the uv_timer_t is active
             closed |-> FALSE,   \* the callback of its uv_close was called
             \* history
             calls |-> 0,        \* how often it was called, if that is bounded
             missed |-> FALSE]   \* due while it was paused, with a timeout of 0

Freed == [NewTimer EXCEPT !.at = "freed"]

Top == stack[Len(stack)]
Below == SubSeq(stack, 1, Len(stack) - 1)

Callback(t) == [op |-> "callback", timer |-> t, draining |-> FALSE]
Sleep == [op |-> "sleep", timer |-> None, draining |-> FALSE]

Running == {stack[i].timer : i \in 1 .. Len(stack)} \ {None}

(* Typed, or in a callback. *)
Script == ~polling /\ Top.op \in {"main", "callback"}

Known(t) == timer[t].at = "known"

-----------------------------------------------------------------------------
(* timer_stop, which closes the handle *)
TimerStop(r) ==
    IF r.stopped THEN r
    ELSE [r EXCEPT !.stopped = TRUE, !.armed = FALSE]

(* Fault: one reference is left over. *)
DecrefLate(r) == IF r.refs = 0 THEN Freed ELSE [r EXCEPT !.refs = @ - 1]

(* timer_decref *)
Decref(r) == IF r.refs = 1 THEN Freed ELSE [r EXCEPT !.refs = @ - 1]

(* f_timer_start *)
TimerStart(t, zero, n) ==
    /\ Script /\ timer[t].at = "none"
    /\ timer' = [timer EXCEPT ![t] = [NewTimer EXCEPT !.at = "known", !.zero = zero, !.repeat = n,
                                                      !.left = n, !.refs = 1, !.armed = TRUE]]
    /\ UNCHANGED <<events, stack, polling>>

(* f_timer_pause *)
TimerPause(t) ==
    /\ Script /\ Known(t)
    /\ \E p \in BOOLEAN \ {timer[t].paused} : timer' = [timer EXCEPT ![t].paused = p]
    /\ UNCHANGED <<events, stack, polling>>

(* f_timer_stop; f_timer_stopall stops all that are in the map *)
Stop(T) ==
    /\ Script /\ \E t \in T : Known(t)
    /\ timer' = [t \in Timers |-> IF t \in T /\ Known(t) THEN TimerStop(timer[t]) ELSE timer[t]]
    /\ UNCHANGED <<events, stack, polling>>

(* do_sleep *)
StartSleep ==
    /\ Script
    /\ Len(stack) <= 2 * MaxNested   \* callbacks and sleeps take turns
    /\ stack' = Append(stack, Sleep)
    /\ UNCHANGED <<timer, events, polling>>

(* It is over after a poll, or when there is no event left.                *)
EndSleep ==
    /\ ~polling /\ Top.op = "sleep" /\ (Top.draining => events = <<>>)
    /\ stack' = Below
    /\ UNCHANGED <<timer, events, polling>>

-----------------------------------------------------------------------------
(* The loop.                                                               *)

(* The main loop and :sleep poll when there is no event; a script that     *)
(* waits for the events of another queue polls though there are some.      *)
Poll ==
    /\ ~polling /\ (Top.op = "sleep" => events = <<>>)
    /\ polling' = TRUE
    /\ stack' = [stack EXCEPT ![Len(stack)].draining = FALSE]
    /\ UNCHANGED <<timer, events>>

(* Fault: a blocked timer queues one event after another. *)
BlocksNever(t) == FALSE

(* The timer is blockable and has an event that waits. *)
Blocks(t) == \E i \in 1 .. Len(events) : events[i] = t

(* time_watcher_cb.  With a timeout of 0 the uv_timer_t does not repeat.   *)
Fire(t) ==
    /\ polling /\ timer[t].armed
    /\ timer' = [timer EXCEPT ![t].armed = ~timer[t].zero]
    /\ events' = IF Blocks(t) THEN events ELSE Append(events, t)
    /\ UNCHANGED <<stack, polling>>

Closing == {t \in Timers : timer[t].stopped /\ ~timer[t].closed}

(* Fault: the events of a closed timer stay. *)
KeptAll == {events}

(* What timer_close_cb leaves of main_loop.events: it frees the queues of  *)
(* the timers, with their events.                                          *)
Kept == Selections(events, {i \in DOMAIN events : events[i] \notin Closing})

(* The poll ends; the callbacks of the closed handles come last.           *)
LeavePoll ==
    /\ polling
    /\ polling' = FALSE
    /\ timer' = [t \in Timers |->
                   IF t \in Closing
                   THEN Decref([timer[t] EXCEPT !.closed = TRUE, !.at = "unknown"])
                   ELSE timer[t]]
    /\ events' \in Kept
    /\ UNCHANGED <<stack>>

-----------------------------------------------------------------------------
(* An event: time_event, timer_due_cb.                                     *)

(* Fault: a timer that was stopped is called once more. *)
PausedOnly(t) == timer[t].paused

(* The event does nothing. *)
Silent(t) == timer[t].stopped \/ timer[t].paused

(* Fault: the timer stops one call too late. *)
CountPastEnd(r) ==
    IF r.left < 0 THEN r
    ELSE IF r.left = 0 THEN TimerStop(r) ELSE [r EXCEPT !.left = @ - 1]

(* The call is counted before it is made; with the last one the timer      *)
(* stops.                                                                  *)
Count(r) ==
    IF r.left < 0 THEN r
    ELSE IF r.left = 1 THEN TimerStop([r EXCEPT !.left = 0]) ELSE [r EXCEPT !.left = @ - 1]

(* Fault: the callback does not hold the timer. *)
HeldNot(r) == r

(* The callback holds the timer. *)
Held(r) == [r EXCEPT !.refs = @ + 1]

Called(r) == IF r.repeat = Forever THEN r ELSE [r EXCEPT !.calls = @ + 1]

TakeEvent ==
    /\ ~polling /\ Top.op # "callback" /\ events # <<>>
    /\ events' = Tail(events)
    /\ LET t == Head(events)
           here == [stack EXCEPT ![Len(stack)].draining = (Top.op = "sleep")]
       IN  IF Silent(t)
           THEN /\ stack' = here
                /\ timer' = [timer EXCEPT ![t].missed = @ \/ timer[t].zero]
           ELSE /\ stack' = Append(here, Callback(t))
                /\ timer' = [timer EXCEPT ![t] = Count(Held(Called(@)))]
    /\ UNCHANGED polling

(* Fault: a timer without a count is not started again. *)
RestartsCounted(r) == r.zero /\ ~r.stopped /\ r.left > 0

(* A timeout of 0 starts the timer again, after the call. *)
Restarts(r) == r.zero /\ ~r.stopped

EndCallback ==
    /\ ~polling /\ Top.op = "callback"
    /\ LET r == timer[Top.timer]
       IN  timer' = [timer EXCEPT ![Top.timer] =
                       Decref(IF Restarts(r) THEN [r EXCEPT !.armed = TRUE] ELSE r)]
    /\ stack' = Below
    /\ UNCHANGED <<events, polling>>

-----------------------------------------------------------------------------
Init ==
    /\ timer = [t \in Timers |-> NewTimer]
    /\ events = <<>>
    /\ stack = <<[op |-> "main", timer |-> None, draining |-> FALSE]>>
    /\ polling = FALSE

Next ==
    \/ \E t \in Timers : \/ \E zero \in BOOLEAN, n \in Repeats : TimerStart(t, zero, n)
                         \/ TimerPause(t) \/ Stop({t}) \/ Fire(t)
    \/ Stop(Timers) \/ StartSleep \/ EndSleep
    \/ Poll \/ LeavePoll \/ TakeEvent \/ EndCallback

(* The main thread goes on, each callback and each wait ends, and time     *)
(* passes.                                                                 *)
Fairness ==
    /\ WF_vars(Poll) /\ WF_vars(LeavePoll) /\ SF_vars(TakeEvent) /\ SF_vars(EndSleep)
    /\ \A n \in 2 .. 2 * MaxNested + 2 : SF_vars(Len(stack) = n /\ EndCallback)
    /\ \A t \in Timers : SF_vars(Fire(t))

Spec == Init /\ [][Next]_vars /\ Fairness
-----------------------------------------------------------------------------
Record == [at : {"none", "known", "unknown", "freed"}, zero : BOOLEAN,
           repeat : Repeats \cup {1}, left : Nat \cup {Forever}, refs : Nat,
           stopped : BOOLEAN, paused : BOOLEAN, armed : BOOLEAN, closed : BOOLEAN,
           calls : Nat, missed : BOOLEAN]
Frame == [op : {"main", "callback", "sleep"}, timer : Timers \cup {None}, draining : BOOLEAN]

TypeOK ==
    /\ timer \in [Timers -> Record]
    /\ events \in Seq(Timers)
    /\ stack \in Seq(Frame) /\ Len(stack) \in 1 .. 2 * MaxNested + 2
    /\ polling \in BOOLEAN

(* A timer is called as often as timer_start said, also when its callback  *)
(* sleeps and is called again in the sleep.                                *)
AtMostRepeat ==
    \A t \in Timers : timer[t].repeat # Forever => timer[t].calls <= timer[t].repeat

(* A blocked main loop finds one event of each timer, not one for each     *)
(* time it fired.                                                          *)
OneEventEach == \A i, j \in 1 .. Len(events) : events[i] = events[j] => i = j

(* A running callback has its timer, though a script stopped it and its    *)
(* handle was closed in a sleep of the callback.                           *)
CallbackHasTimer == \A t \in Running : timer[t].at \in {"known", "unknown"}

(* A timer whose handle is closed, or that is freed, is not active and has *)
(* no event: its queue is freed, and need not be empty then.               *)
ClosedIsQuiet ==
    \A t \in Timers : timer[t].at \in {"unknown", "freed"} =>
        ~timer[t].armed /\ \A i \in 1 .. Len(events) : events[i] # t

(* The state is consistent. *)
CalledInTurn == TypeOK /\ AtMostRepeat /\ OneEventEach

(* Nothing uses a timer after it was closed or freed. *)
TimerOutlivesUse == CallbackHasTimer /\ ClosedIsQuiet

CallbacksOf(t) == Cardinality({i \in 1 .. Len(stack) : stack[i].timer = t})

(* No callback of a timer starts once it was stopped, though an event of   *)
(* it was in the queue.                                                    *)
StoppedIsSilent ==
    [][\A t \in Timers : timer[t].stopped => CallbacksOf(t)' <= CallbacksOf(t)]_vars

(* A stopped timer is freed once its callbacks have returned (while a      *)
(* callback sleeps the sleep may go on for ever: it processes events until *)
(* none is left, and another timer may fire in each call of its callback). *)
StoppedIsFreed == \A t \in Timers : []<>(timer[t].stopped => t \in Running)

Goes(t) == Known(t) /\ ~timer[t].stopped /\ ~timer[t].paused

(* A timer that is neither stopped nor paused is called again and again,   *)
(* if it was not, with a timeout of 0, due while it was paused.            *)
CalledAgain ==
    \A t \in Timers : <>[](Goes(t) /\ ~timer[t].missed) => []<>(t \in Running)
=============================================================================

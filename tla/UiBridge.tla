------------------------------ MODULE UiBridge ------------------------------
(***************************************************************************)
(* The built-in terminal UI: the main thread draws by scheduling calls on  *)
(* the loop of the UI thread through a bridge (nvim/ui_bridge.c), the UI   *)
(* thread schedules refreshes and typed keys on the main loop              *)
(* (nvim/tui/tui.c, nvim/tui/input.c), and each waits for the other in     *)
(* places: attach, suspend and stop on one side, flush_input on the other. *)
(*                                                                         *)
(* A loop is what EventLoop shows it to be: thread_events are moved to     *)
(* fast_events by a poll, and handled in order after it.  A refresh, and   *)
(* what the editor draws between two flushes, is one call "draw"; what     *)
(* main reads and runs besides its events is left out.  Keys are counted.  *)
(***************************************************************************)
EXTENDS Naturals, Sequences

CONSTANTS TooMany,      \* TOO_MANY_EVENTS
          InputRoom,    \* the keys that fit the input buffer
          MaxCalls,     \* bound on the draws and flushes of the editor
          MaxSuspends,  \* bound on :suspend
          MaxKeys,      \* bound on the keys typed, and on the parts of one
          MaxEnds,      \* bound on the ends of the input
          MaxSignals    \* bound on the SIGWINCH, and on the SIGCONT not for us

ASSUME BridgeAssumption ==
    {TooMany, InputRoom, MaxCalls, MaxSuspends, MaxKeys, MaxEnds,
     MaxSignals} \subseteq Nat

VARIABLES
    \* the main thread
    main,         \* where it is
    mainEvents,   \* its fast and thread events
    buffered,     \* input_buffer of os/input.c
    \* the bridge
    locked,       \* main holds bridge->mutex
    ready, stopped,
    \* the UI thread
    ui,           \* where it is
    nested,       \* it is in suspend_event, above another drain
    uiThread,     \* thread_events of tui_loop
    uiFast,       \* fast_events of tui_loop
    terminal,     \* between tui_terminal_start and tui_terminal_stop
    stopping,     \* tuidata_st.stop
    contReceived, \* tuidata_st.cont_received
    keys,         \* key_buffer
    waiting,      \* terminal_input_st.waiting
    reading,      \* read_stream is read
    keyTimer,     \* timer_handle runs: a part of a key was read
    \* counters and history
    spent,        \* what of the bounds was used
    frozen,       \* suspended by SIGTSTP, SIGCONT not sent yet
    missed,       \* what became of the calls that were not drawn
    lateRefresh   \* main handled a refresh while it waited for the stop

mainVars == <<main, mainEvents, buffered>>
bridgeVars == <<locked, ready, stopped>>
uiVars == <<ui, nested, uiFast, terminal, stopping, contReceived>>
terminalVars == <<keys, waiting>>
inputVars == <<terminalVars, reading, keyTimer>>
history == <<spent, frozen, missed, lateRefresh>>
vars == <<mainVars, bridgeVars, uiVars, uiThread, inputVars, history>>

Calls == {"draw", "flush", "suspend", "stop"}
UiEvents == Calls \cup {"suspend_event", "winch", "cont", "restart"}

Spend(what, bound) == /\ spent[what] < bound
                      /\ spent' = [spent EXCEPT ![what] = @ + 1]

(* UI_CALL, tui_scheduler: one loop_schedule on the loop of the UI.        *)
UiCall(call) ==
    IF ui = "dead"
    THEN missed' = missed \cup {"freed"} /\ UNCHANGED uiThread
    ELSE uiThread' = Append(uiThread, call) /\ UNCHANGED missed

-----------------------------------------------------------------------------
(* The main thread.                                                        *)

(* ui_bridge_attach returns; ui_attach_impl refreshes. *)
Attached ==
    /\ main = "attach" /\ ready /\ ~locked
    /\ main' = "run"
    /\ UiCall("draw")
    /\ UNCHANGED <<mainEvents, buffered, bridgeVars, uiVars, inputVars, spent,
                   frozen, lateRefresh>>

Draw(call) ==
    /\ main = "run"
    /\ Spend("calls", MaxCalls)
    /\ UiCall(call)
    /\ UNCHANGED <<mainVars, bridgeVars, uiVars, inputVars, frozen, lateRefresh>>

(* Fault: the event is scheduled before the mutex is taken. *)
SuspendCallUnlocked ==
    /\ main = "run"
    /\ Spend("suspends", MaxSuspends)
    /\ UiCall("suspend")
    /\ main' = "suspending"
    /\ UNCHANGED <<bridgeVars, mainEvents, buffered, uiVars, inputVars, frozen,
                   lateRefresh>>

(* ui_bridge_suspend, under the mutex until it waits. *)
SuspendCall ==
    /\ main = "run"
    /\ Spend("suspends", MaxSuspends)
    /\ UiCall("suspend")
    /\ main' = "suspending"
    /\ locked' = TRUE
    /\ UNCHANGED <<ready, stopped, mainEvents, buffered, uiVars, inputVars,
                   frozen, lateRefresh>>

(* Fault: the flag of the last time is left. *)
NotReadyForgotten == UNCHANGED ready
NotReady == ready' = FALSE

SuspendWait ==
    /\ main = "suspending"
    /\ NotReady
    /\ locked' = FALSE
    /\ main' = "suspended"
    /\ UNCHANGED <<stopped, mainEvents, buffered, uiVars, uiThread, inputVars, history>>

Resume ==
    /\ main = "suspended" /\ ready
    /\ main' = "run"
    /\ UNCHANGED <<mainEvents, buffered, bridgeVars, uiVars, uiThread, inputVars, history>>

(* ui_bridge_stop *)
StopCall ==
    /\ main = "run"
    /\ stopped' = FALSE
    /\ UiCall("stop")
    /\ main' = "check"
    /\ UNCHANGED <<mainEvents, buffered, locked, ready, uiVars, inputVars, spent,
                   frozen, lateRefresh>>

CheckStopped ==
    /\ main = "check"
    /\ main' = IF stopped THEN "join" ELSE "poll"
    /\ UNCHANGED <<mainEvents, buffered, bridgeVars, uiVars, uiThread, inputVars, history>>

(* Fault: the bridge is freed as soon as the UI has stopped. *)
JoinSkipped ==
    /\ main = "join"
    /\ main' = "gone"
    /\ UNCHANGED <<mainEvents, buffered, bridgeVars, uiVars, uiThread, inputVars, history>>

(* The thread is joined, the bridge detached and freed. *)
Join ==
    /\ main = "join" /\ ui = "dead"
    /\ main' = "gone"
    /\ UNCHANGED <<mainEvents, buffered, bridgeVars, uiVars, uiThread, inputVars, history>>

(* Fault: main waits for the stop without polling its loop. *)
PollingNot == main = "run"

(* Main handles the events of its loop: in ui_bridge_stop, and when the    *)
(* editor waits for input.                                                 *)
Polling == main = "poll" \/ main = "run"

(* loop_poll_events(&main_loop, 10) returns when its events are handled or *)
(* its time is over without one.                                           *)
EndPoll ==
    /\ main = "poll" /\ mainEvents = <<>>
    /\ main' = "check"
    /\ UNCHANGED <<mainEvents, buffered, bridgeVars, uiVars, uiThread, inputVars, history>>

(* ui_refresh_event, when main is in the middle of a redraw or asks in     *)
(* os_breakcheck for CTRL-C: the refresh is scheduled again, for the next  *)
(* poll.                                                                   *)
PostponeRefresh ==
    /\ Polling /\ mainEvents # <<>> /\ Head(mainEvents) = "refresh"
    /\ mainEvents' = Append(Tail(mainEvents), "refresh")
    /\ main' = IF main = "poll" THEN "check" ELSE main
    /\ UNCHANGED <<buffered, bridgeVars, uiVars, uiThread, inputVars, history>>

(* ui_refresh_event: the screen is drawn anew. *)
HandleRefresh ==
    /\ Polling /\ mainEvents # <<>> /\ Head(mainEvents) = "refresh"
    /\ mainEvents' = Tail(mainEvents)
    /\ UiCall("draw")
    /\ lateRefresh' = (lateRefresh \/ main = "poll")
    /\ UNCHANGED <<main, buffered, bridgeVars, uiVars, inputVars, spent, frozen>>

(* Fault: the room is not looked at. *)
ConsumedAll == keys

(* input_enqueue takes what there is room for. *)
Consumed == IF keys <= InputRoom - buffered THEN keys ELSE InputRoom - buffered

(* wait_input_enqueue *)
HandleInput ==
    /\ Polling /\ mainEvents # <<>> /\ Head(mainEvents) = "input"
    /\ mainEvents' = Tail(mainEvents)
    /\ keys' = keys - Consumed
    /\ buffered' = buffered + Consumed
    /\ waiting' = FALSE
    /\ UNCHANGED <<main, bridgeVars, uiVars, uiThread, reading, keyTimer, history>>

(* input_done_event: the editor will exit, see StopCall, when it wants to  *)
(* read more than was typed.                                               *)
HandleDone ==
    /\ Polling /\ mainEvents # <<>> /\ Head(mainEvents) = "done"
    /\ mainEvents' = Tail(mainEvents)
    /\ UNCHANGED <<main, buffered, bridgeVars, uiVars, uiThread, inputVars, history>>

(* The editor reads what was typed. *)
ReadInput ==
    /\ main = "run" /\ buffered > 0
    /\ buffered' = 0
    /\ UNCHANGED <<main, mainEvents, bridgeVars, uiVars, uiThread, inputVars, history>>

-----------------------------------------------------------------------------
(* The UI thread.                                                          *)

(* CONTINUE, under the mutex. *)
Continue == ~locked /\ ready' = TRUE

(* tui_terminal_start, tui_terminal_stop, with the input of the terminal.  *)
StartTerminal == terminal' = TRUE /\ reading' = TRUE /\ UNCHANGED keyTimer
StopTerminal == terminal' = FALSE /\ reading' = FALSE /\ keyTimer' = FALSE

(* tui_main, to its loop. *)
Start ==
    /\ ui = "start"
    /\ Continue
    /\ StartTerminal
    /\ ui' = "poll"
    /\ UNCHANGED <<mainVars, locked, stopped, nested, uiThread, uiFast, stopping,
                   contReceived, terminalVars, history>>

(* The poll of tui_main, or the one of suspend_event, runs one callback or *)
(* more and then drains fast_events.                                       *)
Callbacks == ui \in {"poll", "callbacks"}

(* async_cb *)
AsyncCb ==
    /\ Callbacks /\ uiThread # <<>>
    /\ uiFast' = uiFast \o uiThread
    /\ uiThread' = <<>>
    /\ ui' = "callbacks"
    /\ UNCHANGED <<mainVars, bridgeVars, nested, terminal, stopping, contReceived,
                   inputVars, history>>

(* A signal's watcher puts an event.  SIGWINCH is not watched while the    *)
(* terminal is left.                                                       *)
Signal(s) ==
    /\ Callbacks
    /\ s = "winch" => terminal
    /\ IF s = "cont" /\ frozen
       THEN frozen' = FALSE /\ UNCHANGED spent
       ELSE Spend(s, MaxSignals) /\ UNCHANGED frozen
    /\ uiFast' = Append(uiFast, s)
    /\ ui' = "callbacks"
    /\ UNCHANGED <<mainVars, bridgeVars, nested, uiThread, terminal, stopping,
                   contReceived, inputVars, missed, lateRefresh>>

(* flush_input: main is asked to take the keys. *)
AskForInput == /\ mainEvents' = Append(mainEvents, "input")
               /\ waiting' = TRUE

(* What was read makes n keys more, which main is asked to take.           *)
Keys(n) ==
    /\ Callbacks
    /\ Spend("keys", MaxKeys)
    /\ keys' = keys + n
    /\ AskForInput
    /\ ui' = "flush"
    /\ UNCHANGED <<main, buffered, bridgeVars, nested, uiThread, uiFast, terminal,
                   stopping, contReceived, reading, frozen, missed, lateRefresh>>

(* read_cb, called by uv_run: a key is typed, or the part of one, for the  *)
(* rest of which 'ttimeoutlen' is waited.                                  *)
Type == \E n \in {0, 1} : reading /\ Keys(n) /\ keyTimer' = (keyTimer \/ n = 0)

(* timer_cb: the part is taken for a key, if it is still there.            *)
KeyTimeout == \E n \in {0, 1} : keyTimer /\ Keys(n) /\ keyTimer' = FALSE

(* read_cb at the end of the input: the first time stdin may be a file or  *)
(* a pipe, stderr is then read in its place; otherwise main is told.       *)
EndOfInput ==
    /\ Callbacks /\ reading
    /\ Spend("ends", MaxEnds)
    /\ reading' = FALSE
    /\ \/ /\ spent["ends"] = 0
          /\ uiFast' = Append(uiFast, "restart") /\ UNCHANGED mainEvents
       \/ mainEvents' = Append(mainEvents, "done") /\ UNCHANGED uiFast
    /\ ui' = "callbacks"
    /\ UNCHANGED <<main, buffered, bridgeVars, nested, uiThread, terminal, stopping,
                   contReceived, terminalVars, keyTimer, frozen, missed, lateRefresh>>

(* Fault: what is asked for is not waited for. *)
FlushInputAsync ==
    /\ ui = "flush"
    /\ ui' = "callbacks"
    /\ UNCHANGED <<mainVars, bridgeVars, nested, uiThread, uiFast, terminal,
                   stopping, contReceived, inputVars, history>>

(* Answered; asked again while keys are left. *)
FlushInput ==
    /\ ui = "flush" /\ ~waiting
    /\ IF keys = 0
       THEN ui' = "callbacks" /\ UNCHANGED <<mainEvents, waiting>>
       ELSE AskForInput /\ UNCHANGED ui
    /\ UNCHANGED <<main, buffered, bridgeVars, nested, uiThread, uiFast, terminal,
                   stopping, contReceived, keys, reading, keyTimer, history>>

LeavePoll ==
    /\ ui = "callbacks"
    /\ ui' = "drain"
    /\ UNCHANGED <<mainVars, bridgeVars, nested, uiThread, uiFast, terminal,
                   stopping, contReceived, inputVars, history>>

(* The event e is taken out of fast_events to be handled. *)
Handles(e) == ui = "drain" /\ uiFast # <<>> /\ Head(uiFast) = e

HandleDraw ==
    /\ Handles("draw")
    /\ uiFast' = Tail(uiFast)
    /\ missed' = IF terminal THEN missed ELSE missed \cup {"no terminal"}
    /\ UNCHANGED <<mainVars, bridgeVars, ui, nested, uiThread, terminal, stopping,
                   contReceived, inputVars, spent, frozen, lateRefresh>>

(* tui_flush purges both queues when thread_events is flooded. *)
HandleFlush ==
    /\ Handles("flush")
    /\ IF Len(uiThread) > TooMany
       THEN uiThread' = <<>> /\ uiFast' = <<>> /\ missed' = missed \cup {"purged"}
       ELSE /\ uiFast' = Tail(uiFast)
            /\ missed' = IF terminal THEN missed ELSE missed \cup {"no terminal"}
            /\ UNCHANGED uiThread
    /\ UNCHANGED <<mainVars, bridgeVars, ui, nested, terminal, stopping,
                   contReceived, inputVars, spent, frozen, lateRefresh>>

(* tui_suspend *)
HandleSuspend ==
    /\ Handles("suspend")
    /\ uiFast' = Append(Tail(uiFast), "suspend_event")
    /\ UNCHANGED <<mainVars, bridgeVars, ui, nested, uiThread, terminal, stopping,
                   contReceived, inputVars, history>>

(* suspend_event, until its own polls: the process stops on SIGTSTP and    *)
(* SIGCONT will be sent to it.                                             *)
BeginSuspend ==
    /\ Handles("suspend_event")
    /\ uiFast' = Tail(uiFast)
    /\ StopTerminal
    /\ contReceived' = FALSE
    /\ nested' = TRUE
    /\ frozen' = TRUE
    /\ ui' = "poll"
    /\ UNCHANGED <<mainVars, bridgeVars, uiThread, stopping, terminalVars, spent,
                   missed, lateRefresh>>

(* tui_stop *)
HandleStop ==
    /\ Handles("stop")
    /\ uiFast' = Tail(uiFast)
    /\ StopTerminal
    /\ stopping' = TRUE
    /\ UNCHANGED <<mainVars, bridgeVars, ui, nested, uiThread, contReceived,
                   terminalVars, history>>

(* sigwinch_cb *)
HandleWinch ==
    /\ Handles("winch")
    /\ uiFast' = Tail(uiFast)
    /\ mainEvents' = Append(mainEvents, "refresh")
    /\ UNCHANGED <<main, buffered, bridgeVars, ui, nested, uiThread, terminal,
                   stopping, contReceived, inputVars, history>>

(* sigcont_cb *)
HandleCont ==
    /\ Handles("cont")
    /\ uiFast' = Tail(uiFast)
    /\ contReceived' = TRUE
    /\ UNCHANGED <<mainVars, bridgeVars, ui, nested, uiThread, terminal, stopping,
                   inputVars, history>>

(* restart_reading, on the stream of stderr. *)
HandleRestart ==
    /\ Handles("restart")
    /\ uiFast' = Tail(uiFast)
    /\ reading' = TRUE
    /\ UNCHANGED <<mainVars, bridgeVars, ui, nested, uiThread, terminal, stopping,
                   contReceived, terminalVars, keyTimer, history>>

(* suspend_event goes on when SIGCONT was received: it tells main, and     *)
(* returns into the drain that called it.                                  *)
EndSuspend ==
    /\ ui = "drain" /\ uiFast = <<>> /\ nested /\ contReceived
    /\ Continue
    /\ StartTerminal
    /\ nested' = FALSE
    /\ UNCHANGED <<mainVars, locked, stopped, ui, uiThread, uiFast, stopping,
                   contReceived, terminalVars, history>>

PollAgain ==
    /\ ui = "drain" /\ uiFast = <<>>
    /\ IF nested THEN ~contReceived ELSE ~stopping
    /\ ui' = "poll"
    /\ UNCHANGED <<mainVars, bridgeVars, nested, uiThread, uiFast, terminal,
                   stopping, contReceived, inputVars, history>>

(* Fault: main is told before the events left are handled. *)
StoppedEarly ==
    /\ ui = "drain" /\ stopping /\ ~stopped
    /\ stopped' = TRUE
    /\ UNCHANGED <<mainVars, locked, ready, uiVars, uiThread, inputVars, history>>

(* ui_bridge_stopped, when the loop of tui_main has ended. *)
Stopped ==
    /\ ui = "drain" /\ uiFast = <<>> /\ ~nested /\ stopping /\ ~locked
    /\ stopped' = TRUE
    /\ ui' = "close"
    /\ UNCHANGED <<mainVars, locked, ready, nested, uiThread, uiFast, terminal,
                   stopping, contReceived, inputVars, history>>

(* loop_close frees the calls that came too late; data and ui are freed.   *)
Close ==
    /\ ui = "close"
    /\ uiThread' = <<>>
    /\ missed' = IF uiThread = <<>> THEN missed ELSE missed \cup {"closed"}
    /\ ui' = "dead"
    /\ UNCHANGED <<mainVars, bridgeVars, nested, uiFast, terminal, stopping,
                   contReceived, inputVars, spent, frozen, lateRefresh>>

-----------------------------------------------------------------------------
Init ==
    /\ main = "attach" /\ mainEvents = <<>> /\ buffered = 0
    /\ locked = FALSE /\ ready = FALSE /\ stopped = FALSE
    /\ ui = "start" /\ nested = FALSE /\ terminal = FALSE
    /\ stopping = FALSE /\ contReceived = FALSE
    /\ uiThread = <<>> /\ uiFast = <<>>
    /\ keys = 0 /\ waiting = FALSE /\ reading = FALSE /\ keyTimer = FALSE
    /\ spent = [b \in {"calls", "suspends", "keys", "winch", "cont", "ends"} |-> 0]
    /\ frozen = FALSE /\ missed = {} /\ lateRefresh = FALSE

(* What the main thread does once it is begun. *)
MainWaits == Attached \/ SuspendWait \/ Resume \/ CheckStopped \/ Join \/ EndPoll
MainHandles == PostponeRefresh \/ HandleRefresh \/ HandleInput \/ HandleDone

(* What the UI thread does unasked by the outside. *)
UiStep == \/ Start \/ AsyncCb \/ FlushInput \/ LeavePoll \/ PollAgain \/ EndSuspend
          \/ HandleDraw \/ HandleFlush \/ HandleSuspend \/ BeginSuspend
          \/ HandleStop \/ HandleWinch \/ HandleCont \/ HandleRestart \/ Stopped \/ Close

Next ==
    \/ MainWaits \/ MainHandles \/ UiStep
    \/ \E call \in {"draw", "flush"} : Draw(call)
    \/ SuspendCall \/ StopCall \/ ReadInput
    \/ \E s \in {"winch", "cont"} : Signal(s)
    \/ Type \/ KeyTimeout \/ EndOfInput

(* Both threads run; main polls its loop (a poll ends after 10 ms) and     *)
(* reads its input; a suspended program is continued.                      *)
Fairness ==
    /\ WF_vars(MainWaits) /\ WF_vars(MainHandles) /\ WF_vars(ReadInput)
    /\ WF_vars(UiStep)
    /\ WF_vars(frozen /\ Signal("cont"))

Spec == Init /\ [][Next]_vars /\ Fairness

-----------------------------------------------------------------------------
TypeOK ==
    /\ main \in {"attach", "run", "suspending", "suspended", "check", "poll",
                 "join", "gone"}
    /\ mainEvents \in Seq({"refresh", "input", "done"})
    /\ buffered \in 0 .. InputRoom
    /\ ui \in {"start", "poll", "callbacks", "flush", "drain", "close", "dead"}
    /\ uiThread \in Seq(Calls) /\ uiFast \in Seq(UiEvents)
    /\ {locked, ready, stopped, nested, terminal, stopping, contReceived,
        waiting, reading, keyTimer, frozen, lateRefresh} \subseteq BOOLEAN
    /\ keys \in 0 .. MaxKeys
    /\ missed \subseteq {"purged", "no terminal", "closed", "freed"}

(* When the editor runs, the UI thread has started its terminal, at attach *)
(* and after every suspend (ui_bridge.h: "the main thread will suspend     *)
(* until the call returns").                                               *)
RunsWithTerminal == main = "run" => terminal /\ ~nested

(* The bridge with its mutex is freed after the last use of it: the UI     *)
(* thread is dead by then.                                                 *)
BridgeOutlivesThread == main = "gone" => ui = "dead"

(* ui_bridge.h: once stopped is set, the UI thread "will no longer send    *)
(* messages to the main thread".                                           *)
SilentWhenStopped ==
    [][stopped /\ stopping => Len(mainEvents') <= Len(mainEvents)]_vars

(* The event that makes main read key_buffer is never left in main's queue *)
(* after the UI thread has freed that buffer.                              *)
InputEventsOwned ==
    ui = "dead" => \A i \in 1 .. Len(mainEvents) : mainEvents[i] # "input"

(* What a thread uses is there: the terminal, the bridge, the key buffer.  *)
UsedWhileThere == TypeOK /\ RunsWithTerminal /\ BridgeOutlivesThread /\ InputEventsOwned

(* Every call is drawn, unless the queue was flooded, or main drew because *)
(* of a refresh while it waited for the UI to stop.                        *)
MissedOnlyLate == missed \subseteq {"purged"} \/ lateRefresh

Queued(e) == \E i \in 1 .. Len(uiThread \o uiFast) : (uiThread \o uiFast)[i] = e

(* The call was in a flooded queue, which tui_flush purged: the UI thread  *)
(* is not going to handle it.                                              *)
StopPurged ==
    "purged" \in missed /\ main \in {"check", "poll"} /\ ~stopping /\ ~Queued("stop")
SuspendPurged ==
    /\ "purged" \in missed /\ main = "suspended" /\ ~ready /\ ~nested
    /\ ~Queued("suspend") /\ ~Queued("suspend_event")

(* flush_input asks again and again, and main has no room for the keys. *)
InputStuck == ui = "flush" /\ keys > 0 /\ buffered = InputRoom

(* Stopping the UI ends, unless the call was purged or a typed key fits no *)
(* more: the UI thread can wait in flush_input for main, but main then     *)
(* polls its loop.                                                         *)
StopReturns == main \in {"check", "poll", "join"} ~>
                 (main = "gone" \/ StopPurged \/ InputStuck)

(* So does suspending it, unless a key was typed: see SuspendReturns. *)
Deadlocked == main = "suspended" /\ ui = "flush" /\ waiting
SuspendEnds == main \in {"suspending", "suspended"} ~>
                 (main = "run" \/ Deadlocked \/ SuspendPurged)

(* ui_bridge.c: "suspend the main thread until CONTINUE is called by the   *)
(* UI thread".  Not when that thread waits in flush_input for main to run  *)
(* wait_input_enqueue: it never gets to the suspend event.                 *)
SuspendReturns == main \in {"suspending", "suspended"} ~> main = "run"
=============================================================================

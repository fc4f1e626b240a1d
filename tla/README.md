# A TLA+ verification of gkide's core

gkide is a fork of Neovim (C, `src/source/nvim/`) with a Qt front end
(`src/source/plugins/bin/snail/`). Most of its 310 000 lines of C are the
sequential editor inherited from Vim. What a test suite reaches least is the
layer underneath it: an event loop on libuv, a hierarchy of event queues, child
processes and their streams, msgpack-rpc channels, timers, a terminal UI that
runs in a thread of its own. Of the editor itself two parts are as hard to test:
how a file is written, because every system call may fail and the program may
die between two of them, and the undo tree, because so many commands lead
through it. This project models these parts, checks the models with TLC and
proves theorems about some of them with TLAPS.

Paths below are relative to `src/source/nvim/` unless they start with `src/`.

## Inventory

How the parts hang together: threads and libuv callbacks *put* events on
queues; the main thread *waits* (`LOOP_PROCESS_EVENTS_UNTIL`), which polls libuv
and handles events; handlers run scripts and API calls, which wait again. Nearly
every hazard of the asynchronous layer comes from waits nested in handlers, or
from a second thread.

**Event queues** (`event/multiqueue.c`). State: lists of nodes; a child's item
has a link in the parent's list and points at it. Operations: new parent or
child, push, get, purge, process, replace parent, free. Hard: reading from
either side must keep items and links paired; `parent_item` is followed
without a look. Correct if a reader sees the events of its queue and of the
children, oldest first, each once.

**Event loop** (`event/loop.c`, `loop.h`). State: `events`, its child
`fast_events`, `thread_events` with a mutex and a `uv_async_t`, the stop flag of
libuv, the depth `recursive`. Operations: poll, schedule from a thread, purge,
process until a condition, close. Hard: a wake-up sent as the owner goes to
sleep; events put by callbacks; waits inside handlers. Correct if no event is
lost, doubled or overtaken, no poll sleeps on an event its wait can read, and
`uv_run` is not entered twice.

**Terminal UI** (`ui_bridge.c`, `tui/tui.c`, `tui/input.c`). State: the loop of
the UI thread, the bridge's `ready` and `stopped` under a mutex, the key buffer,
`stop` and `cont_received`. Operations: attach, draw, flush, suspend, stop, keys,
SIGWINCH, SIGCONT. Hard: each thread waits for the other; a flooded queue is
purged; the threads share freed memory at the end. Correct if the editor runs
only on a started terminal, suspend and stop return, and nothing is used after
it is freed.

**RPC channels** (`msgpack/channel.c`). State: reference count, closed, unpacker,
stack of waiting calls, pending requests, notifications held back, events.
Operations: call, notify, subscribe, close, receive, handle, respond, write.
Hard: a call waits in a nested loop that handles requests which call again;
closing from EOF, a failed write, an invalid message, a wrong response or a
script. Correct if the channel is freed exactly when nobody holds it, every call
ends with its own answer or an error, nothing the peer sent is lost or doubled.

**Streams and ring buffer** (`event/{stream,rstream,wstream}.c`, `rbuffer.c`).
State: two pointers into an array and a size; pending requests, memory in flight,
the handle. Operations: produce, consume, reset; read, end, hand to the owner,
stop, write, close. Hard: closing with reads and writes pending, back-pressure
when the buffer is full, wrap-around, owners that take what they read at once,
later, or in parts. Correct if the owner gets the bytes in order, reading goes on
when there is room and it is wanted, and the handle is closed once, last.

**Child processes and jobs** (`event/process.c`, `event/libuv_process.c`,
`os/pty_process_unix.c`, the job functions of `eval.c`). State: reference count,
handles, list of children, stop requests and kill timer, the parent of the
events' queue, the status pointer into a list of a wait. Operations: spawn, exit,
stop, close, wait, kill. Hard: exit, end of output and close come in any order;
nested `jobwait`; the kill timer against a late exit; SIGCHLD that stands for
several children, reaped by two handlers. Correct if the exit callback comes
once, after all output, and nothing refers to what was freed.

**Timers** (`event/time.c`, timers of `eval.c`). State: the `timer_st` with its
references, count and flags, its `uv_timer_t`, its queue. Operations: start, pause,
stop, stop all, due, free. Hard: stopped with a due event queued, or from its own
callback in a nested wait. Correct if a timer is called as often as asked, never
after it was stopped, and lives as long as it is used.

**Writing a file** (`buf_write`, `vim_rename` of `fileio.c`). State: the file, the
backups, a temporary file, the swap file, and the local variables of a function
of 1200 lines. Hard: each system call may fail or be interrupted, the program may
be killed after each, and a dozen options choose the way. Correct if the text is
on the disk somewhere at each moment, a failure leaves the file as it was or says
so, and a success is one.

**Undo** (`undo.c`, with `ex_undo`, previews of `:substitute`, reload and undo files).
State: headers in a tree with four pointers each, the place in it, sequence
numbers, the numbers of writes. Operations: change, u, CTRL-R, g-, g+, `:undo N`,
`:earlier`, `:later`, prune by 'undolevels', write, reload, write and read an undo
file, preview. Hard: any sequence of these; jumps stopped by CTRL-C; a change made
in an autocommand of u itself. Correct if the text and the modified flag are those
of the place in the tree, every text in it can be reached, and a preview leaves no
trace.

**RPC server and sockets** (`msgpack/server.c`, `event/socket.c`). Listening
sockets by address; connecting with a timeout. Hard: a callback after the
timeout; freeing with the close callback still to come. **Typed input**
(`os/input.c`), **front of the UIs** (`ui.c`, `api/ui.c`), **start and exit**
(`main.c`, `os/signal.c`), **terminal emulator** (`terminal.c`: refresh timer,
invalidation, destruction), **Snail** (an RPC client in Qt), **RPC values**, **API
dispatch**, the rest of the **editor core** and of **persistence** (reading files,
swap files, shada), **containers**: see "Not modelled".

`PROJECT.json` lists the components with their files and, under `hazards`, every
place found where order, failure or a limit bites, with the property that
covers it.

## Modules and how they correspond to the code

| module | of | proofs |
|---|---|---|
| `SelectiveFifo` | what a hierarchy of queues promises | |
| `MultiQueue` | `event/multiqueue.c`, nodes and links | `MultiQueueProofs` |
| `EventLoop` | `event/loop.c`, `loop.h`, `event_teardown` | `EventLoopProofs` |
| `UiBridge` | `ui_bridge.c`, the threads of `tui/tui.c`, `tui/input.c` | `UiBridgeProofs` |
| `RpcChannel` | `msgpack/channel.c` over a socket stream | `RpcChannelProofs` |
| `ByteQueue` | what a ring buffer promises | |
| `RingBuffer` | `rbuffer.c` | `StreamProofs` |
| `Stream` | `event/{stream,rstream,wstream}.c` and the owners' callbacks | `StreamProofs` |
| `Jobs` | `event/process.c`, `libuv_process.c`, `pty_process_unix.c`, jobs of `eval.c` | `JobsProofs` |
| `Subsequences` | elements taken out of the middle of a sequence | |
| `Timers` | `event/time.c`, timers of `eval.c` | `TimersProofs` |
| `FileWrite` | `buf_write` and `vim_rename` of `fileio.c` | `FileWriteProofs` |
| `UndoTree` | `undo.c` and what else moves in its tree | |

`MC<module>` gives an instance for TLC; a `.cfg` per question sets its bounds.
What is shown of one module is what the next rests on: `MultiQueue` implements
`SelectiveFifo` and `RingBuffer` implements `ByteQueue` (each an `INSTANCE` with a
refinement mapping, checked and proved); `Stream` EXTENDS `RingBuffer`, and that
the ring buffer under a stream is a `ByteQueue` is checked and proved as well.
`EventLoop`, `Jobs` and `Timers` take a queue to be the ordered list
`SelectiveFifo` promises; `UiBridge` and `RpcChannel` take a loop to move and
handle events as `EventLoop` shows; `Jobs` takes its streams to close as `Stream`
shows. These steps are by reading, not by `INSTANCE`.

**MultiQueue.** A queue is an address in `Queues`; a node is the number of its
allocation, so the order of a list is the order of numbers and `list[q]` is a set.
`linked[n]` is the queue a link stands for (or `NoQueue` for an item),
`parentItem[n]` the pointer of an item. Each function of `multiqueue.c` is one
action. `Get` has the two forms of `multiqueueitem_get_event`: `RemoveItem` from a
child, `RemoveLink` from the parent. `size` counts modulo `SizeMod`, as `size_t` does.
Order of pushes is the one abstraction: `queue_insert_tail` and allocation in
order make the tail the largest number.

**EventLoop.** The owner's `stack` holds its frames: a wait
(`LOOP_PROCESS_EVENTS_UNTIL`), a poll (`loop_poll_events`, step by step: enter,
timers, block, callbacks, leave), a drain (`multiqueue_process_events`), a handler,
and at last the exit (`event_teardown`). A handler may put, schedule, purge, or
begin another wait on any queue. `Lock`, `ThreadPut`, `Send`, `Unlock` are the
statements of `loop_schedule` in another thread. libuv is external: a stop flag
seen when `uv_run` begins and when it would block; an async wake-up that coalesces;
input that may come at any time.

**UiBridge.** Both threads, the calls main schedules (`UiCall`), the events the UI
thread schedules back (refresh, keys, the end of the input), and the waits: attach
and suspend on the condition variable, stop by polling, `flush_input` by its own.
The mutex is `locked` while main has it; the UI thread's short critical section
(`CONTINUE`) is one step guarded by it. A draw is one call. What is read makes a
key, or the part of one for which the timer of 'ttimeoutlen' runs (`Type`,
`KeyTimeout`); keys are counted. At the end of the input the UI thread reads
stderr instead (`restart_reading`), or tells main. A refresh that main cannot do
is scheduled again (`PostponeRefresh`). What became of a call that was not drawn
is kept in `missed`.

**RpcChannel.** The channel is a record and the functions of `channel.c` that
change it (`Incref`, `CloseChannel`, `SetError`, `Write`, `SendDelayed`, ...) are
operators from a channel to a channel, composed in the actions as the code calls
them. `stack` holds the nested calls, handlers and `receive_msgpack`. The messages
of the peer's own have the kinds the code tells apart: a request that waits
(`sync`), one that does not (`async`), `nvim_get_mode` whose queue depends on
`input_blocking()`, a notification, an invalid message, and bytes that are no
message at all. The peer is external: it asks, answers what it has read in any
order with a result or an error, and closes at any time. A write fails when too
much is in flight, and when `uv_write` does (`WritesBreak`). Only main itself
waits for a key here; a handler that does would add depth, not a new kind of wait.

**RingBuffer, Stream.** The ring buffer has the two pointers and the size of the
struct; bytes that `produce` and `consume` move are the actions. `Stream` has the
stream's counters, the handle of libuv and the events that wait. Whose stream it
is (`owner`) decides how its callback consumes, as the callbacks in the code do:
as many bytes as an event says (`on_job_output`, `receive_msgpack`), all there are
(`read_cb` of `os/input.c` and of `tui/input.c`, `system_data_cb`), what one
pointer shows (`out_data_cb` of `os/shell.c`), and at once or from a queue; a
stream may have no callback, and a socket and the input of a child are written to.
The bytes are numbered as they arrive, so that order and loss can be seen.

**Jobs.** A child of the operating system (`os`, `sigchld`, `pipe`) and the record
of its job: references, the three handles, pending reads, flags, the queue its own
hangs under, the status pointer. `stack` holds the callbacks and waits of the main
thread, `:sleep`, `f_jobwait` and `process_wait` step by step, since other jobs'
events are handled between the steps; `Source` says which events a frame
processes. A poll is a mode (`polling`) in which children write and exit,
`read_cb`, `chld_handler` and the kill timer run, and which ends with the
callbacks of closed handles.

**Timers.** A record for each `timer_st` with its watcher, one queue of due events,
and a stack of callbacks and `:sleep`s. A callback holds its timer; `EndCallback`
restarts one whose timeout is 0 and drops the reference.

**FileWrite.** `disk` says what is under each name, and how much of the old and of
the new text is in it (none, a part, all); `w` has the local variables of
`buf_write` that decide something, `mv` those of a call of `vim_rename`. Each
system call that changes a file is a step that works or is a fault, setting the
permission at the end among them; tests and assignments between two calls belong
to the next. A backup may be another name of the file itself (a hard link, a
link): `vim_rename` then goes through a temporary name, and a copy is not made
under that one. A crash needs no action: after it the disk is all there is, so
what a crash must not lose is an invariant.

**UndoTree.** A header has the four pointers of the C struct, its sequence number is
its name, and its line entries are one text; `b` holds the `b_u_` fields, the text
and what is on the disk. Functions of `undo.c` are operators from a buffer to a
buffer, composed as they call each other, and a command is one action: all of it
runs on one thread. `UndoRedo` has the round trip through `change_warning` in which
FileChangedRO may reload the file.

Fault operators (`DownSigned`, `SendForgotten`, `SetErrorLast`, ...) stand before the
definition they are a wrong form of. No specification uses them: they record,
for each property, a bug of the code that it would find.


## What the runs check

A run checks few properties, each the conjunction of named parts.

| run | distinct states | property: its parts |
|---|---|---|
| `multiqueue` | 292 860 | `IInv`: `TypeOK`, `Structure` (pairing, order, ownership); `FlatSizeIsCount`; `ImplementsFifo`, the refinement of `SelectiveFifo` |
| `event_loop` | 225 751 | `EventsAccounted`: `TypeOK`, `EachEventOnce`, `NoReentry`; `WakesUp`: `NoLostWakeup`, `SleepsOnlyWhenDrained`; `StartedInOrder`; `Delivered` under fairness |
| `ui_bridge` | 713 833 | `UsedWhileThere`: `TypeOK`, `RunsWithTerminal`, `BridgeOutlivesThread`, `InputEventsOwned`; `MissedOnlyLate`; `SilentWhenStopped`; `StopReturns`, `SuspendEnds` under fairness |
| `ui_bridge_typed` | | violation: `SuspendReturns` |
| `rpc_channel` | 2 913 056 | `ChannelHeld`: `TypeOK`, `RefcountIsHolders`; `NotesInOrder`; `EachAskOnce`; `OwnAnswer` |
| `rpc_peer_gone` | 97 733 | `PeerGoneFrees` under fairness |
| `stream` | 5 183 | `PendingCounted`: `TypeOK`, `ClosedAfterLast`, `CurmemCounts`; `ReadInOrder`: `InOrder`, `ChunkInOnePiece`; `ReadsWhenWanted`: `ReadsIntoRoom`, `EndIsFinal`, `StaysSuspended`; `ImplementsQueue`, the refinement of `ByteQueue`; `ClosedEnds`, `FullIsTemporary` under fairness |
| `jobs` | 516 334 | `ProcessesCounted`: `TypeOK`, `RefcountIsHolders`, `ClosedOnce`, `StopsAreCounted`; `OutputBeforeExit`; `NothingDangles`: `FreedIsUnused`, `ParentExists`, `StatusPtrOwned`; `JobsEnd` under fairness |
| `timers` | 68 449 | `CalledInTurn`: `TypeOK`, `AtMostRepeat`, `OneEventEach`; `TimerOutlivesUse`: `CallbackHasTimer`, `ClosedIsQuiet`; `StoppedIsSilent`; `StoppedIsFreed`, `CalledAgain` under fairness |
| `file_write` | 7 201 725 | `DiskIsSafe`: `TypeOK`, `NothingLost`; `SuccessIsComplete`: `SuccessIsWritten`, `LinkKept`, `BackupIsWhole`; `FailureIsHonest`: `WarnedIfDamaged`, `OneFaultRestored`; `OthersKept` |
| `undo` | 206 906 | `TreeIsWhole`: `TypeOK`, `TreeHolds`, `OnFirstBranch`; `PlaceIsTrue`: `TextIsThere`, `ModifiedIsHonest`; `TextsAreReached`: `GoToArrives`, `LaterArrives`, `EarlierArrives`; `PreviewForgets` |
| `undo_preview` | | violation: `PreviewForgets` |

### Bounds

- `multiqueue`: three queues are the fewest with two children of one root, or a
  child that moves between two roots; a hierarchy has two levels only (a child
  of a child is refused by an assertion). Five nodes are two events with their
  links and one without: two children interleaved, or one queue with two events
  beside another. Sizes count modulo 6, one more than there are nodes, as
  `FlatSizeIsCount` supposes; queues are symmetric. No bound matters to the
  theorems.
- `event_loop`: two threads, so that one may wait for the mutex or schedule
  while the wake-up of the other is taken; three events, so that two of one
  queue are read around a third; two nested waits, so that one drain is suspended
  below another poll; one child queue besides `fast_events`.
- `ui_bridge`: a flood is more than one event (`TooMany = 1`), which a draw or a
  flush and a suspend or a stop make; one suspend; two reads of keys of which one
  fits (`InputRoom = 1`), one end of input, one SIGWINCH, one stray SIGCONT.
  `ui_bridge_typed` needs one key and one suspend.
- `rpc_channel`: two requests, so that calls nest; two notifications, so that one
  can overtake; two messages of the peer of the five kinds; one close by a script;
  `MaxMem = 1`, so that the third write in flight fails. `rpc_peer_gone` needs one
  message of the peer to nest two calls; it has the bytes that are no message, the
  failing writes, of `uv_write` as well (`MayBreak`), and the close by a script.
  With these the first run would be too long; its properties are proved for all
  kinds of messages and with failing writes. Two cases break `PeerGoneFrees` and
  are exempt by name (`unended`): see below.
- `stream`: a buffer of three bytes and seven of them: it fills, empties and wraps
  twice, with a read that ends before, at and behind the end of the array. Buffers
  of one or two bytes are written, three of them, with `maxmem` 1: the second is
  refused while the first is in flight, or exceeds it alone.
- `jobs`: one libuv process and one on a pseudo terminal, so that two handlers
  reap. The first writes twice, and the ring buffer (`Room`) and the system's
  (`Buffer`) hold one each, so that there is output left for `flush_stream`, as
  much as it takes; the second writes nothing. Two calls of scripts or the user: a
  wait in a wait, a sleep in a callback, a stop or a CTRL-C in a wait. The lists
  to wait for are `<<uv>>`, and `<<pty, uv>>`, in which the wait goes on from one
  job to the other. The theorems have any list, output, room and number of calls.
- `timers`: two timers, called twice or for ever, with or without a timeout; one
  `:sleep` in a callback, in which another callback or the same one runs.
- `file_write`: two entries of 'backupdir', so that one may be skipped; three
  faults, so that a step of the repair of a fault may fail, and what it then tries
  instead; a text has two parts, so that
  a file can have none, some or all of it. All options and kinds of file.
- `undo`: three edits make every shape of tree with three headers (a chain, a
  fork at each level, three alternatives); 'undolevels' of -1, 1 and 1000 prune
  everything, all but one, nothing; one write; counts of one and two; CTRL-C after
  one round; the reload of FileChangedRO in any round. Restarts, undo files of any
  age and previews are not bounded. The reload in the middle of u and the preview
  at the oldest text, which break the tree, come only with `Careless`.

A deadlock is allowed (`CHECK_DEADLOCK FALSE`) where the system really ends: a
closed loop, a UI that is gone, a closed stream, all jobs over and no call left.
In the other models something is always possible: a queue can be read or freed,
the main thread can poll, a finished write stays finished, a command can be typed.

### Fairness

- `EventLoop`: the owner keeps running (unless its poll blocks, which is a state
  without a step) and a thread that holds the mutex goes on: the code between
  lock and unlock has no wait. Nothing is assumed of input, of threads that have
  not locked, or of when a nested wait's condition becomes true.
- `UiBridge`: both threads run, main's poll in `ui_bridge_stop` has a timeout of
  10 ms, main reads its input, and a process suspended by SIGTSTP is continued by
  its shell.
- `RpcChannel`: the main thread runs; a wait for a key ends and main does not
  choose it for ever (strong fairness of `Wait`); a poll serves what is readable,
  though one poll may end just before it comes (strong fairness of reading and of
  the close callback); writes to a peer that has *closed* complete, with an error.
  A peer that is open may never read and never answer.
- `Stream`: events are handled, handlers end, the callbacks of a write and of a
  close come. Nothing is assumed of the other end: it need not write, read or
  close.
- `Jobs`: the main thread goes on, with whichever of its steps can be taken (what
  is ready is handled in a poll before it returns); a `:sleep` ends (strong, as
  its time may be over in the middle of a poll); the kill timer fires again and
  again while the main thread polls (strong, as it is not in a poll between two);
  and no child survives SIGKILL. A child need not exit, nor a script call
  anything.
- `Timers`: the main thread goes on, each callback and each `:sleep` ends, and time
  passes, so that a timer that is armed again and again fires. Strong, since a
  callback may begin a nested wait whenever it could have ended. A script need not
  stop a timer.
- `FileWrite` and `UndoTree` have no liveness: one is a finite sequence of steps,
  the other waits for commands.

## What the runs found

Two disagreements of code and comment have a run of their own.

- `ui_bridge_typed`. A key typed as the editor is suspended: the UI thread waits in
  `flush_input` for main, main waits on the condition variable for the UI thread.
- `undo_preview`. A preview of `:substitute` at the oldest text of the tree, with
  something to redo: its header takes the place of `b_u_oldhead`, and
  `u_undo_and_forget` restores `b_u_curhead` and `b_u_newhead` only. The next u finds
  nothing to redo afterwards, and the headers are never freed.

What else was seen while modelling. Where a property has a clause for it, the
clause is named.

*Event loop and UI.* The poll of a wait begun by a handler of a fast event sleeps
with events left in `fast_events`: `uv_stop` was used up by the outer `uv_run`
(`Stuck` in `Delivered`); the comment in `loop_on_put` says `uv_stop` is there "to
avoid this scenario". `tui_flush` purges a flooded queue with the stop call in it:
`ui_bridge_stop` then polls for ever (a clause of `StopReturns`). A full `input_buffer`
at the stop makes `flush_input` ask without end. A refresh handled by main while it
waits for the UI to stop draws on a UI that is closing (`lateRefresh` records
it). `multiqueue_size` of a parent counts its children and is not counted down when
a child is read through it; only `thread_events`, which has none, is ever asked.

*RPC.* `rpcstop()` from a handler while a request waits on the channel: the call
is given no error, no answer can come, its reference keeps the channel.
`parse_msgpack` returns after a response and is called again only when more bytes
come: a request that arrived in the same read waits for them. A call whose own
write fails waits for ever, because its frame is pushed after `call_set_error`
went through the frames (these two are `unended` in `PeerGoneFrees`). A response
is compared with the last request only: when a request of the peer crosses one of
the editor and its handler sends another, the answer to the first closes the
channel.

*Streams and jobs.* A stream without `read_cb` that fills its buffer is never read
again. When `uv_write` fails, `curmem` stays counted up (`leaked` in
`CurmemCounts`). `flush_stream` stops when a read brought nothing because the ring
buffer was full (`event/process.c:471`), and when as much came as the system's
buffer holds (`event/process.c:455-458`): what a child wrote beyond that before it
exited is lost (`OutputBeforeExit` is for what fits, `Room + Flushes`), though the
comment at `event/process.c:457` says "Read remaining data.". One run of
`chld_handler` reaps one child (`os/pty_process_unix.c:315`), and libuv the others
of its own: when the SIGCHLD of a child on a terminal merged with that of another,
the first may stay a zombie until some other child exits. Its exit callback does
not come, and a `jobwait` for it does not return, though `process_wait` is to
"Synchronously wait for a process to finish" (`event/process.c:205`); `JobsEnd`
names these children (`Missed`) and asks that all else ends. `process_wait`
returns when its own reference is the last, so two waits for one job hold each
other, and so do waits that moved a job's queue under one another (`Knotted` in
`JobsEnd`). After a CTRL-C and a `jobstop` in the wait, the exit callback writes
through a `status_ptr` to the list of a wait that is over (`eval.c:15383`,
`29204`; a clause of `StatusPtrOwned`).

*Timers.* A timer with timeout 0 that is due while it is paused is not called again
when the pause ends (`eval.c:22108-22111`, `missed` in `CalledAgain`).

*Writing a file.* CTRL-C in `ml_preserve` (`fileio.c:3804`) jumps to
`restore_backup` before `wfname` is set: a renamed original stays under the
backup's name (`w.target = File` in `OneFaultRestored`); the header of `buf_write`
(`fileio.c:2770`) says "In case of an error everything possible is done to restore
the original file". `:w!` goes on with a part of a backup, and restores from it
without a warning; `:wq!` with such a backup does not sync the swap file. A forced
append goes wrong when the file was renamed away ('patchmode', with 'backupcopy'
"auto, breaksymlink" on a link, or an unreadable file) or when 'charconvert'
writes over it (the last clause of `SuccessIsWritten`). Three faults lose the
text: a file that cannot be read is renamed to its backup though a copy was
chosen; `restore_backup` then takes the backup for a copy. If `vim_rename` must
move it back by copying and fails half way, a part of the text is under the file's
name, and `fileio.c:3993-3997` removes the backup, the only whole one, because a
file of that name exists; the comment at `fileio.c:3983-3985` says "This may not
work if the vim_rename() fails. In that case we leave the copy around." (the
clause `told /\ w.copying` of `NothingLost`; found when the invariant was proved
for any number of faults). When the backup is another name of the file,
`vim_rename` renames it to a number and from there; if the second rename fails,
and the renaming back, whose result `fileio.c:5805` does not look at, the text
stays under that number, and all the user sees is E510 (`LeftAside` in
`WarnedIfDamaged`). The permission that cannot be set at the end of a write is not
reported (`unset` in `SuccessIsWritten`). A linked file that cannot be read is
renamed. When `open` fails the number of hard links is read from a structure
nothing was written to (`SeenLinked` takes either). The permission of a file
written through 'charconvert' is set on the temporary one.

*Undo.* A reload by FileChangedRO in `u_doit`'s own `change_warning` leaves the
buffer unsynced with its new header undone, so that the next command's `u_sync`
drops the place in the tree; the comment at `undo.c:2150-2153` is about this case.
With 'undolevels' of 0 or less and a tree from before, u twice redoes without
moving `b_u_curhead`. `:undo 0` and g- past the oldest text set the current number
(`b_u_seq_cur`) to one below a header that need not be there. A preview sets it to
the number of the header above the text (`undo.c:2968`), 0 if there is none, and
it is not put back (`undo.c:2098-2109`): after `:undo 0`, g- past the oldest text,
or an edit, 'undolevels' of -1, an edit and 'undolevels' of 1000, it was another
before. `undotree()` reports it as `seq_cur` (`eval.c:22393`), though the comment
at `ex_cmds.c:8020-8022` has `undotree()` identical before and after the preview.
`PreviewForgets` says what the code does: all else is as it was, and the number is
that one. `:wundo`, `:w`, `:rundo`, u gives a buffer that is not modified with a
text that is not the one on the disk. `u_write_undo` syncs `curbuf`, not its
`buf`. CTRL-C in `u_savecommon` leaves a header without entries.

## What is proved

TLC checks the instances above; the theorems here hold for every value of the
constants, under the assumptions the modules name (`QueueAssumption`,
`LoopAssumption`, `RingAssumption`, `TimersAssumption`, `StreamAssumption`,
`ChannelAssumption`, `FileWriteAssumption`, `BridgeAssumption`, `JobsAssumption`:
names of queues differ from the fixed ones, bounds are naturals, a buffer has room
for a byte, what is written is not empty, 'backupdir' has an entry). TLC evaluates
them on every run. The inductive invariant of each module was checked by TLC on an
instance before it was proved.

**`MultiQueueProofs`**, for every set of queues, number of nodes and width of the size:
`TypeCorrect`; `InductiveInvariant`, `Spec => []IInv`; `StructureKept`, items and links
stay paired in order; `ReadThroughLink`, `Spec => []HeadsAgree`; `FlatRootSize`,
`Spec => []FlatSizeIsCount` if `MaxAlloc < SizeMod` (a queue with more events than
`size_t` can count would wrap).

What the code relies on, `HeadsAgree`, is not inductive: that the first link of a
child belongs to its first item says nothing of the second, which is first after
the next read. `IInv` adds what makes it so. `ItemsAreLinked` and `LinksAreBacked` make
`parentItem` a bijection between the items of a child and its links. `SameOrder`
makes it monotone, so heads correspond, now and after any number of reads.
`Ownership` keeps lists apart, so that unlinking a node from one changes no other,
bounds the nodes in use by `alloc`, so that a push takes fresh ones, and keeps the
hierarchy at two levels. The one fact all removals share is `UnlinkStructure`: if a
set of nodes holds an item exactly when it holds its link, unlinking it keeps
`Structure`; get, purge and free are instances. For `FlatRootSize` the invariant also
says that a queue with children has been recorded in `adopted`, so no read through
a link touches a flat root.

`MultiQueueIsFifo`, `Spec => ImplementsFifo`, is the refinement: the number of an item
is the stamp of its event, and each step of the heap is a step of `SelectiveFifo` or
a stutter. It needs more than `IInv`: that a link
was allocated right after its item (`Adjacent`). A root orders its own items among
the *links* of its children, by number; the abstract queue orders the *events*.
Because nothing is allocated between an item and its link, the two orders are the
same, and the least node of a root stands for its oldest event. Without it, a push
to a child could be overtaken by one to its root.

**`StreamProofs`**, for every capacity, bytes, writes of any sizes and `maxmem`:

- `PendingIsCounted`: `Spec => []PendingCounted`, the handle is closed once, after the
  last event, handler and write that holds the stream.
- `ReadingIsWanted`: `Spec => []ReadsWhenWanted`.
- `BytesInOrder`: `Spec => []ReadInOrder`.
- `StreamBufferIsQueue`: `Spec => ImplementsQueue`, from `RingIsQueue` and what a stream
  does with its buffer.

`IInv` is the three properties with what carries them from step to step. `Ordered`
says that the buffer holds the bytes that arrived and were not taken, by number.
An event carries a *count* of bytes, not the bytes, so that the order the owner sees
depends on the events that are still queued: `Chunks` gives each event the byte it
begins with (`start`, in the order of the events, from `taken` to `arrived`) and says
that what it counts does not go past the end of the array. An owner that takes all
there is (`input`, `tui`) can be given no second event before the first is handled:
`OneHoldsAll`. `EndsAreEmpty` and `LeftInPeace` are what the end of a stream and a
terminal that is left need. `Total`, the memory in flight, is a recursive function
of the writes; what it is after a
write and after a completion is proved from its definition (`TotalAppend`,
`TotalTail`).

The ring buffer alone comes first, for every capacity and every set of bytes:
`RingTypeCorrect`; `PointersKept`, the two pointers and the size agree;
`RingIsQueue`, the ring buffer implements `ByteQueue`. `PointersAgree` is
inductive with the types: it says that the write pointer is the read pointer
advanced by the size, which is what tells full from empty. The refinement needs
one fact per operation about the content, read through `Wrap`: a produce appends
to it, a consume drops its head, a reset moves it without change.

**`EventLoopProofs`**, for any threads, child queues, events and depth of nested waits:

- `OwnerWakes`: `Spec => []WakesUp`, no wake-up is lost and no poll sleeps on events
  that its wait reads.
- `EventsKeptApart`: `Spec => []EventsAccounted`, each event is in one place once, and
  `uv_run` is not entered twice.
- `HandledInOrder`: `Spec => []StartedInOrder`.

The inductive invariant is `IInv`, which was checked by TLC on the instance before it
was proved: `Structure` (the types; `StackShape`, a wait at the bottom and at most one
poll, on top, when `recursive` is 1; `MutexHeld`), `Awake`, `Apart`, `Ordered`.
`WakesUp` alone is not inductive: that no event waits *while* the owner sleeps
depends on what was true at each step from the last look at the queue to the block.
`Awake` says it for all of them: `WaitServed`, a poll that has not run its callbacks
serves a wait with nothing to read, or `uv_stop` was called; `FastDrained`, the same
of `fast_events` unless a drain of it is suspended below.
`Apart` says that the places an event goes through (`threadEvents`, `queue`, `started`,
`lost`) are disjoint, have no repetition, and hold all events up to `alloc` and no
other. Steps are classified twice to keep the proof short: `StackStep` says what a step
does to the frames, `EventStep` which of seven movements it makes with the events;
each lemma about the invariant is then about the classes, not the actions.

**`TimersProofs`**, for any timers, counts and depth of nested callbacks:

- `CountsHold`: `Spec => []CalledInTurn`.
- `NothingUsedAfter`: `Spec => []TimerOutlivesUse`.
- `SilentOnceStopped`: `Spec => StoppedIsSilent`, an action property.

`IInv` is `TypeOK`, `StackShape`, `OneEventEach` and `AllSound`, and `Sound` relates a
timer to the number of its callbacks on the stack: `refs` counts them and the map;
`calls` and `left` add up to `repeat`, unless it is called for ever; a timer that the
map has lost has no event and is not armed. That last part is what keeps a freed
timer quiet: a callback that runs holds a reference, so `timer_decref` cannot free
it from under one that is suspended by a `:sleep`.

**`RpcChannelProofs`**, for any messages of the peer's and any number of nested calls,
notifications and closes:

- `ChannelIsHeld`: `Spec => []ChannelHeld`.
- `NotesStayInOrder`: `Spec => []NotesInOrder`.
- `AsksAreOnce`: `Spec => []EachAskOnce`.
- `AnswersAreOwn`: `Spec => []OwnAnswer`.

`IInv` has a part for each and no more: the functions of `channel.c` are operators
from a channel to a channel, and the lemmas about them (`CountFits`, `WriteFits`,
`CloseFits`, ...) say what each does to `Own`, the references that are not those
of the list of channels or of the stream. A write that fails and a close take away
both of these, but leave `Own`; what takes a reference also puts a function on the
stack or an event in a queue. So `Held` says that `Own` is the number of functions
above the main loop and of queued events. It also says that as many calls are on
the stack as the channel has frames and as `pending_requests` counts (`CallsOn`),
which is why the frame that `channel_send_call` pops without a look is there; and
that a frame that returned has the answer to its own id, a result or an error, or
the error of the channel (`Answers`, which is `OwnAnswer`): a write that fails or
a close in a nested call may turn it into an error, never into another's answer
(`Kin`). `Notes` numbers notifications as they are made, and says that some are
held back only while a call waits, so that one that is sent at once overtakes
none. `Asked` has a message of the peer's in one of five places, under way, fed to
the unpacker, queued, being handled, over (`Split`); each step moves one message,
or a prefix, from a place to the next.

**`FileWriteProofs`**, for any number of entries in 'backupdir' and any number of
system calls that fail:

- `CrashLosesNothing`: `Spec => []DiskIsSafe`.
- `SuccessCanBeReliedOn`: `Spec => []SuccessIsComplete`.
- `FailureCanBeReliedOn`: `Spec => []FailureIsHonest`.
- `OtherFilesStay`: `Spec => OthersKept`, an action property.

What is promised of every moment and of the end follows from where the write is:
`IInv` tells, for the step that comes next, what is on the disk. `Calls` and `Way`
say what the local variables are there; `Before`, `Kept`, `There`, `Back`, `Ends`
and `New` what has become of the old text and of the new (until the file is
opened, in the backup, in a file being filled, on the way back, without and with
the new text); `Between` and `SetAside`, in `Before`, are the moments at which the
file is under its temporary name. `Blamed` counts backwards: the steps of the
repair of a fault are reached after one fault, the branches of a repair that fails
after two, which is what `OneFaultRestored` rests on. `Links`, `Writable` and
`Users` are about links, the permission and the user's other files. The proof is
one lemma per step, and under it one step per part.

**`UiBridgeProofs`**, for any room for keys, any flood of calls and any number of draws,
suspends, keys and signals:

- `UsesAreSafe`: `Spec => []UsedWhileThere`.
- `CallsAreDrawn`: `Spec => []MissedOnlyLate`.
- `StoppedIsSilent`: `Spec => SilentWhenStopped`, an action property.

The two threads meet at a few places (attach, suspend, stop, `flush_input`), and
`IInv` says at each where the other may be. `Handshakes`: the terminal is there
exactly when the UI thread is started, not in `suspend_event` and not stopping; it is
in `suspend_event` only while main waits; what it does after `stopped` is to close.
`Asking`: a request for keys in main's queue is the only one, and the UI thread is in
`flush_input`, so it cannot be dead. That a call is drawn depends on what is *behind*
it in the queue of the UI thread, through both `fast_events` and `thread_events`
(`Queue`): `Requests` says that one suspend is under way and that main waits for it, or
for the stop; `LastCalls` that no call comes after one that has the terminal left, but
for a refresh that main handles in `ui_bridge_stop`. Most steps only lose events or
move them over (`Keeps`, an increasing map from the places after to those before),
and one lemma each carries `Requests` and `LastCalls` over all of these.

**`JobsProofs`**, for any set of jobs, on terminals or not, any lists of them to wait
for, any output, room for it and number of calls from scripts:

- `JobsInvariant`: `Spec => []IInv`.
- `CountedAlways`: `Spec => []ProcessesCounted`.
- `OutputComesFirst`: `Spec => []OutputBeforeExit`.
- `NothingIsDangling`: `Spec => []NothingDangles`.

None of the three properties is inductive, and each needs the others. A job goes on
in three places at once: its handles, its events in the queues, and the callbacks and
waits that the stack holds. `Whole(p)` counts over all three: `Referenced`, the
references are the handles that are not closed and the waits; `Reading`, the pending
reads are the read events and the read callbacks; `Closes` and `Exits`, the event and
the callback of the close, and those of the exit, come once, the one while the handle
is open, the other from the last reference until the data goes. `Alive` ties the life
of the data to the process and the references: what has an event or a callback has
data, and `FreedIsUnused` follows.

`OutputBeforeExit` rests on `Output`, which follows the bytes through
`flush_stream`. If the pipe is not empty when the process is reaped, the buffer
was full: what it holds was read before, and of what arrived only the rest,
`Arrived(p) - Room`, can come behind the close event (`AtMost`). So when the flush
has polled and handled what came, or as much came as it asks for, either the pipe
is empty, or more than `Room + Flushes` was written: the ring buffer, and the
lesser of it and the system's buffer, which the flush takes at least. That is the
exception that `OutputBeforeExit` states.

The stack needs an invariant of its own. `Shape` and `Above`: waits are numbered as
they begin, and what is above a frame that handles one job's events is a callback of
that job. With `TopUses` it shows that a job on which a wait still works without a
reference cannot go meanwhile. `Parents` and `Pointers` say *which* wait a job's queue
and status pointer go to, and that the wait has the job in its list, at a place that
it has passed or has not yet undone: when it returns it has undone all of them.
`Counters` bounds the stop requests and the signals.

A step changes the top of the stack and at most one job, or only what a poll calls
back for. The lemmas are laid out along that: what a step that is `Gentle` to a job
leaves of it (`WholeGentle`), what pushing, popping and changing a frame do to the
counts, and one lemma per action for the job it is about.

**Only model-checked**: the properties of `UndoTree`; and all liveness, since
fairness and `ENABLED` are out of the prover's reach. `UndoTree` walks its tree with
`RECURSIVE` operators, so that nothing can be proved about it; what a recursive
definition computes for every input can be proved only by an argument on a least
counterexample, as for `Total` of `Stream` (`AllUpTo` is that argument). That every set
of positions has an ascending list (`Subsequences`) is not proved, since no safety
property needs it: in the runs of `event_loop` and `timers` the steps that use one
are taken.

## Limits of the models

- One loop, one UI, one channel, one timer queue at a time. Two channels share
  only the loop, and `multiqueue` shows that their queues do not disturb each other.
- `UiBridge`: a draw is one call. An `InputRoom` below `MaxKeys` without a reader breaks
  `StopReturns`, which has a clause for it.
- `RpcChannel`: a socket channel. Channels to itself, over stdio or over a
  process, subscriptions and broadcasts are left out, and so is the exit of the
  program when `parse_msgpack` has no memory.
- `Stream`: the model has `uv_write` fail, but not `uv_read_start`.
- `Jobs`: a spawn works; a job has one output; `process_teardown` is left out, as
  is a signal to a pid that was reaped and given to another process; SIGTERM
  kills; a CTRL-C comes in a wait, not in a `:sleep`.
- `Timers`: `StoppedIsFreed` leaves out a timer with a callback on the stack: a `:sleep`
  in it handles events until none is left, which may be never.
- `FileWrite`: regular files, links, directories of the options; no devices, no
  autocommands that write the file themselves, no filters. The memory file below
  the swap file is taken to work.
- `UndoTree`: no time steps (`:earlier 10s`), no Vi-compatible undo ('cpoptions' u), no
  `U`, no marks and cursor; the lines of a header are one text; the bytes of an undo
  file are not modelled, and one that is cut short is one that is refused.

## Not modelled

- *Typed input* (`os/input.c`): what its neighbours need of it is in `EventLoop`,
  `UiBridge` and `RpcChannel`. Its own states (EOF, CursorHold, CTRL-C) are left.
- *Front of the UIs* (`ui.c`, `api/ui.c`): attach, detach and the refresh of the one UI
  are in `UiBridge`. The loop over several (`ui.c:77`) is left: a flush to a remote UI
  that fails closes its channel, which detaches the UI while the loop goes on.
- *RPC server, sockets*: connecting with a timeout, the list of addresses
  (`socket.c:251` is listed under hazards).
- *Program start and exit*: the end, `event_teardown`, is in `EventLoop`; the start is a
  straight line. The wait for children at exit (`process.c:169`) is listed under
  hazards: it needs the queues of `EventLoop` and the processes of `Jobs` in one model.
- *Terminal emulator*: the refresh timer and the destruction of a terminal's buffer;
  the emulation is libvterm's.
- *Snail*: an RPC client; its widgets have no order to get wrong, its requests do
  (late answers, timeouts).
- *Editor core, API dispatch, RPC values, containers, translations, generated tables*:
  functions of data on one thread, where a test of inputs and outputs reaches what
  can be wrong. Their 290 000 lines are why the models cover a small share of the
  whole; of the files of `event/` and of the functions named above they cover most.
- *The rest of persistence*: reading files, swap files and shada are formats and I/O.

## What could come next

1. Typed input and the terminal's refresh, each over the loop of `EventLoop`.
2. `process_teardown`, by composing `EventLoop` and `Jobs`.
3. Sockets and the server; several UIs.
4. The tree of `UndoTree` with recursive functions instead of `RECURSIVE` operators,
   so that `TreeIsWhole` can be proved.

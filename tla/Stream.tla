------------------------------- MODULE Stream --------------------------------
(***************************************************************************)
(* A stream of nvim/event/{stream,rstream,wstream}.c: libuv reads into its *)
(* ring buffer and stops when that is full, the owner's callback consumes  *)
(* what was read, at once or from a queue, and so starts the reading       *)
(* again; writes are counted until they are done; the handle is closed     *)
(* when the owner has closed the stream and no event or write is pending.  *)
(* Bytes are numbered as they arrive.                                      *)
(*                                                                         *)
(* The owners differ in how they read:                                     *)
(*   "job"    on_job_output of eval.c: from a queue, as many as were read  *)
(*   "rpc"    receive_msgpack: at once, as many as were read               *)
(*   "input"  os/input.c, system_data_cb of os/shell.c: at once, all       *)
(*   "shell"  out_data_cb of os/shell.c: at once, what one pointer shows   *)
(*   "tui"    tui/input.c: at once, all, and the buffer is reset           *)
(*   "nobody" do_os_system without output: there is no callback            *)
(* A socket ("rpc") is written to as well, the input of a child ("in")     *)
(* only so.                                                                *)
(***************************************************************************)
EXTENDS RingBuffer

CONSTANTS MaxBytes,   \* bound on the bytes that arrive
          MaxMem,     \* maxmem
          Sizes,      \* of the buffers written
          MaxWrites   \* bound on the writes

ASSUME StreamAssumption ==
    /\ {MaxBytes, MaxMem, MaxWrites} \subseteq Nat
    /\ Sizes \subseteq Nat \ {0}
    /\ 0 .. MaxBytes \subseteq Byte

Owners == {"job", "rpc", "input", "shell", "tui", "nobody", "in"}

VARIABLES
    owner,        \* whose stream it is
    reading,      \* libuv reads
    suspended,    \* the owner stopped the reading
    events,       \* the read events not handled yet
    frames,       \* the callbacks that are running
    pendingReqs, closed,
    handle,       \* of libuv: open, closing, closed
    curmem,
    writes,       \* the sizes of the writes in flight
    arrived,      \* bytes read by libuv
    taken,        \* bytes consumed by the owner
    eofs,         \* how often the end was read since the owner began to read
    closings,     \* how many times uv_close was called
    leaked,       \* curmem of writes that uv_write refused
    written       \* writes so far

readVars == <<ringVars, reading, events, arrived, eofs>>
closeVars == <<closed, handle, closings>>
writeVars == <<curmem, writes, leaked, written>>
vars == <<owner, suspended, readVars, frames, pendingReqs, closeVars, writeVars, taken>>

(* Fault: so are the terminal's events. *)
QueuedMore == owner \in {"job", "tui"}

(* The read events of a job are put on its queue. *)
Queued == owner = "job"

(* A callback that is not queued runs before anything else; one of a job   *)
(* may wait in a nested loop, once it has consumed.                        *)
Idle == IF Queued THEN TRUE ELSE events = <<>> /\ frames = <<>>

(* uv_close; libuv stops reading. *)
StreamCloseHandle ==
    /\ handle' = "closing"
    /\ closings' = closings + 1
    /\ reading' = FALSE

-----------------------------------------------------------------------------
(* Reading.                                                                *)

(* Fault: only a write that fills the buffer to its end stops the reading. *)
OnFullLate == IF writePtr' = 0 /\ size' = Capacity THEN FALSE ELSE reading

(* on_rbuffer_full *)
OnFull == IF size' = Capacity THEN FALSE ELSE reading

(* invoke_read_cb *)
InvokeReadCb(count, eof) ==
    /\ pendingReqs' = pendingReqs + 1
    /\ events' = Append(events, [count |-> count, eof |-> eof])

(* read_cb, fread_idle_cb: n bytes were read where alloc_cb pointed. *)
ReadCb(n) ==
    /\ reading /\ Idle
    /\ arrived + n <= MaxBytes
    /\ Produce([i \in 1 .. n |-> arrived + i])
    /\ reading' = OnFull
    /\ arrived' = arrived + n
    /\ InvokeReadCb(n, FALSE)
    /\ UNCHANGED <<owner, suspended, frames, closeVars, writeVars, taken, eofs>>

(* The end of the stream, or an error. *)
ReadEof ==
    /\ reading /\ Idle
    /\ reading' = FALSE
    /\ eofs' = eofs + 1
    /\ InvokeReadCb(0, TRUE)
    /\ UNCHANGED <<owner, suspended, ringVars, arrived, frames, closeVars, writeVars, taken>>

(* Fault: every consumption starts the reading. *)
OnNonfullAlways == TRUE

(* Fault: none does. *)
OnNonfullForgotten == reading

(* on_rbuffer_nonfull *)
OnNonfull == IF size = Capacity THEN TRUE ELSE reading

(* Fault: a job takes what one pointer shows. *)
AmountShown(e) == IF owner \in {"input", "tui"} THEN size ELSE ReadCount

(* What the callback of the owner consumes. *)
Amount(e) == CASE owner \in {"input", "tui"} -> size
               [] owner = "shell" -> ReadCount
               [] OTHER -> e.count

(* read_event: the callback consumes, and goes on to what the bytes mean. *)
ReadEvent ==
    /\ events # <<>>
    /\ LET e == Head(events)
       IN IF e.eof \/ owner = "nobody"
          THEN UNCHANGED <<ringVars, reading, taken>>
          ELSE /\ Consume(Amount(e))
               /\ reading' = OnNonfull
               /\ taken' = taken + Amount(e)
    /\ events' = Tail(events)
    /\ frames' = Append(frames, "read")
    /\ UNCHANGED <<owner, suspended, pendingReqs, closeVars, writeVars, arrived, eofs>>

(* Fault: the handle is closed although other events are pending. *)
LastPendingAny == closed

(* Fault: the request that ends is not counted off yet. *)
LastPendingLate == closed /\ pendingReqs = 0

(* The stream is closed and this was its last event or write. *)
LastPending == closed /\ pendingReqs = 1

(* The callback returns.  tui/input.c ends with rbuffer_reset. *)
EndReadEvent ==
    /\ frames # <<>> /\ frames[Len(frames)] = "read"
    /\ frames' = SubSeq(frames, 1, Len(frames) - 1)
    /\ IF owner = "tui" THEN Reset ELSE UNCHANGED ringVars
    /\ pendingReqs' = pendingReqs - 1
    /\ IF LastPending
       THEN StreamCloseHandle
       ELSE UNCHANGED <<handle, closings, reading>>
    /\ UNCHANGED <<owner, suspended, events, closed, writeVars, arrived, taken, eofs>>

(* The terminal is left and entered again: rstream_stop, rstream_start.    *)
Suspend ==
    /\ owner = "tui" /\ Idle /\ ~closed /\ ~suspended
    /\ suspended' = TRUE
    /\ reading' = FALSE
    /\ UNCHANGED <<owner, ringVars, events, arrived, eofs, frames, pendingReqs,
                   closeVars, writeVars, taken>>

Resume ==
    /\ suspended /\ ~closed
    /\ suspended' = FALSE
    /\ reading' = TRUE
    /\ eofs' = 0
    /\ UNCHANGED <<owner, ringVars, events, arrived, frames, pendingReqs, closeVars,
                   writeVars, taken>>

-----------------------------------------------------------------------------
(* Writing.                                                                *)

(* Fault: the limit is not looked at. *)
AcceptsAny == TRUE

Accepts == curmem <= MaxMem

(* wstream_write; its callers look whether the stream is closed. *)
Write(s) ==
    /\ ~closed /\ owner \in {"rpc", "in"} /\ written < MaxWrites
    /\ Accepts
    /\ written' = written + 1
    /\ curmem' = curmem + s
    /\ writes' = Append(writes, s)
    /\ pendingReqs' = pendingReqs + 1
    /\ UNCHANGED <<owner, suspended, readVars, frames, closeVars, leaked, taken>>

(* uv_write fails: the buffer is released, curmem stays. *)
WriteFails(s) ==
    /\ ~closed /\ owner \in {"rpc", "in"} /\ written < MaxWrites
    /\ Accepts
    /\ written' = written + 1
    /\ curmem' = curmem + s
    /\ leaked' = leaked + s
    /\ UNCHANGED <<owner, suspended, readVars, frames, pendingReqs, closeVars, writes,
                   taken>>

(* write_cb: the memory is given back, then the owner is told. *)
WriteCb ==
    /\ writes # <<>>
    /\ Idle
    /\ curmem' = curmem - Head(writes)
    /\ writes' = Tail(writes)
    /\ frames' = Append(frames, "write")
    /\ UNCHANGED <<owner, suspended, readVars, pendingReqs, closeVars, leaked, written,
                   taken>>

EndWriteCb ==
    /\ frames # <<>> /\ frames[Len(frames)] = "write"
    /\ frames' = SubSeq(frames, 1, Len(frames) - 1)
    /\ pendingReqs' = pendingReqs - 1
    /\ IF LastPending
       THEN StreamCloseHandle
       ELSE UNCHANGED <<handle, closings, reading>>
    /\ UNCHANGED <<owner, suspended, ringVars, events, arrived, eofs, closed,
                   writeVars, taken>>

-----------------------------------------------------------------------------
(* Closing.                                                                *)

(* stream_close: by the owner, between two events or in a callback (of the *)
(* writes, only the input of a child has one).  input_stop of os/input.c   *)
(* stops the reading before.                                               *)
StreamClose ==
    /\ ~closed
    /\ ~Queued => events = <<>>
    /\ frames # <<>> /\ frames[Len(frames)] = "write" => owner = "in"
    /\ closed' = TRUE
    /\ IF pendingReqs = 0
       THEN StreamCloseHandle
       ELSE /\ reading' = (reading /\ owner # "input")
            /\ UNCHANGED <<handle, closings>>
    /\ UNCHANGED <<owner, suspended, ringVars, events, arrived, eofs, frames,
                   pendingReqs, writeVars, taken>>

(* close_cb: the buffer is freed. *)
CloseCb ==
    /\ handle = "closing"
    /\ handle' = "closed"
    /\ UNCHANGED <<owner, suspended, readVars, frames, pendingReqs, closed, closings,
                   writeVars, taken>>

-----------------------------------------------------------------------------
(* rstream_init, wstream_init, rstream_start *)
Init ==
    /\ RingInit /\ data = [o \in Offset |-> 0]
    /\ owner \in Owners
    /\ reading = (owner # "in") /\ suspended = FALSE
    /\ events = <<>> /\ frames = <<>>
    /\ pendingReqs = 0 /\ closed = FALSE /\ handle = "open"
    /\ curmem = 0 /\ writes = <<>> /\ leaked = 0 /\ written = 0
    /\ arrived = 0 /\ taken = 0 /\ eofs = 0 /\ closings = 0

Next ==
    \/ \E n \in 1 .. Capacity : ReadCb(n)
    \/ ReadEof \/ ReadEvent \/ EndReadEvent \/ Suspend \/ Resume
    \/ \E s \in Sizes : Write(s) \/ WriteFails(s)
    \/ WriteCb \/ EndWriteCb
    \/ StreamClose \/ CloseCb

(* The thread handles its events, callbacks return, and libuv closes what  *)
(* it was told to.  Nothing is assumed of the peer: it need not write, nor *)
(* take what is written, nor close.                                        *)
Fairness == /\ WF_vars(ReadEvent) /\ WF_vars(EndReadEvent) /\ WF_vars(EndWriteCb)
            /\ WF_vars(CloseCb)

Spec == Init /\ [][Next]_vars /\ Fairness

-----------------------------------------------------------------------------
(* The sum of a sequence of numbers, as a function that a proof can unfold. *)
Total(s) == LET upTo[n \in 0 .. Len(s)] == IF n = 0 THEN 0 ELSE upTo[n - 1] + s[n]
            IN upTo[Len(s)]

InFlight == Total(writes)

Event == [count : 0 .. Capacity, eof : BOOLEAN]

TypeOK ==
    /\ RingTypeOK
    /\ owner \in Owners
    /\ {reading, suspended, closed} \subseteq BOOLEAN
    /\ events \in Seq(Event)
    /\ frames \in Seq({"read", "write"}) /\ pendingReqs \in Nat
    /\ handle \in {"open", "closing", "closed"}
    /\ writes \in Seq(Sizes)
    /\ {curmem, leaked, written, arrived, taken, eofs, closings} \subseteq Nat

(* The bytes reach the owner in the order they arrived, none of them lost  *)
(* or doubled, wherever the buffer wraps and however events are nested.    *)
InOrder == /\ size = arrived - taken
           /\ owner # "nobody" =>
                \A i \in 1 .. size : Content[i] = taken + i

(* libuv never reads into a full buffer: alloc_cb would have no room for   *)
(* it, and a file, read by its idle handle, would seem to be at its end.   *)
ReadsIntoRoom == reading => size < Capacity

(* on_job_output reads through one pointer "to keep reading consistent     *)
(* with the order of events": what an event counts never wraps.  Nor does  *)
(* the buffer of out_data_cb: what one pointer shows is all there is.      *)
ChunkInOnePiece ==
    events # <<>> => /\ owner \in {"job", "rpc"} => Head(events).count <= ReadCount
                     /\ owner = "shell" => ReadCount = size

(* What an event stands for is in the buffer. *)
ReadInOrder == InOrder /\ ChunkInOnePiece

(* The end is read once, and nothing starts the reading again after it.    *)
EndIsFinal == eofs <= 1 /\ (eofs = 1 => ~reading)

(* The owner that stopped the reading is not disturbed until it starts it. *)
StaysSuspended == suspended => ~reading

(* libuv reads only while the stream can take what it reads. *)
ReadsWhenWanted == ReadsIntoRoom /\ EndIsFinal /\ StaysSuspended

(* pending_reqs counts the events, the writes and the callbacks that use   *)
(* the stream: the handle is closed once, when there are none.             *)
ClosedAfterLast ==
    /\ pendingReqs = Len(events) + Len(frames) + Len(writes)
    /\ closings = (IF handle = "open" THEN 0 ELSE 1)
    /\ handle # "open" => closed /\ pendingReqs = 0

(* curmem counts what is in flight and what uv_write refused: a stream on  *)
(* which writes failed accepts less ever after, never more.                *)
CurmemCounts ==
    /\ curmem = InFlight + leaked
    /\ \A s \in Sizes : (\A t \in Sizes : t <= s) => curmem <= MaxMem + s

(* The state is consistent: pending_reqs and curmem are what they count. *)
PendingCounted == TypeOK /\ ClosedAfterLast /\ CurmemCounts

(* A closed stream ends, unless the peer does not take what was written.   *)
ClosedEnds == closed ~> (handle = "closed" \/ writes # <<>>)

(* A full buffer stops the reading for a while only, if the stream has a   *)
(* reader.                                                                 *)
FullIsTemporary ==
    (size = Capacity /\ owner # "nobody") ~> (reading \/ closed \/ suspended)

=============================================================================

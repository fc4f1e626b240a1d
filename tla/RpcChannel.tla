----------------------------- MODULE RpcChannel -----------------------------
(***************************************************************************)
(* A socket channel of nvim/msgpack/channel.c: the requests it sends and   *)
(* waits for in nested loops, the requests and notifications it gets, the  *)
(* references that keep it allocated, and how it is closed.                *)
(*                                                                         *)
(* The stack holds the functions the main thread is in, the running one    *)
(* first.  The channel is a record; the functions of the code that change  *)
(* it are operators from a channel to a channel.  Requests and             *)
(* notifications are numbered.  A buffer written counts as one unit of     *)
(* memory.  The peer is the outside: it asks, answers what it has read in  *)
(* any order, and closes, at any time.                                     *)
(***************************************************************************)
EXTENDS Naturals, Sequences, SequencesExt

CONSTANTS Asks,       \* the messages of the peer's own, by what they are
          MaxMem,     \* maxmem of the stream
          MaxCalls,   \* bound on the requests sent
          MaxNotes,   \* bound on the notifications sent
          MaxAsks,    \* bound on the messages of the peer's own
          MaxStops,   \* bound on the calls of channel_close
          MayBreak    \* whether uv_write may fail

ASSUME ChannelAssumption ==
    /\ Asks \subseteq {"sync", "async", "get_mode", "note", "invalid", "garbage"}
    /\ {MaxMem, MaxCalls, MaxNotes, MaxAsks, MaxStops} \subseteq Nat
    /\ MayBreak \in BOOLEAN

VARIABLES ch,          \* the channel and its stream
          fromPeer,    \* sent by the peer, not read yet
          unpacker,    \* fed to the unpacker, not unpacked yet
          events,      \* request events, in order of put, each with its queue
          stack,       \* what the main thread is in
          blocking,    \* input_blocking()
          peer,        \* what the peer asked, has to answer and has heard
          made,        \* history: the notifications made, and the closes
          answered     \* history: the peer's messages whose handling is over

vars == <<ch, fromPeer, unpacker, events, stack, blocking, peer, made, answered>>
history == <<made, answered>>

Message(type, n) == [type |-> type, n |-> n]

Top == Head(stack)
GoTo(at) == [Top EXCEPT !.at = at]
Push(kind, n) == <<[kind |-> kind, at |-> "check", n |-> n]>> \o stack
StackTop(f) == <<f>> \o Tail(stack)
ReceiveFrame == [kind |-> "receive", at |-> "check", n |-> 0]

Freed == ch.refcount = 0

-----------------------------------------------------------------------------
(* The functions of channel.c.                                             *)

Incref(c) == [c EXCEPT !.refcount = @ + 1]
Decref(c) == [c EXCEPT !.refcount = @ - 1]

(* stream_close: the handle is closed when no write is pending. *)
StreamClose(c) ==
    [c EXCEPT !.stream = IF c.writing = 0 THEN "closing" ELSE "draining"]

(* Fault: it may be closed again. *)
CloseChannelAgain(c) == Decref(StreamClose([c EXCEPT !.closed = TRUE]))

(* close_channel *)
CloseChannel(c) ==
    IF c.closed THEN c ELSE Decref(StreamClose([c EXCEPT !.closed = TRUE]))

(* Fault: the last call ends with an error. *)
SetErrorLast(c) ==
    CloseChannel([c EXCEPT !.calls =
        [i \in DOMAIN @ |-> IF i # Len(c.calls) THEN @[i]
                           ELSE [@[i] EXCEPT !.returned = TRUE, !.errored = TRUE,
                                             !.got = 0]]])

(* call_set_error: every waiting call ends with an error. *)
SetError(c) ==
    CloseChannel([c EXCEPT !.calls =
        [i \in DOMAIN @ |-> [@[i] EXCEPT !.returned = TRUE, !.errored = TRUE, !.got = 0]]])

Accepts(c) == ~c.closed /\ c.writing <= MaxMem /\ ~c.broken

(* channel_write, wstream_write: on a closed channel nothing happens; with *)
(* too much in flight, or when uv_write fails, the channel is closed.      *)
Write(c, m) ==
    IF Accepts(c) THEN [c EXCEPT !.writing = @ + 1, !.out = Append(@, m)]
    ELSE IF c.closed THEN c ELSE SetError(c)

(* The loop of send_delayed_notifications. *)
Sent(c) ==
    LET after[i \in 0 .. Len(c.delayed)] ==
          IF i = 0 THEN c ELSE Write(after[i - 1], Message("note", c.delayed[i]))
    IN  after[Len(c.delayed)]

(* Fault: they stay in the list. *)
SendDelayedKept(c) == Sent(c)

(* send_delayed_notifications *)
SendDelayed(c) == [Sent(c) EXCEPT !.delayed = <<>>]

Respond(c, n) == Write(c, Message("response", n))

-----------------------------------------------------------------------------
(* What the editor and its handlers do of their own will.                  *)

(* Main runs a command, or a handler of a deferred request runs. *)
Active == \/ Top.kind = "main" /\ Top.at = "check"
          \/ Top.kind = "handler"

(* channel_send_call, to the wait: the request is written before its frame *)
(* is pushed, so a failure to write it ends every call but this one.       *)
Call ==
    /\ Active
    /\ ~ch.closed
    /\ ch.next <= MaxCalls
    /\ LET c == Write([Incref(ch) EXCEPT !.next = @ + 1], Message("request", ch.next))
           f == [id |-> ch.next, returned |-> FALSE, errored |-> FALSE, got |-> 0]
       IN  /\ ch' = [c EXCEPT !.calls = Append(@, f), !.pending = @ + 1]
           /\ made' = [made EXCEPT !.unended = @ \/ c.closed]
    /\ stack' = Push("call", ch.next)
    /\ UNCHANGED <<fromPeer, unpacker, events, blocking, peer, answered>>

HoldsBack(c) == c.pending > 0

(* channel_send_event *)
Notify ==
    /\ Active
    /\ ~ch.closed
    /\ made.notes < MaxNotes
    /\ made' = [made EXCEPT !.notes = @ + 1]
    /\ ch' = IF HoldsBack(ch)
             THEN [ch EXCEPT !.delayed = Append(@, made.notes + 1)]
             ELSE Write(ch, Message("note", made.notes + 1))
    /\ UNCHANGED <<fromPeer, unpacker, events, stack, blocking, peer, answered>>

(* channel_close: no waiting call is told.                                 *)
Waiting == \E i \in DOMAIN ch.calls : ~ch.calls[i].returned
Stop ==
    /\ Active
    /\ ~ch.closed
    /\ made.stops < MaxStops
    /\ made' = [made EXCEPT !.stops = @ + 1, !.unended = @ \/ Waiting]
    /\ ch' = CloseChannel(ch)
    /\ UNCHANGED <<fromPeer, unpacker, events, stack, blocking, peer, answered>>

-----------------------------------------------------------------------------
(* Waits, and the handlers they run.                                       *)

(* The frame of the call on top of the stack is the last pushed. *)
Frame == Last(ch.calls)

(* The frame is popped. *)
Returned(c) == [c EXCEPT !.calls = Front(@), !.pending = @ - 1]

(* channel_send_call, from the end of the wait. *)
FinishCall ==
    /\ Top.kind = "call" /\ Top.at = "check"
    /\ Frame.returned
    /\ LET c == Returned(ch)
       IN  ch' = Decref(IF HoldsBack(c) THEN c ELSE SendDelayed(c))
    /\ stack' = Tail(stack)
    /\ UNCHANGED <<fromPeer, unpacker, events, blocking, peer, history>>

(* A wait reads its queue: a call that of the channel, main that of the    *)
(* loop, which is the parent of both; before main blocks for a key it      *)
(* reads ch_before_blocking_events alone.                                  *)
Waits == Top.kind \in {"main", "call"}
Reads(home) == \/ home = "channel" /\ Top.at # "block"
               \/ home = "blocking" /\ Top.kind = "main"
Unread == \E i \in 1 .. Len(events) : Reads(events[i].home)

(* A wait takes what its queue holds, or polls. *)
Wait ==
    /\ Waits /\ Top.at = "check"
    /\ Top.kind = "call" => ~Frame.returned
    /\ stack' = StackTop(GoTo(IF Unread THEN "drain" ELSE "poll"))
    /\ UNCHANGED <<ch, fromPeer, unpacker, events, blocking, peer, history>>

(* input_poll when events are not enabled: main wants a key. *)
Block ==
    /\ Top.kind = "main" /\ Top.at = "check"
    /\ blocking' = TRUE
    /\ stack' = StackTop(GoTo("block"))
    /\ UNCHANGED <<ch, fromPeer, unpacker, events, peer, history>>

(* on_request_event begins. *)
Handle ==
    /\ Waits /\ Top.at \in {"block", "drain"}
    /\ \E i \in 1 .. Len(events) :
         /\ Reads(events[i].home)
         /\ \A j \in 1 .. i - 1 : ~Reads(events[j].home)
         /\ events' = RemoveAt(events, i)
         /\ stack' = Push(IF events[i].home = "channel" THEN "handler" ELSE "async",
                          events[i].n)
    /\ UNCHANGED <<ch, fromPeer, unpacker, blocking, peer, history>>

(* ... and ends; a notification gets no response. *)
HandlerReturns ==
    /\ Top.kind \in {"handler", "async"}
    /\ ch' = Decref(IF peer.asked[Top.n] = "note" THEN ch ELSE Respond(ch, Top.n))
    /\ answered' = Append(answered, Top.n)
    /\ stack' = Tail(stack)
    /\ UNCHANGED <<fromPeer, unpacker, events, blocking, peer, made>>

EndDrain ==
    /\ Waits /\ Top.at \in {"block", "drain"}
    /\ ~Unread
    /\ stack' = StackTop(GoTo(IF Top.at = "block" THEN "poll" ELSE "check"))
    /\ UNCHANGED <<ch, fromPeer, unpacker, events, blocking, peer, history>>

-----------------------------------------------------------------------------
(* The callbacks of a poll.                                                *)

Polling == Waits /\ Top.at \in {"poll", "served"}
Readable == ch.stream \in {"open", "draining"} /\ fromPeer # <<>>

(* receive_msgpack is fed what has come.  libuv reads again in the same    *)
(* poll only if the buffer was full, that is, if there was more; a wait    *)
(* for a key is as many polls as it takes.                                 *)
Receive ==
    /\ Polling /\ Readable
    /\ Top.at = "poll" \/ blocking
    /\ \E k \in 1 .. Len(fromPeer) :
         /\ fromPeer[k].type # "eof"
         /\ unpacker' = unpacker \o SubSeq(fromPeer, 1, k)
         /\ fromPeer' = SubSeq(fromPeer, k + 1, Len(fromPeer))
         /\ stack' = <<ReceiveFrame>>
              \o StackTop(GoTo(IF k = Len(fromPeer) THEN "served" ELSE "poll"))
    /\ ch' = Incref(ch)
    /\ UNCHANGED <<events, blocking, peer, history>>

(* Its reference, taken and dropped, is left out here. *)
ReceiveEof ==
    /\ Polling /\ Readable
    /\ Head(fromPeer).type = "eof"
    /\ fromPeer' = Tail(fromPeer)
    /\ ch' = SetError(ch)
    /\ UNCHANGED <<unpacker, events, stack, blocking, peer, history>>

(* The end of receive_msgpack. *)
Received(c) == /\ ch' = Decref(c)
               /\ stack' = Tail(stack)

Unpacks(type) == /\ Top.kind = "receive"
                 /\ unpacker # <<>>
                 /\ Head(unpacker).type = type

(* Fault: the rest is thrown away. *)
RestDropped == <<>>
Rest == Tail(unpacker)

(* Fault: a response is taken for the one waited for. *)
ExpectedAny(n) == ch.calls # <<>>

(* is_valid_rpc_response *)
Expected(n) == ch.calls # <<>> /\ Frame.id = n

(* parse_msgpack, of a response: what is left in the unpacker stays there. *)
ParseResponse ==
    /\ Unpacks("response")
    /\ unpacker' = Rest
    /\ \E isError \in BOOLEAN :
         LET n == Head(unpacker).n IN
         Received(IF Expected(n)
                  THEN [ch EXCEPT !.calls[Len(ch.calls)] =
                          [Frame EXCEPT !.returned = TRUE, !.errored = isError,
                                        !.got = n]]
                  ELSE SetError(ch))
    /\ UNCHANGED <<fromPeer, events, blocking, peer, history>>

(* Fault: the event does not hold the channel. *)
DeferNotHeld(home) == /\ events' = Append(events, [home |-> home, n |-> Head(unpacker).n])
                      /\ UNCHANGED ch

(* The event holds the channel. *)
Defer(home) == /\ events' = Append(events, [home |-> home, n |-> Head(unpacker).n])
               /\ ch' = Incref(ch)

ParseDeferred ==
    /\ \/ Unpacks("sync") /\ Defer("channel")
       \/ Unpacks("note") /\ Defer("channel")
       \/ Unpacks("get_mode") /\ ~blocking /\ Defer("blocking")
    /\ unpacker' = Rest
    /\ UNCHANGED <<fromPeer, stack, blocking, peer, history>>

(* A request that does not wait is answered at once. *)
ParseImmediate ==
    /\ Unpacks("async") \/ (Unpacks("get_mode") /\ blocking)
    /\ unpacker' = Rest
    /\ ch' = Respond(ch, Head(unpacker).n)
    /\ answered' = Append(answered, Head(unpacker).n)
    /\ UNCHANGED <<fromPeer, events, stack, blocking, peer, made>>

(* handle_request of what is not valid: an error is sent, and the channel  *)
(* closed.                                                                 *)
ParseInvalid ==
    /\ Unpacks("invalid")
    /\ unpacker' = Rest
    /\ ch' = IF Accepts(ch) THEN SetError(Respond(ch, Head(unpacker).n))
             ELSE Respond(ch, Head(unpacker).n)
    /\ answered' = Append(answered, Head(unpacker).n)
    /\ UNCHANGED <<fromPeer, events, stack, blocking, peer, made>>

(* parse_msgpack, of bytes that are no message: an error is sent, and the  *)
(* unpacker is left as the library leaves it, which may be at these bytes. *)
ParseFails ==
    /\ Unpacks("garbage")
    /\ Received(Respond(ch, 0))
    /\ \/ UNCHANGED <<unpacker, answered>>
       \/ unpacker' = Rest /\ answered' = Append(answered, Head(unpacker).n)
    /\ UNCHANGED <<fromPeer, events, blocking, peer, made>>

(* All is unpacked; without memory for it the program ends, which is left  *)
(* out.                                                                    *)
EndReceive ==
    /\ Top.kind = "receive" /\ unpacker = <<>>
    /\ Received(ch)
    /\ UNCHANGED <<fromPeer, unpacker, events, blocking, peer, history>>

(* write_cb; the last one closes the handle of a closed stream. *)
WriteDone ==
    /\ Polling /\ ch.writing > 0
    /\ ch' = [ch EXCEPT !.writing = @ - 1,
                        !.stream = IF @ = "draining" /\ ch.writing = 1
                                   THEN "closing" ELSE @]
    /\ UNCHANGED <<fromPeer, unpacker, events, stack, blocking, peer, history>>

(* close_cb of the stream *)
StreamClosed ==
    /\ Polling /\ ch.stream = "closing"
    /\ ch' = Decref([ch EXCEPT !.stream = "gone"])
    /\ UNCHANGED <<fromPeer, unpacker, events, stack, blocking, peer, history>>

(* From here on uv_write fails. *)
WritesBreak ==
    /\ MayBreak /\ ~ch.broken
    /\ ch' = [ch EXCEPT !.broken = TRUE]
    /\ UNCHANGED <<fromPeer, unpacker, events, stack, blocking, peer, history>>

EndPoll ==
    /\ Polling
    /\ stack' = StackTop(GoTo("check"))
    /\ blocking' = FALSE
    /\ UNCHANGED <<ch, fromPeer, unpacker, events, peer, history>>

-----------------------------------------------------------------------------
(* The peer.                                                               *)

OnlyPeer == UNCHANGED <<unpacker, events, stack, blocking, history>>

PeerAsks(type) ==
    /\ ~peer.closed
    /\ Len(peer.asked) < MaxAsks
    /\ peer' = [peer EXCEPT !.asked = Append(@, type)]
    /\ fromPeer' = Append(fromPeer, Message(type, Len(peer.asked) + 1))
    /\ OnlyPeer /\ UNCHANGED ch

PeerReads ==
    /\ ~peer.closed
    /\ ch.out # <<>>
    /\ ch' = [ch EXCEPT !.out = Tail(@)]
    /\ LET m == Head(ch.out) IN
       peer' = [peer EXCEPT !.owes = IF m.type = "request" THEN @ \cup {m.n} ELSE @,
                            !.heard = IF m.type = "note" THEN Append(@, m.n) ELSE @]
    /\ OnlyPeer /\ UNCHANGED fromPeer

PeerAnswers(n) ==
    /\ ~peer.closed
    /\ n \in peer.owes
    /\ peer' = [peer EXCEPT !.owes = @ \ {n}]
    /\ fromPeer' = Append(fromPeer, Message("response", n))
    /\ OnlyPeer /\ UNCHANGED ch

PeerCloses ==
    /\ ~peer.closed
    /\ peer' = [peer EXCEPT !.closed = TRUE]
    /\ fromPeer' = Append(fromPeer, Message("eof", 0))
    /\ OnlyPeer /\ UNCHANGED ch

-----------------------------------------------------------------------------
(* channel_from_connection: one reference until it is closed, one for the  *)
(* stream.                                                                 *)
Init ==
    /\ ch = [refcount |-> 2, closed |-> FALSE, stream |-> "open", writing |-> 0,
             out |-> <<>>, next |-> 1, pending |-> 0, calls |-> <<>>,
             delayed |-> <<>>, broken |-> FALSE]
    /\ fromPeer = <<>> /\ unpacker = <<>> /\ events = <<>>
    /\ stack = <<[kind |-> "main", at |-> "check", n |-> 0]>>
    /\ blocking = FALSE
    /\ peer = [asked |-> <<>>, closed |-> FALSE, owes |-> {}, heard |-> <<>>]
    /\ made = [notes |-> 0, stops |-> 0, unended |-> FALSE]
    /\ answered = <<>>

Parse == ParseResponse \/ ParseDeferred \/ ParseImmediate \/ ParseInvalid
         \/ ParseFails \/ EndReceive
MainStep == Wait \/ FinishCall \/ Handle \/ HandlerReturns \/ EndDrain \/ EndPoll \/ Parse

Next ==
    \/ MainStep \/ Block
    \/ Receive \/ ReceiveEof \/ WriteDone \/ StreamClosed \/ WritesBreak
    \/ Call \/ Notify \/ Stop
    \/ PeerReads \/ PeerCloses
    \/ \E type \in Asks : PeerAsks(type)
    \/ \E n \in peer.owes : PeerAnswers(n)

(* The main thread runs, a key ends a wait for a key, and main does not    *)
(* want keys only.  A poll serves what is ready, though it may end just    *)
(* before that comes; writes to a peer that has closed end, with an error. *)
Fairness ==
    /\ WF_vars(MainStep) /\ SF_vars(Wait)
    /\ SF_vars(Receive \/ ReceiveEof)
    /\ SF_vars(WriteDone /\ peer.closed)
    /\ SF_vars(StreamClosed)

Spec == Init /\ [][Next]_vars /\ Fairness

-----------------------------------------------------------------------------
Messages == [type : Asks \cup {"response", "eof"}, n : Nat]
Events == [home : {"channel", "blocking"}, n : 1 .. MaxAsks]
At == {"check", "block", "drain", "poll", "served"}
Places == [kind : {"main", "call", "handler", "async", "receive"}, at : At, n : Nat]
Frames == [id : 1 .. MaxCalls, returned : BOOLEAN, errored : BOOLEAN, got : 0 .. MaxCalls]

TypeOK ==
    /\ ch \in [refcount : Nat, closed : BOOLEAN,
               stream : {"open", "draining", "closing", "gone"}, writing : Nat,
               out : Seq([type : {"request", "note", "response"}, n : Nat]),
               next : 1 .. MaxCalls + 1, pending : Nat, calls : Seq(Frames),
               delayed : Seq(1 .. MaxNotes), broken : BOOLEAN]
    /\ fromPeer \in Seq(Messages) /\ unpacker \in Seq(Messages)
    /\ events \in Seq(Events)
    /\ stack \in Seq(Places) /\ stack # <<>>
    /\ \A i \in DOMAIN stack : stack[i].kind = "main" <=> i = Len(stack)
    /\ blocking \in BOOLEAN
    /\ peer \in [asked : Seq(Asks), closed : BOOLEAN, owes : SUBSET (1 .. MaxCalls),
                 heard : Seq(1 .. MaxNotes)]
    /\ answered \in Seq(1 .. MaxAsks)
    /\ made \in [notes : 0 .. MaxNotes, stops : 0 .. MaxStops, unended : BOOLEAN]

(* The channel is allocated as long as somebody holds it and no longer:    *)
(* the list of open channels, its stream, every call that waits, every     *)
(* request event, handled or not, every function that reads from it.       *)
Holders == Len(Front(stack)) + Len(events)
RefcountIsHolders ==
    ch.refcount = Holders + (IF ch.closed THEN 0 ELSE 1)
                          + (IF ch.stream = "gone" THEN 0 ELSE 1)

(* The state is consistent. *)
ChannelHeld == TypeOK /\ RefcountIsHolders

(* Notifications go out in the order they were made, those held back and   *)
(* those sent at once: none overtakes another and none goes twice.         *)
InOrder(heard, out, delayed) ==
    LET notes == {i \in DOMAIN out : out[i].type = "note"} IN
    /\ \A i, j \in DOMAIN heard : i < j => heard[i] < heard[j]
    /\ \A i, j \in notes : i < j => out[i].n < out[j].n
    /\ \A i, j \in DOMAIN delayed : i < j => delayed[i] < delayed[j]
    /\ \A i \in notes : /\ \A h \in DOMAIN heard : heard[h] < out[i].n
                        /\ \A d \in DOMAIN delayed : out[i].n < delayed[d]
    /\ \A h \in DOMAIN heard : \A d \in DOMAIN delayed : heard[h] < delayed[d]
NotesInOrder == InOrder(peer.heard, ch.out, ch.delayed)

(* Every message of the peer's own is in one place, once: on its way, left *)
(* in the unpacker, in an event, with its handler, or handled; none is     *)
(* lost as a response ends the unpacking, or an event changes queues.      *)
AskMessages == [type : Asks, n : Nat]
Handlers == [kind : {"handler", "async"}, at : At, n : Nat]
Among(s, K) == {i \in DOMAIN s : s[i] \in K}
Numbers(s, K) == {s[i].n : i \in Among(s, K)}
Once(s, K) == \A i, j \in Among(s, K) : s[i].n = s[j].n => i = j
EachAskOnce ==
    LET places == <<Numbers(fromPeer, AskMessages), Numbers(unpacker, AskMessages),
                    Numbers(events, Events), Numbers(stack, Handlers),
                    ToSet(answered)>>
    IN  /\ UNION {places[i] : i \in 1 .. 5} = 1 .. Len(peer.asked)
        /\ \A i, j \in 1 .. 5 : i # j => places[i] \cap places[j] = {}
        /\ Once(fromPeer, AskMessages) /\ Once(unpacker, AskMessages)
        /\ Once(events, Events) /\ Once(stack, Handlers) /\ IsInjective(answered)

(* A call that ends has got the response to its own request, a good one or *)
(* an error, of a peer that answers nested requests in any order, or the   *)
(* error of a channel that fails.                                          *)
OwnResult(f) == f.got = f.id \/ (f.errored /\ f.got = 0)
OwnAnswer == \A i \in 1 .. Len(ch.calls) : ch.calls[i].returned => OwnResult(ch.calls[i])

(* When the peer has closed its end, the calls that wait end, the events   *)
(* are handled and the channel is freed, whatever closes it: the end, too  *)
(* much in flight, uv_write, an answer nobody expects, a script.  Two      *)
(* calls are left waiting (unended): one whose own write failed, since its *)
(* frame is pushed after that, and one that waits when a script closes the *)
(* channel.                                                                *)
PeerGoneFrees == peer.closed ~> (Freed \/ made.unended)

=============================================================================

-------------------------------- MODULE Jobs ---------------------------------
(***************************************************************************)
(* Child processes (nvim/event/process.c, event/libuv_process.c,           *)
(* os/pty_process_unix.c) and the job functions of eval.c: a script starts *)
(* jobs, stops them and waits for them, also in the callbacks of jobs that *)
(* another wait handles.  A process is gone when it has exited and its     *)
(* streams and its handle are closed, in whatever order that comes.        *)
(*                                                                         *)
(* A job has an input and an output; its stderr is another output.  The    *)
(* queue of a job is under main_loop.events, or under the queue of a       *)
(* jobwait; what a reader sees of it is what SelectiveFifo promises.       *)
(***************************************************************************)
EXTENDS Naturals, FiniteSets, SequencesExt

CONSTANTS Procs,      \* the jobs
          Pty,        \* those of them on a pseudo terminal
          Lists,      \* the lists of jobs a script waits for
          MaxOutput,  \* bound on what each of them writes
          Room,       \* what the ring buffer of an output holds
          Buffer,     \* what the system holds of an output (uv_recv_buffer_size)
          MaxCalls    \* bound on jobwait, jobstop, jobclose, :sleep and CTRL-C

ASSUME JobsAssumption ==
    /\ IsFiniteSet(Procs) /\ Pty \subseteq Procs
    /\ Lists \subseteq Seq(Procs) \ {<<>>}
    /\ MaxOutput \in [Procs -> Nat] /\ MaxCalls \in Nat
    /\ {Room, Buffer} \subseteq Nat \ {0}

VARIABLES
    \* the operating system
    os,            \* each child: none, running, zombie, reaped
    sigchld,       \* the SIGCHLD to be handled
    pipe,          \* what each child wrote and was not read yet
    \* the processes and jobs
    job,
    stopRequests,  \* loop->children_stop_requests; the kill timer runs if not 0
    events,        \* of the queues of all jobs, oldest first
    \* the main thread
    stack,         \* what it is doing
    polling,       \* it is in uv_run
    gotInt,
    calls          \* how many came from scripts and the user

osVars == <<os, sigchld, pipe>>
procVars == <<job, stopRequests, events>>
vars == <<osVars, procVars, stack, polling, gotInt, calls>>

Main == 0   \* the queue main_loop.events; others are named by their jobwait
None == 0   \* no jobwait

NewJob == [refs |-> 0, in |-> "none", out |-> "none", handle |-> "none",
           reads |-> 0, wrote |-> 0, stopped |-> FALSE,
           jobStopped |-> FALSE, cut |-> FALSE, killed |-> FALSE, data |-> "none", parent |-> Main,
           statusPtr |-> None]

Top == stack[Len(stack)]
Below == SubSeq(stack, 1, Len(stack) - 1)
Now(f) == Append(Below, f)   \* the top frame goes on as f

Calls == calls < MaxCalls /\ calls' = calls + 1

(* num_bytes of its output *)
Arrived(p) == job[p].wrote - pipe[p]

Event(p, what) == [proc |-> p, what |-> what]

(* The job is in the map of jobs. *)
Known(p) == job[p].data \in {"live", "leaving"}

(* find_job *)
FindJob(p) == Known(p) /\ ~job[p].jobStopped

(* loop->children *)
children == {p \in Procs : job[p].refs > 0}

-----------------------------------------------------------------------------
(* Parts of the steps.                                                     *)

(* Fault: a stream with an event pending is closed at once. *)
CloseStreamNow(s, reads) == IF s = "open" THEN "closing" ELSE s

(* CLOSE_PROC_STREAM, stream_close *)
CloseStream(s, reads) == IF s # "open" THEN s
                         ELSE IF reads = 0 THEN "closing" ELSE "waiting"

CloseStreams(j) == [j EXCEPT !.in = CloseStream(@, 0), !.out = CloseStream(@, j.reads)]

(* Fault: one callback for all handles of a poll. *)
DecrefOnce(j, n) == IF n = 0 THEN j ELSE [j EXCEPT !.refs = @ - 1]

(* decref of a process, n times.  The last takes it off the list of        *)
(* children and calls for the exit callback.                               *)
Decref(j, n) == [j EXCEPT !.refs = @ - n]

(* Fault: the exit callback waits for the process handle only. *)
LastRefEarly(j, n) == n > 0 /\ j.handle \in {"closing", "closed"} /\ j.refs > 0

LastRef(j, n) == n > 0 /\ j.refs = n

(* process_stop *)
Stopped(p, j) ==
    IF j.stopped THEN j
    ELSE [(IF p \in Pty THEN [CloseStreams(j) EXCEPT !.cut = TRUE]
                        ELSE [j EXCEPT !.in = CloseStream(@, 0)]) EXCEPT !.stopped = TRUE]

(* What it counts. *)
CountStop(j) == stopRequests' = IF j.stopped THEN stopRequests ELSE stopRequests + 1

-----------------------------------------------------------------------------
(* The children.  What one does between two polls shows in the next.       *)

ChildWrites(p) ==
    /\ polling /\ os[p] = "running" /\ job[p].wrote < MaxOutput[p]
    /\ pipe' = [pipe EXCEPT ![p] = @ + 1]
    /\ job' = [job EXCEPT ![p].wrote = @ + 1]
    /\ UNCHANGED <<os, sigchld, stopRequests, events, stack, polling, gotInt, calls>>

(* Two signals not yet delivered are one. *)
ChildExits(p) ==
    /\ polling /\ os[p] = "running"
    /\ os' = [os EXCEPT ![p] = "zombie"]
    /\ sigchld' \in {sigchld + 1, IF sigchld = 0 THEN 1 ELSE sigchld}
    /\ UNCHANGED <<pipe, procVars, stack, polling, gotInt, calls>>

-----------------------------------------------------------------------------
(* The waits.  A frame of the stack is the main loop, the callback of a    *)
(* stream or of an exit (in which a script runs), process_close_handles    *)
(* while it flushes, a jobwait, or a :sleep.                               *)

(* The jobs whose events the frame f processes. *)
Source(f) ==
    CASE f.op \in {"main", "sleep"} -> {p \in Procs : job[p].parent = Main}
      [] f.op = "flush" /\ f.step = "drain" -> {f.proc}
      [] f.op = "wait" /\ f.step \in {"settle", "restore", "gone"} -> {f.list[f.i]}
      [] f.op = "wait" /\ f.step \in {"until", "until2", "once", "final"} ->
           {p \in Procs : job[p].parent = f.id}
      [] OTHER -> {}

Unread(f) == \E i \in 1 .. Len(events) : events[i].proc \in Source(f)

(* Fault: the wait forgets its own reference. *)
ReachedAtZero(f) == /\ f.op = "wait"
                    /\ \/ f.step = "until" /\ (gotInt \/ job[f.list[f.i]].refs = 0)
                       \/ f.step = "until2" /\ job[f.list[f.i]].refs = 0

(* The condition of LOOP_PROCESS_EVENTS_UNTIL, which it reads before it    *)
(* polls and before it processes events, not between two of them.          *)
Reached(f) == /\ f.op = "wait"
              /\ \/ f.step = "until" /\ (gotInt \/ job[f.list[f.i]].refs = 1)
                 \/ f.step = "until2" /\ job[f.list[f.i]].refs = 1

AtCheck(f) == f.draining => ~Unread(f)

Goes(f, step) == [f EXCEPT !.step = step, !.draining = FALSE]
Next1(f, step) == [Goes(f, step) EXCEPT !.i = @ + 1]

(* A single LOOP_PROCESS_EVENTS, and how f goes on after it. *)
Once(f) == f.op = "wait" /\ f.step \in {"once", "gone"}
AfterOnce(f) == IF f.step = "once" THEN Goes(f, "finish") ELSE Next1(f, "pick")

Holds(f, p) == /\ f.op = "wait" /\ f.step \in {"until", "until2", "once", "finish"}
               /\ f.list[f.i] = p

(* Fault: what is still in the pipe is not read. *)
FlushedAtOnce(f) == TRUE

(* flush_stream is done with the output: it was closed, or as much came as *)
(* the system holds, or a poll and the events it gave brought no more.     *)
Flushed(f) == \/ f.step = "poll" /\ (job[f.proc].out # "open" \/ Arrived(f.proc) >= f.limit)
              \/ f.step = "drain" /\ ~Unread(f) /\ Arrived(f.proc) = f.mark

Waiting(f) == \/ f.op \in {"main", "sleep"}
              \/ f.op = "wait" /\ f.step \in {"until", "until2", "once", "gone"}
              \/ f.op = "flush" /\ f.step = "poll"

(* LOOP_PROCESS_EVENTS polls when there is nothing to process. *)
Poll ==
    /\ ~polling /\ Waiting(Top) /\ ~Unread(Top) /\ ~Reached(Top)
    /\ ~(Once(Top) /\ Top.draining) /\ ~(Top.op = "flush" /\ Flushed(Top))
    /\ polling' = TRUE
    /\ stack' = IF Top.op \in {"wait", "sleep"}
                THEN Now([Top EXCEPT !.draining = FALSE]) ELSE stack
    /\ UNCHANGED <<osVars, procVars, gotInt, calls>>

-----------------------------------------------------------------------------
(* libuv, in a poll.                                                       *)

(* A full ring buffer stops the reading, until a callback consumes some. *)
Readable(p) == /\ pipe[p] > 0 /\ job[p].out \in {"open", "waiting"}
               /\ Cardinality({i \in 1 .. Len(events) : events[i] = Event(p, "read")}) < Room

(* read_cb of rstream.c *)
ReadCb(p) ==
    /\ polling /\ Readable(p)
    /\ pipe' = [pipe EXCEPT ![p] = @ - 1]
    /\ job' = [job EXCEPT ![p].reads = @ + 1]
    /\ events' = Append(events, Event(p, "read"))
    /\ UNCHANGED <<os, sigchld, stopRequests, stack, polling, gotInt, calls>>

Zombies == {p \in Procs : os[p] = "zombie"}

(* On one signal libuv reaps each child of its own that is dead;           *)
(* chld_handler, in use once there was a pty, reaps one child of any kind, *)
(* before or after.                                                        *)
Reaped ==
    LET own == Zombies \ Pty
    IN  IF Zombies = {} \/ \A p \in Pty : os[p] = "none"
        THEN {own}
        ELSE {own \cup {p} : p \in Zombies}

(* Fault: any exit takes a stop request back. *)
AnsweredAny(R) == R

(* The processes of R for which a stop was asked. *)
Answered(R) == {p \in R : job[p].stopped}

(* Fault: libuv and chld_handler report what the other reaped as well. *)
ReportsTwice(R) == {s \o s : s \in SetToSeqs(R)}

(* The order of the calls for R. *)
Reports(R) == SetToSeqs(R)

(* exit_cb of libuv_process.c and chld_handler: on_process_exit.  A poll   *)
(* handles signals last.                                                   *)
ExitCb ==
    /\ polling /\ sigchld > 0
    /\ \A p \in Procs : ~Readable(p)
    /\ sigchld' = sigchld - 1
    /\ \E R \in Reaped :
         /\ os' = [p \in Procs |-> IF p \in R THEN "reaped" ELSE os[p]]
         /\ LET n == Cardinality(Answered(R))
            IN  stopRequests' = IF n < stopRequests THEN stopRequests - n ELSE 0
         /\ \E s \in Reports(R) :
              events' = events \o [i \in 1 .. Len(s) |-> Event(s[i], "close")]
    /\ UNCHANGED <<pipe, job, stack, polling, gotInt, calls>>

(* children_kill_cb: some of the stopped processes have not exited in two  *)
(* seconds.  (Of SIGTERM, after one, a child may die, as it may anyway.)   *)
KillCb ==
    /\ polling /\ stopRequests > 0
    /\ \E p \in children :
         /\ job[p].stopped /\ ~job[p].killed
         /\ job' = [job EXCEPT ![p].killed = TRUE]
    /\ UNCHANGED <<osVars, stopRequests, events, stack, polling, gotInt, calls>>

(* CTRL-C in a wait. *)
Interrupt ==
    /\ polling /\ Top.op = "wait" /\ Top.step = "until" /\ ~gotInt
    /\ Calls
    /\ gotInt' = TRUE
    /\ UNCHANGED <<osVars, procVars, stack, polling>>

Handles == {"in", "out", "handle"}

(* Fault: a handle is closed again in the next poll. *)
ClosingAgain(p) == {x \in Handles : job[p][x] \in {"closing", "closed"}}

Closing(p) == {x \in Handles : job[p][x] = "closing"}

(* close_cb of stream.c and of libuv_process.c: on_process_stream_close    *)
Closed(p) == [x \in DOMAIN job[p] |-> IF x \in Closing(p) THEN "closed" ELSE job[p][x]]

(* The poll has handled what was ready.  It calls back for the handles     *)
(* that were closed, and drains fast_events: free_term_job_data_event.     *)
LeavePoll ==
    /\ polling
    /\ sigchld = 0 /\ \A p \in Procs : ~Readable(p)
    /\ polling' = FALSE
    /\ job' = [p \in Procs |-> IF job[p].data = "leaving"
                               THEN [NewJob EXCEPT !.data = "freed"]
                               ELSE Decref(Closed(p), Cardinality(Closing(p)))]
    /\ \E s \in SetToSeqs({p \in Procs : LastRef(job[p], Cardinality(Closing(p)))}) :
         events' = events \o [i \in 1 .. Len(s) |-> Event(s[i], "exit")]
    /\ stack' = CASE Top.op = "flush" -> Now([Top EXCEPT !.step = "drain"])
                  [] Once(Top) -> Now(AfterOnce(Top))
                  [] OTHER -> stack
    /\ UNCHANGED <<osVars, stopRequests, gotInt, calls>>

-----------------------------------------------------------------------------
(* Events are processed: multiqueue_process_events.                        *)

Handler(e) ==
    IF e.what = "close"
    THEN [op |-> "flush", proc |-> e.proc, step |-> "poll", mark |-> Arrived(e.proc),
          limit |-> Arrived(e.proc) + Buffer]
    ELSE [op |-> e.what, proc |-> e.proc]

(* The events of a queue come in the order in which they were put. *)
TakeEvent ==
    /\ ~polling /\ Unread(Top)
    /\ Reached(Top) => Top.draining
    /\ LET i == CHOOSE k \in 1 .. Len(events) :
                  /\ events[k].proc \in Source(Top)
                  /\ \A l \in 1 .. k - 1 : events[l].proc \notin Source(Top)
       IN /\ events' = RemoveAt(events, i)
          /\ stack' = Append(IF Waiting(Top) /\ Top.op \in {"wait", "sleep"}
                             THEN Now([Top EXCEPT !.draining = TRUE]) ELSE stack,
                             Handler(events[i]))
    /\ UNCHANGED <<osVars, job, stopRequests, polling, gotInt, calls>>

(* read_event of rstream.c, at its end *)
EndRead ==
    /\ Top.op = "read"
    /\ LET j == job[Top.proc]
       IN  job' = [job EXCEPT ![Top.proc] =
                     [j EXCEPT !.reads = @ - 1,
                               !.out = IF @ = "waiting" /\ j.reads = 1 THEN "closing" ELSE @]]
    /\ stack' = Below
    /\ UNCHANGED <<osVars, stopRequests, events, polling, gotInt, calls>>

(* eval_job_process_exit_cb, at its end: term_job_data_decref *)
EndExit ==
    /\ Top.op = "exit"
    /\ job' = [job EXCEPT ![Top.proc].data = "leaving"]
    /\ stack' = Below
    /\ UNCHANGED <<osVars, stopRequests, events, polling, gotInt, calls>>

FlushAgain ==
    /\ Top.op = "flush" /\ Top.step = "drain" /\ ~Unread(Top)
    /\ Arrived(Top.proc) # Top.mark
    /\ stack' = Now([Top EXCEPT !.step = "poll", !.mark = Arrived(Top.proc)])
    /\ UNCHANGED <<osVars, procVars, polling, gotInt, calls>>

(* process_close_handles, after that: process_close_streams, process_close *)
CloseHandles ==
    /\ Top.op = "flush" /\ ~polling /\ Flushed(Top)
    /\ LET p == Top.proc
           j == CloseStreams(job[p])
       IN  IF p \in Pty
           THEN /\ job' = [job EXCEPT ![p] = Decref([j EXCEPT !.handle = "closed"], 1)]
                /\ events' = IF LastRef(j, 1) THEN Append(events, Event(p, "exit")) ELSE events
           ELSE /\ job' = [job EXCEPT ![p] = [j EXCEPT !.handle = "closing"]]
                /\ UNCHANGED events
    /\ stack' = Below
    /\ UNCHANGED <<osVars, stopRequests, polling, gotInt, calls>>

-----------------------------------------------------------------------------
(* What a script does, typed or in a callback.                             *)

Script == ~polling /\ Top.op \in {"main", "read", "exit"}

(* process_spawn, common_job_start *)
Spawn(p) ==
    /\ Script /\ os[p] = "none"
    /\ os' = [os EXCEPT ![p] = "running"]
    /\ job' = [job EXCEPT ![p] = [@ EXCEPT !.refs = 3, !.in = "open", !.out = "open",
                                           !.handle = "open", !.data = "live"]]
    /\ UNCHANGED <<sigchld, pipe, stopRequests, events, stack, polling, gotInt, calls>>

(* f_jobstop *)
JobStop(p) ==
    /\ Script /\ FindJob(p) /\ Calls
    /\ job' = [job EXCEPT ![p] = [Stopped(p, @) EXCEPT !.jobStopped = TRUE]]
    /\ CountStop(job[p])
    /\ UNCHANGED <<osVars, events, stack, polling, gotInt>>

(* f_jobclose *)
JobClose(p) ==
    /\ Script /\ FindJob(p) /\ Calls
    /\ \/ job' = [job EXCEPT ![p].in = CloseStream(@, 0)]
       \/ job' = [job EXCEPT ![p].out = CloseStream(@, job[p].reads), ![p].cut = TRUE]
       \/ job' = [job EXCEPT ![p] = [CloseStreams(@) EXCEPT !.cut = TRUE]]
    /\ UNCHANGED <<osVars, stopRequests, events, stack, polling, gotInt>>

(* f_jobwait; without a timeout it waits forever *)
JobWait(list, forever) ==
    /\ Script /\ Calls
    /\ stack' = Append(stack, [op |-> "wait", id |-> calls + 1, list |-> list, i |-> 1,
                               step |-> "begin", draining |-> FALSE, forever |-> forever,
                               intr |-> FALSE])
    /\ UNCHANGED <<osVars, procVars, polling, gotInt>>

(* do_sleep *)
Sleep ==
    /\ Script /\ Calls
    /\ stack' = Append(stack, [op |-> "sleep", draining |-> FALSE])
    /\ UNCHANGED <<osVars, procVars, polling, gotInt>>

(* The time is over, between two LOOP_PROCESS_EVENTS. *)
EndSleep ==
    /\ ~polling /\ Top.op = "sleep" /\ AtCheck(Top)
    /\ stack' = Below
    /\ UNCHANGED <<osVars, procVars, polling, gotInt, calls>>

-----------------------------------------------------------------------------
(* f_jobwait, step by step.                                                *)

Job == Top.list[Top.i]
AllVisited == Top.i > Len(Top.list)

(* Fault: the parent is restored for jobs that can be found only. *)
RestoresFound(p) == FindJob(p)

(* Which jobs the last loop is about. *)
Restores(p) == Known(p)

WaitSkip ==
    /\ ~AllVisited
    /\ \/ Top.step \in {"begin", "pick"} /\ ~FindJob(Job)
       \/ Top.step = "visit" /\ ~Restores(Job)
    /\ stack' = Now([Top EXCEPT !.i = @ + 1])
    /\ UNCHANGED <<job, gotInt, stopRequests, events>>

(* The status pointer is set; the events so far are processed. *)
WaitBegin ==
    /\ Top.step = "begin" /\ ~AllVisited /\ FindJob(Job)
    /\ job' = [job EXCEPT ![Job].statusPtr = Top.id]
    /\ stack' = Now(Goes(Top, "settle"))
    /\ UNCHANGED <<gotInt, stopRequests, events>>

(* Then the next ones go to the queue of the wait. *)
WaitSettled ==
    /\ Top.step = "settle" /\ ~Unread(Top)
    /\ job' = [job EXCEPT ![Job].parent = Top.id]
    /\ stack' = Now(Next1(Top, "begin"))
    /\ UNCHANGED <<gotInt, stopRequests, events>>

WaitBegun ==
    /\ Top.step = "begin" /\ AllVisited
    /\ stack' = Now([Goes(Top, "pick") EXCEPT !.i = 1])
    /\ UNCHANGED <<job, gotInt, stopRequests, events>>

(* process_wait *)
WaitPick ==
    /\ Top.step = "pick" /\ ~AllVisited /\ FindJob(Job)
    /\ IF job[Job].refs = 0
       THEN stack' = Now(Goes(Top, "gone")) /\ UNCHANGED job
       ELSE stack' = Now(Goes(Top, "until")) /\ job' = [job EXCEPT ![Job].refs = @ + 1]
    /\ UNCHANGED <<gotInt, stopRequests, events>>

WaitOnceDone ==
    /\ Once(Top) /\ Top.draining /\ ~Unread(Top)
    /\ stack' = Now(AfterOnce(Top))
    /\ UNCHANGED <<job, gotInt, stopRequests, events>>

(* The user does not like the job. *)
WaitInterrupted ==
    /\ Top.step = "until" /\ AtCheck(Top) /\ gotInt
    /\ gotInt' = FALSE
    /\ job' = [job EXCEPT ![Job] = Stopped(Job, @)]
    /\ CountStop(job[Job])
    /\ stack' = Now([Goes(Top, IF Top.forever THEN "until2" ELSE "once") EXCEPT !.intr = TRUE])
    /\ UNCHANGED events

WaitReached ==
    /\ Top.step \in {"until", "until2"} /\ AtCheck(Top) /\ Reached(Top)
    /\ Top.step = "until" => ~gotInt
    /\ stack' = Now(Goes(Top, "finish"))
    /\ UNCHANGED <<job, gotInt, stopRequests, events>>

(* The timeout: in process_wait, or before the next one. *)
WaitTimeout ==
    /\ ~Top.forever
    /\ \/ Top.step = "until" /\ AtCheck(Top) /\ ~gotInt /\ stack' = Now(Goes(Top, "finish"))
       \/ Top.step = "pick" /\ stack' = Now(Goes(Top, "clear"))
    /\ UNCHANGED <<job, gotInt, stopRequests, events>>

(* The last reference is that of the wait: the exit callback comes now.    *)
WaitFinish ==
    /\ Top.step = "finish"
    /\ job' = [job EXCEPT ![Job] = Decref(@, 1)]
    /\ IF LastRef(job[Job], 1)
       THEN stack' = Now(Goes(Top, "final")) /\ events' = Append(events, Event(Job, "exit"))
       ELSE stack' = Now(Goes(Top, "clear")) /\ UNCHANGED events
    /\ UNCHANGED <<gotInt, stopRequests>>

WaitFinal ==
    /\ Top.step = "final" /\ ~Unread(Top)
    /\ stack' = Now(IF Top.intr THEN Goes(Top, "clear") ELSE Next1(Top, "pick"))
    /\ UNCHANGED <<job, gotInt, stopRequests, events>>

(* Fault: the status pointers stay after a timeout. *)
ClearsAtEnd(f, p) == Contains(f.list, p) /\ FindJob(p) /\ f.step = "pick"

(* Which status pointers are set to NULL. *)
Clears(f, p) == Contains(f.list, p) /\ FindJob(p)

WaitClear ==
    /\ Top.step = "clear" \/ (Top.step = "pick" /\ AllVisited)
    /\ job' = [p \in Procs |-> IF Clears(Top, p)
                               THEN [job[p] EXCEPT !.statusPtr = None] ELSE job[p]]
    /\ stack' = Now([Goes(Top, "visit") EXCEPT !.i = 1])
    /\ UNCHANGED <<gotInt, stopRequests, events>>

WaitVisit ==
    /\ Top.step = "visit" /\ ~AllVisited /\ Restores(Job)
    /\ stack' = Now(Goes(Top, "restore"))
    /\ UNCHANGED <<job, gotInt, stopRequests, events>>

WaitRestored ==
    /\ Top.step = "restore" /\ ~Unread(Top)
    /\ job' = [job EXCEPT ![Job].parent = Main]
    /\ stack' = Now(Next1(Top, "visit"))
    /\ UNCHANGED <<gotInt, stopRequests, events>>

WaitEnd ==
    /\ Top.step = "visit" /\ AllVisited
    /\ stack' = Below
    /\ UNCHANGED <<job, gotInt, stopRequests, events>>

WaitStep ==
    /\ ~polling /\ Top.op = "wait"
    /\ \/ WaitSkip \/ WaitBegin \/ WaitSettled \/ WaitBegun \/ WaitPick \/ WaitOnceDone
       \/ WaitInterrupted \/ WaitReached \/ WaitFinish \/ WaitFinal
       \/ WaitClear \/ WaitVisit \/ WaitRestored \/ WaitEnd
    /\ UNCHANGED <<osVars, polling, calls>>

-----------------------------------------------------------------------------
Init ==
    /\ os = [p \in Procs |-> "none"] /\ sigchld = 0 /\ pipe = [p \in Procs |-> 0]
    /\ job = [p \in Procs |-> NewJob]
    /\ stopRequests = 0 /\ events = <<>>
    /\ stack = <<[op |-> "main"]>>
    /\ polling = FALSE /\ gotInt = FALSE
    /\ calls = 0

MainSteps == \/ TakeEvent \/ EndRead \/ EndExit \/ FlushAgain \/ CloseHandles \/ WaitStep

Next ==
    \/ \E p \in Procs : \/ ChildWrites(p) \/ ChildExits(p)
                        \/ ReadCb(p)
                        \/ Spawn(p) \/ JobStop(p) \/ JobClose(p)
    \/ Sleep \/ EndSleep
    \/ Poll \/ LeavePoll \/ ExitCb \/ KillCb \/ Interrupt \/ MainSteps
    \/ \E l \in Lists, forever \in BOOLEAN : JobWait(l, forever)
    \/ /\ ~polling /\ Top.op = "wait" /\ WaitTimeout
       /\ UNCHANGED <<osVars, polling, calls>>

(* The main thread goes on, in a poll as well, the kill timer fires again  *)
(* and again, nothing survives SIGKILL, and time passes.                   *)
Fairness ==
    /\ WF_vars(MainSteps \/ Poll \/ LeavePoll \/ ExitCb \/ \E p \in Procs : ReadCb(p))
    /\ SF_vars(KillCb) /\ SF_vars(\E p \in Procs : job[p].killed /\ ChildExits(p))
    /\ SF_vars(EndSleep)

Spec == Init /\ [][Next]_vars /\ Fairness

-----------------------------------------------------------------------------
Frames == {stack[i] : i \in 1 .. Len(stack)}
Pending(p, what) == \E i \in 1 .. Len(events) : events[i] = Event(p, what)

TypeOK ==
    /\ os \in [Procs -> {"none", "running", "zombie", "reaped"}]
    /\ sigchld \in 0 .. Cardinality(Procs)
    /\ \A p \in Procs : pipe[p] \in 0 .. MaxOutput[p]
    /\ \A p \in Procs :
         /\ job[p].refs \in 0 .. 3 + MaxCalls
         /\ {job[p].in, job[p].out, job[p].handle}
              \subseteq {"none", "open", "waiting", "closing", "closed"}
         /\ job[p].data \in {"none", "live", "leaving", "freed"}
         /\ {job[p].parent, job[p].statusPtr} \subseteq 0 .. MaxCalls
    /\ stopRequests \in 0 .. Cardinality(Procs)
    /\ Len(stack) > 0 /\ stack[1].op = "main"
    /\ {polling, gotInt} \subseteq BOOLEAN

(* The references of a process are its open handles and the waits for it:  *)
(* decref runs once for each.                                              *)
RefcountIsHolders ==
    \A p \in Procs :
        LET j == job[p]
            handles == Cardinality({x \in Handles : j[x] \notin {"none", "closed"}})
            waits == Cardinality({i \in 1 .. Len(stack) : Holds(stack[i], p)})
        IN  j.refs = handles + waits

(* The exit callback of p is due or runs. *)
Exiting(p) == Pending(p, "exit") \/ \E f \in Frames : f.op = "exit" /\ f.proc = p

(* The output that the flush takes at least, if there is as much. *)
Flushes == IF Buffer < Room THEN Buffer ELSE Room

(* The exit callback comes last, after the process was reaped, its events  *)
(* were handled, and all that the child wrote was handed to the output     *)
(* callback: if a script did not close that stream before, and what was    *)
(* written fits in the ring buffer and in what the flush takes at least.   *)
OutputBeforeExit ==
    \A p \in Procs : Exiting(p) =>
        /\ os[p] = "reaped"
        /\ job[p].reads = 0 /\ ~Pending(p, "read") /\ ~Pending(p, "close")
        /\ job[p].cut \/ pipe[p] = 0 \/ job[p].wrote > Room + Flushes

(* The handles of a process are closed once (the assertion of             *)
(* process_close).                                                         *)
ClosedOnce ==
    \A p \in Procs :
        /\ (Pending(p, "close") \/ \E f \in Frames : f.op = "flush" /\ f.proc = p) =>
              job[p].handle = "open"
        /\ Cardinality({i \in 1 .. Len(events) : events[i] = Event(p, "close")})
             + Cardinality({i \in 1 .. Len(stack) : stack[i].op = "flush" /\ stack[i].proc = p}) <= 1

(* What the frame f still uses of the data of the job p. *)
Uses(f, p) ==
    \/ f.op \in {"read", "exit", "flush"} /\ f.proc = p
    \/ /\ f.op = "wait" /\ f.i <= Len(f.list) /\ f.list[f.i] = p
       /\ f.step \in {"settle", "until", "until2", "once", "finish", "gone", "restore"}

(* The data of a job is freed a poll after its exit callback, and nothing  *)
(* on the stack and no event uses it then.                                 *)
FreedIsUnused ==
    \A p \in Procs : job[p].data = "freed" =>
        /\ \A f \in Frames : ~Uses(f, p)
        /\ \A i \in 1 .. Len(events) : events[i].proc # p

WaitIds == {f.id : f \in {g \in Frames : g.op = "wait"}}

(* The queue of a job is under a queue that exists: that of a wait is      *)
(* freed at its end.                                                       *)
ParentExists == \A p \in Procs : job[p].parent \in {Main} \cup WaitIds

(* The exit callback writes a status to a list that exists, if no jobstop  *)
(* came in the wait.                                                       *)
StatusPtrOwned ==
    \A p \in Procs : Known(p) /\ ~job[p].jobStopped => job[p].statusPtr \in {None} \cup WaitIds

(* The kill timer runs while a process was stopped that has not exited. *)
StopsAreCounted ==
    stopRequests >= Cardinality({p \in Procs : job[p].stopped /\ os[p] \in {"running", "zombie"}})

(* The state is consistent: the counters are what they count. *)
ProcessesCounted == TypeOK /\ RefcountIsHolders /\ ClosedOnce /\ StopsAreCounted

(* What the main thread or a job refers to is there. *)
NothingDangles == FreedIsUnused /\ ParentExists /\ StatusPtrOwned

(* No child that was not stopped runs for ever. *)
ChildrenEnd == <>[](\A p \in Procs : os[p] = "running" => job[p].stopped)

(* The children on terminals whose SIGCHLD stood for that of another as    *)
(* well: chld_handler reaps one child, and is not called again for these   *)
(* until another child exits.                                              *)
Missed == {p \in Pty : os[p] = "zombie" /\ sigchld = 0}

(* Nothing waits, but for a missed child, and the other jobs that exited   *)
(* or were stopped are forgotten, their exit callback behind them.         *)
AllOver ==
    \/ \E p \in Missed : Holds(Top, p)
    \/ /\ Len(stack) = 1
       /\ \A p \in Procs \ Missed :
            os[p] \in {"zombie", "reaped"} \/ job[p].stopped => job[p].data = "freed"

(* A wait holds a job whose end it cannot see: the queue of the job was    *)
(* put under another one, another wait holds the job as well, or the wait  *)
(* is in the output callback of the job.                                   *)
Knotted ==
    \E n \in 1 .. Len(stack), p \in Procs :
        /\ Holds(stack[n], p)
        /\ \/ job[p].parent # stack[n].id
           \/ \E m \in 1 .. n - 1 : \/ Holds(stack[m], p)
                                    \/ stack[m].op = "read" /\ stack[m].proc = p

(* If the children exit, the stopped ones aside, all is over again and     *)
(* again, unless a wait is knotted: process_stop makes a process quit, one *)
(* that exited is reaped unless it is missed, and process_wait returns     *)
(* when it did.                                                            *)
JobsEnd == ChildrenEnd => []<>(AllOver \/ Knotted)
=============================================================================

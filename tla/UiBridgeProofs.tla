---------------------------- MODULE UiBridgeProofs ----------------------------
(***************************************************************************)
(* Proofs about UiBridge, for any room, any bounds and any flood: the      *)
(* editor runs with its terminal, the bridge and the keys outlive their    *)
(* uses, a UI that has stopped is silent, and every call is drawn but for  *)
(* the two known reasons.                                                  *)
(***************************************************************************)
EXTENDS UiBridge, SequenceTheorems, TLAPS

(***************************************************************************)
(* The events of the UI thread, in the order in which it handles them.     *)
(***************************************************************************)
Queue == uiFast \o uiThread

Suspends == {"suspend", "suspend_event"}

Suspending == {"suspending", "suspended"}
Stopping == {"check", "poll", "join", "gone"}

(* Main waits for the end of a suspend. *)
AwaitsCont == main \in Suspending /\ (main = "suspended" => ~ready)

(* The types, and what bounds the keys. *)
Typed ==
    /\ TypeOK
    /\ spent \in [{"calls", "suspends", "keys", "winch", "cont", "ends"} -> Nat]
    /\ keys <= spent["keys"] /\ spent["keys"] <= MaxKeys

(* Where one thread is says where the other may be. *)
Handshakes ==
    /\ locked <=> main = "suspending"
    /\ ui = "start" => main = "attach" /\ ~ready
    /\ nested => AwaitsCont
    /\ stopping => main \in Stopping
    /\ lateRefresh => main \in Stopping
    /\ terminal <=> (ui # "start" /\ ~nested /\ ~stopping)
    /\ stopped => ui \in {"close", "dead"}
    /\ ui \in {"close", "dead"} => stopping
    /\ main \in {"join", "gone"} => stopped
    /\ main = "gone" => ui = "dead"

(* A request for input is the only one, and is waited for. *)
Asking ==
    /\ waiting => ui = "flush"
    /\ \A i \in 1 .. Len(mainEvents) : mainEvents[i] = "input" => waiting
    /\ \A i, j \in 1 .. Len(mainEvents) :
         mainEvents[i] = "input" /\ mainEvents[j] = "input" => i = j

(* One suspend is under way, and main waits for it; main has called for    *)
(* the stop that is.                                                       *)
Requests ==
    /\ \A i \in 1 .. Len(Queue) : Queue[i] \in Suspends => AwaitsCont /\ ~nested
    /\ \A i, j \in 1 .. Len(Queue) :
         Queue[i] \in Suspends /\ Queue[j] \in Suspends => i = j
    /\ \A i \in 1 .. Len(Queue) : Queue[i] = "stop" => main \in Stopping

(* No call comes after the one that has the terminal left. *)
Leaves(e) == e \in Suspends \/ (e = "stop" /\ ~lateRefresh)
LastCalls ==
    /\ \A i, j \in 1 .. Len(Queue) : i < j /\ Leaves(Queue[i]) => Queue[j] \notin Calls
    /\ nested \/ (stopping /\ ~lateRefresh) =>
         \A i \in 1 .. Len(Queue) : Queue[i] \notin Calls

IInv == Typed /\ Handshakes /\ Asking /\ Requests /\ LastCalls /\ MissedOnlyLate
-----------------------------------------------------------------------------
(***************************************************************************)
(* What becomes of the events.                                             *)
(***************************************************************************)
LEMMA TwoParts ==
    ASSUME NEW a \in Seq(UiEvents), NEW b \in Seq(UiEvents), NEW q, q = a \o b
    PROVE  /\ q \in Seq(UiEvents) /\ Len(q) = Len(a) + Len(b)
           /\ \A i \in 1 .. Len(q) : q[i] = IF i <= Len(a) THEN a[i] ELSE b[i - Len(a)]
BY ConcatProperties

LEMMA QueueType ==
    ASSUME Typed
    PROVE  /\ uiFast \in Seq(UiEvents) /\ uiThread \in Seq(UiEvents)
           /\ Queue \in Seq(UiEvents) /\ Len(Queue) = Len(uiFast) + Len(uiThread)
           /\ \A i \in 1 .. Len(Queue) :
                Queue[i] = IF i <= Len(uiFast) THEN uiFast[i] ELSE uiThread[i - Len(uiFast)]
<1>1. uiFast \in Seq(UiEvents) /\ uiThread \in Seq(Calls)
  BY DEF Typed, TypeOK
<1>2. uiThread \in Seq(UiEvents)
  BY <1>1, SeqMonotonic DEF UiEvents
<1> QED  BY <1>1, <1>2, ConcatProperties DEF Queue

LEMMA QueueHead ==
    ASSUME Typed, NEW e, Handles(e)
    PROVE  Len(Queue) \in Nat \ {0} /\ Queue[1] = e
<1>1. uiFast # << >> /\ Head(uiFast) = e
  BY DEF Handles
<1>2. Len(uiFast) \in Nat \ {0} /\ Head(uiFast) = uiFast[1] /\ Len(uiThread) \in Nat
  BY <1>1, QueueType
<1> QED  BY <1>1, <1>2, QueueType

(* The events that matter are those of before, some of them gone.          *)
Keeps ==
    \E g \in [1 .. Len(Queue') -> Nat] :
      \A i \in 1 .. Len(Queue') : Queue'[i] \in Calls \cup Suspends =>
        /\ g[i] \in 1 .. Len(Queue) /\ Queue'[i] = Queue[g[i]]
        /\ \A j \in 1 .. i - 1 : Queue'[j] \in Calls \cup Suspends => g[j] < g[i]

(* It does when the places of those that stay are known and keep their order. *)
LEMMA KeepsBy ==
    ASSUME NEW g \in [1 .. Len(Queue') -> Nat],
           \A i \in 1 .. Len(Queue') : Queue'[i] \in Calls \cup Suspends =>
             g[i] \in 1 .. Len(Queue) /\ Queue'[i] = Queue[g[i]],
           \A i \in 1 .. Len(Queue') : \A j \in 1 .. i - 1 :
             Queue'[i] \in Calls \cup Suspends /\ Queue'[j] \in Calls \cup Suspends
               => g[j] < g[i]
    PROVE  Keeps
BY DEF Keeps

LEMMA KeepsAll ==
    ASSUME Typed, Queue' = Queue
    PROVE  Keeps
<1> DEFINE g == [i \in 1 .. Len(Queue') |-> i]
<1>1. Len(Queue) \in Nat
  BY QueueType
<1>2. g \in [1 .. Len(Queue') -> Nat]
  BY <1>1
<1>3. \A i \in 1 .. Len(Queue') : g[i] = i
  OBVIOUS
<1> HIDE DEF g
<1>4. \A i \in 1 .. Len(Queue') : \A j \in 1 .. i - 1 : g[j] < g[i]
  BY <1>1, <1>3
<1>5. \A i \in 1 .. Len(Queue') : g[i] \in 1 .. Len(Queue) /\ Queue'[i] = Queue[g[i]]
  BY <1>1, <1>3
<1> QED  BY <1>2, <1>4, <1>5, KeepsBy

(* One is taken. *)
LEMMA KeepsTail ==
    ASSUME Typed, uiFast # << >>, uiFast' = Tail(uiFast), uiThread' = uiThread
    PROVE  Queue' = Tail(Queue) /\ Keeps
<1>1. /\ Len(uiFast) \in Nat \ {0} /\ Len(uiThread) \in Nat
      /\ Len(uiFast') = Len(uiFast) - 1 /\ uiFast' \in Seq(UiEvents)
      /\ \A i \in 1 .. Len(uiFast) - 1 : uiFast'[i] = uiFast[i + 1]
  BY QueueType
<1>2. /\ Queue' \in Seq(UiEvents) /\ Len(Queue') = Len(Queue) - 1
      /\ \A i \in 1 .. Len(Queue') : Queue'[i] = Queue[i + 1]
  <2>1. /\ Queue' \in Seq(UiEvents) /\ Len(Queue') = Len(uiFast') + Len(uiThread)
        /\ \A i \in 1 .. Len(Queue') : Queue'[i] =
             IF i <= Len(uiFast') THEN uiFast'[i] ELSE uiThread[i - Len(uiFast')]
    BY <1>1, QueueType, ConcatProperties DEF Queue
  <2>2. ASSUME NEW i \in 1 .. Len(Queue')
        PROVE  Queue'[i] = Queue[i + 1]
    <3>1. i + 1 \in 1 .. Len(Queue)
      BY <1>1, <2>1, QueueType
    <3>2. CASE i <= Len(uiFast')
      BY <1>1, <2>1, <3>1, <3>2, QueueType
    <3>3. CASE i > Len(uiFast')
      <4>1. (i + 1) - Len(uiFast) = i - Len(uiFast')
        BY <1>1, <2>1
      <4> QED  BY <1>1, <2>1, <3>1, <3>3, <4>1, QueueType
    <3> QED  BY <1>1, <2>1, <3>2, <3>3
  <2> QED  BY <1>1, <2>1, <2>2, QueueType
<1>3. Len(Queue) \in Nat \ {0} /\ Queue \in Seq(UiEvents)
  BY <1>1, QueueType
<1>4. Queue' = Tail(Queue)
  BY <1>2, <1>3
<1> DEFINE g == [i \in 1 .. Len(Queue') |-> i + 1]
<1>5. g \in [1 .. Len(Queue') -> Nat] /\ \A i \in 1 .. Len(Queue') : g[i] = i + 1
  BY <1>2, <1>3
<1> HIDE DEF g
<1>6. \A i \in 1 .. Len(Queue') : \A j \in 1 .. i - 1 : g[j] < g[i]
  BY <1>2, <1>3, <1>5
<1>7. \A i \in 1 .. Len(Queue') : g[i] \in 1 .. Len(Queue) /\ Queue'[i] = Queue[g[i]]
  BY <1>2, <1>3, <1>5
<1> QED  BY <1>4, <1>5, <1>6, <1>7, KeepsBy

(* One that does not matter comes. *)
LEMMA KeepsPut ==
    ASSUME Typed, NEW e \in {"winch", "cont", "restart"}, uiFast' = Append(uiFast, e),
           uiThread' = uiThread
    PROVE  Keeps
<1>1. /\ Len(uiFast) \in Nat /\ Len(uiThread) \in Nat /\ e \in UiEvents
      /\ Len(uiFast') = Len(uiFast) + 1 /\ uiFast' \in Seq(UiEvents)
      /\ \A i \in 1 .. Len(uiFast) : uiFast'[i] = uiFast[i]
      /\ uiFast'[Len(uiFast) + 1] = e
  BY QueueType DEF UiEvents
<1>2. /\ Queue' \in Seq(UiEvents) /\ Len(Queue') = Len(uiFast') + Len(uiThread)
      /\ \A i \in 1 .. Len(Queue') : Queue'[i] =
           IF i <= Len(uiFast') THEN uiFast'[i] ELSE uiThread[i - Len(uiFast')]
  BY <1>1, QueueType, ConcatProperties DEF Queue
<1> DEFINE g == [i \in 1 .. Len(Queue') |-> IF i <= Len(uiFast) THEN i ELSE i - 1]
<1>3. /\ g \in [1 .. Len(Queue') -> Nat]
      /\ \A i \in 1 .. Len(Queue') : g[i] = IF i <= Len(uiFast) THEN i ELSE i - 1
  BY <1>1, <1>2
<1> HIDE DEF g
<1>4. ASSUME NEW i \in 1 .. Len(Queue'), Queue'[i] \in Calls \cup Suspends
      PROVE  /\ i # Len(uiFast) + 1
             /\ g[i] \in 1 .. Len(Queue) /\ Queue'[i] = Queue[g[i]]
  <2>1. i # Len(uiFast) + 1
    BY <1>1, <1>2, <1>4 DEF Calls, Suspends
  <2>2. CASE i <= Len(uiFast)
    <3>1. i \in 1 .. Len(Queue) /\ i <= Len(uiFast') /\ i \in 1 .. Len(uiFast)
      BY <1>1, <1>2, <2>2, QueueType
    <3>2. Queue[i] = uiFast[i]
      BY <2>2, <3>1, QueueType
    <3> QED  BY <1>1, <1>2, <1>3, <2>1, <2>2, <3>1, <3>2
  <2>3. CASE i > Len(uiFast) + 1
    <3>1. (i - 1) - Len(uiFast) = i - Len(uiFast') /\ i - 1 > Len(uiFast)
      BY <1>1, <1>2, <2>3
    <3>2. i - 1 \in 1 .. Len(Queue)
      BY <1>1, <1>2, <2>3, QueueType
    <3>3. g[i] = i - 1 /\ Queue'[i] = uiThread[i - Len(uiFast')]
      BY <1>1, <1>2, <1>3, <2>3
    <3>4. ASSUME NEW k, k = i - 1
          PROVE  Queue[k] = uiThread[k - Len(uiFast)]
      <4>1. k \in 1 .. Len(Queue) /\ ~(k <= Len(uiFast))
        BY <1>1, <3>1, <3>2, <3>4
      <4> QED  BY <4>1, QueueType
    <3>5. Queue[i - 1] = uiThread[i - Len(uiFast')]
      BY <3>1, <3>4
    <3> QED  BY <2>1, <3>2, <3>3, <3>5
  <2> QED  BY <1>1, <1>2, <2>1, <2>2, <2>3
<1>5. ASSUME NEW i \in 1 .. Len(Queue'), Queue'[i] \in Calls \cup Suspends,
             NEW j \in 1 .. i - 1, Queue'[j] \in Calls \cup Suspends
      PROVE  g[j] < g[i]
  <2>1. j \in 1 .. Len(Queue') /\ j < i
    BY <1>1, <1>2
  <2>2. i # Len(uiFast) + 1 /\ j # Len(uiFast) + 1
    BY <1>4, <1>5, <2>1
  <2> QED  BY <1>1, <1>2, <1>3, <2>1, <2>2
<1> QED  BY <1>3, <1>4, <1>5, KeepsBy

(* The last ones go. *)
LEMMA KeepsSome ==
    ASSUME Typed, uiFast' = uiFast \/ uiFast' = << >>, uiThread' = << >>
    PROVE  Keeps
<1>1. Queue' = uiFast'
  BY QueueType, ConcatEmptySeq DEF Queue
<1> DEFINE g == [i \in 1 .. Len(Queue') |-> i]
<1>2. CASE uiFast' = << >>
  <2>1. Len(Queue') = 0
    BY <1>1, <1>2
  <2>2. g \in [1 .. Len(Queue') -> Nat]
    BY <2>1
  <2> HIDE DEF g
  <2>3. \A i \in 1 .. Len(Queue') : \A j \in 1 .. i - 1 : g[j] < g[i]
    BY <2>1, <2>2
  <2>4. \A i \in 1 .. Len(Queue') : g[i] \in 1 .. Len(Queue) /\ Queue'[i] = Queue[g[i]]
    BY <2>1, <2>2
  <2> QED  BY <2>2, <2>3, <2>4, KeepsBy
<1>3. CASE uiFast' = uiFast
  <2>1. /\ Len(uiFast) \in Nat /\ Len(uiThread) \in Nat /\ Len(Queue') = Len(uiFast)
        /\ Len(Queue) = Len(uiFast) + Len(uiThread)
        /\ \A i \in 1 .. Len(uiFast) : Queue'[i] = Queue[i]
    BY <1>1, <1>3, QueueType
  <2>2. g \in [1 .. Len(Queue') -> Nat] /\ \A i \in 1 .. Len(Queue') : g[i] = i
    BY <2>1
  <2> HIDE DEF g
  <2>3. \A i \in 1 .. Len(Queue') : \A j \in 1 .. i - 1 : g[j] < g[i]
    BY <2>1, <2>2
  <2>4. \A i \in 1 .. Len(Queue') : g[i] \in 1 .. Len(Queue) /\ Queue'[i] = Queue[g[i]]
    BY <2>1, <2>2
  <2> QED  BY <2>2, <2>3, <2>4, KeepsBy
<1> QED  BY <1>2, <1>3

(* The thread's own queue is read. *)
LEMMA MovesOver ==
    ASSUME Typed, uiFast' = uiFast \o uiThread, uiThread' = << >>
    PROVE  Queue' = Queue
BY QueueType, ConcatEmptySeq DEF Queue

(* A call comes. *)
LEMMA CallComes ==
    ASSUME Typed, NEW call \in Calls, uiThread' = Append(uiThread, call), uiFast' = uiFast
    PROVE  /\ Len(Queue) \in Nat /\ Len(Queue') = Len(Queue) + 1
           /\ \A i \in 1 .. Len(Queue) : Queue'[i] = Queue[i]
           /\ Queue'[Len(Queue) + 1] = call
<1>1. call \in UiEvents
  BY DEF UiEvents
<1>2. Queue' = Append(Queue, call)
  BY <1>1, QueueType, AppendIsConcat, ConcatAssociative DEF Queue
<1> QED  BY <1>1, <1>2, QueueType, AppendProperties

(* A suspend goes to the end of the events being handled. *)
LEMMA LastOfFast ==
    ASSUME Typed, uiFast # << >>, NEW f \in Seq(UiEvents), Len(f) = Len(uiFast),
           \A i \in 1 .. Len(uiFast) - 1 : f[i] = uiFast[i + 1],
           NEW q, q = f \o uiThread
    PROVE  /\ Len(Queue) \in Nat \ {0} /\ Len(q) = Len(Queue)
           /\ Len(uiFast) \in 1 .. Len(Queue)
           /\ \A i \in 1 .. Len(uiFast) - 1 : q[i] = Queue[i + 1]
           /\ q[Len(uiFast)] = f[Len(f)]
           /\ \A i \in Len(uiFast) + 1 .. Len(Queue) : q[i] = Queue[i]
<1>1. /\ Len(uiFast) \in Nat \ {0} /\ Len(uiThread) \in Nat
      /\ Len(Queue) = Len(uiFast) + Len(uiThread)
  BY QueueType
<1>2. /\ Len(q) = Len(f) + Len(uiThread)
      /\ \A i \in 1 .. Len(q) : q[i] = IF i <= Len(f) THEN f[i] ELSE uiThread[i - Len(f)]
  <2>1. uiThread \in Seq(UiEvents)
    BY QueueType
  <2>2. \A a, b \in Seq(UiEvents) :
          /\ Len(a \o b) = Len(a) + Len(b)
          /\ \A i \in 1 .. Len(a \o b) :
               (a \o b)[i] = IF i <= Len(a) THEN a[i] ELSE b[i - Len(a)]
    BY TwoParts
  <2> QED  BY <2>1, <2>2
<1>3. Len(q) = Len(Queue) /\ Len(uiFast) \in 1 .. Len(Queue)
  BY <1>1, <1>2
<1>4. q[Len(uiFast)] = f[Len(f)]
  BY <1>1, <1>2, <1>3
<1>5. ASSUME NEW i \in 1 .. Len(uiFast) - 1
      PROVE  q[i] = Queue[i + 1]
  <2>1. i \in 1 .. Len(q) /\ i + 1 \in 1 .. Len(Queue) /\ i + 1 <= Len(uiFast)
          /\ i <= Len(f)
    BY <1>1, <1>3
  <2>2. Queue[i + 1] = uiFast[i + 1]
    BY <2>1, QueueType
  <2> QED  BY <1>2, <2>1, <2>2
<1>6. ASSUME NEW i \in Len(uiFast) + 1 .. Len(Queue)
      PROVE  q[i] = Queue[i]
  <2>1. i \in 1 .. Len(Queue) /\ i \in 1 .. Len(q) /\ ~(i <= Len(uiFast))
    BY <1>1, <1>3
  <2>2. Queue[i] = uiThread[i - Len(uiFast)]
    BY <2>1, QueueType
  <2> QED  BY <1>2, <2>1, <2>2
<1>7. Len(Queue) \in Nat \ {0}
  BY <1>1
<1>8. \A i \in 1 .. Len(uiFast) - 1 : q[i] = Queue[i + 1]
  BY <1>5
<1>9. \A i \in Len(uiFast) + 1 .. Len(Queue) : q[i] = Queue[i]
  BY <1>6
<1> QED  BY <1>3, <1>4, <1>7, <1>8, <1>9

LEMMA SuspendPut ==
    ASSUME Typed, Handles("suspend"), uiFast' = Append(Tail(uiFast), "suspend_event"),
           uiThread' = uiThread
    PROVE  /\ Len(Queue) \in Nat \ {0} /\ Queue[1] = "suspend" /\ Len(Queue') = Len(Queue)
           /\ Len(uiFast) \in 1 .. Len(Queue)
           /\ \A i \in 1 .. Len(uiFast) - 1 : Queue'[i] = Queue[i + 1]
           /\ Queue'[Len(uiFast)] = "suspend_event"
           /\ \A i \in Len(uiFast) + 1 .. Len(Queue) : Queue'[i] = Queue[i]
<1> DEFINE f == Append(Tail(uiFast), "suspend_event")
<1>1. uiFast # << >> /\ Queue' = f \o uiThread
  BY DEF Handles, Queue
<1>2. /\ f \in Seq(UiEvents) /\ Len(f) = Len(uiFast) /\ f[Len(f)] = "suspend_event"
      /\ \A i \in 1 .. Len(uiFast) - 1 : f[i] = uiFast[i + 1]
  BY <1>1, QueueType DEF UiEvents
<1> HIDE DEF f
<1> QED  BY <1>1, <1>2, LastOfFast, QueueHead

-----------------------------------------------------------------------------
(***************************************************************************)
(* The first state, and the parts one after the other.                     *)
(***************************************************************************)
LEMMA InitSound == Init => IInv
<1> SUFFICES ASSUME Init PROVE IInv
  OBVIOUS
<1>1. Queue = << >> /\ Len(Queue) = 0
  BY DEF Init, Queue
<1>2. Typed
  <2>1. TypeOK
    <3>1. {locked, ready, stopped, nested, terminal, stopping, contReceived,
           waiting, reading, keyTimer, frozen, lateRefresh} \subseteq BOOLEAN
      BY DEF Init
    <3>2. mainEvents \in Seq({"refresh", "input", "done"}) /\ uiThread \in Seq(Calls)
          /\ uiFast \in Seq(UiEvents)
      BY DEF Init
    <3>3. buffered \in 0 .. InputRoom /\ keys \in 0 .. MaxKeys
      BY BridgeAssumption DEF Init
    <3> QED  BY <3>1, <3>2, <3>3 DEF Init, TypeOK
  <2>2. spent = [b \in {"calls", "suspends", "keys", "winch", "cont", "ends"} |-> 0]
          /\ keys = 0
    BY DEF Init
  <2> QED  BY <2>1, <2>2, BridgeAssumption DEF Typed
<1>3. Handshakes /\ Asking
  BY DEF Init, Handshakes, Asking, AwaitsCont, Suspending, Stopping
<1>4. Requests /\ LastCalls
  BY <1>1 DEF Init, Requests, LastCalls
<1>5. MissedOnlyLate
  BY DEF Init, MissedOnlyLate
<1> QED  BY <1>2, <1>3, <1>4, <1>5 DEF IInv

(* A call reaches the queue, unless the UI thread has freed its loop.       *)
LEMMA UiCalls ==
    ASSUME IInv, NEW call \in Calls, UiCall(call)
    PROVE  \/ uiThread' = Append(uiThread, call) /\ missed' = missed
           \/ ui = "dead" /\ uiThread' = uiThread /\ missed' = missed \cup {"freed"}
BY DEF UiCall

(* While the editor runs, nothing makes the terminal be left. *)
LEMMA RunsAlone ==
    ASSUME IInv, main \in {"attach", "run"}
    PROVE  /\ ~nested /\ ~stopping /\ ~lateRefresh /\ ui \notin {"close", "dead"}
           /\ \A i \in 1 .. Len(Queue) : Queue[i] \notin Suspends \cup {"stop"}
<1>1. ~AwaitsCont /\ main \notin Stopping
  BY DEF AwaitsCont, Suspending, Stopping
<1> QED  BY <1>1 DEF IInv, Handshakes, Requests

LEMMA RequestsKept ==
    ASSUME IInv, Keeps, AwaitsCont /\ ~nested => (AwaitsCont /\ ~nested)',
           main \in Stopping => main' \in Stopping
    PROVE  Requests'
<1>1. Requests /\ Len(Queue) \in Nat
  BY QueueType DEF IInv
<1>2. PICK g \in [1 .. Len(Queue') -> Nat] :
        \A i \in 1 .. Len(Queue') : Queue'[i] \in Calls \cup Suspends =>
          /\ g[i] \in 1 .. Len(Queue) /\ Queue'[i] = Queue[g[i]]
          /\ \A j \in 1 .. i - 1 : Queue'[j] \in Calls \cup Suspends => g[j] < g[i]
  BY DEF Keeps
<1>3. ASSUME NEW i \in 1 .. Len(Queue'), Queue'[i] \in Suspends
      PROVE  AwaitsCont' /\ ~nested'
  BY <1>1, <1>2, <1>3 DEF Requests
<1>4. ASSUME NEW i \in 1 .. Len(Queue'), Queue'[i] = "stop"
      PROVE  main' \in Stopping
  BY <1>1, <1>2, <1>4 DEF Requests, Calls
<1>5. ASSUME NEW i \in 1 .. Len(Queue'), NEW j \in 1 .. Len(Queue'),
             Queue'[i] \in Suspends, Queue'[j] \in Suspends
      PROVE  i = j
  <2>1. g[i] = g[j]
    BY <1>1, <1>2, <1>5 DEF Requests
  <2>2. Len(Queue') \in Nat => i = j
    BY <1>2, <1>5, <2>1
  <2> QED  BY <1>2, <1>5, <2>1
<1> QED  BY <1>3, <1>4, <1>5 DEF Requests, Suspends

LEMMA LastCallsKept ==
    ASSUME IInv, Keeps, lateRefresh => lateRefresh',
           nested' \/ (stopping' /\ ~lateRefresh') => nested \/ (stopping /\ ~lateRefresh)
    PROVE  LastCalls'
<1>1. LastCalls /\ Len(Queue) \in Nat
  BY QueueType DEF IInv
<1>2. PICK g \in [1 .. Len(Queue') -> Nat] :
        \A i \in 1 .. Len(Queue') : Queue'[i] \in Calls \cup Suspends =>
          /\ g[i] \in 1 .. Len(Queue) /\ Queue'[i] = Queue[g[i]]
          /\ \A j \in 1 .. i - 1 : Queue'[j] \in Calls \cup Suspends => g[j] < g[i]
  BY DEF Keeps
<1>3. ASSUME NEW i \in 1 .. Len(Queue'), NEW j \in 1 .. Len(Queue'), i < j,
             Leaves(Queue[i])', Queue'[j] \in Calls
      PROVE  FALSE
  <2>1. Queue'[i] \in Calls \cup Suspends /\ i \in 1 .. j - 1
    BY <1>3 DEF Leaves, Calls
  <2>2. g[i] < g[j] /\ g[i] \in 1 .. Len(Queue) /\ g[j] \in 1 .. Len(Queue)
    BY <1>2, <1>3, <2>1
  <2>3. Leaves(Queue[g[i]])
    BY <1>2, <1>3, <2>1 DEF Leaves
  <2> QED  BY <1>1, <1>2, <1>3, <2>2, <2>3 DEF LastCalls
<1>4. ASSUME nested' \/ (stopping' /\ ~lateRefresh'), NEW i \in 1 .. Len(Queue')
      PROVE  Queue'[i] \notin Calls
  <2>1. nested \/ (stopping /\ ~lateRefresh)
    BY <1>4
  <2> QED  BY <1>1, <1>2, <2>1 DEF LastCalls
<1> QED  BY <1>3, <1>4 DEF LastCalls

(***************************************************************************)
(* The types.                                                              *)
(***************************************************************************)
Where ==
    /\ main \in {"attach", "run", "suspending", "suspended", "check", "poll",
                 "join", "gone"}
    /\ ui \in {"start", "poll", "callbacks", "flush", "drain", "close", "dead"}

Flags == /\ locked \in BOOLEAN /\ ready \in BOOLEAN /\ stopped \in BOOLEAN
         /\ nested \in BOOLEAN /\ terminal \in BOOLEAN /\ stopping \in BOOLEAN
         /\ contReceived \in BOOLEAN /\ waiting \in BOOLEAN /\ frozen \in BOOLEAN
         /\ lateRefresh \in BOOLEAN /\ reading \in BOOLEAN /\ keyTimer \in BOOLEAN

Queues == /\ mainEvents \in Seq({"refresh", "input", "done"})
          /\ uiThread \in Seq(Calls) /\ uiFast \in Seq(UiEvents)

Numbers ==
    /\ buffered \in 0 .. InputRoom
    /\ spent \in [{"calls", "suspends", "keys", "winch", "cont", "ends"} -> Nat]
    /\ keys \in Nat /\ keys <= spent["keys"] /\ spent["keys"] <= MaxKeys

MissedHow == missed \subseteq {"purged", "no terminal", "closed", "freed"}

LEMMA TypedParts == Typed <=> Where /\ Flags /\ Queues /\ Numbers /\ MissedHow
<1>1. {locked, ready, stopped, nested, terminal, stopping, contReceived,
       waiting, reading, keyTimer, frozen, lateRefresh} \subseteq BOOLEAN <=> Flags
  BY DEF Flags
<1>2. Typed => Numbers
  <2>1. MaxKeys \in Nat
    BY BridgeAssumption
  <2>2. keys \in 0 .. MaxKeys => keys \in Nat
    BY <2>1
  <2> QED  BY <2>2 DEF Typed, TypeOK, Numbers
<1>3. Numbers => keys \in 0 .. MaxKeys
  BY BridgeAssumption DEF Numbers
<1> QED  BY <1>1, <1>2, <1>3 DEF Typed, TypeOK, Where, Queues, Numbers, MissedHow

LEMMA TypedPartsNext == Typed' <=> Where' /\ Flags' /\ Queues' /\ Numbers' /\ MissedHow'
<1>1. ({locked, ready, stopped, nested, terminal, stopping, contReceived,
        waiting, reading, keyTimer, frozen, lateRefresh} \subseteq BOOLEAN)' <=> Flags'
  BY DEF Flags
<1>2. Typed' => Numbers'
  <2>1. MaxKeys \in Nat
    BY BridgeAssumption
  <2>2. keys' \in 0 .. MaxKeys => keys' \in Nat
    BY <2>1
  <2> QED  BY <2>2 DEF Typed, TypeOK, Numbers
<1>3. Numbers' => keys' \in 0 .. MaxKeys
  BY BridgeAssumption DEF Numbers
<1> QED  BY <1>1, <1>2, <1>3 DEF Typed, TypeOK, Where, Queues, Numbers, MissedHow

LEMMA WhereStep ==
    ASSUME IInv, [Next]_vars
    PROVE  Where'
<1>0. Where /\ Flags /\ Queues /\ Numbers /\ MissedHow
  BY TypedParts DEF IInv
<1>1. CASE \/ Attached \/ SuspendWait \/ Resume \/ CheckStopped \/ Join
           \/ EndPoll \/ HandleRefresh \/ HandleInput \/ Start \/ AsyncCb
           \/ FlushInput \/ LeavePoll \/ PollAgain \/ EndSuspend
  BY <1>0, <1>1 DEF Attached, SuspendWait, Resume, CheckStopped, Join, EndPoll,
     HandleRefresh, HandleInput, Start, StartTerminal, AsyncCb, FlushInput, LeavePoll,
     PollAgain, EndSuspend, UiCall, NotReady, Polling, Consumed, Continue, Callbacks,
     AskForInput, mainVars, bridgeVars, uiVars, inputVars, terminalVars, history, Where
<1>2. CASE \/ HandleDraw \/ HandleFlush \/ HandleSuspend \/ BeginSuspend
           \/ HandleStop \/ HandleWinch \/ HandleCont \/ Stopped \/ Close
           \/ SuspendCall \/ StopCall \/ ReadInput \/ Type \/ KeyTimeout \/ UNCHANGED vars
  BY <1>0, <1>2 DEF HandleDraw, HandleFlush, HandleSuspend, BeginSuspend, StopTerminal,
     HandleStop, HandleWinch, HandleCont, Stopped, Close, SuspendCall, StopCall,
     ReadInput, Type, KeyTimeout, Keys, vars, Handles, Spend, UiCall, Callbacks,
     AskForInput, mainVars, bridgeVars, uiVars, inputVars, terminalVars, history, Where
<1>3. CASE \/ (\E call \in {"draw", "flush"} : Draw(call))
           \/ (\E s \in {"winch", "cont"} : Signal(s))
  BY <1>0, <1>3 DEF Draw, Signal, Spend, UiCall, Callbacks, mainVars, bridgeVars, uiVars,
     inputVars, terminalVars, history, Where
<1>4. CASE PostponeRefresh
  BY <1>0, <1>4 DEF PostponeRefresh, Polling, mainVars, bridgeVars, uiVars,
     inputVars, terminalVars, history, Where
<1>5. CASE HandleDone
  BY <1>0, <1>5 DEF HandleDone, Polling, mainVars, bridgeVars, uiVars,
     inputVars, terminalVars, history, Where
<1>6. CASE HandleRestart
  BY <1>0, <1>6 DEF HandleRestart, Handles, mainVars, bridgeVars, uiVars,
     inputVars, terminalVars, history, Where
<1>7. CASE EndOfInput
  BY <1>0, <1>7 DEF EndOfInput, Callbacks, Spend, mainVars, bridgeVars, uiVars,
     inputVars, terminalVars, history, Where
<1> QED
  BY <1>1, <1>2, <1>3, <1>4, <1>5, <1>6, <1>7
     DEF Next, MainWaits, MainHandles, UiStep

LEMMA FlagsStep ==
    ASSUME IInv, [Next]_vars
    PROVE  Flags'
<1>0. Where /\ Flags /\ Queues /\ Numbers /\ MissedHow
  BY TypedParts DEF IInv
<1>1. CASE HandleRefresh
  BY <1>0, <1>1 DEF HandleRefresh, Polling, UiCall, mainVars, bridgeVars, uiVars,
     inputVars, terminalVars, history, Flags
<1>2. CASE EndSuspend
  BY <1>0, <1>2 DEF EndSuspend, StartTerminal, Continue, mainVars, bridgeVars, uiVars,
     inputVars, terminalVars, history, Flags
<1>3. CASE SuspendWait
  BY <1>0, <1>3 DEF SuspendWait, NotReady, mainVars, bridgeVars, uiVars, inputVars,
     terminalVars, history, Flags
<1>4. CASE Start
  BY <1>0, <1>4 DEF Start, StartTerminal, Continue, mainVars, bridgeVars, uiVars,
     inputVars, terminalVars, history, Flags
<1>5. CASE Type \/ KeyTimeout
  <2>1. keyTimer' \in BOOLEAN
    <3>1. \E n \in {0, 1} : keyTimer' = (keyTimer \/ n = 0) \/ keyTimer' = FALSE
      BY <1>5 DEF Type, KeyTimeout
    <3> QED  BY <3>1
  <2>2. waiting' = TRUE
    BY <1>5 DEF Type, KeyTimeout, Keys, AskForInput
  <2>3. UNCHANGED <<bridgeVars, nested, terminal, stopping, contReceived, reading, frozen,
                   lateRefresh>>
    BY <1>5 DEF Type, KeyTimeout, Keys
  <2> QED  BY <1>0, <2>1, <2>2, <2>3 DEF bridgeVars, Flags
<1>6. CASE FlushInput
  BY <1>0, <1>6 DEF FlushInput, AskForInput, mainVars, bridgeVars, uiVars, inputVars,
     terminalVars, history, Flags
<1>7. CASE HandleInput
  BY <1>0, <1>7 DEF HandleInput, Polling, Consumed, mainVars, bridgeVars, uiVars,
     inputVars, terminalVars, history, Flags
<1>8. CASE BeginSuspend
  BY <1>0, <1>8 DEF BeginSuspend, StopTerminal, Handles, mainVars, bridgeVars, uiVars,
     inputVars, terminalVars, history, Flags
<1>9. ASSUME NEW s \in {"winch", "cont"}, Signal(s)
      PROVE  Flags'
  <2>1. frozen' \in BOOLEAN
    <3>1. frozen' = FALSE \/ frozen' = frozen
      BY <1>9 DEF Signal
    <3> QED  BY <1>0, <3>1 DEF Flags
  <2>2. UNCHANGED <<bridgeVars, nested, terminal, stopping, contReceived, waiting,
                   reading, keyTimer, lateRefresh>>
    BY <1>9 DEF Signal, inputVars, terminalVars
  <2> QED  BY <1>0, <2>1, <2>2 DEF bridgeVars, Flags
<1>10. CASE \E call \in {"draw", "flush"} : Draw(call)
  BY <1>0, <1>10 DEF Draw, Spend, UiCall, mainVars, bridgeVars, uiVars, inputVars,
     terminalVars, history, Flags
<1>11. CASE UNCHANGED vars
  BY <1>0, <1>11 DEF vars, mainVars, bridgeVars, uiVars, inputVars, terminalVars,
     history, Flags
<1>12. CASE LeavePoll
  BY <1>0, <1>12 DEF LeavePoll, mainVars, bridgeVars, uiVars, inputVars, terminalVars,
     history, Flags
<1>13. CASE PollAgain
  BY <1>0, <1>13 DEF PollAgain, mainVars, bridgeVars, uiVars, inputVars, terminalVars,
     history, Flags
<1>14. CASE HandleDraw
  BY <1>0, <1>14 DEF HandleDraw, Handles, mainVars, bridgeVars, uiVars, inputVars,
     terminalVars, history, Flags
<1>15. CASE HandleFlush
  BY <1>0, <1>15 DEF HandleFlush, Handles, mainVars, bridgeVars, uiVars, inputVars,
     terminalVars, history, Flags
<1>16. CASE HandleSuspend
  BY <1>0, <1>16 DEF HandleSuspend, Handles, mainVars, bridgeVars, uiVars, inputVars,
     terminalVars, history, Flags
<1>17. CASE HandleStop
  BY <1>0, <1>17 DEF HandleStop, StopTerminal, Handles, mainVars, bridgeVars, uiVars,
     inputVars, terminalVars, history, Flags
<1>18. CASE HandleWinch
  BY <1>0, <1>18 DEF HandleWinch, Handles, mainVars, bridgeVars, uiVars, inputVars,
     terminalVars, history, Flags
<1>19. CASE HandleCont
  BY <1>0, <1>19 DEF HandleCont, Handles, mainVars, bridgeVars, uiVars, inputVars,
     terminalVars, history, Flags
<1>20. CASE Stopped
  BY <1>0, <1>20 DEF Stopped, mainVars, bridgeVars, uiVars, inputVars, terminalVars,
     history, Flags
<1>21. CASE Close
  BY <1>0, <1>21 DEF Close, mainVars, bridgeVars, uiVars, inputVars, terminalVars,
     history, Flags
<1>22. CASE SuspendCall
  BY <1>0, <1>22 DEF SuspendCall, Spend, UiCall, mainVars, bridgeVars, uiVars, inputVars,
     terminalVars, history, Flags
<1>23. CASE StopCall
  BY <1>0, <1>23 DEF StopCall, UiCall, mainVars, bridgeVars, uiVars, inputVars,
     terminalVars, history, Flags
<1>24. CASE ReadInput
  BY <1>0, <1>24 DEF ReadInput, mainVars, bridgeVars, uiVars, inputVars, terminalVars,
     history, Flags
<1>25. CASE \/ Attached \/ Resume \/ CheckStopped \/ Join \/ EndPoll \/ AsyncCb
  BY <1>0, <1>25 DEF Attached, Resume, CheckStopped, Join, EndPoll, AsyncCb, UiCall,
     Callbacks, mainVars, bridgeVars, uiVars, inputVars, terminalVars, history, Flags
<1>26. CASE PostponeRefresh
  BY <1>0, <1>26 DEF PostponeRefresh, Polling, mainVars, bridgeVars, uiVars,
     inputVars, terminalVars, history, Flags
<1>27. CASE HandleDone
  BY <1>0, <1>27 DEF HandleDone, Polling, mainVars, bridgeVars, uiVars,
     inputVars, terminalVars, history, Flags
<1>28. CASE HandleRestart
  BY <1>0, <1>28 DEF HandleRestart, Handles, mainVars, bridgeVars, uiVars,
     inputVars, terminalVars, history, Flags
<1>29. CASE EndOfInput
  BY <1>0, <1>29 DEF EndOfInput, Callbacks, Spend, mainVars, bridgeVars, uiVars,
     inputVars, terminalVars, history, Flags
<1> QED
  BY <1>1, <1>2, <1>3, <1>4, <1>5, <1>6, <1>7, <1>8, <1>9, <1>10, <1>11, <1>12, <1>13,
     <1>14, <1>15, <1>16, <1>17, <1>18, <1>19, <1>20, <1>21, <1>22, <1>23, <1>24, <1>25,
          <1>26, <1>27, <1>28, <1>29
     DEF Next, MainWaits, MainHandles, UiStep

LEMMA QueuesStep ==
    ASSUME IInv, [Next]_vars
    PROVE  Queues'
<1>0. Where /\ Flags /\ Queues /\ Numbers /\ MissedHow
  BY TypedParts DEF IInv
<1>0a. /\ \A call \in Calls : Append(uiThread, call) \in Seq(Calls)
       /\ \A e \in {"refresh", "input", "done"} :
            Append(mainEvents, e) \in Seq({"refresh", "input", "done"})
       /\ mainEvents # << >> => Tail(mainEvents) \in Seq({"refresh", "input", "done"})
       /\ uiFast # << >> => Tail(uiFast) \in Seq(UiEvents)
       /\ \A e \in UiEvents : Append(uiFast, e) \in Seq(UiEvents)
       /\ << >> \in Seq(Calls) /\ << >> \in Seq(UiEvents)
  BY <1>0 DEF Queues
<1>1. CASE Attached
  BY <1>0, <1>0a, <1>1 DEF Attached, UiCall, mainVars, bridgeVars, uiVars, inputVars,
     terminalVars, history, Queues, Calls, UiEvents
<1>2. CASE SuspendCall
  BY <1>0, <1>0a, <1>2 DEF SuspendCall, Spend, UiCall, mainVars, bridgeVars, uiVars,
     inputVars, terminalVars, history, Queues, Calls, UiEvents
<1>3. CASE StopCall
  BY <1>0, <1>0a, <1>3 DEF StopCall, UiCall, mainVars, bridgeVars, uiVars, inputVars,
     terminalVars, history, Queues, Calls, UiEvents
<1>4. CASE \E call \in {"draw", "flush"} : Draw(call)
  BY <1>0, <1>0a, <1>4 DEF Draw, Spend, UiCall, mainVars, bridgeVars, uiVars, inputVars,
     terminalVars, history, Queues, Calls, UiEvents
<1>5. CASE HandleRefresh
  <2>1. uiThread' = Append(uiThread, "draw") \/ uiThread' = uiThread
    BY <1>5 DEF HandleRefresh, UiCall
  <2>2. mainEvents # << >> /\ mainEvents' = Tail(mainEvents) /\ uiFast' = uiFast
    BY <1>5 DEF HandleRefresh, uiVars
  <2>3. "draw" \in Calls
    BY DEF Calls
  <2>4. uiThread' \in Seq(Calls)
    BY <1>0, <1>0a, <2>1, <2>3 DEF Queues
  <2> QED  BY <1>0, <1>0a, <2>2, <2>4 DEF Queues
<1>6. CASE HandleInput
  BY <1>0, <1>0a, <1>6 DEF HandleInput, Polling, Consumed, mainVars, bridgeVars, uiVars,
     inputVars, terminalVars, history, Queues, Calls, UiEvents
<1>7. CASE AsyncCb
  BY <1>0, <1>0a, <1>7 DEF AsyncCb, Callbacks, mainVars, bridgeVars, uiVars, inputVars,
     terminalVars, history, Queues, Calls, UiEvents
<1>8. CASE \E s \in {"winch", "cont"} : Signal(s)
  BY <1>0, <1>0a, <1>8 DEF Signal, Callbacks, Spend, mainVars, bridgeVars, uiVars,
     inputVars, terminalVars, history, Queues, Calls, UiEvents
<1>9. CASE Type \/ KeyTimeout
  BY <1>0, <1>0a, <1>9 DEF Type, KeyTimeout, Keys, Callbacks, Spend, AskForInput,
     mainVars, bridgeVars, uiVars, inputVars, terminalVars, history, Queues, Calls,
     UiEvents
<1>10. CASE FlushInput
  <2>1. mainEvents' = mainEvents \/ mainEvents' = Append(mainEvents, "input")
    BY <1>10 DEF FlushInput, AskForInput
  <2>2. Append(mainEvents, "input") \in Seq({"refresh", "input", "done"})
    BY <1>0 DEF Queues
  <2>3. mainEvents' \in Seq({"refresh", "input", "done"})
    BY <1>0, <2>1, <2>2 DEF Queues
  <2>4. uiThread' = uiThread /\ uiFast' = uiFast
    BY <1>10 DEF FlushInput
  <2> QED  BY <1>0, <2>3, <2>4 DEF Queues
<1>11. CASE HandleDraw
  <2>1. uiFast # << >> /\ uiFast' = Tail(uiFast)
    BY <1>11 DEF HandleDraw, Handles
  <2>2. uiThread' = uiThread /\ mainEvents' = mainEvents
    BY <1>11 DEF HandleDraw, mainVars
  <2> QED  BY <1>0, <1>0a, <2>1, <2>2 DEF Queues
<1>12. CASE HandleFlush
  <2>1. uiFast # << >> /\ mainEvents' = mainEvents
    BY <1>12 DEF HandleFlush, Handles, mainVars
  <2>2. \/ uiThread' = << >> /\ uiFast' = << >>
        \/ uiThread' = uiThread /\ uiFast' = Tail(uiFast)
    BY <1>12 DEF HandleFlush
  <2>3. CASE uiThread' = << >> /\ uiFast' = << >>
    BY <1>0, <1>0a, <2>1, <2>3 DEF Queues
  <2>4. CASE uiThread' = uiThread /\ uiFast' = Tail(uiFast)
    BY <1>0, <1>0a, <2>1, <2>4 DEF Queues
  <2> QED  BY <2>2, <2>3, <2>4
<1>13. CASE HandleSuspend
  BY <1>0, <1>0a, <1>13 DEF HandleSuspend, Handles, mainVars, bridgeVars, uiVars,
     inputVars, terminalVars, history, Queues, Calls, UiEvents
<1>14. CASE BeginSuspend
  BY <1>0, <1>0a, <1>14 DEF BeginSuspend, StopTerminal, Handles, mainVars, bridgeVars,
     uiVars, inputVars, terminalVars, history, Queues, Calls, UiEvents
<1>15. CASE HandleStop
  BY <1>0, <1>0a, <1>15 DEF HandleStop, StopTerminal, Handles, mainVars, bridgeVars,
     uiVars, inputVars, terminalVars, history, Queues, Calls, UiEvents
<1>16. CASE HandleWinch
  BY <1>0, <1>0a, <1>16 DEF HandleWinch, Handles, mainVars, bridgeVars, uiVars,
     inputVars, terminalVars, history, Queues, Calls, UiEvents
<1>17. CASE HandleCont
  BY <1>0, <1>0a, <1>17 DEF HandleCont, Handles, mainVars, bridgeVars, uiVars, inputVars,
     terminalVars, history, Queues, Calls, UiEvents
<1>18. CASE Close
  BY <1>0, <1>0a, <1>18 DEF Close, mainVars, bridgeVars, uiVars, inputVars, terminalVars,
     history, Queues, Calls, UiEvents
<1>19. CASE \/ SuspendWait \/ Resume \/ CheckStopped \/ Join \/ EndPoll \/ Start
            \/ LeavePoll \/ PollAgain \/ EndSuspend \/ Stopped \/ ReadInput
            \/ UNCHANGED vars
  BY <1>0, <1>0a, <1>19 DEF SuspendWait, Resume, CheckStopped, Join, EndPoll, Start,
     StartTerminal, LeavePoll, PollAgain, EndSuspend, Stopped, ReadInput, vars,
     NotReady, Continue, mainVars, bridgeVars, uiVars, inputVars, terminalVars, history,
     Queues, Calls, UiEvents
<1>20. CASE PostponeRefresh
  <2>1. /\ mainEvents' = Append(Tail(mainEvents), "refresh") /\ mainEvents # << >>
        /\ uiThread' = uiThread /\ uiFast' = uiFast
    BY <1>20 DEF PostponeRefresh, uiVars
  <2>2. \A q \in Seq({"refresh", "input", "done"}) :
          Append(q, "refresh") \in Seq({"refresh", "input", "done"})
    OBVIOUS
  <2> QED  BY <1>0, <1>0a, <2>1, <2>2 DEF Queues
<1>21. CASE HandleDone
  BY <1>0, <1>0a, <1>21 DEF HandleDone, mainVars, bridgeVars, uiVars,
     inputVars, terminalVars, history, Queues
<1>22. CASE HandleRestart
  BY <1>0, <1>0a, <1>22 DEF HandleRestart, Handles, mainVars, bridgeVars, uiVars,
     inputVars, terminalVars, history, Queues
<1>23. CASE EndOfInput
  <2>1. /\ mainEvents' = mainEvents \/ mainEvents' = Append(mainEvents, "done")
        /\ uiFast' = uiFast \/ uiFast' = Append(uiFast, "restart")
        /\ uiThread' = uiThread
    BY <1>23 DEF EndOfInput
  <2>2. "restart" \in UiEvents /\ "done" \in {"refresh", "input", "done"}
    BY DEF UiEvents
  <2>3. Append(mainEvents, "done") \in Seq({"refresh", "input", "done"})
    BY <1>0a, <2>2
  <2>4. Append(uiFast, "restart") \in Seq(UiEvents)
    BY <1>0a, <2>2
  <2> QED  BY <1>0, <2>1, <2>3, <2>4 DEF Queues
<1> QED
  BY <1>1, <1>2, <1>3, <1>4, <1>5, <1>6, <1>7, <1>8, <1>9, <1>10, <1>11, <1>12, <1>13,
     <1>14, <1>15, <1>16, <1>17, <1>18, <1>19, <1>20, <1>21, <1>22, <1>23
     DEF Next, MainWaits, MainHandles, UiStep

LEMMA NumbersStep ==
    ASSUME IInv, [Next]_vars
    PROVE  Numbers'
<1>0. Where /\ Flags /\ Queues /\ Numbers /\ MissedHow
  BY TypedParts DEF IInv
<1>1. CASE SuspendCall
  BY <1>0, <1>1 DEF SuspendCall, Spend, UiCall, mainVars, bridgeVars, uiVars, inputVars,
     terminalVars, history, Numbers
<1>2. CASE \E call \in {"draw", "flush"} : Draw(call)
  BY <1>0, <1>2 DEF Draw, Spend, UiCall, mainVars, bridgeVars, uiVars, inputVars,
     terminalVars, history, Numbers
<1>3. CASE \E s \in {"winch", "cont"} : Signal(s)
  BY <1>0, <1>3 DEF Signal, Callbacks, Spend, mainVars, bridgeVars, uiVars, inputVars,
     terminalVars, history, Numbers
<1>4. CASE Type \/ KeyTimeout
  <2>1. /\ keys' = keys \/ keys' = keys + 1
        /\ buffered' = buffered /\ spent["keys"] < MaxKeys
        /\ spent' = [spent EXCEPT !["keys"] = @ + 1]
    <3>1. PICK n \in {0, 1} : Keys(n)
      BY <1>4 DEF Type, KeyTimeout
    <3>2. keys' = keys + n /\ keys \in Nat
      BY <1>0, <3>1 DEF Keys, Numbers
    <3>3. keys' = keys \/ keys' = keys + 1
      BY <3>2
    <3> QED  BY <3>1, <3>3 DEF Keys, Spend
  <2>2. spent["keys"] \in Nat /\ spent'["keys"] = spent["keys"] + 1
    BY <1>0, <2>1 DEF Numbers
  <2>3. spent' \in [{"calls", "suspends", "keys", "winch", "cont", "ends"} -> Nat]
    BY <1>0, <2>1, <2>2 DEF Numbers
  <2> QED  BY <1>0, <2>1, <2>2, <2>3, BridgeAssumption DEF Numbers
<1>5. CASE HandleInput
  <2>1. keys' = keys - Consumed /\ buffered' = buffered + Consumed /\ spent' = spent
    BY <1>5 DEF HandleInput, history
  <2>2. InputRoom \in Nat /\ MaxKeys \in Nat
    BY BridgeAssumption
  <2>3. keys \in Nat /\ buffered \in 0 .. InputRoom /\ spent["keys"] \in Nat
    BY <1>0 DEF Numbers
  <2>4. Consumed \in 0 .. keys /\ Consumed <= InputRoom - buffered
    BY <2>2, <2>3 DEF Consumed
  <2>5. keys' \in Nat /\ keys' <= keys /\ buffered' \in 0 .. InputRoom
    BY <2>1, <2>2, <2>3, <2>4
  <2>6. keys' <= spent["keys"]
    BY <1>0, <2>3, <2>5 DEF Numbers
  <2> QED  BY <1>0, <2>1, <2>5, <2>6 DEF Numbers
<1>6. CASE ReadInput
  <2>1. 0 \in 0 .. InputRoom
    BY BridgeAssumption
  <2>2. buffered' = 0 /\ keys' = keys /\ spent' = spent
    BY <1>6 DEF ReadInput, inputVars, terminalVars, history
  <2> QED  BY <1>0, <2>1, <2>2 DEF Numbers
<1>7. CASE \/ Attached \/ SuspendWait \/ Resume \/ CheckStopped \/ Join
           \/ EndPoll \/ HandleRefresh \/ Start \/ AsyncCb \/ FlushInput
           \/ LeavePoll \/ PollAgain \/ EndSuspend \/ HandleDraw
  BY <1>0, <1>7 DEF Attached, SuspendWait, Resume, CheckStopped, Join, EndPoll,
     HandleRefresh, Start, StartTerminal, AsyncCb, FlushInput, LeavePoll, PollAgain,
     EndSuspend, HandleDraw, UiCall, NotReady, Polling, Continue, Callbacks,
     AskForInput, Handles, mainVars, bridgeVars, uiVars, inputVars, terminalVars,
     history, Numbers
<1>8. CASE \/ HandleFlush \/ HandleSuspend \/ BeginSuspend \/ HandleStop
           \/ HandleWinch \/ HandleCont \/ Stopped \/ Close \/ StopCall
           \/ UNCHANGED vars
  BY <1>0, <1>8 DEF HandleFlush, HandleSuspend, BeginSuspend, StopTerminal, HandleStop,
     HandleWinch, HandleCont, Stopped, Close, StopCall, vars, Handles, UiCall, mainVars,
     bridgeVars, uiVars, inputVars, terminalVars, history, Numbers
<1>9. CASE PostponeRefresh
  BY <1>0, <1>9 DEF PostponeRefresh, Polling, mainVars, bridgeVars, uiVars,
     inputVars, terminalVars, history, Numbers
<1>10. CASE HandleDone
  BY <1>0, <1>10 DEF HandleDone, Polling, mainVars, bridgeVars, uiVars,
     inputVars, terminalVars, history, Numbers
<1>11. CASE HandleRestart
  BY <1>0, <1>11 DEF HandleRestart, Handles, mainVars, bridgeVars, uiVars,
     inputVars, terminalVars, history, Numbers
<1>12. CASE EndOfInput
  BY <1>0, <1>12 DEF EndOfInput, Callbacks, Spend, mainVars, bridgeVars, uiVars,
     inputVars, terminalVars, history, Numbers
<1> QED
  BY <1>1, <1>2, <1>3, <1>4, <1>5, <1>6, <1>7, <1>8, <1>9, <1>10, <1>11, <1>12
     DEF Next, MainWaits, MainHandles, UiStep

LEMMA MissedHowStep ==
    ASSUME IInv, [Next]_vars
    PROVE  MissedHow'
<1>0. Where /\ Flags /\ Queues /\ Numbers /\ MissedHow
  BY TypedParts DEF IInv
<1>1. CASE Attached
  BY <1>0, <1>1 DEF Attached, UiCall, mainVars, bridgeVars, uiVars, inputVars,
     terminalVars, history, MissedHow
<1>2. CASE \E call \in {"draw", "flush"} : Draw(call)
  BY <1>0, <1>2 DEF Draw, Spend, UiCall, mainVars, bridgeVars, uiVars, inputVars,
     terminalVars, history, MissedHow
<1>3. CASE HandleRefresh
  BY <1>0, <1>3 DEF HandleRefresh, Polling, UiCall, mainVars, bridgeVars, uiVars,
     inputVars, terminalVars, history, MissedHow
<1>4. CASE SuspendCall
  BY <1>0, <1>4 DEF SuspendCall, Spend, UiCall, mainVars, bridgeVars, uiVars, inputVars,
     terminalVars, history, MissedHow
<1>5. CASE StopCall
  BY <1>0, <1>5 DEF StopCall, UiCall, mainVars, bridgeVars, uiVars, inputVars,
     terminalVars, history, MissedHow
<1>6. CASE \/ SuspendWait \/ Resume \/ CheckStopped \/ Join \/ EndPoll
           \/ HandleInput \/ Start \/ AsyncCb \/ FlushInput \/ LeavePoll
           \/ PollAgain \/ EndSuspend \/ HandleDraw \/ HandleFlush
  BY <1>0, <1>6 DEF SuspendWait, Resume, CheckStopped, Join, EndPoll, HandleInput, Start,
     StartTerminal, AsyncCb, FlushInput, LeavePoll, PollAgain, EndSuspend, HandleDraw,
     HandleFlush, NotReady, Polling, Consumed, Continue, Callbacks, AskForInput,
     Handles, mainVars, bridgeVars, uiVars, inputVars, terminalVars, history, MissedHow
<1>7. CASE \/ HandleSuspend \/ BeginSuspend \/ HandleStop \/ HandleWinch
           \/ HandleCont \/ Stopped \/ Close \/ ReadInput \/ Type \/ KeyTimeout
           \/ UNCHANGED vars \/ (\E s \in {"winch", "cont"} : Signal(s))
  BY <1>0, <1>7 DEF HandleSuspend, BeginSuspend, StopTerminal, HandleStop, HandleWinch,
     HandleCont, Stopped, Close, ReadInput, Type, KeyTimeout, Keys, vars, Signal,
     Handles, Callbacks, Spend, AskForInput, mainVars, bridgeVars, uiVars, inputVars,
     terminalVars, history, MissedHow
<1>8. CASE PostponeRefresh
  BY <1>0, <1>8 DEF PostponeRefresh, Polling, mainVars, bridgeVars, uiVars,
     inputVars, terminalVars, history, MissedHow
<1>9. CASE HandleDone
  BY <1>0, <1>9 DEF HandleDone, Polling, mainVars, bridgeVars, uiVars,
     inputVars, terminalVars, history, MissedHow
<1>10. CASE HandleRestart
  BY <1>0, <1>10 DEF HandleRestart, Handles, mainVars, bridgeVars, uiVars,
     inputVars, terminalVars, history, MissedHow
<1>11. CASE EndOfInput
  BY <1>0, <1>11 DEF EndOfInput, Callbacks, Spend, mainVars, bridgeVars, uiVars,
     inputVars, terminalVars, history, MissedHow
<1> QED
  BY <1>1, <1>2, <1>3, <1>4, <1>5, <1>6, <1>7, <1>8, <1>9, <1>10, <1>11
     DEF Next, MainWaits, MainHandles, UiStep

LEMMA TypedStep ==
    ASSUME IInv, [Next]_vars
    PROVE  Typed'
BY WhereStep, FlagsStep, QueuesStep, NumbersStep, MissedHowStep, TypedPartsNext

(* Where the threads are. *)
LEMMA HandshakesStep ==
    ASSUME IInv, [Next]_vars
    PROVE  Handshakes'
<1>0. Typed /\ Handshakes /\ Asking /\ Requests
  BY DEF IInv
<1>1. CASE Attached
  BY <1>0, <1>1 DEF Attached, UiCall, mainVars, bridgeVars, uiVars, inputVars,
     terminalVars, history, Handshakes, AwaitsCont, Suspending, Stopping
<1>2. CASE SuspendWait
  BY <1>0, <1>2 DEF SuspendWait, NotReady, mainVars, bridgeVars, uiVars, inputVars,
     terminalVars, history, Handshakes, AwaitsCont, Suspending, Stopping
<1>3. CASE Resume
  BY <1>0, <1>3 DEF Resume, mainVars, bridgeVars, uiVars, inputVars, terminalVars,
     history, Handshakes, AwaitsCont, Suspending, Stopping
<1>4. CASE CheckStopped
  BY <1>0, <1>4 DEF CheckStopped, mainVars, bridgeVars, uiVars, inputVars, terminalVars,
     history, Handshakes, AwaitsCont, Suspending, Stopping
<1>5. CASE Join
  BY <1>0, <1>5 DEF Join, mainVars, bridgeVars, uiVars, inputVars, terminalVars, history,
     Handshakes, AwaitsCont, Suspending, Stopping
<1>6. CASE EndPoll
  BY <1>0, <1>6 DEF EndPoll, mainVars, bridgeVars, uiVars, inputVars, terminalVars,
     history, Handshakes, AwaitsCont, Suspending, Stopping
<1>7. CASE HandleRefresh
  BY <1>0, <1>7 DEF HandleRefresh, Polling, UiCall, mainVars, bridgeVars, uiVars,
     inputVars, terminalVars, history, Handshakes, AwaitsCont, Suspending, Stopping
<1>8. CASE HandleInput
  BY <1>0, <1>8 DEF HandleInput, Polling, Consumed, mainVars, bridgeVars, uiVars,
     inputVars, terminalVars, history, Handshakes, AwaitsCont, Suspending, Stopping
<1>9. CASE Start
  BY <1>0, <1>9 DEF Start, StartTerminal, Continue, mainVars, bridgeVars, uiVars,
     inputVars, terminalVars, history, Handshakes, AwaitsCont, Suspending, Stopping
<1>10. CASE AsyncCb
  BY <1>0, <1>10 DEF AsyncCb, Callbacks, mainVars, bridgeVars, uiVars, inputVars,
     terminalVars, history, Handshakes, AwaitsCont, Suspending, Stopping
<1>11. CASE FlushInput
  BY <1>0, <1>11 DEF FlushInput, AskForInput, mainVars, bridgeVars, uiVars, inputVars,
     terminalVars, history, Handshakes, AwaitsCont, Suspending, Stopping
<1>12. CASE LeavePoll
  BY <1>0, <1>12 DEF LeavePoll, mainVars, bridgeVars, uiVars, inputVars, terminalVars,
     history, Handshakes, AwaitsCont, Suspending, Stopping
<1>13. CASE PollAgain
  BY <1>0, <1>13 DEF PollAgain, mainVars, bridgeVars, uiVars, inputVars, terminalVars,
     history, Handshakes, AwaitsCont, Suspending, Stopping
<1>14. CASE EndSuspend
  BY <1>0, <1>14 DEF EndSuspend, StartTerminal, Continue, mainVars, bridgeVars, uiVars,
     inputVars, terminalVars, history, Handshakes, AwaitsCont, Suspending, Stopping
<1>15. CASE HandleDraw
  BY <1>0, <1>15 DEF HandleDraw, Handles, mainVars, bridgeVars, uiVars, inputVars,
     terminalVars, history, Handshakes, AwaitsCont, Suspending, Stopping
<1>16. CASE HandleFlush
  BY <1>0, <1>16 DEF HandleFlush, Handles, mainVars, bridgeVars, uiVars, inputVars,
     terminalVars, history, Handshakes, AwaitsCont, Suspending, Stopping
<1>17. CASE HandleSuspend
  BY <1>0, <1>17 DEF HandleSuspend, Handles, mainVars, bridgeVars, uiVars, inputVars,
     terminalVars, history, Handshakes, AwaitsCont, Suspending, Stopping
<1>18. CASE BeginSuspend
  <2>1. Handles("suspend_event")
    BY <1>18 DEF BeginSuspend, StopTerminal
  <2>2. Len(Queue) \in Nat \ {0} /\ Queue[1] = "suspend_event" /\ 1 \in 1 .. Len(Queue)
    BY <1>0, <2>1, QueueHead
  <2>3. AwaitsCont /\ ~nested
    BY <1>0, <2>2 DEF Requests, Suspends
  <2> QED
    BY <1>0, <1>18, <2>3 DEF BeginSuspend, StopTerminal, Handles, mainVars, bridgeVars,
       uiVars, inputVars, terminalVars, history, Handshakes, AwaitsCont, Suspending,
       Stopping
<1>19. CASE HandleStop
  <2>1. Handles("stop")
    BY <1>19 DEF HandleStop, StopTerminal
  <2>2. Len(Queue) \in Nat \ {0} /\ Queue[1] = "stop" /\ 1 \in 1 .. Len(Queue)
    BY <1>0, <2>1, QueueHead
  <2>3. main \in Stopping
    BY <1>0, <2>2 DEF Requests, Suspends
  <2> QED
    BY <1>0, <1>19, <2>3 DEF HandleStop, StopTerminal, Handles, mainVars, bridgeVars,
       uiVars, inputVars, terminalVars, history, Handshakes, AwaitsCont, Suspending,
       Stopping
<1>20. CASE HandleWinch
  BY <1>0, <1>20 DEF HandleWinch, Handles, mainVars, bridgeVars, uiVars, inputVars,
     terminalVars, history, Handshakes, AwaitsCont, Suspending, Stopping
<1>21. CASE HandleCont
  BY <1>0, <1>21 DEF HandleCont, Handles, mainVars, bridgeVars, uiVars, inputVars,
     terminalVars, history, Handshakes, AwaitsCont, Suspending, Stopping
<1>22. CASE Stopped
  BY <1>0, <1>22 DEF Stopped, mainVars, bridgeVars, uiVars, inputVars, terminalVars,
     history, Handshakes, AwaitsCont, Suspending, Stopping
<1>23. CASE Close
  BY <1>0, <1>23 DEF Close, mainVars, bridgeVars, uiVars, inputVars, terminalVars,
     history, Handshakes, AwaitsCont, Suspending, Stopping
<1>24. CASE SuspendCall
  BY <1>0, <1>24 DEF SuspendCall, Spend, UiCall, mainVars, bridgeVars, uiVars, inputVars,
     terminalVars, history, Handshakes, AwaitsCont, Suspending, Stopping
<1>25. CASE StopCall
  BY <1>0, <1>25 DEF StopCall, UiCall, mainVars, bridgeVars, uiVars, inputVars,
     terminalVars, history, Handshakes, AwaitsCont, Suspending, Stopping
<1>26. CASE ReadInput
  BY <1>0, <1>26 DEF ReadInput, mainVars, bridgeVars, uiVars, inputVars, terminalVars,
     history, Handshakes, AwaitsCont, Suspending, Stopping
<1>27. CASE Type \/ KeyTimeout
  BY <1>0, <1>27 DEF Type, KeyTimeout, Keys, Callbacks, Spend, AskForInput, mainVars,
     bridgeVars, uiVars, inputVars, terminalVars, history, Handshakes, AwaitsCont,
     Suspending, Stopping
<1>28. CASE UNCHANGED vars
  BY <1>0, <1>28 DEF vars, mainVars, bridgeVars, uiVars, inputVars, terminalVars,
     history, Handshakes, AwaitsCont, Suspending, Stopping
<1>29. ASSUME NEW call \in {"draw", "flush"}, Draw(call)
      PROVE  Handshakes'
  BY <1>0, <1>29 DEF Draw, Spend, UiCall, mainVars, bridgeVars, uiVars, inputVars,
     terminalVars, history, Handshakes, AwaitsCont, Suspending, Stopping
<1>30. ASSUME NEW s \in {"winch", "cont"}, Signal(s)
      PROVE  Handshakes'
  BY <1>0, <1>30 DEF Signal, Callbacks, Spend, mainVars, bridgeVars, uiVars, inputVars,
     terminalVars, history, Handshakes, AwaitsCont, Suspending, Stopping
<1>31. CASE PostponeRefresh
  BY <1>0, <1>31 DEF PostponeRefresh, Polling, mainVars, bridgeVars, uiVars,
     inputVars, terminalVars, history, Handshakes, AwaitsCont, Suspending, Stopping
<1>32. CASE HandleDone
  BY <1>0, <1>32 DEF HandleDone, Polling, mainVars, bridgeVars, uiVars,
     inputVars, terminalVars, history, Handshakes, AwaitsCont, Suspending, Stopping
<1>33. CASE HandleRestart
  BY <1>0, <1>33 DEF HandleRestart, Handles, mainVars, bridgeVars, uiVars,
     inputVars, terminalVars, history, Handshakes, AwaitsCont, Suspending, Stopping
<1>34. CASE EndOfInput
  BY <1>0, <1>34 DEF EndOfInput, Callbacks, Spend, mainVars, bridgeVars, uiVars,
     inputVars, terminalVars, history, Handshakes, AwaitsCont, Suspending, Stopping
<1> QED
  BY <1>1, <1>2, <1>3, <1>4, <1>5, <1>6, <1>7, <1>8, <1>9, <1>10, <1>11, <1>12, <1>13,
     <1>14, <1>15, <1>16, <1>17, <1>18, <1>19, <1>20, <1>21, <1>22, <1>23, <1>24, <1>25,
     <1>26, <1>27, <1>28, <1>29, <1>30, <1>31, <1>32, <1>33, <1>34
     DEF Next, MainWaits, MainHandles, UiStep

(* The requests for input. *)
LEMMA AskingStep ==
    ASSUME IInv, [Next]_vars
    PROVE  Asking'
<1>0. Typed /\ Handshakes /\ Asking
  BY DEF IInv
<1>1. CASE Attached
  BY <1>0, <1>1 DEF Attached, UiCall, mainVars, bridgeVars, uiVars, inputVars,
     terminalVars, history, Asking, Handshakes
<1>2. CASE SuspendWait
  BY <1>0, <1>2 DEF SuspendWait, NotReady, mainVars, bridgeVars, uiVars, inputVars,
     terminalVars, history, Asking, Handshakes
<1>3. CASE Resume
  BY <1>0, <1>3 DEF Resume, mainVars, bridgeVars, uiVars, inputVars, terminalVars,
     history, Asking, Handshakes
<1>4. CASE CheckStopped
  BY <1>0, <1>4 DEF CheckStopped, mainVars, bridgeVars, uiVars, inputVars, terminalVars,
     history, Asking, Handshakes
<1>5. CASE Join
  BY <1>0, <1>5 DEF Join, mainVars, bridgeVars, uiVars, inputVars, terminalVars, history,
     Asking, Handshakes
<1>6. CASE EndPoll
  BY <1>0, <1>6 DEF EndPoll, mainVars, bridgeVars, uiVars, inputVars, terminalVars,
     history, Asking, Handshakes
<1>7. CASE HandleRefresh
  BY <1>0, <1>7 DEF HandleRefresh, Polling, UiCall, mainVars, bridgeVars, uiVars,
     inputVars, terminalVars, history, Asking, Handshakes
<1>8. CASE HandleInput
  BY <1>0, <1>8 DEF HandleInput, Polling, Consumed, mainVars, bridgeVars, uiVars,
     inputVars, terminalVars, history, Asking, Handshakes
<1>9. CASE Start
  BY <1>0, <1>9 DEF Start, StartTerminal, Continue, mainVars, bridgeVars, uiVars,
     inputVars, terminalVars, history, Asking, Handshakes
<1>10. CASE AsyncCb
  BY <1>0, <1>10 DEF AsyncCb, Callbacks, mainVars, bridgeVars, uiVars, inputVars,
     terminalVars, history, Asking, Handshakes
<1>11. CASE FlushInput
  BY <1>0, <1>11 DEF FlushInput, AskForInput, mainVars, bridgeVars, uiVars, inputVars,
     terminalVars, history, Asking, Handshakes
<1>12. CASE LeavePoll
  BY <1>0, <1>12 DEF LeavePoll, mainVars, bridgeVars, uiVars, inputVars, terminalVars,
     history, Asking, Handshakes
<1>13. CASE PollAgain
  BY <1>0, <1>13 DEF PollAgain, mainVars, bridgeVars, uiVars, inputVars, terminalVars,
     history, Asking, Handshakes
<1>14. CASE EndSuspend
  BY <1>0, <1>14 DEF EndSuspend, StartTerminal, Continue, mainVars, bridgeVars, uiVars,
     inputVars, terminalVars, history, Asking, Handshakes
<1>15. CASE HandleDraw
  BY <1>0, <1>15 DEF HandleDraw, Handles, mainVars, bridgeVars, uiVars, inputVars,
     terminalVars, history, Asking, Handshakes
<1>16. CASE HandleFlush
  BY <1>0, <1>16 DEF HandleFlush, Handles, mainVars, bridgeVars, uiVars, inputVars,
     terminalVars, history, Asking, Handshakes
<1>17. CASE HandleSuspend
  BY <1>0, <1>17 DEF HandleSuspend, Handles, mainVars, bridgeVars, uiVars, inputVars,
     terminalVars, history, Asking, Handshakes
<1>18. CASE BeginSuspend
  BY <1>0, <1>18 DEF BeginSuspend, StopTerminal, Handles, mainVars, bridgeVars, uiVars,
     inputVars, terminalVars, history, Asking, Handshakes
<1>19. CASE HandleStop
  BY <1>0, <1>19 DEF HandleStop, StopTerminal, Handles, mainVars, bridgeVars, uiVars,
     inputVars, terminalVars, history, Asking, Handshakes
<1>20. CASE HandleWinch
  BY <1>0, <1>20 DEF HandleWinch, Handles, mainVars, bridgeVars, uiVars, inputVars,
     terminalVars, history, Asking, Handshakes
<1>21. CASE HandleCont
  BY <1>0, <1>21 DEF HandleCont, Handles, mainVars, bridgeVars, uiVars, inputVars,
     terminalVars, history, Asking, Handshakes
<1>22. CASE Stopped
  BY <1>0, <1>22 DEF Stopped, mainVars, bridgeVars, uiVars, inputVars, terminalVars,
     history, Asking, Handshakes
<1>23. CASE Close
  BY <1>0, <1>23 DEF Close, mainVars, bridgeVars, uiVars, inputVars, terminalVars,
     history, Asking, Handshakes
<1>24. CASE SuspendCall
  BY <1>0, <1>24 DEF SuspendCall, Spend, UiCall, mainVars, bridgeVars, uiVars, inputVars,
     terminalVars, history, Asking, Handshakes
<1>25. CASE StopCall
  BY <1>0, <1>25 DEF StopCall, UiCall, mainVars, bridgeVars, uiVars, inputVars,
     terminalVars, history, Asking, Handshakes
<1>26. CASE ReadInput
  BY <1>0, <1>26 DEF ReadInput, mainVars, bridgeVars, uiVars, inputVars, terminalVars,
     history, Asking, Handshakes
<1>27. CASE Type \/ KeyTimeout
  BY <1>0, <1>27 DEF Type, KeyTimeout, Keys, Callbacks, Spend, AskForInput, mainVars,
     bridgeVars, uiVars, inputVars, terminalVars, history, Asking, Handshakes
<1>28. CASE UNCHANGED vars
  BY <1>0, <1>28 DEF vars, mainVars, bridgeVars, uiVars, inputVars, terminalVars,
     history, Asking, Handshakes
<1>29. ASSUME NEW call \in {"draw", "flush"}, Draw(call)
      PROVE  Asking'
  BY <1>0, <1>29 DEF Draw, Spend, UiCall, mainVars, bridgeVars, uiVars, inputVars,
     terminalVars, history, Asking, Handshakes
<1>30. ASSUME NEW s \in {"winch", "cont"}, Signal(s)
      PROVE  Asking'
  BY <1>0, <1>30 DEF Signal, Callbacks, Spend, mainVars, bridgeVars, uiVars, inputVars,
     terminalVars, history, Asking, Handshakes
<1>31. CASE PostponeRefresh
  <2>1. /\ mainEvents # << >> /\ Head(mainEvents) = "refresh"
        /\ mainEvents' = Append(Tail(mainEvents), "refresh") /\ ui' = ui
           /\ waiting' = waiting
    BY <1>31 DEF PostponeRefresh, uiVars, inputVars, terminalVars
  <2>2. mainEvents \in Seq({"refresh", "input", "done"})
    BY <1>0 DEF Typed, TypeOK
  <2>3. /\ Len(mainEvents) \in Nat \ {0} /\ Len(mainEvents') = Len(mainEvents)
        /\ \A i \in 1 .. Len(mainEvents) - 1 : mainEvents'[i] = mainEvents[i + 1]
        /\ mainEvents'[Len(mainEvents)] = "refresh"
    <3> DEFINE t == Tail(mainEvents)
    <3>1. /\ Len(mainEvents) \in Nat \ {0} /\ Len(t) = Len(mainEvents) - 1
          /\ t \in Seq({"refresh", "input", "done"})
          /\ \A i \in 1 .. Len(t) : t[i] = mainEvents[i + 1]
      BY <2>1, <2>2
    <3>2. mainEvents' = Append(t, "refresh")
      BY <2>1
    <3> HIDE DEF t
    <3>3. /\ Len(mainEvents') = Len(t) + 1 /\ mainEvents'[Len(t) + 1] = "refresh"
          /\ \A i \in 1 .. Len(t) : mainEvents'[i] = t[i]
      BY <3>1, <3>2
    <3> QED  BY <3>1, <3>3
  <2>4. ASSUME NEW i \in 1 .. Len(mainEvents'), mainEvents'[i] = "input"
        PROVE  i + 1 \in 1 .. Len(mainEvents) /\ mainEvents[i + 1] = "input"
    BY <2>3, <2>4
  <2>5. ASSUME NEW i \in 1 .. Len(mainEvents'), NEW j \in 1 .. Len(mainEvents'),
               mainEvents'[i] = "input", mainEvents'[j] = "input"
        PROVE  i = j
    <3>1. i + 1 = j + 1
      BY <1>0, <2>4, <2>5 DEF Asking
    <3> QED  BY <2>3, <3>1
  <2> QED  BY <1>0, <2>1, <2>4, <2>5 DEF Asking
<1>32. CASE HandleDone
  BY <1>0, <1>32 DEF HandleDone, Polling, mainVars, bridgeVars, uiVars,
     inputVars, terminalVars, history, Asking, Handshakes
<1>33. CASE HandleRestart
  BY <1>0, <1>33 DEF HandleRestart, Handles, mainVars, bridgeVars, uiVars,
     inputVars, terminalVars, history, Asking, Handshakes
<1>34. CASE EndOfInput
  BY <1>0, <1>34 DEF EndOfInput, Callbacks, mainVars, bridgeVars, uiVars,
     inputVars, terminalVars, history, Asking, Handshakes
<1> QED
  BY <1>1, <1>2, <1>3, <1>4, <1>5, <1>6, <1>7, <1>8, <1>9, <1>10, <1>11, <1>12, <1>13,
     <1>14, <1>15, <1>16, <1>17, <1>18, <1>19, <1>20, <1>21, <1>22, <1>23, <1>24, <1>25,
     <1>26, <1>27, <1>28, <1>29, <1>30, <1>31, <1>32, <1>33, <1>34
     DEF Next, MainWaits, MainHandles, UiStep

(* Most steps bring no call and end no use of the terminal. *)
Quiet ==
    /\ Keeps
    /\ AwaitsCont /\ ~nested => (AwaitsCont /\ ~nested)'
    /\ main \in Stopping => main' \in Stopping
    /\ lateRefresh => lateRefresh'
    /\ nested' => nested
    /\ stopping' => stopping

LEMMA QuietSteps ==
    ASSUME IInv, [Next]_vars
    PROVE  \/ Quiet
           \/ BeginSuspend \/ HandleStop \/ HandleSuspend
           \/ Attached \/ SuspendCall \/ StopCall \/ HandleRefresh
           \/ \E call \in {"draw", "flush"} : Draw(call)
<1>0. Typed /\ Handshakes
  BY DEF IInv
<1>1. CASE SuspendWait
  <2>1. Queue' = Queue
    BY <1>1 DEF SuspendWait, Queue, uiVars
  <2>2. Quiet
    BY <1>0, <1>1, <2>1, KeepsAll DEF SuspendWait, NotReady, Quiet, mainVars, bridgeVars,
       uiVars, inputVars, terminalVars, history, AwaitsCont, Suspending, Stopping,
       Handshakes
  <2> QED  BY <2>2
<1>2. CASE Resume
  <2>1. Queue' = Queue
    BY <1>2 DEF Resume, Queue, uiVars
  <2>2. Quiet
    BY <1>0, <1>2, <2>1, KeepsAll DEF Resume, Quiet, mainVars, bridgeVars, uiVars,
       inputVars, terminalVars, history, AwaitsCont, Suspending, Stopping, Handshakes
  <2> QED  BY <2>2
<1>3. CASE CheckStopped
  <2>1. Queue' = Queue
    BY <1>3 DEF CheckStopped, Queue, uiVars
  <2>2. Quiet
    BY <1>0, <1>3, <2>1, KeepsAll DEF CheckStopped, Quiet, mainVars, bridgeVars, uiVars,
       inputVars, terminalVars, history, AwaitsCont, Suspending, Stopping, Handshakes
  <2> QED  BY <2>2
<1>4. CASE Join
  <2>1. Queue' = Queue
    BY <1>4 DEF Join, Queue, uiVars
  <2>2. Quiet
    BY <1>0, <1>4, <2>1, KeepsAll DEF Join, Quiet, mainVars, bridgeVars, uiVars,
       inputVars, terminalVars, history, AwaitsCont, Suspending, Stopping, Handshakes
  <2> QED  BY <2>2
<1>5. CASE EndPoll
  <2>1. Queue' = Queue
    BY <1>5 DEF EndPoll, Queue, uiVars
  <2>2. Quiet
    BY <1>0, <1>5, <2>1, KeepsAll DEF EndPoll, Quiet, mainVars, bridgeVars, uiVars,
       inputVars, terminalVars, history, AwaitsCont, Suspending, Stopping, Handshakes
  <2> QED  BY <2>2
<1>6. CASE HandleInput
  <2>1. Queue' = Queue
    BY <1>6 DEF HandleInput, Queue, uiVars
  <2>2. Quiet
    BY <1>0, <1>6, <2>1, KeepsAll DEF HandleInput, Polling, Consumed, Quiet, mainVars,
       bridgeVars, uiVars, inputVars, terminalVars, history, AwaitsCont, Suspending,
       Stopping, Handshakes
  <2> QED  BY <2>2
<1>7. CASE Start
  <2>1. Queue' = Queue
    BY <1>7 DEF Start, StartTerminal, Queue, uiVars
  <2>2. Quiet
    BY <1>0, <1>7, <2>1, KeepsAll DEF Start, StartTerminal, Continue, Quiet, mainVars,
       bridgeVars, uiVars, inputVars, terminalVars, history, AwaitsCont, Suspending,
       Stopping, Handshakes
  <2> QED  BY <2>2
<1>8. CASE FlushInput
  <2>1. Queue' = Queue
    BY <1>8 DEF FlushInput, Queue, uiVars
  <2>2. Quiet
    BY <1>0, <1>8, <2>1, KeepsAll DEF FlushInput, AskForInput, Quiet, mainVars,
       bridgeVars, uiVars, inputVars, terminalVars, history, AwaitsCont, Suspending,
       Stopping, Handshakes
  <2> QED  BY <2>2
<1>9. CASE LeavePoll
  <2>1. Queue' = Queue
    BY <1>9 DEF LeavePoll, Queue, uiVars
  <2>2. Quiet
    BY <1>0, <1>9, <2>1, KeepsAll DEF LeavePoll, Quiet, mainVars, bridgeVars, uiVars,
       inputVars, terminalVars, history, AwaitsCont, Suspending, Stopping, Handshakes
  <2> QED  BY <2>2
<1>10. CASE PollAgain
  <2>1. Queue' = Queue
    BY <1>10 DEF PollAgain, Queue, uiVars
  <2>2. Quiet
    BY <1>0, <1>10, <2>1, KeepsAll DEF PollAgain, Quiet, mainVars, bridgeVars, uiVars,
       inputVars, terminalVars, history, AwaitsCont, Suspending, Stopping, Handshakes
  <2> QED  BY <2>2
<1>11. CASE EndSuspend
  <2>1. Queue' = Queue
    BY <1>11 DEF EndSuspend, StartTerminal, Queue, uiVars
  <2>2. Quiet
    BY <1>0, <1>11, <2>1, KeepsAll DEF EndSuspend, StartTerminal, Continue, Quiet,
       mainVars, bridgeVars, uiVars, inputVars, terminalVars, history, AwaitsCont,
       Suspending, Stopping, Handshakes
  <2> QED  BY <2>2
<1>12. CASE Stopped
  <2>1. Queue' = Queue
    BY <1>12 DEF Stopped, Queue, uiVars
  <2>2. Quiet
    BY <1>0, <1>12, <2>1, KeepsAll DEF Stopped, Quiet, mainVars, bridgeVars, uiVars,
       inputVars, terminalVars, history, AwaitsCont, Suspending, Stopping, Handshakes
  <2> QED  BY <2>2
<1>13. CASE ReadInput
  <2>1. Queue' = Queue
    BY <1>13 DEF ReadInput, Queue, uiVars
  <2>2. Quiet
    BY <1>0, <1>13, <2>1, KeepsAll DEF ReadInput, Quiet, mainVars, bridgeVars, uiVars,
       inputVars, terminalVars, history, AwaitsCont, Suspending, Stopping, Handshakes
  <2> QED  BY <2>2
<1>14. CASE Type \/ KeyTimeout
  <2>1. Queue' = Queue
    BY <1>14 DEF Type, KeyTimeout, Keys, Queue, uiVars
  <2>2. Quiet
    BY <1>0, <1>14, <2>1, KeepsAll DEF Type, KeyTimeout, Keys, Callbacks, Spend,
       AskForInput, Quiet, mainVars, bridgeVars, uiVars, inputVars, terminalVars,
       history, AwaitsCont, Suspending, Stopping, Handshakes
  <2> QED  BY <2>2
<1>15. CASE HandleDraw
  <2>1. Keeps
    BY <1>0, <1>15, KeepsTail DEF HandleDraw, Handles, uiVars
  <2>2. Quiet
    BY <1>0, <1>15, <2>1 DEF HandleDraw, Quiet, mainVars, bridgeVars, uiVars, inputVars,
       terminalVars, history, AwaitsCont, Suspending, Stopping, Handshakes
  <2> QED  BY <2>2
<1>16. CASE HandleWinch
  <2>1. Keeps
    BY <1>0, <1>16, KeepsTail DEF HandleWinch, Handles, uiVars
  <2>2. Quiet
    BY <1>0, <1>16, <2>1 DEF HandleWinch, Quiet, mainVars, bridgeVars, uiVars, inputVars,
       terminalVars, history, AwaitsCont, Suspending, Stopping, Handshakes
  <2> QED  BY <2>2
<1>17. CASE HandleCont
  <2>1. Keeps
    BY <1>0, <1>17, KeepsTail DEF HandleCont, Handles, uiVars
  <2>2. Quiet
    BY <1>0, <1>17, <2>1 DEF HandleCont, Quiet, mainVars, bridgeVars, uiVars, inputVars,
       terminalVars, history, AwaitsCont, Suspending, Stopping, Handshakes
  <2> QED  BY <2>2
<1>18. CASE HandleFlush
  <2>1. CASE Len(uiThread) > TooMany
    BY <1>0, <1>18, <2>1, KeepsSome DEF HandleFlush, Quiet, mainVars, bridgeVars, uiVars,
       inputVars, terminalVars, history, AwaitsCont, Suspending, Stopping, Handshakes
  <2>2. CASE ~(Len(uiThread) > TooMany)
    BY <1>0, <1>18, <2>2, KeepsTail DEF HandleFlush, Handles, Quiet, mainVars,
       bridgeVars, uiVars, inputVars, terminalVars, history, AwaitsCont, Suspending,
       Stopping, Handshakes
  <2> QED  BY <2>1, <2>2
<1>19. CASE Close
  BY <1>0, <1>19, KeepsSome DEF Close, Quiet, mainVars, bridgeVars, uiVars, inputVars,
     terminalVars, history, AwaitsCont, Suspending, Stopping, Handshakes
<1>20. CASE AsyncCb
  BY <1>0, <1>20, MovesOver, KeepsAll DEF AsyncCb, Quiet, mainVars, bridgeVars, uiVars,
     inputVars, terminalVars, history, AwaitsCont, Suspending, Stopping, Handshakes
<1>21. ASSUME NEW s \in {"winch", "cont"}, Signal(s)
      PROVE  Quiet
  BY <1>0, <1>21, KeepsPut DEF Signal, Quiet, mainVars, bridgeVars, uiVars, inputVars,
     terminalVars, history, AwaitsCont, Suspending, Stopping, Handshakes
<1>22. CASE UNCHANGED vars
  BY <1>0, <1>22, KeepsAll DEF vars, Queue, Quiet, mainVars, bridgeVars, uiVars,
     inputVars, terminalVars, history, AwaitsCont, Suspending, Stopping, Handshakes
<1>23. CASE PostponeRefresh
  <2>1. Queue' = Queue
    BY <1>23 DEF PostponeRefresh, Queue, uiVars
  <2>2. Quiet
    BY <1>0, <1>23, <2>1, KeepsAll DEF PostponeRefresh, Quiet, mainVars, bridgeVars,
    uiVars,
     inputVars, terminalVars, history, AwaitsCont, Suspending, Stopping, Handshakes
  <2> QED  BY <2>2
<1>24. CASE HandleDone
  <2>1. Queue' = Queue
    BY <1>24 DEF HandleDone, Queue, uiVars
  <2>2. Quiet
    BY <1>0, <1>24, <2>1, KeepsAll DEF HandleDone, Polling, Quiet, mainVars, bridgeVars,
       uiVars,
     inputVars, terminalVars, history, AwaitsCont, Suspending, Stopping, Handshakes
  <2> QED  BY <2>2
<1>25. CASE HandleRestart
  <2>1. Keeps
    BY <1>0, <1>25, KeepsTail DEF HandleRestart, Handles, uiVars
  <2>2. Quiet
    BY <1>0, <1>25, <2>1 DEF HandleRestart, Quiet, mainVars, bridgeVars, uiVars,
     inputVars, terminalVars, history, AwaitsCont, Suspending, Stopping, Handshakes
  <2> QED  BY <2>2
<1>26. CASE EndOfInput
  <2>1. CASE uiFast' = uiFast
    <3>1. Queue' = Queue
      BY <1>26, <2>1 DEF EndOfInput, Queue
    <3> QED  BY <1>0, <1>26, <3>1, KeepsAll DEF EndOfInput, Quiet, mainVars, bridgeVars,
                uiVars,
     inputVars, terminalVars, history, AwaitsCont, Suspending, Stopping, Handshakes
  <2>2. CASE uiFast' = Append(uiFast, "restart")
    <3>1. Keeps
      BY <1>0, <1>26, <2>2, KeepsPut DEF EndOfInput
    <3> QED  BY <1>0, <1>26, <3>1 DEF EndOfInput, Quiet, mainVars, bridgeVars, uiVars,
     inputVars, terminalVars, history, AwaitsCont, Suspending, Stopping, Handshakes
  <2> QED  BY <1>26, <2>1, <2>2 DEF EndOfInput
<1> QED
  BY <1>1, <1>2, <1>3, <1>4, <1>5, <1>6, <1>7, <1>8, <1>9, <1>10, <1>11, <1>12, <1>13,
     <1>14, <1>15, <1>16, <1>17, <1>18, <1>19, <1>20, <1>21, <1>22, <1>23, <1>24, <1>25,
          <1>26
     DEF Next, MainWaits, MainHandles, UiStep

(***************************************************************************)
(* What a call does, and what is taken out.                                *)
(***************************************************************************)
LEMMA RequestsPut ==
    ASSUME IInv, NEW call \in Calls,
           uiThread' = Append(uiThread, call), uiFast' = uiFast,
           AwaitsCont /\ ~nested => (AwaitsCont /\ ~nested)',
           main \in Stopping => main' \in Stopping,
           call = "suspend" =>
             /\ (AwaitsCont /\ ~nested)'
             /\ \A i \in 1 .. Len(Queue) : Queue[i] \notin Suspends,
           call = "stop" => main' \in Stopping
    PROVE  Requests'
<1>1. /\ Len(Queue) \in Nat /\ Len(Queue') = Len(Queue) + 1
      /\ \A i \in 1 .. Len(Queue) : Queue'[i] = Queue[i]
      /\ Queue'[Len(Queue) + 1] = call
  BY CallComes DEF IInv
<1>2. Requests
  BY DEF IInv
<1>3. \A i \in 1 .. Len(Queue') : i \in 1 .. Len(Queue) \/ i = Len(Queue) + 1
  BY <1>1
<1>4. call \in Suspends => call = "suspend"
  BY DEF Calls, Suspends
<1>5. ASSUME NEW i \in 1 .. Len(Queue'), Queue'[i] \in Suspends
      PROVE  AwaitsCont' /\ ~nested'
  BY <1>1, <1>2, <1>3, <1>4, <1>5 DEF Requests
<1>6. ASSUME NEW i \in 1 .. Len(Queue'), NEW j \in 1 .. Len(Queue'),
             Queue'[i] \in Suspends, Queue'[j] \in Suspends
      PROVE  i = j
  BY <1>1, <1>2, <1>3, <1>4, <1>6 DEF Requests
<1>7. ASSUME NEW i \in 1 .. Len(Queue'), Queue'[i] = "stop"
      PROVE  main' \in Stopping
  BY <1>1, <1>2, <1>3, <1>7 DEF Requests
<1> QED  BY <1>5, <1>6, <1>7 DEF Requests, Suspends

LEMMA LastCallsPut ==
    ASSUME IInv, NEW call \in Calls,
           uiThread' = Append(uiThread, call), uiFast' = uiFast,
           lateRefresh => lateRefresh',
           ~nested', stopping' => lateRefresh',
           \A i \in 1 .. Len(Queue) :
             Queue[i] \notin Suspends /\ (Queue[i] = "stop" => lateRefresh')
    PROVE  LastCalls'
<1>1. /\ Len(Queue) \in Nat /\ Len(Queue') = Len(Queue) + 1
      /\ \A i \in 1 .. Len(Queue) : Queue'[i] = Queue[i]
      /\ Queue'[Len(Queue) + 1] = call
  BY CallComes DEF IInv
<1>2. ASSUME NEW i \in 1 .. Len(Queue'), NEW j \in 1 .. Len(Queue'), i < j,
             Leaves(Queue[i])'
      PROVE  FALSE
  <2>1. i \in 1 .. Len(Queue) /\ Queue'[i] = Queue[i]
    BY <1>1, <1>2
  <2> QED  BY <1>2, <2>1 DEF Leaves, Suspends
<1> QED  BY <1>2 DEF LastCalls

(* The event handled is one of them; what is left comes after it. *)
LEMMA HandledTail ==
    ASSUME Typed, NEW e, Handles(e), uiFast' = Tail(uiFast), uiThread' = uiThread
    PROVE  /\ Len(Queue) \in Nat \ {0} /\ 1 \in 1 .. Len(Queue) /\ Queue[1] = e
           /\ \A i \in 1 .. Len(Queue') :
                /\ i + 1 \in 1 .. Len(Queue) /\ 1 < i + 1 /\ i + 1 # 1
                /\ Queue'[i] = Queue[i + 1]
<1>1. Queue' = Tail(Queue)
  BY KeepsTail DEF Handles
<1>2. Len(Queue) \in Nat \ {0} /\ Queue[1] = e /\ Queue \in Seq(UiEvents)
  BY QueueHead, QueueType
<1>3. Len(Queue') = Len(Queue) - 1
        /\ \A i \in 1 .. Len(Queue) - 1 : Queue'[i] = Queue[i + 1]
  BY <1>1, <1>2
<1> QED  BY <1>2, <1>3

LEMMA RequestsStep ==
    ASSUME IInv, [Next]_vars
    PROVE  Requests'
<1>0. Typed /\ Handshakes /\ Requests
  BY DEF IInv
<1>1. CASE Quiet
  BY <1>1, RequestsKept DEF Quiet
<1>2. CASE BeginSuspend
  <2>1. /\ Handles("suspend_event") /\ uiFast' = Tail(uiFast) /\ uiThread' = uiThread
        /\ main' = main
    BY <1>2 DEF BeginSuspend, StopTerminal, mainVars
  <2>2. \A i \in 1 .. Len(Queue') : Queue'[i] \notin Suspends
    BY <1>0, <2>1, HandledTail DEF Requests, Suspends
  <2>3. \A i \in 1 .. Len(Queue') : Queue'[i] = "stop" => main' \in Stopping
    BY <1>0, <2>1, HandledTail DEF Requests
  <2> QED  BY <2>2, <2>3 DEF Requests, Suspends
<1>3. CASE HandleStop
  <2>1. /\ Handles("stop") /\ uiFast' = Tail(uiFast) /\ uiThread' = uiThread
        /\ main' = main /\ ready' = ready /\ nested' = nested
    BY <1>3 DEF HandleStop, StopTerminal, mainVars, bridgeVars
  <2>2. Keeps
    BY <1>0, <2>1, KeepsTail DEF Handles
  <2> QED  BY <2>1, <2>2, RequestsKept DEF AwaitsCont, Suspending, Stopping
<1>4. CASE HandleSuspend
  <2>1. /\ Handles("suspend") /\ uiFast' = Append(Tail(uiFast), "suspend_event")
        /\ uiThread' = uiThread /\ main' = main /\ ready' = ready /\ nested' = nested
    BY <1>4 DEF HandleSuspend, mainVars, bridgeVars
  <2>2. /\ Len(Queue) \in Nat \ {0} /\ Queue[1] = "suspend" /\ Len(Queue') = Len(Queue)
        /\ Len(uiFast) \in 1 .. Len(Queue)
        /\ \A i \in 1 .. Len(uiFast) - 1 : Queue'[i] = Queue[i + 1]
        /\ Queue'[Len(uiFast)] = "suspend_event"
        /\ \A i \in Len(uiFast) + 1 .. Len(Queue) : Queue'[i] = Queue[i]
    BY <1>0, <2>1, SuspendPut
  <2>3. \A i \in 1 .. Len(Queue') : i # Len(uiFast) =>
          \E k \in 1 .. Len(Queue) : k # 1 /\ Queue'[i] = Queue[k]
    <3> SUFFICES ASSUME NEW i \in 1 .. Len(Queue'), i # Len(uiFast)
                 PROVE  \E k \in 1 .. Len(Queue) : k # 1 /\ Queue'[i] = Queue[k]
      OBVIOUS
    <3>1. CASE i < Len(uiFast)
      <4>1. i \in 1 .. Len(uiFast) - 1 /\ i + 1 \in 1 .. Len(Queue) /\ i + 1 # 1
        BY <2>2, <3>1
      <4> QED  BY <2>2, <4>1
    <3>2. CASE i > Len(uiFast)
      <4>1. i \in Len(uiFast) + 1 .. Len(Queue) /\ i \in 1 .. Len(Queue) /\ i # 1
        BY <2>2, <3>2
      <4> QED  BY <2>2, <4>1
    <3> QED  BY <2>2, <3>1, <3>2
  <2>4. 1 \in 1 .. Len(Queue) /\ AwaitsCont' /\ ~nested'
    BY <1>0, <2>1, <2>2 DEF Requests, Suspends, AwaitsCont
  <2>5. \A i \in 1 .. Len(Queue') : Queue'[i] \in Suspends => i = Len(uiFast)
    BY <1>0, <2>2, <2>3, <2>4 DEF Requests, Suspends
  <2>6. \A i \in 1 .. Len(Queue') : Queue'[i] = "stop" => main' \in Stopping
    BY <1>0, <2>1, <2>2, <2>3 DEF Requests
  <2> QED  BY <2>4, <2>5, <2>6 DEF Requests, Suspends
<1>5. ASSUME NEW call \in Calls, UiCall(call), uiFast' = uiFast, main \in {"attach",
"run"},
             call = "suspend" => AwaitsCont' /\ ~nested', call = "stop"
               => main' \in Stopping
      PROVE  Requests'
  <2>1. uiThread' = Append(uiThread, call)
    BY <1>5, RunsAlone DEF UiCall
  <2>2. ~AwaitsCont /\ main \notin Stopping
    BY <1>5 DEF AwaitsCont, Suspending, Stopping
  <2> QED  BY <1>5, <2>1, <2>2, RequestsPut, RunsAlone
<1>6. CASE Attached
  <2>1. UiCall("draw") /\ uiFast' = uiFast /\ main = "attach" /\ "draw" \in Calls
    BY <1>6 DEF Attached, uiVars, Calls
  <2> QED  BY <1>5, <2>1
<1>7. CASE SuspendCall
  <2>1. /\ UiCall("suspend") /\ uiFast' = uiFast /\ main = "run" /\ "suspend" \in Calls
        /\ main' = "suspending" /\ nested' = nested
    BY <1>7 DEF SuspendCall, uiVars, Calls
  <2>2. AwaitsCont' /\ ~nested'
    BY <2>1, RunsAlone DEF AwaitsCont, Suspending
  <2> QED  BY <1>5, <2>1, <2>2
<1>8. CASE StopCall
  <2>1. /\ UiCall("stop") /\ uiFast' = uiFast /\ main = "run" /\ "stop" \in Calls
        /\ main' \in Stopping
    BY <1>8 DEF StopCall, uiVars, Calls, Stopping
  <2> QED  BY <1>5, <2>1
<1>9. ASSUME NEW call \in {"draw", "flush"}, Draw(call)
      PROVE  Requests'
  <2>1. UiCall(call) /\ uiFast' = uiFast /\ main = "run" /\ call \in Calls
    BY <1>9 DEF Draw, uiVars, Calls
  <2> QED  BY <1>5, <2>1
<1>10. CASE HandleRefresh
  <2>1. /\ UiCall("draw") /\ uiFast' = uiFast /\ main' = main /\ ready' = ready
        /\ nested' = nested /\ "draw" \in Calls
    BY <1>10 DEF HandleRefresh, uiVars, bridgeVars, Calls
  <2>2. /\ AwaitsCont /\ ~nested => (AwaitsCont /\ ~nested)'
        /\ main \in Stopping => main' \in Stopping
    BY <2>1 DEF AwaitsCont
  <2>3. CASE uiThread' = Append(uiThread, "draw")
    BY <2>1, <2>2, <2>3, RequestsPut
  <2>4. CASE uiThread' = uiThread
    <3>1. Keeps
      BY <1>0, <2>1, <2>4, KeepsAll DEF Queue
    <3> QED  BY <2>2, <3>1, RequestsKept
  <2> QED  BY <2>1, <2>3, <2>4, UiCalls
<1> QED  BY <1>1, <1>2, <1>3, <1>4, <1>6, <1>7, <1>8, <1>9, <1>10, QuietSteps

LEMMA LastCallsStep ==
    ASSUME IInv, [Next]_vars
    PROVE  LastCalls'
<1>0. Typed /\ Handshakes /\ Requests /\ LastCalls
  BY DEF IInv
<1>1. CASE Quiet
  BY <1>1, LastCallsKept DEF Quiet
<1>2. CASE BeginSuspend
  <2>1. Handles("suspend_event") /\ uiFast' = Tail(uiFast) /\ uiThread' = uiThread
    BY <1>2 DEF BeginSuspend, StopTerminal
  <2>2. Leaves("suspend_event")
    BY DEF Leaves, Suspends
  <2>3. \A i \in 1 .. Len(Queue') : Queue'[i] \notin Calls
    BY <1>0, <2>1, <2>2, HandledTail DEF LastCalls
  <2> QED  BY <2>3 DEF LastCalls
<1>3. CASE HandleStop
  <2>1. /\ Handles("stop") /\ uiFast' = Tail(uiFast) /\ uiThread' = uiThread
        /\ nested' = nested /\ lateRefresh' = lateRefresh
    BY <1>3 DEF HandleStop, StopTerminal, history
  <2>2. CASE lateRefresh
    <3>1. Keeps
      BY <1>0, <2>1, KeepsTail DEF Handles
    <3> QED  BY <2>1, <2>2, <3>1, LastCallsKept
  <2>3. CASE ~lateRefresh
    <3>1. Leaves("stop")
      BY <2>3 DEF Leaves
    <3>2. \A i \in 1 .. Len(Queue') : Queue'[i] \notin Calls
      BY <1>0, <2>1, <3>1, HandledTail DEF LastCalls
    <3> QED  BY <3>2 DEF LastCalls
  <2> QED  BY <2>2, <2>3
<1>4. CASE HandleSuspend
  <2>1. /\ Handles("suspend") /\ uiFast' = Append(Tail(uiFast), "suspend_event")
        /\ uiThread' = uiThread
    BY <1>4 DEF HandleSuspend
  <2>2. /\ Len(Queue) \in Nat \ {0} /\ Queue[1] = "suspend" /\ Len(Queue') = Len(Queue)
        /\ Len(uiFast) \in 1 .. Len(Queue)
        /\ \A i \in 1 .. Len(uiFast) - 1 : Queue'[i] = Queue[i + 1]
        /\ Queue'[Len(uiFast)] = "suspend_event"
        /\ \A i \in Len(uiFast) + 1 .. Len(Queue) : Queue'[i] = Queue[i]
    BY <1>0, <2>1, SuspendPut
  <2>3. 1 \in 1 .. Len(Queue) /\ Leaves(Queue[1]) /\ "suspend_event" \notin Calls
    BY <2>2 DEF Leaves, Suspends, Calls
  <2>4. \A k \in 1 .. Len(Queue) : 1 < k => Queue[k] \notin Calls
    BY <1>0, <2>3 DEF LastCalls
  <2>5. ASSUME NEW i \in 1 .. Len(Queue')
        PROVE  Queue'[i] \notin Calls
    <3>1. CASE i < Len(uiFast)
      <4>1. i \in 1 .. Len(uiFast) - 1 /\ i + 1 \in 1 .. Len(Queue) /\ 1 < i + 1
        BY <2>2, <3>1
      <4> QED  BY <2>2, <2>4, <4>1
    <3>2. CASE i > Len(uiFast)
      <4>1. i \in Len(uiFast) + 1 .. Len(Queue) /\ i \in 1 .. Len(Queue) /\ 1 < i
        BY <2>2, <3>2
      <4> QED  BY <2>2, <2>4, <4>1
    <3>3. CASE i = Len(uiFast)
      BY <2>2, <2>3, <3>3
    <3> QED  BY <2>2, <3>1, <3>2, <3>3
  <2> QED  BY <2>5 DEF LastCalls
<1>5. ASSUME NEW call \in Calls, UiCall(call), uiFast' = uiFast, main \in {"attach",
"run"},
             nested' = nested, stopping' = stopping, lateRefresh' = lateRefresh
      PROVE  LastCalls'
  <2>1. uiThread' = Append(uiThread, call)
    BY <1>5, RunsAlone DEF UiCall
  <2>2. \A i \in 1 .. Len(Queue) :
          Queue[i] \notin Suspends /\ (Queue[i] = "stop" => lateRefresh')
    BY <1>5, RunsAlone
  <2>3. (lateRefresh => lateRefresh') /\ ~nested' /\ (stopping' => lateRefresh')
    BY <1>5, RunsAlone
  <2>4. uiFast' = uiFast
    BY <1>5
  <2> QED  BY <2>1, <2>2, <2>3, <2>4, LastCallsPut
<1>6. CASE Attached
  <2>1. /\ UiCall("draw") /\ uiFast' = uiFast /\ main = "attach" /\ "draw" \in Calls
        /\ nested' = nested /\ stopping' = stopping /\ lateRefresh' = lateRefresh
    BY <1>6 DEF Attached, uiVars, Calls
  <2> QED  BY <1>5, <2>1
<1>7. CASE SuspendCall
  <2>1. /\ UiCall("suspend") /\ uiFast' = uiFast /\ main = "run" /\ "suspend" \in Calls
        /\ nested' = nested /\ stopping' = stopping /\ lateRefresh' = lateRefresh
    BY <1>7 DEF SuspendCall, uiVars, Calls
  <2> QED  BY <1>5, <2>1
<1>8. CASE StopCall
  <2>1. /\ UiCall("stop") /\ uiFast' = uiFast /\ main = "run" /\ "stop" \in Calls
        /\ nested' = nested /\ stopping' = stopping /\ lateRefresh' = lateRefresh
    BY <1>8 DEF StopCall, uiVars, Calls
  <2> QED  BY <1>5, <2>1
<1>9. ASSUME NEW call \in {"draw", "flush"}, Draw(call)
      PROVE  LastCalls'
  <2>1. /\ UiCall(call) /\ uiFast' = uiFast /\ main = "run" /\ call \in Calls
        /\ nested' = nested /\ stopping' = stopping /\ lateRefresh' = lateRefresh
    BY <1>9 DEF Draw, uiVars, Calls
  <2> QED  BY <1>5, <2>1
<1>10. CASE HandleRefresh
  <2>1. /\ UiCall("draw") /\ uiFast' = uiFast /\ nested' = nested /\ "draw" \in Calls
        /\ stopping' = stopping /\ lateRefresh' = (lateRefresh \/ main = "poll")
        /\ main \in {"poll", "run"}
    BY <1>10 DEF HandleRefresh, Polling, uiVars, Calls
  <2>2. CASE main = "run"
    <3>1. lateRefresh \in BOOLEAN /\ ~lateRefresh
      BY <2>2, RunsAlone, TypedParts DEF IInv, Flags
    <3>2. lateRefresh' = lateRefresh
      BY <2>1, <2>2, <3>1
    <3> QED  BY <1>5, <2>1, <2>2, <3>2
  <2>3. CASE main = "poll"
    <3>1. lateRefresh' /\ ~AwaitsCont
      BY <2>1, <2>3 DEF AwaitsCont, Suspending
    <3>2. ~nested' /\ \A i \in 1 .. Len(Queue) : Queue[i] \notin Suspends
      BY <1>0, <2>1, <3>1 DEF Handshakes, Requests
    <3>3. CASE uiThread' = Append(uiThread, "draw")
      BY <2>1, <3>1, <3>2, <3>3, LastCallsPut
    <3>4. CASE uiThread' = uiThread
      <4>1. Keeps
        BY <1>0, <2>1, <3>4, KeepsAll DEF Queue
      <4> QED  BY <3>1, <3>2, <4>1, LastCallsKept
    <3> QED  BY <2>1, <3>3, <3>4, UiCalls
  <2> QED  BY <2>1, <2>2, <2>3
<1> QED  BY <1>1, <1>2, <1>3, <1>4, <1>6, <1>7, <1>8, <1>9, <1>10, QuietSteps

(***************************************************************************)
(* What is missed.                                                         *)
(***************************************************************************)
LEMMA MissedStep ==
    ASSUME IInv, [Next]_vars
    PROVE  MissedOnlyLate'
<1>0. Typed /\ Handshakes /\ Requests /\ LastCalls /\ MissedOnlyLate
  BY DEF IInv
<1>1. ASSUME NEW call \in Calls, UiCall(call), main \in {"attach", "run"},
             lateRefresh' = lateRefresh
      PROVE  MissedOnlyLate'
  <2>1. missed' = missed
    BY <1>1, RunsAlone DEF UiCall
  <2> QED  BY <1>0, <1>1, <2>1 DEF MissedOnlyLate
<1>2. CASE Attached \/ SuspendCall \/ StopCall \/ \E call \in {"draw", "flush"} : Draw(call)
  <2>1. /\ \E call \in Calls : UiCall(call)
        /\ main \in {"attach", "run"} /\ lateRefresh' = lateRefresh
    BY <1>2 DEF Attached, SuspendCall, StopCall, Draw, Calls
  <2> QED  BY <1>1, <2>1
<1>3. CASE HandleRefresh
  <2>1. CASE main = "run"
    <3>1. UiCall("draw") /\ lateRefresh' = (lateRefresh \/ main = "poll")
      BY <1>3 DEF HandleRefresh
    <3>2. lateRefresh' = FALSE /\ lateRefresh = FALSE
      <4>1. lateRefresh \in BOOLEAN /\ ~lateRefresh
        BY <2>1, RunsAlone, TypedParts DEF IInv, Flags
      <4> QED  BY <2>1, <3>1, <4>1
    <3>3. "draw" \in Calls
      BY DEF Calls
    <3> QED  BY <1>1, <2>1, <3>1, <3>2, <3>3
  <2>2. CASE main = "poll"
    BY <1>3, <2>2 DEF HandleRefresh, MissedOnlyLate
  <2> QED  BY <1>3, <2>1, <2>2 DEF HandleRefresh, Polling
<1>4. ASSUME ~lateRefresh, NEW i \in 1 .. Len(Queue), Queue[i] \in Calls
      PROVE  ~nested /\ ~stopping
  BY <1>0, <1>4 DEF LastCalls
<1>5. ASSUME NEW e \in Calls, Handles(e), ~lateRefresh
      PROVE  terminal
  <2>1. 1 \in 1 .. Len(Queue) /\ Queue[1] = e
    BY <1>0, <1>5, QueueHead
  <2>2. ~nested /\ ~stopping /\ ui = "drain"
    BY <1>4, <1>5, <2>1 DEF Handles
  <2> QED  BY <1>0, <2>2 DEF Handshakes
<1>6. CASE HandleDraw
  <2>1. lateRefresh' = lateRefresh /\ (terminal => missed' = missed)
    BY <1>6 DEF HandleDraw
  <2>2. lateRefresh \/ terminal
    BY <1>5, <1>6 DEF HandleDraw, Calls
  <2> QED  BY <1>0, <2>1, <2>2 DEF MissedOnlyLate
<1>7. CASE HandleFlush
  <2>1. /\ lateRefresh' = lateRefresh
        /\ missed' = missed \cup {"purged"} \/ (terminal => missed' = missed)
    BY <1>7 DEF HandleFlush
  <2>2. lateRefresh \/ terminal
    BY <1>5, <1>7 DEF HandleFlush, Calls
  <2> QED  BY <1>0, <2>1, <2>2 DEF MissedOnlyLate
<1>8. CASE Close
  <2>1. lateRefresh' = lateRefresh /\ (uiThread = << >> => missed' = missed)
    BY <1>8 DEF Close
  <2>2. CASE ~lateRefresh /\ uiThread # << >>
    <3>1. uiThread \in Seq(Calls) /\ Len(uiFast) \in Nat
      <4>1. uiThread \in Seq(Calls) /\ uiFast \in Seq(UiEvents)
        BY <1>0 DEF Typed, TypeOK
      <4> QED  BY <4>1
    <3>2. Len(uiThread) \in Nat \ {0} /\ uiThread[1] \in Calls
      BY <2>2, <3>1
    <3> DEFINE i == Len(uiFast) + 1
    <3>3. /\ i \in 1 .. Len(Queue) /\ ~(i <= Len(uiFast)) /\ i - Len(uiFast) = 1
      BY <1>0, <3>1, <3>2, QueueType
    <3>4. Queue[i] = uiThread[i - Len(uiFast)]
      BY <1>0, <3>3, QueueType
    <3>5. Queue[i] \in Calls
      BY <3>2, <3>3, <3>4
    <3>6. stopping
      BY <1>0, <1>8 DEF Close, Handshakes
    <3> QED  BY <1>4, <2>2, <3>3, <3>5, <3>6
  <2> QED  BY <1>0, <2>1, <2>2 DEF MissedOnlyLate
<1>9. CASE \/ SuspendWait \/ Resume \/ CheckStopped \/ Join \/ EndPoll \/ HandleInput
           \/ Start \/ AsyncCb \/ FlushInput \/ LeavePoll \/ PollAgain \/ EndSuspend
  <2>1. missed' = missed /\ lateRefresh' = lateRefresh
    BY <1>9 DEF SuspendWait, Resume, CheckStopped, Join, EndPoll, HandleInput, Start,
       StartTerminal, AsyncCb, FlushInput, LeavePoll, PollAgain, EndSuspend, history
  <2> QED  BY <1>0, <2>1 DEF MissedOnlyLate
<1>10. CASE \/ HandleSuspend \/ BeginSuspend \/ HandleStop \/ HandleWinch \/ HandleCont
            \/ Stopped \/ ReadInput \/ Type \/ KeyTimeout \/ UNCHANGED vars
            \/ \E s \in {"winch", "cont"} : Signal(s)
  <2>1. missed' = missed /\ lateRefresh' = lateRefresh
    BY <1>10 DEF HandleSuspend, BeginSuspend, StopTerminal, HandleStop, HandleWinch,
       HandleCont, Stopped, ReadInput, Type, KeyTimeout, Keys, Signal, vars, history
  <2> QED  BY <1>0, <2>1 DEF MissedOnlyLate
<1>11. CASE PostponeRefresh \/ HandleDone \/ HandleRestart \/ EndOfInput
  <2>1. missed' = missed /\ lateRefresh' = lateRefresh
    BY <1>11 DEF PostponeRefresh, HandleDone, HandleRestart, EndOfInput, history
  <2> QED  BY <1>0, <2>1 DEF MissedOnlyLate
<1> QED
  BY <1>2, <1>3, <1>6, <1>7, <1>8, <1>9, <1>10, <1>11 DEF Next, MainWaits, MainHandles,
     UiStep

-----------------------------------------------------------------------------
(* The two threads agree on where they are, the queue holds what was asked *)
(* for, and nothing is called after the terminal is left.                  *)
THEOREM BridgeInvariant == Spec => []IInv
<1>1. IInv /\ [Next]_vars => IInv'
  BY TypedStep, HandshakesStep, AskingStep, RequestsStep, LastCallsStep, MissedStep DEF
  IInv
<1> QED  BY <1>1, InitSound, PTL DEF Spec

(* When the editor runs it has its terminal, the bridge is freed after the *)
(* UI thread, and no request for keys is left when their buffer is freed.  *)
THEOREM UsesAreSafe == Spec => []UsedWhileThere
<1>1. IInv => UsedWhileThere
  <2> SUFFICES ASSUME IInv PROVE UsedWhileThere
    OBVIOUS
  <2>1. RunsWithTerminal
    BY RunsAlone DEF IInv, Handshakes, RunsWithTerminal
  <2>2. BridgeOutlivesThread /\ InputEventsOwned
    BY DEF IInv, Handshakes, Asking, BridgeOutlivesThread, InputEventsOwned
  <2> QED  BY <2>1, <2>2 DEF IInv, Typed, UsedWhileThere
<1> QED  BY <1>1, BridgeInvariant, PTL

(* Only a flooded queue, and a refresh that main handles while it waits    *)
(* for the stop, lose a call.                                              *)
THEOREM CallsAreDrawn == Spec => []MissedOnlyLate
<1>1. IInv => MissedOnlyLate
  BY DEF IInv
<1> QED  BY <1>1, BridgeInvariant, PTL

(* The UI thread sends nothing to main once it has told it that it stopped. *)
THEOREM StoppedIsSilent == Spec => SilentWhenStopped
<1>1. ASSUME IInv, [Next]_vars, stopped, stopping
      PROVE  Len(mainEvents') <= Len(mainEvents)
  <2>1. ui \in {"close", "dead"} /\ Len(mainEvents) \in Nat
    <3>1. mainEvents \in Seq({"refresh", "input", "done"})
      BY <1>1 DEF IInv, Typed, TypeOK
    <3> QED  BY <1>1, <3>1 DEF IInv, Handshakes
  <2>2. mainEvents' = mainEvents => Len(mainEvents') <= Len(mainEvents)
    BY <2>1
  <2>3. CASE HandleRefresh \/ HandleInput \/ HandleDone
    <3>1. mainEvents # << >> /\ mainEvents' = Tail(mainEvents)
      BY <2>3 DEF HandleRefresh, HandleInput, HandleDone
    <3>2. mainEvents \in Seq({"refresh", "input", "done"})
      BY <1>1 DEF IInv, Typed, TypeOK
    <3> QED  BY <3>1, <3>2
  <2>4. ~Type /\ ~KeyTimeout /\ ~EndOfInput /\ ~FlushInput /\ ~HandleWinch
    BY <2>1 DEF Type, KeyTimeout, Keys, EndOfInput, Callbacks, FlushInput, HandleWinch,
       Handles
  <2>5. CASE \/ Attached \/ SuspendWait \/ Resume \/ CheckStopped \/ Join \/ EndPoll
             \/ Start \/ AsyncCb \/ LeavePoll \/ PollAgain \/ EndSuspend \/ HandleDraw
    BY <2>2, <2>5 DEF Attached, SuspendWait, Resume, CheckStopped, Join, EndPoll, Start,
       StartTerminal, AsyncCb, LeavePoll, PollAgain, EndSuspend, HandleDraw, mainVars
  <2>6. CASE \/ HandleFlush \/ HandleSuspend \/ BeginSuspend \/ HandleStop \/ HandleCont
             \/ HandleRestart
             \/ Stopped \/ Close \/ SuspendCall \/ StopCall \/ ReadInput
             \/ UNCHANGED vars
    BY <2>2, <2>6 DEF HandleFlush, HandleSuspend, BeginSuspend, StopTerminal, HandleStop,
       HandleCont, HandleRestart, Stopped, Close, SuspendCall, StopCall, ReadInput,
       vars, mainVars
  <2>7. CASE \/ \E call \in {"draw", "flush"} : Draw(call)
             \/ \E s \in {"winch", "cont"} : Signal(s)
    BY <2>2, <2>7 DEF Draw, Signal, mainVars
  <2>8. CASE PostponeRefresh
    <3> DEFINE t == Tail(mainEvents)
    <3>1. mainEvents # << >> /\ mainEvents' = Append(t, "refresh")
      BY <2>8 DEF PostponeRefresh
    <3>2. mainEvents \in Seq({"refresh", "input", "done"})
      BY <1>1 DEF IInv, Typed, TypeOK
    <3>3. t \in Seq({"refresh", "input", "done"}) /\ Len(t) = Len(mainEvents) - 1
      BY <3>1, <3>2
    <3> HIDE DEF t
    <3>4. Len(mainEvents') = Len(t) + 1
      BY <3>1, <3>3
    <3> QED  BY <2>1, <3>3, <3>4
  <2> QED
    BY <1>1, <2>3, <2>4, <2>5, <2>6, <2>7, <2>8 DEF Next, MainWaits, MainHandles, UiStep
<1>2. IInv /\ [Next]_vars
        => [stopped /\ stopping => Len(mainEvents') <= Len(mainEvents)]_vars
  BY <1>1
<1> QED  BY <1>2, BridgeInvariant, PTL DEF Spec, SilentWhenStopped
=============================================================================

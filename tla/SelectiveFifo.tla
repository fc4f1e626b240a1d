--------------------------- MODULE SelectiveFifo ---------------------------
(***************************************************************************)
(* What a hierarchy of multiqueues promises its clients                    *)
(* (nvim/event/multiqueue.c, the file comment): every event is put on one  *)
(* home queue, a home queue may have a parent, and a reader of a queue     *)
(* sees the events of that queue and of its children, oldest first, each   *)
(* of them delivered to exactly one reader.  Nothing is said of links,     *)
(* items or memory: MultiQueue shows how those realise this promise.       *)
(***************************************************************************)
EXTENDS Naturals

CONSTANTS Queues,   \* the queues' addresses
          NoQueue,  \* the parent of a queue that has none
          Stamp     \* arrival numbers of events, positive, which also name them

Nil == 0   \* what a read of an empty queue returns

VARIABLES open,     \* the queues that exist
          above,    \* the parent of each queue
          pending,  \* the events put and not yet read, each with its home
          got       \* the event the last read returned

fifoVars == <<open, above, pending, got>>

Message == [stamp : Stamp, home : Queues]

(* What a reader of q sees. *)
Visible(q) == {m \in pending : m.home = q \/ above[m.home] = q}

FifoTypeOK ==
    /\ open \subseteq Queues
    /\ above \in [Queues -> Queues \cup {NoQueue}]
    /\ pending \subseteq Message
    /\ got \in Stamp \cup {Nil}

FifoInit ==
    /\ open = {}
    /\ above = [q \in Queues |-> NoQueue]
    /\ pending = {}
    /\ got = Nil

Roots == {r \in open : above[r] = NoQueue}

(* A parent has no parent itself. *)
OpenUnder(q, r) ==
    /\ q \notin open
    /\ r \in Roots \cup {NoQueue}
    /\ open' = open \cup {q}
    /\ above' = [above EXCEPT ![q] = r]
    /\ UNCHANGED <<pending, got>>

Put(q, n) ==
    /\ q \in open
    /\ \A m \in pending : m.stamp < n
    /\ pending' = pending \cup {[stamp |-> n, home |-> q]}
    /\ UNCHANGED <<open, above, got>>

(* The oldest event visible from q goes, for every reader. *)
Take(q, m) ==
    /\ q \in open
    /\ m \in Visible(q)
    /\ \A o \in Visible(q) : m.stamp <= o.stamp
    /\ pending' = pending \ {m}
    /\ UNCHANGED <<open, above>>

Read(q) == \E m \in pending : Take(q, m) /\ got' = m.stamp

ReadNothing(q) ==
    /\ q \in open
    /\ Visible(q) = {}
    /\ got' = Nil
    /\ UNCHANGED <<open, above, pending>>

Discard(q) == \E m \in pending : Take(q, m) /\ UNCHANGED got

(* A queue moves to another parent only while it holds nothing. *)
Move(q, r) ==
    /\ q \in open
    /\ r \in Roots
    /\ \A m \in pending : m.home # q
    /\ above' = [above EXCEPT ![q] = r]
    /\ UNCHANGED <<open, pending, got>>

Close(q) ==
    /\ q \in open
    /\ \A c \in open : above[c] # q
    /\ open' = open \ {q}
    /\ above' = [above EXCEPT ![q] = NoQueue]
    /\ pending' = {m \in pending : m.home # q}
    /\ UNCHANGED got

FifoNext ==
    \E q \in Queues :
      \/ \E r \in Queues \cup {NoQueue} : OpenUnder(q, r) \/ Move(q, r)
      \/ \E n \in Stamp : Put(q, n)
      \/ Read(q) \/ ReadNothing(q) \/ Discard(q) \/ Close(q)

FifoSpec == FifoInit /\ [][FifoNext]_fifoVars
=============================================================================

----------------------------- MODULE MultiQueue -----------------------------
(***************************************************************************)
(* The two-level queue of nvim/event/multiqueue.c at the level of its heap *)
(* nodes.  A root queue's list holds items put on the root itself and      *)
(* links, one for each item waiting in a child; an item of a child points  *)
(* back to its link through parent_item.                                   *)
(*                                                                         *)
(* A node's name is its order of allocation.  Both insertions of the code  *)
(* are queue_insert_tail of a node just allocated, so a list is in order   *)
(* of allocation and is represented by the set of its nodes: QUEUE_HEAD is *)
(* the least of them.  Names are not used again, so a pointer that has     *)
(* outlived its node stays visible: it names a node that is in no list     *)
(* (every removal from a list is followed by the node's xfree).  The event *)
(* carried by an item is named after the item.                             *)
(***************************************************************************)
EXTENDS Naturals, FiniteSets

CONSTANTS Queues,     \* addresses xmalloc may return for a multiqueue_st
          NoQueue,    \* NULL, as a queue
          MaxAlloc,   \* bound on the nodes ever allocated
          SizeMod     \* size_t counts modulo SizeMod

ASSUME QueueAssumption ==
    /\ NoQueue \notin Queues
    /\ MaxAlloc \in Nat
    /\ SizeMod \in Nat \ {0}

Node == 1 .. MaxAlloc
Null == 0      \* NULL, as a node
NilEvent == 0  \* nil_event, what multiqueue_get returns of an empty queue

VARIABLES live,        \* queues allocated and not freed
          parent,      \* multiqueue_st.parent
          list,        \* the nodes linked into each queue's headtail
          linked,      \* item->data.queue of a link, NoQueue for an item
          parentItem,  \* item->data.item.parent_item
          size,        \* multiqueue_st.size
          alloc,       \* the last node allocated
          got,         \* the event the last multiqueue_get returned
          adopted      \* history: the live roots that were ever a parent

vars == <<live, parent, list, linked, parentItem, size, alloc, got, adopted>>

IsHead(q, n) == n \in list[q] /\ \A m \in list[q] : n <= m

Empty(q) == list[q] = {}

IsRoot(q) == q \in live /\ parent[q] = NoQueue

(* size++ and size-- of a size_t. *)
Up(n) == IF n = SizeMod - 1 THEN 0 ELSE n + 1
DownSigned(n) == n - 1   \* fault: a counter without a sign is taken for one with
DownForgotten(n) == n    \* fault: the removal does not count
Down(n) == IF n = 0 THEN SizeMod - 1 ELSE n - 1

(* queue_insert_tail() of the node n, allocated last, into q. *)
InsertTail(l, q, n) == [l EXCEPT ![q] = @ \cup {n}]

(* queue_remove() followed by xfree() of every node of S, wherever it is. *)
Unlink(S) == [q \in Queues |-> list[q] \ S]

Init ==
    /\ live = {}
    /\ parent = [q \in Queues |-> NoQueue]
    /\ list = [q \in Queues |-> {}]
    /\ linked = [n \in Node |-> NoQueue]
    /\ parentItem = [n \in Node |-> Null]
    /\ size = [q \in Queues |-> 0]
    /\ alloc = 0
    /\ got = NilEvent
    /\ adopted = {}

(* multiqueue_new: no items, no size.  (A queue not live has an empty list *)
(* and no parent in this model.)                                           *)
NewParent(q) ==
    /\ q \notin live
    /\ live' = live \cup {q}
    /\ size' = [size EXCEPT ![q] = 0]
    /\ UNCHANGED <<parent, list, linked, parentItem, alloc, got, adopted>>

(* The assertion of the code: a parent cannot have a parent. *)
NewChild(q, r) ==
    /\ q \notin live
    /\ IsRoot(r)
    /\ live' = live \cup {q}
    /\ parent' = [parent EXCEPT ![q] = r]
    /\ size' = [size EXCEPT ![r] = Up(@), ![q] = 0]
    /\ adopted' = adopted \cup {r}
    /\ UNCHANGED <<list, linked, parentItem, alloc, got>>

Push(q) ==
    /\ q \in live
    /\ size' = [size EXCEPT ![q] = Up(@)]
    /\ UNCHANGED <<live, parent, got, adopted>>
    /\ \/ /\ parent[q] = NoQueue
          /\ alloc + 1 \in Node
          /\ alloc' = alloc + 1
          /\ list' = InsertTail(list, q, alloc + 1)
          /\ linked' = [linked EXCEPT ![alloc + 1] = NoQueue]
          /\ parentItem' = [parentItem EXCEPT ![alloc + 1] = Null]
       \/ /\ parent[q] # NoQueue
          /\ alloc + 2 \in Node
          /\ alloc' = alloc + 2
          /\ list' = InsertTail(InsertTail(list, q, alloc + 1),
                                parent[q], alloc + 2)
          /\ linked' = [linked EXCEPT ![alloc + 1] = NoQueue, ![alloc + 2] = q]
          /\ parentItem' = [parentItem EXCEPT ![alloc + 1] = alloc + 2]

(* Fault: the link stays in the parent. *)
RemoveItemKeepsLink(q, e) ==
    /\ IsHead(q, e)
    /\ linked[e] = NoQueue
    /\ list' = Unlink({e})

(* The head of q is an item: it goes, with its link if it has one. *)
RemoveItem(q, e) ==
    /\ IsHead(q, e)
    /\ linked[e] = NoQueue
    /\ list' = Unlink({e, parentItem[e]})

(* Fault: the newest item of the linked queue is taken, not the head. *)
RemoveLinkTail(q, e) ==
    \E h \in Node :
      /\ IsHead(q, h)
      /\ linked[h] # NoQueue
      /\ e \in list[linked[h]]
      /\ \A n \in list[linked[h]] : n <= e
      /\ list' = Unlink({h, e})

(* The head of q is a link: it goes with the head of the linked queue, on  *)
(* trust that the two belong together.                                     *)
RemoveLink(q, e) ==
    \E h \in Node :
      /\ IsHead(q, h)
      /\ linked[h] # NoQueue
      /\ IsHead(linked[h], e)
      /\ list' = Unlink({h, e})

(* Takes the event e out of q.  Only the queue that is read is counted     *)
(* down.                                                                   *)
Remove(q, e) ==
    /\ q \in live
    /\ RemoveItem(q, e) \/ RemoveLink(q, e)
    /\ size' = [size EXCEPT ![q] = Down(@)]
    /\ UNCHANGED <<live, parent, linked, parentItem, alloc, adopted>>

(* multiqueue_process_events is a Get for each event: the handlers it runs *)
(* in between may take any step of this module.                            *)
Get(q) == \E e \in Node : Remove(q, e) /\ got' = e

GetNothing(q) ==
    /\ q \in live
    /\ Empty(q)
    /\ got' = NilEvent
    /\ UNCHANGED <<live, parent, list, linked, parentItem, size, alloc, adopted>>

(* One round of the loop of multiqueue_purge_events: the event is lost.    *)
(* The loop goes on until q is empty; that others may step between its     *)
(* rounds here is more than the code allows.                               *)
Purge(q) == \E e \in Node : Remove(q, e) /\ UNCHANGED got

(* Fault: the queue moves with its items (the assertion compiled out). *)
ReplaceParentFull(q, r) ==
    /\ q \in live
    /\ parent[q] # NoQueue
    /\ IsRoot(r)
    /\ r # parent[q]
    /\ parent' = [parent EXCEPT ![q] = r]
    /\ adopted' = adopted \cup {r}
    /\ UNCHANGED <<live, list, linked, parentItem, size, alloc, got>>

(* Every caller passes a queue it created as a child. *)
ReplaceParent(q, r) ==
    /\ q \in live
    /\ parent[q] # NoQueue
    /\ IsRoot(r)
    /\ r # parent[q]
    /\ Empty(q)
    /\ parent' = [parent EXCEPT ![q] = r]
    /\ adopted' = adopted \cup {r}
    /\ UNCHANGED <<live, list, linked, parentItem, size, alloc, got>>

(* A child's items go with their links, a root's nodes alone.  A root must *)
(* not be freed under its children: that is for its owner to see to.       *)
Free(q) ==
    /\ q \in live
    /\ \A c \in live : parent[c] # q
    /\ list' = Unlink(list[q] \cup IF parent[q] = NoQueue
                                   THEN {}
                                   ELSE {parentItem[n] : n \in list[q]})
    /\ live' = live \ {q}
    /\ parent' = [parent EXCEPT ![q] = NoQueue]
    /\ size' = [size EXCEPT ![q] = 0]
    /\ adopted' = adopted \ {q}
    /\ UNCHANGED <<linked, parentItem, alloc, got>>

Next ==
    \E q \in Queues :
      \/ NewParent(q)
      \/ Push(q)
      \/ Get(q)
      \/ GetNothing(q)
      \/ Purge(q)
      \/ Free(q)
      \/ \E r \in Queues : NewChild(q, r) \/ ReplaceParent(q, r)

Spec == Init /\ [][Next]_vars

-----------------------------------------------------------------------------
TypeOK ==
    /\ live \subseteq Queues
    /\ parent \in [Queues -> Queues \cup {NoQueue}]
    /\ list \in [Queues -> SUBSET Node]
    /\ linked \in [Node -> Queues \cup {NoQueue}]
    /\ parentItem \in [Node -> Node \cup {Null}]
    /\ size \in [Queues -> 0 .. SizeMod - 1]
    /\ alloc \in 0 .. MaxAlloc
    /\ got \in Node \cup {NilEvent}
    /\ adopted \subseteq live

Children == {q \in live : parent[q] # NoQueue}

(* An event waiting in a child can be reached from its parent: the item's  *)
(* parent_item is a node of the parent's list that links back to the       *)
(* child, never one that was freed (multiqueueitem_get_event unlinks it    *)
(* without looking).                                                       *)
ItemsAreLinked ==
    \A c \in Children : \A n \in list[c] :
      /\ linked[n] = NoQueue
      /\ parentItem[n] \in list[parent[c]]
      /\ linked[parentItem[n]] = c

(* A link stands for an item: only roots hold links (the assertion of      *)
(* multiqueue_remove), and the linked queue is a live child of that root   *)
(* that holds the item the link was made for.                              *)
LinksAreBacked ==
    \A r \in Queues : \A l \in list[r] :
      linked[l] # NoQueue =>
        /\ IsRoot(r)
        /\ linked[l] \in live
        /\ parent[linked[l]] = r
        /\ \E n \in list[linked[l]] : parentItem[n] = l

(* The links of a child are in the order of its items, and no two items    *)
(* share a link.                                                           *)
SameOrder ==
    \A c \in Children : \A m, n \in list[c] :
      m < n => parentItem[m] < parentItem[n]

(* The lists share no node, a list holds nodes allocated, a freed queue    *)
(* nothing; a parent is a live root, and an item put on a root has no      *)
(* link.                                                                   *)
Ownership ==
    /\ \A p, q \in Queues : p # q => list[p] \cap list[q] = {}
    /\ \A q \in Queues : \A n \in list[q] : n <= alloc
    /\ \A q \in Queues \ live : list[q] = {} /\ parent[q] = NoQueue
    /\ \A c \in Children : IsRoot(parent[c])
    /\ \A r \in live : \A n \in list[r] :
         (IsRoot(r) /\ linked[n] = NoQueue) => parentItem[n] = Null

(* The inductive invariant: what every operation keeps. *)
Structure == ItemsAreLinked /\ LinksAreBacked /\ SameOrder /\ Ownership

IInv == TypeOK /\ Structure

(* What the code relies on when it reads through a link: the first link of *)
(* a child is the parent_item of the child's first item, so the two nodes  *)
(* removed together belong together and no item is left with a dangling    *)
(* parent_item (multiqueueitem_get_event also asserts the child is not     *)
(* empty).                                                                 *)
HeadsAgree ==
    \A r \in live : \A l \in list[r] :
      (linked[l] # NoQueue
         /\ \A k \in list[r] : linked[k] = linked[l] => l <= k)
      => \E n \in list[linked[l]] : IsHead(linked[l], n) /\ parentItem[n] = l

(* multiqueue_size counts the events of a root that never was a parent     *)
(* (thread_events, the one queue whose size is read, by loop_size).  Of a  *)
(* parent or a child it says nothing: new_child counts up the parent, a    *)
(* push only the queue pushed to, a removal only the queue that is read.   *)
FlatSizeIsCount ==
    \A q \in live :
      (IsRoot(q) /\ q \notin adopted) => size[q] = Cardinality(list[q])

(* The links, parent items and lists realise the selective FIFO: every     *)
(* read returns the oldest event the reader may see, once.                 *)
Fifo == INSTANCE SelectiveFifo WITH
          Stamp   <- Node,
          open    <- live,
          above   <- parent,
          pending <- {m \in [stamp : Node, home : Queues] :
                        m.stamp \in list[m.home] /\ linked[m.stamp] = NoQueue}

ImplementsFifo == Fifo!FifoSpec
=============================================================================

-------------------------- MODULE MultiQueueProofs --------------------------
(***************************************************************************)
(* Theorems about the multiqueue, for every set of queues and any number   *)
(* of nodes: its type invariant, the agreement of items and links, and the *)
(* soundness of reading through a link.                                    *)
(***************************************************************************)
EXTENDS MultiQueue, TLAPS, FiniteSetTheorems

USE QueueAssumption

(* Inserting a node into the list of a queue (queue_insert_tail) changes   *)
(* that list alone.                                                        *)
LEMMA InsertTailType ==
    ASSUME NEW l \in [Queues -> SUBSET Node], NEW q \in Queues, NEW n \in Node
    PROVE  /\ InsertTail(l, q, n) \in [Queues -> SUBSET Node]
           /\ InsertTail(l, q, n)[q] = l[q] \cup {n}
           /\ \A p \in Queues \ {q} : InsertTail(l, q, n)[p] = l[p]
BY DEF InsertTail

(* TypeOK holds in every reachable state, whatever the clients call. *)
LEMMA InitTypeOK == Init => TypeOK
BY DEF Init, TypeOK, Node, Null, NilEvent

LEMMA NextTypeOK == TypeOK /\ [Next]_vars => TypeOK'
<1> SUFFICES ASSUME TypeOK, [Next]_vars PROVE TypeOK'
  OBVIOUS
<1> USE DEF TypeOK, Null, NilEvent, Up, Down
<1>1. CASE UNCHANGED vars
  BY <1>1 DEF vars
<1>2. ASSUME NEW q \in Queues, NewParent(q) PROVE TypeOK'
  BY <1>2 DEF NewParent
<1>3. ASSUME NEW q \in Queues, Push(q) PROVE TypeOK'
  <2>1. live' = live /\ parent' = parent /\ got' = got /\ adopted' = adopted
    BY <1>3 DEF Push
  <2>2. size' \in [Queues -> 0 .. SizeMod - 1]
    BY <1>3 DEF Push
  <2>3. CASE parent[q] = NoQueue
    <3>1. alloc + 1 \in Node /\ alloc' = alloc + 1
      BY <1>3, <2>3 DEF Push
    <3>2. list' \in [Queues -> SUBSET Node]
      <4>1. InsertTail(list, q, alloc + 1) \in [Queues -> SUBSET Node]
        BY <3>1, InsertTailType
      <4> QED
        BY <1>3, <2>3, <4>1 DEF Push
    <3>3. linked' \in [Node -> Queues \cup {NoQueue}]
      BY <1>3, <2>3, <3>1 DEF Push
    <3>4. parentItem' \in [Node -> Node \cup {Null}]
      BY <1>3, <2>3, <3>1 DEF Push
    <3> QED
      BY <2>1, <2>2, <3>1, <3>2, <3>3, <3>4 DEF Node
  <2>4. CASE parent[q] # NoQueue
    <3>1. /\ alloc + 1 \in Node
          /\ alloc + 2 \in Node
          /\ alloc' = alloc + 2
          /\ parent[q] \in Queues
      BY <1>3, <2>4 DEF Push, Node
    <3>2. list' \in [Queues -> SUBSET Node]
      <4>1. InsertTail(list, q, alloc + 1) \in [Queues -> SUBSET Node]
        BY <3>1, InsertTailType
      <4>2. InsertTail(InsertTail(list, q, alloc + 1), parent[q], alloc + 2)
              \in [Queues -> SUBSET Node]
        BY <3>1, <4>1, InsertTailType
      <4> QED
        BY <1>3, <2>4, <4>2 DEF Push
    <3>3. linked' \in [Node -> Queues \cup {NoQueue}]
      BY <1>3, <2>4, <3>1 DEF Push
    <3>4. parentItem' \in [Node -> Node \cup {Null}]
      BY <1>3, <2>4, <3>1 DEF Push
    <3> QED
      BY <2>1, <2>2, <3>1, <3>2, <3>3, <3>4 DEF Node
  <2> QED
    BY <2>3, <2>4
<1>4. ASSUME NEW q \in Queues, NEW e \in Node, Remove(q, e),
             got' \in Node \cup {NilEvent}
      PROVE  TypeOK'
  BY <1>4 DEF Remove, RemoveItem, RemoveLink, Unlink
<1>5. ASSUME NEW q \in Queues, GetNothing(q) PROVE TypeOK'
  BY <1>5 DEF GetNothing
<1>6. ASSUME NEW q \in Queues, Free(q) PROVE TypeOK'
  BY <1>6 DEF Free, Unlink
<1>7. ASSUME NEW q \in Queues, NEW r \in Queues, NewChild(q, r) PROVE TypeOK'
  BY <1>7 DEF NewChild, IsRoot
<1>8. ASSUME NEW q \in Queues, NEW r \in Queues, ReplaceParent(q, r)
      PROVE  TypeOK'
  BY <1>8 DEF ReplaceParent, IsRoot
<1> QED
  BY <1>1, <1>2, <1>3, <1>4, <1>5, <1>6, <1>7, <1>8 DEF Next, Get, Purge

(* Every variable keeps its type, for all values of the constants. *)
THEOREM TypeCorrect == Spec => []TypeOK
  BY InitTypeOK, NextTypeOK, PTL DEF Spec

-----------------------------------------------------------------------------
(* Reading through a link is sound: with the links in the order of the     *)
(* items, the first link of a root and the first item of the queue it      *)
(* names belong together.                                                  *)
LEMMA FirstLinkFirstItem ==
    ASSUME IInv, NEW q \in live, NEW h \in list[q], linked[h] # NoQueue,
           \A k \in list[q] : linked[k] = linked[h] => h <= k
    PROVE  \E n \in list[linked[h]] : IsHead(linked[h], n) /\ parentItem[n] = h
<1> DEFINE c == linked[h]
<1>1. /\ q \in Queues /\ h \in Node
      /\ c \in Children
      /\ parent[c] = q
      /\ c \in Queues
  BY DEF IInv, TypeOK, Structure, LinksAreBacked, IsRoot, Children
<1>2. PICK n \in list[c] : parentItem[n] = h
  BY <1>1 DEF IInv, Structure, LinksAreBacked
<1>3. ASSUME NEW m \in list[c], m < n PROVE FALSE
  <2>1. parentItem[m] < parentItem[n]
    BY <1>1, <1>3 DEF IInv, Structure, SameOrder
  <2>2. parentItem[m] \in list[q] /\ linked[parentItem[m]] = c
    BY <1>1, <1>3 DEF IInv, Structure, ItemsAreLinked
  <2>3. parentItem[m] \in Node
    BY <1>1, <2>2 DEF IInv, TypeOK
  <2> QED
    BY <1>1, <1>2, <2>1, <2>2, <2>3 DEF Node
<1>4. list[c] \subseteq Node
  BY <1>1 DEF IInv, TypeOK
<1>5. \A m \in list[c] : n <= m
  BY <1>3, <1>4 DEF Node
<1> QED
  BY <1>2, <1>5 DEF IsHead

(* Whichever queue is read, an item leaves the lists together with its     *)
(* parent_item.                                                            *)
LEMMA RemoveTakesAnItem ==
    ASSUME IInv, NEW q \in Queues, NEW e \in Node, Remove(q, e)
    PROVE  \E c \in live : /\ e \in list[c]
                           /\ linked[e] = NoQueue
                           /\ list' = Unlink({e, parentItem[e]})
<1>1. CASE RemoveItem(q, e)
  BY <1>1 DEF Remove, RemoveItem, IsHead
<1>2. CASE RemoveLink(q, e)
  <2>1. PICK h \in Node : /\ IsHead(q, h)
                          /\ linked[h] # NoQueue
                          /\ IsHead(linked[h], e)
                          /\ list' = Unlink({h, e})
    BY <1>2 DEF RemoveLink
  <2>2. q \in live /\ h \in list[q]
    BY <2>1 DEF Remove, IsHead
  <2>3. \A k \in list[q] : h <= k
    BY <2>1 DEF IsHead
  <2>4. PICK n \in list[linked[h]] : IsHead(linked[h], n) /\ parentItem[n] = h
    BY <2>1, <2>2, <2>3, FirstLinkFirstItem
  <2>5. linked[h] \in Children
    BY <2>1, <2>2 DEF IInv, TypeOK, Structure, LinksAreBacked, IsRoot, Children
  <2>6. n = e
    <3>1. n \in Node /\ n <= e /\ e <= n
      BY <2>1, <2>4, <2>5 DEF IsHead, IInv, TypeOK, Children
    <3> QED
      BY <3>1 DEF Node
  <2>7. {h, e} = {e, parentItem[e]}
    BY <2>4, <2>6
  <2>8. linked[e] = NoQueue
    BY <2>4, <2>5, <2>6 DEF IInv, Structure, ItemsAreLinked
  <2> QED
    BY <2>1, <2>4, <2>5, <2>6, <2>7, <2>8 DEF Children
<1> QED
  BY <1>1, <1>2 DEF Remove

-----------------------------------------------------------------------------
(* Removing a set of nodes that holds, with an item, its link, and with a  *)
(* link, the item it stands for, keeps the structure (multiqueue_remove,   *)
(* multiqueue_free).                                                       *)
LEMMA UnlinkStructure ==
    ASSUME IInv, NEW S, list' = Unlink(S),
           UNCHANGED <<live, parent, linked, parentItem, alloc>>,
           \A c \in Children : \A n \in list[c] :
             n \in S <=> parentItem[n] \in S
    PROVE  Structure'
<1> USE DEF IInv, TypeOK, Structure
<1>1. \A p \in Queues : list'[p] = list[p] \ S
  BY DEF Unlink
<1>2. Children' = Children /\ Children \subseteq Queues
  BY DEF Children
<1>3. ItemsAreLinked'
  <2> SUFFICES ASSUME NEW c \in Children, NEW n \in list'[c]
               PROVE  /\ linked[n] = NoQueue
                      /\ parentItem[n] \in list'[parent[c]]
                      /\ linked[parentItem[n]] = c
    BY <1>2 DEF ItemsAreLinked
  <2>1. n \in list[c] /\ n \notin S /\ parent[c] \in Queues
    BY <1>1, <1>2 DEF Children
  <2> QED
    BY <1>1, <2>1 DEF ItemsAreLinked
<1>4. LinksAreBacked'
  <2> SUFFICES ASSUME NEW r \in Queues, NEW l \in list'[r], linked[l] # NoQueue
               PROVE  /\ IsRoot(r)
                      /\ linked[l] \in live
                      /\ parent[linked[l]] = r
                      /\ \E n \in list'[linked[l]] : parentItem[n] = l
    BY DEF LinksAreBacked, IsRoot
  <2>1. l \in list[r] /\ l \notin S
    BY <1>1
  <2>2. PICK n \in list[linked[l]] : parentItem[n] = l
    BY <2>1 DEF LinksAreBacked
  <2>3. linked[l] \in Children /\ IsRoot(r) /\ parent[linked[l]] = r
    BY <2>1 DEF LinksAreBacked, Children, IsRoot
  <2>4. n \in list'[linked[l]]
    BY <1>1, <1>2, <2>1, <2>2, <2>3
  <2> QED
    BY <2>2, <2>3, <2>4 DEF Children
<1>5. SameOrder'
  BY <1>1, <1>2 DEF SameOrder
<1>6. Ownership'
  BY <1>1, <1>2 DEF Ownership, IsRoot
<1> QED
  BY <1>3, <1>4, <1>5, <1>6

LEMMA RemoveStructure ==
    ASSUME IInv, NEW q \in Queues, NEW e \in Node, Remove(q, e)
    PROVE  Structure'
<1>1. PICK h \in live : /\ e \in list[h]
                       /\ linked[e] = NoQueue
                       /\ list' = Unlink({e, parentItem[e]})
  BY RemoveTakesAnItem
<1>2. ASSUME NEW c \in Children, NEW n \in list[c]
      PROVE  n \in {e, parentItem[e]} <=> parentItem[n] \in {e, parentItem[e]}
  <2> USE DEF IInv, TypeOK, Structure
  <2>1. /\ parentItem[n] \in list[parent[c]]
        /\ linked[parentItem[n]] = c
        /\ linked[n] = NoQueue
        /\ c \in Queues /\ h \in Queues
        /\ n \in Node
    BY DEF ItemsAreLinked, Children
  <2>2. parentItem[n] # e
    BY <1>1, <2>1
  <2>3. CASE h \in Children
    <3>1. /\ parentItem[e] \in list[parent[h]]
          /\ linked[parentItem[e]] = h
      BY <1>1, <2>3 DEF ItemsAreLinked
    <3>2. n # parentItem[e]
      BY <2>1, <2>3, <3>1
    <3>3. ASSUME parentItem[n] = parentItem[e] PROVE n = e
      <4>1. c = h
        BY <2>1, <3>1, <3>3
      <4>2. ~(n < e) /\ ~(e < n)
        <5>1. ASSUME NEW a \in list[h], NEW b \in list[h], a < b
              PROVE  parentItem[a] < parentItem[b]
          BY <2>3, <5>1 DEF SameOrder
        <5>2. parentItem[e] \in Nat
          BY DEF Node, Null
        <5> QED
          BY <1>1, <3>3, <4>1, <5>1, <5>2
      <4> QED
        BY <2>1, <4>2 DEF Node
    <3> QED
      BY <2>2, <3>2, <3>3
  <2>4. CASE h \notin Children
    <3>1. IsRoot(h) /\ parentItem[e] = Null
      BY <1>1, <2>4 DEF Ownership, IsRoot, Children
    <3>2. n # e
      BY <1>1, <2>1, <2>4 DEF Ownership
    <3>3. parentItem[n] \in Node
      <4>1. parent[c] \in Queues
        BY <2>1 DEF Ownership, IsRoot, Children
      <4> QED
        BY <2>1, <4>1
    <3> QED
      BY <2>1, <2>2, <3>1, <3>2, <3>3 DEF Node, Null
  <2> QED
    BY <2>3, <2>4
<1>3. UNCHANGED <<live, parent, linked, parentItem, alloc>>
  BY DEF Remove
<1> QED
  BY <1>1, <1>2, <1>3, UnlinkStructure

(* A queue that comes to be, or moves to another parent while it holds     *)
(* nothing, leaves every list as it is.                                    *)
LEMMA ReparentStructure ==
    ASSUME IInv, NEW q \in Queues, list[q] = {},
           NewParent(q) \/ \E r \in Queues : NewChild(q, r) \/ ReplaceParent(q, r)
    PROVE  Structure'
<1> USE DEF IInv, TypeOK, Structure
<1>1. UNCHANGED <<list, linked, parentItem, alloc>>
  BY DEF NewParent, NewChild, ReplaceParent
<1>2. /\ q \in live' /\ live' = live \cup {q}
      /\ \A p \in Queues \ {q} : parent'[p] = parent[p]
      /\ parent'[q] = NoQueue \/ (parent'[q] \in live /\ parent[parent'[q]] = NoQueue
                                    /\ parent'[q] # q)
      /\ q \in live => parent[q] # NoQueue
  BY DEF NewParent, NewChild, ReplaceParent, Ownership, IsRoot
<1>3. \A p \in Queues \ {q} : p \in Children' <=> p \in Children
  BY <1>2 DEF Children
<1>4. \A p \in Queues : parent[p] # q
  BY <1>2 DEF Ownership, IsRoot, Children
<1>5. ItemsAreLinked'
  BY <1>1, <1>2, <1>3 DEF ItemsAreLinked, Children
<1>6. LinksAreBacked'
  <2> SUFFICES ASSUME NEW r \in Queues, NEW l \in list[r], linked[l] # NoQueue
               PROVE  /\ r \in live' /\ parent'[r] = NoQueue
                      /\ linked[l] \in live'
                      /\ parent'[linked[l]] = r
                      /\ \E n \in list[linked[l]] : parentItem[n] = l
    BY <1>1 DEF LinksAreBacked, IsRoot
  <2>1. /\ IsRoot(r)
        /\ linked[l] \in live
        /\ parent[linked[l]] = r
        /\ \E n \in list[linked[l]] : parentItem[n] = l
    BY DEF LinksAreBacked
  <2> QED
    BY <1>2, <2>1 DEF IsRoot
<1>7. SameOrder'
  BY <1>1, <1>2, <1>3 DEF SameOrder, Children
<1>8. Ownership'
  <2>1. \A p, s \in Queues : p # s => list'[p] \cap list'[s] = {}
    BY <1>1 DEF Ownership
  <2>2. \A p \in Queues : \A n \in list'[p] : n <= alloc'
    BY <1>1 DEF Ownership
  <2>3. \A p \in Queues \ live' : list'[p] = {} /\ parent'[p] = NoQueue
    BY <1>1, <1>2 DEF Ownership
  <2>4. \A c \in Children' : parent'[c] \in live' /\ parent'[parent'[c]] = NoQueue
    <3> SUFFICES ASSUME NEW c \in Children'
                 PROVE  parent'[c] \in live' /\ parent'[parent'[c]] = NoQueue
      OBVIOUS
    <3>1. c \in Queues
      BY <1>2 DEF Children
    <3>2. CASE c = q
      BY <1>2, <3>2 DEF Children
    <3>3. CASE c # q
      BY <1>2, <1>3, <1>4, <3>1, <3>3 DEF Ownership, IsRoot
    <3> QED
      BY <3>2, <3>3
  <2>5. \A r \in live' : \A n \in list'[r] :
          (r \in live' /\ parent'[r] = NoQueue /\ linked'[n] = NoQueue)
             => parentItem'[n] = Null
    BY <1>1, <1>2 DEF Ownership, IsRoot
  <2> QED
    BY <2>1, <2>2, <2>3, <2>4, <2>5 DEF Ownership, IsRoot
<1> QED
  BY <1>5, <1>6, <1>7, <1>8

LEMMA FreeStructure ==
    ASSUME IInv, NEW q \in Queues, Free(q)
    PROVE  Structure'
<1> USE DEF IInv, TypeOK, Structure
<1> DEFINE S == list[q] \cup IF parent[q] = NoQueue
                             THEN {}
                             ELSE {parentItem[n] : n \in list[q]}
<1>1. /\ list' = Unlink(S)
      /\ live' = live \ {q}
      /\ \A p \in Queues \ {q} : parent'[p] = parent[p]
      /\ parent'[q] = NoQueue
      /\ UNCHANGED <<linked, parentItem, alloc>>
      /\ \A c \in live : parent[c] # q
      /\ q \in live
  BY DEF Free
<1>2. \A p \in Queues : list'[p] = list[p] \ S
  BY <1>1 DEF Unlink
<1>3. /\ Children' = Children \ {q}
      /\ Children \subseteq Queues
      /\ list'[q] = {}
  BY <1>1, <1>2 DEF Children
<1>4. ASSUME NEW c \in Children, c # q, NEW n \in list[c]
      PROVE  n \notin S /\ parentItem[n] \notin S
  <2>1. /\ parentItem[n] \in list[parent[c]]
        /\ linked[parentItem[n]] = c
        /\ linked[n] = NoQueue
        /\ c \in Queues /\ parent[c] \in Queues
    BY <1>3 DEF ItemsAreLinked, Ownership, IsRoot
  <2>2. parent[c] # q
    BY <1>1, <1>4 DEF Children
  <2>3. n \notin list[q] /\ parentItem[n] \notin list[q]
    BY <1>4, <2>1, <2>2 DEF Ownership
  <2>4. ASSUME parent[q] # NoQueue, NEW m \in list[q]
        PROVE  parentItem[m] # n /\ parentItem[m] # parentItem[n]
    <3>1. linked[parentItem[m]] = q
      BY <1>1, <2>4 DEF ItemsAreLinked, Children
    <3>2. parentItem[m] \in list[parent[q]] /\ IsRoot(parent[q])
      BY <1>1, <2>4 DEF ItemsAreLinked, Children, Ownership
    <3> QED
      BY <1>4, <2>1, <3>1, <3>2 DEF IsRoot
  <2> QED
    BY <2>3, <2>4
<1> HIDE DEF S
<1>5. ItemsAreLinked'
  <2> SUFFICES ASSUME NEW c \in Children, c # q, NEW n \in list'[c]
               PROVE  /\ linked'[n] = NoQueue
                      /\ parentItem'[n] \in list'[parent'[c]]
                      /\ linked'[parentItem'[n]] = c
    BY <1>3 DEF ItemsAreLinked
  <2>1. /\ c \in Queues /\ n \in list[c]
        /\ parent'[c] = parent[c] /\ parent[c] \in Queues
    BY <1>1, <1>2, <1>3 DEF Ownership, IsRoot
  <2> QED
    BY <1>1, <1>2, <1>4, <2>1 DEF ItemsAreLinked
<1>6. LinksAreBacked'
  <2> SUFFICES ASSUME NEW r \in Queues, NEW l \in list'[r], linked[l] # NoQueue
               PROVE  /\ r \in live' /\ parent'[r] = NoQueue
                      /\ linked[l] \in live'
                      /\ parent'[linked[l]] = r
                      /\ \E n \in list'[linked[l]] : parentItem[n] = l
    BY <1>1 DEF LinksAreBacked, IsRoot
  <2>1. l \in list[r] /\ l \notin S /\ r # q
    BY <1>2, <1>3
  <2>2. /\ IsRoot(r)
        /\ linked[l] \in live /\ linked[l] \in Queues
        /\ parent[linked[l]] = r
    BY <2>1 DEF LinksAreBacked
  <2>3. PICK n \in list[linked[l]] : parentItem[n] = l
    BY <2>1 DEF LinksAreBacked
  <2>4. linked[l] # q
    <3> SUFFICES ASSUME linked[l] = q PROVE FALSE
      OBVIOUS
    <3>1. l \in S
      BY <2>2, <2>3, NoQueue \notin Queues DEF S
    <3> QED
      BY <2>1, <3>1
  <2>5. n \in list'[linked[l]]
    BY <1>2, <1>4, <2>2, <2>3, <2>4 DEF Children
  <2> QED
    BY <1>1, <2>1, <2>2, <2>3, <2>4, <2>5 DEF IsRoot
<1>7. SameOrder'
  BY <1>1, <1>2, <1>3 DEF SameOrder
<1>8. Ownership'
  <2>1. \A c \in Children' : IsRoot(parent[c]) /\ parent[c] # q /\ parent'[c] = parent[c]
    BY <1>1, <1>3 DEF Ownership, Children
  <2>2. \A c \in Children' : IsRoot(parent[c])'
    BY <1>1, <2>1 DEF IsRoot
  <2>3. \A p, s \in Queues : p # s => list'[p] \cap list'[s] = {}
    BY <1>2 DEF Ownership
  <2>4. \A p \in Queues : \A n \in list'[p] : n <= alloc'
    BY <1>1, <1>2 DEF Ownership
  <2>5. \A p \in Queues \ live' : list'[p] = {} /\ parent'[p] = NoQueue
    BY <1>1, <1>2, <1>3 DEF Ownership
  <2>6. \A r \in live' : \A n \in list'[r] :
          (IsRoot(r)' /\ linked'[n] = NoQueue) => parentItem'[n] = Null
    BY <1>1, <1>2 DEF Ownership, IsRoot
  <2> QED
    BY <2>2, <2>3, <2>4, <2>5, <2>6 DEF Ownership
<1> QED
  BY <1>5, <1>6, <1>7, <1>8

(* A push puts fresh nodes at the tails: on a root an item, on a child an  *)
(* item and its link.                                                      *)
LEMMA PushStructure ==
    ASSUME IInv, NEW q \in Queues, Push(q)
    PROVE  Structure'
<1> USE DEF IInv, TypeOK, Structure
<1> DEFINE i == alloc + 1
           l == alloc + 2
<1>0. /\ live' = live /\ parent' = parent /\ q \in live
      /\ Children' = Children /\ Children \subseteq Queues
      /\ i \in Node
      /\ alloc \in Nat
      /\ \A p \in Queues : \A n \in list[p] : n \in Node /\ n < i /\ n # i /\ n # l
  <2>1. alloc \in Nat /\ i \in Node
    BY DEF Push, Node
  <2>2. \A p \in Queues : \A n \in list[p] : n \in Node /\ n <= alloc
    BY DEF Ownership
  <2>3. \A n \in Node : n <= alloc => n < i /\ n # i /\ n # l
    BY <2>1 DEF Node
  <2>4. Children' = Children /\ Children \subseteq Queues
    BY DEF Push, Children
  <2> QED
    BY <2>1, <2>2, <2>3, <2>4 DEF Push
<1>1. CASE parent[q] = NoQueue
  <2>1. /\ alloc' = alloc + 1
        /\ list' = InsertTail(list, q, i)
        /\ linked' = [linked EXCEPT ![i] = NoQueue]
        /\ parentItem' = [parentItem EXCEPT ![i] = Null]
    BY <1>1 DEF Push
  <2>2. /\ list'[q] = list[q] \cup {i}
        /\ \A p \in Queues \ {q} : list'[p] = list[p]
    <3>1. list \in [Queues -> SUBSET Node] /\ i \in Node
      BY <1>0
    <3>2. list' = InsertTail(list, q, i)
      BY <2>1
    <3> HIDE DEF i, TypeOK, IInv
    <3> QED
      BY <3>1, <3>2, InsertTailType
  <2>3. /\ linked'[i] = NoQueue /\ parentItem'[i] = Null
        /\ \A n \in Node \ {i} : linked'[n] = linked[n] /\ parentItem'[n] = parentItem[n]
    BY <1>0, <2>1
  <2> HIDE DEF i, l
  <2>4. q \notin Children
    BY <1>1 DEF Children
  <2>5. ItemsAreLinked'
    <3> SUFFICES ASSUME NEW c \in Children, NEW n \in list'[c]
                 PROVE  /\ linked'[n] = NoQueue
                        /\ parentItem'[n] \in list'[parent[c]]
                        /\ linked'[parentItem'[n]] = c
      BY <1>0 DEF ItemsAreLinked
    <3>1. /\ n \in list[c] /\ parent[c] \in Queues
          /\ linked[n] = NoQueue
          /\ parentItem[n] \in list[parent[c]]
          /\ linked[parentItem[n]] = c
      BY <1>0, <2>2, <2>4 DEF ItemsAreLinked, Ownership, IsRoot
    <3> QED
      BY <1>0, <2>2, <2>3, <3>1
  <2>6. LinksAreBacked'
    <3> SUFFICES ASSUME NEW r \in Queues, NEW k \in list'[r], linked'[k] # NoQueue
                 PROVE  /\ IsRoot(r)
                        /\ linked'[k] \in live
                        /\ parent[linked'[k]] = r
                        /\ \E n \in list'[linked'[k]] : parentItem'[n] = k
      BY <1>0 DEF LinksAreBacked, IsRoot
    <3>1. k \in list[r] /\ linked'[k] = linked[k]
      BY <1>0, <2>2, <2>3
    <3>2. PICK n \in list[linked[k]] : parentItem[n] = k
      BY <3>1 DEF LinksAreBacked
    <3>3. IsRoot(r) /\ linked[k] \in live /\ parent[linked[k]] = r
      BY <3>1 DEF LinksAreBacked
    <3> QED
      BY <1>0, <2>2, <2>3, <3>1, <3>2, <3>3
  <2>7. SameOrder'
    BY <1>0, <2>2, <2>3, <2>4 DEF SameOrder
  <2>8. Ownership'
    <3>1. \A p, s \in Queues : p # s => list'[p] \cap list'[s] = {}
      BY <1>0, <2>2 DEF Ownership
    <3>2. \A p \in Queues : \A n \in list'[p] : n <= alloc'
      <4>1. \A p \in Queues : \A n \in list'[p] : n = i \/ n \in list[p]
        BY <2>2
      <4>2. i <= alloc'
        BY <1>0, <2>1 DEF i
      <4>3. \A p \in Queues : \A n \in list[p] : n <= alloc'
        BY <1>0, <2>1 DEF Ownership, Node
      <4> QED
        BY <4>1, <4>2, <4>3
    <3>3. \A p \in Queues \ live' : list'[p] = {} /\ parent'[p] = NoQueue
      BY <1>0, <2>2 DEF Ownership
    <3>4. \A r \in live' : \A n \in list'[r] :
            (IsRoot(r) /\ linked'[n] = NoQueue) => parentItem'[n] = Null
      BY <1>0, <2>2, <2>3 DEF Ownership
    <3> QED
      BY <1>0, <3>1, <3>2, <3>3, <3>4 DEF Ownership, IsRoot
  <2> QED
    BY <2>5, <2>6, <2>7, <2>8
<1>2. CASE parent[q] # NoQueue
  <2> DEFINE r == parent[q]
  <2>1. /\ alloc' = alloc + 2
        /\ list' = InsertTail(InsertTail(list, q, i), r, l)
        /\ linked' = [linked EXCEPT ![i] = NoQueue, ![l] = q]
        /\ parentItem' = [parentItem EXCEPT ![i] = l]
        /\ l \in Node /\ i \in Node /\ i # l
    BY <1>0, <1>2 DEF Push
  <2>2. q \in Children /\ r \in Queues /\ r # q /\ IsRoot(r) /\ r \notin Children
    BY <1>0, <1>2 DEF Ownership, IsRoot, Children
  <2>3. /\ list'[q] = list[q] \cup {i}
        /\ list'[r] = list[r] \cup {l}
        /\ \A p \in Queues \ {q, r} : list'[p] = list[p]
    <3> DEFINE once == InsertTail(list, q, i)
    <3> HIDE DEF i, l
    <3>1. /\ once \in [Queues -> SUBSET Node]
          /\ once[q] = list[q] \cup {i}
          /\ \A p \in Queues \ {q} : once[p] = list[p]
      BY <2>1, InsertTailType
    <3>2. list' = InsertTail(once, r, l) /\ r \in Queues /\ l \in Node
      BY <2>1, <2>2
    <3> HIDE DEF once, r
    <3>3. /\ list'[r] = once[r] \cup {l}
          /\ \A p \in Queues \ {r} : list'[p] = once[p]
      BY <3>1, <3>2, InsertTailType
    <3> QED
      BY <2>2, <3>1, <3>3
  <2>4. /\ linked'[i] = NoQueue /\ linked'[l] = q
        /\ parentItem'[i] = l
        /\ \A n \in Node \ {i, l} : linked'[n] = linked[n] /\ parentItem'[n] = parentItem[n]
    BY <2>1
  <2>5. \A c \in Children : \A n \in list[c] :
          parentItem[n] \in Node /\ parentItem[n] # i /\ parentItem[n] # l
                                             /\ parentItem[n] < l
    <3> SUFFICES ASSUME NEW c \in Children, NEW n \in list[c]
                 PROVE  /\ parentItem[n] \in Node
                        /\ parentItem[n] # i /\ parentItem[n] # l
                        /\ parentItem[n] < l
      OBVIOUS
    <3>1. parent[c] \in Queues /\ parentItem[n] \in list[parent[c]]
      BY DEF ItemsAreLinked, Ownership, IsRoot
    <3>2. parentItem[n] \in Node /\ parentItem[n] < i /\ parentItem[n] # i /\ parentItem[n] # l
      BY <1>0, <3>1
    <3> QED
      BY <1>0, <3>2 DEF Node
  <2>6. \A n \in Node : n < i => n < l
    BY <1>0 DEF Node
  <2> HIDE DEF i, l
  <2>7. ItemsAreLinked'
    <3> SUFFICES ASSUME NEW c \in Children, NEW n \in list'[c]
                 PROVE  /\ linked'[n] = NoQueue
                        /\ parentItem'[n] \in list'[parent[c]]
                        /\ linked'[parentItem'[n]] = c
      BY <1>0 DEF ItemsAreLinked
    <3>1. CASE n = i
      <4>1. c = q
        BY <1>0, <2>2, <2>3, <3>1
      <4> QED
        BY <2>2, <2>3, <2>4, <3>1, <4>1
    <3>2. CASE n # i
      <4>1. n \in list[c]
        BY <1>0, <2>2, <2>3, <3>2
      <4>2. /\ linked[n] = NoQueue
            /\ parentItem[n] \in list[parent[c]]
            /\ linked[parentItem[n]] = c
            /\ parent[c] \in Queues /\ n \in Node /\ n # i /\ n # l
        BY <1>0, <4>1 DEF ItemsAreLinked, Ownership, IsRoot
      <4>3. list[parent[c]] \subseteq list'[parent[c]]
        BY <2>2, <2>3, <4>2
      <4> QED
        BY <2>4, <2>5, <4>1, <4>2, <4>3
    <3> QED
      BY <3>1, <3>2
  <2>8. LinksAreBacked'
    <3> SUFFICES ASSUME NEW s \in Queues, NEW k \in list'[s], linked'[k] # NoQueue
                 PROVE  /\ IsRoot(s)
                        /\ linked'[k] \in live
                        /\ parent[linked'[k]] = s
                        /\ \E n \in list'[linked'[k]] : parentItem'[n] = k
      BY <1>0 DEF LinksAreBacked, IsRoot
    <3>1. CASE k = l
      <4>1. s = r
        BY <1>0, <2>1, <2>2, <2>3, <3>1
      <4> QED
        BY <1>0, <2>2, <2>3, <2>4, <3>1, <4>1
    <3>2. CASE k # l
      <4>1. k \in list[s] /\ linked'[k] = linked[k]
        BY <1>0, <2>2, <2>3, <2>4, <3>2
      <4>2. PICK n \in list[linked[k]] : parentItem[n] = k
        BY <4>1 DEF LinksAreBacked
      <4>3. IsRoot(s) /\ linked[k] \in live /\ parent[linked[k]] = s
        BY <4>1 DEF LinksAreBacked
      <4>4. n \in list'[linked[k]] /\ parentItem'[n] = parentItem[n]
        BY <1>0, <2>2, <2>3, <2>4, <4>2, <4>3
      <4> QED
        BY <4>1, <4>2, <4>3, <4>4
    <3> QED
      BY <3>1, <3>2
  <2>9. SameOrder'
    <3> SUFFICES ASSUME NEW c \in Children, NEW m \in list'[c], NEW n \in list'[c], m < n
                 PROVE  parentItem'[m] < parentItem'[n]
      BY <1>0 DEF SameOrder
    <3>1. c \in Queues /\ (c # q => list'[c] = list[c])
      BY <1>0, <2>2, <2>3
    <3>2. CASE n \in list[c] /\ m \in list[c]
      BY <1>0, <2>4, <3>1, <3>2 DEF SameOrder
    <3>3. CASE n \notin list[c] /\ m \in list[c]
      BY <1>0, <2>3, <2>4, <2>5, <3>1, <3>3
    <3>4. CASE m \notin list[c]
      <4>1. m = i /\ c = q
        BY <2>3, <3>1, <3>4
      <4>2. n \in list[c]
        BY <2>1, <2>3, <4>1 DEF Node
      <4>3. n < i /\ n \in Node /\ i \in Node
        BY <1>0, <3>1, <4>2
      <4> QED
        BY <4>1, <4>3 DEF Node
    <3> QED
      BY <3>2, <3>3, <3>4
  <2>10. Ownership'
    <3>1. \A p, s \in Queues : p # s => list'[p] \cap list'[s] = {}
      <4>1. \A p \in Queues : (i \in list'[p] => p = q) /\ (l \in list'[p] => p = r)
        BY <1>0, <2>1, <2>2, <2>3
      <4>2. \A p \in Queues : \A n \in list'[p] : n \in list[p] \/ n = i \/ n = l
        BY <2>2, <2>3
      <4> SUFFICES ASSUME NEW p \in Queues, NEW s \in Queues, p # s,
                          NEW n \in list'[p], n \in list'[s]
                   PROVE  FALSE
        OBVIOUS
      <4>5. n # i /\ n # l
        BY <4>1
      <4>6. n \in list[p] /\ n \in list[s]
        BY <4>2, <4>5
      <4>7. list[p] \cap list[s] = {}
        BY DEF Ownership
      <4> QED
        BY <4>6, <4>7
    <3>2. \A p \in Queues : \A n \in list'[p] : n <= alloc'
      <4>1. \A p \in Queues : \A n \in list'[p] : n = i \/ n = l \/ n \in list[p]
        BY <2>2, <2>3
      <4>2. i <= alloc' /\ l <= alloc'
        BY <1>0, <2>1 DEF i, l
      <4>3. \A p \in Queues : \A n \in list[p] : n <= alloc'
        BY <1>0, <2>1 DEF Ownership, Node
      <4> QED
        BY <4>1, <4>2, <4>3
    <3>3. \A p \in Queues \ live' : list'[p] = {} /\ parent'[p] = NoQueue
      BY <1>0, <2>2, <2>3 DEF Ownership, IsRoot
    <3>4. \A s \in live' : \A n \in list'[s] :
            (IsRoot(s) /\ linked'[n] = NoQueue) => parentItem'[n] = Null
      <4> SUFFICES ASSUME NEW s \in live, NEW n \in list'[s],
                          IsRoot(s), linked'[n] = NoQueue
                   PROVE  parentItem'[n] = Null
        BY <1>0
      <4>1. s \in Queues /\ s # q
        BY <1>2 DEF IsRoot
      <4>2. n # l
        BY <2>2, <2>4, NoQueue \notin Queues
      <4>3. n \in list[s]
        BY <2>2, <2>3, <4>1, <4>2
      <4> QED
        BY <1>0, <2>4, <4>1, <4>3 DEF Ownership
    <3> QED
      BY <1>0, <3>1, <3>2, <3>3, <3>4 DEF Ownership, IsRoot
  <2> QED
    BY <2>7, <2>8, <2>9, <2>10
<1> QED
  BY <1>1, <1>2

-----------------------------------------------------------------------------
LEMMA InitIInv == Init => IInv
<1> SUFFICES ASSUME Init PROVE IInv
  OBVIOUS
<1>1. TypeOK
  BY InitTypeOK
<1>2. Structure
  BY DEF Init, Structure, ItemsAreLinked, LinksAreBacked, SameOrder, Ownership,
         Children, IsRoot
<1> QED
  BY <1>1, <1>2 DEF IInv

LEMMA NextIInv == IInv /\ [Next]_vars => IInv'
<1> SUFFICES ASSUME IInv, [Next]_vars PROVE IInv'
  OBVIOUS
<1>1. TypeOK'
  BY NextTypeOK DEF IInv
<1>2. CASE UNCHANGED vars
  BY <1>1, <1>2 DEF vars, IInv, Structure, ItemsAreLinked, LinksAreBacked,
                    SameOrder, Ownership, Children, IsRoot
<1>3. ASSUME NEW q \in Queues, NewParent(q) PROVE Structure'
  <2>1. list[q] = {}
    BY <1>3 DEF NewParent, IInv, Structure, Ownership
  <2> QED
    BY <1>3, <2>1, ReparentStructure
<1>4. ASSUME NEW q \in Queues, NEW r \in Queues, NewChild(q, r) PROVE Structure'
  <2>1. list[q] = {}
    BY <1>4 DEF NewChild, IInv, Structure, Ownership
  <2> QED
    BY <1>4, <2>1, ReparentStructure
<1>5. ASSUME NEW q \in Queues, NEW r \in Queues, ReplaceParent(q, r) PROVE Structure'
  <2>1. list[q] = {}
    BY <1>5 DEF ReplaceParent, Empty
  <2> QED
    BY <1>5, <2>1, ReparentStructure
<1>6. ASSUME NEW q \in Queues, Push(q) PROVE Structure'
  BY <1>6, PushStructure
<1>7. ASSUME NEW q \in Queues, Get(q) \/ Purge(q) PROVE Structure'
  BY <1>7, RemoveStructure DEF Get, Purge
<1>8. ASSUME NEW q \in Queues, GetNothing(q) PROVE Structure'
  <2>1. UNCHANGED <<live, parent, list, linked, parentItem, alloc>>
    BY <1>8 DEF GetNothing
  <2> QED
    BY <2>1 DEF IInv, Structure, ItemsAreLinked, LinksAreBacked, SameOrder,
                Ownership, Children, IsRoot
<1>9. ASSUME NEW q \in Queues, Free(q) PROVE Structure'
  BY <1>9, FreeStructure
<1> QED
  BY <1>1, <1>2, <1>3, <1>4, <1>5, <1>6, <1>7, <1>8, <1>9 DEF Next, IInv

(* Items and links agree in every reachable state, for every number of     *)
(* queues and nodes.                                                       *)
THEOREM InductiveInvariant == Spec => []IInv
  BY InitIInv, NextIInv, PTL DEF Spec

(* Items and links stay paired, in the same order: no item is left without *)
(* its link, no link without its item, and no parent_item dangles.         *)
THEOREM StructureKept == Spec => []Structure
<1>1. IInv => Structure
  BY DEF IInv
<1> QED
  BY <1>1, InductiveInvariant, PTL

(* A read through a link always takes the item the link was made for.      *)
THEOREM ReadThroughLink == Spec => []HeadsAgree
<1>1. IInv => HeadsAgree
  <2> SUFFICES ASSUME IInv, NEW r \in live, NEW l \in list[r], linked[l] # NoQueue,
                      \A k \in list[r] : linked[k] = linked[l] => l <= k
               PROVE  \E n \in list[linked[l]] :
                        IsHead(linked[l], n) /\ parentItem[n] = l
    BY DEF HeadsAgree
  <2> QED
    BY FirstLinkFirstItem
<1> QED
  BY <1>1, InductiveInvariant, PTL

-----------------------------------------------------------------------------
(* The size of a root that is nobody's parent.  The lists that change in a *)
(* step are those of the queue at hand and of parents, so the induction    *)
(* needs to know that a parent counts as adopted.                          *)
SizeInv == IInv /\ FlatSizeIsCount /\ \A c \in Children : parent[c] \in adopted

LEMMA ListsAreFinite ==
    ASSUME TypeOK, NEW q \in Queues
    PROVE  IsFiniteSet(list[q]) /\ Cardinality(list[q]) \in 0 .. MaxAlloc
<1>1. IsFiniteSet(Node) /\ Cardinality(Node) = MaxAlloc
  BY FS_Interval DEF Node
<1>2. list[q] \subseteq Node
  BY DEF TypeOK
<1> QED
  BY <1>1, <1>2, FS_Subset, FS_CardinalityType

(* A flat root: a root that was never a parent; it holds items only.       *)
Flat(q) == q \in live /\ IsRoot(q) /\ q \notin adopted

LEMMA FlatHoldsItems ==
    ASSUME SizeInv, NEW q \in Queues, Flat(q), NEW n \in list[q]
    PROVE  linked[n] = NoQueue /\ parentItem[n] = Null
BY DEF SizeInv, IInv, Structure, LinksAreBacked, Ownership, Flat, Children, IsRoot,
       TypeOK

(* Nothing that leaves another queue takes a node of a flat root along.    *)
LEMMA FlatIsLeftAlone ==
    ASSUME SizeInv, NEW f \in Queues, Flat(f), NEW c \in Queues, c \in live, c # f,
           NEW n \in list[c], linked[n] = NoQueue
    PROVE  n \notin list[f] /\ parentItem[n] \notin list[f]
<1> USE DEF SizeInv, IInv, Structure, TypeOK
<1>1. n \notin list[f]
  BY DEF Ownership
<1>2. CASE c \in Children
  BY <1>2 DEF ItemsAreLinked, Ownership, Flat, IsRoot
<1>3. CASE c \notin Children
  BY <1>3 DEF Ownership, IsRoot, Children, Node, Null
<1> QED
  BY <1>1, <1>2, <1>3

(* Every case of a step: a flat root after it was one before, or is new    *)
(* and empty; its list and its size change together or not at all.         *)
LEMMA NextSizeInv ==
    ASSUME MaxAlloc < SizeMod
    PROVE  SizeInv /\ [Next]_vars => SizeInv'
<1> SUFFICES ASSUME SizeInv, [Next]_vars PROVE SizeInv'
  OBVIOUS
<1> USE DEF SizeInv
<1>1. IInv'
  BY NextIInv
<1> DEFINE Goal == /\ \A c \in Children' : parent'[c] \in adopted'
                   /\ \A f \in Queues : Flat(f)' => size'[f] = Cardinality(list'[f])
<1>3. CASE UNCHANGED vars
  BY <1>1, <1>3 DEF vars, Children, FlatSizeIsCount, IsRoot
<1>4. ASSUME NEW q \in Queues, Get(q) \/ Purge(q) PROVE Goal
  <2>1. PICK e \in Node : Remove(q, e)
    BY <1>4 DEF Get, Purge
  <2>2. PICK c \in live : /\ e \in list[c]
                         /\ linked[e] = NoQueue
                         /\ list' = Unlink({e, parentItem[e]})
    BY <2>1, RemoveTakesAnItem
  <2>3. UNCHANGED <<live, parent, adopted>> /\ q \in live
        /\ size' = [size EXCEPT ![q] = Down(@)]
    BY <2>1 DEF Remove
  <2>4. \A c2 \in Children' : parent'[c2] \in adopted'
    BY <2>3 DEF Children
  <2>5. ASSUME NEW f \in Queues, Flat(f) PROVE size'[f] = Cardinality(list'[f])
    <3>1. list'[f] = list[f] \ {e, parentItem[e]}
      BY <2>2 DEF Unlink
    <3>2. size[f] = Cardinality(list[f])
      BY <2>5 DEF FlatSizeIsCount, Flat
    <3>3. CASE f = q
      <4>1. e \in list[f]
        <5>1. CASE RemoveItem(q, e)
          BY <3>3, <5>1 DEF RemoveItem, IsHead
        <5>2. CASE RemoveLink(q, e)
          BY <2>5, <3>3, <5>2, FlatHoldsItems DEF RemoveLink, IsHead
        <5> QED
          BY <2>1, <5>1, <5>2 DEF Remove
      <4>2. parentItem[e] = Null
        BY <2>5, <4>1, FlatHoldsItems
      <4>3. Null \notin list[f]
        BY DEF IInv, TypeOK, Node, Null
      <4>4. list'[f] = list[f] \ {e}
        BY <3>1, <4>2, <4>3
      <4>5. IsFiniteSet(list[f]) /\ Cardinality(list[f]) \in 0 .. MaxAlloc
        BY ListsAreFinite DEF IInv
      <4>6. Cardinality(list'[f]) = Cardinality(list[f]) - 1
        <5>1. Cardinality(list[f] \ {e}) = Cardinality(list[f]) - 1
          BY <4>1, <4>5, FS_RemoveElement
        <5> QED
          BY <4>4, <5>1
      <4>7. Cardinality(list[f]) # 0
        BY <4>1, <4>5, FS_EmptySet
      <4>8. size'[f] = Down(size[f])
        BY <2>3, <3>3 DEF IInv, TypeOK
      <4> QED
        BY <3>2, <4>5, <4>6, <4>7, <4>8 DEF Down
    <3>4. CASE f # q
      <4>1. c # f
        <5>1. CASE RemoveItem(q, e)
          BY <2>2, <3>4, <5>1 DEF RemoveItem, IsHead, IInv, TypeOK, Structure, Ownership
        <5>2. CASE RemoveLink(q, e)
          <6>1. PICK h \in Node : /\ IsHead(q, h) /\ linked[h] # NoQueue
                                  /\ IsHead(linked[h], e)
            BY <5>2 DEF RemoveLink
          <6>2. linked[h] \in live /\ parent[linked[h]] = q /\ e \in list[linked[h]]
            BY <6>1 DEF IsHead, IInv, TypeOK, Structure, LinksAreBacked
          <6>3. linked[h] # f
            BY <2>5, <6>2 DEF Flat, IsRoot
          <6> QED
            BY <2>2, <6>2, <6>3 DEF IInv, TypeOK, Structure, Ownership
        <5> QED
          BY <2>1, <5>1, <5>2 DEF Remove
      <4>2. e \notin list[f] /\ parentItem[e] \notin list[f]
        BY <2>2, <2>5, <4>1, FlatIsLeftAlone DEF IInv, TypeOK
      <4>3. list'[f] = list[f] /\ size'[f] = size[f]
        BY <2>3, <3>1, <3>4, <4>2 DEF IInv, TypeOK
      <4> QED
        BY <3>2, <4>3
    <3> QED
      BY <3>3, <3>4
  <2>6. \A f \in Queues : Flat(f)' => Flat(f)
    BY <2>3 DEF Flat, IsRoot
  <2> QED
    BY <2>4, <2>5, <2>6
<1>5. ASSUME NEW q \in Queues, GetNothing(q) PROVE Goal
  BY <1>5 DEF GetNothing, Flat, IsRoot, Children, FlatSizeIsCount
<1>6. ASSUME NEW q \in Queues, Push(q) PROVE Goal
  <2>1. UNCHANGED <<live, parent, adopted>> /\ q \in live
        /\ size' = [size EXCEPT ![q] = Up(@)]
    BY <1>6 DEF Push
  <2>2. \A c \in Children' : parent'[c] \in adopted'
    BY <2>1 DEF Children
  <2>3. ASSUME NEW f \in Queues, Flat(f) PROVE size'[f] = Cardinality(list'[f])
    <3>1. size[f] = Cardinality(list[f])
      BY <2>3 DEF FlatSizeIsCount, Flat
    <3>2. CASE f = q
      <4>1. /\ parent[q] = NoQueue
            /\ list' = InsertTail(list, q, alloc + 1)
            /\ alloc + 1 \in Node
        BY <1>6, <2>3, <3>2 DEF Push, Flat, IsRoot
      <4>2. list'[q] = list[q] \cup {alloc + 1}
        <5>1. list \in [Queues -> SUBSET Node]
          BY DEF IInv, TypeOK
        <5> QED
          BY <4>1, <5>1, InsertTailType
      <4>3. alloc + 1 \notin list[q]
        BY DEF IInv, TypeOK, Structure, Ownership
      <4>4. IsFiniteSet(list[q]) /\ Cardinality(list[q]) \in 0 .. MaxAlloc
        BY ListsAreFinite DEF IInv
      <4>5. Cardinality(list'[q]) = Cardinality(list[q]) + 1
        BY <4>2, <4>3, <4>4, FS_AddElement
      <4>6. Cardinality(list'[q]) \in 0 .. MaxAlloc
        <5>1. TypeOK'
          BY <1>1 DEF IInv
        <5>2. IsFiniteSet(Node) /\ Cardinality(Node) = MaxAlloc
          BY FS_Interval DEF Node
        <5>3. list'[q] \subseteq Node
          BY <5>1 DEF TypeOK
        <5> QED
          BY <5>2, <5>3, FS_Subset, FS_CardinalityType
      <4>7. size'[q] = Up(size[q])
        BY <2>1 DEF IInv, TypeOK
      <4> QED
        BY <3>1, <3>2, <4>4, <4>5, <4>6, <4>7 DEF Up
    <3>3. CASE f # q
      <4>1. size'[f] = size[f]
        BY <2>1, <3>3 DEF IInv, TypeOK
      <4>2. CASE parent[q] = NoQueue
        <5>1. list' = InsertTail(list, q, alloc + 1) /\ alloc + 1 \in Node
          BY <1>6, <4>2 DEF Push
        <5>2. list'[f] = list[f]
          BY <3>3, <5>1, InsertTailType DEF IInv, TypeOK
        <5> QED
          BY <3>1, <4>1, <5>2
      <4>3. CASE parent[q] # NoQueue
        <5>1. /\ list' = InsertTail(InsertTail(list, q, alloc + 1), parent[q], alloc + 2)
              /\ alloc + 1 \in Node /\ alloc + 2 \in Node
          BY <1>6, <4>3 DEF Push, Node, IInv, TypeOK
        <5>2. parent[q] # f /\ parent[q] \in Queues
          BY <2>1, <2>3, <4>3 DEF Flat, Children, IInv, TypeOK
        <5>3. /\ InsertTail(list, q, alloc + 1) \in [Queues -> SUBSET Node]
              /\ InsertTail(list, q, alloc + 1)[f] = list[f]
          BY <3>3, <5>1, InsertTailType DEF IInv, TypeOK
        <5>4. list'[f] = list[f]
          BY <5>1, <5>2, <5>3, InsertTailType
        <5> QED
          BY <3>1, <4>1, <5>4
      <4> QED
        BY <4>2, <4>3
    <3> QED
      BY <3>2, <3>3
  <2>4. \A f \in Queues : Flat(f)' => Flat(f)
    BY <2>1 DEF Flat, IsRoot
  <2> QED
    BY <2>2, <2>3, <2>4
<1>7. ASSUME NEW q \in Queues, Free(q) PROVE Goal
  <2>1. /\ live' = live \ {q} /\ adopted' = adopted \ {q} /\ q \in live
        /\ \A p \in Queues \ {q} : parent'[p] = parent[p] /\ size'[p] = size[p]
        /\ \A c \in live : parent[c] # q
    BY <1>7 DEF Free, IInv, TypeOK
  <2>2. \A c \in Children' : parent'[c] \in adopted'
    BY <2>1 DEF Children, IInv, TypeOK
  <2>3. ASSUME NEW f \in Queues, Flat(f)' PROVE size'[f] = Cardinality(list'[f])
    <3>1. f # q /\ Flat(f)
      BY <2>1, <2>3 DEF Flat, IsRoot
    <3>2. size'[f] = size[f] /\ size[f] = Cardinality(list[f])
      BY <2>1, <3>1 DEF FlatSizeIsCount, Flat
    <3>3. ASSUME NEW n \in list[q]
          PROVE  n \notin list[f] /\ (parent[q] # NoQueue => parentItem[n] \notin list[f])
      <4>1. n \notin list[f]
        BY <3>1 DEF IInv, Structure, Ownership
      <4>2. ASSUME parent[q] # NoQueue PROVE linked[n] = NoQueue
        BY <2>1, <4>2 DEF IInv, Structure, ItemsAreLinked, Children
      <4> QED
        BY <2>1, <3>1, <4>1, <4>2, FlatIsLeftAlone
    <3>4. list'[f] = list[f]
      BY <1>7, <3>3 DEF Free, Unlink
    <3> QED
      BY <3>2, <3>4
  <2> QED
    BY <2>2, <2>3
<1>8. ASSUME NEW q \in Queues, NewParent(q) PROVE Goal
  <2>1. /\ live' = live \cup {q} /\ q \notin live
        /\ UNCHANGED <<parent, list, adopted>>
        /\ size' = [size EXCEPT ![q] = 0]
    BY <1>8 DEF NewParent
  <2>2. list[q] = {} /\ parent[q] = NoQueue
    BY <2>1 DEF IInv, Structure, Ownership
  <2>3. Children' = Children
    BY <2>1, <2>2 DEF Children
  <2>4. ASSUME NEW f \in Queues, Flat(f)' PROVE size'[f] = Cardinality(list'[f])
    <3>1. CASE f = q
      BY <2>1, <2>2, <3>1, FS_EmptySet DEF IInv, TypeOK
    <3>2. CASE f # q
      BY <2>1, <2>4, <3>2 DEF Flat, IsRoot, FlatSizeIsCount, IInv, TypeOK
    <3> QED
      BY <3>1, <3>2
  <2> QED
    BY <2>1, <2>3, <2>4
<1>9. ASSUME NEW q \in Queues, NEW r \in Queues, NewChild(q, r) PROVE Goal
  <2>1. /\ live' = live \cup {q} /\ q \notin live /\ r \in live
        /\ UNCHANGED list
        /\ parent' = [parent EXCEPT ![q] = r]
        /\ adopted' = adopted \cup {r}
        /\ \A p \in Queues \ {q, r} : size'[p] = size[p]
    BY <1>9 DEF NewChild, IsRoot, IInv, TypeOK
  <2>2. \A c \in Children' : parent'[c] \in adopted'
    BY <2>1 DEF Children, IInv, TypeOK
  <2>3. ASSUME NEW f \in Queues, Flat(f)' PROVE size'[f] = Cardinality(list'[f])
    <3>1. f # q /\ f # r /\ Flat(f)
      BY <2>1, <2>3 DEF Flat, IsRoot, IInv, TypeOK
    <3> QED
      BY <2>1, <3>1 DEF Flat, FlatSizeIsCount
  <2> QED
    BY <2>2, <2>3
<1>10. ASSUME NEW q \in Queues, NEW r \in Queues, ReplaceParent(q, r) PROVE Goal
  <2>1. /\ q \in live /\ r \in live
        /\ UNCHANGED <<live, list, size>>
        /\ parent' = [parent EXCEPT ![q] = r]
        /\ adopted' = adopted \cup {r}
    BY <1>10 DEF ReplaceParent, IsRoot
  <2>2. \A c \in Children' : parent'[c] \in adopted'
    BY <2>1 DEF Children, IInv, TypeOK
  <2>3. ASSUME NEW f \in Queues, Flat(f)' PROVE size'[f] = Cardinality(list'[f])
    <3>1. f # q /\ Flat(f)
      BY <2>1, <2>3 DEF Flat, IsRoot, IInv, TypeOK
    <3> QED
      BY <2>1, <3>1 DEF Flat, FlatSizeIsCount
  <2> QED
    BY <2>2, <2>3
<1>11. CASE Next
  <2>1. Goal
    BY <1>4, <1>5, <1>6, <1>7, <1>8, <1>9, <1>10, <1>11 DEF Next
  <2>2. FlatSizeIsCount'
    <3>1. ASSUME NEW f \in live', IsRoot(f)', f \notin adopted'
          PROVE  size'[f] = Cardinality(list'[f])
      BY <1>1, <2>1, <3>1 DEF Flat, IInv, TypeOK
    <3> QED
      BY <3>1 DEF FlatSizeIsCount
  <2> QED
    BY <1>1, <2>1, <2>2
<1> QED
  BY <1>3, <1>11

(* multiqueue_size counts the events of thread_events exactly, as long as  *)
(* memory holds fewer nodes than size_t counts.                            *)
THEOREM FlatRootSize ==
    ASSUME MaxAlloc < SizeMod
    PROVE  Spec => []FlatSizeIsCount
<1>1. Init => SizeInv
  <2> SUFFICES ASSUME Init PROVE SizeInv
    OBVIOUS
  <2>1. IInv
    BY InitIInv
  <2> QED
    BY <2>1 DEF Init, SizeInv, FlatSizeIsCount, Children
<1>2. SizeInv /\ [Next]_vars => SizeInv'
  BY NextSizeInv
<1>3. SizeInv => FlatSizeIsCount
  BY DEF SizeInv
<1> QED
  BY <1>1, <1>2, <1>3, PTL DEF Spec
-----------------------------------------------------------------------------
(* The multiqueue implements SelectiveFifo: a read returns the oldest      *)
(* event that the reader may see.  A root compares its own items with the  *)
(* links of its children, so this needs that a link is as old as the item  *)
(* it stands for: multiqueue_push makes one after the other.               *)
Adjacent == \A c \in Children : \A n \in list[c] : parentItem[n] = n + 1

FifoInv == IInv /\ Adjacent

(* A queue that is new, or moved, has nothing to be adjacent. *)
LEMMA ReparentAdjacent ==
    ASSUME FifoInv, NEW q \in Queues, list[q] = {},
           NewParent(q) \/ \E r \in Queues : NewChild(q, r) \/ ReplaceParent(q, r)
    PROVE  Adjacent'
<1>1. /\ UNCHANGED <<list, parentItem>> /\ live' \subseteq live \cup {q}
      /\ \A p \in Queues \ {q} : parent'[p] = parent[p]
  BY DEF NewParent, NewChild, ReplaceParent, FifoInv, IInv, TypeOK
<1>2. ASSUME NEW c \in Children', NEW n \in list'[c] PROVE parentItem'[n] = n + 1
  <2>1. c \in Queues /\ c # q /\ n \in list[c]
    BY <1>1, <1>2 DEF Children, FifoInv, IInv, TypeOK
  <2>2. c \in Children
    BY <1>1, <2>1 DEF Children
  <2> QED  BY <1>1, <2>1, <2>2 DEF FifoInv, Adjacent
<1> QED  BY <1>2 DEF Adjacent

LEMMA UnlinkAdjacent ==
    ASSUME FifoInv, NEW S, list' = Unlink(S), live' \subseteq live, parentItem' = parentItem,
           \A p \in live' : parent'[p] = parent[p]
    PROVE  Adjacent'
<1>1. ASSUME NEW c \in Children', NEW n \in list'[c] PROVE parentItem'[n] = n + 1
  <2>1. c \in Children /\ n \in list[c]
    BY <1>1 DEF Children, Unlink, FifoInv, IInv, TypeOK
  <2> QED  BY <2>1 DEF FifoInv, Adjacent
<1> QED  BY <1>1 DEF Adjacent

LEMMA PushAdjacent ==
    ASSUME FifoInv, NEW q \in Queues, Push(q)
    PROVE  Adjacent'
<1>1. /\ Children' = Children /\ Children \subseteq Queues /\ alloc + 1 \in Node
      /\ \A p \in Queues : \A n \in list[p] : n \in Node /\ n # alloc + 1
  <2>1. Children' = Children /\ Children \subseteq Queues
    BY DEF Push, Children, FifoInv, IInv, TypeOK
  <2>2. alloc \in Nat /\ alloc + 1 \in Node
    BY DEF Push, Node, FifoInv, IInv, TypeOK
  <2>3. \A p \in Queues : \A n \in list[p] : n \in Node /\ n <= alloc
    BY DEF FifoInv, IInv, TypeOK, Structure, Ownership
  <2> QED  BY <2>1, <2>2, <2>3 DEF Node
<1>2. CASE parent[q] = NoQueue
  <2>1. /\ parentItem' = [parentItem EXCEPT ![alloc + 1] = Null]
        /\ \A p \in Queues \ {q} : list'[p] = list[p]
    BY <1>2 DEF Push, InsertTail, FifoInv, IInv, TypeOK
  <2>2. ASSUME NEW c \in Children, NEW n \in list'[c] PROVE parentItem'[n] = n + 1
    <3>1. c # q /\ n \in list[c] /\ n # alloc + 1
      BY <1>1, <1>2, <2>1 DEF Children
    <3> QED  BY <1>1, <2>1, <3>1 DEF FifoInv, IInv, TypeOK, Adjacent
  <2> QED  BY <1>1, <2>2 DEF Adjacent
<1>3. CASE parent[q] # NoQueue
  <2>1. /\ parent[q] \in Queues /\ parent[q] \notin Children /\ alloc + 2 \in Node
        /\ parentItem' = [parentItem EXCEPT ![alloc + 1] = alloc + 2]
        /\ list' = InsertTail(InsertTail(list, q, alloc + 1), parent[q], alloc + 2)
    BY <1>3 DEF Push, FifoInv, IInv, TypeOK, Structure, Ownership, Children, IsRoot
  <2>2. ASSUME NEW c \in Children, NEW n \in list'[c] PROVE parentItem'[n] = n + 1
    <3>1. n \in list[c] \/ n = alloc + 1
      BY <1>1, <2>1 DEF InsertTail, FifoInv, IInv, TypeOK
    <3>2. CASE n = alloc + 1
      BY <1>1, <2>1, <3>2 DEF FifoInv, IInv, TypeOK
    <3>3. CASE n \in list[c] /\ n # alloc + 1
      BY <1>1, <2>1, <3>3 DEF FifoInv, IInv, TypeOK, Adjacent
    <3> QED  BY <3>1, <3>2, <3>3
  <2> QED  BY <1>1, <2>2 DEF Adjacent
<1> QED  BY <1>2, <1>3

LEMMA InitFifoInv == Init => FifoInv
BY InitIInv DEF FifoInv, Adjacent, Init, Children

LEMMA NextFifoInv == FifoInv /\ [Next]_vars => FifoInv'
<1> SUFFICES ASSUME FifoInv, [Next]_vars PROVE FifoInv'
  OBVIOUS
<1>1. IInv'
  BY NextIInv DEF FifoInv
<1>2. \A q \in Queues : q \notin live => list[q] = {}
  BY DEF FifoInv, IInv, Structure, Ownership
<1>3. CASE UNCHANGED vars
  <2>1. UNCHANGED <<live, parent, list, parentItem>>
    BY <1>3 DEF vars
  <2> QED  BY <1>1, <2>1 DEF FifoInv, Adjacent, Children
<1>4. ASSUME NEW q \in Queues,
             NewParent(q) \/ \E r \in Queues : NewChild(q, r) \/ ReplaceParent(q, r)
      PROVE  Adjacent'
  <2>1. list[q] = {}
    BY <1>2, <1>4 DEF NewParent, NewChild, ReplaceParent, Empty
  <2> QED  BY <1>4, <2>1, ReparentAdjacent
<1>5. ASSUME NEW q \in Queues, Push(q) PROVE Adjacent'
  BY <1>5, PushAdjacent
<1>6. ASSUME NEW q \in Queues, NEW e \in Node, Remove(q, e) PROVE Adjacent'
  <2>1. \E S : list' = Unlink(S)
    BY <1>6, RemoveTakesAnItem DEF FifoInv
  <2>2. UNCHANGED <<live, parent, parentItem>>
    BY <1>6 DEF Remove
  <2> QED  BY <2>1, <2>2, UnlinkAdjacent
<1>7. ASSUME NEW q \in Queues, GetNothing(q) PROVE Adjacent'
  BY <1>7 DEF GetNothing, FifoInv, Adjacent, Children
<1>8. ASSUME NEW q \in Queues, Free(q) PROVE Adjacent'
  <2>1. /\ \E S : list' = Unlink(S)
        /\ live' = live \ {q} /\ parentItem' = parentItem
        /\ \A p \in Queues \ {q} : parent'[p] = parent[p]
    BY <1>8 DEF Free, FifoInv, IInv, TypeOK
  <2>2. live \subseteq Queues
    BY DEF FifoInv, IInv, TypeOK
  <2> QED  BY <2>1, <2>2, UnlinkAdjacent
<1> QED  BY <1>1, <1>3, <1>4, <1>5, <1>6, <1>7, <1>8 DEF FifoInv, Next, Get, Purge

(* The events of the hierarchy, as the refinement mapping has them. *)
Waiting == {m \in [stamp : Node, home : Queues] :
              m.stamp \in list[m.home] /\ linked[m.stamp] = NoQueue}

(* What an item of a child and what an item of the queue itself have to do *)
(* with the nodes of the list that a reader of q looks at: the item is     *)
(* there, or its link is, which is the next node.                          *)
LEMMA SeenInList ==
    ASSUME FifoInv, NEW q \in live, NEW m \in Waiting, m.home = q \/ parent[m.home] = q
    PROVE  \/ m.home = q /\ m.stamp \in list[q]
           \/ /\ m.stamp + 1 \in list[q] /\ linked[m.stamp + 1] = m.home
              /\ m.home \in Children /\ parent[m.home] = q
<1>1. m.home \in Queues /\ m.stamp \in Node /\ m.stamp \in list[m.home] /\ q \in Queues
  BY DEF Waiting, FifoInv, IInv, TypeOK
<1>2. CASE m.home = q
  BY <1>1, <1>2
<1>3. CASE parent[m.home] = q
  <2>1. m.home \in Children
    BY <1>1, <1>3 DEF Children, FifoInv, IInv, Structure, Ownership
  <2> QED  BY <1>1, <1>3, <2>1 DEF FifoInv, IInv, Structure, Adjacent, ItemsAreLinked
<1> QED  BY <1>2, <1>3

(* A removal takes the oldest event that the reader sees.                  *)
LEMMA RemoveTakes ==
    ASSUME FifoInv, NEW q \in Queues, NEW e \in Node, Remove(q, e)
    PROVE  \E m \in Waiting : Fifo!Take(q, m) /\ m.stamp = e
<1>1. q \in live /\ UNCHANGED <<live, parent, linked>>
  BY DEF Remove
<1>2. ASSUME NEW c \in Queues, c = q \/ parent[c] = q,
             e \in list[c], linked[e] = NoQueue, list' = Unlink({e, parentItem[e]}),
             \A o \in Waiting : o.home = q \/ parent[o.home] = q => e <= o.stamp
      PROVE  \E m \in Waiting : Fifo!Take(q, m) /\ m.stamp = e
  <2> DEFINE m == [stamp |-> e, home |-> c]
  <2>1. m \in Waiting
    BY <1>2 DEF Waiting
  <2>2. parentItem[e] = Null \/ linked[parentItem[e]] # NoQueue
    <3>1. c \in live
      BY <1>1, <1>2 DEF FifoInv, IInv, Structure, Ownership
    <3>2. CASE parent[c] = NoQueue
      BY <1>2, <3>1, <3>2 DEF FifoInv, IInv, Structure, Ownership, IsRoot
    <3>3. CASE parent[c] # NoQueue
      BY <1>2, <3>1, <3>3 DEF FifoInv, IInv, Structure, ItemsAreLinked, Children
    <3> QED  BY <3>2, <3>3
  <2>3. \A p \in Queues : list'[p] = list[p] \ {e, parentItem[e]}
    BY <1>2 DEF Unlink
  <2>4. \A p \in Queues : e \in list[p] => p = c
    BY <1>2 DEF FifoInv, IInv, Structure, Ownership
  <2>5. Waiting' = Waiting \ {m}
    <3>1. ASSUME NEW o \in [stamp : Node, home : Queues]
          PROVE  o \in Waiting' <=> o \in Waiting /\ o # m
      <4>1. o.stamp # Null
        BY DEF Node, Null
      <4>2. o = m <=> o.stamp = e /\ o.home = c
        OBVIOUS
      <4> QED  BY <1>1, <2>2, <2>3, <2>4, <4>1, <4>2 DEF Waiting
    <3> QED  BY <3>1 DEF Waiting
  <2> QED  BY <1>1, <1>2, <2>1, <2>5 DEF Fifo!Take, Fifo!Visible, Waiting
<1>3. CASE RemoveItem(q, e)
  <2>1. e \in list[q] /\ linked[e] = NoQueue /\ list' = Unlink({e, parentItem[e]})
        /\ \A k \in list[q] : e <= k
    BY <1>3 DEF RemoveItem, IsHead
  <2>2. ASSUME NEW o \in Waiting, o.home = q \/ parent[o.home] = q PROVE e <= o.stamp
    <3>1. o.stamp \in Nat /\ e \in Nat
      BY DEF Waiting, Node
    <3>2. \/ o.stamp \in list[q]
          \/ /\ o.stamp + 1 \in list[q] /\ linked[o.stamp + 1] = o.home
             /\ o.home \in Children
      BY <1>1, <2>2, SeenInList
    <3>3. o.home \in Children => o.home # NoQueue
      BY DEF Children, FifoInv, IInv, TypeOK
    <3>4. o.stamp \in list[q] \/ (o.stamp + 1 \in list[q] /\ o.stamp + 1 # e)
      BY <2>1, <3>2, <3>3
    <3> QED  BY <2>1, <3>1, <3>4
  <2> QED  BY <1>2, <2>1, <2>2
<1>4. CASE RemoveLink(q, e)
  <2>1. PICK h \in Node : /\ IsHead(q, h)
                          /\ linked[h] # NoQueue
                          /\ IsHead(linked[h], e)
                          /\ list' = Unlink({h, e})
    BY <1>4 DEF RemoveLink
  <2> DEFINE c == linked[h]
  <2>2. c \in Queues /\ parent[c] = q /\ c \in Children /\ IsRoot(q)
    BY <1>1, <2>1 DEF IsHead, FifoInv, IInv, TypeOK, Structure, LinksAreBacked, IsRoot,
                      Children
  <2>3. e \in list[c] /\ linked[e] = NoQueue
    BY <2>1, <2>2 DEF IsHead, FifoInv, IInv, Structure, ItemsAreLinked
  <2>4. parentItem[e] = h
    <3>1. PICK n \in list[c] : IsHead(c, n) /\ parentItem[n] = h
      BY <1>1, <2>1, FirstLinkFirstItem DEF IsHead, FifoInv
    <3>2. n \in Node /\ n <= e /\ e <= n
      BY <2>1, <2>2, <2>3, <3>1 DEF IsHead, FifoInv, IInv, TypeOK
    <3> QED  BY <3>1, <3>2 DEF Node
  <2>5. h = e + 1
    BY <2>2, <2>3, <2>4 DEF FifoInv, Adjacent
  <2>6. \A k \in list[q] : e + 1 <= k
    BY <2>1, <2>5 DEF IsHead
  <2>7. ASSUME NEW o \in Waiting, o.home = q \/ parent[o.home] = q PROVE e <= o.stamp
    <3>1. o.stamp \in Nat /\ e \in Nat
      BY DEF Waiting, Node
    <3>2. o.stamp \in list[q] \/ o.stamp + 1 \in list[q]
      BY <1>1, <2>7, SeenInList
    <3> QED  BY <2>6, <3>1, <3>2
  <2>8. list' = Unlink({e, parentItem[e]})
    <3>1. {h, e} = {e, parentItem[e]}
      BY <2>4
    <3> QED  BY <2>1, <3>1
  <2> QED  BY <1>2, <2>2, <2>3, <2>7, <2>8
<1> QED  BY <1>3, <1>4 DEF Remove

(* A push puts one event, the newest; the link is none. *)
LEMMA PushPuts ==
    ASSUME FifoInv, NEW q \in Queues, Push(q)
    PROVE  \E n \in Node : Fifo!Put(q, n)
<1>1. /\ q \in live /\ alloc + 1 \in Node /\ UNCHANGED <<live, parent, got>>
      /\ \A p \in Queues : \A n \in list[p] : n \in Node /\ n < alloc + 1
  BY DEF Push, FifoInv, IInv, TypeOK, Structure, Ownership, Node
<1>2. \A m \in Waiting : m.stamp < alloc + 1
  BY <1>1 DEF Waiting
<1>3. ASSUME NEW o \in [stamp : Node, home : Queues]
      PROVE  o \in Waiting' <=> o \in Waiting \/ o = [stamp |-> alloc + 1, home |-> q]
  <2>1. o = [stamp |-> alloc + 1, home |-> q] <=> o.stamp = alloc + 1 /\ o.home = q
    OBVIOUS
  <2>2. CASE parent[q] = NoQueue
    <3>1. /\ linked' = [linked EXCEPT ![alloc + 1] = NoQueue]
          /\ list' = [list EXCEPT ![q] = @ \cup {alloc + 1}]
      BY <2>2 DEF Push, InsertTail
    <3>2. /\ o.stamp \in list'[o.home]
               <=> o.stamp \in list[o.home] \/ (o.home = q /\ o.stamp = alloc + 1)
          /\ linked'[o.stamp] = IF o.stamp = alloc + 1 THEN NoQueue ELSE linked[o.stamp]
      BY <3>1 DEF FifoInv, IInv, TypeOK
    <3>3. o.stamp \in list[o.home] => o.stamp # alloc + 1
      <4>1. o.stamp \in list[o.home] => o.stamp < alloc + 1 /\ o.stamp \in Nat
        BY <1>1 DEF Node
      <4> QED  BY <4>1
    <3> QED  BY <2>1, <3>2, <3>3 DEF Waiting
  <2>3. CASE parent[q] # NoQueue
    <3>1. /\ linked' = [linked EXCEPT ![alloc + 1] = NoQueue, ![alloc + 2] = q]
          /\ list' = InsertTail(InsertTail(list, q, alloc + 1), parent[q], alloc + 2)
          /\ alloc + 2 \in Node /\ parent[q] \in Queues /\ alloc \in Nat
      BY <2>3 DEF Push, FifoInv, IInv, TypeOK
    <3>2. /\ o.stamp \in list'[o.home]
               <=> \/ o.stamp \in list[o.home]
                   \/ o.home = q /\ o.stamp = alloc + 1
                   \/ o.home = parent[q] /\ o.stamp = alloc + 2
          /\ linked'[o.stamp] = IF o.stamp = alloc + 2 THEN q
                                ELSE IF o.stamp = alloc + 1 THEN NoQueue
                                ELSE linked[o.stamp]
      BY <3>1 DEF FifoInv, IInv, TypeOK, InsertTail
    <3>3. o.stamp \in list[o.home] => o.stamp # alloc + 1 /\ o.stamp # alloc + 2
      BY <1>1, <3>1 DEF Node
    <3>4. q # NoQueue /\ alloc + 1 # alloc + 2
      BY <3>1
    <3> QED  BY <2>1, <3>2, <3>3, <3>4 DEF Waiting
  <2> QED  BY <2>2, <2>3
<1>4. Waiting' = Waiting \cup {[stamp |-> alloc + 1, home |-> q]}
  BY <1>1, <1>3 DEF Waiting
<1> QED  BY <1>1, <1>2, <1>4 DEF Fifo!Put, Waiting

(* A queue that is freed takes its own events and no other. *)
LEMMA FreeCloses ==
    ASSUME FifoInv, NEW q \in Queues, Free(q)
    PROVE  Fifo!Close(q)
<1> DEFINE S == list[q] \cup IF parent[q] = NoQueue
                             THEN {}
                             ELSE {parentItem[n] : n \in list[q]}
<1>1. /\ q \in live /\ live' = live \ {q} /\ list' = Unlink(S)
      /\ parent' = [parent EXCEPT ![q] = NoQueue] /\ UNCHANGED <<linked, got>>
      /\ \A c \in live : parent[c] # q
  BY DEF Free
<1>2. \A n \in S : n \in list[q] \/ linked[n] # NoQueue
  <2>1. ASSUME NEW n \in list[q], parent[q] # NoQueue PROVE linked[parentItem[n]] # NoQueue
    BY <1>1, <2>1 DEF FifoInv, IInv, Structure, ItemsAreLinked, Children
  <2> QED  BY <2>1
<1>3. ASSUME NEW o \in [stamp : Node, home : Queues]
      PROVE  o \in Waiting' <=> o \in Waiting /\ o.home # q
  <2>1. list'[o.home] = list[o.home] \ S
    BY <1>1 DEF Unlink
  <2>2. o.home # q => o.stamp \notin list[q] \/ o.stamp \notin list[o.home]
    BY DEF FifoInv, IInv, Structure, Ownership
  <2> QED  BY <1>1, <1>2, <2>1, <2>2 DEF Waiting
<1>4. Waiting' = {m \in Waiting : m.home # q}
  BY <1>3 DEF Waiting
<1> QED  BY <1>1, <1>4 DEF Fifo!Close, Waiting

LEMMA ImplementsNext == FifoInv /\ [Next]_vars => [Fifo!FifoNext]_Fifo!fifoVars
<1> SUFFICES ASSUME FifoInv, [Next]_vars
             PROVE  Fifo!FifoNext \/ UNCHANGED Fifo!fifoVars
  OBVIOUS
<1>1. UNCHANGED <<list, linked>> => Waiting' = Waiting
  BY DEF Waiting
<1>2. CASE UNCHANGED vars
  BY <1>2 DEF vars, Fifo!fifoVars
<1>3. ASSUME NEW q \in Queues, NewParent(q) PROVE Fifo!FifoNext
  <2>1. Fifo!OpenUnder(q, NoQueue)
    BY <1>1, <1>3 DEF NewParent, Fifo!OpenUnder, Waiting, FifoInv, IInv, TypeOK,
                      Structure, Ownership
  <2> QED  BY <2>1 DEF Fifo!FifoNext
<1>4. ASSUME NEW q \in Queues, NEW r \in Queues, NewChild(q, r) PROVE Fifo!FifoNext
  <2>1. Fifo!OpenUnder(q, r)
    BY <1>1, <1>4 DEF NewChild, IsRoot, Fifo!OpenUnder, Fifo!Roots, Waiting
  <2> QED  BY <2>1 DEF Fifo!FifoNext
<1>5. ASSUME NEW q \in Queues, NEW r \in Queues, ReplaceParent(q, r) PROVE Fifo!FifoNext
  <2>1. \A m \in Waiting : m.home # q
    BY <1>5 DEF ReplaceParent, Empty, Waiting
  <2>2. Fifo!Move(q, r)
    BY <1>1, <1>5, <2>1 DEF ReplaceParent, IsRoot, Fifo!Move, Fifo!Roots, Waiting
  <2> QED  BY <2>2 DEF Fifo!FifoNext
<1>6. ASSUME NEW q \in Queues, Push(q) PROVE Fifo!FifoNext
  <2>1. \E n \in Node : Fifo!Put(q, n)
    BY <1>6, PushPuts
  <2> QED  BY <2>1 DEF Fifo!FifoNext
<1>7. ASSUME NEW q \in Queues, Get(q) PROVE Fifo!FifoNext
  <2>1. PICK e \in Node : Remove(q, e) /\ got' = e
    BY <1>7 DEF Get
  <2>2. \E m \in Waiting : Fifo!Take(q, m) /\ m.stamp = e
    BY <2>1, RemoveTakes
  <2>3. Fifo!Read(q)
    BY <2>1, <2>2 DEF Fifo!Read, Waiting
  <2> QED  BY <2>3 DEF Fifo!FifoNext
<1>8. ASSUME NEW q \in Queues, Purge(q) PROVE Fifo!FifoNext
  <2>1. PICK e \in Node : Remove(q, e) /\ got' = got
    BY <1>8 DEF Purge
  <2>2. \E m \in Waiting : Fifo!Take(q, m) /\ m.stamp = e
    BY <2>1, RemoveTakes
  <2>3. Fifo!Discard(q)
    BY <2>1, <2>2 DEF Fifo!Discard, Waiting
  <2> QED  BY <2>3 DEF Fifo!FifoNext
<1>9. ASSUME NEW q \in Queues, GetNothing(q) PROVE Fifo!FifoNext
  <2>1. q \in live /\ list[q] = {}
    BY <1>9 DEF GetNothing, Empty
  <2>2. \A m \in Waiting : ~(m.home = q \/ parent[m.home] = q)
    BY <2>1, SeenInList
  <2>3. Fifo!ReadNothing(q)
    BY <1>1, <1>9, <2>2 DEF GetNothing, NilEvent, Fifo!ReadNothing, Fifo!Visible,
                            Fifo!Nil, Waiting
  <2> QED  BY <2>3 DEF Fifo!FifoNext
<1>10. ASSUME NEW q \in Queues, Free(q) PROVE Fifo!FifoNext
  BY <1>10, FreeCloses DEF Fifo!FifoNext
<1> QED  BY <1>2, <1>3, <1>4, <1>5, <1>6, <1>7, <1>8, <1>9, <1>10 DEF Next

(* Whatever queues are made, read, emptied, moved and freed, the hierarchy *)
(* of lists and links does what SelectiveFifo promises: each event is      *)
(* delivered once, to a reader that may see it, the oldest first.          *)
THEOREM MultiQueueIsFifo == Spec => ImplementsFifo
<1>1. Init => Fifo!FifoInit
  BY DEF Init, Fifo!FifoInit, NilEvent, Fifo!Nil
<1> QED
  BY InitFifoInv, NextFifoInv, <1>1, ImplementsNext, PTL
     DEF Spec, ImplementsFifo, Fifo!FifoSpec
==============================================================================

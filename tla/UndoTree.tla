------------------------------ MODULE UndoTree ------------------------------
(* The undo tree of a buffer (undo.c). A header stands for one undoable     *)
(* change and is known by its sequence number; headers hang together by     *)
(* the four pointers the C structs have: uh_next (the change before),       *)
(* uh_prev (the change after), uh_alt_next and uh_alt_prev (changes made    *)
(* of the same text after an undo). The entries of a header, the lines to   *)
(* be swapped with those of the buffer, are one text here; a text is a      *)
(* number, and no two edits make the same one.                              *)
(*                                                                          *)
(* One thread runs all of this, so that an operation is one step. What      *)
(* makes it hard is the number of ways to get at a tree: branches, joined   *)
(* and interrupted changes, 'undolevels' that change, jumps along the       *)
(* timeline that CTRL-C stops half way or in which the FileChangedRO event  *)
(* reloads the file, previews, undo files.                                  *)
EXTENDS Integers, FiniteSets, TLC

CONSTANTS
    Levels,        \* the values of 'undolevels' that are set
    MaxEdits,      \* bound on the texts made
    MaxWrites,     \* bound on the writes of the file
    MaxCount,      \* bound on the counts of u, CTRL-R, g- and g+
    Stops,         \* bound on the rounds after which CTRL-C is typed
    ReadOnly,      \* is the file read-only, to be reloaded at the first change
    Careless       \* do previews and reloads come where the code loses track

ASSUME TreeAssumption ==
    /\ Levels \subseteq Int /\ Levels # {}
    /\ {MaxEdits, MaxWrites, MaxCount, Stops} \subseteq Nat
    /\ {ReadOnly, Careless} \subseteq BOOLEAN

VARIABLES b,         \* the buffer: its text and the b_u_ fields
          undoFile   \* the undo file

vars == <<b, undoFile>>

-----------------------------------------------------------------------------
(* State *)

Null == 0
NoFile == [text |-> -1]
Live(t) == DOMAIN t.hdr

(* The fields of a buffer just opened with this text on the disk. saved is  *)
(* the text last read or written; edits, the last text made, is what fresh  *)
(* texts are counted from.                                                  *)
Opened(text, level, edits, ro) ==
    [hdr |-> << >>, old |-> Null, new |-> Null, cur |-> Null, num |-> 0,
     synced |-> TRUE, level |-> level, seqLast |-> 0, seqCur |-> 0,
     saveLast |-> 0, saveCur |-> 0, text |-> text, saved |-> text,
     changed |-> FALSE, ro |-> ro, edits |-> edits]

(* The headers in the lists that start at those of S, with all that come    *)
(* after them.                                                              *)
RECURSIVE Below(_, _)
Below(t, S) ==
    LET T == (S \cup {t.hdr[h].prev : h \in S} \cup {t.hdr[h].altNext : h \in S})
                 \ {Null}
    IN IF T = S THEN S ELSE Below(t, T)

RECURSIVE Alternates(_, _)
Alternates(t, h) ==
    IF h = Null THEN {} ELSE {h} \cup Alternates(t, t.hdr[h].altNext)

RECURSIVE LastAlternate(_, _)
LastAlternate(t, h) ==
    IF t.hdr[h].altNext = Null THEN h ELSE LastAlternate(t, t.hdr[h].altNext)

(* The header above the text of the buffer: what u would undo.              *)
Position(t) == IF t.cur # Null THEN t.hdr[t.cur].next ELSE t.new

Link(t, h, field, to) ==
    IF h = Null THEN t ELSE [t EXCEPT !.hdr[h] = [@ EXCEPT ![field] = to]]

-----------------------------------------------------------------------------
(* Freeing *)

(* u_freeentries, for each header of S.                                     *)
FreeEntries(t, S) ==
    [t EXCEPT !.hdr = [h \in Live(t) \ S |-> t.hdr[h]],
              !.cur = IF @ \in S THEN Null ELSE @,
              !.new = IF @ \in S THEN Null ELSE @,
              !.num = @ - Cardinality(S)]

(* u_blockfree: the oldest header is freed, with its alternatives, until    *)
(* none is left; the last one has nothing above it.                         *)
FreeAll(t) ==
    IF t.old = Null THEN t
    ELSE [FreeEntries(t, Below(t, {t.old})) EXCEPT !.old = Null, !.new = Null]

(* u_freebranch *)
FreeBranchOther(t, h) ==
    FreeEntries(Link(t, t.hdr[h].altPrev, "altNext", Null), Below(t, {h}))

FreeBranch(t, h) == IF h = t.old THEN FreeAll(t) ELSE FreeBranchOther(t, h)

(* u_freeheader: the alternatives go too, the headers above and below are   *)
(* joined.                                                                  *)
FreeAlternates(t, h) ==
    IF t.hdr[h].altNext = Null THEN t ELSE FreeBranch(t, t.hdr[h].altNext)

PassedAbove(t, header) ==
    IF header.next = Null THEN [t EXCEPT !.old = header.prev]
    ELSE Link(t, header.next, "prev", header.prev)

PassedBelow(t, header) ==
    IF header.prev = Null THEN [t EXCEPT !.new = header.next]
    ELSE [t EXCEPT !.hdr = [g \in Live(t) |->
             IF g \in Alternates(t, header.prev)
             THEN [t.hdr[g] EXCEPT !.next = header.next] ELSE t.hdr[g]]]

FreeHeader(t, h) ==
    LET header == t.hdr[h]
        alone == Link(FreeAlternates(t, h), header.altPrev, "altNext", Null)
    IN FreeEntries(PassedBelow(PassedAbove(alone, header), header), {h})

(* Fault: what was undone last is freed like any other header.              *)
FreeOldestHeader(t, branch) == FreeHeader(t, t.old)

(* The loop of u_savecommon that keeps the number of headers within         *)
(* 'undolevels'; branch is the header that was undone last, oc there.       *)
FreeOldest(t, branch) ==
    IF t.old = branch THEN FreeBranch(t, t.old)
    ELSE IF t.hdr[t.old].altNext = Null THEN FreeHeader(t, t.old)
    ELSE FreeBranch(t, LastAlternate(t, t.old))

RECURSIVE KeepLevels(_, _)
KeepLevels(t, branch) ==
    IF t.num > t.level /\ t.old # Null
    THEN KeepLevels(FreeOldest(t, branch), branch)
    ELSE t

-----------------------------------------------------------------------------
(* Saving before a change *)

(* u_savecommon in a synced buffer: the header of a new change, next to     *)
(* what was undone last if something was. The change itself is made by the  *)
(* caller; before and after are history: the texts around the change.       *)
Headed(t, branch) ==
    LET h == t.seqLast + 1
        first == IF branch = Null THEN Null ELSE t.hdr[branch].altPrev
        header == [next |-> t.new, prev |-> Null,
                   altNext |-> branch, altPrev |-> first,
                   text |-> t.text, changed |-> t.changed, saveNr |-> 0,
                   before |-> t.text, after |-> t.text]
        t1 == Link(Link(Link(t, first, "altNext", h), branch, "altPrev", h),
                   t.new, "prev", h)
    IN [t1 EXCEPT !.hdr = (h :> header) @@ @,
                  !.old = IF @ \in {branch, Null} THEN h ELSE @,
                  !.new = h, !.num = @ + 1, !.seqLast = h, !.seqCur = h]

HeadedOrNot(t, branch) ==
    IF t.level >= 0 THEN Headed(t, branch)
    ELSE IF branch # Null THEN FreeBranch(t, branch) ELSE t

Branch(t, undone) == IF undone \in Live(t) THEN undone ELSE Null
Onto(t, undone) == HeadedOrNot(t, Branch(t, undone))

NewHeader(t) ==
    Onto(KeepLevels(IF t.cur = Null THEN t
                    ELSE [t EXCEPT !.new = t.hdr[t.cur].next, !.cur = Null],
                    t.cur),
         t.cur)

(* u_savecommon; in an unsynced buffer the lines are added to the newest    *)
(* header, which has the text from before the change already.               *)
SaveCommon(t) == [(IF t.synced THEN NewHeader(t) ELSE t) EXCEPT !.synced = FALSE]

(* CTRL-C while the lines are saved: the header is there without a change.  *)
SaveStopped(t) == [(IF t.synced THEN NewHeader(t) ELSE t) EXCEPT !.synced = TRUE]

(* The change that follows u_savecommon, with changed().                    *)
Fresh(t) ==
    LET text == t.edits + 1
        t1 == [t EXCEPT !.text = text, !.edits = text, !.changed = TRUE]
    IN IF t.level >= 0 THEN Link(t1, t.new, "after", text) ELSE t1

Sync(t) ==
    IF t.synced THEN t
    ELSE [t EXCEPT !.synced = TRUE, !.cur = IF t.level < 0 THEN @ ELSE Null]

(* Fault: the headers do not learn that the file has another text now.      *)
UnchangedHere(t) == [t EXCEPT !.changed = FALSE, !.saved = t.text]

(* unchanged and u_unchanged: nothing is modified, every undo is.           *)
Unchanged(t) ==
    [t EXCEPT !.changed = FALSE, !.saved = t.text,
              !.hdr = [h \in Live(t) |->
                  IF t.old # Null /\ h \in Below(t, {t.old})
                  THEN [t.hdr[h] EXCEPT !.changed = TRUE] ELSE t.hdr[h]]]

(* buf_reload of a file that was changed by another program: the reload is  *)
(* a change that can be undone, or all of the undo information goes when    *)
(* the file is longer than 'undoreload'.                                    *)
Reload(t, keep) ==
    Unchanged(IF keep THEN Fresh(SaveCommon(Sync(t)))
              ELSE [FreeAll(Fresh(t)) EXCEPT !.old = Null, !.new = Null,
                        !.cur = Null, !.num = 0, !.synced = TRUE])

(* change_warning: FileChangedRO of a file that is not modified may reload  *)
(* it and make it writable.                                                 *)
MayWarn(t) == t.ro /\ ~t.changed /\ t.edits < MaxEdits
Warned(t, reload) ==
    IF reload /\ MayWarn(t) THEN [Reload(t, TRUE) EXCEPT !.ro = FALSE] ELSE t

-----------------------------------------------------------------------------
(* Undo and redo *)

(* u_undoredo: the text of the buffer and that of the header at curhead     *)
(* are swapped.                                                             *)
UndoRedo(t, undo) ==
    LET h == t.cur
        header == t.hdr[h]
    IN [t EXCEPT !.text = header.text, !.changed = header.changed,
                 !.hdr[h] = [@ EXCEPT !.text = t.text, !.changed = t.changed],
                 !.seqCur = IF undo THEN header.next ELSE h,
                 !.saveCur = IF header.saveNr = 0 THEN @
                             ELSE IF undo THEN header.saveNr - 1
                             ELSE header.saveNr]

(* Fault: newhead stays above when the last header is redone.               *)
AdvancedOnly(t, h) == [t EXCEPT !.cur = t.hdr[h].prev]

(* After a redo curhead goes down; at a leaf it becomes newhead.            *)
Advanced(t, h) ==
    [t EXCEPT !.cur = t.hdr[h].prev,
              !.new = IF t.hdr[h].prev = Null THEN h ELSE @]

(* u_doit, one round of count at a time: the header to undo, whether there  *)
(* is nothing to undo or redo, and the undo or redo. reload is the round in *)
(* which change_warning reloads the file.                                   *)
ToUndo(t) ==
    IF t.cur = Null THEN t.new
    ELSE IF t.level > 0 THEN t.hdr[t.cur].next ELSE t.cur

AtEnd(t, undo) ==
    IF undo THEN t.num = 0 \/ ToUndo(t) = Null ELSE t.cur = Null \/ t.level <= 0

Step(t, undo) ==
    IF undo THEN UndoRedo([t EXCEPT !.cur = ToUndo(t)], TRUE)
    ELSE Advanced(UndoRedo(t, FALSE), t.cur)

RECURSIVE DoIt(_, _, _, _)
DoItWarned(t, undo, count, reload) ==
    IF AtEnd(t, undo) THEN [t EXCEPT !.cur = IF undo THEN t.old ELSE @]
    ELSE DoIt(Step(t, undo), undo, count - 1, reload - 1)

DoIt(t, undo, count, reload) ==
    IF count = 0 THEN t
    ELSE DoItWarned(Warned(t, reload = 1), undo, count, reload)

Undone(t, count, reload) ==
    DoIt(Sync(t), TRUE, IF t.synced THEN count ELSE 1, reload)

Redone(t, count, reload) == DoIt(t, FALSE, count, reload)

-----------------------------------------------------------------------------
(* undo_time: to a text anywhere in the tree *)

Abs(n) == IF n < 0 THEN -n ELSE n

(* What is asked for: by the number of a change (:undo N), by steps over    *)
(* the texts in the order they were made (g-, g+), by writes (:earlier 1f). *)
Asked(kind, step) == [kind |-> kind, step |-> step]

(* The header to end below, or above; closest starts out of reach.          *)
LastWritten(t) == Position(t) # Null /\ t.hdr[Position(t)].saveNr # 0

Goal(t, a) ==
    LET written == t.saveCur + a.step
        target == CASE a.kind = "change" -> IF a.step = 0 THEN 1 ELSE a.step
                    [] a.kind = "steps" -> t.seqCur + a.step
                    [] a.step < 0 -> IF LastWritten(t) THEN written ELSE written + 1
                    [] written > t.saveLast -> t.seqLast + 1
                    [] OTHER -> written
        byWrite == /\ a.kind = "writes"
                   /\ IF a.step < 0 THEN target > 0 ELSE written <= t.saveLast
        out == IF a.step < 0 \/ a.kind = "change" THEN -1
               ELSE IF byWrite THEN t.saveLast + 2 ELSE t.seqLast + 2
    IN [byWrite |-> byWrite, above |-> a.kind = "change" /\ a.step = 0,
        back |-> a.step < 0, start |-> out, closest |-> out,
        closestSeq |-> t.seqCur, round |-> 1,
        target |-> IF a.kind = "change" THEN target
                   ELSE IF a.step < 0 THEN (IF target < 0 THEN 0 ELSE target)
                   ELSE IF target >= out THEN out - 1 ELSE target]

Value(t, g, h) == IF g.byWrite THEN t.hdr[h].saveNr ELSE h

(* The header that is closest so far, in the direction asked for.           *)
Closer(t, g, h) ==
    /\ g.round = 1
    /\ g.byWrite => Value(t, g, h) # 0
    /\ IF g.back THEN h <= t.seqCur ELSE h > t.seqCur
    /\ \/ g.closest = g.start
       \/ Abs(Value(t, g, h) - g.target) <= Abs(g.closest - g.target)

Noted(t, g, h) ==
    IF Closer(t, g, h)
    THEN [g EXCEPT !.closest = Value(t, g, h), !.closestSeq = h] ELSE g

(* The search marks the headers on the way with "mark", those that lead     *)
(* nowhere with "nomark". It goes down, to the next alternative, up when at *)
(* the first alternative, or back.                                          *)
RECURSIVE Search(_, _, _, _)
Search(t, g, h, walk) ==
    IF h = Null THEN [found |-> FALSE, goal |-> g, walk |-> walk]
    ELSE
    LET header == t.hdr[h]
        marked == [walk EXCEPT ![h] = "mark"]
        useless == [walk EXCEPT ![h] = "nomark"]
        goal == Noted(t, g, h)
        New(n) == n # Null /\ marked[n] = "no"
    IN CASE Value(t, g, h) = g.target ->
              [found |-> TRUE, goal |-> [goal EXCEPT !.target = h], walk |-> marked]
         [] OTHER ->
              IF New(header.prev) THEN Search(t, goal, header.prev, marked)
              ELSE IF New(header.altNext) THEN Search(t, goal, header.altNext, marked)
              ELSE IF New(header.next) /\ header.altPrev = Null
              THEN Search(t, goal, header.next, IF h = t.cur THEN useless ELSE marked)
              ELSE Search(t, goal, IF header.altPrev # Null THEN header.altPrev
                                   ELSE header.next, useless)

From(t) == IF t.cur = Null THEN t.new ELSE t.cur
Searched(t, g) == Search(t, g, From(t), [h \in Live(t) |-> "no"])

(* The second search, for the closest header.                               *)
Second(g) == [g EXCEPT !.target = g.closestSeq, !.byWrite = FALSE, !.round = 2,
                       !.above = @ \/ g.back]

Found(t, a) ==
    LET first == Searched(t, Goal(t, a))
    IN IF first.found \/ a.kind = "change" \/ first.goal.closest = first.goal.start
       THEN first ELSE Searched(t, Second(first.goal))

Way(search) == [found |-> search.found, walk |-> search.walk,
                target |-> search.goal.target, above |-> search.goal.above]

(* On the way up: undo as long as the header is marked. CTRL-C stops the    *)
(* way after so many rounds; what is on the way is [t, walk, rounds,        *)
(* reload]. A header made by a reload on the way has no mark.               *)
Walked(w, h) == h # Null /\ h \in DOMAIN w.walk /\ w.walk[h] = "mark"
Round(w) == [w EXCEPT !.rounds = @ - 1, !.reload = @ - 1,
                      !.t = Warned(@, w.reload = 1)]

RECURSIVE Up(_, _)
UpFrom(w, h, g) ==
    IF ~Walked(w, h) \/ (h = g.target /\ ~g.above) THEN w
    ELSE Up([w EXCEPT !.t = UndoRedo([@ EXCEPT !.cur = h], TRUE),
                      !.walk[h] = "nomark"], g)

UpRound(w, g) == UpFrom(w, Position(w.t), g)
Up(w, g) == IF w.rounds = 0 THEN w ELSE UpRound(Round(w), g)

(* The alternative to take is the last one that is marked; it is made the   *)
(* first.                                                                   *)
RECURSIVE FirstMarked(_, _)
FirstMarked(w, h) ==
    IF Walked(w, w.t.hdr[h].altPrev) THEN FirstMarked(w, w.t.hdr[h].altPrev) ELSE h

(* Fault: the alternative that is first already.                            *)
LastMarkedFirst(w, h) == h

RECURSIVE LastMarked(_, _)
LastMarked(w, h) ==
    IF Walked(w, w.t.hdr[h].altNext) THEN LastMarked(w, w.t.hdr[h].altNext) ELSE h

RECURSIVE FirstAlternate(_, _)
FirstAlternate(t, h) ==
    IF t.hdr[h].altPrev = Null THEN h ELSE FirstAlternate(t, t.hdr[h].altPrev)

MadeFirst(t, last) ==
    LET first == FirstAlternate(t, last)
        header == t.hdr[last]
        t1 == Link(Link(t, header.altNext, "altPrev", header.altPrev),
                   header.altPrev, "altNext", header.altNext)
        t2 == [t1 EXCEPT !.hdr[last] = [@ EXCEPT !.altPrev = Null, !.altNext = first],
                         !.old = IF @ = first THEN last ELSE @]
    IN Link(Link(t2, first, "altPrev", last), header.next, "prev", last)

(* On the way down: redo, until the target is reached.                      *)
RECURSIVE Down(_, _)
Further(w, h, g) ==
    IF h = g.target \/ ~Walked(w, w.t.cur) THEN w.t ELSE Down(w, g)

DownFrom(w, h, g) ==
    IF ~Walked(w, h) THEN w.t
    ELSE IF h = g.target /\ g.above THEN [w.t EXCEPT !.seqCur = g.target - 1]
    ELSE Further([w EXCEPT !.t = Advanced(UndoRedo(@, FALSE), h)], h, g)

Taking(t, first, h) ==
    [IF h = first THEN t ELSE MadeFirst(t, h) EXCEPT !.cur = h]

DownBy(w, first, h, g) == DownFrom([w EXCEPT !.t = Taking(@, first, h)], h, g)
DownAlong(w, first, g) == DownBy(w, first, LastMarked(w, first), g)
DownRound(w, g) ==
    IF w.t.cur = Null THEN w.t ELSE DownAlong(w, FirstMarked(w, w.t.cur), g)

Down(w, g) == IF w.rounds = 0 THEN w.t ELSE DownRound(Round(w), g)

(* undo_time. In a buffer without marks to follow nothing happens.          *)
Walk(t, way, rounds, reload) ==
    IF ~way.found THEN t
    ELSE Down(Up([t |-> t, walk |-> way.walk, rounds |-> rounds,
                  reload |-> reload], way), way)

UndoTime(t, a, rounds, reload) ==
    Walk(Sync(t), Way(Found(Sync(t), a)), rounds, reload)

-----------------------------------------------------------------------------
(* Previews of :substitute, undo files *)

(* u_undo_and_forget: undo, and take the header out of the tree.            *)
Forgotten(t, h) ==
    LET header == t.hdr[h]
        branch == header.altNext
        t1 == [t EXCEPT !.new = header.next, !.cur = branch]
        t2 == IF branch # Null
              THEN [Link(Link(t1, h, "altNext", Null),
                         branch, "altPrev", header.altPrev)
                       EXCEPT !.seqCur = t.hdr[branch].next]
              ELSE [t1 EXCEPT !.seqCur = IF t1.new # Null THEN t1.new ELSE @]
        t3 == Link(Link(t2, header.altPrev, "altNext", branch),
                   header.next, "prev", branch)
    IN FreeBranch([t3 EXCEPT !.seqLast = IF @ = h THEN @ - 1 ELSE @], h)

ForgottenIfUndone(t) == IF t.cur = Null THEN t ELSE Forgotten(t, t.cur)
UndoAndForget(t) == ForgottenIfUndone(Undone(t, 1, 0))

(* ex_substitute with 'inccommand': what the preview changes is undone, the *)
(* number of levels is not limited meanwhile. Fault: it is limited to one.  *)
UnlimitedNot == 1
Unlimited == 1000000
Previewed(t) ==
    LET shown == Fresh(SaveCommon([t EXCEPT !.level = Unlimited]))
    IN [UndoAndForget(shown) EXCEPT !.new = t.new, !.level = t.level,
                                    !.edits = t.edits]

(* u_write_undo: the tree with a hash of the text, for which the text       *)
(* stands. Nothing is written when there is nothing to undo.                *)
Written(t) ==
    IF t.num = 0 THEN NoFile
    ELSE [text |-> t.text, hdr |-> t.hdr, old |-> t.old, new |-> t.new,
          cur |-> t.cur, num |-> t.num, seqLast |-> t.seqLast,
          seqCur |-> t.seqCur, saveLast |-> t.saveLast]

SyncedForFile(t) == IF t.num = 0 THEN t ELSE Sync(t)

(* Fault: the hash is not looked at.                                        *)
FitsAny(t, f) == f # NoFile

(* u_read_undo: a file for another text, and one that ends too early, is    *)
(* refused; the tree of the file takes the place of that of the buffer.     *)
Fits(t, f) == f.text = t.text

Loaded(t, f) ==
    IF ~Fits(t, f) THEN t
    ELSE [FreeAll(t) EXCEPT
             !.hdr = f.hdr, !.old = f.old, !.new = f.new, !.cur = f.cur,
             !.num = f.num, !.seqLast = f.seqLast, !.seqCur = f.seqCur,
             !.saveLast = f.saveLast, !.saveCur = f.saveLast, !.synced = TRUE]

-----------------------------------------------------------------------------
(* Actions *)

Init ==
    \E level \in Levels :
        /\ b = Opened(0, level, 0, ReadOnly)
        /\ undoFile = NoFile

Headers == Live(b)
Pointers == Headers \cup {Null}

Becomes(t) == b' = t /\ UNCHANGED undoFile

(* A change to the text.                                                    *)
Edit ==
    \E reload \in BOOLEAN :
        LET t == Warned(b, reload)
        IN /\ t.edits < MaxEdits
           /\ Becomes(Fresh(SaveCommon(t)))

(* CTRL-C before a change to many lines; it counts as an edit.              *)
EditStopped ==
    /\ b.level >= 0
    /\ b.edits < MaxEdits
    /\ Becomes([SaveStopped(b) EXCEPT !.edits = @ + 1])

(* A command is typed: the next change is a new one.                        *)
TypedCommand == ~b.synced /\ Becomes(Sync(b))

(* ex_undojoin *)
UndoJoin ==
    /\ b.new # Null /\ b.cur = Null
    /\ b.synced
    /\ b.level >= 0
    /\ Becomes([b EXCEPT !.synced = FALSE])

(* The round in which the file is reloaded, 0 when it is not.               *)
Reloads == IF b.ro /\ b.edits < MaxEdits THEN 0 .. 2 ELSE {0}

(* Only with Careless: a reload in the middle of u, which leaves the buffer *)
(* unsynced with its newest header undone, and vi's u, which with           *)
(* 'undolevels' of 0 or less redoes what it undid without moving curhead.   *)
Undo ==
    \E count \in 1 .. MaxCount, reload \in Reloads :
        /\ \/ Careless
           \/ reload = 0 /\ (b.level > 0 \/ (count = 1 /\ b.cur = Null))
        /\ Becomes(Undone(b, count, reload))

Redo == \E count \in 1 .. MaxCount :
    \E reload \in {r \in Reloads : r <= count} : Becomes(Redone(b, count, reload))

(* The rounds of undo_time from the end of one branch to that of another;   *)
(* with fewer of them CTRL-C is typed on the way.                           *)
AllRounds == 2 * MaxEdits + 2

(* :undo N, g- and g+, :earlier and :later by writes. A number that is not  *)
(* in the tree is refused.                                                  *)
Counts(max) == (-max .. max) \ {0}
Requests ==
    [kind : {"change"}, step : Pointers]
      \cup [kind : {"steps"}, step : Counts(MaxCount)]
      \cup [kind : {"writes"}, step : Counts(MaxWrites)]

Travel ==
    \E way \in {Way(Found(Sync(b), a)) : a \in Requests},
       rounds \in (1 .. Stops) \cup {AllRounds} :
        \E reload \in {r \in Reloads : r <= rounds} :
            Becomes(Walk(Sync(b), way, rounds, reload))

(* buf_write of the whole text to its file, u_unchanged, u_update_save_nr;  *)
(* with 'undofile' the undo file is written, or half of it.                 *)
Numbered(t) ==
    LET nr == t.saveLast + 1
    IN [Link(Unchanged(t), Position(t), "saveNr", nr)
            EXCEPT !.saveLast = nr, !.saveCur = nr]

Write ==
    /\ b.saveLast < MaxWrites
    /\ \/ Becomes(Numbered(b))
       \/ \E ok \in BOOLEAN :
             /\ b' = SyncedForFile(Numbered(b))
             /\ undoFile' = IF ok THEN Written(b') ELSE NoFile

(* The file was changed by another program and is loaded again.             *)
FileChanged ==
    /\ b.edits < MaxEdits
    /\ \E keep, udf \in BOOLEAN :
          /\ b' = IF udf THEN SyncedForFile(Reload(b, keep)) ELSE Reload(b, keep)
          /\ undoFile' = IF udf THEN Written(b') ELSE undoFile

(* The option is set: for p_ul and b_p_ul the buffer is synced first.       *)
SetUndolevels ==
    \E level \in Levels \ {b.level} : Becomes([Sync(b) EXCEPT !.level = level])

(* 'undofile' is set in a buffer that is not modified.                      *)
SetUndofile ==
    /\ ~b.changed
    /\ Fits(b, undoFile)
    /\ Becomes(Loaded(b, undoFile))

(* The editor ends, killed or not, and the file is edited again.            *)
Restart ==
    /\ UNCHANGED undoFile
    /\ \E udf \in BOOLEAN :
          LET t == Opened(b.saved, b.level, b.edits, b.ro)
          IN b' = IF udf THEN Loaded(t, undoFile) ELSE t

(* The preview of a :substitute that changes lines; the key : has synced    *)
(* the buffer. At the oldest text with something to redo it loses undo      *)
(* information: only with Careless.                                         *)
MayPreview == b.synced /\ (Careless \/ b.cur = Null \/ b.cur # b.old)
Preview == MayPreview /\ Becomes(Previewed(b))

Next ==
    \/ Edit \/ EditStopped \/ TypedCommand \/ UndoJoin
    \/ Undo \/ Redo \/ Travel
    \/ Write \/ FileChanged \/ SetUndolevels \/ SetUndofile \/ Restart
    \/ Preview

Spec == Init /\ [][Next]_vars

-----------------------------------------------------------------------------
(* Properties *)

(* The buffer, its headers and the undo file have their types.              *)
TypeOK ==
    /\ b.text \in 0 .. MaxEdits /\ b.saved \in 0 .. MaxEdits
    /\ {b.old, b.new, b.cur} \subseteq Pointers
    /\ Headers \subseteq 1 .. b.seqLast
    /\ \A h \in Headers :
         /\ {b.hdr[h][f] : f \in {"next", "prev", "altNext", "altPrev"}} \subseteq Pointers
         /\ b.hdr[h].saveNr \in 0 .. MaxWrites
    /\ undoFile.text \in -1 .. MaxEdits

(* What u_check looks for: every pointer has its counterpart, and all of    *)
(* the headers that are allocated, as many as b_u_numhead says, are found   *)
(* from b_u_oldhead; none is used after it was freed.                       *)
TreeHolds ==
    /\ Headers = IF b.old = Null THEN {} ELSE Below(b, {b.old})
    /\ b.num = Cardinality(Headers)
    /\ \A h \in Headers :
         LET header == b.hdr[h]
         IN /\ header.prev # Null => /\ b.hdr[header.prev].next = h
                                     /\ b.hdr[header.prev].altPrev = Null
            /\ header.altNext # Null => /\ b.hdr[header.altNext].altPrev = h
                                        /\ b.hdr[header.altNext].next = header.next
            /\ header.altPrev # Null => b.hdr[header.altPrev].altNext = h
            /\ header.next < h
            /\ (header.next = Null /\ header.altPrev = Null) => h = b.old

(* The buffer is on the branch that u and CTRL-R follow: the first          *)
(* alternative at every header above its text, with what was undone last    *)
(* right below, or at the end of a branch. u_savecommon and the pruning     *)
(* rely on it; an unsynced buffer has a header to add to.                   *)
RECURSIVE Above(_, _)
Above(t, h) == IF h = Null THEN {} ELSE {h} \cup Above(t, t.hdr[h].next)

OnFirstBranch ==
    /\ \A h \in Above(b, Position(b)) : b.hdr[h].altPrev = Null
    /\ IF b.cur # Null THEN b.hdr[b.cur].altPrev = Null
       ELSE IF Headers = {} THEN b.new = Null
       ELSE b.new # Null /\ b.hdr[b.new].prev = Null
    /\ ~b.synced => b.cur = Null /\ (b.level >= 0 => b.new # Null)

(* The text is the one that belongs to the place in the tree, whatever led  *)
(* there.                                                                   *)
TextIsThere ==
    /\ Position(b) # Null => b.text = b.hdr[Position(b)].after
    /\ b.cur # Null => b.text = b.hdr[b.cur].before

(* A buffer that is not modified has the text that was read or written      *)
(* last.                                                                    *)
ModifiedIsHonest == b.changed \/ b.text = b.saved

(* :undo N leads to the text after change N from anywhere, when nothing     *)
(* interrupts it.                                                           *)
Arrives(a, text) == UndoTime(b, a, AllRounds, 0).text = text
GoToArrives ==
    \A n \in Headers : Arrives(Asked("change", n), b.hdr[n].after)

(* g+ leads to the next newer text.                                         *)
Newer == {h \in Headers : h > b.seqCur}
Least(S) == CHOOSE n \in S : \A m \in S : n <= m
LaterArrives ==
    Newer = {} \/
    Arrives(Asked("steps", 1), b.hdr[Least(Newer)].after)

(* g- leads to the text made before the one of the buffer.                  *)
EarlierArrives ==
    b.seqCur - 1 \notin Headers \/
    Arrives(Asked("steps", -1), b.hdr[b.seqCur - 1].after)

(* A preview leaves the undo tree and the text as they were, but for        *)
(* seqCur: that becomes the number of the header above the text. When it    *)
(* was another number, undotree(), which returns it as seq_cur, is not the  *)
(* same as before the preview, as the comment in ex_substitute says it is:  *)
(* after :undo 0, after g-, and where no header stands for the last change, *)
(* which was made while 'undolevels' was negative.                          *)
PreviewForgets == MayPreview => Previewed(b) = [b EXCEPT !.seqCur = Position(b)]

(* The properties as the runs check them: the tree is well formed and the   *)
(* buffer has its place in it;                                              *)
TreeIsWhole == TypeOK /\ TreeHolds /\ OnFirstBranch

(* the text and the modified flag are those of that place;                  *)
PlaceIsTrue == TextIsThere /\ ModifiedIsHonest

(* and every text can be reached, by its number and by single steps.        *)
TextsAreReached == GoToArrives /\ LaterArrives /\ EarlierArrives
=============================================================================

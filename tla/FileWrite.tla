------------------------------ MODULE FileWrite ------------------------------
(***************************************************************************)
(* Writing a buffer to its file: buf_write() and vim_rename() of fileio.c. *)
(* The original is copied or renamed to a backup, the file is written, and *)
(* on an error the backup is put back.  Each system call that changes a    *)
(* file is a step, may fail, and the program may be killed after it: then  *)
(* what is on the disk is all there is, so that what a crash must not lose *)
(* is an invariant.  Autocommands, devices and filters are left out.       *)
(***************************************************************************)
EXTENDS Integers

CONSTANTS Dirs,      \* the entries of 'backupdir'
          MaxFaults  \* bound on what goes wrong

ASSUME FileWriteAssumption == Dirs \in Nat \ {0} /\ MaxFaults \in Nat

(* The names of files. *)
Name(is, dir) == [is |-> is, dir |-> dir]
File == Name("file", 0)    \* the file to write
Tmp == Name("tmp", 0)      \* the input of 'charconvert'
Org == Name("org", 0)      \* the original that 'patchmode' keeps
Temp == Name("temp", 0)    \* what vim_rename goes through
Bak(i) == Name("bak", i)   \* the backup in an entry of 'backupdir'
Alt(i) == Name("alt", i)   \* another name for it
NoName == Name("none", 0)
Names == {File, Tmp, Org, Temp} \cup UNION {{Bak(i), Alt(i)} : i \in 1 .. Dirs}

(* How much of the old and of the new text is in a file: none, a part, all *)
Whole == 2
Absent == [id |-> "none", old |-> 0, new |-> 0, ro |-> FALSE]
Original(ro) == [id |-> "orig", old |-> Whole, new |-> 0, ro |-> ro]
Theirs == [id |-> "user", old |-> 0, new |-> 0, ro |-> FALSE]
Fresh(ro) == [id |-> "fresh", old |-> 0, new |-> 0, ro |-> ro]

(* Another name of the file to write, or a link to it: what there is under *)
(* it goes with the file and is not counted again.                         *)
Linked(ro) == [id |-> "link", old |-> 0, new |-> 0, ro |-> ro]

VARIABLES
    disk,   \* what is under each name
    opt,    \* how the write was asked for, and the file it found
    w,      \* the local variables of buf_write, and where it is
    mv,     \* the call of vim_rename
    swap,   \* the text was synced to the swap file: "no", "kept", "failed", or
            \* "other": the file is not the buffer's own
    \* history
    faults, \* how many system calls failed, or were interrupted by CTRL-C
    told    \* vim_rename told that it left a part under the file's name

vars == <<disk, opt, w, mv, swap, faults, told>>

Exists(n) == disk[n].id # "none"

(* A system call does what it is for, or fails, or CTRL-C is typed in it.  *)
Well == UNCHANGED faults
Fault == faults < MaxFaults /\ faults' = faults + 1

Remove(n) == \/ Well /\ disk' = [disk EXCEPT ![n] = Absent]
             \/ Fault /\ UNCHANGED disk

To(pc) == [w EXCEPT !.pc = pc]

(* The label fail.  The warning is that the original may be lost. *)
Fail(r) == [r EXCEPT !.pc = "done", !.result = "fail", !.warned = r.end0]

-----------------------------------------------------------------------------
(* vim_rename                                                              *)

Rename(from, to, for) == mv' = [from |-> from, to |-> to, at |-> "remove", for |-> for]

NoCall == [from |-> NoName, to |-> NoName, at |-> "none", for |-> "none"]

NextDir == [w EXCEPT !.pc = "rename", !.backup = NoName, !.dir = @ + 1]

(* What buf_write does with what vim_rename returns. *)
Returned(ok) ==
    CASE mv.for = "backup"  -> IF ok THEN To("prepare") ELSE NextDir
      [] mv.for = "restore" -> To("copied")
      [] mv.for = "put back" -> To("missing")
      [] mv.for = "undo"    -> Fail([w EXCEPT !.end0 = ~ok])
      [] mv.for = "org"     -> [w EXCEPT !.pc = "cleanup", !.backup = NoName]

Returns(ok) == w' = Returned(ok) /\ mv' = NoCall

Moving(at) == w.pc = "mv" /\ mv.at = at

(* What there is under the new name is deleted first, but not when it is   *)
(* the file itself.                                                        *)
SameFile(from, to) == from = File /\ disk[to].id = "link"

MvRemove ==
    /\ Moving("remove")
    /\ IF ~Exists(mv.from) THEN Returns(FALSE) /\ UNCHANGED <<disk, faults>>
       ELSE IF SameFile(mv.from, mv.to)
            THEN mv' = [mv EXCEPT !.at = "aside"] /\ UNCHANGED <<disk, faults, w>>
            ELSE Remove(mv.to) /\ mv' = [mv EXCEPT !.at = "rename"] /\ UNCHANGED w
    /\ UNCHANGED <<opt, swap, told>>

(* Then the file goes through a name that does not exist. *)
MvAside ==
    /\ Moving("aside")
    /\ \/ /\ Well /\ mv' = [mv EXCEPT !.at = "onto"] /\ UNCHANGED w
          /\ disk' = [disk EXCEPT ![Temp] = disk[mv.from], ![mv.from] = Absent]
       \/ Fault /\ Returns(FALSE) /\ UNCHANGED disk
    /\ UNCHANGED <<opt, swap, told>>

(* rename() of two hard links of one file leaves both.                     *)
MvOnto ==
    /\ Moving("onto")
    /\ \/ /\ Well /\ Returns(TRUE)
          /\ disk' = [disk EXCEPT ![mv.to] = disk[Temp],
                                  ![Temp] = IF opt.link = "hard" THEN Linked(opt.ro)
                                            ELSE Absent]
       \/ Fault /\ mv' = [mv EXCEPT !.at = "again"] /\ UNCHANGED <<disk, w>>
    /\ UNCHANGED <<opt, swap, told>>

(* Strange, the second step failed.  It is not looked at whether moving    *)
(* the file back works.                                                    *)
MvAgain ==
    /\ Moving("again") /\ Returns(FALSE)
    /\ \/ Well /\ disk' = [disk EXCEPT ![mv.from] = disk[Temp], ![Temp] = Absent]
       \/ Fault /\ UNCHANGED disk
    /\ UNCHANGED <<opt, swap, told>>

MvRename ==
    /\ Moving("rename")
    /\ \/ /\ Well
          /\ disk' = [disk EXCEPT ![mv.to] = disk[mv.from], ![mv.from] = Absent]
          /\ Returns(TRUE)
       \/ Fault /\ mv' = [mv EXCEPT !.at = "open"] /\ UNCHANGED <<disk, w>>
    /\ UNCHANGED <<opt, swap, told>>

(* Rename() failed, try copying the file. *)
MvOpen ==
    /\ Moving("open")
    /\ \/ /\ ~Exists(mv.to) /\ Well
          /\ disk' = [disk EXCEPT ![mv.to] = Fresh(disk[mv.from].ro)]
          /\ mv' = [mv EXCEPT !.at = "copy"] /\ UNCHANGED w
       \/ /\ IF Exists(mv.to) THEN Well ELSE Fault
          /\ Returns(FALSE) /\ UNCHANGED disk
    /\ UNCHANGED <<opt, swap, told>>

MvCopy ==
    /\ Moving("copy")
    /\ \/ /\ Well /\ UNCHANGED <<w, told>>
          /\ IF disk[mv.to].old = disk[mv.from].old
             THEN mv' = [mv EXCEPT !.at = "unlink"] /\ UNCHANGED disk
             ELSE disk' = [disk EXCEPT ![mv.to].old = @ + 1] /\ UNCHANGED mv
       \/ Fault /\ Returns(FALSE) /\ told' = (told \/ mv.to = File)
          /\ UNCHANGED disk
    /\ UNCHANGED <<opt, swap>>

(* It is not looked at whether that works. *)
MvUnlink ==
    /\ Moving("unlink")
    /\ Remove(mv.from) /\ Returns(TRUE)
    /\ UNCHANGED <<opt, swap, told>>

-----------------------------------------------------------------------------
(* The backup.                                                             *)

NeedsBackup == (~opt.append \/ opt.pm) /\ opt.existed /\ opt.dobackup

(* A read-only file needs '!'; the user is asked about a file that changed *)
(* since it was read.                                                      *)
Begin ==
    /\ w.pc = "begin"
    /\ \/ w' = To(IF NeedsBackup THEN "choose" ELSE "prepare")
          /\ (opt.ro => opt.force)
       \/ opt.existed /\ w' = Fail(w)
    /\ UNCHANGED <<disk, opt, mv, swap, faults, told>>

(* Fault: a link is not noticed. *)
CopyingNotLinks == IF opt.bkc = "yes" \/ opt.append THEN {TRUE}
                   ELSE IF opt.bkc = "auto" THEN BOOLEAN ELSE {FALSE}

(* Whether 'backupcopy' is for a copy; with "auto" also when no file like  *)
(* this one can be made in its directory.                                  *)
Copying ==
    IF opt.breaks /\ opt.link # "no" THEN {FALSE}
    ELSE IF opt.bkc = "yes" \/ opt.append THEN {TRUE}
    ELSE IF opt.bkc = "auto" THEN IF opt.link # "no" THEN {TRUE} ELSE BOOLEAN
    ELSE {FALSE}

(* A file that cannot be read is renamed though a copy was chosen. *)
Choose ==
    /\ w.pc = "choose"
    /\ \E copying \in Copying :
         LET chosen == [w EXCEPT !.copying = copying]
         IN  \/ Well /\ w' = [chosen EXCEPT !.pc = IF copying THEN "copy" ELSE "rename"]
             \/ copying /\ Fault /\ w' = [chosen EXCEPT !.pc = "rename", !.unread = TRUE]
    /\ UNCHANGED <<disk, opt, mv, swap, told>>

(* Fault: a backup that is going to be deleted replaces a file. *)
BackupNameAny(i) == {Bak(i)}

(* An existing file gets lost only if 'backup' says to keep the new one.   *)
(* They all may exist.                                                     *)
BackupName(i) == IF opt.bk \/ ~Exists(Bak(i)) THEN {Bak(i)} ELSE {Alt(i), NoName}

(* A backup that is the file itself would be ruined by the copy. *)
CopyNames(i) == IF SameFile(File, Bak(i)) THEN {NoName} ELSE BackupName(i)

CopyName ==
    /\ w.pc = "copy"
    /\ IF w.dir > Dirs
       THEN w' = To("nobackup") /\ UNCHANGED <<disk, faults>>
       ELSE \E n \in CopyNames(w.dir) :
              IF n = NoName
              THEN w' = [w EXCEPT !.dir = @ + 1] /\ UNCHANGED <<disk, faults>>
              ELSE Remove(n) /\ w' = [w EXCEPT !.pc = "create", !.backup = n]
    /\ UNCHANGED <<opt, mv, swap, told>>

CopyCreate ==
    /\ w.pc = "create"
    /\ \/ /\ ~Exists(w.backup) /\ Well
          /\ disk' = [disk EXCEPT ![w.backup] = Fresh(opt.ro)] /\ w' = To("copying")
       \/ /\ IF Exists(w.backup) THEN Well ELSE Fault
          /\ w' = [w EXCEPT !.pc = "copy", !.backup = NoName, !.dir = @ + 1]
          /\ UNCHANGED disk
    /\ UNCHANGED <<opt, mv, swap, told>>

(* CTRL-C, and an error of the last close, end it too. *)
CopyData ==
    /\ w.pc = "copying"
    /\ \/ /\ Well
          /\ IF disk[w.backup].old = Whole THEN w' = To("nobackup") /\ UNCHANGED disk
             ELSE disk' = [disk EXCEPT ![w.backup].old = @ + 1] /\ UNCHANGED w
       \/ /\ Fault
          /\ w' = [To("nobackup") EXCEPT !.errmsg = TRUE] /\ UNCHANGED disk
    /\ UNCHANGED <<opt, mv, swap, told>>

(* Fault: the write goes on with a part of a backup. *)
GoesOnAlways == TRUE

(* Ignore errors when forceit is TRUE. *)
GoesOn == opt.force \/ (w.backup # NoName /\ ~w.errmsg)

NoBackup ==
    /\ w.pc = "nobackup"
    /\ w' = IF GoesOn THEN [To("prepare") EXCEPT !.errmsg = FALSE] ELSE Fail(w)
    /\ UNCHANGED <<disk, opt, mv, swap, faults, told>>

RenameToBackup ==
    /\ w.pc = "rename"
    /\ IF w.dir > Dirs
       THEN w' = (IF opt.force THEN To("prepare") ELSE Fail(w)) /\ UNCHANGED mv
       ELSE \E n \in BackupName(w.dir) :
              IF n = NoName THEN w' = NextDir /\ UNCHANGED mv
              ELSE w' = [w EXCEPT !.pc = "mv", !.backup = n] /\ Rename(File, n, "backup")
    /\ UNCHANGED <<disk, opt, swap, faults, told>>

-----------------------------------------------------------------------------
(* The write.                                                              *)

(* ":w!" makes a read-only file of the user's own writable. *)
Prepare ==
    /\ w.pc = "prepare"
    /\ \/ /\ opt.force /\ opt.existed /\ opt.ro
          /\ w' = [To("preserve") EXCEPT !.ro = FALSE]
          /\ \/ Well /\ disk' = [disk EXCEPT ![File].ro = FALSE]
             \/ Fault /\ UNCHANGED disk
       \/ w' = To("preserve") /\ UNCHANGED <<disk, faults>>
    /\ UNCHANGED <<opt, mv, swap, told>>

(* Fault: the text is not synced. *)
PreserveNot == w.pc = "preserve" /\ w' = To("convert")
               /\ UNCHANGED <<disk, opt, mv, swap, faults, told>>

(* ml_preserve, for the buffer's own file, not when there is a backup and  *)
(* the program is exiting.  That it fails is not seen, that CTRL-C ends it *)
(* is: with no name to write to yet.                                       *)
Preserve ==
    /\ w.pc = "preserve"
    /\ \/ opt.existed /\ swap' = "kept" /\ w' = To("convert") /\ Well
       \/ /\ opt.existed /\ swap' \in {"kept", "failed"}
          /\ w' \in {To("convert"), To("restore")} /\ Fault
       \/ /\ swap' \in {"other"} \cup IF w.backup # NoName \/ ~opt.existed THEN {"no"} ELSE {}
          /\ w' = To("convert") /\ Well
    /\ UNCHANGED <<disk, opt, mv, told>>

(* A conversion that iconv does not know goes through 'charconvert' and a  *)
(* temporary file, or is not possible.                                     *)
Convert ==
    /\ w.pc = "convert"
    /\ \/ w' = [To("open") EXCEPT !.target = File] /\ Well
       \/ w' = [To("open") EXCEPT !.target = Tmp] /\ Well
       \/ w' = To("restore") /\ Fault
       \/ ~opt.force /\ w' = [To("restore") EXCEPT !.target = File] /\ Well
    /\ UNCHANGED <<disk, opt, mv, swap, told>>

(* open() may create the file, or finds one that can be written.           *)
Opens == IF Exists(w.target) THEN ~disk[w.target].ro ELSE opt.force \/ ~opt.append

Open ==
    /\ w.pc = "open" /\ Opens /\ Well
    /\ disk' = [disk EXCEPT ![w.target] =
                  IF ~Exists(w.target) THEN Fresh(w.ro)
                  ELSE IF opt.append THEN @ ELSE [@ EXCEPT !.old = 0, !.new = 0]]
    /\ w' = [To("write") EXCEPT !.errmsg = FALSE]
    /\ UNCHANGED <<opt, mv, swap, told>>

(* With '!' a file that cannot be opened is deleted and made anew, once.   *)
TriesAgain == opt.force /\ opt.existed /\ ~w.errmsg

(* Don't delete the file when it's a hard or symbolic link: a symbolic one *)
(* is seen; the number of hard links is read from a structure that nothing *)
(* was written to.                                                         *)
SeenLinked == IF disk[File].id = "orig" /\ opt.link = "sym" THEN {TRUE}
              ELSE IF opt.existed THEN BOOLEAN ELSE {FALSE}

OpenFails ==
    /\ w.pc = "open"
    /\ IF Opens THEN Fault ELSE Well
    /\ \E linked \in SeenLinked :
         w' = IF TriesAgain /\ ~linked
              THEN [w EXCEPT !.pc = IF opt.append THEN "open" ELSE "delete",
                             !.errmsg = TRUE, !.ro = FALSE]
              ELSE To("restore")
    /\ UNCHANGED <<disk, opt, mv, swap, told>>

DeleteFirst ==
    /\ w.pc = "delete"
    /\ Remove(w.target) /\ w' = To("open")
    /\ UNCHANGED <<opt, mv, swap, told>>

(* Fault: the backup is not put back. *)
RestoreNot == w.pc = "restore" /\ w' = To("missing")
              /\ UNCHANGED <<disk, opt, mv, swap, faults, told>>

(* restore_backup *)
Restore ==
    /\ w.pc = "restore"
    /\ IF w.backup # NoName /\ w.target = File /\ (w.copying => ~Exists(File))
       THEN w' = To("mv") /\ Rename(w.backup, File, IF w.copying THEN "restore" ELSE "put back")
       ELSE /\ w' = To(IF w.backup # NoName /\ w.target = File THEN "copied" ELSE "missing")
            /\ UNCHANGED mv
    /\ UNCHANGED <<disk, opt, swap, faults, told>>

(* If the original file does exist throw away the copy. *)
DropCopy ==
    /\ w.pc = "copied"
    /\ IF Exists(File) THEN Remove(w.backup) ELSE UNCHANGED <<disk, faults>>
    /\ w' = To("missing")
    /\ UNCHANGED <<opt, mv, swap, told>>

(* Fault: the user is not warned. *)
MissingUnsaid == FALSE

(* If the original file no longer exists give an extra warning. *)
Missing == opt.existed /\ ~Exists(File)

GiveUp ==
    /\ w.pc = "missing"
    /\ w' = Fail([w EXCEPT !.end0 = Missing])
    /\ UNCHANGED <<disk, opt, mv, swap, faults, told>>

(* Fault: one part more than there is. *)
WrittenPast == disk[w.target].new > Whole
Written == disk[w.target].new = Whole

(* buf_write_bytes for each part; an error or CTRL-C ends it. *)
WriteData ==
    /\ w.pc = "write"
    /\ \/ /\ Well
          /\ IF Written THEN w' = To("close") /\ UNCHANGED disk
             ELSE disk' = [disk EXCEPT ![w.target].new = @ + 1] /\ UNCHANGED w
       \/ /\ Fault
          /\ w' = [To("close") EXCEPT !.end0 = TRUE] /\ UNCHANGED disk
    /\ UNCHANGED <<opt, mv, swap, told>>

(* fsync and close may fail too. *)
Close ==
    /\ w.pc = "close"
    /\ \/ Well /\ w' = To("permit")
       \/ Fault /\ w' = [To("permit") EXCEPT !.end0 = TRUE]
    /\ UNCHANGED <<disk, opt, mv, swap, told>>

(* Fault: the permission is left as the write needed it. *)
PermissionLeft == disk[w.target].ro

(* The file gets the permission of the old one. *)
Permission == IF opt.existed THEN opt.ro ELSE disk[w.target].ro

(* It is not looked at whether that works. *)
Permit ==
    /\ w.pc = "permit"
    /\ \/ /\ Well /\ w' = To("converted")
          /\ disk' = [disk EXCEPT ![w.target].ro = Permission]
       \/ /\ opt.existed /\ Fault /\ w' = [To("converted") EXCEPT !.unset = TRUE]
          /\ UNCHANGED disk
    /\ UNCHANGED <<opt, mv, swap, told>>

(* eval_charconvert writes over the file; then the temporary one goes.     *)
CharConvert ==
    /\ w.pc = "converted"
    /\ \/ /\ w.target = Tmp /\ ~w.end0
          /\ \/ /\ disk[File].new # Whole /\ UNCHANGED w /\ Well
                /\ disk' = [disk EXCEPT ![File] =
                              IF Exists(File)
                              THEN [disk[File] EXCEPT !.old = 0, !.new = @ + 1]
                              ELSE [Fresh(FALSE) EXCEPT !.new = 1]]
             \/ Fault /\ w' = [w EXCEPT !.end0 = TRUE] /\ UNCHANGED disk
       \/ /\ w.target = Tmp => w.end0 \/ disk[File].new = Whole
          /\ w' = To("end") /\ Well
          /\ disk' = [disk EXCEPT ![Tmp] = Absent]
    /\ UNCHANGED <<opt, mv, swap, told>>

-----------------------------------------------------------------------------
(* The end.                                                                *)

UndoWrite ==
    /\ w.pc = "end" /\ w.end0
    /\ IF w.backup = NoName THEN w' = Fail(w) /\ UNCHANGED mv
       ELSE IF w.copying THEN w' = To("copy back") /\ UNCHANGED mv
       ELSE w' = To("mv") /\ Rename(w.backup, File, "undo")
    /\ UNCHANGED <<disk, opt, swap, faults, told>>

(* The backup is copied over the new file. *)
CopyBack ==
    /\ w.pc = "copy back"
    /\ \/ /\ Well /\ Exists(w.backup) /\ ~disk[File].ro
          /\ disk' = [disk EXCEPT ![File] = IF Exists(File)
                                            THEN [@ EXCEPT !.old = 0, !.new = 0]
                                            ELSE Fresh(w.ro)]
          /\ w' = To("copying back")
       \/ /\ IF disk[File].ro \/ ~Exists(w.backup) THEN Well ELSE Fault
          /\ w' = Fail(w) /\ UNCHANGED disk
    /\ UNCHANGED <<opt, mv, swap, told>>

CopyBackData ==
    /\ w.pc = "copying back"
    /\ \/ /\ Well
          /\ IF disk[File].old = disk[w.backup].old
             THEN w' = Fail([w EXCEPT !.end0 = FALSE]) /\ UNCHANGED disk
             ELSE disk' = [disk EXCEPT ![File].old = @ + 1] /\ UNCHANGED w
       \/ Fault /\ w' = Fail(w) /\ UNCHANGED disk
    /\ UNCHANGED <<opt, mv, swap, told>>

(* With 'patchmode' the backup becomes the original, if there is none; a   *)
(* new file gets an empty one.                                             *)
PatchMode ==
    /\ w.pc = "end" /\ ~w.end0
    /\ IF opt.pm /\ opt.dobackup /\ w.backup # NoName /\ ~Exists(Org)
       THEN w' = To("mv") /\ Rename(w.backup, Org, "org") /\ UNCHANGED <<disk, faults>>
       ELSE /\ w' = To("cleanup") /\ UNCHANGED mv
            /\ \/ /\ opt.pm /\ opt.dobackup /\ w.backup = NoName /\ ~Exists(Org) /\ Well
                  /\ disk' = [disk EXCEPT ![Org] = Fresh(opt.ro)]
               \/ UNCHANGED <<disk, faults>>
    /\ UNCHANGED <<opt, swap, told>>

(* Remove the backup unless 'backup' option is set. *)
Cleanup ==
    /\ w.pc = "cleanup"
    /\ IF opt.bk \/ w.backup = NoName THEN UNCHANGED <<disk, faults>> ELSE Remove(w.backup)
    /\ w' = [To("done") EXCEPT !.result = "ok"]
    /\ UNCHANGED <<opt, mv, swap, told>>

Done == w.pc = "done" /\ UNCHANGED vars

-----------------------------------------------------------------------------
Options ==
    [existed : BOOLEAN, ro : BOOLEAN, link : {"no", "hard", "sym"},
     append : BOOLEAN, force : BOOLEAN,
     dobackup : BOOLEAN, bk : BOOLEAN, pm : BOOLEAN,
     bkc : {"yes", "auto", "no"}, breaks : BOOLEAN]

(* What is of no consequence has one value. *)
Meant(o) ==
    /\ ~o.existed => ~o.ro /\ o.link = "no"
    /\ ~o.dobackup => ~o.pm
    /\ ~(o.existed /\ o.dobackup) => ~o.bk /\ o.bkc = "auto"
    /\ o.breaks => o.link # "no" /\ o.bkc = "auto"

Init ==
    /\ opt \in {o \in Options : Meant(o)}
    /\ \E bak \in IF opt.existed /\ opt.dobackup THEN {Absent, Theirs, Linked(opt.ro)}
                  ELSE {Absent},
          org \in IF opt.pm THEN {Absent, Theirs} ELSE {Absent} :
         disk = [n \in Names |-> IF n = File /\ opt.existed THEN Original(opt.ro)
                                 ELSE IF n = Bak(1) THEN bak
                                 ELSE IF n = Org THEN org ELSE Absent]
    /\ w = [pc |-> "begin", backup |-> NoName, dir |-> 1, copying |-> FALSE, unread |-> FALSE,
            errmsg |-> FALSE, end0 |-> FALSE, target |-> NoName, ro |-> opt.ro,
            unset |-> FALSE, result |-> "none", warned |-> FALSE]
    /\ mv = NoCall
    /\ swap = "no" /\ faults = 0 /\ told = FALSE

VimRename == \/ MvRemove \/ MvRename \/ MvOpen \/ MvCopy \/ MvUnlink
             \/ MvAside \/ MvOnto \/ MvAgain

Next ==
    \/ VimRename
    \/ Begin \/ Choose \/ CopyName \/ CopyCreate \/ CopyData \/ NoBackup \/ RenameToBackup
    \/ Prepare \/ Preserve \/ Convert \/ Open \/ OpenFails \/ DeleteFirst
    \/ Restore \/ DropCopy \/ GiveUp \/ WriteData \/ Close \/ Permit \/ CharConvert
    \/ UndoWrite \/ CopyBack \/ CopyBackData \/ PatchMode \/ Cleanup
    \/ Done

Spec == Init /\ [][Next]_vars
-----------------------------------------------------------------------------
Amounts == 0 .. Whole
TypeOK ==
    /\ disk \in [Names -> [id : {"none", "orig", "user", "fresh", "link"}, old : Amounts,
                           new : Amounts, ro : BOOLEAN]]
    /\ opt \in Options
    /\ {w.backup, w.target, mv.from, mv.to} \subseteq Names \cup {NoName}
    /\ w.dir \in 1 .. Dirs + 1 /\ w.result \in {"none", "ok", "fail"}
    /\ {w.copying, w.unread, w.errmsg, w.end0, w.unset, w.ro, w.warned, told}
         \subseteq BOOLEAN
    /\ swap \in {"no", "kept", "failed", "other"} /\ faults \in 0 .. MaxFaults

Failed == w.pc = "done" /\ w.result = "fail"

(* At each moment the whole old text or the whole new text can be had      *)
(* after a crash, from the file, a backup or the swap file: if there is to *)
(* be a backup, or the user's own text is in the swap file.  Except after  *)
(* three faults in a row: the original, renamed as it could not be read    *)
(* though a copy was chosen, is renamed back by a copy that fails half way *)
(* (told), and restore_backup, finding a file under the name, removes the  *)
(* backup it takes for a copy.                                             *)
NothingLost ==
    (opt.existed /\ ~opt.force /\ (NeedsBackup \/ swap \notin {"failed", "other"}))
      => \/ \E n \in Names : disk[n].old = Whole
         \/ disk[File].new = Whole
         \/ swap = "kept"
         \/ told /\ w.copying

(* What is on the disk is of its type, and enough of it to get the text.   *)
DiskIsSafe == TypeOK /\ NothingLost

(* The file was renamed to the backup: it could not be read for a copy, or *)
(* 'backupcopy' says to break a link, also when the file is appended to.   *)
Renamed == NeedsBackup /\ (w.unread \/ ~w.copying)

(* When the write succeeds the whole text is in the file, after what was   *)
(* there when it is appended, and the file has the permission it had, if   *)
(* that could be set.  Not when a forced append finds no file, as it was   *)
(* renamed, or goes through 'charconvert', which writes over the file.     *)
SuccessIsWritten ==
    w.result = "ok" =>
      \/ /\ disk[File].new = Whole
         /\ disk[File].old = IF opt.append /\ opt.existed THEN Whole ELSE 0
         /\ (opt.existed /\ w.target = File) => disk[File].ro = opt.ro \/ w.unset
      \/ opt.append /\ opt.force /\ (Renamed \/ w.target = Tmp)

(* A link stays one where 'backupcopy' is "yes" or "auto" without a flag   *)
(* to break it, if the file can be read.                                   *)
LinkKept ==
    (opt.link # "no" /\ ~opt.force /\ opt.bkc # "no" /\ ~opt.breaks /\ ~w.unread)
      => disk[File].id = "orig"

(* The backup that stays after a write is the whole original. *)
BackupIsWhole ==
    (w.result = "ok" /\ NeedsBackup /\ opt.bk /\ ~opt.force)
      => \E n \in Names \ {File} : disk[n].old = Whole

(* What a success promises: the text, the permission, the link, the backup. *)
SuccessIsComplete == SuccessIsWritten /\ LinkKept /\ BackupIsWhole

(* The file stays under the name that vim_rename goes through. *)
LeftAside == disk[Temp].old = Whole

(* When it fails without the warning that the file may be damaged, the     *)
(* file is as it was (or vim_rename told that it is not).  Except when     *)
(* vim_rename could not move it to its backup, of which it is another      *)
(* name, nor back.                                                         *)
WarnedIfDamaged ==
    (Failed /\ ~w.warned /\ opt.existed /\ ~opt.force /\ ~told /\ ~LeftAside)
      => disk[File].old = Whole /\ disk[File].new = 0

(* One system call that fails, or CTRL-C, does not cost the file its old   *)
(* text, if a backup is made and the name to write to is the file's own.   *)
OneFaultRestored ==
    (Failed /\ faults <= 1 /\ NeedsBackup /\ ~opt.force /\ w.target = File)
      => disk[File].old = Whole /\ disk[File].new = 0

(* A failure can be lived with: the file is whole, or the user knows.      *)
FailureIsHonest == WarnedIfDamaged /\ OneFaultRestored

(* The files of the user that have a name of a backup stay, if 'backup' is *)
(* off, and so does the original that 'patchmode' has kept.                *)
OthersKept ==
    [][/\ ~opt.bk /\ disk[Bak(1)].id = "user" => disk'[Bak(1)].id = "user"
       /\ disk[Org].id = "user" => disk'[Org].id = "user"]_vars
=============================================================================

--------------------------- MODULE FileWriteProofs ---------------------------

(***************************************************************************)
(* Proofs about FileWrite, for any number of entries in 'backupdir' and of *)
(* system calls that fail: a crash loses no text that was to be kept, a    *)
(* success and the silence of a failure can be relied on, and the user's   *)
(* other files stay.                                                       *)
(***************************************************************************)
EXTENDS FileWrite, TLAPS

(***************************************************************************)
(* What is where.                                                          *)
(***************************************************************************)
Backups == Names \ {File, Tmp, Org, Temp}

(* The file holds the old text and nothing else. *)
FileWhole == disk[File].old = Whole /\ disk[File].new = 0

(* So does the backup. *)
BackupWhole == w.backup # NoName /\ disk[w.backup].old = Whole /\ disk[w.backup].new = 0

(* vim_rename has the file under the name that it goes through. *)
SetAside == ~Exists(File) /\ disk[Temp].old = Whole /\ disk[Temp].new = 0

(* The write has to keep the old text: there is one, and a backup of it.   *)
Guarded == NeedsBackup /\ ~opt.force

(* The loss that nothing guards against: vim_rename left a part of the     *)
(* backup under the file's name, and restore_backup then removes it.       *)
CopyThrown == told /\ w.copying

(***************************************************************************)
(* The invariant, part by part.                                            *)
(***************************************************************************)
Pcs == {"begin", "choose", "copy", "create", "copying", "nobackup", "rename", "mv",
        "prepare", "preserve", "convert", "open", "delete", "restore", "copied", "missing",
        "write", "close", "permit", "converted", "end", "copy back", "copying back",
        "cleanup", "done"}

Content == [id : {"none", "orig", "user", "fresh", "link"}, old : Amounts, new : Amounts,
            ro : BOOLEAN]

Local == [pc : Pcs, backup : Backups \cup {NoName}, dir : 1 .. Dirs + 1,
          copying : BOOLEAN, unread : BOOLEAN, errmsg : BOOLEAN, end0 : BOOLEAN,
          target : {NoName, File, Tmp}, ro : BOOLEAN, unset : BOOLEAN,
          result : {"none", "ok", "fail"}, warned : BOOLEAN]

Call == [from : Names \cup {NoName}, to : Names \cup {NoName},
         at : {"none", "remove", "aside", "onto", "again", "rename", "open", "copy",
               "unlink"},
         for : {"none", "backup", "restore", "put back", "undo", "org"}]

Typed ==
    /\ disk \in [Names -> Content]
    /\ opt \in Options /\ Meant(opt)
    /\ w \in Local /\ mv \in Call
    /\ swap \in {"no", "kept", "failed", "other"} /\ faults \in 0 .. MaxFaults
    /\ told \in BOOLEAN
    /\ \A n \in Names : ~Exists(n) => disk[n].old = 0 /\ disk[n].new = 0

(* The calls of vim_rename, and the way to them. *)
Calls ==
    /\ w.pc = "mv" <=> mv.for # "none"
    /\ mv.for # "none" <=> mv.at # "none"
    /\ mv.for = "backup" =>
         mv.from = File /\ mv.to = w.backup /\ w.backup # NoName /\ Renamed
    /\ mv.for = "org" => mv.from = w.backup /\ mv.to = Org /\ w.backup # NoName
    /\ mv.for \in {"restore", "put back", "undo"} =>
         mv.from = w.backup /\ mv.to = File /\ w.backup # NoName
    /\ mv.for \in {"restore", "put back"} => w.target = File
    /\ mv.for = "restore" => w.copying
    /\ mv.for = "put back" => ~w.copying
    /\ mv.at \in {"aside", "onto", "again"} => mv.for = "backup"

Way ==
    /\ w.pc = "done" <=> w.result # "none"
    /\ w.backup # NoName => NeedsBackup
    /\ w.pc \in {"choose", "copy", "create", "copying", "nobackup", "rename"} => NeedsBackup
    /\ w.pc \in {"begin", "choose", "copy", "rename"} => w.backup = NoName
    /\ w.pc \in {"create", "copying", "copied", "copy back", "copying back"}
         => w.backup # NoName
    /\ w.pc \in {"copy", "create", "copying", "nobackup", "copied"} => w.copying
    /\ w.pc = "rename" => Renamed
    /\ w.pc = "create" \/ mv.for = "backup" => w.dir <= Dirs
    /\ w.pc \in {"open", "delete", "write", "close", "permit", "converted"}
         => w.target # NoName
    /\ w.pc = "copied" => w.target = File
    /\ w.pc = "delete" => opt.force /\ ~opt.append
    /\ w.pc \in {"copy back", "copying back"} \/ mv.for = "undo" => w.end0

(* What went wrong was a system call that failed. *)
Blamed ==
    /\ w.unread => faults >= 1
    /\ mv.at \in {"open", "copy", "unlink", "again"} => faults >= 1
    /\ w.end0 /\ w.pc # "done" => faults >= 1
    /\ mv.for = "undo" /\ mv.at \in {"open", "copy", "unlink"} => faults >= 2
    /\ told => faults >= 2

(* Where the file may be set aside: on the way, or after two faults. *)
Between ==
    \/ mv.at \in {"onto", "again"}
    \/ (w.pc = "rename" \/ mv.at = "remove") /\ faults >= 2

(* Until it is opened the file is as it was, or was renamed or deleted. *)
Before ==
    /\ w.pc \in {"begin", "choose", "copy", "create", "copying", "nobackup", "rename"}
         \/ mv.for = "backup"
         => /\ ~Exists(Tmp)
            /\ IF opt.existed THEN FileWhole \/ (SetAside /\ Between) ELSE ~Exists(File)
    /\ mv.at \in {"onto", "again"} => SetAside
    /\ w.pc \in {"prepare", "preserve", "convert", "open", "delete"} =>
         /\ ~Exists(Tmp)
         /\ ~Exists(File) \/ (opt.existed /\ FileWhole)
         /\ opt.existed /\ ~Renamed /\ (opt.append \/ ~opt.force) => FileWhole

(* The backup that is being made, and the one that is there. *)
Kept ==
    /\ w.pc = "copying" => disk[w.backup].new = 0
    /\ w.pc = "nobackup" /\ w.backup # NoName /\ ~w.errmsg => BackupWhole
    /\ mv.for = "backup" /\ mv.at = "copy" => disk[w.backup].new = 0
    /\ mv.for = "backup" /\ mv.at = "unlink" => BackupWhole
    /\ Guarded /\ \/ w.pc \in {"prepare", "preserve", "convert", "open", "restore", "write",
                               "close", "permit", "converted", "end", "copy back",
                               "copying back"}
                  \/ mv.for \in {"restore", "put back", "undo", "org"}
         => BackupWhole

(* A file that is being filled is there, and has no more of the old text   *)
(* than the one it is filled from.                                         *)
There ==
    /\ w.pc = "copying" => Exists(w.backup)
    /\ mv.at = "copy" => Exists(mv.to) /\ disk[mv.to].old <= disk[mv.from].old
    /\ w.pc \in {"write", "close"} => Exists(w.target)
    /\ w.pc = "copying back" => Exists(File) /\ disk[File].old <= disk[w.backup].old

(* The way back. *)
Back ==
    /\ w.pc = "restore" /\ opt.existed /\ ~opt.force =>
         (~Exists(File) /\ Renamed) \/ FileWhole
    /\ mv.for \in {"restore", "put back"} /\ opt.existed /\ ~opt.force
         /\ mv.at \in {"remove", "rename", "open"}
         => (~Exists(File) /\ Renamed) \/ FileWhole
    /\ mv.for = "restore" /\ mv.at \in {"remove", "rename", "open"} => ~Exists(File)
    /\ mv.for \in {"restore", "put back", "undo"} /\ mv.at = "copy" => disk[File].new = 0
    /\ mv.for \in {"restore", "put back", "undo"} /\ mv.at = "unlink" /\ Guarded
         => FileWhole
    /\ w.pc = "copying back" => disk[File].new = 0
    /\ w.pc = "copied" /\ opt.existed /\ ~opt.force =>
         FileWhole \/ (BackupWhole /\ (~Exists(File) \/ told) /\ faults >= 2)
    /\ w.pc = "missing" /\ opt.existed /\ ~opt.force =>
         \/ FileWhole
         \/ CopyThrown
         \/ /\ NeedsBackup => BackupWhole
            /\ ~Exists(File) \/ told
            /\ w.target = File => faults >= 2

(* Where it ends without the new text. *)
Ends ==
    /\ w.result = "fail" /\ opt.existed /\ ~opt.force =>
         /\ NeedsBackup => FileWhole \/ BackupWhole \/ CopyThrown \/ LeftAside
         /\ w.warned \/ told \/ FileWhole \/ LeftAside
         /\ NeedsBackup /\ faults <= 1 /\ w.target = File => FileWhole
    /\ opt.existed /\ ~opt.force /\ ~NeedsBackup /\ swap = "no" =>
         FileWhole /\ w.pc \in {"begin", "prepare", "preserve", "done"}

(* The new text. *)
Excused == opt.append /\ opt.force /\ (Renamed \/ w.target = Tmp)

OldPart == IF opt.append /\ opt.existed THEN Whole ELSE 0

Complete == /\ disk[File].new = Whole /\ disk[File].old = OldPart
            /\ opt.existed /\ w.target = File => disk[File].ro = opt.ro \/ w.unset

New ==
    /\ w.pc \in {"write", "close", "permit", "converted"} /\ ~Excused =>
         /\ w.target = File => disk[File].old = OldPart
         /\ w.target = Tmp => ~opt.append /\ (disk[File].new > 0 => disk[File].old = 0)
    /\ w.pc \in {"write", "close", "permit"} /\ w.target = Tmp => disk[File].new = 0
    /\ w.pc \in {"close", "permit", "converted"} /\ ~w.end0 => disk[w.target].new = Whole
    /\ w.pc = "converted" /\ opt.existed /\ w.target = File =>
         disk[File].ro = opt.ro \/ w.unset
    /\ (w.pc = "end" /\ ~w.end0) \/ mv.for = "org" \/ w.pc = "cleanup" \/ w.result = "ok"
         => Excused \/ Complete
    /\ mv.for = "org" /\ mv.at = "unlink" /\ Guarded => disk[Org].old = Whole
    /\ (w.pc = "cleanup" \/ (w.result = "ok" /\ opt.bk)) /\ Guarded =>
         \E n \in Names \ {File} : disk[n].old = Whole

(* A link that is to stay is copied. *)
Links ==
    (opt.link # "no" /\ ~opt.force /\ opt.bkc # "no" /\ ~opt.breaks /\ ~w.unread) =>
      /\ disk[File].id = "orig"
      /\ w.backup # NoName => w.copying
      /\ w.pc # "rename"
      /\ mv.for \in {"none", "org"}

(* Nothing is read-only unless the file was; then it is written with '!'.  *)
Writable ==
    /\ w.ro => opt.ro
    /\ \A n \in Names : disk[n].ro => opt.ro
    /\ opt.existed /\ ~opt.force /\ w.pc \notin {"begin", "done"} => ~opt.ro

(* The files of the user are under two names only, and not the backup's.   *)
Users ==
    /\ ~opt.bk => \A n \in Names \ {Bak(1), Org} : disk[n].id # "user"
    /\ ~opt.bk /\ w.backup # NoName => disk[w.backup].id # "user"
    /\ mv.for = "org" => disk[Org].id # "user"

IInv == /\ Typed /\ Calls /\ Way /\ Blamed
        /\ Before /\ Kept /\ There /\ Back /\ Ends /\ New
        /\ Links /\ Writable /\ Users
-----------------------------------------------------------------------------

(***************************************************************************)
(* Names.                                                                  *)
(***************************************************************************)
LEMMA NameFacts ==
    /\ File \in Names /\ Tmp \in Names /\ Org \in Names /\ Temp \in Names
    /\ NoName \notin Names
    /\ File # Tmp /\ File # Org /\ Tmp # Org
    /\ Temp # File /\ Temp # Tmp /\ Temp # Org
    /\ \A i \in 1 .. Dirs : Bak(i) \in Backups /\ Alt(i) \in Backups /\ Alt(i) # Bak(1)
    /\ Bak(1) \in Backups /\ Bak(1) \in Names
<1>1. 1 \in 1 .. Dirs
  BY FileWriteAssumption
<1>2. ASSUME NEW i \in 1 .. Dirs
      PROVE  Bak(i) \in Names /\ Alt(i) \in Names
  BY DEF Names
<1>3. ASSUME NEW i
      PROVE  /\ Bak(i) \notin {File, Tmp, Org, Temp} /\ Alt(i) \notin {File, Tmp, Org, Temp}
             /\ Alt(i) # Bak(1)
  BY DEF Bak, Alt, File, Tmp, Org, Temp, Name
<1>4. NoName \notin Names
  <2>1. NoName # File /\ NoName # Tmp /\ NoName # Org /\ NoName # Temp
    BY DEF NoName, File, Tmp, Org, Temp, Name
  <2>2. \A i : NoName # Bak(i) /\ NoName # Alt(i)
    BY DEF NoName, Bak, Alt, Name
  <2> QED  BY <2>1, <2>2 DEF Names
<1>5. File \in Names /\ Tmp \in Names /\ Org \in Names /\ Temp \in Names
  BY DEF Names
<1>6. File # Tmp /\ File # Org /\ Tmp # Org /\ Temp # File /\ Temp # Tmp /\ Temp # Org
  BY DEF File, Tmp, Org, Temp, Name
<1>7. \A i \in 1 .. Dirs : Bak(i) \in Backups /\ Alt(i) \in Backups /\ Alt(i) # Bak(1)
  BY <1>2, <1>3 DEF Backups
<1>8. Bak(1) \in Backups /\ Bak(1) \in Names
  BY <1>1, <1>2, <1>7
<1> QED  BY <1>4, <1>5, <1>6, <1>7, <1>8

(* A backup's name is none of the others, and it can be that there is none. *)
LEMMA BackupFacts ==
    ASSUME Typed
    PROVE  /\ NoName \notin Backups /\ File \notin Backups /\ Org \notin Backups
           /\ Tmp \notin Backups /\ Temp \notin Backups
           /\ NoName # File /\ NoName # Tmp /\ NoName # Org
           /\ w.backup # NoName =>
                /\ w.backup \in Names /\ w.backup \in Backups
                /\ w.backup # File /\ w.backup # Tmp /\ w.backup # Org
                /\ w.backup # Temp
BY NameFacts DEF Typed, Local, Backups

(* No file becomes one of the user's, or read-only. *)
Modest ==
    \A n \in Names : /\ disk'[n].id = "user" => disk[n].id = "user"
                     /\ disk'[n].ro => disk[n].ro \/ opt.ro

LEMMA UntouchedModestly ==
    ASSUME UNCHANGED disk
    PROVE  Modest
BY DEF Modest

LEMMA UsersStay ==
    ASSUME Users, Modest, UNCHANGED opt, Typed',
           ~opt.bk /\ w'.backup # NoName => disk[w'.backup].id # "user",
           mv'.for = "org" => disk[Org].id # "user"
    PROVE  Users'
<1>1. ASSUME NEW n \in Names, disk[n].id # "user"
      PROVE  disk'[n].id # "user"
  BY <1>1 DEF Modest
<1>2. w'.backup # NoName => w'.backup \in Names
  BY DEF Typed, Local, Backups
<1>3. ~opt.bk => \A n \in Names \ {Bak(1), Org} : disk'[n].id # "user"
  BY <1>1 DEF Users
<1>4. ~opt.bk /\ w'.backup # NoName => disk'[w'.backup].id # "user"
  BY <1>1, <1>2
<1>5. mv'.for = "org" => disk'[Org].id # "user"
  BY <1>1, NameFacts
<1> QED  BY <1>3, <1>4, <1>5 DEF Users

(* How much of the texts a file holds. *)
LEMMA Measured ==
    ASSUME Typed, NEW n \in Names
    PROVE  /\ disk[n] \in Content /\ disk[n].old \in Amounts /\ disk[n].new \in Amounts
           /\ disk[n].old >= 0 /\ faults \in Nat
<1>1. disk[n] \in Content /\ faults \in Nat
  BY FileWriteAssumption DEF Typed
<1>2. disk[n].old \in Amounts /\ disk[n].new \in Amounts
  BY <1>1 DEF Content
<1> QED  BY <1>1, <1>2 DEF Amounts
-----------------------------------------------------------------------------

(***************************************************************************)
(* What the steps do to the local variables.                               *)
(***************************************************************************)

(* They go to another place; what else may change is of no consequence.    *)
Goes(pc, backup, target, end0) ==
    /\ w' \in Local /\ w'.pc = pc /\ w'.backup = backup /\ w'.target = target
    /\ w'.end0 = end0 /\ (w'.ro => w.ro) /\ (w.unset => w'.unset)
    /\ w'.copying = w.copying /\ w'.unread = w.unread
    /\ w'.result = w.result /\ w'.warned = w.warned

GoesTo(pc) == Goes(pc, w.backup, w.target, w.end0)

LEMMA ToGoes ==
    ASSUME Typed, NEW p \in Pcs, w' = To(p)
    PROVE  GoesTo(p)
BY DEF Typed, Local, To, Goes, GoesTo

(* The label fail. *)
Fails(end0) ==
    /\ w' \in Local /\ w'.pc = "done" /\ w'.backup = w.backup /\ w'.target = w.target
    /\ w'.end0 = end0 /\ (w'.ro => w.ro) /\ (w.unset => w'.unset)
    /\ w'.copying = w.copying /\ w'.unread = w.unread
    /\ w'.result = "fail" /\ w'.warned = end0

LEMMA FailFails ==
    ASSUME Typed, NEW e \in BOOLEAN, w' = Fail([w EXCEPT !.end0 = e])
    PROVE  Fails(e)
<1>1. w' = [w EXCEPT !.pc = "done", !.end0 = e, !.result = "fail", !.warned = e]
  BY DEF Typed, Local, Fail
<1>2. w' \in Local
  BY <1>1 DEF Typed, Local, Pcs
<1> QED  BY <1>1, <1>2 DEF Typed, Local, Fails

LEMMA FailPlain ==
    ASSUME Typed, w' = Fail(w)
    PROVE  Fails(w.end0) /\ w.end0 \in BOOLEAN
BY DEF Typed, Local, Fail, Fails, Pcs

(* What a step costs. *)
Spends ==
    /\ faults' \in 0 .. MaxFaults
    /\ faults >= 1 => faults' >= 1
    /\ faults >= 2 => faults' >= 2
    /\ faults' <= 1 => faults <= 1

LEMMA Costs ==
    ASSUME Typed
    PROVE  /\ Well => Spends
           /\ Fault => Spends /\ faults' >= 1 /\ (faults >= 1 => faults' >= 2)
BY FileWriteAssumption DEF Typed, Well, Fault, Spends

-----------------------------------------------------------------------------

(***************************************************************************)
(* The backup is chosen.                                                   *)
(***************************************************************************)

(* Only a call of vim_rename, and what goes on after it, may find the file *)
(* set aside.                                                              *)
LEMMA NotAside ==
    ASSUME IInv, w.pc \notin {"rename", "mv"}
    PROVE  /\ mv.at = "none" /\ mv.for = "none"
           /\ w.pc \in {"begin", "choose", "copy", "create", "copying", "nobackup"} =>
                /\ ~Exists(Tmp)
                /\ IF opt.existed THEN FileWhole ELSE ~Exists(File)
<1> USE DEF IInv
<1>1. mv.at = "none" /\ mv.for = "none"
  BY DEF Calls
<1> QED  BY <1>1 DEF Before, Between

LEMMA BeginStep ==
    ASSUME IInv, Begin
    PROVE  IInv'
<1> USE DEF IInv
<1>1. \/ GoesTo(IF NeedsBackup THEN "choose" ELSE "prepare") /\ (opt.ro => opt.force)
      \/ opt.existed /\ Fails(w.end0)
  BY ToGoes, FailPlain DEF Begin, Pcs
<1>2. w.pc = "begin" /\ UNCHANGED <<disk, opt, mv, swap, faults, told>>
  BY DEF Begin
<1>3. Typed'
  BY <1>1, <1>2 DEF Typed, Exists, Goes, GoesTo, Fails
<1>4. Calls'
  BY <1>1, <1>2 DEF Calls, Goes, GoesTo, Fails
<1>5. Way'
  BY <1>1, <1>2 DEF Way, Calls, NeedsBackup, Goes, GoesTo, Fails
<1>6. Blamed'
  BY <1>1, <1>2 DEF Blamed, Goes, GoesTo, Fails
<1>7. Before'
  BY <1>1, <1>2, NotAside
     DEF Before, FileWhole, Exists, Renamed, NeedsBackup, Goes,
     GoesTo, Fails
<1>8. Kept'
  BY <1>1, <1>2 DEF Kept, BackupWhole, Guarded, NeedsBackup, Goes, GoesTo, Fails
<1>9. There'
  BY <1>1, <1>2 DEF There, Exists, Goes, GoesTo, Fails
<1>10. Back'
  BY <1>1, <1>2
     DEF Back, FileWhole, Exists, Renamed, Guarded, NeedsBackup, Goes, GoesTo, Fails
<1>11. Ends'
  BY <1>1, <1>2, NotAside
     DEF Ends, FileWhole, NeedsBackup, Goes, GoesTo, Fails
<1>12. New'
  BY <1>1, <1>2
     DEF New, Excused, Complete, OldPart, Renamed, Guarded, NeedsBackup, Goes, GoesTo,
     Fails
<1>13. Links'
  BY <1>1, <1>2 DEF Links, Goes, GoesTo, Fails
<1>14. Writable'
  BY <1>1, <1>2 DEF Writable, Goes, GoesTo, Fails
<1>15. Users'
  BY <1>1, <1>2 DEF Users, Goes, GoesTo, Fails
<1> QED  BY <1>3, <1>4, <1>5, <1>6, <1>7, <1>8, <1>9, <1>10, <1>11, <1>12, <1>13, <1>14,
            <1>15

LEMMA Chosen ==
    ASSUME Typed, Choose
    PROVE  /\ w' \in Local /\ w'.pc \in {"copy", "rename"} /\ w'.copying \in Copying
           /\ w'.pc = "copy" => w'.copying
           /\ w'.pc = "rename" => ~w'.copying \/ w'.unread
           /\ Spends /\ (w'.unread = w.unread \/ (w'.unread /\ faults' >= 1))
           /\ w'.backup = w.backup /\ w'.end0 = w.end0 /\ w'.target = w.target
           /\ w'.ro = w.ro /\ w'.result = w.result /\ w'.warned = w.warned
<1>1. PICK copying \in Copying :
         LET chosen == [w EXCEPT !.copying = copying]
         IN  \/ Well /\ w' = [chosen EXCEPT !.pc = IF copying THEN "copy" ELSE "rename"]
             \/ copying /\ Fault /\ w' = [chosen EXCEPT !.pc = "rename", !.unread = TRUE]
  BY DEF Choose
<1>2. copying \in BOOLEAN
  BY DEF Copying
<1>3. w \in Local
  BY DEF Typed
<1>4. CASE Well /\ w' = [[w EXCEPT !.copying = copying]
                            EXCEPT !.pc = IF copying THEN "copy" ELSE "rename"]
  <2>1. CASE copying
    BY <1>3, <1>4, <2>1, Costs DEF Local, Pcs
  <2>2. CASE ~copying
    BY <1>2, <1>3, <1>4, <2>2, Costs DEF Local, Pcs
  <2> QED  BY <2>1, <2>2
<1>5. CASE /\ copying /\ Fault
           /\ w' = [[w EXCEPT !.copying = copying] EXCEPT !.pc = "rename", !.unread = TRUE]
  BY <1>3, <1>5, Costs DEF Local, Pcs
<1> QED  BY <1>1, <1>4, <1>5

LEMMA ChooseStep ==
    ASSUME IInv, Choose
    PROVE  IInv'
<1> USE DEF IInv
<1>1. /\ w' \in Local /\ w'.pc \in {"copy", "rename"} /\ w'.copying \in Copying
      /\ w'.pc = "copy" => w'.copying
      /\ w'.pc = "rename" => ~w'.copying \/ w'.unread
      /\ Spends /\ (w'.unread = w.unread \/ (w'.unread /\ faults' >= 1))
      /\ w'.backup = w.backup /\ w'.end0 = w.end0 /\ w'.target = w.target
      /\ w'.ro = w.ro /\ w'.result = w.result /\ w'.warned = w.warned
  BY Chosen
<1>2. w.pc = "choose" /\ UNCHANGED <<disk, opt, mv, swap, told>>
  BY DEF Choose
<1>3. Typed'
  BY <1>1, <1>2 DEF Typed, Exists, Spends
<1>4. Calls'
  BY <1>1, <1>2 DEF Calls
<1>5. Way'
  BY <1>1, <1>2 DEF Way, Calls, Renamed, NeedsBackup
<1>6. Blamed'
  BY <1>1, <1>2 DEF Blamed, Spends
<1>7. Before'
  BY <1>1, <1>2, NotAside
     DEF Before, FileWhole, Exists, Renamed, NeedsBackup, Goes,
     GoesTo, Fails
<1>8. Kept'
  BY <1>1, <1>2 DEF Kept, BackupWhole, Guarded, NeedsBackup
<1>9. There'
  BY <1>1, <1>2 DEF There, Exists
<1>10. Back'
  BY <1>1, <1>2 DEF Back, Calls
<1>11. Ends'
  BY <1>1, <1>2 DEF Ends, NeedsBackup, Way
<1>12. New'
  BY <1>1, <1>2 DEF New, Calls, Way
<1>13. Links'
  BY <1>1, <1>2 DEF Links, Copying, Typed, Options
<1>14. Writable'
  BY <1>1, <1>2 DEF Writable
<1>15. Users'
  BY <1>1, <1>2 DEF Users
<1> QED  BY <1>3, <1>4, <1>5, <1>6, <1>7, <1>8, <1>9, <1>10, <1>11, <1>12, <1>13, <1>14,
            <1>15

LEMMA NoBackupStep ==
    ASSUME IInv, NoBackup
    PROVE  IInv'
<1> USE DEF IInv
<1>1. \/ GoesOn /\ GoesTo("prepare")
      \/ Fails(w.end0)
  BY FailPlain DEF NoBackup, Goes, GoesTo, To, Typed, Local, Pcs
<1>2. w.pc = "nobackup" /\ UNCHANGED <<disk, opt, mv, swap, faults, told>>
  BY DEF NoBackup
<1>3. Typed'
  BY <1>1, <1>2 DEF Typed, Exists, Goes, GoesTo, Fails
<1>4. Calls'
  BY <1>1, <1>2 DEF Calls, Goes, GoesTo, Fails
<1>5. Way'
  BY <1>1, <1>2 DEF Way, Calls, NeedsBackup, Goes, GoesTo, Fails
<1>6. Blamed'
  BY <1>1, <1>2 DEF Blamed, Goes, GoesTo, Fails
<1>7. Before'
  BY <1>1, <1>2, NotAside
     DEF Before, FileWhole, Exists, Renamed, NeedsBackup, Goes,
     GoesTo, Fails
<1>8. Kept'
  BY <1>1, <1>2 DEF Kept, BackupWhole, Guarded, NeedsBackup, Goes, GoesTo, Fails, GoesOn
<1>9. There'
  BY <1>1, <1>2 DEF There, Exists, Goes, GoesTo, Fails
<1>10. Back'
  BY <1>1, <1>2
     DEF Back, FileWhole, Exists, Renamed, Guarded, NeedsBackup, Goes, GoesTo, Fails
<1>11. Ends'
  BY <1>1, <1>2, NotAside
     DEF Ends, FileWhole, NeedsBackup, Way, Goes, GoesTo, Fails
<1>12. New'
  BY <1>1, <1>2
     DEF New, Excused, Complete, OldPart, Renamed, Guarded, NeedsBackup, Goes, GoesTo,
     Fails
<1>13. Links'
  BY <1>1, <1>2 DEF Links, Goes, GoesTo, Fails
<1>14. Writable'
  BY <1>1, <1>2 DEF Writable, Goes, GoesTo, Fails
<1>15. Users'
  BY <1>1, <1>2 DEF Users, Goes, GoesTo, Fails
<1> QED  BY <1>3, <1>4, <1>5, <1>6, <1>7, <1>8, <1>9, <1>10, <1>11, <1>12, <1>13, <1>14,
            <1>15

(* The name of a backup is a name, and not of a file of the user's. *)
LEMMA BackupNames ==
    ASSUME Typed, Users, w.dir <= Dirs, NEW n \in BackupName(w.dir) \cup CopyNames(w.dir)
    PROVE  /\ n \in Backups \cup {NoName}
           /\ ~opt.bk /\ n # NoName => disk[n].id # "user"
<1>1. w.dir \in 1 .. Dirs
  BY FileWriteAssumption DEF Typed, Local
<1>2. n \in {Bak(w.dir), Alt(w.dir), NoName}
  BY DEF BackupName, CopyNames
<1>3. n \in Backups \cup {NoName}
  BY <1>1, <1>2, NameFacts
<1>4. ASSUME ~opt.bk, n # NoName PROVE disk[n].id # "user"
  <2>1. CASE n = Bak(w.dir) /\ ~Exists(Bak(w.dir))
    BY <2>1 DEF Exists
  <2>2. CASE n = Alt(w.dir)
    <3>1. n \in Names \ {Bak(1), Org}
      BY <1>1, <2>2, NameFacts DEF Backups
    <3> QED  BY <1>4, <3>1 DEF Users
  <2> QED  BY <1>4, <2>1, <2>2 DEF BackupName, CopyNames
<1> QED  BY <1>3, <1>4

LEMMA RenameChoice ==
    ASSUME IInv, RenameToBackup
    PROVE  \/ UNCHANGED mv /\ ((opt.force /\ GoesTo("prepare")) \/ Fails(w.end0))
           \/ UNCHANGED mv /\ Goes("rename", NoName, w.target, w.end0)
           \/ \E n \in Backups :
                /\ Goes("mv", n, w.target, w.end0) /\ w'.dir <= Dirs
                /\ ~opt.bk => disk[n].id # "user"
                /\ mv' = [from |-> File, to |-> n, at |-> "remove", for |-> "backup"]
<1> USE DEF IInv
<1>1. w.dir \in 1 .. Dirs + 1 /\ Dirs \in Nat /\ w \in Local
  BY FileWriteAssumption DEF Typed, Local
<1>2. CASE w.dir > Dirs
  BY <1>2, ToGoes, FailPlain DEF RenameToBackup, Pcs
<1>3. CASE ~(w.dir > Dirs)
  <2>1. w.dir <= Dirs /\ w.dir + 1 \in 1 .. Dirs + 1
    BY <1>1, <1>3
  <2>2. PICK n \in BackupName(w.dir) :
           IF n = NoName THEN w' = NextDir /\ UNCHANGED mv
           ELSE w' = [w EXCEPT !.pc = "mv", !.backup = n] /\ Rename(File, n, "backup")
    BY <1>3 DEF RenameToBackup
  <2>3. /\ n \in Backups \cup {NoName}
        /\ ~opt.bk /\ n # NoName => disk[n].id # "user"
    BY <2>1, BackupNames
  <2>4. CASE n = NoName
    <3>1. w' = [w EXCEPT !.pc = "rename", !.backup = NoName, !.dir = w.dir + 1]
            /\ UNCHANGED mv
      BY <2>2, <2>4 DEF NextDir
    <3>2. Goes("rename", NoName, w.target, w.end0)
      BY <1>1, <2>1, <3>1 DEF Local, Pcs, Goes
    <3> QED  BY <3>1, <3>2
  <2>5. CASE n # NoName
    <3>1. w' = [w EXCEPT !.pc = "mv", !.backup = n] /\ n \in Backups
      BY <2>2, <2>3, <2>5
    <3>2. Goes("mv", n, w.target, w.end0) /\ w'.dir <= Dirs
      BY <1>1, <2>1, <3>1 DEF Local, Pcs, Goes
    <3> QED  BY <2>2, <2>3, <2>5, <3>2 DEF Rename
  <2> QED  BY <2>4, <2>5
<1> QED  BY <1>2, <1>3

LEMMA GoesOnWithoutStep ==
    ASSUME IInv, RenameToBackup, UNCHANGED mv,
           (opt.force /\ GoesTo("prepare")) \/ Fails(w.end0)
             \/ Goes("rename", NoName, w.target, w.end0)
    PROVE  IInv'
<1> USE DEF IInv
<1>1. w.pc = "rename" /\ UNCHANGED <<disk, opt, swap, faults, told>>
  BY DEF RenameToBackup
<1>2. Typed'
  BY <1>1 DEF Typed, Exists, Goes, GoesTo, Fails
<1>3. Calls'
  BY <1>1 DEF Calls, Goes, GoesTo, Fails
<1>4. Way'
  BY <1>1 DEF Way, Calls, Renamed, NeedsBackup, Goes, GoesTo, Fails
<1>5. Blamed'
  BY <1>1 DEF Blamed, Goes, GoesTo, Fails
<1>6. Before'
  BY <1>1
     DEF Before, SetAside, Between, FileWhole, Exists, Renamed, NeedsBackup, Way, Calls,
     Goes, GoesTo, Fails
<1>7. Kept'
  BY <1>1 DEF Kept, Guarded, Calls, Goes, GoesTo, Fails
<1>8. There'
  BY <1>1 DEF There, Exists, Goes, GoesTo, Fails
<1>9. Back'
  BY <1>1 DEF Back, FileWhole, Exists, Renamed, Guarded, NeedsBackup, Goes, GoesTo, Fails
<1>10. Ends'
  <2>1. NeedsBackup /\ opt.existed
    BY <1>1 DEF Way, NeedsBackup
  <2>2. FileWhole \/ (LeftAside /\ faults >= 2)
    BY <1>1, <2>1 DEF Before, SetAside, Between, LeftAside, Calls
  <2>3. faults >= 2 => ~(faults <= 1)
    BY FileWriteAssumption DEF Typed
  <2> QED  BY <1>1, <2>1, <2>2, <2>3
           DEF Ends, LeftAside, FileWhole, NeedsBackup, Goes, GoesTo, Fails
<1>11. New'
  BY <1>1
     DEF New, Excused, Complete, OldPart, Renamed, Guarded, NeedsBackup, Goes, GoesTo,
     Fails
<1>12. Links'
  BY <1>1 DEF Links, Goes, Fails
<1>13. Writable'
  BY <1>1 DEF Writable, Goes, GoesTo, Fails
<1>14. Users'
  BY <1>1 DEF Users, Goes, GoesTo, Fails
<1> QED  BY <1>2, <1>3, <1>4, <1>5, <1>6, <1>7, <1>8, <1>9, <1>10, <1>11, <1>12, <1>13,
            <1>14

LEMMA RenameBeginsStep ==
    ASSUME IInv, RenameToBackup, NEW n \in Backups, Goes("mv", n, w.target, w.end0),
           w'.dir <= Dirs, ~opt.bk => disk[n].id # "user",
           mv' = [from |-> File, to |-> n, at |-> "remove", for |-> "backup"]
    PROVE  IInv'
<1> USE DEF IInv
<1>1. w.pc = "rename" /\ UNCHANGED <<disk, opt, swap, faults, told>>
  BY DEF RenameToBackup
<1>2. mv' \in Call /\ mv'.from = File /\ mv'.to = n /\ mv'.at = "remove"
        /\ mv'.for = "backup"
      /\ n # NoName
  BY NameFacts DEF Call, Backups
<1>3. Typed'
  BY <1>1, <1>2 DEF Typed, Exists, Goes
<1>4. Calls'
  BY <1>1, <1>2 DEF Calls, Way, Renamed, NeedsBackup, Goes
<1>5. Way'
  BY <1>1 DEF Way, NeedsBackup, Goes
<1>6. Blamed'
  BY <1>1 DEF Blamed, Goes
<1>7. Before'
  BY <1>1, <1>2 DEF Before, SetAside, Between, FileWhole, Exists, Calls, Goes
<1>8. Kept'
  BY DEF Kept, Goes
<1>9. There'
  BY DEF There, Goes
<1>10. Back'
  BY DEF Back, Goes
<1>11. Ends'
  BY <1>1 DEF Ends, NeedsBackup, Way, Goes
<1>12. New'
  BY <1>1 DEF New, Excused, Complete, OldPart, Renamed, Guarded, NeedsBackup, Goes
<1>13. Links'
  BY <1>1 DEF Links, Goes
<1>14. Writable'
  BY <1>1 DEF Writable, Goes
<1>15. Users'
  BY <1>1, <1>3, UntouchedModestly, UsersStay DEF Goes
<1> QED  BY <1>3, <1>4, <1>5, <1>6, <1>7, <1>8, <1>9, <1>10, <1>11, <1>12, <1>13, <1>14,
            <1>15

LEMMA RenameToBackupStep ==
    ASSUME IInv, RenameToBackup
    PROVE  IInv'
BY RenameChoice, GoesOnWithoutStep, RenameBeginsStep

(***************************************************************************)
(* What the steps do to the disk.                                          *)
(***************************************************************************)

(* One file changes; it is not a user's after, unless it was before, nor   *)
(* read-only, unless it or the original was.                               *)
Touches(n) ==
    /\ disk' \in [Names -> Content]
    /\ \A m \in Names : m # n => disk'[m] = disk[m]
    /\ disk'[n].id = "none" => disk'[n].old = 0 /\ disk'[n].new = 0
    /\ disk'[n].id = "user" => disk[n].id = "user"
    /\ disk'[n].ro => disk[n].ro \/ opt.ro

LEMMA TouchedModestly ==
    ASSUME NEW n \in Names, Touches(n)
    PROVE  Modest
<1>1. ASSUME NEW m \in Names
      PROVE  /\ disk'[m].id = "user" => disk[m].id = "user"
             /\ disk'[m].ro => disk[m].ro \/ opt.ro
  <2>1. CASE m = n
    BY <2>1 DEF Touches
  <2>2. CASE m # n
    BY <2>2 DEF Touches
  <2> QED  BY <2>1, <2>2
<1> QED  BY <1>1 DEF Modest

(* It is removed, or that fails. *)
LEMMA RemoveTouches ==
    ASSUME Typed, NEW n \in Names, Remove(n)
    PROVE  /\ Touches(n) /\ (disk'[n] = Absent \/ disk' = disk)
           /\ Spends
<1>1. Absent \in Content /\ Absent.id = "none" /\ Absent.old = 0 /\ Absent.new = 0
        /\ ~Absent.ro
  BY DEF Absent, Content, Amounts, Whole
<1>2. CASE Well /\ disk' = [disk EXCEPT ![n] = Absent]
  <2>1. disk' \in [Names -> Content] /\ disk'[n] = Absent
    BY <1>1, <1>2 DEF Typed
  <2>2. \A m \in Names : m # n => disk'[m] = disk[m]
    BY <1>2 DEF Typed
  <2> QED  BY <1>1, <1>2, <2>1, Costs DEF Touches
<1>3. CASE Fault /\ UNCHANGED disk
  BY <1>3, Costs DEF Typed, Touches, Exists
<1> QED  BY <1>2, <1>3 DEF Remove

(* It gets another content. *)
LEMMA PutTouches ==
    ASSUME Typed, NEW n \in Names, NEW c \in Content, disk' = [disk EXCEPT ![n] = c],
           c.id = "none" => c.old = 0 /\ c.new = 0,
           c.id = "user" => disk[n].id = "user",
           c.ro => disk[n].ro \/ opt.ro
    PROVE  Touches(n) /\ disk'[n] = c
<1>1. disk' \in [Names -> Content] /\ disk'[n] = c
  BY DEF Typed
<1>2. \A m \in Names : m # n => disk'[m] = disk[m]
  BY DEF Typed
<1> QED  BY <1>1, <1>2 DEF Touches

(* What of a file's content changes. *)
LEMMA ContentFacts ==
    ASSUME NEW c \in Content
    PROVE  /\ \A x \in Amounts : LET d == [c EXCEPT !.old = x]
                              IN  d \in Content /\ d.id = c.id /\ d.old = x
                                    /\ d.new = c.new /\ d.ro = c.ro
           /\ \A x \in Amounts : LET d == [c EXCEPT !.new = x]
                              IN  d \in Content /\ d.id = c.id /\ d.old = c.old
                                    /\ d.new = x /\ d.ro = c.ro
           /\ \A x \in BOOLEAN : LET d == [c EXCEPT !.ro = x]
                              IN  d \in Content /\ d.id = c.id /\ d.old = c.old
                                    /\ d.new = c.new /\ d.ro = x
           /\ c.old \in Amounts /\ c.new \in Amounts /\ c.ro \in BOOLEAN
BY DEF Content

LEMMA FreshContent ==
    ASSUME NEW ro \in BOOLEAN
    PROVE  /\ Fresh(ro) \in Content /\ Fresh(ro).id = "fresh" /\ Fresh(ro).old = 0
           /\ Fresh(ro).new = 0 /\ Fresh(ro).ro = ro
BY DEF Fresh, Content, Amounts, Whole

(* A part more. *)
LEMMA PartMore ==
    ASSUME NEW x \in Amounts, x # Whole
    PROVE  x + 1 \in Amounts /\ x + 1 # 0
BY DEF Amounts, Whole

(* A file that is there gets a part of the old text more, *)
LEMMA OldGrows ==
    ASSUME Typed, NEW n \in Names, Exists(n), disk[n].old # Whole,
           disk' = [disk EXCEPT ![n].old = @ + 1]
    PROVE  /\ Touches(n) /\ disk'[n].id = disk[n].id /\ disk'[n].new = disk[n].new
           /\ disk'[n].old = disk[n].old + 1 /\ disk'[n].ro = disk[n].ro
<1> DEFINE c == [disk[n] EXCEPT !.old = @ + 1]
<1>1. disk[n] \in Content
  BY DEF Typed
<1>2. disk[n].old + 1 \in Amounts
  BY <1>1, ContentFacts, PartMore
<1>3. /\ c \in Content /\ c.id = disk[n].id /\ c.new = disk[n].new
      /\ c.old = disk[n].old + 1 /\ c.ro = disk[n].ro
  BY <1>1, <1>2, ContentFacts
<1>4. disk' = [disk EXCEPT ![n] = c]
  OBVIOUS
<1>5. /\ c.id # "none" /\ (c.id = "user" => disk[n].id = "user")
      /\ c.ro => disk[n].ro \/ opt.ro
  BY <1>3 DEF Exists
<1> HIDE DEF c
<1>6. Touches(n) /\ disk'[n] = c
  BY <1>3, <1>4, <1>5, PutTouches
<1> QED  BY <1>3, <1>6

(* or of the new text, *)
LEMMA NewGrows ==
    ASSUME Typed, NEW n \in Names, Exists(n), disk[n].new # Whole,
           disk' = [disk EXCEPT ![n].new = @ + 1]
    PROVE  /\ Touches(n) /\ disk'[n].id = disk[n].id /\ disk'[n].old = disk[n].old
           /\ disk'[n].new = disk[n].new + 1 /\ disk'[n].ro = disk[n].ro
<1> DEFINE c == [disk[n] EXCEPT !.new = @ + 1]
<1>1. disk[n] \in Content
  BY DEF Typed
<1>2. disk[n].new + 1 \in Amounts
  BY <1>1, ContentFacts, PartMore
<1>3. /\ c \in Content /\ c.id = disk[n].id /\ c.old = disk[n].old
      /\ c.new = disk[n].new + 1 /\ c.ro = disk[n].ro
  BY <1>1, <1>2, ContentFacts
<1>4. disk' = [disk EXCEPT ![n] = c]
  OBVIOUS
<1>5. /\ c.id # "none" /\ (c.id = "user" => disk[n].id = "user")
      /\ c.ro => disk[n].ro \/ opt.ro
  BY <1>3 DEF Exists
<1> HIDE DEF c
<1>6. Touches(n) /\ disk'[n] = c
  BY <1>3, <1>4, <1>5, PutTouches
<1> QED  BY <1>3, <1>6

(* or loses what it held. *)
LEMMA Empties ==
    ASSUME Typed, NEW n \in Names,
           disk' = [disk EXCEPT ![n] = [disk[n] EXCEPT !.old = 0, !.new = 0]]
    PROVE  /\ Touches(n) /\ disk'[n].id = disk[n].id /\ disk'[n].new = 0
           /\ disk'[n].old = 0 /\ disk'[n].ro = disk[n].ro
<1> DEFINE c == [disk[n] EXCEPT !.old = 0, !.new = 0]
<1>1. disk[n] \in Content /\ 0 \in Amounts
  BY DEF Typed, Amounts, Whole
<1>2. /\ c \in Content /\ c.id = disk[n].id /\ c.old = 0
      /\ c.new = 0 /\ c.ro = disk[n].ro
  BY <1>1 DEF Content
<1>3. disk' = [disk EXCEPT ![n] = c]
  OBVIOUS
<1> HIDE DEF c
<1>4. /\ c.id = "none" => c.old = 0 /\ c.new = 0
      /\ c.id = "user" => disk[n].id = "user"
      /\ c.ro => disk[n].ro \/ opt.ro
  BY <1>2, <1>3
<1>5. Touches(n) /\ disk'[n] = c
  BY <1>2, <1>3, <1>4, PutTouches
<1> QED  BY <1>2, <1>5

(* Only its permission changes. *)
LEMMA Permits ==
    ASSUME Typed, NEW n \in Names, NEW r \in BOOLEAN, r => disk[n].ro \/ opt.ro,
           disk' = [disk EXCEPT ![n].ro = r]
    PROVE  /\ Touches(n) /\ disk'[n].id = disk[n].id /\ disk'[n].new = disk[n].new
           /\ disk'[n].old = disk[n].old /\ disk'[n].ro = r
<1> DEFINE c == [disk[n] EXCEPT !.ro = r]
<1>1. disk[n] \in Content
  BY DEF Typed
<1>2. /\ c \in Content /\ c.id = disk[n].id /\ c.old = disk[n].old
      /\ c.new = disk[n].new /\ c.ro = r
  BY <1>1, ContentFacts
<1>3. disk' = [disk EXCEPT ![n] = c] /\ (c.id = "none" => c.old = 0 /\ c.new = 0)
  BY <1>2 DEF Typed, Exists
<1> HIDE DEF c
<1>4. /\ c.id = "none" => c.old = 0 /\ c.new = 0
      /\ c.id = "user" => disk[n].id = "user"
      /\ c.ro => disk[n].ro \/ opt.ro
  BY <1>2, <1>3
<1>5. Touches(n) /\ disk'[n] = c
  BY <1>2, <1>3, <1>4, PutTouches
<1> QED  BY <1>2, <1>5

(***************************************************************************)
(* The backup is copied.                                                   *)
(***************************************************************************)
LEMMA CopyChoice ==
    ASSUME IInv, CopyName
    PROVE  \/ (GoesTo("nobackup") \/ GoesTo("copy")) /\ UNCHANGED <<disk, faults>>
           \/ \E n \in Backups :
                /\ Goes("create", n, w.target, w.end0) /\ w'.dir <= Dirs /\ Remove(n)
                /\ ~opt.bk => disk[n].id # "user"
<1> USE DEF IInv
<1>1. w.dir \in 1 .. Dirs + 1 /\ Dirs \in Nat /\ w \in Local /\ w.pc = "copy"
  BY FileWriteAssumption DEF Typed, Local, CopyName
<1>2. CASE w.dir > Dirs
  BY <1>2, ToGoes DEF CopyName, Pcs
<1>3. CASE ~(w.dir > Dirs)
  <2>1. w.dir <= Dirs /\ w.dir + 1 \in 1 .. Dirs + 1
    BY <1>1, <1>3
  <2>2. PICK n \in CopyNames(w.dir) :
           IF n = NoName
           THEN w' = [w EXCEPT !.dir = w.dir + 1] /\ UNCHANGED <<disk, faults>>
           ELSE Remove(n) /\ w' = [w EXCEPT !.pc = "create", !.backup = n]
    BY <1>3 DEF CopyName
  <2>3. /\ n \in Backups \cup {NoName}
        /\ ~opt.bk /\ n # NoName => disk[n].id # "user"
    BY <2>1, BackupNames
  <2>4. CASE n = NoName
    <3>1. w' = [w EXCEPT !.dir = w.dir + 1] /\ UNCHANGED <<disk, faults>>
      BY <2>2, <2>4
    <3>2. GoesTo("copy")
      BY <1>1, <2>1, <3>1 DEF Local, Goes, GoesTo
    <3> QED  BY <3>1, <3>2
  <2>5. CASE n # NoName
    <3>1. w' = [w EXCEPT !.pc = "create", !.backup = n] /\ n \in Backups
      BY <2>2, <2>3, <2>5
    <3>2. Goes("create", n, w.target, w.end0) /\ w'.dir <= Dirs
      BY <1>1, <2>1, <3>1 DEF Local, Pcs, Goes
    <3> QED  BY <2>2, <2>3, <2>5, <3>1, <3>2
  <2> QED  BY <2>4, <2>5
<1> QED  BY <1>2, <1>3

LEMMA CopyTriesStep ==
    ASSUME IInv, CopyName, GoesTo("nobackup") \/ GoesTo("copy"), UNCHANGED <<disk, faults>>
    PROVE  IInv'
<1> USE DEF IInv
<1>1. w.pc = "copy" /\ UNCHANGED <<opt, mv, swap, told>>
  BY DEF CopyName
<1>2. Typed'
  BY <1>1 DEF Typed, Exists, Goes, GoesTo
<1>3. Calls'
  BY <1>1 DEF Calls, Goes, GoesTo
<1>4. Way'
  BY <1>1 DEF Way, Calls, NeedsBackup, Goes, GoesTo
<1>5. Blamed'
  BY <1>1 DEF Blamed, Goes, GoesTo
<1>6. Before'
  BY <1>1, NotAside
     DEF Before, FileWhole, Exists, Renamed, NeedsBackup, Goes,
     GoesTo, Fails
<1>7. Kept'
  BY <1>1 DEF Kept, BackupWhole, Guarded, Way, Goes, GoesTo
<1>8. There'
  BY <1>1 DEF There, Exists, Goes, GoesTo
<1>9. Back'
  BY <1>1 DEF Back, FileWhole, Exists, Renamed, Guarded, NeedsBackup, Goes, GoesTo
<1>10. Ends'
  BY <1>1 DEF Ends, LeftAside, FileWhole, BackupWhole, CopyThrown, NeedsBackup, Goes, GoesTo
<1>11. New'
  BY <1>1 DEF New, Excused, Complete, OldPart, Renamed, Guarded, NeedsBackup, Goes, GoesTo
<1>12. Links'
  BY <1>1 DEF Links, Goes, GoesTo
<1>13. Writable'
  BY <1>1 DEF Writable, Goes, GoesTo
<1>14. Users'
  BY <1>1 DEF Users, Goes, GoesTo
<1> QED  BY <1>2, <1>3, <1>4, <1>5, <1>6, <1>7, <1>8, <1>9, <1>10, <1>11, <1>12, <1>13,
            <1>14

LEMMA CopyRemovesStep ==
    ASSUME IInv, CopyName, NEW n \in Backups, Goes("create", n, w.target, w.end0),
           Remove(n),
           w'.dir <= Dirs, ~opt.bk => disk[n].id # "user"
    PROVE  IInv'
<1> USE DEF IInv
<1>1. w.pc = "copy" /\ UNCHANGED <<opt, mv, swap, told>>
  BY DEF CopyName
<1>2. n \in Names /\ n # File /\ n # Tmp /\ n # Org /\ n # NoName
  BY NameFacts DEF Backups
<1>3. /\ Touches(n) /\ (disk'[n] = Absent \/ disk' = disk)
      /\ Spends
  BY <1>2, RemoveTouches
<1>4. /\ disk'[File] = disk[File] /\ disk'[Tmp] = disk[Tmp] /\ disk'[Org] = disk[Org]
      /\ Modest
  BY <1>2, <1>3, NameFacts, TouchedModestly DEF Touches
<1>5. Typed'
  BY <1>1, <1>3 DEF Typed, Exists, Goes, Spends, Touches
<1>6. Calls'
  BY <1>1 DEF Calls, Goes
<1>7. Way'
  BY <1>1, <1>2 DEF Way, NeedsBackup, Goes
<1>8. Blamed'
  BY <1>1, <1>3 DEF Blamed, Goes, Spends
<1>9. Before'
  BY <1>1, <1>4, NotAside
     DEF Before, FileWhole, Exists, Renamed, NeedsBackup, Goes,
     GoesTo, Fails
<1>10. Kept'
  BY <1>1 DEF Kept, Calls, Goes
<1>11. There'
  BY <1>1 DEF There, Calls, Goes
<1>12. Back'
  BY <1>1, <1>4 DEF Back, FileWhole, Exists, Renamed, Guarded, NeedsBackup, Goes
<1>13. Ends'
  BY <1>1 DEF Ends, NeedsBackup, Way, Goes
<1>14. New'
  BY <1>1, <1>4
     DEF New, Excused, Complete, OldPart, Renamed, Guarded, NeedsBackup, Way, Goes
<1>15. Links'
  BY <1>1, <1>4 DEF Links, Way, Goes
<1>16. Writable'
  BY <1>1, <1>4 DEF Writable, Goes, Modest
<1>17. Users'
  BY <1>1, <1>4, <1>5, UsersStay DEF Users, Goes
<1> QED  BY <1>5, <1>6, <1>7, <1>8, <1>9, <1>10, <1>11, <1>12, <1>13, <1>14, <1>15, <1>16,
            <1>17

LEMMA CopyNameStep ==
    ASSUME IInv, CopyName
    PROVE  IInv'
BY CopyChoice, CopyTriesStep, CopyRemovesStep

LEMMA CopyCreated ==
    ASSUME IInv, CopyCreate
    PROVE  /\ Spends
           /\ \/ /\ GoesTo("copying") /\ Touches(w.backup)
                 /\ disk'[w.backup].new = 0 /\ disk'[w.backup].id = "fresh"
              \/ Goes("copy", NoName, w.target, w.end0) /\ UNCHANGED disk
<1> USE DEF IInv
<1>1. w.backup \in Names /\ w \in Local /\ w.pc = "create" /\ w.dir <= Dirs
  BY DEF CopyCreate, Way, Typed, Local, Backups
<1>2. CASE ~Exists(w.backup) /\ Well /\ disk' = [disk EXCEPT ![w.backup] = Fresh(opt.ro)]
           /\ w' = To("copying")
  <2>1. opt.ro \in BOOLEAN
    BY DEF Typed, Options
  <2>2. Touches(w.backup) /\ disk'[w.backup] = Fresh(opt.ro)
    BY <1>1, <1>2, <2>1, FreshContent, PutTouches
  <2> QED  BY <1>2, <2>1, <2>2, FreshContent, ToGoes, Costs DEF Pcs
<1>3. CASE /\ IF Exists(w.backup) THEN Well ELSE Fault
           /\ w' = [w EXCEPT !.pc = "copy", !.backup = NoName, !.dir = w.dir + 1]
           /\ UNCHANGED disk
  <2>1. w.dir + 1 \in 1 .. Dirs + 1
    BY <1>1, FileWriteAssumption DEF Local
  <2>2. Goes("copy", NoName, w.target, w.end0)
    BY <1>1, <1>3, <2>1 DEF Local, Pcs, Goes
  <2> QED  BY <1>3, <2>2, Costs
<1> QED  BY <1>2, <1>3 DEF CopyCreate

LEMMA CopyCreateStep ==
    ASSUME IInv, CopyCreate
    PROVE  IInv'
<1> USE DEF IInv
<1>1. w.pc = "create" /\ w.backup # NoName /\ UNCHANGED <<opt, mv, swap, told>>
  BY DEF CopyCreate, Way
<1>2. /\ w.backup \in Names /\ w.backup # File /\ w.backup # Tmp /\ w.backup # Org
  BY <1>1, BackupFacts
<1>3. /\ Spends
      /\ \/ /\ GoesTo("copying") /\ Touches(w.backup)
            /\ disk'[w.backup].new = 0 /\ disk'[w.backup].id = "fresh"
         \/ Goes("copy", NoName, w.target, w.end0) /\ UNCHANGED disk
  BY CopyCreated
<1>4. /\ disk'[File] = disk[File] /\ disk'[Tmp] = disk[Tmp] /\ disk'[Org] = disk[Org]
      /\ Modest
  BY <1>2, <1>3, NameFacts, TouchedModestly, UntouchedModestly DEF Touches
<1>5. Typed'
  BY <1>1, <1>3 DEF Typed, Exists, Goes, GoesTo, Spends, Touches
<1>6. Calls'
  BY <1>1, <1>3 DEF Calls, Goes, GoesTo
<1>7. Way'
  BY <1>1, <1>3 DEF Way, Calls, NeedsBackup, Goes, GoesTo
<1>8. Blamed'
  BY <1>1, <1>3 DEF Blamed, Goes, GoesTo, Spends
<1>9. Before'
  BY <1>1, <1>3, <1>4, NotAside
     DEF Before, FileWhole, Exists, Renamed, NeedsBackup, Goes,
     GoesTo, Fails
<1>10. Kept'
  BY <1>1, <1>3 DEF Kept, Calls, Goes, GoesTo
<1>11. There'
  BY <1>1, <1>3 DEF There, Exists, Calls, Goes, GoesTo
<1>12. Back'
  BY <1>1, <1>3, <1>4
     DEF Back, FileWhole, Exists, Renamed, Guarded, NeedsBackup, Goes, GoesTo
<1>13. Ends'
  BY <1>1, <1>3 DEF Ends, NeedsBackup, Way, Goes, GoesTo
<1>14. New'
  BY <1>1, <1>3, <1>4
     DEF New, Excused, Complete, OldPart, Renamed, Guarded, NeedsBackup, Way, Goes, GoesTo
<1>15. Links'
  BY <1>1, <1>3, <1>4 DEF Links, Goes, GoesTo
<1>16. Writable'
  BY <1>1, <1>3, <1>4 DEF Writable, Goes, GoesTo, Modest
<1>17. Users'
  BY <1>1, <1>3, <1>4, <1>5, UsersStay DEF Users, Goes, GoesTo
<1> QED  BY <1>5, <1>6, <1>7, <1>8, <1>9, <1>10, <1>11, <1>12, <1>13, <1>14, <1>15, <1>16,
            <1>17

LEMMA CopyDone ==
    ASSUME IInv, CopyData
    PROVE  /\ Spends
           /\ \/ GoesTo("nobackup") /\ (w'.errmsg \/ disk[w.backup].old = Whole)
                 /\ UNCHANGED disk
              \/ UNCHANGED w /\ Touches(w.backup) /\ disk'[w.backup].id = disk[w.backup].id
                 /\ disk'[w.backup].new = disk[w.backup].new
<1> USE DEF IInv
<1>1. w.backup \in Names /\ w \in Local /\ w.pc = "copying"
  BY DEF CopyData, Way, Typed, Local, Backups
<1>2. CASE Well /\ disk[w.backup].old = Whole /\ w' = To("nobackup") /\ UNCHANGED disk
  BY <1>2, ToGoes, Costs DEF Pcs
<1>3. CASE /\ Well /\ disk[w.backup].old # Whole /\ UNCHANGED w
           /\ disk' = [disk EXCEPT ![w.backup].old = @ + 1]
  <2>1. Exists(w.backup)
    BY <1>1 DEF There
  <2> QED  BY <1>1, <1>3, <2>1, OldGrows, Costs
<1>4. CASE Fault /\ w' = [To("nobackup") EXCEPT !.errmsg = TRUE] /\ UNCHANGED disk
  <2>1. GoesTo("nobackup") /\ w'.errmsg
    BY <1>1, <1>4 DEF Goes, GoesTo, Local, Pcs, To
  <2> QED  BY <1>4, <2>1, Costs
<1> QED  BY <1>2, <1>3, <1>4 DEF CopyData

LEMMA CopyDataStep ==
    ASSUME IInv, CopyData
    PROVE  IInv'
<1> USE DEF IInv
<1>1. w.pc = "copying" /\ w.backup # NoName /\ UNCHANGED <<opt, mv, swap, told>>
  BY DEF CopyData, Way
<1>2. /\ w.backup \in Names /\ w.backup # File /\ w.backup # Tmp /\ w.backup # Org
  BY <1>1, BackupFacts
<1>3. /\ Spends
      /\ \/ GoesTo("nobackup") /\ (w'.errmsg \/ disk[w.backup].old = Whole)
            /\ UNCHANGED disk
         \/ UNCHANGED w /\ Touches(w.backup) /\ disk'[w.backup].id = disk[w.backup].id
            /\ disk'[w.backup].new = disk[w.backup].new
  BY CopyDone
<1>4. /\ disk'[File] = disk[File] /\ disk'[Tmp] = disk[Tmp] /\ disk'[Org] = disk[Org]
      /\ Modest
  BY <1>2, <1>3, NameFacts, TouchedModestly, UntouchedModestly DEF Touches
<1>5. Typed'
  BY <1>1, <1>3 DEF Typed, Exists, Goes, GoesTo, Spends, Touches
<1>6. Calls'
  BY <1>1, <1>3 DEF Calls, Goes, GoesTo
<1>7. Way'
  BY <1>1, <1>3 DEF Way, Calls, NeedsBackup, Goes, GoesTo
<1>8. Blamed'
  BY <1>1, <1>3 DEF Blamed, Goes, GoesTo, Spends
<1>9. Before'
  BY <1>1, <1>3, <1>4, NotAside
     DEF Before, FileWhole, Exists, Renamed, NeedsBackup, Goes,
     GoesTo, Fails
<1>10. Kept'
  BY <1>1, <1>3 DEF Kept, BackupWhole, Calls, Goes, GoesTo
<1>11. There'
  BY <1>1, <1>3 DEF There, Exists, Calls, Goes, GoesTo
<1>12. Back'
  BY <1>1, <1>3, <1>4
     DEF Back, FileWhole, Exists, Renamed, Guarded, NeedsBackup, Goes, GoesTo
<1>13. Ends'
  BY <1>1, <1>3 DEF Ends, NeedsBackup, Way, Goes, GoesTo
<1>14. New'
  BY <1>1, <1>3, <1>4
     DEF New, Excused, Complete, OldPart, Renamed, Guarded, NeedsBackup, Way, Goes, GoesTo
<1>15. Links'
  BY <1>1, <1>3, <1>4 DEF Links, Goes, GoesTo
<1>16. Writable'
  BY <1>1, <1>3, <1>4 DEF Writable, Goes, GoesTo, Modest
<1>17. Users'
  BY <1>1, <1>3, <1>4, <1>5, UsersStay DEF Users, Goes, GoesTo
<1> QED  BY <1>5, <1>6, <1>7, <1>8, <1>9, <1>10, <1>11, <1>12, <1>13, <1>14, <1>15, <1>16,
            <1>17

(***************************************************************************)
(* The write.                                                              *)
(***************************************************************************)
LEMMA Prepared ==
    ASSUME IInv, Prepare
    PROVE  /\ Spends /\ GoesTo("preserve") /\ Touches(File)
           /\ disk'[File].id = disk[File].id /\ disk'[File].old = disk[File].old
           /\ disk'[File].new = disk[File].new
<1> USE DEF IInv
<1>1. File \in Names /\ w \in Local
  BY NameFacts DEF Typed
<1>2. CASE w' = [To("preserve") EXCEPT !.ro = FALSE] /\ Well
           /\ disk' = [disk EXCEPT ![File].ro = FALSE]
  <2>1. GoesTo("preserve")
    BY <1>1, <1>2 DEF Goes, GoesTo, Local, Pcs, To
  <2> QED  BY <1>1, <1>2, <2>1, Permits, Costs
<1>3. CASE w' = [To("preserve") EXCEPT !.ro = FALSE] /\ Fault /\ UNCHANGED disk
  <2>1. GoesTo("preserve")
    BY <1>1, <1>3 DEF Goes, GoesTo, Local, Pcs, To
  <2> QED  BY <1>1, <1>3, <2>1, Costs DEF Typed, Touches, Exists
<1>4. CASE w' = To("preserve") /\ UNCHANGED <<disk, faults>>
  BY <1>1, <1>4, ToGoes, Costs DEF Pcs, Typed, Touches, Exists, Well
<1> QED  BY <1>2, <1>3, <1>4 DEF Prepare

LEMMA PrepareStep ==
    ASSUME IInv, Prepare
    PROVE  IInv'
<1> USE DEF IInv
<1>1. w.pc = "prepare" /\ UNCHANGED <<opt, mv, swap, told>>
  BY DEF Prepare
<1>2. /\ Spends /\ GoesTo("preserve") /\ Touches(File)
      /\ disk'[File].id = disk[File].id /\ disk'[File].old = disk[File].old
      /\ disk'[File].new = disk[File].new
  BY Prepared
<1>3. /\ disk'[Tmp] = disk[Tmp] /\ disk'[Org] = disk[Org]
      /\ (w.backup # NoName => disk'[w.backup] = disk[w.backup]) /\ Modest
  BY <1>2, NameFacts, BackupFacts, TouchedModestly DEF Touches
<1>4. Typed'
  BY <1>1, <1>2 DEF Typed, Exists, Goes, GoesTo, Spends, Touches
<1>5. Calls'
  BY <1>1, <1>2 DEF Calls, Goes, GoesTo
<1>6. Way'
  BY <1>1, <1>2 DEF Way, Calls, NeedsBackup, Goes, GoesTo
<1>7. Blamed'
  BY <1>1, <1>2 DEF Blamed, Goes, GoesTo, Spends
<1>8. Before'
  BY <1>1, <1>2, <1>3, NotAside
     DEF Before, FileWhole, Exists, Renamed, NeedsBackup, Goes,
     GoesTo, Fails
<1>9. Kept'
  BY <1>1, <1>2, <1>3, ZenonT(60)
     DEF Kept, BackupWhole, Guarded, NeedsBackup, Calls, Way, Goes, GoesTo, Spends
<1>10. There'
  BY <1>1, <1>2 DEF There, Calls, Goes, GoesTo
<1>11. Back'
  BY <1>1, <1>2 DEF Back, FileWhole, Exists, Renamed, Guarded, NeedsBackup, Goes, GoesTo
<1>12. Ends'
  BY <1>1, <1>2 DEF Ends, LeftAside, FileWhole, NeedsBackup, Way, Goes, GoesTo
<1>13. New'
  BY <1>1, <1>2 DEF New, Calls, Way, Goes, GoesTo
<1>14. Links'
  BY <1>1, <1>2 DEF Links, Goes, GoesTo
<1>15. Writable'
  BY <1>1, <1>2, <1>3 DEF Writable, Goes, GoesTo, Modest
<1>16. Users'
  BY <1>1, <1>2, <1>3, <1>4, UsersStay DEF Users, Goes, GoesTo
<1> QED  BY <1>4, <1>5, <1>6, <1>7, <1>8, <1>9, <1>10, <1>11, <1>12, <1>13, <1>14, <1>15,
            <1>16

LEMMA PreserveStep ==
    ASSUME IInv, Preserve
    PROVE  IInv'
<1> USE DEF IInv
<1>1. w.pc = "preserve" /\ UNCHANGED <<disk, opt, mv, told>>
  BY DEF Preserve
<1>2. /\ Spends /\ (GoesTo("convert") \/ GoesTo("restore"))
      /\ swap' \in {"no", "kept", "failed", "other"}
      /\ swap' = "no" => w.backup # NoName \/ ~opt.existed
  BY ToGoes, Costs DEF Preserve, Pcs
<1>3. Typed'
  BY <1>1, <1>2 DEF Typed, Exists, Goes, GoesTo, Spends
<1>4. Calls'
  BY <1>1, <1>2 DEF Calls, Goes, GoesTo
<1>5. Way'
  BY <1>1, <1>2 DEF Way, Calls, NeedsBackup, Goes, GoesTo
<1>6. Blamed'
  BY <1>1, <1>2 DEF Blamed, Goes, GoesTo, Spends
<1>7. Before'
  BY <1>1, <1>2, NotAside
     DEF Before, FileWhole, Exists, Renamed, NeedsBackup, Goes,
     GoesTo, Fails
<1>8. Kept'
  BY <1>1, <1>2 DEF Kept, BackupWhole, Guarded, NeedsBackup, Goes, GoesTo
<1>9. There'
  BY <1>1, <1>2 DEF There, Exists, Goes, GoesTo
<1>10. Back'
  BY <1>1, <1>2
     DEF Back, FileWhole, Exists, Renamed, Guarded, NeedsBackup, Goes, GoesTo, Before
<1>11. Ends'
  BY <1>1, <1>2 DEF Ends, NeedsBackup, Way, Goes, GoesTo
<1>12. New'
  BY <1>1, <1>2
     DEF New, Excused, Complete, OldPart, Renamed, Guarded, NeedsBackup, Goes, GoesTo
<1>13. Links'
  BY <1>1, <1>2 DEF Links, Goes, GoesTo
<1>14. Writable'
  BY <1>1, <1>2 DEF Writable, Goes, GoesTo
<1>15. Users'
  BY <1>1, <1>2 DEF Users, Goes, GoesTo
<1> QED  BY <1>3, <1>4, <1>5, <1>6, <1>7, <1>8, <1>9, <1>10, <1>11, <1>12, <1>13, <1>14,
            <1>15

LEMMA Converts ==
    ASSUME Typed, Convert
    PROVE  /\ Spends
           /\ \/ \E target \in {File, Tmp} : Goes("open", w.backup, target, w.end0)
              \/ GoesTo("restore") \/ Goes("restore", w.backup, File, w.end0)
<1>1. w \in Local
  BY DEF Typed
<1>2. ASSUME NEW p \in {"open", "restore"}, NEW target \in {File, Tmp},
             w' = [To(p) EXCEPT !.target = target]
      PROVE  Goes(p, w.backup, target, w.end0)
  BY <1>1, <1>2 DEF Goes, Local, Pcs, To
<1> QED  BY <1>2, ToGoes, Costs DEF Convert, Pcs

LEMMA ConvertStep ==
    ASSUME IInv, Convert
    PROVE  IInv'
<1> USE DEF IInv
<1>1. w.pc = "convert" /\ UNCHANGED <<disk, opt, mv, swap, told>>
  BY DEF Convert
<1>2. /\ Spends
      /\ \/ \E target \in {File, Tmp} : Goes("open", w.backup, target, w.end0)
         \/ GoesTo("restore") \/ Goes("restore", w.backup, File, w.end0)
  BY Converts
<1>3. NoName # File /\ NoName # Tmp
  BY NameFacts
<1>4. Typed'
  BY <1>1, <1>2 DEF Typed, Exists, Goes, GoesTo, Spends
<1>5. Calls'
  BY <1>1, <1>2 DEF Calls, Goes, GoesTo
<1>6. Way'
  BY <1>1, <1>2, <1>3 DEF Way, Calls, NeedsBackup, Goes, GoesTo
<1>7. Blamed'
  BY <1>1, <1>2 DEF Blamed, Goes, GoesTo, Spends
<1>8. Before'
  BY <1>1, <1>2, NotAside
     DEF Before, FileWhole, Exists, Renamed, NeedsBackup, Goes,
     GoesTo, Fails
<1>9. Kept'
  BY <1>1, <1>2 DEF Kept, BackupWhole, Guarded, NeedsBackup, Goes, GoesTo
<1>10. There'
  BY <1>1, <1>2 DEF There, Exists, Goes, GoesTo
<1>11. Back'
  BY <1>1, <1>2
     DEF Back, FileWhole, Exists, Renamed, Guarded, NeedsBackup, Goes, GoesTo, Before
<1>12. Ends'
  BY <1>1, <1>2 DEF Ends, NeedsBackup, Way, Goes, GoesTo
<1>13. New'
  BY <1>1, <1>2 DEF New, Calls, Way, Goes, GoesTo
<1>14. Links'
  BY <1>1, <1>2 DEF Links, Goes, GoesTo
<1>15. Writable'
  BY <1>1, <1>2 DEF Writable, Goes, GoesTo
<1>16. Users'
  BY <1>1, <1>2 DEF Users, Goes, GoesTo
<1> QED  BY <1>4, <1>5, <1>6, <1>7, <1>8, <1>9, <1>10, <1>11, <1>12, <1>13, <1>14, <1>15,
            <1>16

LEMMA Opened ==
    ASSUME IInv, Open
    PROVE  /\ Spends /\ GoesTo("write") /\ Touches(w.target)
           /\ disk'[w.target].id # "none"
           /\ Exists(w.target) => disk'[w.target].id = disk[w.target].id
           /\ IF opt.append /\ Exists(w.target) THEN disk'[w.target] = disk[w.target]
              ELSE disk'[w.target].old = 0 /\ disk'[w.target].new = 0
<1> USE DEF IInv
<1>1. w.target \in Names /\ w \in Local /\ Well /\ Spends
  BY NameFacts, Costs DEF Open, Way, Typed, Local
<1>2. w' = [To("write") EXCEPT !.errmsg = FALSE]
  BY DEF Open
<1>3. GoesTo("write")
  BY <1>1, <1>2 DEF Goes, GoesTo, Local, Pcs, To
<1>4. CASE ~Exists(w.target)
  <2>1. disk' = [disk EXCEPT ![w.target] = Fresh(w.ro)] /\ w.ro \in BOOLEAN
    BY <1>1, <1>4 DEF Open, Local
  <2>2. w.ro => opt.ro \/ disk[w.target].ro
    BY DEF Writable
  <2>3. Touches(w.target) /\ disk'[w.target] = Fresh(w.ro)
    BY <1>1, <2>1, <2>2, FreshContent, PutTouches
  <2> QED  BY <1>1, <1>3, <1>4, <2>1, <2>3, FreshContent
<1>5. CASE Exists(w.target) /\ opt.append
  <2>1. disk' = disk
    BY <1>5 DEF Open, Typed
  <2> QED  BY <1>1, <1>3, <1>5, <2>1 DEF Touches, Typed, Exists
<1>6. CASE Exists(w.target) /\ ~opt.append
  <2>1. disk' = [disk EXCEPT ![w.target] = [disk[w.target] EXCEPT !.old = 0, !.new = 0]]
    BY <1>6 DEF Open
  <2> QED  BY <1>1, <1>3, <1>6, <2>1, Empties DEF Exists
<1> QED  BY <1>4, <1>5, <1>6

LEMMA OpenStep ==
    ASSUME IInv, Open
    PROVE  IInv'
<1> USE DEF IInv
<1>1. w.pc = "open" /\ Opens /\ w.target # NoName /\ UNCHANGED <<opt, mv, swap, told>>
  BY DEF Open, Way
<1>2. /\ Spends /\ GoesTo("write") /\ Touches(w.target)
      /\ disk'[w.target].id # "none"
      /\ Exists(w.target) => disk'[w.target].id = disk[w.target].id
      /\ IF opt.append /\ Exists(w.target) THEN disk'[w.target] = disk[w.target]
         ELSE disk'[w.target].old = 0 /\ disk'[w.target].new = 0
  BY Opened
<1>3. /\ File # Tmp /\ Tmp # File
      /\ w.target \in {File, Tmp} /\ w.target \in Names /\ disk'[Org] = disk[Org]
      /\ \A n \in {File, Tmp} : n # w.target => disk'[n] = disk[n]
      /\ (w.backup # NoName => disk'[w.backup] = disk[w.backup]) /\ Modest
  BY <1>1, <1>2, NameFacts, BackupFacts, TouchedModestly DEF Touches, Typed, Local
<1>4. Typed'
  BY <1>1, <1>2 DEF Typed, Exists, Goes, GoesTo, Spends, Touches
<1>5. Calls'
  BY <1>1, <1>2 DEF Calls, Goes, GoesTo
<1>6. Way'
  BY <1>1, <1>2 DEF Way, Calls, NeedsBackup, Goes, GoesTo
<1>7. Blamed'
  BY <1>1, <1>2 DEF Blamed, Goes, GoesTo, Spends
<1>8. Before'
  BY <1>1, <1>2 DEF Before, Calls, Goes, GoesTo
<1>9. Kept'
  BY <1>1, <1>2, <1>3, ZenonT(60)
     DEF Kept, BackupWhole, Guarded, NeedsBackup, Calls, Way, Goes, GoesTo, Spends
<1>10. There'
  BY <1>1, <1>2 DEF There, Exists, Calls, Goes, GoesTo
<1>11. Back'
  BY <1>1, <1>2 DEF Back, Calls, Goes, GoesTo
<1>12. Ends'
  BY <1>1, <1>2 DEF Ends, NeedsBackup, Way, Goes, GoesTo
<1>13. New'
  <2>1. /\ w'.pc = "write" /\ w'.target = w.target /\ w.target \in {File, Tmp}
        /\ mv.for = "none" /\ w'.result = "none" /\ Excused' = Excused
    BY <1>1, <1>2, <1>3 DEF Way, Calls, GoesTo, Goes, Excused, Renamed, NeedsBackup
  <2>2. CASE w.target = File
    <3>1. ~Excused => disk'[File].old = OldPart
      <4>1. CASE opt.append /\ Exists(File)
        BY <1>1, <1>2, <2>2, <4>1 DEF Before, SetAside, Between, FileWhole, OldPart
      <4>2. CASE opt.append /\ ~Exists(File)
        <5>1. opt.force /\ disk'[File].old = 0
          BY <1>1, <1>2, <2>2, <4>2 DEF Opens
        <5>2. ~Excused => ~opt.existed
          BY <1>1, <4>2, <5>1, NameFacts DEF Before, SetAside, Between, FileWhole,
             Excused, Typed, Whole
        <5> QED  BY <5>1, <5>2 DEF OldPart
      <4>3. CASE ~opt.append
        BY <1>2, <2>2, <4>3 DEF OldPart
      <4> QED  BY <4>1, <4>2, <4>3
    <3> QED  BY <1>1, <1>3, <2>1, <2>2, <3>1 DEF New, OldPart
  <2>3. CASE w.target = Tmp
    <3>1. disk'[File].new = 0
      BY <1>1, <1>3, <2>3, NameFacts DEF Before, SetAside, Between, FileWhole, Typed
    <3>2. ~Excused => ~opt.append
      BY <1>1, <2>3 DEF Opens, Before, Excused
    <3> QED  BY <1>1, <1>3, <2>1, <2>3, <3>1, <3>2 DEF New
  <2> QED  BY <2>1, <2>2, <2>3
<1>14. Links'
  BY <1>1, <1>2, <1>3 DEF Links, Goes, GoesTo, Exists
<1>15. Writable'
  BY <1>1, <1>2, <1>3 DEF Writable, Goes, GoesTo, Modest
<1>16. Users'
  BY <1>1, <1>2, <1>3, <1>4, UsersStay DEF Users, Goes, GoesTo
<1> QED  BY <1>4, <1>5, <1>6, <1>7, <1>8, <1>9, <1>10, <1>11, <1>12, <1>13, <1>14, <1>15,
            <1>16

LEMMA OpenFailed ==
    ASSUME Typed, OpenFails
    PROVE  /\ Spends
           /\ \/ opt.force /\ GoesTo(IF opt.append THEN "open" ELSE "delete")
              \/ GoesTo("restore")
<1>1. w \in Local /\ Spends
  BY Costs DEF Typed, OpenFails
<1>2. PICK linked \in SeenLinked :
         w' = IF TriesAgain /\ ~linked
              THEN [w EXCEPT !.pc = IF opt.append THEN "open" ELSE "delete",
                             !.errmsg = TRUE, !.ro = FALSE]
              ELSE To("restore")
  BY DEF OpenFails
<1>3. CASE TriesAgain /\ ~linked
  <2>1. w' = [w EXCEPT !.pc = IF opt.append THEN "open" ELSE "delete",
                       !.errmsg = TRUE, !.ro = FALSE]
    BY <1>2, <1>3
  <2>2. GoesTo(IF opt.append THEN "open" ELSE "delete")
    BY <1>1, <2>1, ZenonT(60) DEF Goes, GoesTo, Local, Pcs
  <2> QED  BY <1>1, <1>3, <2>2 DEF TriesAgain
<1>4. CASE ~(TriesAgain /\ ~linked)
  BY <1>1, <1>2, <1>4, ToGoes DEF Pcs
<1> QED  BY <1>3, <1>4

LEMMA OpenFailsStep ==
    ASSUME IInv, OpenFails
    PROVE  IInv'
<1> USE DEF IInv
<1>1. w.pc = "open" /\ UNCHANGED <<disk, opt, mv, swap, told>>
  BY DEF OpenFails
<1>2. /\ Spends
      /\ \/ opt.force /\ GoesTo(IF opt.append THEN "open" ELSE "delete")
         \/ GoesTo("restore")
  BY OpenFailed
<1>3. Typed'
  BY <1>1, <1>2 DEF Typed, Exists, Goes, GoesTo, Spends
<1>4. Calls'
  BY <1>1, <1>2 DEF Calls, Goes, GoesTo
<1>5. Way'
  BY <1>1, <1>2 DEF Way, Calls, NeedsBackup, Goes, GoesTo
<1>6. Blamed'
  BY <1>1, <1>2 DEF Blamed, Goes, GoesTo, Spends
<1>7. Before'
  BY <1>1, <1>2, NotAside
     DEF Before, FileWhole, Exists, Renamed, NeedsBackup, Goes,
     GoesTo, Fails
<1>8. Kept'
  BY <1>1, <1>2 DEF Kept, BackupWhole, Guarded, NeedsBackup, Goes, GoesTo
<1>9. There'
  BY <1>1, <1>2 DEF There, Exists, Goes, GoesTo
<1>10. Back'
  BY <1>1, <1>2
     DEF Back, FileWhole, Exists, Renamed, Guarded, NeedsBackup, Goes, GoesTo, Before
<1>11. Ends'
  BY <1>1, <1>2 DEF Ends, NeedsBackup, Way, Goes, GoesTo
<1>12. New'
  BY <1>1, <1>2
     DEF New, Excused, Complete, OldPart, Renamed, Guarded, NeedsBackup, Goes, GoesTo
<1>13. Links'
  BY <1>1, <1>2 DEF Links, Goes, GoesTo
<1>14. Writable'
  BY <1>1, <1>2 DEF Writable, Goes, GoesTo
<1>15. Users'
  BY <1>1, <1>2 DEF Users, Goes, GoesTo
<1> QED  BY <1>3, <1>4, <1>5, <1>6, <1>7, <1>8, <1>9, <1>10, <1>11, <1>12, <1>13, <1>14,
            <1>15

LEMMA DeleteFirstStep ==
    ASSUME IInv, DeleteFirst
    PROVE  IInv'
<1> USE DEF IInv
<1>1. w.pc = "delete" /\ w.target # NoName /\ Remove(w.target)
        /\ UNCHANGED <<opt, mv, swap, told>>
  BY DEF DeleteFirst, Way
<1>2. w.target \in {File, Tmp} /\ w.target \in Names
  BY <1>1, NameFacts DEF Typed, Local
<1>3. /\ Spends /\ GoesTo("open") /\ Touches(w.target)
      /\ disk'[w.target] = Absent \/ disk' = disk
  BY <1>2, RemoveTouches, ToGoes DEF DeleteFirst, Pcs
<1>4. /\ File # Tmp /\ disk'[Org] = disk[Org]
      /\ \A n \in {File, Tmp} : n # w.target => disk'[n] = disk[n]
      /\ (w.backup # NoName => disk'[w.backup] = disk[w.backup]) /\ Modest
  BY <1>2, <1>3, NameFacts, BackupFacts, TouchedModestly DEF Touches
<1>5. Typed'
  BY <1>1, <1>3 DEF Typed, Exists, Goes, GoesTo, Spends, Touches
<1>6. Calls'
  BY <1>1, <1>3 DEF Calls, Goes, GoesTo
<1>7. Way'
  BY <1>1, <1>3 DEF Way, Calls, NeedsBackup, Goes, GoesTo
<1>8. Blamed'
  BY <1>1, <1>3 DEF Blamed, Goes, GoesTo, Spends
<1>9. Before'
  <2>1. opt.force /\ ~opt.append /\ w'.pc = "open" /\ mv.for = "none"
    BY <1>1, <1>3 DEF Way, Calls, GoesTo, Goes
  <2>2. ~Exists(Tmp) /\ (~Exists(File) \/ (opt.existed /\ FileWhole))
    BY <1>1 DEF Before
  <2>3. Absent.id = "none"
    BY DEF Absent
  <2>4. ~Exists(Tmp)' /\ (~Exists(File)' \/ (opt.existed /\ FileWhole'))
    BY <1>3, <1>4, <2>2, <2>3 DEF Exists, FileWhole
  <2> QED  BY <1>1, <2>1, <2>4, NotAside DEF Before
<1>10. Kept'
  BY <1>1, <1>3 DEF Kept, Guarded, Calls, Way, Goes, GoesTo
<1>11. There'
  BY <1>1, <1>3 DEF There, Calls, Goes, GoesTo
<1>12. Back'
  BY <1>1, <1>3 DEF Back, Calls, Goes, GoesTo
<1>13. Ends'
  BY <1>1 DEF Ends, Way
<1>14. New'
  BY <1>1, <1>3 DEF New, Calls, Way, Goes, GoesTo
<1>15. Links'
  BY <1>1 DEF Links, Way
<1>16. Writable'
  BY <1>1, <1>3, <1>4 DEF Writable, Goes, GoesTo, Modest
<1>17. Users'
  BY <1>1, <1>3, <1>4, <1>5, UsersStay DEF Users, Goes, GoesTo
<1> QED  BY <1>5, <1>6, <1>7, <1>8, <1>9, <1>10, <1>11, <1>12, <1>13, <1>14, <1>15, <1>16,
            <1>17

LEMMA Writes ==
    ASSUME IInv, WriteData
    PROVE  /\ Spends /\ Touches(w.target) /\ disk'[w.target].id = disk[w.target].id
           /\ disk'[w.target].old = disk[w.target].old
           /\ \/ GoesTo("close") /\ UNCHANGED disk /\ disk[w.target].new = Whole
              \/ UNCHANGED w
              \/ Goes("close", w.backup, w.target, TRUE) /\ UNCHANGED disk /\ faults' >= 1
<1> USE DEF IInv
<1>1. w.target \in Names /\ w \in Local /\ Exists(w.target)
  BY NameFacts DEF WriteData, Way, Typed, Local, There
<1>2. UNCHANGED disk => Touches(w.target)
  BY <1>1 DEF Touches, Typed, Exists
<1>3. CASE Well /\ Written /\ w' = To("close") /\ UNCHANGED disk
  BY <1>2, <1>3, Costs, ToGoes DEF Pcs, Written
<1>4. CASE Well /\ ~Written /\ disk' = [disk EXCEPT ![w.target].new = @ + 1] /\ UNCHANGED w
  BY <1>1, <1>4, Costs, NewGrows DEF Written
<1>5. CASE Fault /\ w' = [To("close") EXCEPT !.end0 = TRUE] /\ UNCHANGED disk
  <2>1. Goes("close", w.backup, w.target, TRUE)
    BY <1>1, <1>5 DEF Goes, Local, Pcs, To
  <2> QED  BY <1>2, <1>5, <2>1, Costs
<1> QED  BY <1>3, <1>4, <1>5 DEF WriteData

LEMMA WriteDataStep ==
    ASSUME IInv, WriteData
    PROVE  IInv'
<1> USE DEF IInv
<1>1. w.pc = "write" /\ w.target # NoName /\ UNCHANGED <<opt, mv, swap, told>>
  BY DEF WriteData, Way
<1>2. /\ Spends /\ Touches(w.target) /\ disk'[w.target].id = disk[w.target].id
      /\ disk'[w.target].old = disk[w.target].old
      /\ \/ GoesTo("close") /\ UNCHANGED disk /\ disk[w.target].new = Whole
         \/ UNCHANGED w
         \/ Goes("close", w.backup, w.target, TRUE) /\ UNCHANGED disk /\ faults' >= 1
  BY Writes
<1>3. /\ File # Tmp /\ Tmp # File
      /\ w.target \in {File, Tmp} /\ w.target \in Names /\ disk'[Org] = disk[Org]
      /\ \A n \in {File, Tmp} : n # w.target => disk'[n] = disk[n]
      /\ (w.backup # NoName => disk'[w.backup] = disk[w.backup]) /\ Modest
  BY <1>1, <1>2, NameFacts, BackupFacts, TouchedModestly DEF Touches, Typed, Local
<1>4. Typed'
  BY <1>1, <1>2 DEF Typed, Exists, Goes, GoesTo, Spends, Touches
<1>5. Calls'
  BY <1>1, <1>2 DEF Calls, Goes, GoesTo
<1>6. Way'
  BY <1>1, <1>2 DEF Way, Calls, NeedsBackup, Goes, GoesTo
<1>7. Blamed'
  BY <1>1, <1>2 DEF Blamed, Goes, GoesTo, Spends
<1>8. Before'
  BY <1>1, <1>2 DEF Before, Calls, Goes, GoesTo
<1>9. Kept'
  BY <1>1, <1>2, <1>3
     DEF Kept, BackupWhole, Guarded, NeedsBackup, Calls, Goes, GoesTo, Spends
<1>10. There'
  BY <1>1, <1>2, <1>3, ZenonT(60) DEF There, Exists, Calls, Way, Goes, GoesTo, Spends,
     Touches
<1>11. Back'
  BY <1>1, <1>2 DEF Back, Calls, Goes, GoesTo
<1>12. Ends'
  BY <1>1, <1>2 DEF Ends, NeedsBackup, Way, Goes, GoesTo
<1>13. New'
  <2>1. CASE w.target = File
    BY <1>1, <1>2, <1>3, <2>1, ZenonT(60)
       DEF New, Excused, Complete, OldPart, Renamed, Guarded, NeedsBackup, Calls, Way,
       Goes, GoesTo
  <2>2. CASE w.target = Tmp
    BY <1>1, <1>2, <1>3, <2>2
       DEF New, Excused, Complete, OldPart, Guarded, NeedsBackup, Way, Goes, GoesTo
  <2> QED  BY <1>3, <2>1, <2>2
<1>14. Links'
  BY <1>1, <1>2, <1>3 DEF Links, Goes, GoesTo
<1>15. Writable'
  BY <1>1, <1>2, <1>3 DEF Writable, Goes, GoesTo, Modest
<1>16. Users'
  BY <1>1, <1>2, <1>3, <1>4, UsersStay DEF Users, Goes, GoesTo
<1> QED  BY <1>4, <1>5, <1>6, <1>7, <1>8, <1>9, <1>10, <1>11, <1>12, <1>13, <1>14, <1>15,
            <1>16

LEMMA Closes ==
    ASSUME IInv, Close
    PROVE  /\ Spends
           /\ \/ GoesTo("permit")
              \/ Goes("permit", w.backup, w.target, TRUE) /\ faults' >= 1
<1>1. w \in Local
  BY DEF IInv, Typed
<1>2. CASE Well /\ w' = To("permit")
  BY <1>2, Costs, ToGoes DEF IInv, Pcs
<1>3. CASE Fault /\ w' = [To("permit") EXCEPT !.end0 = TRUE]
  <2>1. Goes("permit", w.backup, w.target, TRUE)
    BY <1>1, <1>3 DEF Goes, Local, Pcs, To
  <2> QED  BY <1>3, <2>1, Costs DEF IInv
<1> QED  BY <1>2, <1>3 DEF Close

LEMMA CloseStep ==
    ASSUME IInv, Close
    PROVE  IInv'
<1> USE DEF IInv
<1>1. w.pc = "close" /\ w.target # NoName /\ UNCHANGED <<disk, opt, mv, swap, told>>
  BY DEF Close, Way
<1>2. /\ Spends
      /\ \/ GoesTo("permit")
         \/ Goes("permit", w.backup, w.target, TRUE) /\ faults' >= 1
  BY Closes
<1>3. Typed'
  BY <1>1, <1>2 DEF Typed, Exists, Goes, GoesTo, Spends
<1>4. Calls'
  BY <1>1, <1>2 DEF Calls, Goes, GoesTo
<1>5. Way'
  BY <1>1, <1>2 DEF Way, Calls, NeedsBackup, Goes, GoesTo
<1>6. Blamed'
  BY <1>1, <1>2 DEF Blamed, Goes, GoesTo, Spends
<1>7. Before'
  BY <1>1, <1>2 DEF Before, Calls, Goes, GoesTo
<1>8. Kept'
  BY <1>1, <1>2 DEF Kept, BackupWhole, Guarded, NeedsBackup, Calls, Goes, GoesTo
<1>9. There'
  BY <1>1, <1>2 DEF There, Calls, Goes, GoesTo
<1>10. Back'
  BY <1>1, <1>2 DEF Back, Calls, Goes, GoesTo
<1>11. Ends'
  BY <1>1, <1>2 DEF Ends, NeedsBackup, Way, Goes, GoesTo
<1>12. New'
  BY <1>1, <1>2, ZenonT(60)
     DEF New, Excused, OldPart, Renamed, Guarded, NeedsBackup, Calls, Way, Goes, GoesTo
<1>13. Links'
  BY <1>1, <1>2 DEF Links, Goes, GoesTo
<1>14. Writable'
  BY <1>1, <1>2 DEF Writable, Goes, GoesTo
<1>15. Users'
  BY <1>1, <1>2 DEF Users, Goes, GoesTo
<1> QED  BY <1>3, <1>4, <1>5, <1>6, <1>7, <1>8, <1>9, <1>10, <1>11, <1>12, <1>13, <1>14,
            <1>15

LEMMA PermitDone ==
    ASSUME IInv, Permit
    PROVE  /\ Spends /\ Touches(w.target) /\ disk'[w.target].id = disk[w.target].id
           /\ disk'[w.target].old = disk[w.target].old
           /\ disk'[w.target].new = disk[w.target].new
           /\ opt.existed => disk'[w.target].ro = opt.ro \/ w'.unset
           /\ GoesTo("converted")
<1> USE DEF IInv
<1>1. w.target \in Names /\ w \in Local
  BY NameFacts DEF Permit, Way, Typed, Local
<1>2. /\ Permission \in BOOLEAN /\ (Permission => disk[w.target].ro \/ opt.ro)
      /\ opt.existed => Permission = opt.ro
  BY <1>1 DEF Permission, Typed, Options, Content
<1>3. CASE Well /\ w' = To("converted") /\ disk' = [disk EXCEPT ![w.target].ro = Permission]
  <2>1. /\ Touches(w.target) /\ disk'[w.target].id = disk[w.target].id
        /\ disk'[w.target].new = disk[w.target].new
        /\ disk'[w.target].old = disk[w.target].old /\ disk'[w.target].ro = Permission
    BY <1>1, <1>2, <1>3, Permits
  <2> QED  BY <1>2, <1>3, <2>1, Costs, ToGoes DEF Pcs
<1>4. CASE Fault /\ w' = [To("converted") EXCEPT !.unset = TRUE] /\ UNCHANGED disk
  <2>1. GoesTo("converted") /\ w'.unset
    BY <1>1, <1>4 DEF Goes, GoesTo, Local, Pcs, To
  <2> QED  BY <1>1, <1>4, <2>1, Costs DEF Touches, Typed, Exists
<1> QED  BY <1>3, <1>4 DEF Permit

LEMMA PermitStep ==
    ASSUME IInv, Permit
    PROVE  IInv'
<1> USE DEF IInv
<1>1. w.pc = "permit" /\ w.target # NoName /\ UNCHANGED <<opt, mv, swap, told>>
  BY DEF Permit, Way
<1>2. /\ Spends /\ Touches(w.target) /\ disk'[w.target].id = disk[w.target].id
      /\ disk'[w.target].old = disk[w.target].old
      /\ disk'[w.target].new = disk[w.target].new
      /\ opt.existed => disk'[w.target].ro = opt.ro \/ w'.unset
      /\ GoesTo("converted")
  BY PermitDone
<1>3. /\ File # Tmp /\ Tmp # File
      /\ w.target \in {File, Tmp} /\ w.target \in Names /\ disk'[Org] = disk[Org]
      /\ \A n \in {File, Tmp} : n # w.target => disk'[n] = disk[n]
      /\ (w.backup # NoName => disk'[w.backup] = disk[w.backup]) /\ Modest
  BY <1>1, <1>2, NameFacts, BackupFacts, TouchedModestly DEF Touches, Typed, Local
<1>4. Typed'
  BY <1>1, <1>2 DEF Typed, Exists, Goes, GoesTo, Spends, Touches
<1>5. Calls'
  BY <1>1, <1>2 DEF Calls, Goes, GoesTo
<1>6. Way'
  BY <1>1, <1>2 DEF Way, Calls, NeedsBackup, Goes, GoesTo
<1>7. Blamed'
  BY <1>1, <1>2 DEF Blamed, Goes, GoesTo, Spends
<1>8. Before'
  BY <1>1, <1>2 DEF Before, Calls, Goes, GoesTo
<1>9. Kept'
  BY <1>1, <1>2, <1>3, ZenonT(60)
     DEF Kept, BackupWhole, Guarded, NeedsBackup, Calls, Way, Goes, GoesTo, Spends
<1>10. There'
  BY <1>1, <1>2 DEF There, Calls, Goes, GoesTo
<1>11. Back'
  BY <1>1, <1>2 DEF Back, Calls, Goes, GoesTo
<1>12. Ends'
  BY <1>1, <1>2 DEF Ends, NeedsBackup, Way, Goes, GoesTo
<1>13. New'
  <2>1. CASE w.target = File
    BY <1>1, <1>2, <1>3, <2>1
       DEF New, Excused, Complete, OldPart, Renamed, Guarded, NeedsBackup, Way, Goes,
       GoesTo
  <2>2. CASE w.target = Tmp
    BY <1>1, <1>2, <1>3, <2>2
       DEF New, Excused, Complete, OldPart, Guarded, NeedsBackup, Way, Goes, GoesTo
  <2> QED  BY <1>3, <2>1, <2>2
<1>14. Links'
  BY <1>1, <1>2, <1>3 DEF Links, Goes, GoesTo
<1>15. Writable'
  BY <1>1, <1>2, <1>3 DEF Writable, Goes, GoesTo, Modest
<1>16. Users'
  BY <1>1, <1>2, <1>3, <1>4, UsersStay DEF Users, Goes, GoesTo
<1> QED  BY <1>4, <1>5, <1>6, <1>7, <1>8, <1>9, <1>10, <1>11, <1>12, <1>13, <1>14, <1>15,
            <1>16

LEMMA Overwrites ==
    ASSUME IInv, CharConvert
    PROVE  \/ /\ Spends /\ UNCHANGED w /\ w.target = Tmp /\ Touches(File)
              /\ Exists(File) => disk'[File].id = disk[File].id
              /\ disk'[File].old = 0
           \/ /\ Spends /\ faults' >= 1 /\ UNCHANGED disk
              /\ Goes("converted", w.backup, w.target, TRUE)
           \/ /\ Spends /\ GoesTo("end") /\ Touches(Tmp)
              /\ w.target = Tmp => w.end0 \/ disk[File].new = Whole
<1> USE DEF IInv
<1>1. File \in Names /\ Tmp \in Names /\ w \in Local /\ w.pc = "converted"
  BY NameFacts DEF CharConvert, Typed
<1>2. CASE /\ w.target = Tmp /\ disk[File].new # Whole /\ UNCHANGED w /\ Well
           /\ disk' = [disk EXCEPT ![File] =
                         IF Exists(File)
                         THEN [disk[File] EXCEPT !.old = 0, !.new = disk[File].new + 1]
                         ELSE [Fresh(FALSE) EXCEPT !.new = 1]]
  <2>1. disk[File] \in Content /\ 0 \in Amounts /\ 1 \in Amounts
    BY <1>1 DEF Typed, Amounts, Whole
  <2>4. disk[File].new + 1 \in Amounts
    BY <1>2, <2>1, ContentFacts, PartMore
  <2>2. CASE Exists(File)
    <3> DEFINE c == [disk[File] EXCEPT !.old = 0, !.new = disk[File].new + 1]
    <3>1. /\ c \in Content /\ c.id = disk[File].id /\ c.old = 0 /\ c.ro = disk[File].ro
      BY <2>1, <2>4 DEF Content
    <3>2. disk' = [disk EXCEPT ![File] = c]
      BY <1>2, <2>2
    <3>3. /\ c.id # "none" /\ (c.id = "user" => disk[File].id = "user")
          /\ c.ro => disk[File].ro \/ opt.ro
      BY <2>2, <3>1 DEF Exists
    <3> HIDE DEF c
    <3>4. Touches(File) /\ disk'[File] = c
      BY <1>1, <3>1, <3>2, <3>3, PutTouches
    <3> QED  BY <1>2, <3>1, <3>4, Costs
  <2>3. CASE ~Exists(File)
    <3> DEFINE c == [Fresh(FALSE) EXCEPT !.new = 1]
    <3>1. /\ c \in Content /\ c.id = "fresh" /\ c.old = 0 /\ ~c.ro
      BY <2>1 DEF Content, Fresh
    <3>2. disk' = [disk EXCEPT ![File] = c]
      BY <1>2, <2>3
    <3> HIDE DEF c
    <3>3. Touches(File) /\ disk'[File] = c
      BY <1>1, <3>1, <3>2, PutTouches
    <3> QED  BY <1>2, <2>3, <3>1, <3>3, Costs
  <2> QED  BY <2>2, <2>3
<1>3. CASE Fault /\ w' = [w EXCEPT !.end0 = TRUE] /\ UNCHANGED disk
  <2>1. Goes("converted", w.backup, w.target, TRUE)
    BY <1>1, <1>3 DEF Goes, Local
  <2> QED  BY <1>3, <2>1, Costs
<1>4. CASE /\ w.target = Tmp => w.end0 \/ disk[File].new = Whole
           /\ w' = To("end") /\ Well /\ disk' = [disk EXCEPT ![Tmp] = Absent]
  <2>1. Remove(Tmp) /\ Spends
    BY <1>4, Costs DEF Remove
  <2>2. Touches(Tmp)
    BY <1>1, <2>1, RemoveTouches
  <2> QED  BY <1>4, <2>1, <2>2, ToGoes DEF Pcs
<1> QED  BY <1>2, <1>3, <1>4 DEF CharConvert

LEMMA CharConvertStep ==
    ASSUME IInv, CharConvert
    PROVE  IInv'
<1> USE DEF IInv
<1>1. w.pc = "converted" /\ w.target # NoName /\ UNCHANGED <<opt, mv, swap, told>>
  BY DEF CharConvert, Way
<1>2. \/ /\ Spends /\ UNCHANGED w /\ w.target = Tmp /\ Touches(File)
         /\ Exists(File) => disk'[File].id = disk[File].id
         /\ disk'[File].old = 0
      \/ /\ Spends /\ faults' >= 1 /\ UNCHANGED disk
         /\ Goes("converted", w.backup, w.target, TRUE)
      \/ /\ Spends /\ GoesTo("end") /\ Touches(Tmp)
         /\ w.target = Tmp => w.end0 \/ disk[File].new = Whole
  BY Overwrites
<1>3. /\ w.target \in {File, Tmp} /\ File # Tmp /\ disk'[Org] = disk[Org]
      /\ (w.backup # NoName => disk'[w.backup] = disk[w.backup]) /\ Modest
      /\ Touches(Tmp) => disk'[File] = disk[File]
      /\ Touches(File) => disk'[Tmp] = disk[Tmp]
  BY <1>1, <1>2, NameFacts, BackupFacts, TouchedModestly, UntouchedModestly
     DEF Touches, Typed, Local
<1>4. Typed'
  BY <1>1, <1>2 DEF Typed, Exists, Goes, GoesTo, Spends, Touches
<1>5. Calls'
  BY <1>1, <1>2 DEF Calls, Goes, GoesTo
<1>6. Way'
  BY <1>1, <1>2 DEF Way, Calls, NeedsBackup, Goes, GoesTo
<1>7. Blamed'
  BY <1>1, <1>2 DEF Blamed, Goes, GoesTo, Spends
<1>8. Before'
  BY <1>1, <1>2 DEF Before, Calls, Goes, GoesTo
<1>9. Kept'
  BY <1>1, <1>2, <1>3, ZenonT(60)
     DEF Kept, BackupWhole, Guarded, NeedsBackup, Calls, Way, Goes, GoesTo, Spends
<1>10. There'
  BY <1>1, <1>2 DEF There, Calls, Goes, GoesTo
<1>11. Back'
  BY <1>1, <1>2 DEF Back, Calls, Goes, GoesTo
<1>12. Ends'
  BY <1>1, <1>2 DEF Ends, NeedsBackup, Way, Goes, GoesTo
<1>13. New'
  <2>1. CASE w.target = File
    BY <1>1, <1>2, <1>3, <2>1
       DEF New, Excused, Complete, OldPart, Renamed, Guarded, NeedsBackup, Way, Goes,
       GoesTo
  <2>2. CASE w.target = Tmp
    <3>1. /\ Excused' = Excused /\ OldPart' = OldPart /\ w'.target = Tmp
          /\ w.result = "none" /\ w'.result = "none" /\ mv.for = "none"
      BY <1>1, <1>2, <2>2 DEF Excused, OldPart, Way, Calls, Goes, GoesTo
    <3>2. CASE w'.pc = "converted"
      BY <1>1, <1>2, <1>3, <3>1, <3>2 DEF New, Goes, GoesTo
    <3>3. CASE w'.pc = "end"
      <4>1. w'.end0 = w.end0 /\ disk'[File] = disk[File]
            /\ (w.end0 \/ disk[File].new = Whole)
        BY <1>1, <1>2, <1>3, <2>2, <3>3 DEF Goes, GoesTo
      <4>2. ~w.end0 /\ ~Excused => disk[File].old = 0 /\ ~opt.append
        BY <1>1, <2>2, <4>1 DEF New, Whole
      <4> QED  BY <1>1, <1>3, <2>2, <3>1, <3>3, <4>1, <4>2 DEF New, Complete, OldPart
    <3> QED  BY <1>1, <1>2, <3>2, <3>3 DEF Goes, GoesTo
  <2> QED  BY <1>3, <2>1, <2>2
<1>14. Links'
  BY <1>1, <1>2, <1>3 DEF Links, Goes, GoesTo, Exists
<1>15. Writable'
  BY <1>1, <1>2, <1>3 DEF Writable, Goes, GoesTo, Modest
<1>16. Users'
  BY <1>1, <1>2, <1>3, <1>4, UsersStay DEF Users, Goes, GoesTo
<1> QED  BY <1>4, <1>5, <1>6, <1>7, <1>8, <1>9, <1>10, <1>11, <1>12, <1>13, <1>14, <1>15,
            <1>16

(***************************************************************************)
(* The way back, and the end.                                              *)
(***************************************************************************)
LEMMA Restores ==
    ASSUME IInv, Restore
    PROVE  \/ /\ GoesTo("mv") /\ w.target = File /\ w.backup # NoName
              /\ w.copying => ~Exists(File)
              /\ mv' = [from |-> w.backup, to |-> File, at |-> "remove",
                        for |-> IF w.copying THEN "restore" ELSE "put back"]
           \/ /\ UNCHANGED mv /\ GoesTo("copied") /\ w.target = File /\ w.backup # NoName
              /\ w.copying /\ Exists(File)
           \/ /\ UNCHANGED mv /\ GoesTo("missing")
                 /\ ~(w.backup # NoName /\ w.target = File)
BY ToGoes DEF IInv, Restore, Rename, Pcs

LEMMA RestoreCallsStep ==
    ASSUME IInv, Restore, GoesTo("mv"), w.target = File, w.backup # NoName,
           w.copying => ~Exists(File),
           mv' = [from |-> w.backup, to |-> File, at |-> "remove",
                  for |-> IF w.copying THEN "restore" ELSE "put back"]
    PROVE  IInv'
<1> USE DEF IInv
<1>1. w.pc = "restore" /\ mv.for = "none" /\ w.copying \in BOOLEAN
      /\ UNCHANGED <<disk, opt, swap, faults, told>>
  BY DEF Restore, Calls, Typed, Local
<1>2. /\ mv' \in Call /\ mv'.from = w.backup /\ mv'.to = File /\ mv'.at = "remove"
      /\ mv'.for = IF w.copying THEN "restore" ELSE "put back"
  BY NameFacts DEF Call, Typed, Local, Backups
<1>3. Typed'
  BY <1>1, <1>2 DEF Typed, Exists, Goes, GoesTo
<1>4. Calls'
  BY DEF Calls, Goes, GoesTo
<1>5. Way'
  BY <1>1 DEF Way, NeedsBackup, Goes, GoesTo
<1>6. Blamed'
  BY <1>1 DEF Blamed, Goes, GoesTo
<1>7. Before'
  BY DEF Before, Goes, GoesTo
<1>8. Kept'
  BY <1>1 DEF Kept, BackupWhole, Guarded, NeedsBackup, Goes, GoesTo
<1>9. There'
  BY DEF There, Goes, GoesTo
<1>10. Back'
  BY <1>1 DEF Back, FileWhole, Exists, Renamed, NeedsBackup, Goes, GoesTo
<1>11. Ends'
  BY <1>1 DEF Ends, LeftAside, FileWhole, BackupWhole, CopyThrown, NeedsBackup, Goes, GoesTo
<1>12. New'
  BY <1>1 DEF New, Excused, Complete, OldPart, Renamed, Guarded, NeedsBackup, Goes, GoesTo
<1>13. Links'
  BY <1>1 DEF Links, Goes, GoesTo, Exists
<1>14. Writable'
  BY <1>1 DEF Writable, Goes, GoesTo
<1>15. Users'
  BY <1>1 DEF Users, Goes, GoesTo
<1> QED  BY <1>3, <1>4, <1>5, <1>6, <1>7, <1>8, <1>9, <1>10, <1>11, <1>12, <1>13, <1>14,
            <1>15

LEMMA RestoreNotStep ==
    ASSUME IInv, Restore, UNCHANGED mv,
           \/ GoesTo("copied") /\ w.target = File /\ w.backup # NoName /\ w.copying
              /\ Exists(File)
           \/ GoesTo("missing") /\ ~(w.backup # NoName /\ w.target = File)
    PROVE  IInv'
<1> USE DEF IInv
<1>1. w.pc = "restore" /\ mv.for = "none" /\ UNCHANGED <<disk, opt, swap, faults, told>>
  BY DEF Restore, Calls
<1>2. Typed'
  BY <1>1 DEF Typed, Exists, Goes, GoesTo
<1>3. Calls'
  BY <1>1 DEF Calls, Goes, GoesTo
<1>4. Way'
  BY <1>1 DEF Way, NeedsBackup, Goes, GoesTo
<1>5. Blamed'
  BY <1>1 DEF Blamed, Goes, GoesTo
<1>6. Before'
  BY <1>1, NotAside
     DEF Before, FileWhole, Exists, Renamed, NeedsBackup, Goes,
     GoesTo, Fails
<1>7. Kept'
  BY <1>1 DEF Kept, Goes, GoesTo
<1>8. There'
  BY <1>1 DEF There, Exists, Goes, GoesTo
<1>9. Back'
  BY <1>1 DEF Back, FileWhole, BackupWhole, Exists, Renamed, Guarded, Goes, GoesTo, Kept
<1>10. Ends'
  BY <1>1 DEF Ends, LeftAside, FileWhole, BackupWhole, CopyThrown, NeedsBackup, Goes, GoesTo
<1>11. New'
  BY <1>1 DEF New, Excused, Complete, OldPart, Renamed, Guarded, NeedsBackup, Goes, GoesTo
<1>12. Links'
  BY <1>1 DEF Links, Goes, GoesTo
<1>13. Writable'
  BY <1>1 DEF Writable, Goes, GoesTo
<1>14. Users'
  BY <1>1 DEF Users, Goes, GoesTo
<1> QED  BY <1>2, <1>3, <1>4, <1>5, <1>6, <1>7, <1>8, <1>9, <1>10, <1>11, <1>12, <1>13,
            <1>14

LEMMA RestoreStep ==
    ASSUME IInv, Restore
    PROVE  IInv'
BY Restores, RestoreCallsStep, RestoreNotStep

LEMMA DropCopyStep ==
    ASSUME IInv, DropCopy
    PROVE  IInv'
<1> USE DEF IInv
<1>1. w.pc = "copied" /\ w.copying /\ UNCHANGED <<opt, mv, swap, told>>
  BY DEF DropCopy, Way
<1>2. /\ w.backup \in Names /\ w.backup # NoName /\ w.backup # File
      /\ w.backup # Tmp /\ w.backup # Org
  BY <1>1, BackupFacts DEF Way
<1>3. /\ Spends /\ GoesTo("missing") /\ Touches(w.backup)
      /\ ~Exists(File) => UNCHANGED disk
  BY <1>2, RemoveTouches, ToGoes, Costs DEF DropCopy, Well, Pcs, Touches, Typed, Exists
<1>4. /\ disk'[File] = disk[File] /\ disk'[Tmp] = disk[Tmp] /\ disk'[Org] = disk[Org]
      /\ Modest
  BY <1>2, <1>3, NameFacts, TouchedModestly DEF Touches
<1>5. Typed'
  BY <1>1, <1>3 DEF Typed, Exists, Goes, GoesTo, Spends, Touches
<1>6. Calls'
  BY <1>1, <1>3 DEF Calls, Goes, GoesTo
<1>7. Way'
  BY <1>1, <1>3 DEF Way, Calls, NeedsBackup, Goes, GoesTo
<1>8. Blamed'
  BY <1>1, <1>3 DEF Blamed, Goes, GoesTo, Spends
<1>9. Before'
  BY <1>1, <1>3, <1>4, NotAside
     DEF Before, FileWhole, Exists, Renamed, NeedsBackup, Goes,
     GoesTo, Fails
<1>10. Kept'
  BY <1>1, <1>3 DEF Kept, Calls, Goes, GoesTo
<1>11. There'
  BY <1>1, <1>3 DEF There, Calls, Goes, GoesTo
<1>12. Back'
  BY <1>1, <1>3, <1>4
     DEF Back, FileWhole, BackupWhole, CopyThrown, Exists, Renamed, Guarded, NeedsBackup,
     Goes, GoesTo, Spends
<1>13. Ends'
  BY <1>1, <1>3 DEF Ends, NeedsBackup, Way, Goes, GoesTo
<1>14. New'
  BY <1>1, <1>3, <1>4
     DEF New, Excused, Complete, OldPart, Renamed, Guarded, NeedsBackup, Way, Goes, GoesTo
<1>15. Links'
  BY <1>1, <1>3, <1>4 DEF Links, Goes, GoesTo
<1>16. Writable'
  BY <1>1, <1>3, <1>4 DEF Writable, Goes, GoesTo, Modest
<1>17. Users'
  BY <1>1, <1>3, <1>4, <1>5, UsersStay DEF Users, Goes, GoesTo
<1> QED  BY <1>5, <1>6, <1>7, <1>8, <1>9, <1>10, <1>11, <1>12, <1>13, <1>14, <1>15, <1>16,
            <1>17

LEMMA GiveUpStep ==
    ASSUME IInv, GiveUp
    PROVE  IInv'
<1> USE DEF IInv
<1>1. w.pc = "missing" /\ UNCHANGED <<disk, opt, mv, swap, faults, told>>
  BY DEF GiveUp
<1>2. Fails(Missing)
  BY FailFails DEF GiveUp, Missing
<1>3. Typed'
  BY <1>1, <1>2 DEF Typed, Exists, Fails
<1>4. Calls'
  BY <1>1, <1>2 DEF Calls, Fails
<1>5. Way'
  BY <1>1, <1>2 DEF Way, Calls, NeedsBackup, Fails
<1>6. Blamed'
  BY <1>1, <1>2 DEF Blamed, Fails
<1>7. Before'
  BY <1>1, <1>2 DEF Before, SetAside, Between, FileWhole, Exists, Fails
<1>8. Kept'
  BY <1>1, <1>2 DEF Kept, BackupWhole, Guarded, NeedsBackup, Fails
<1>9. There'
  BY <1>1, <1>2 DEF There, Exists, Fails
<1>10. Back'
  BY <1>1, <1>2 DEF Back, FileWhole, Exists, Renamed, Guarded, NeedsBackup, Fails
<1>11. Ends'
  <2>1. ASSUME opt.existed, ~opt.force
        PROVE  \/ FileWhole \/ CopyThrown
               \/ /\ NeedsBackup => BackupWhole
                  /\ ~Exists(File) \/ told
                  /\ w.target = File => faults >= 2
    BY <1>1, <2>1 DEF Back
  <2>2. faults \in Nat /\ (told => faults >= 2)
    BY DEF Typed, Blamed
  <2>3. /\ w'.warned = Missing /\ w'.target = w.target /\ w'.copying = w.copying
        /\ FileWhole' = FileWhole /\ BackupWhole' = BackupWhole
           /\ NeedsBackup' = NeedsBackup
        /\ w'.pc = "done"
    BY <1>1, <1>2 DEF Fails, FileWhole, BackupWhole, NeedsBackup
  <2>4. ASSUME opt.existed, ~opt.force
        PROVE  /\ NeedsBackup => FileWhole \/ BackupWhole \/ CopyThrown
               /\ Missing \/ told \/ FileWhole
               /\ NeedsBackup /\ faults <= 1 /\ w.target = File => FileWhole
    BY <2>1, <2>2, <2>4 DEF Missing, CopyThrown
  <2>5. ~(opt.existed /\ ~opt.force /\ ~NeedsBackup /\ swap = "no")
    BY <1>1 DEF Ends
  <2> QED  BY <1>1, <2>3, <2>4 DEF Ends, CopyThrown
<1>12. New'
  BY <1>1, <1>2 DEF New, Excused, Complete, OldPart, Renamed, Guarded, NeedsBackup, Fails
<1>13. Links'
  BY <1>1, <1>2 DEF Links, Fails
<1>14. Writable'
  BY <1>1, <1>2 DEF Writable, Fails
<1>15. Users'
  BY <1>1, <1>2 DEF Users, Fails
<1> QED  BY <1>3, <1>4, <1>5, <1>6, <1>7, <1>8, <1>9, <1>10, <1>11, <1>12, <1>13, <1>14,
            <1>15

LEMMA Undoes ==
    ASSUME IInv, UndoWrite
    PROVE  \/ w.backup = NoName /\ UNCHANGED mv /\ Fails(TRUE)
           \/ w.backup # NoName /\ w.copying /\ UNCHANGED mv /\ GoesTo("copy back")
           \/ /\ GoesTo("mv") /\ w.backup # NoName /\ ~w.copying
              /\ mv' = [from |-> w.backup, to |-> File, at |-> "remove", for |-> "undo"]
BY ToGoes, FailPlain DEF IInv, UndoWrite, Rename, Pcs

LEMMA UndoNotStep ==
    ASSUME IInv, UndoWrite, UNCHANGED mv,
           \/ w.backup = NoName /\ Fails(TRUE)
           \/ w.backup # NoName /\ w.copying /\ GoesTo("copy back")
    PROVE  IInv'
<1> USE DEF IInv
<1>1. w.pc = "end" /\ w.end0 /\ mv.for = "none"
        /\ UNCHANGED <<disk, opt, swap, faults, told>>
  BY DEF UndoWrite, Calls
<1>2. Typed'
  BY <1>1 DEF Typed, Exists, Goes, GoesTo, Fails
<1>3. Calls'
  BY <1>1 DEF Calls, Goes, GoesTo, Fails
<1>4. Way'
  BY <1>1 DEF Way, NeedsBackup, Goes, GoesTo, Fails
<1>5. Blamed'
  BY <1>1 DEF Blamed
<1>6. Before'
  BY <1>1, NotAside
     DEF Before, FileWhole, Exists, Renamed, NeedsBackup, Goes,
     GoesTo, Fails
<1>7. Kept'
  BY <1>1 DEF Kept, BackupWhole, Guarded, NeedsBackup, Goes, GoesTo, Fails
<1>8. There'
  BY <1>1 DEF There, Exists, Goes, GoesTo, Fails
<1>9. Back'
  BY <1>1 DEF Back, Goes, GoesTo, Fails
<1>10. Ends'
  BY <1>1
     DEF Ends, LeftAside, FileWhole, BackupWhole, NeedsBackup, Goes, GoesTo, Fails, Kept,
     Guarded
<1>11. New'
  BY <1>1
     DEF New, Excused, Complete, OldPart, Renamed, Guarded, NeedsBackup, Goes, GoesTo,
     Fails
<1>12. Links'
  BY <1>1 DEF Links, Goes, GoesTo, Fails
<1>13. Writable'
  BY <1>1 DEF Writable, Goes, GoesTo, Fails
<1>14. Users'
  BY <1>1 DEF Users, Goes, GoesTo, Fails
<1> QED  BY <1>2, <1>3, <1>4, <1>5, <1>6, <1>7, <1>8, <1>9, <1>10, <1>11, <1>12, <1>13,
            <1>14

LEMMA UndoCallsStep ==
    ASSUME IInv, UndoWrite, GoesTo("mv"), w.backup # NoName, ~w.copying,
           mv' = [from |-> w.backup, to |-> File, at |-> "remove", for |-> "undo"]
    PROVE  IInv'
<1> USE DEF IInv
<1>1. w.pc = "end" /\ w.end0 /\ mv.for = "none"
        /\ UNCHANGED <<disk, opt, swap, faults, told>>
  BY DEF UndoWrite, Calls
<1>2. /\ mv' \in Call /\ mv'.from = w.backup /\ mv'.to = File /\ mv'.at = "remove"
      /\ mv'.for = "undo"
  BY NameFacts DEF Call, Typed, Local, Backups
<1>3. Typed'
  BY <1>1, <1>2 DEF Typed, Exists, Goes, GoesTo
<1>4. Calls'
  BY DEF Calls, Goes, GoesTo
<1>5. Way'
  BY <1>1 DEF Way, NeedsBackup, Goes, GoesTo
<1>6. Blamed'
  BY <1>1 DEF Blamed
<1>7. Before'
  BY DEF Before, Goes, GoesTo
<1>8. Kept'
  BY <1>1 DEF Kept, BackupWhole, Guarded, NeedsBackup, Goes, GoesTo
<1>9. There'
  BY DEF There, Goes, GoesTo
<1>10. Back'
  BY DEF Back, Goes, GoesTo
<1>11. Ends'
  BY <1>1 DEF Ends, LeftAside, FileWhole, BackupWhole, CopyThrown, NeedsBackup, Goes, GoesTo
<1>12. New'
  BY <1>1 DEF New, Excused, Complete, OldPart, Renamed, Guarded, NeedsBackup, Goes, GoesTo
<1>13. Links'
  BY <1>1 DEF Links, Goes, GoesTo
<1>14. Writable'
  BY <1>1 DEF Writable, Goes, GoesTo
<1>15. Users'
  BY <1>1 DEF Users, Goes, GoesTo
<1> QED  BY <1>3, <1>4, <1>5, <1>6, <1>7, <1>8, <1>9, <1>10, <1>11, <1>12, <1>13, <1>14,
            <1>15

LEMMA UndoWriteStep ==
    ASSUME IInv, UndoWrite
    PROVE  IInv'
BY Undoes, UndoNotStep, UndoCallsStep

(* Without '!' the backup is copied back, or that fails. *)
LEMMA CopiesBack ==
    ASSUME IInv, CopyBack
    PROVE  \/ /\ Spends /\ GoesTo("copying back") /\ Touches(File)
              /\ Exists(File) => disk'[File].id = disk[File].id
              /\ disk'[File].id # "none" /\ disk'[File].old = 0 /\ disk'[File].new = 0
           \/ /\ Spends /\ Fails(TRUE) /\ UNCHANGED disk
              /\ Guarded /\ opt.existed => faults' >= 2
<1> USE DEF IInv
<1>1. w.pc = "copy back" /\ w.end0 /\ w.backup # NoName /\ w \in Local /\ File \in Names
  BY NameFacts DEF CopyBack, Way, Typed
<1>2. CASE /\ Well /\ Exists(w.backup) /\ ~disk[File].ro
           /\ disk' = [disk EXCEPT ![File] = IF Exists(File)
                                             THEN [@ EXCEPT !.old = 0, !.new = 0]
                                             ELSE Fresh(w.ro)]
           /\ w' = To("copying back")
  <2>1. Spends /\ GoesTo("copying back")
    BY <1>2, ToGoes, Costs DEF Pcs
  <2>2. CASE Exists(File)
    <3>1. disk' = [disk EXCEPT ![File] = [disk[File] EXCEPT !.old = 0, !.new = 0]]
      BY <1>2, <2>2
    <3> QED  BY <1>1, <2>1, <2>2, <3>1, Empties DEF Exists
  <2>3. CASE ~Exists(File)
    <3>1. disk' = [disk EXCEPT ![File] = Fresh(w.ro)] /\ w.ro \in BOOLEAN
      BY <1>1, <1>2, <2>3 DEF Local
    <3>2. w.ro => disk[File].ro \/ opt.ro
      BY DEF Writable
    <3>3. Touches(File) /\ disk'[File] = Fresh(w.ro)
      BY <1>1, <3>1, <3>2, FreshContent, PutTouches
    <3> QED  BY <2>1, <2>3, <3>1, <3>3, FreshContent
  <2> QED  BY <2>2, <2>3
<1>3. CASE /\ IF disk[File].ro \/ ~Exists(w.backup) THEN Well ELSE Fault
           /\ w' = Fail(w) /\ UNCHANGED disk
  <2>1. Spends /\ Fails(TRUE)
    BY <1>1, <1>3, FailPlain, Costs
  <2>2. ASSUME Guarded, opt.existed PROVE faults' >= 2
    <3>1. ~disk[File].ro
      BY <1>1, <2>2 DEF Writable, Guarded
    <3>2. w.backup \in Names /\ disk[w.backup].old = Whole
      BY <1>1, <2>2, BackupFacts DEF Kept, BackupWhole
    <3>3. Exists(w.backup)
      BY <3>2 DEF Typed, Whole
    <3>4. faults >= 1
      BY <1>1 DEF Blamed
    <3> QED  BY <1>3, <3>1, <3>3, <3>4, Costs
  <2> QED  BY <1>3, <2>1, <2>2
<1> QED  BY <1>2, <1>3 DEF CopyBack

LEMMA CopyBackStep ==
    ASSUME IInv, CopyBack
    PROVE  IInv'
<1> USE DEF IInv
<1>1. w.pc = "copy back" /\ w.backup # NoName /\ UNCHANGED <<opt, mv, swap, told>>
  BY DEF CopyBack, Way
<1>2. \/ /\ Spends /\ GoesTo("copying back") /\ Touches(File)
         /\ Exists(File) => disk'[File].id = disk[File].id
         /\ disk'[File].id # "none" /\ disk'[File].old = 0 /\ disk'[File].new = 0
      \/ /\ Spends /\ Fails(TRUE) /\ UNCHANGED disk
         /\ Guarded /\ opt.existed => faults' >= 2
  BY CopiesBack
<1>3. /\ disk'[Tmp] = disk[Tmp] /\ disk'[Org] = disk[Org] /\ w.backup # File
      /\ disk'[w.backup] = disk[w.backup] /\ Modest
  BY <1>1, <1>2, NameFacts, BackupFacts, TouchedModestly, UntouchedModestly DEF Touches
<1>4. w.backup \in Names /\ disk[w.backup].old >= 0
  BY <1>1, BackupFacts, Measured
<1>5. Typed'
  BY <1>1, <1>2 DEF Typed, Exists, Goes, GoesTo, Fails, Spends, Touches
<1>6. Calls'
  BY <1>1, <1>2 DEF Calls, Goes, GoesTo, Fails
<1>7. Way'
  BY <1>1, <1>2 DEF Way, Calls, NeedsBackup, Goes, GoesTo, Fails
<1>8. Blamed'
  BY <1>1, <1>2 DEF Blamed, Goes, GoesTo, Fails, Spends
<1>9. Before'
  BY <1>1, <1>2 DEF Before, Calls, Goes, GoesTo, Fails
<1>10. Kept'
  BY <1>1, <1>2, <1>3, <1>4, ZenonT(60)
     DEF Kept, BackupWhole, Guarded, NeedsBackup, Calls, Way, Goes, GoesTo, Fails, Spends
<1>11. There'
  BY <1>1, <1>2, <1>3, <1>4 DEF There, Exists, Calls, Goes, GoesTo, Fails
<1>12. Back'
  BY <1>1, <1>2 DEF Back, Calls, Goes, GoesTo, Fails
<1>13. Ends'
  <2>1. NeedsBackup /\ NeedsBackup' /\ w.result = "none"
    BY <1>1 DEF NeedsBackup, Way
  <2>5. faults' \in Nat
    BY <1>5, FileWriteAssumption DEF Typed
  <2>2. w'.result = "fail" => UNCHANGED disk /\ w'.backup = w.backup /\ w'.warned
          /\ (Guarded /\ opt.existed => faults' >= 2)
    BY <1>2, <2>1 DEF Goes, GoesTo, Fails
  <2>3. opt.existed /\ ~opt.force => Guarded /\ BackupWhole
    BY <1>1, <2>1 DEF Guarded, Kept
  <2>4. ASSUME w'.result = "fail", opt.existed, ~opt.force
        PROVE  /\ BackupWhole' /\ w'.warned /\ faults' >= 2
    BY <2>2, <2>3, <2>4 DEF BackupWhole
  <2>6. faults' >= 2 => ~(faults' <= 1)
    BY <2>5
  <2>7. opt' = opt
    BY <1>1
  <2> QED  BY <2>1, <2>4, <2>6, <2>7 DEF Ends
<1>14. New'
  BY <1>1, <1>2 DEF New, Calls, Way, Goes, GoesTo, Fails
<1>15. Links'
  BY <1>1, <1>2 DEF Links, Goes, GoesTo, Fails, Exists
<1>16. Writable'
  BY <1>1, <1>2, <1>3 DEF Writable, Goes, GoesTo, Fails, Modest
<1>17. Users'
  BY <1>1, <1>2, <1>3, <1>5, UsersStay DEF Users, Goes, GoesTo, Fails
<1> QED  BY <1>5, <1>6, <1>7, <1>8, <1>9, <1>10, <1>11, <1>12, <1>13, <1>14, <1>15, <1>16,
            <1>17

LEMMA CopiedBack ==
    ASSUME IInv, CopyBackData
    PROVE  \/ /\ Spends /\ UNCHANGED disk /\ Fails(FALSE)
                 /\ disk[File].old = disk[w.backup].old
           \/ /\ Spends /\ UNCHANGED w /\ Touches(File) /\ disk'[File].id = disk[File].id
              /\ disk'[File].new = disk[File].new /\ disk'[File].old <= disk[w.backup].old
           \/ /\ Spends /\ UNCHANGED disk /\ Fails(TRUE) /\ faults' >= 2
<1> USE DEF IInv
<1>1. w.pc = "copying back" /\ w.end0 /\ w.backup # NoName /\ w \in Local /\ File \in Names
  BY NameFacts DEF CopyBackData, Way, Typed
<1>2. CASE /\ Well /\ disk[File].old = disk[w.backup].old
           /\ w' = Fail([w EXCEPT !.end0 = FALSE]) /\ UNCHANGED disk
  BY <1>2, FailFails, Costs
<1>3. CASE /\ Well /\ disk[File].old # disk[w.backup].old /\ UNCHANGED w
           /\ disk' = [disk EXCEPT ![File].old = @ + 1]
  <2>1. Exists(File) /\ disk[File].old <= disk[w.backup].old /\ w.backup \in Names
    BY <1>1, BackupFacts DEF There
  <2>2. disk[File].old \in Amounts /\ disk[w.backup].old \in Amounts
    BY <1>1, <2>1 DEF Typed, Content
  <2>3. disk[File].old # Whole /\ disk[File].old + 1 <= disk[w.backup].old
    BY <1>3, <2>1, <2>2 DEF Amounts
  <2>4. /\ Touches(File) /\ disk'[File].id = disk[File].id
        /\ disk'[File].new = disk[File].new /\ disk'[File].old = disk[File].old + 1
    BY <1>1, <1>3, <2>1, <2>3, OldGrows
  <2> QED  BY <1>3, <2>3, <2>4, Costs
<1>4. CASE Fault /\ w' = Fail(w) /\ UNCHANGED disk
  <2>1. faults >= 1
    BY <1>1 DEF Blamed
  <2> QED  BY <1>1, <1>4, <2>1, FailPlain, Costs
<1> QED  BY <1>2, <1>3, <1>4 DEF CopyBackData

LEMMA CopyBackDataStep ==
    ASSUME IInv, CopyBackData
    PROVE  IInv'
<1> USE DEF IInv
<1>1. w.pc = "copying back" /\ w.backup # NoName /\ UNCHANGED <<opt, mv, swap, told>>
  BY DEF CopyBackData, Way
<1>2. \/ /\ Spends /\ UNCHANGED disk /\ Fails(FALSE) /\ disk[File].old = disk[w.backup].old
      \/ /\ Spends /\ UNCHANGED w /\ Touches(File) /\ disk'[File].id = disk[File].id
         /\ disk'[File].new = disk[File].new /\ disk'[File].old <= disk[w.backup].old
      \/ /\ Spends /\ UNCHANGED disk /\ Fails(TRUE) /\ faults' >= 2
  BY CopiedBack
<1>3. /\ disk'[Tmp] = disk[Tmp] /\ disk'[Org] = disk[Org] /\ w.backup # File
      /\ disk'[w.backup] = disk[w.backup] /\ Modest
  BY <1>1, <1>2, NameFacts, BackupFacts, TouchedModestly, UntouchedModestly DEF Touches
<1>4. w.backup \in Names /\ disk[w.backup].old >= 0
  BY <1>1, BackupFacts, Measured
<1>5. Typed'
  BY <1>1, <1>2 DEF Typed, Exists, Fails, Spends, Touches
<1>6. Calls'
  BY <1>1, <1>2 DEF Calls, Fails
<1>7. Way'
  BY <1>1, <1>2 DEF Way, Calls, NeedsBackup, Fails
<1>8. Blamed'
  BY <1>1, <1>2 DEF Blamed, Fails, Spends
<1>9. Before'
  BY <1>1, <1>2 DEF Before, Calls, Fails
<1>10. Kept'
  BY <1>1, <1>2, <1>3 DEF Kept, BackupWhole, Guarded, NeedsBackup, GoesTo, Fails, Spends
<1>11. There'
  BY <1>1, <1>2, <1>3 DEF There, Exists, Calls, Fails
<1>12. Back'
  BY <1>1, <1>2 DEF Back, Calls, Fails
<1>13. Ends'
  <2>1. NeedsBackup /\ NeedsBackup' /\ w.result = "none"
    BY <1>1 DEF NeedsBackup, Way
  <2>5. faults' \in Nat
    BY <1>5, FileWriteAssumption DEF Typed
  <2>2. w'.result = "fail" => UNCHANGED disk /\ w'.backup = w.backup
          /\ ((w'.warned /\ faults' >= 2) \/ disk[File].old = disk[w.backup].old)
    BY <1>2, <2>1 DEF Fails
  <2>3. opt.existed /\ ~opt.force => Guarded /\ BackupWhole
    BY <1>1, <2>1 DEF Guarded, Kept
  <2>4. ASSUME w'.result = "fail", opt.existed, ~opt.force
        PROVE  /\ BackupWhole' /\ ((w'.warned /\ faults' >= 2) \/ FileWhole')
    BY <1>1, <2>2, <2>3, <2>4 DEF BackupWhole, Back, FileWhole
  <2>6. faults' >= 2 => ~(faults' <= 1)
    BY <2>5
  <2>7. opt' = opt
    BY <1>1
  <2> QED  BY <2>1, <2>4, <2>6, <2>7 DEF Ends
<1>14. New'
  BY <1>1, <1>2 DEF New, Calls, Way, Fails
<1>15. Links'
  BY <1>1, <1>2 DEF Links, Fails
<1>16. Writable'
  BY <1>1, <1>2, <1>3 DEF Writable, Fails, Modest
<1>17. Users'
  BY <1>1, <1>2, <1>3, <1>5, UsersStay DEF Users, Fails
<1> QED  BY <1>5, <1>6, <1>7, <1>8, <1>9, <1>10, <1>11, <1>12, <1>13, <1>14, <1>15, <1>16,
            <1>17

LEMMA Patches ==
    ASSUME IInv, PatchMode
    PROVE  \/ /\ GoesTo("mv") /\ w.backup # NoName /\ ~Exists(Org)
                 /\ UNCHANGED <<disk, faults>>
              /\ mv' = [from |-> w.backup, to |-> Org, at |-> "remove", for |-> "org"]
           \/ UNCHANGED mv /\ GoesTo("cleanup") /\ Touches(Org) /\ Spends
<1> USE DEF IInv
<1>1. Org \in Names /\ opt.ro \in BOOLEAN
  BY NameFacts DEF Typed, Options
<1>2. CASE /\ UNCHANGED mv /\ w' = To("cleanup") /\ Well /\ ~Exists(Org)
           /\ disk' = [disk EXCEPT ![Org] = Fresh(opt.ro)]
  BY <1>1, <1>2, FreshContent, PutTouches, ToGoes, Costs DEF Pcs
<1>3. CASE UNCHANGED mv /\ w' = To("cleanup") /\ UNCHANGED <<disk, faults>>
  BY <1>1, <1>3, ToGoes, Costs DEF Pcs, Well, Touches, Typed, Exists
<1> QED  BY <1>2, <1>3, ToGoes DEF PatchMode, Rename, Pcs

LEMMA PatchCallsStep ==
    ASSUME IInv, PatchMode, GoesTo("mv"), w.backup # NoName, ~Exists(Org),
           UNCHANGED <<disk, faults>>,
           mv' = [from |-> w.backup, to |-> Org, at |-> "remove", for |-> "org"]
    PROVE  IInv'
<1> USE DEF IInv
<1>1. w.pc = "end" /\ ~w.end0 /\ mv.for = "none" /\ UNCHANGED <<opt, swap, told>>
  BY DEF PatchMode, Calls
<1>2. /\ mv' \in Call /\ mv'.from = w.backup /\ mv'.to = Org /\ mv'.at = "remove"
      /\ mv'.for = "org"
  BY NameFacts DEF Call, Typed, Local, Backups
<1>3. Typed'
  BY <1>1, <1>2 DEF Typed, Exists, Goes, GoesTo
<1>4. Calls'
  BY DEF Calls, Goes, GoesTo
<1>5. Way'
  BY <1>1 DEF Way, NeedsBackup, Goes, GoesTo
<1>6. Blamed'
  BY <1>1 DEF Blamed, Goes, GoesTo
<1>7. Before'
  BY DEF Before, Goes, GoesTo
<1>8. Kept'
  BY <1>1 DEF Kept, BackupWhole, Guarded, NeedsBackup, Goes, GoesTo
<1>9. There'
  BY DEF There, Goes, GoesTo
<1>10. Back'
  BY DEF Back, Goes, GoesTo
<1>11. Ends'
  BY <1>1 DEF Ends, LeftAside, FileWhole, BackupWhole, CopyThrown, NeedsBackup, Goes, GoesTo
<1>12. New'
  <2>1. /\ Excused' = Excused /\ (Complete => Complete') /\ w'.pc = "mv"
        /\ w'.result = "none" /\ Guarded' = Guarded
    BY <1>1
       DEF Excused, Complete, OldPart, Renamed, Guarded, NeedsBackup, Way, Goes, GoesTo
  <2>2. Excused \/ Complete
    BY <1>1 DEF New
  <2> QED  BY <2>1, <2>2 DEF New
<1>13. Links'
  BY <1>1 DEF Links, Goes, GoesTo
<1>14. Writable'
  BY <1>1 DEF Writable, Goes, GoesTo
<1>15. Users'
  BY <1>1 DEF Users, Goes, GoesTo, Exists
<1> QED  BY <1>3, <1>4, <1>5, <1>6, <1>7, <1>8, <1>9, <1>10, <1>11, <1>12, <1>13, <1>14,
            <1>15

LEMMA PatchNotStep ==
    ASSUME IInv, PatchMode, UNCHANGED mv, GoesTo("cleanup"), Touches(Org), Spends
    PROVE  IInv'
<1> USE DEF IInv
<1>1. w.pc = "end" /\ ~w.end0 /\ mv.for = "none" /\ UNCHANGED <<opt, swap, told>>
  BY DEF PatchMode, Calls
<1>2. /\ disk'[File] = disk[File] /\ disk'[Tmp] = disk[Tmp] /\ Modest
      /\ w.backup # NoName => /\ disk'[w.backup] = disk[w.backup]
                              /\ w.backup \in Names /\ w.backup # File
  BY NameFacts, BackupFacts, TouchedModestly DEF Touches
<1>3. Typed'
  BY <1>1 DEF Typed, Exists, Goes, GoesTo, Spends, Touches
<1>4. Calls'
  BY <1>1 DEF Calls, Goes, GoesTo
<1>5. Way'
  BY <1>1 DEF Way, NeedsBackup, Goes, GoesTo
<1>6. Blamed'
  BY <1>1 DEF Blamed, Goes, GoesTo, Spends
<1>7. Before'
  BY <1>1, NotAside
     DEF Before, FileWhole, Exists, Renamed, NeedsBackup, Goes,
     GoesTo, Fails
<1>8. Kept'
  BY <1>1 DEF Kept, Goes, GoesTo
<1>9. There'
  BY <1>1 DEF There, Calls, Goes, GoesTo
<1>10. Back'
  BY <1>1 DEF Back, Goes, GoesTo
<1>11. Ends'
  BY <1>1 DEF Ends, NeedsBackup, Way, Goes, GoesTo
<1>12. New'
  <2>1. /\ Excused' = Excused /\ (Complete => Complete') /\ w'.pc = "cleanup"
        /\ w'.result = "none" /\ Guarded' = Guarded
    BY <1>1, <1>2
       DEF Excused, Complete, OldPart, Renamed, Guarded, NeedsBackup, Way, Goes, GoesTo
  <2>2. Excused \/ Complete
    BY <1>1 DEF New
  <2>3. Guarded => \E n \in Names \ {File} : disk'[n].old = Whole
    BY <1>1, <1>2 DEF Kept, BackupWhole
  <2> QED  BY <1>1, <2>1, <2>3 DEF New
<1>13. Links'
  BY <1>1, <1>2 DEF Links, Goes, GoesTo
<1>14. Writable'
  BY <1>1, <1>2 DEF Writable, Goes, GoesTo, Modest
<1>15. Users'
  BY <1>1, <1>2, <1>3, UsersStay DEF Users, Goes, GoesTo
<1> QED  BY <1>3, <1>4, <1>5, <1>6, <1>7, <1>8, <1>9, <1>10, <1>11, <1>12, <1>13, <1>14,
            <1>15

LEMMA PatchModeStep ==
    ASSUME IInv, PatchMode
    PROVE  IInv'
BY Patches, PatchCallsStep, PatchNotStep

LEMMA CleansUp ==
    ASSUME IInv, Cleanup
    PROVE  /\ w' = [w EXCEPT !.pc = "done", !.result = "ok"] /\ Spends
           /\ \/ UNCHANGED disk
              \/ ~opt.bk /\ w.backup # NoName /\ Touches(w.backup)
<1> USE DEF IInv
<1>1. w' = [w EXCEPT !.pc = "done", !.result = "ok"]
  BY DEF Cleanup, To
<1>2. CASE UNCHANGED <<disk, faults>>
  BY <1>1, <1>2, Costs DEF Well
<1>3. CASE ~opt.bk /\ w.backup # NoName /\ Remove(w.backup)
  BY <1>1, <1>3, BackupFacts, RemoveTouches
<1> QED  BY <1>2, <1>3 DEF Cleanup

LEMMA CleanupStep ==
    ASSUME IInv, Cleanup
    PROVE  IInv'
<1> USE DEF IInv
<1>1. w.pc = "cleanup" /\ mv.for = "none" /\ UNCHANGED <<opt, mv, swap, told>>
  BY DEF Cleanup, Calls
<1>2. /\ Spends
      /\ \/ UNCHANGED disk
         \/ ~opt.bk /\ w.backup # NoName /\ Touches(w.backup)
  BY CleansUp
<1>3. /\ w' \in Local /\ w'.pc = "done" /\ w'.result = "ok" /\ w'.backup = w.backup
      /\ w'.target = w.target /\ w'.end0 = w.end0 /\ w'.ro = w.ro /\ w'.copying = w.copying
      /\ w'.unread = w.unread /\ w'.unset = w.unset
  BY CleansUp, ZenonT(60) DEF Typed, Local, Pcs
<1>4. /\ disk'[File] = disk[File] /\ disk'[Tmp] = disk[Tmp] /\ disk'[Org] = disk[Org]
      /\ Modest
  BY <1>2, NameFacts, BackupFacts, TouchedModestly, UntouchedModestly DEF Touches
<1>5. Typed'
  BY <1>1, <1>2, <1>3 DEF Typed, Exists, Spends, Touches
<1>6. Calls'
  BY <1>1, <1>3 DEF Calls
<1>7. Way'
  BY <1>1, <1>3 DEF Way, NeedsBackup
<1>8. Blamed'
  BY <1>1, <1>2, <1>3 DEF Blamed, Spends
<1>9. Before'
  BY <1>1, <1>3, NotAside
     DEF Before, FileWhole, Exists, Renamed, NeedsBackup, Goes,
     GoesTo, Fails
<1>10. Kept'
  BY <1>1, <1>3 DEF Kept
<1>11. There'
  BY <1>1, <1>3 DEF There, Calls
<1>12. Back'
  BY <1>1, <1>3 DEF Back
<1>13. Ends'
  BY <1>1, <1>3 DEF Ends, NeedsBackup
<1>14. New'
  BY <1>1, <1>2, <1>3, <1>4
     DEF New, Excused, Complete, OldPart, Renamed, Guarded, NeedsBackup
<1>15. Links'
  BY <1>1, <1>3, <1>4 DEF Links
<1>16. Writable'
  BY <1>1, <1>3, <1>4 DEF Writable, Modest
<1>17. Users'
  BY <1>1, <1>3, <1>4, <1>5, UsersStay DEF Users
<1> QED  BY <1>5, <1>6, <1>7, <1>8, <1>9, <1>10, <1>11, <1>12, <1>13, <1>14, <1>15, <1>16,
            <1>17
-----------------------------------------------------------------------------

(***************************************************************************)
(* vim_rename.                                                             *)
(***************************************************************************)

(* What is called what. *)
Moves ==
    /\ mv.for \in {"backup", "restore", "put back", "undo", "org"} /\ NeedsBackup
    /\ w.backup \in Names /\ w.backup # NoName /\ w.backup # File
    /\ w.backup # Tmp /\ w.backup # Org /\ File # Tmp /\ File # Org /\ Tmp # Org
    /\ Temp \in Names /\ Temp # File /\ Temp # Tmp /\ Temp # Org /\ Temp # w.backup
    /\ mv.from \in Names /\ mv.to \in Names
    /\ mv.for = "backup" => mv.from = File /\ mv.to = w.backup
    /\ mv.for = "org" => mv.from = w.backup /\ mv.to = Org
    /\ mv.for \in {"restore", "put back", "undo"} => mv.from = w.backup /\ mv.to = File

LEMMA MoveNames ==
    ASSUME IInv, w.pc = "mv"
    PROVE  Moves
<1> USE DEF IInv
<1>1. /\ mv.for \in {"backup", "restore", "put back", "undo", "org"}
      /\ w.backup # NoName
  BY DEF Calls, Typed, Call
<1>2. /\ w.backup \in Names /\ w.backup # File /\ w.backup # Tmp /\ w.backup # Org
      /\ w.backup # Temp /\ NeedsBackup
  BY <1>1, BackupFacts DEF Way
<1> QED  BY <1>1, <1>2, NameFacts DEF Moves, Calls

(* A file has the whole old text after the step. *)
WholeThen(n) == disk'[n].old = Whole /\ disk'[n].new = 0

(* What the call leaves when it returns. *)
Leaves(ok) ==
    /\ Spends /\ told' \in BOOLEAN /\ (told' => faults' >= 2)
    /\ disk' \in [Names -> Content] /\ disk'[Tmp] = disk[Tmp]
    /\ \A n \in Names : disk'[n].id = "none" => disk'[n].old = 0 /\ disk'[n].new = 0
    /\ \A n \in Names : disk'[n].ro => opt.ro
    /\ ~opt.bk => disk'[w.backup].id # "user"
    /\ ~opt.bk => \A n \in Names \ {Bak(1), Org} : disk'[n].id # "user"
    /\ mv.for = "backup" /\ ok =>
         /\ disk'[File].id = "none" \/ WholeThen(File)
         /\ Guarded => WholeThen(w.backup)
    /\ mv.for = "backup" /\ ~ok => WholeThen(File) \/ (SetAside' /\ faults' >= 2)
    /\ mv.for \in {"restore", "put back"} /\ Guarded =>
         \/ WholeThen(File)
         \/ /\ WholeThen(w.backup) /\ faults' >= 2
            /\ disk'[File].id = "none" \/ told'
    /\ mv.for = "undo" /\ Guarded =>
         IF ok THEN WholeThen(File) ELSE WholeThen(w.backup) /\ faults' >= 2
    /\ mv.for = "org" =>
         /\ disk'[File] = disk[File]
         /\ Guarded => \E n \in Names \ {File} : disk'[n].old = Whole

(* Where buf_write goes on. *)
Continues(ok) ==
    \/ mv.for = "backup" /\ ok /\ GoesTo("prepare")
    \/ mv.for = "backup" /\ ~ok /\ Goes("rename", NoName, w.target, w.end0)
    \/ mv.for = "restore" /\ GoesTo("copied")
    \/ mv.for = "put back" /\ GoesTo("missing")
    \/ mv.for = "undo" /\ Fails(~ok)
    \/ mv.for = "org" /\ Goes("cleanup", NoName, w.target, w.end0)

LEMMA ReturnContinues ==
    ASSUME IInv, w.pc = "mv", NEW ok \in BOOLEAN, Returns(ok)
    PROVE  /\ Continues(ok)
           /\ mv' \in Call /\ mv'.for = "none" /\ mv'.at = "none"
<1> USE DEF IInv
<1>1. w \in Local /\ Moves /\ w' = Returned(ok)
  BY MoveNames DEF Typed, Returns
<1>2. mv' \in Call /\ mv'.for = "none" /\ mv'.at = "none"
  BY DEF Returns, NoCall, Call
<1>3. CASE mv.for = "backup" /\ ok
  <2>1. w' = To("prepare")
    BY <1>1, <1>3 DEF Returned
  <2> QED  BY <1>2, <1>3, <2>1, ToGoes DEF Pcs, Continues
<1>4. CASE mv.for = "backup" /\ ~ok
  <2>1. w' = [w EXCEPT !.pc = "rename", !.backup = NoName, !.dir = w.dir + 1]
    BY <1>1, <1>4 DEF Returned, NextDir
  <2>2. w.dir + 1 \in 1 .. Dirs + 1
    BY <1>1, <1>4, FileWriteAssumption DEF Way, Local
  <2>3. Goes("rename", NoName, w.target, w.end0)
    BY <1>1, <2>1, <2>2, ZenonT(60) DEF Goes, Local, Pcs
  <2> QED  BY <1>2, <1>4, <2>3 DEF Continues
<1>5. CASE mv.for = "restore"
  <2>1. w' = To("copied")
    BY <1>1, <1>5 DEF Returned
  <2> QED  BY <1>2, <1>5, <2>1, ToGoes DEF Pcs, Continues
<1>6. CASE mv.for = "put back"
  <2>1. w' = To("missing")
    BY <1>1, <1>6 DEF Returned
  <2> QED  BY <1>2, <1>6, <2>1, ToGoes DEF Pcs, Continues
<1>7. CASE mv.for = "undo"
  <2> DEFINE e == ~ok
  <2>1. w' = Fail([w EXCEPT !.end0 = e]) /\ e \in BOOLEAN
    <3>1. Returned(ok) = Fail([w EXCEPT !.end0 = e])
      BY <1>7 DEF Returned
    <3> QED  BY <1>1, <3>1
  <2>2. Fails(e)
    <3> HIDE DEF e
    <3> QED  BY <2>1, FailFails
  <2> QED  BY <1>2, <1>7, <2>2 DEF Continues
<1>8. CASE mv.for = "org"
  <2>1. w' = [w EXCEPT !.pc = "cleanup", !.backup = NoName]
    BY <1>1, <1>8 DEF Returned
  <2>2. Goes("cleanup", NoName, w.target, w.end0)
    BY <1>1, <2>1 DEF Goes, Local, Pcs
  <2> QED  BY <1>2, <1>8, <2>2 DEF Continues
<1> QED  BY <1>1, <1>3, <1>4, <1>5, <1>6, <1>7, <1>8 DEF Moves

LEMMA ReturnStep ==
    ASSUME IInv, w.pc = "mv", NEW ok \in BOOLEAN, Returns(ok), Leaves(ok),
           UNCHANGED <<opt, swap>>
    PROVE  IInv'
<1> USE DEF IInv
<1>1. w.pc = "mv" /\ w.result = "none" /\ mv.at # "none"
  BY DEF Calls, Way, Moves
<1>2. Moves
  BY MoveNames
<1>3. /\ Continues(ok)
      /\ mv' \in Call /\ mv'.for = "none" /\ mv'.at = "none"
  BY <1>1, ReturnContinues
<1>4. NeedsBackup /\ NeedsBackup' /\ (opt.existed /\ ~opt.force <=> Guarded)
  BY <1>2 DEF Moves, NeedsBackup, Guarded
<1>5. Typed'
  BY <1>3 DEF Typed, Exists, Goes, GoesTo, Fails, Continues, Leaves, Spends
<1>6. Calls'
  BY <1>3 DEF Calls, Goes, GoesTo, Fails, Continues
<1>7. Way'
  BY <1>3, <1>4 DEF Way, Calls, Renamed, Goes, GoesTo, Fails, Continues
<1>8. Blamed'
  BY <1>3 DEF Blamed, Goes, GoesTo, Fails, Continues, Leaves, Spends
<1>9. Before'
  BY <1>3
     DEF Before, SetAside, Between, FileWhole, Exists, Renamed, NeedsBackup, Calls, Goes,
     GoesTo, Fails,
     Continues, Leaves, WholeThen, Moves
<1>10. Kept'
  BY <1>3, <1>4
     DEF Kept, BackupWhole, Guarded, Calls, Goes, GoesTo, Fails, Continues, Leaves,
     WholeThen
<1>11. There'
  BY <1>3 DEF There, Goes, GoesTo, Fails, Continues
<1>12. Back'
  BY <1>2, <1>3, <1>4
     DEF Back, FileWhole, BackupWhole, Exists, Goes, GoesTo, Fails, Continues, Leaves,
     WholeThen, Moves
<1>13. Ends'
  <2>1. CASE mv.for # "undo"
    BY <1>1, <1>3, <1>4, <2>1 DEF Ends, Continues, Goes, GoesTo
  <2>2. CASE mv.for = "undo"
    <3>1. w'.backup = w.backup /\ w'.warned = ~ok
      BY <1>3, <2>2 DEF Continues, Fails
    <3>2. Guarded => IF ok THEN FileWhole' ELSE BackupWhole' /\ faults' >= 2
      BY <1>2, <2>2, <3>1 DEF Leaves, WholeThen, FileWhole, BackupWhole, Moves
    <3>8. Spends
      BY DEF Leaves
    <3>3. faults' \in Nat
      BY <3>8, FileWriteAssumption DEF Spends
    <3>4. faults' >= 2 => ~(faults' <= 1)
      BY <3>3
    <3>5. opt' = opt
      OBVIOUS
    <3>6. CASE ok
      BY <1>4, <3>2, <3>6 DEF Ends
    <3>7. CASE ~ok
      BY <1>4, <3>1, <3>2, <3>4 DEF Ends
    <3> QED  BY <3>6, <3>7
  <2> QED  BY <2>1, <2>2
<1>14. New'
  BY <1>1, <1>2, <1>3, <1>4, ZenonT(60)
     DEF New, Excused, Complete, OldPart, Renamed, Guarded, NeedsBackup, Calls, Way, Goes,
     GoesTo, Fails, Continues, Leaves, Moves
<1>15. Links'
  BY <1>3 DEF Links, Goes, GoesTo, Fails, Continues, Leaves
<1>16. Writable'
  BY <1>3 DEF Writable, Goes, GoesTo, Fails, Continues, Leaves
<1>17. Users'
  BY <1>3 DEF Users, Leaves, Continues, Goes, GoesTo, Fails
<1> QED  BY <1>5, <1>6, <1>7, <1>8, <1>9, <1>10, <1>11, <1>12, <1>13, <1>14, <1>15, <1>16,
            <1>17

(* A call that fails leaves the files as they are. *)
LEMMA FailsToMove ==
    ASSUME IInv, w.pc = "mv", UNCHANGED <<disk, opt>>, Spends,
           told' \in BOOLEAN, told' => faults' >= 2,
           mv.for \in {"restore", "put back"} /\ Guarded =>
             FileWhole \/ (faults' >= 2 /\ (~Exists(File) \/ told')),
           mv.for = "undo" /\ Guarded => faults' >= 2,
           mv.for = "backup" => FileWhole \/ (SetAside /\ faults' >= 2)
    PROVE  Leaves(FALSE)
<1> USE DEF IInv
<1>1. Moves
  BY MoveNames
<1>2. /\ disk' \in [Names -> Content]
      /\ \A n \in Names : disk'[n].id = "none" => disk'[n].old = 0 /\ disk'[n].new = 0
  BY DEF Typed, Exists
<1>3. \A n \in Names : disk'[n].ro => opt.ro
  BY DEF Writable
<1>4. /\ ~opt.bk => disk'[w.backup].id # "user"
      /\ ~opt.bk => \A n \in Names \ {Bak(1), Org} : disk'[n].id # "user"
  BY <1>1 DEF Users, Moves
<1>5. Guarded /\ mv.for # "backup" => WholeThen(w.backup)
  BY <1>1 DEF Kept, BackupWhole, WholeThen, Moves
<1>6. mv.for \in {"restore", "put back"} /\ Guarded =>
        \/ WholeThen(File)
        \/ /\ WholeThen(w.backup) /\ faults' >= 2
           /\ disk'[File].id = "none" \/ told'
  BY <1>5 DEF WholeThen, FileWhole, Exists
<1>7. mv.for = "undo" /\ Guarded => WholeThen(w.backup) /\ faults' >= 2
  BY <1>5
<1>8. mv.for = "org" /\ Guarded => \E n \in Names \ {File} : disk'[n].old = Whole
  BY <1>1, <1>5 DEF WholeThen, Moves
<1>9. mv.for = "backup" => WholeThen(File) \/ (SetAside' /\ faults' >= 2)
  BY DEF WholeThen, FileWhole, SetAside, Exists
<1> QED  BY <1>2, <1>3, <1>4, <1>6, <1>7, <1>8, <1>9 DEF Leaves

(* A call that succeeds has moved a whole file. *)
LEMMA Succeeds ==
    ASSUME IInv, w.pc = "mv", UNCHANGED <<opt, told>>, Spends,
           disk' \in [Names -> Content],
           \A n \in Names : n # mv.from /\ n # mv.to => disk'[n] = disk[n],
           \A n \in {mv.from, mv.to} :
             /\ disk'[n].id = "none" => disk'[n].old = 0 /\ disk'[n].new = 0
             /\ disk'[n].ro => opt.ro
             /\ ~opt.bk => n = Org \/ disk'[n].id # "user",
           Guarded => disk'[mv.to].old = Whole,
           Guarded /\ mv.to # Org => disk'[mv.to].new = 0,
           mv.for = "backup" => disk'[File].id = "none" \/ WholeThen(File)
    PROVE  Leaves(TRUE)
<1> USE DEF IInv
<1>1. Moves
  BY MoveNames
<1>2. mv.from # Tmp /\ mv.to # Tmp /\ disk'[Tmp] = disk[Tmp]
  BY <1>1, NameFacts DEF Moves
<1>3. told' \in BOOLEAN /\ (told' => faults' >= 2)
  BY DEF Typed, Blamed, Spends
<1>4. ASSUME NEW n \in Names
      PROVE  /\ disk'[n].id = "none" => disk'[n].old = 0 /\ disk'[n].new = 0
             /\ disk'[n].ro => opt.ro
             /\ ~opt.bk /\ n \notin {Bak(1), Org} => disk'[n].id # "user"
  <2>1. CASE n \in {mv.from, mv.to}
    BY <2>1
  <2>2. CASE n # mv.from /\ n # mv.to
    <3>1. disk'[n] = disk[n]
      BY <2>2
    <3> QED  BY DEF Typed, Exists, Writable, Users
  <2> QED  BY <2>1, <2>2
<1>5. ~opt.bk => disk'[w.backup].id # "user"
  BY <1>1 DEF Moves
<1>6. Guarded /\ mv.for # "org" => WholeThen(mv.to)
  BY <1>1 DEF WholeThen, Moves
<1>7. mv.for = "org" => /\ disk'[File] = disk[File]
                        /\ Guarded => \E n \in Names \ {File} : disk'[n].old = Whole
  BY <1>1, NameFacts DEF Moves
<1>8. /\ mv.for = "backup" => mv.to = w.backup
      /\ mv.for \in {"restore", "put back", "undo"} => mv.to = File
  BY <1>1 DEF Moves
<1> QED  BY <1>2, <1>3, <1>4, <1>5, <1>6, <1>7, <1>8 DEF Leaves

LEMMA MvRemovesStep ==
    ASSUME IInv, MvRemove, Exists(mv.from), Remove(mv.to),
           mv' = [mv EXCEPT !.at = "rename"], UNCHANGED w
    PROVE  IInv'
<1> USE DEF IInv
<1>1. w.pc = "mv" /\ mv.at = "remove" /\ Moves /\ UNCHANGED <<opt, w, swap, told>>
  BY MoveNames DEF MvRemove, Moving
<1>2. /\ mv' \in Call /\ mv'.from = mv.from /\ mv'.to = mv.to /\ mv'.for = mv.for
      /\ mv'.at = "rename"
  BY DEF Call, Typed
<1>3. Touches(mv.to) /\ Spends /\ (disk'[mv.to] = Absent \/ disk' = disk)
      /\ Absent.id = "none"
  BY <1>1, RemoveTouches DEF Moves, Absent
<1>4. /\ disk'[Tmp] = disk[Tmp] /\ Modest
      /\ mv.to # File => disk'[File] = disk[File]
      /\ mv.to # w.backup => disk'[w.backup] = disk[w.backup]
      /\ mv.to # Org => disk'[Org] = disk[Org]
  BY <1>1, <1>3, NameFacts, TouchedModestly DEF Touches, Moves
<1>5. Typed'
  BY <1>1, <1>2, <1>3 DEF Typed, Exists, Spends, Touches
<1>6. Calls'
  BY <1>1, <1>2 DEF Calls, Renamed, NeedsBackup, Moves
<1>7. Way'
  BY <1>1 DEF Way, NeedsBackup
<1>8. Blamed'
  BY <1>1, <1>3 DEF Blamed, Spends
<1>9. Before'
  BY <1>1, <1>2, <1>4 DEF Before, SetAside, Between, FileWhole, Exists, Moves
<1>10. Kept'
  BY <1>1, <1>2, <1>3, <1>4, ZenonT(60)
     DEF Kept, BackupWhole, Guarded, NeedsBackup, Calls, Way, Moves, Spends
<1>11. There'
  BY <1>1 DEF There
<1>12. Back'
  <2>1. CASE mv.for \in {"backup", "org"}
    BY <1>1, <1>2, <2>1 DEF Back
  <2>2. CASE mv.for \in {"restore", "put back", "undo"}
    <3>1. mv.to = File /\ (disk'[File] = Absent \/ disk'[File] = disk[File])
      BY <1>1, <1>3, <2>2 DEF Moves
    <3>2. /\ ~Exists(File) => ~Exists(File)'
          /\ ~Exists(File)' \/ disk'[File] = disk[File]
      BY <1>3, <3>1 DEF Exists
    <3>3. /\ mv.for \in {"restore", "put back"} /\ opt.existed /\ ~opt.force =>
               (~Exists(File) /\ Renamed) \/ FileWhole
          /\ mv.for = "restore" => ~Exists(File)
      BY <1>1 DEF Back
    <3>4. mv.for = "put back" => Renamed
      BY <1>1 DEF Moves, Calls, Renamed
    <3>5. FileWhole => disk[File].old # 0
      BY DEF FileWhole, Whole
    <3>6. ~Exists(File) => disk[File].old = 0
      BY NameFacts DEF Typed
    <3>7. mv.for \in {"restore", "put back"} /\ opt.existed /\ ~opt.force =>
            \/ ~Exists(File)' /\ Renamed
            \/ disk'[File] = disk[File] /\ FileWhole
      BY <3>2, <3>3, <3>4, <3>5, <3>6
    <3>8. Renamed => Renamed'
      BY <1>1 DEF Renamed, NeedsBackup
    <3> QED  BY <1>1, <1>2, <3>2, <3>7, <3>8 DEF Back, FileWhole
  <2> QED  BY <1>1, <2>1, <2>2 DEF Moves
<1>13. Ends'
  BY <1>1 DEF Ends, NeedsBackup, Way
<1>14. New'
  BY <1>1, <1>2, <1>3, <1>4, ZenonT(60)
     DEF New, Excused, Complete, OldPart, Renamed, NeedsBackup, Calls, Way, Moves, Spends
<1>15. Links'
  BY <1>1, <1>2, <1>4 DEF Links, Moves
<1>16. Writable'
  BY <1>1, <1>4 DEF Writable, Modest
<1>17. Users'
  BY <1>1, <1>4, <1>5, UsersStay DEF Users
<1> QED  BY <1>5, <1>6, <1>7, <1>8, <1>9, <1>10, <1>11, <1>12, <1>13, <1>14, <1>15, <1>16,
            <1>17

(* Only the place in the call of vim_rename changes, of the way through    *)
(* another name.                                                           *)
LEMMA AsideGoesOn ==
    ASSUME IInv, w.pc = "mv", mv.for = "backup", NEW at \in {"aside", "again"},
           mv' = [mv EXCEPT !.at = at], Spends, UNCHANGED <<disk, opt, w, swap, told>>,
           at = "again" => faults' >= 1 /\ SetAside,
           at = "aside" => FileWhole
    PROVE  IInv'
<1> USE DEF IInv
<1>1. Moves
  BY MoveNames
<1>2. /\ mv' \in Call /\ mv'.from = mv.from /\ mv'.to = mv.to /\ mv'.for = "backup"
      /\ mv'.at = at
  BY DEF Call, Typed
<1>3. Typed'
  BY <1>2 DEF Typed, Exists, Spends
<1>4. Calls'
  BY <1>2 DEF Calls, Renamed, NeedsBackup
<1>5. Way'
  BY <1>2 DEF Way, NeedsBackup
<1>6. Blamed'
  BY <1>2 DEF Blamed, Spends
<1>7. Before'
  BY <1>1, <1>2 DEF Before, SetAside, Between, FileWhole, Exists, Moves, NeedsBackup
<1>8. Kept'
  BY <1>1, <1>2 DEF Kept, BackupWhole, Guarded, NeedsBackup
<1>9. There'
  BY <1>2 DEF There
<1>10. Back'
  BY <1>2 DEF Back
<1>11. Ends'
  BY <1>1 DEF Ends, NeedsBackup, Way
<1>12. New'
  BY <1>2 DEF New, Way
<1>13. Links'
  BY <1>2 DEF Links
<1>14. Writable'
  BY DEF Writable
<1>15. Users'
  BY <1>2 DEF Users
<1> QED  BY <1>3, <1>4, <1>5, <1>6, <1>7, <1>8, <1>9, <1>10, <1>11, <1>12, <1>13, <1>14,
            <1>15

LEMMA AsideMovesStep ==
    ASSUME IInv, MvAside, Well, mv' = [mv EXCEPT !.at = "onto"], UNCHANGED w,
           disk' = [disk EXCEPT ![Temp] = disk[mv.from], ![mv.from] = Absent]
    PROVE  IInv'
<1> USE DEF IInv
<1>1. /\ w.pc = "mv" /\ mv.at = "aside" /\ Moves /\ UNCHANGED <<opt, w, swap, told>>
      /\ mv.for = "backup" /\ mv.from = File /\ mv.to = w.backup /\ opt.existed
  BY MoveNames DEF MvAside, Moving, Calls, Moves, NeedsBackup
<1>2. /\ mv' \in Call /\ mv'.from = mv.from /\ mv'.to = mv.to /\ mv'.for = mv.for
      /\ mv'.at = "onto"
  BY DEF Call, Typed
<1>3. /\ Absent \in Content /\ Absent.id = "none" /\ Absent.old = 0 /\ Absent.new = 0
      /\ ~Absent.ro
  BY DEF Absent, Content, Amounts, Whole
<1>4. File \in Names /\ Temp \in Names /\ File # Temp
  BY NameFacts
<1>5. /\ disk' \in [Names -> Content] /\ disk'[File] = Absent /\ disk'[Temp] = disk[File]
      /\ \A n \in Names : n # File /\ n # Temp => disk'[n] = disk[n]
  BY <1>1, <1>3, <1>4 DEF Typed
<1>6. FileWhole /\ ~Exists(Tmp)
  BY <1>1 DEF Before, Between
<1>7. SetAside'
  BY <1>3, <1>5, <1>6 DEF SetAside, FileWhole, Exists
<1>8. ASSUME NEW n \in Names
      PROVE  /\ disk'[n].id = "none" => disk'[n].old = 0 /\ disk'[n].new = 0
             /\ disk'[n].ro => opt.ro
             /\ ~opt.bk /\ n \notin {Bak(1), Org} => disk'[n].id # "user"
  <2>1. disk'[n] = Absent \/ disk'[n] = disk[File] \/ disk'[n] = disk[n]
    BY <1>5
  <2>2. ~opt.bk => disk[File].id # "user"
    BY NameFacts DEF Users, Backups
  <2>3. /\ disk[File].id = "none" => disk[File].old = 0 /\ disk[File].new = 0
        /\ disk[File].ro => opt.ro
    BY <1>4 DEF Typed, Exists, Writable
  <2> QED  BY <1>3, <2>1, <2>2, <2>3 DEF Typed, Exists, Writable, Users
<1>9. Spends
  BY Costs
<1>10. disk'[w.backup] = disk[w.backup] /\ disk'[Tmp] = disk[Tmp]
  BY <1>1, <1>5, NameFacts DEF Moves
<1>11. Typed'
  BY <1>1, <1>2, <1>5, <1>8, <1>9 DEF Typed, Exists, Spends
<1>12. Calls'
  BY <1>1, <1>2 DEF Calls, Renamed, NeedsBackup
<1>13. Way'
  BY <1>1, <1>2 DEF Way, NeedsBackup
<1>14. Blamed'
  BY <1>1, <1>2, <1>9 DEF Blamed, Spends
<1>15. Before'
  BY <1>1, <1>2, <1>6, <1>7, <1>10 DEF Before, Between, Exists
<1>16. Kept'
  BY <1>1, <1>2 DEF Kept
<1>17. There'
  BY <1>1, <1>2 DEF There
<1>18. Back'
  BY <1>1, <1>2 DEF Back
<1>19. Ends'
  BY <1>1 DEF Ends, NeedsBackup, Way, Moves
<1>20. New'
  BY <1>1, <1>2 DEF New, Way
<1>21. Links'
  BY <1>1, <1>2 DEF Links
<1>22. Writable'
  BY <1>1, <1>8 DEF Writable
<1>23. Users'
  BY <1>1, <1>2, <1>8, <1>10 DEF Users
<1> QED  BY <1>11, <1>12, <1>13, <1>14, <1>15, <1>16, <1>17, <1>18, <1>19, <1>20, <1>21,
            <1>22, <1>23

LEMMA MvAsideStep ==
    ASSUME IInv, MvAside
    PROVE  IInv'
<1> USE DEF IInv
<1>1. w.pc = "mv" /\ mv.at = "aside" /\ UNCHANGED <<opt, swap, told>> /\ mv.for = "backup"
      /\ opt.existed
  BY MoveNames DEF MvAside, Moving, Calls, Moves, NeedsBackup
<1>2. CASE /\ Well /\ mv' = [mv EXCEPT !.at = "onto"] /\ UNCHANGED w
           /\ disk' = [disk EXCEPT ![Temp] = disk[mv.from], ![mv.from] = Absent]
  BY <1>2, AsideMovesStep
<1>3. CASE Fault /\ Returns(FALSE) /\ UNCHANGED disk
  <2>1. Spends /\ told' \in BOOLEAN /\ (told' => faults' >= 2)
    BY <1>1, <1>3, Costs DEF Typed, Blamed, Spends
  <2>2. FileWhole
    BY <1>1 DEF Before, Between
  <2>3. Leaves(FALSE)
    BY <1>1, <1>3, <2>1, <2>2, FailsToMove
  <2> QED  BY <1>1, <1>3, <2>3, ReturnStep
<1> QED  BY <1>2, <1>3 DEF MvAside

LEMMA MvOntoStep ==
    ASSUME IInv, MvOnto
    PROVE  IInv'
<1> USE DEF IInv
<1>1. /\ w.pc = "mv" /\ mv.at = "onto" /\ UNCHANGED <<opt, swap, told>> /\ Moves
      /\ mv.for = "backup" /\ mv.to = w.backup /\ SetAside
  BY MoveNames DEF MvOnto, Moving, Calls, Moves, Before
<1>2. CASE Fault /\ mv' = [mv EXCEPT !.at = "again"] /\ UNCHANGED <<disk, w>>
  <2>1. Spends /\ faults' >= 1
    BY <1>2, Costs
  <2> QED  BY <1>1, <1>2, <2>1, AsideGoesOn
<1>3. CASE /\ Well /\ Returns(TRUE)
           /\ disk' = [disk EXCEPT ![mv.to] = disk[Temp],
                                   ![Temp] = IF opt.link = "hard" THEN Linked(opt.ro)
                                             ELSE Absent]
  <2> DEFINE left == IF opt.link = "hard" THEN Linked(opt.ro) ELSE Absent
  <2>1. /\ left \in Content /\ left.id # "user" /\ left.old = 0 /\ left.new = 0
        /\ left.ro => opt.ro
    BY DEF Absent, Linked, Content, Amounts, Whole, Typed, Options
  <2>2. disk' = [disk EXCEPT ![mv.to] = disk[Temp], ![Temp] = left]
    BY <1>3
  <2> HIDE DEF left
  <2>3. w.backup \in Names /\ Temp \in Names /\ w.backup # Temp /\ File # Temp
          /\ w.backup # File /\ Tmp # Temp /\ Tmp # w.backup
    BY <1>1 DEF Moves
  <2>4. /\ disk' \in [Names -> Content] /\ disk'[Temp] = left
        /\ disk'[w.backup] = disk[Temp]
        /\ \A n \in Names : n # w.backup /\ n # Temp => disk'[n] = disk[n]
    BY <1>1, <2>1, <2>2, <2>3 DEF Typed
  <2>5. ASSUME NEW n \in Names
        PROVE  /\ disk'[n].id = "none" => disk'[n].old = 0 /\ disk'[n].new = 0
               /\ disk'[n].ro => opt.ro
               /\ ~opt.bk /\ n \notin {Bak(1), Org} => disk'[n].id # "user"
    <3>1. disk'[n] = left \/ disk'[n] = disk[Temp] \/ disk'[n] = disk[n]
      BY <2>4
    <3>2. ~opt.bk => disk[Temp].id # "user"
      BY NameFacts DEF Users, Backups
    <3>3. /\ disk[Temp].id = "none" => disk[Temp].old = 0 /\ disk[Temp].new = 0
          /\ disk[Temp].ro => opt.ro
      BY <2>3 DEF Typed, Exists, Writable
    <3> QED  BY <2>1, <3>1, <3>2, <3>3 DEF Typed, Exists, Writable, Users
  <2>6. Spends /\ told' \in BOOLEAN /\ (told' => faults' >= 2)
    BY <1>1, <1>3, Costs DEF Typed, Blamed, Spends
  <2>7. WholeThen(w.backup) /\ disk'[File].id = "none" /\ disk'[Tmp] = disk[Tmp]
    BY <1>1, <2>3, <2>4, NameFacts DEF SetAside, WholeThen, Exists
  <2>8. ~opt.bk => disk'[w.backup].id # "user"
    BY <2>4, NameFacts DEF Users, Backups
  <2>9. Leaves(TRUE)
    BY <1>1, <2>4, <2>5, <2>6, <2>7, <2>8 DEF Leaves
  <2> QED  BY <1>1, <1>3, <2>9, ReturnStep
<1> QED  BY <1>2, <1>3 DEF MvOnto

LEMMA MvAgainStep ==
    ASSUME IInv, MvAgain
    PROVE  IInv'
<1> USE DEF IInv
<1>1. /\ w.pc = "mv" /\ mv.at = "again" /\ UNCHANGED <<opt, swap, told>> /\ Moves
      /\ mv.for = "backup" /\ mv.from = File /\ SetAside /\ Returns(FALSE) /\ faults >= 1
  BY MoveNames DEF MvAgain, Moving, Calls, Moves, Before, Blamed
<1>2. CASE Fault /\ UNCHANGED disk
  <2>1. Spends /\ faults' >= 2 /\ told' \in BOOLEAN
    BY <1>1, <1>2, Costs DEF Typed
  <2>2. Leaves(FALSE)
    BY <1>1, <1>2, <2>1, FailsToMove
  <2> QED  BY <1>1, <2>2, ReturnStep
<1>3. CASE Well /\ disk' = [disk EXCEPT ![mv.from] = disk[Temp], ![Temp] = Absent]
  <2>1. /\ Absent \in Content /\ Absent.id = "none" /\ Absent.old = 0 /\ Absent.new = 0
        /\ ~Absent.ro
    BY DEF Absent, Content, Amounts, Whole
  <2>2. File \in Names /\ Temp \in Names /\ File # Temp /\ w.backup # Temp
          /\ w.backup # File /\ Tmp # Temp /\ Tmp # File /\ w.backup \in Names
    BY <1>1, NameFacts DEF Moves
  <2>3. /\ disk' \in [Names -> Content] /\ disk'[Temp] = Absent
        /\ disk'[File] = disk[Temp]
        /\ \A n \in Names : n # File /\ n # Temp => disk'[n] = disk[n]
    BY <1>1, <1>3, <2>1, <2>2 DEF Typed
  <2>4. ASSUME NEW n \in Names
        PROVE  /\ disk'[n].id = "none" => disk'[n].old = 0 /\ disk'[n].new = 0
               /\ disk'[n].ro => opt.ro
               /\ ~opt.bk /\ n \notin {Bak(1), Org} => disk'[n].id # "user"
    <3>1. disk'[n] = Absent \/ disk'[n] = disk[Temp] \/ disk'[n] = disk[n]
      BY <2>3
    <3>2. ~opt.bk => disk[Temp].id # "user"
      BY NameFacts DEF Users, Backups
    <3>3. /\ disk[Temp].id = "none" => disk[Temp].old = 0 /\ disk[Temp].new = 0
          /\ disk[Temp].ro => opt.ro
      BY <2>2 DEF Typed, Exists, Writable
    <3> QED  BY <2>1, <3>1, <3>2, <3>3 DEF Typed, Exists, Writable, Users
  <2>5. Spends /\ told' \in BOOLEAN /\ (told' => faults' >= 2)
    BY <1>1, <1>3, Costs DEF Typed, Blamed, Spends
  <2>6. WholeThen(File) /\ disk'[Tmp] = disk[Tmp] /\ disk'[w.backup] = disk[w.backup]
    BY <1>1, <2>2, <2>3, NameFacts DEF SetAside, WholeThen
  <2>7. ~opt.bk => disk'[w.backup].id # "user"
    BY <1>1, <2>6 DEF Users, Moves
  <2>8. Leaves(FALSE)
    BY <1>1, <2>3, <2>4, <2>5, <2>6, <2>7 DEF Leaves
  <2> QED  BY <1>1, <2>8, ReturnStep
<1> QED  BY <1>2, <1>3 DEF MvAgain

LEMMA MvRemoveStep ==
    ASSUME IInv, MvRemove
    PROVE  IInv'
<1> USE DEF IInv
<1>1. w.pc = "mv" /\ UNCHANGED <<opt, swap, told>> /\ Moves
  BY MoveNames DEF MvRemove, Moving
<1>2. CASE /\ Remove(mv.to) /\ mv' = [mv EXCEPT !.at = "rename"] /\ UNCHANGED w
           /\ Exists(mv.from)
  BY <1>2, MvRemovesStep
<1>4. CASE /\ Exists(mv.from) /\ SameFile(mv.from, mv.to)
           /\ mv' = [mv EXCEPT !.at = "aside"] /\ UNCHANGED <<disk, faults, w>>
  <2>1. mv.for = "backup" /\ Exists(File) /\ opt.existed
    BY <1>1, <1>4 DEF SameFile, Moves, NeedsBackup
  <2>2. FileWhole /\ Spends
    BY <1>1, <1>4, <2>1, Costs DEF Before, SetAside, Well
  <2> QED  BY <1>1, <1>4, <2>1, <2>2, AsideGoesOn
<1>3. CASE ~Exists(mv.from) /\ Returns(FALSE) /\ UNCHANGED <<disk, faults>>
  <2>1. Spends /\ told' \in BOOLEAN /\ (told' => faults' >= 2)
    BY <1>1, <1>3, Costs DEF Typed, Blamed, Well
  <2>2. ASSUME Guarded, mv.for \in {"restore", "put back", "undo"}
        PROVE  FALSE
    <3>1. mv.from \in Names /\ disk[mv.from].old = Whole
      BY <1>1, <2>2 DEF Kept, BackupWhole, Moves
    <3>2. disk[mv.from].old = 0
      BY <1>3, <3>1 DEF Typed
    <3> QED  BY <3>1, <3>2 DEF Whole
  <2>4. mv.for = "backup" => SetAside /\ faults' >= 2
    <3>1. mv.for = "backup" => mv.from = File /\ opt.existed /\ mv.at = "remove"
      BY <1>1 DEF Moves, NeedsBackup, MvRemove, Moving
    <3>2. FileWhole => Exists(File)
      BY NameFacts DEF FileWhole, Typed, Whole
    <3> QED  BY <1>1, <1>3, <2>1, <3>1, <3>2 DEF Before, Between, Spends
  <2>3. Leaves(FALSE)
    BY <1>1, <1>3, <2>1, <2>2, <2>4, FailsToMove
  <2> QED  BY <1>1, <1>3, <2>3, ReturnStep
<1> QED  BY <1>2, <1>3, <1>4 DEF MvRemove

LEMMA MvRenameFailsStep ==
    ASSUME IInv, MvRename, Fault, mv' = [mv EXCEPT !.at = "open"], UNCHANGED <<disk, w>>
    PROVE  IInv'
<1> USE DEF IInv
<1>1. w.pc = "mv" /\ mv.at = "rename" /\ Moves /\ UNCHANGED <<opt, w, swap, told>>
  BY MoveNames DEF MvRename, Moving
<1>2. /\ mv' \in Call /\ mv'.from = mv.from /\ mv'.to = mv.to /\ mv'.for = mv.for
      /\ mv'.at = "open"
  BY DEF Call, Typed
<1>3. Touches(mv.to) /\ Spends /\ faults' >= 1 /\ (faults >= 1 => faults' >= 2)
  BY <1>1, Costs DEF Moves, Touches, Typed, Exists
<1>4. /\ disk'[Tmp] = disk[Tmp] /\ Modest
      /\ mv.to # File => disk'[File] = disk[File]
      /\ mv.to # w.backup => disk'[w.backup] = disk[w.backup]
      /\ mv.to # Org => disk'[Org] = disk[Org]
  BY UntouchedModestly
<1>5. Typed'
  BY <1>1, <1>2, <1>3 DEF Typed, Exists, Spends
<1>6. Calls'
  BY <1>1, <1>2 DEF Calls, Renamed, NeedsBackup
<1>7. Way'
  BY <1>1 DEF Way, NeedsBackup
<1>8. Blamed'
  BY <1>1, <1>3 DEF Blamed, Spends, Way
<1>9. Before'
  BY <1>1 DEF Before, SetAside, Between, FileWhole, Exists
<1>10. Kept'
  BY <1>1, <1>2 DEF Kept, BackupWhole, Guarded, NeedsBackup
<1>11. There'
  BY <1>1 DEF There
<1>12. Back'
  BY <1>1, <1>2 DEF Back, FileWhole, Exists, Renamed, NeedsBackup
<1>13. Ends'
  BY <1>1 DEF Ends, NeedsBackup, Way
<1>14. New'
  BY <1>1 DEF New, Excused, Complete, OldPart, Renamed, Guarded, NeedsBackup
<1>15. Links'
  BY <1>1 DEF Links
<1>16. Writable'
  BY <1>1 DEF Writable
<1>17. Users'
  BY <1>1 DEF Users
<1> QED  BY <1>5, <1>6, <1>7, <1>8, <1>9, <1>10, <1>11, <1>12, <1>13, <1>14, <1>15, <1>16,
            <1>17

LEMMA MvRenameStep ==
    ASSUME IInv, MvRename
    PROVE  IInv'
<1> USE DEF IInv
<1>1. w.pc = "mv" /\ mv.at = "rename" /\ UNCHANGED <<opt, swap, told>> /\ Moves
  BY MoveNames DEF MvRename, Moving
<1>2. CASE Fault /\ mv' = [mv EXCEPT !.at = "open"] /\ UNCHANGED <<disk, w>>
  BY <1>2, MvRenameFailsStep
<1>3. CASE /\ Well /\ Returns(TRUE)
           /\ disk' = [disk EXCEPT ![mv.to] = disk[mv.from], ![mv.from] = Absent]
  <2>1. /\ Absent \in Content /\ Absent.id = "none" /\ Absent.old = 0 /\ Absent.new = 0
        /\ ~Absent.ro
    BY DEF Absent, Content, Amounts, Whole
  <2>2. mv.from \in Names /\ mv.to \in Names /\ mv.from # mv.to
    BY <1>1 DEF Moves
  <2>3. /\ disk' \in [Names -> Content] /\ disk'[mv.from] = Absent
        /\ disk'[mv.to] = disk[mv.from]
        /\ \A n \in Names : n # mv.from /\ n # mv.to => disk'[n] = disk[n]
    BY <1>3, <2>1, <2>2 DEF Typed
  <2>4. Guarded => disk[mv.from].old = Whole /\ disk[mv.from].new = 0
    <3>1. CASE mv.for = "backup"
      <4>1. FileWhole
        BY <1>1, <3>1 DEF Before, Between, Moves, NeedsBackup
      <4> QED  BY <1>1, <3>1, <4>1 DEF FileWhole, Moves
    <3>2. CASE mv.for # "backup"
      BY <1>1, <3>2 DEF Kept, BackupWhole, Moves
    <3> QED  BY <3>1, <3>2
  <2>5. /\ disk[mv.from].id = "none" => disk[mv.from].old = 0 /\ disk[mv.from].new = 0
        /\ disk[mv.from].ro => opt.ro
    BY <2>2 DEF Typed, Exists, Writable
  <2>6. ~opt.bk => disk[mv.from].id # "user"
    <3>1. CASE mv.for = "backup"
      <4>1. File # Bak(1)
        BY NameFacts DEF Backups
      <4> QED  BY <1>1, <4>1 DEF Users, Moves
    <3>2. CASE mv.for # "backup"
      BY <1>1, <3>2 DEF Users, Moves
    <3> QED  BY <3>1, <3>2
  <2>7. mv.for = "backup" => disk'[File].id = "none"
    BY <1>1, <2>1, <2>3 DEF Moves
  <2>8. Spends
    BY <1>3, Costs
  <2>9. \A n \in {mv.from, mv.to} :
          /\ disk'[n].id = "none" => disk'[n].old = 0 /\ disk'[n].new = 0
          /\ disk'[n].ro => opt.ro
          /\ ~opt.bk => n = Org \/ disk'[n].id # "user"
    BY <2>1, <2>3, <2>5, <2>6
  <2>10. Guarded => disk'[mv.to].old = Whole /\ disk'[mv.to].new = 0
    BY <2>3, <2>4
  <2>11. Leaves(TRUE)
    BY <1>1, <2>3, <2>7, <2>8, <2>9, <2>10, Succeeds
  <2> QED  BY <1>1, <1>3, <2>11, ReturnStep
<1> QED  BY <1>2, <1>3 DEF MvRename

LEMMA MakesFile ==
    ASSUME IInv, Moves, disk' = [disk EXCEPT ![mv.to] = Fresh(disk[mv.from].ro)]
    PROVE  /\ Touches(mv.to) /\ disk'[mv.to].id = "fresh"
           /\ disk'[mv.to].new = 0 /\ disk'[mv.to].old = 0
<1> USE DEF IInv
<1>1. mv.from \in Names /\ mv.to \in Names
  BY DEF Moves
<1>2. disk[mv.from].ro \in BOOLEAN /\ (disk[mv.from].ro => opt.ro)
  BY <1>1 DEF Typed, Content, Writable
<1>3. /\ Fresh(disk[mv.from].ro) \in Content /\ Fresh(disk[mv.from].ro).id = "fresh"
      /\ Fresh(disk[mv.from].ro).old = 0 /\ Fresh(disk[mv.from].ro).new = 0
      /\ Fresh(disk[mv.from].ro).ro => opt.ro
  BY <1>2, FreshContent
<1>4. Touches(mv.to) /\ disk'[mv.to] = Fresh(disk[mv.from].ro)
  BY <1>1, <1>3, PutTouches
<1> QED  BY <1>3, <1>4

LEMMA MvOpensStep ==
    ASSUME IInv, MvOpen, ~Exists(mv.to), Well, mv' = [mv EXCEPT !.at = "copy"], UNCHANGED w,
           disk' = [disk EXCEPT ![mv.to] = Fresh(disk[mv.from].ro)]
    PROVE  IInv'
<1> USE DEF IInv
<1>1. w.pc = "mv" /\ mv.at = "open" /\ Moves /\ UNCHANGED <<opt, w, swap, told>>
  BY MoveNames DEF MvOpen, Moving
<1>2. /\ mv' \in Call /\ mv'.from = mv.from /\ mv'.to = mv.to /\ mv'.for = mv.for
      /\ mv'.at = "copy"
  BY DEF Call, Typed
<1>3. /\ Touches(mv.to) /\ Spends /\ disk'[mv.to].id = "fresh"
      /\ disk'[mv.to].new = 0 /\ disk'[mv.to].old = 0
      /\ mv.from # mv.to /\ disk[mv.from].old >= 0
  BY <1>1, MakesFile, Measured, Costs DEF Moves
<1>4. /\ disk'[Tmp] = disk[Tmp] /\ Modest
      /\ mv.to # File => disk'[File] = disk[File]
      /\ mv.to # w.backup => disk'[w.backup] = disk[w.backup]
      /\ mv.to # Org => disk'[Org] = disk[Org]
  BY <1>1, <1>3, NameFacts, TouchedModestly DEF Touches, Moves
<1>5. Typed'
  BY <1>1, <1>2, <1>3 DEF Typed, Exists, Spends, Touches
<1>6. Calls'
  BY <1>1, <1>2 DEF Calls, Renamed, NeedsBackup, Moves, Spends
<1>7. Way'
  BY <1>1 DEF Way, NeedsBackup
<1>8. Blamed'
  BY <1>1, <1>3 DEF Blamed, Spends
<1>9. Before'
  BY <1>1, <1>2, <1>4
     DEF Before, SetAside, Between, FileWhole, Exists, Renamed, NeedsBackup, Calls, Way,
     Moves, Spends
<1>10. Kept'
  BY <1>1, <1>2, <1>3, <1>4, ZenonT(60)
     DEF Kept, BackupWhole, Guarded, NeedsBackup, Calls, Way, Moves, Spends
<1>11. There'
  BY <1>1, <1>2, <1>3 DEF There, Exists, Moves, Touches
<1>12. Back'
  BY <1>1, <1>2, <1>3 DEF Back, Calls
<1>13. Ends'
  BY <1>1 DEF Ends, NeedsBackup, Way
<1>14. New'
  BY <1>1, <1>2, <1>3, <1>4, ZenonT(60)
     DEF New, Excused, Complete, OldPart, Renamed, Guarded, NeedsBackup, Calls, Way,
     Moves, Spends
<1>15. Links'
  BY <1>1, <1>2, <1>4 DEF Links, Moves
<1>16. Writable'
  BY <1>1, <1>4 DEF Writable, Modest
<1>17. Users'
  BY <1>1, <1>3 DEF Users
<1> QED  BY <1>5, <1>6, <1>7, <1>8, <1>9, <1>10, <1>11, <1>12, <1>13, <1>14, <1>15, <1>16,
            <1>17

LEMMA MvOpenStep ==
    ASSUME IInv, MvOpen
    PROVE  IInv'
<1> USE DEF IInv
<1>1. w.pc = "mv" /\ mv.at = "open" /\ UNCHANGED <<opt, swap, told>> /\ Moves
  BY MoveNames DEF MvOpen, Moving
<1>2. CASE /\ ~Exists(mv.to) /\ Well /\ mv' = [mv EXCEPT !.at = "copy"] /\ UNCHANGED w
           /\ disk' = [disk EXCEPT ![mv.to] = Fresh(disk[mv.from].ro)]
  BY <1>2, MvOpensStep
<1>3. CASE (IF Exists(mv.to) THEN Well ELSE Fault) /\ Returns(FALSE) /\ UNCHANGED disk
  <2>1. Spends /\ (~Exists(mv.to) => faults' >= 2) /\ (faults >= 2 => faults' >= 2)
    BY <1>1, <1>3, Costs DEF Blamed, Spends
  <2>2. told' \in BOOLEAN /\ (told' => faults' >= 2)
    BY <1>1, <2>1 DEF Typed, Blamed
  <2>3. mv.for \in {"restore", "put back"} /\ Guarded =>
          FileWhole \/ (faults' >= 2 /\ ~Exists(File))
    BY <1>1, <2>1 DEF Back, Moves, Guarded, NeedsBackup
  <2>4. mv.for = "undo" => faults' >= 2
    BY <1>1, <2>1 DEF Blamed
  <2>5. mv.for = "backup" => FileWhole
    BY <1>1 DEF Before, Between, Moves, NeedsBackup
  <2>6. Leaves(FALSE)
    BY <1>1, <1>3, <2>1, <2>2, <2>3, <2>4, <2>5, FailsToMove
  <2> QED  BY <1>1, <1>3, <2>6, ReturnStep
<1> QED  BY <1>2, <1>3 DEF MvOpen

LEMMA MvCopiedStep ==
    ASSUME IInv, MvCopy, Well, disk[mv.to].old = disk[mv.from].old,
           UNCHANGED <<disk, w, told>>,
           mv' = [mv EXCEPT !.at = "unlink"]
    PROVE  IInv'
<1> USE DEF IInv
<1>1. w.pc = "mv" /\ mv.at = "copy" /\ Moves /\ UNCHANGED <<opt, w, swap, told>>
  BY MoveNames DEF MvCopy, Moving
<1>2. /\ mv' \in Call /\ mv'.from = mv.from /\ mv'.to = mv.to /\ mv'.for = mv.for
      /\ mv'.at = "unlink"
  BY DEF Call, Typed
<1>3. Touches(mv.to) /\ Spends
  BY <1>1, Costs DEF Moves, Touches, Typed, Exists
<1>4. /\ disk'[Tmp] = disk[Tmp] /\ Modest
      /\ mv.to # File => disk'[File] = disk[File]
      /\ mv.to # w.backup => disk'[w.backup] = disk[w.backup]
      /\ mv.to # Org => disk'[Org] = disk[Org]
  BY UntouchedModestly
<1>5. Typed'
  BY <1>1, <1>2, <1>3 DEF Typed, Exists, Spends
<1>6. Calls'
  BY <1>1, <1>2 DEF Calls, Renamed, NeedsBackup
<1>7. Way'
  BY <1>1 DEF Way, NeedsBackup
<1>8. Blamed'
  <2>1. faults >= 1 /\ (w.unread => faults >= 1) /\ (told => faults >= 2)
        /\ (mv.for = "undo" => faults >= 2)
    BY <1>1 DEF Blamed
  <2>2. faults' >= 1 /\ (faults >= 2 => faults' >= 2)
    BY <1>3, <2>1 DEF Spends
  <2> QED  BY <1>1, <2>2 DEF Blamed
<1>9. Before'
  BY <1>1 DEF Before, SetAside, Between, FileWhole, Exists
<1>10. Kept'
  <2>1. mv.for = "backup" => FileWhole
    BY <1>1 DEF Before, Between, Moves, NeedsBackup
  <2> QED  BY <1>1, <1>2, <1>3, <1>4, <2>1, ZenonT(60)
           DEF Kept, BackupWhole, FileWhole, Guarded, NeedsBackup, Calls, Way, Moves
<1>11. There'
  BY <1>1 DEF There
<1>12. Back'
  BY <1>1, <1>2 DEF Back, FileWhole, BackupWhole, Guarded, Moves, Spends, Kept
<1>13. Ends'
  BY <1>1 DEF Ends, NeedsBackup, Way
<1>14. New'
  <2>1. /\ Excused' = Excused /\ (Complete => Complete') /\ w'.pc = "mv"
        /\ w'.result = "none" /\ Guarded' = Guarded
    BY <1>1 DEF Excused, Complete, OldPart, Renamed, Guarded, NeedsBackup, Way
  <2>2. mv.for = "org" => Excused \/ Complete
    BY DEF New
  <2>3. mv.for = "org" /\ Guarded => disk'[Org].old = Whole
    BY <1>1 DEF Kept, BackupWhole, Moves
  <2> QED  BY <2>1, <2>3 DEF New
<1>15. Links'
  BY <1>1 DEF Links
<1>16. Writable'
  BY <1>1 DEF Writable
<1>17. Users'
  BY <1>1 DEF Users
<1> QED  BY <1>5, <1>6, <1>7, <1>8, <1>9, <1>10, <1>11, <1>12, <1>13, <1>14, <1>15, <1>16,
            <1>17

LEMMA GrowsOn ==
    ASSUME IInv, Moves, mv.at = "copy", Well, disk[mv.to].old # disk[mv.from].old,
           disk' = [disk EXCEPT ![mv.to].old = @ + 1]
    PROVE  /\ Touches(mv.to) /\ Spends /\ disk'[mv.to].id = disk[mv.to].id
           /\ disk'[mv.to].new = disk[mv.to].new
           /\ disk'[mv.to].old <= disk[mv.from].old
<1> USE DEF IInv
<1>1. mv.from \in Names /\ mv.to \in Names
  BY DEF Moves
<1>2. disk[mv.to].old \in Amounts /\ disk[mv.from].old \in Amounts
  BY <1>1, Measured
<1>3. Exists(mv.to) /\ disk[mv.to].old <= disk[mv.from].old
  BY DEF There
<1>4. disk[mv.to].old # Whole /\ disk[mv.to].old + 1 <= disk[mv.from].old
  BY <1>2, <1>3 DEF Amounts
<1>5. /\ Touches(mv.to) /\ disk'[mv.to].id = disk[mv.to].id
      /\ disk'[mv.to].new = disk[mv.to].new /\ disk'[mv.to].old = disk[mv.to].old + 1
  BY <1>1, <1>3, <1>4, OldGrows
<1> QED  BY <1>4, <1>5, Costs

LEMMA MvCopiesStep ==
    ASSUME IInv, MvCopy, Well, disk[mv.to].old # disk[mv.from].old,
           UNCHANGED <<w, mv, told>>,
           disk' = [disk EXCEPT ![mv.to].old = @ + 1]
    PROVE  IInv'
<1> USE DEF IInv
<1>1. w.pc = "mv" /\ mv.at = "copy" /\ Moves /\ UNCHANGED <<opt, swap>>
  BY MoveNames DEF MvCopy, Moving
<1>2. /\ Touches(mv.to) /\ Spends /\ disk'[mv.to].id = disk[mv.to].id
      /\ disk'[mv.to].new = disk[mv.to].new /\ mv.from # mv.to
      /\ disk'[mv.to].old <= disk[mv.from].old
  BY <1>1, GrowsOn DEF Moves
<1>3. /\ disk'[Tmp] = disk[Tmp] /\ Modest
      /\ mv.to # File => disk'[File] = disk[File]
      /\ mv.to # w.backup => disk'[w.backup] = disk[w.backup]
      /\ mv.to # Org => disk'[Org] = disk[Org]
  BY <1>1, <1>2, NameFacts, TouchedModestly DEF Touches, Moves
<1>4. Typed'
  BY <1>1, <1>2 DEF Typed, Exists, Spends, Touches
<1>5. Calls'
  BY <1>1 DEF Calls, Renamed, NeedsBackup
<1>6. Way'
  BY <1>1 DEF Way, NeedsBackup
<1>7. Blamed'
  BY <1>2 DEF Blamed, Spends
<1>8. Before'
  BY <1>1, <1>3 DEF Before, SetAside, Between, FileWhole, Exists, Calls
<1>9. Kept'
  BY <1>1, <1>2, <1>3, ZenonT(60)
     DEF Kept, BackupWhole, Guarded, NeedsBackup, Calls, Way, Moves, Spends
<1>10. There'
  BY <1>1, <1>2 DEF There, Exists, Moves, Spends, Touches
<1>11. Back'
  BY <1>1, <1>2, <1>3, ZenonT(60)
     DEF Back, FileWhole, BackupWhole, CopyThrown, Exists, Renamed, Guarded, NeedsBackup,
     Calls, Way, Moves, Spends
<1>12. Ends'
  BY <1>1 DEF Ends, NeedsBackup, Way
<1>13. New'
  BY <1>1, <1>3
     DEF New, Excused, Complete, OldPart, Renamed, Guarded, NeedsBackup, Way, Moves,
     Spends
<1>14. Links'
  BY <1>1 DEF Links
<1>15. Writable'
  BY <1>1 DEF Writable, Modest
<1>16. Users'
  BY <1>1 DEF Users
<1> QED  BY <1>4, <1>5, <1>6, <1>7, <1>8, <1>9, <1>10, <1>11, <1>12, <1>13, <1>14, <1>15,
            <1>16

LEMMA MvCopyStep ==
    ASSUME IInv, MvCopy
    PROVE  IInv'
<1> USE DEF IInv
<1>1. w.pc = "mv" /\ mv.at = "copy" /\ UNCHANGED <<opt, swap>> /\ Moves
  BY MoveNames DEF MvCopy, Moving
<1>2. CASE /\ Well /\ disk[mv.to].old = disk[mv.from].old /\ UNCHANGED <<disk, w, told>>
           /\ mv' = [mv EXCEPT !.at = "unlink"]
  BY <1>2, MvCopiedStep
<1>3. CASE /\ Well /\ disk[mv.to].old # disk[mv.from].old /\ UNCHANGED <<w, mv, told>>
           /\ disk' = [disk EXCEPT ![mv.to].old = @ + 1]
  BY <1>3, MvCopiesStep
<1>4. CASE Fault /\ Returns(FALSE) /\ told' = (told \/ mv.to = File) /\ UNCHANGED disk
  <2>1. Spends /\ faults' >= 2
    BY <1>1, <1>4, Costs DEF Blamed
  <2>2. told' \in BOOLEAN /\ (mv.to = File => told')
    BY <1>4 DEF Typed
  <2>3. mv.for \in {"restore", "put back"} => told'
    BY <1>1, <2>2 DEF Moves
  <2>4. mv.for = "backup" => FileWhole
    BY <1>1 DEF Before, Between, Moves, NeedsBackup
  <2>5. Leaves(FALSE)
    BY <1>1, <1>4, <2>1, <2>2, <2>3, <2>4, FailsToMove
  <2> QED  BY <1>1, <1>4, <2>5, ReturnStep
<1> QED  BY <1>2, <1>3, <1>4 DEF MvCopy

LEMMA MvUnlinkStep ==
    ASSUME IInv, MvUnlink
    PROVE  IInv'
<1> USE DEF IInv
<1>1. /\ w.pc = "mv" /\ mv.at = "unlink" /\ UNCHANGED <<opt, swap, told>> /\ Moves
      /\ Remove(mv.from) /\ Returns(TRUE)
  BY MoveNames DEF MvUnlink, Moving
<1>2. mv.from \in Names /\ mv.to \in Names /\ mv.from # mv.to
  BY <1>1 DEF Moves
<1>3. Touches(mv.from) /\ Spends /\ (disk'[mv.from] = Absent \/ disk' = disk)
  BY <1>1, <1>2, RemoveTouches
<1>4. disk'[mv.to] = disk[mv.to]
  BY <1>2, <1>3 DEF Touches
<1>5. /\ Guarded => disk[mv.to].old = Whole
      /\ Guarded /\ mv.to # Org => disk[mv.to].new = 0
  BY <1>1 DEF Kept, Back, New, BackupWhole, FileWhole, Moves
<1>6. Absent.id = "none" /\ Absent.old = 0 /\ Absent.new = 0 /\ ~Absent.ro
  BY DEF Absent
<1>7. mv.for = "backup" => disk'[File].id = "none" \/ WholeThen(File)
  BY <1>1, <1>3, <1>6 DEF Before, SetAside, Between, FileWhole, WholeThen, Moves,
     NeedsBackup
<1>8. ASSUME NEW n \in {mv.from, mv.to}
      PROVE  /\ disk[n].id = "none" => disk[n].old = 0 /\ disk[n].new = 0
             /\ disk[n].ro => opt.ro
             /\ ~opt.bk => n = Org \/ disk[n].id # "user"
  <2>1. n \in Names /\ n \in {File, w.backup, Org} /\ File # Bak(1)
    BY <1>1, NameFacts DEF Moves, Backups
  <2> QED  BY <1>1, <2>1 DEF Typed, Exists, Writable, Users, Moves
<1>9. \A n \in {mv.from, mv.to} :
        /\ disk'[n].id = "none" => disk'[n].old = 0 /\ disk'[n].new = 0
        /\ disk'[n].ro => opt.ro
        /\ ~opt.bk => n = Org \/ disk'[n].id # "user"
  BY <1>3, <1>4, <1>6, <1>8
<1>10. /\ disk' \in [Names -> Content]
       /\ \A n \in Names : n # mv.from /\ n # mv.to => disk'[n] = disk[n]
  BY <1>3 DEF Touches
<1>11. Leaves(TRUE)
  BY <1>1, <1>3, <1>4, <1>5, <1>7, <1>9, <1>10, Succeeds
<1> QED  BY <1>1, <1>11, ReturnStep
-----------------------------------------------------------------------------

(***************************************************************************)
(* The invariant.                                                          *)
(***************************************************************************)
LEMMA Starts ==
    ASSUME Init
    PROVE  IInv
<1>1. /\ opt \in Options /\ Meant(opt) /\ mv = NoCall /\ swap = "no" /\ faults = 0
      /\ told = FALSE
  BY DEF Init
<1>2. w = [pc |-> "begin", backup |-> NoName, dir |-> 1, copying |-> FALSE, unread |-> FALSE,
           errmsg |-> FALSE, end0 |-> FALSE, target |-> NoName, ro |-> opt.ro,
           unset |-> FALSE, result |-> "none", warned |-> FALSE]
  BY DEF Init
<1>3. PICK bak \in {Absent, Theirs, Linked(opt.ro)}, org \in {Absent, Theirs} :
         disk = [n \in Names |-> IF n = File /\ opt.existed THEN Original(opt.ro)
                                 ELSE IF n = Bak(1) THEN bak
                                 ELSE IF n = Org THEN org ELSE Absent]
  BY DEF Init
<1>4. opt.ro \in BOOLEAN /\ opt.existed \in BOOLEAN
  BY <1>1 DEF Options
<1>5. /\ Absent \in Content /\ Absent.id = "none" /\ Absent.old = 0 /\ Absent.new = 0
      /\ ~Absent.ro
  BY DEF Absent, Content, Amounts, Whole
<1>6. /\ Theirs \in Content /\ Theirs.id = "user" /\ Theirs.old = 0 /\ Theirs.new = 0
      /\ ~Theirs.ro
  BY DEF Theirs, Content, Amounts, Whole
<1>7. /\ Original(opt.ro) \in Content /\ Original(opt.ro).id = "orig"
      /\ Original(opt.ro).old = Whole /\ Original(opt.ro).new = 0
      /\ Original(opt.ro).ro = opt.ro
  BY <1>4 DEF Original, Content, Amounts, Whole
<1>25. /\ Linked(opt.ro) \in Content /\ Linked(opt.ro).id = "link"
       /\ Linked(opt.ro).ro = opt.ro
  BY <1>4 DEF Linked, Content, Amounts, Whole
<1>8. /\ w.pc = "begin" /\ w.backup = NoName /\ ~w.copying /\ ~w.unread /\ ~w.end0
      /\ w.target = NoName /\ w.ro = opt.ro /\ w.result = "none" /\ ~w.warned
  BY <1>2
<1>9. mv.for = "none" /\ mv.at = "none" /\ mv \in Call
  BY <1>1 DEF NoCall, Call
<1>10. w \in Local
  <2>1. 1 \in 1 .. Dirs + 1
    BY FileWriteAssumption
  <2> QED  BY <1>2, <1>4, <2>1 DEF Local, Pcs
<1>11. disk \in [Names -> Content]
  BY <1>3, <1>5, <1>6, <1>7, <1>25
<1>12. ASSUME NEW n \in Names
       PROVE  /\ disk[n].id = "none" => disk[n].old = 0 /\ disk[n].new = 0
              /\ disk[n].ro => opt.ro
              /\ n \notin {Bak(1), Org} => disk[n].id # "user"
  <2>1. disk[n] \in {Original(opt.ro), bak, org, Absent}
    BY <1>3
  <2>2. n \notin {Bak(1), Org} => disk[n] \in {Original(opt.ro), Absent}
    BY <1>3
  <2> QED  BY <1>5, <1>6, <1>7, <1>25, <2>1, <2>2
<1>13. /\ opt.existed => disk[File] = Original(opt.ro)
       /\ ~opt.existed => disk[File] = Absent
       /\ disk[Tmp] = Absent
  <2>1. File # Bak(1) /\ Tmp # Bak(1)
    BY NameFacts DEF Backups
  <2> QED  BY <1>3, <2>1, NameFacts
<1>14. Typed
  <2>1. faults \in 0 .. MaxFaults
    <3>1. faults = 0
      BY <1>1
    <3> QED  BY <3>1, FileWriteAssumption
  <2>3. told \in BOOLEAN
    BY <1>1
  <2>2. \A n \in Names : ~Exists(n) => disk[n].old = 0 /\ disk[n].new = 0
    BY <1>12 DEF Exists
  <2> QED  BY <1>1, <1>9, <1>10, <1>11, <2>1, <2>2 DEF Typed
<1>15. Calls /\ Way
  BY <1>8, <1>9 DEF Calls, Way
<1>16. Blamed
  BY <1>1, <1>8, <1>9 DEF Blamed
<1>17. Before
  BY <1>5, <1>7, <1>8, <1>9, <1>13 DEF Before, Exists, FileWhole
<1>18. Kept /\ There
  BY <1>8, <1>9 DEF Kept, There
<1>19. Back
  BY <1>8, <1>9 DEF Back
<1>20. Ends
  BY <1>7, <1>8, <1>13 DEF Ends, LeftAside, FileWhole
<1>21. New
  BY <1>8, <1>9 DEF New
<1>22. Links
  BY <1>1, <1>7, <1>8, <1>9, <1>13 DEF Links, Meant
<1>23. Writable
  BY <1>8, <1>12 DEF Writable
<1>24. Users
  BY <1>8, <1>9, <1>12 DEF Users
<1> QED  BY <1>14, <1>15, <1>16, <1>17, <1>18, <1>19, <1>20, <1>21, <1>22, <1>23, <1>24
            DEF IInv

LEMMA Stutters ==
    ASSUME IInv, UNCHANGED vars
    PROVE  IInv'
<1> USE DEF vars, IInv
<1>6. Typed'
  BY DEF Typed, Exists
<1>1. Calls'
  BY DEF Calls, Renamed, NeedsBackup
<1>7. Way'
  BY DEF Way, Renamed, NeedsBackup
<1>8. Blamed'
  BY DEF Blamed
<1>2. Before' /\ Kept' /\ There'
  BY ZenonT(60) DEF Before, SetAside, Between, Kept, There, FileWhole, BackupWhole,
     Guarded, Exists, Renamed, NeedsBackup
<1>3. Back' /\ Ends'
  BY ZenonT(60) DEF Back, Ends, LeftAside, FileWhole, BackupWhole, CopyThrown, Guarded,
     Exists, Renamed, NeedsBackup
<1>4. New'
  BY DEF New, Excused, Complete, OldPart, Guarded, Renamed, NeedsBackup
<1>5. Links' /\ Writable' /\ Users'
  BY DEF Links, Writable, Users
<1> QED  BY <1>1, <1>2, <1>3, <1>4, <1>5, <1>6, <1>7, <1>8

LEMMA Steps ==
    ASSUME IInv, [Next]_vars
    PROVE  IInv'
<1>1. CASE VimRename
  BY <1>1, MvRemoveStep, MvRenameStep, MvOpenStep, MvCopyStep, MvUnlinkStep,
     MvAsideStep, MvOntoStep, MvAgainStep DEF VimRename
<1>2. CASE \/ Begin \/ Choose \/ CopyName \/ CopyCreate \/ CopyData \/ NoBackup
           \/ RenameToBackup
  BY <1>2, BeginStep, ChooseStep, CopyNameStep, CopyCreateStep, CopyDataStep,
     NoBackupStep, RenameToBackupStep
<1>3. CASE \/ Prepare \/ Preserve \/ Convert \/ Open \/ OpenFails \/ DeleteFirst
           \/ WriteData \/ Close \/ Permit \/ CharConvert
  BY <1>3, PrepareStep, PreserveStep, ConvertStep, OpenStep, OpenFailsStep,
     DeleteFirstStep, WriteDataStep, CloseStep, PermitStep, CharConvertStep
<1>4. CASE \/ Restore \/ DropCopy \/ GiveUp \/ UndoWrite \/ CopyBack \/ CopyBackData
           \/ PatchMode \/ Cleanup
  BY <1>4, RestoreStep, DropCopyStep, GiveUpStep, UndoWriteStep, CopyBackStep,
     CopyBackDataStep, PatchModeStep, CleanupStep
<1>5. CASE Done \/ UNCHANGED vars
  BY <1>5, Stutters DEF Done
<1> QED  BY <1>1, <1>2, <1>3, <1>4, <1>5 DEF Next

(* The invariant holds of every state of a write. *)
THEOREM WriteInvariant == Spec => []IInv
<1>1. Init => IInv
  BY Starts
<1>2. IInv /\ [Next]_vars => IInv'
  BY Steps
<1> QED  BY <1>1, <1>2, PTL DEF Spec
-----------------------------------------------------------------------------

(***************************************************************************)
(* What follows from it.                                                   *)
(***************************************************************************)

(* The place of the whole old text, for a write that has to keep it. *)
LEMMA OldTextIsSomewhere ==
    ASSUME IInv, Guarded, opt.existed
    PROVE  \/ \E n \in Names : disk[n].old = Whole
           \/ disk[File].new = Whole
           \/ CopyThrown
<1> USE DEF IInv
<1>1. File \in Names /\ (w.backup # NoName => w.backup \in Names)
  BY NameFacts, BackupFacts
<1>2. SUFFICES ASSUME ~FileWhole, ~BackupWhole, ~CopyThrown, ~SetAside, ~LeftAside
      PROVE  \/ \E n \in Names : disk[n].old = Whole
             \/ disk[File].new = Whole
  BY <1>1, NameFacts DEF FileWhole, BackupWhole, SetAside, LeftAside
<1>3. opt.existed /\ ~opt.force /\ NeedsBackup
  BY DEF Guarded
<1>4. w.pc \notin {"begin", "choose", "copy", "create", "copying", "nobackup", "rename"}
      /\ mv.for # "backup"
  BY <1>2, <1>3 DEF Before
<1>5. w.pc \notin {"prepare", "preserve", "convert", "open", "restore", "write", "close",
                  "permit", "converted", "end", "copy back", "copying back"}
      /\ mv.for \notin {"restore", "put back", "undo", "org"}
  BY <1>2 DEF Kept
<1>6. w.pc \in {"delete", "copied", "missing", "cleanup", "done"}
  BY <1>4, <1>5 DEF Typed, Local, Pcs, Calls, Call
<1>7. w.pc \notin {"delete", "copied", "missing"}
  BY <1>2, <1>3 DEF Way, Back
<1>8. CASE w.pc = "cleanup"
  <2>1. \E n \in Names \ {File} : disk[n].old = Whole
    BY <1>8 DEF New
  <2> QED  BY <2>1
<1>9. CASE w.pc = "done"
  <2>1. w.result \in {"ok", "fail"}
    BY <1>9 DEF Way, Typed, Local
  <2>2. w.result = "ok"
    BY <1>2, <1>3, <2>1 DEF Ends
  <2>3. Excused \/ Complete
    BY <2>2 DEF New
  <2>4. ~Excused
    BY <1>3 DEF Excused
  <2> QED  BY <2>3, <2>4 DEF Complete
<1> QED  BY <1>6, <1>7, <1>8, <1>9

(* A crash loses nothing: at each moment of a write the whole old text, or *)
(* the whole new text, is in the file, in a backup or in the swap file.    *)
THEOREM CrashLosesNothing == Spec => []DiskIsSafe
<1>1. IInv => TypeOK
  <2> USE DEF IInv
  <2>1. ASSUME IInv
        PROVE  /\ disk \in [Names -> Content] /\ opt \in Options /\ w \in Local
               /\ mv \in Call /\ told \in BOOLEAN
                  /\ swap \in {"no", "kept", "failed", "other"}
               /\ faults \in 0 .. MaxFaults
    BY <2>1 DEF Typed
  <2>2. ASSUME IInv
        PROVE  {w.backup, w.target, mv.from, mv.to} \subseteq Names \cup {NoName}
    <3>1. w.backup \in Names \cup {NoName} /\ w.target \in Names \cup {NoName}
      BY <2>1, <2>2, NameFacts DEF Local, Backups
    <3>2. mv.from \in Names \cup {NoName} /\ mv.to \in Names \cup {NoName}
      BY <2>1, <2>2 DEF Call
    <3> QED  BY <3>1, <3>2
  <2>3. ASSUME IInv
        PROVE  /\ w.dir \in 1 .. Dirs + 1 /\ w.result \in {"none", "ok", "fail"}
               /\ {w.copying, w.unread, w.errmsg, w.end0, w.unset, w.ro, w.warned, told}
                 \subseteq BOOLEAN
    BY <2>1, <2>3 DEF Local
  <2> QED  BY <2>1, <2>2, <2>3 DEF TypeOK, Content
<1>2. IInv => NothingLost
  <2> SUFFICES ASSUME IInv, opt.existed, ~opt.force,
                      NeedsBackup \/ swap \notin {"failed", "other"}
               PROVE  \/ \E n \in Names : disk[n].old = Whole
                      \/ disk[File].new = Whole
                      \/ swap = "kept"
                      \/ told /\ w.copying
    BY DEF NothingLost
  <2>1. CASE NeedsBackup
    BY <2>1, OldTextIsSomewhere DEF Guarded, CopyThrown
  <2>2. CASE ~NeedsBackup /\ swap # "kept"
    <3>1. swap = "no"
      BY <2>2 DEF IInv, Typed
    <3>2. FileWhole
      BY <2>2, <3>1 DEF IInv, Ends
    <3> QED  BY <3>2, NameFacts DEF FileWhole
  <2> QED  BY <2>1, <2>2
<1>3. IInv => DiskIsSafe
  BY <1>1, <1>2 DEF DiskIsSafe
<1> QED  BY <1>3, WriteInvariant, PTL

(* A success can be relied on: the whole text is in the file, a link that  *)
(* is to stay is one, and the backup that stays is the whole original.     *)
THEOREM SuccessCanBeReliedOn == Spec => []SuccessIsComplete
<1>1. IInv => SuccessIsWritten
  BY DEF IInv, New, Excused, Complete, OldPart, SuccessIsWritten
<1>2. IInv => LinkKept
  BY DEF IInv, Links, LinkKept
<1>3. IInv => BackupIsWhole
  BY DEF IInv, New, Guarded, BackupIsWhole
<1>4. IInv => SuccessIsComplete
  BY <1>1, <1>2, <1>3 DEF SuccessIsComplete
<1> QED  BY <1>4, WriteInvariant, PTL

(* So can a failure: the file is whole unless the user is told, and one    *)
(* system call that fails does not cost the file its text.                 *)
THEOREM FailureCanBeReliedOn == Spec => []FailureIsHonest
<1>1. IInv => WarnedIfDamaged
  BY DEF IInv, Ends, FileWhole, WarnedIfDamaged, Failed
<1>2. IInv => OneFaultRestored
  <2> SUFFICES ASSUME IInv, Failed, faults <= 1, NeedsBackup, ~opt.force, w.target = File
               PROVE  disk[File].old = Whole /\ disk[File].new = 0
    BY DEF OneFaultRestored
  <2>1. opt.existed
    BY DEF NeedsBackup
  <2> QED  BY <2>1 DEF IInv, Ends, FileWhole, Failed
<1>3. IInv => FailureIsHonest
  BY <1>1, <1>2 DEF FailureIsHonest
<1> QED  BY <1>3, WriteInvariant, PTL

-----------------------------------------------------------------------------

(***************************************************************************)
(* The files of the user.                                                  *)
(***************************************************************************)
KeepsOthers ==
    /\ ~opt.bk /\ disk[Bak(1)].id = "user" => disk'[Bak(1)].id = "user"
    /\ disk[Org].id = "user" => disk'[Org].id = "user"

(* It is no harm if the file of this name changes. *)
Spared(n) == disk[n].id = "user" => n # Org /\ (n = Bak(1) => opt.bk)

LEMMA OneChanges ==
    ASSUME NEW n \in Names, Touches(n), Spared(n)
    PROVE  KeepsOthers
<1>1. ASSUME NEW m \in Names, m # n
      PROVE  disk'[m] = disk[m]
  BY <1>1 DEF Touches
<1> QED  BY <1>1, NameFacts DEF Spared, KeepsOthers

LEMMA SparedNames ==
    ASSUME IInv
    PROVE  /\ Spared(File) /\ Spared(Tmp) /\ Spared(Temp)
           /\ w.backup # NoName => Spared(w.backup)
           /\ mv.for = "org" => Spared(Org)
<1> USE DEF IInv
<1>1. File # Bak(1) /\ Tmp # Bak(1) /\ Org # Bak(1) /\ Temp # Bak(1)
  BY NameFacts DEF Backups
<1> QED  BY NameFacts, BackupFacts DEF Spared, Users

LEMMA MovesSpare ==
    ASSUME IInv, Moves
    PROVE  Spared(mv.from) /\ Spared(mv.to)
BY SparedNames DEF Moves

LEMMA OthersStay ==
    ASSUME IInv, [Next]_vars
    PROVE  KeepsOthers
<1>0. Typed /\ (w.backup # NoName => w.backup \in Names) /\ File \in Names /\ Tmp \in Names
  BY BackupFacts, NameFacts DEF IInv
<1>1. CASE UNCHANGED disk
  BY <1>1 DEF KeepsOthers
<1>2. CASE MvRemove
  <2>1. Moves
    BY <1>2, MoveNames DEF MvRemove, Moving
  <2>2. CASE Remove(mv.to)
    BY <1>0, <2>1, <2>2, RemoveTouches, MovesSpare, OneChanges DEF Moves
  <2> QED  BY <1>1, <1>2, <2>2 DEF MvRemove
<1>3. CASE MvRename
  <2>1. Moves
    BY <1>3, MoveNames DEF MvRename, Moving
  <2>2. CASE disk' = [disk EXCEPT ![mv.to] = disk[mv.from], ![mv.from] = Absent]
    <3>1. \A n \in Names : n # mv.from /\ n # mv.to => disk'[n] = disk[n]
      BY <1>0, <2>2 DEF Typed
    <3> QED  BY <2>1, <3>1, MovesSpare, NameFacts DEF Spared, KeepsOthers
  <2> QED  BY <1>1, <1>3, <2>2 DEF MvRename
<1>4. CASE MvOpen
  <2>1. Moves
    BY <1>4, MoveNames DEF MvOpen, Moving
  <2>2. CASE disk' = [disk EXCEPT ![mv.to] = Fresh(disk[mv.from].ro)]
    BY <2>1, <2>2, MakesFile, MovesSpare, OneChanges DEF Moves
  <2> QED  BY <1>1, <1>4, <2>2 DEF MvOpen
<1>5. CASE MvCopy
  <2>1. Moves /\ mv.at = "copy"
    BY <1>5, MoveNames DEF MvCopy, Moving
  <2>2. CASE /\ Well /\ disk[mv.to].old # disk[mv.from].old
             /\ disk' = [disk EXCEPT ![mv.to].old = @ + 1]
    BY <2>1, <2>2, GrowsOn, MovesSpare, OneChanges DEF Moves
  <2> QED  BY <1>1, <1>5, <2>2 DEF MvCopy
<1>6. CASE MvUnlink
  <2>1. Moves /\ Remove(mv.from)
    BY <1>6, MoveNames DEF MvUnlink, Moving
  <2> QED  BY <1>0, <2>1, RemoveTouches, MovesSpare, OneChanges DEF Moves
<1>14. CASE MvAside \/ MvOnto \/ MvAgain
  <2>1. Moves
    BY <1>14, MoveNames DEF MvAside, MvOnto, MvAgain, Moving
  <2>2. ASSUME NEW n \in Names, n \notin {mv.from, mv.to, Temp}
        PROVE  disk'[n] = disk[n]
    BY <1>0, <1>14, <2>2 DEF MvAside, MvOnto, MvAgain, Typed
  <2> QED  BY <2>1, <2>2, MovesSpare, SparedNames, NameFacts DEF Spared, KeepsOthers
<1>7. CASE CopyName
  <2>1. CASE UNCHANGED disk
    BY <1>1, <2>1
  <2>2. CASE \E n \in Backups : Remove(n) /\ (~opt.bk => disk[n].id # "user")
    <3>1. PICK n \in Backups : Remove(n) /\ (~opt.bk => disk[n].id # "user")
      BY <2>2
    <3>2. n \in Names /\ n # Org
      BY DEF Backups
    <3>3. Touches(n)
      BY <1>0, <3>1, <3>2, RemoveTouches
    <3> QED  BY <3>1, <3>2, <3>3, OneChanges DEF Spared
  <2> QED  BY <1>7, <2>1, <2>2, CopyChoice
<1>8. CASE CopyCreate \/ CopyData
  <2>1. w.backup # NoName
    BY <1>8 DEF CopyCreate, CopyData, IInv, Way
  <2>2. UNCHANGED disk \/ Touches(w.backup)
    BY <1>8, CopyCreated, CopyDone
  <2> QED  BY <1>0, <1>1, <2>1, <2>2, SparedNames, OneChanges
<1>9. CASE Prepare \/ CopyBack \/ CopyBackData \/ CharConvert
  <2>1. UNCHANGED disk \/ Touches(File) \/ Touches(Tmp)
    BY <1>9, Prepared, CopiesBack, CopiedBack, Overwrites
  <2> QED  BY <1>0, <1>1, <2>1, SparedNames, OneChanges
<1>10. CASE Open \/ WriteData \/ Permit \/ DeleteFirst
  <2>1. w.target \in {File, Tmp}
    BY <1>10 DEF Open, WriteData, Permit, DeleteFirst, IInv, Way, Typed, Local
  <2>2. Touches(w.target)
    BY <1>0, <1>10, <2>1, Opened, Writes, PermitDone, RemoveTouches DEF DeleteFirst
  <2> QED  BY <1>0, <2>1, <2>2, SparedNames, OneChanges
<1>11. CASE DropCopy \/ Cleanup
  <2>1. CASE w.backup # NoName /\ Remove(w.backup)
    BY <1>0, <2>1, RemoveTouches, SparedNames, OneChanges
  <2>2. w.backup # NoName \/ UNCHANGED disk
    BY <1>11 DEF DropCopy, Cleanup, IInv, Way
  <2> QED  BY <1>1, <1>11, <2>1, <2>2 DEF DropCopy, Cleanup
<1>12. CASE PatchMode
  <2>1. CASE ~Exists(Org) /\ disk' = [disk EXCEPT ![Org] = Fresh(opt.ro)]
    <3>1. disk[Org].id # "user" /\ disk'[Bak(1)] = disk[Bak(1)]
      BY <2>1, NameFacts DEF Exists, Backups
    <3> QED  BY <3>1 DEF KeepsOthers
  <2> QED  BY <1>1, <1>12, <2>1 DEF PatchMode
<1>13. CASE \/ Begin \/ Choose \/ NoBackup \/ RenameToBackup \/ Preserve \/ Convert
            \/ OpenFails \/ Close \/ Restore \/ GiveUp \/ UndoWrite \/ Done \/ UNCHANGED vars
  <2>1. UNCHANGED disk
    BY <1>13
       DEF Begin, Choose, NoBackup, RenameToBackup, Preserve, Convert, OpenFails, Close,
       Restore, GiveUp, UndoWrite, Done, vars
  <2> QED  BY <1>1, <2>1
<1> QED  BY <1>2, <1>3, <1>4, <1>5, <1>6, <1>7, <1>8, <1>9, <1>10, <1>11, <1>12, <1>13,
            <1>14
            DEF Next, VimRename

(* A step never costs the user a file that has the name of a backup, if    *)
(* 'backup' is off, nor the original that 'patchmode' has kept.            *)
THEOREM OtherFilesStay == Spec => OthersKept
<1>1. IInv /\ [Next]_vars =>
        [/\ ~opt.bk /\ disk[Bak(1)].id = "user" => disk'[Bak(1)].id = "user"
         /\ disk[Org].id = "user" => disk'[Org].id = "user"]_vars
  BY OthersStay DEF KeepsOthers
<1> QED  BY <1>1, WriteInvariant, PTL DEF Spec, OthersKept
==============================================================================

----------------------------- MODULE BackupStore -----------------------------
(***************************************************************************)
(* The backup repository beside the core storage: backups are copied into  *)
(* a database of their own and merged into staged when they are restored.  *)
(* Texts, diffs and merges are LineMerge's, position by position, since a  *)
(* restore applies a diff to a text it was not taken of.                   *)
(*                                                                         *)
(* snaps holds every snapshot content there ever was, and an index stands  *)
(* for its hash; present are those whose row the core still has.  All      *)
(* snapshots are of one file, the one init stored.  The core is driven by  *)
(* manual edits, which are merged into staged at once, clean's removal of  *)
(* the snapshots and the loss of its database file.                        *)
(***************************************************************************)
EXTENDS LineMerge

CONSTANTS
    InitText,   \* the text of the file init stored
    Texts,      \* what an edit may make of it
    MaxSnaps,   \* bound: snapshots stored
    MaxBackups, \* bound: backups held at a time
    MaxLosses   \* bound: losses of the core's database

ASSUME TextsAssumption == AreTexts(Texts \cup {InitText})

VARIABLES
    snaps, present,     \* snapshots: their content, the ids that are stored
    manual, staged,     \* the pointers of the two partitions
    files,              \* rows of file_nodes: the text hashed and the content
    backups,            \* rows of backup_snapshots
    restoring,          \* the restore request being served
    taken,              \* history: what each held backup was taken of
    losses              \* number of losses

vars == <<snaps, present, manual, staged, files, backups, restoring, taken, losses>>

-----------------------------------------------------------------------------
(* Snapshots *)

(* A delta's id hashes its file (the text it was taken of), diff and source *)
DeltaOf(old, diff, source) == [old |-> old, diff |-> diff, source |-> source]

InitDelta == DeltaOf(InitText, [changes |-> << >>, reach |-> 0], "manual")
InitSnapshot == [deltas |-> <<InitDelta>>, parents |-> << >>]

(* get_deltas returns a delta once, where the chain names it first *)
Returned(chain) ==
    LET first(i) == \A j \in 1..(i - 1) : chain[j] # chain[i]
        kept == Ascending({i \in DOMAIN chain : first(i)})
    IN  [k \in DOMAIN kept |-> chain[kept[k]]]

DiffsIn(deltas) == [k \in DOMAIN deltas |-> deltas[k].diff]

(* apply_deltas over a file's content: the text, and whether it could *)
Rebuilt(content, deltas) == ApplyDeltas(content, DiffsIn(deltas))

(* reconstruct_text *)
Read(id) == Rebuilt(InitText, Returned(snaps[id].deltas))
Readable(id) == id \in present /\ Read(id)[2]
TextAt(id) == Read(id)[1]

(* store_snapshot: a content that was there before keeps its id *)
IdIn(ss, s) == CHOOSE i \in DOMAIN ss : ss[i] = s
Stored(ss, s) == IF \E i \in DOMAIN ss : ss[i] = s THEN ss ELSE Append(ss, s)

Child(ss, ids, delta) == [deltas |-> Append(ss[Head(ids)].deltas, delta), parents |-> ids]

(* store_file_node: INSERT OR IGNORE by path and hash *)
FileStored(rows, old, content) ==
    IF \E f \in rows : f.hashed = old THEN rows ELSE rows \cup {[hashed |-> old, content |-> content]}

(* get_file_content *)
FileContent(rows, old) == (CHOOSE f \in rows : f.hashed = old).content

-----------------------------------------------------------------------------
Idle == [step |-> "idle"]

Init ==
    /\ snaps = <<InitSnapshot>>
    /\ present = {1}
    /\ manual = 1 /\ staged = 1
    /\ files = {[hashed |-> InitText, content |-> InitText]}
    /\ backups = {}
    /\ restoring = Idle
    /\ taken = {}
    /\ losses = 0

(* Mutant of ManualFiles: the text an edit diffs against is not stored. *)
OldForgotten(old) == files

(* apply_manual_edit stores the text it diffs against as a file node *)
ManualFiles(old) == FileStored(files, old, old)

(* apply_manual_edit and merge_manual_to_staged, whose base is staged itself; *)
(* an edit of a partition that cannot be read ends in an error.               *)
Edit(t) ==
    /\ Readable(manual) /\ Readable(staged)
    /\ TextAt(manual) # t
    /\ LET old == TextAt(manual)
           into == TextAt(staged)
       IN  \E d \in DiffsOf(old, t) :
             LET edited == Child(snaps, <<manual>>, DeltaOf(old, d, "manual"))
                 ss == Stored(snaps, edited)
                 id == IdIn(ss, edited)
                 new == Rebuilt(InitText, Returned(edited.deltas))[1]
                 merged == Terminated(new, new.ends \/ into.ends)
             IN  /\ manual' = id
                 /\ files' = ManualFiles(old)
                 /\ IF merged = into
                    THEN /\ snaps' = ss
                         /\ present' = present \cup {id}
                         /\ UNCHANGED staged
                    ELSE \E e \in DiffsOf(into, merged) :
                           LET s == Child(ss, <<staged, id>>, DeltaOf(old, e, "manual"))
                           IN  /\ snaps' = Stored(ss, s)
                               /\ staged' = IdIn(snaps', s)
                               /\ present' = present \cup {id, staged'}
    /\ Len(snaps') <= MaxSnaps
    /\ UNCHANGED <<backups, restoring, taken, losses>>

(* cleanup_orphan_snapshots compares ids stored as blobs with the texts of *)
(* the checkpoints' lists: no id is found there, and every row goes, those *)
(* a checkpoint names too.                                                 *)
Clean ==
    /\ present # {}
    /\ present' = {}
    /\ UNCHANGED <<snaps, manual, staged, files, backups, restoring, taken, losses>>

(* The core's database file is lost and init makes a new one; the file of  *)
(* the backups is another.                                                 *)
Lose ==
    /\ losses < MaxLosses
    /\ losses' = losses + 1
    /\ restoring = Idle
    /\ present' = {1} /\ manual' = 1 /\ staged' = 1
    /\ files' = {[hashed |-> InitText, content |-> InitText]}
    /\ UNCHANGED <<snaps, backups, restoring, taken>>

(* BEGIN IMMEDIATE .. COMMIT of a merge keeps the other writers out *)
Unlocked == restoring.step # "write"

LastOld(deltas) == Last(deltas).old

(* Mutant of Copy: the content is that of the last delta's file. *)
CopyOfLastFile(id) ==
    LET deltas == Returned(snaps[id].deltas)
    IN  [source |-> id, old |-> LastOld(deltas), deltas |-> deltas,
         content |-> FileContent(files, LastOld(deltas))]

(* BackupSnapshot::with_options: the deltas and the content of the          *)
(* snapshot's base file; the row names the file of the last delta.          *)
Copy(id) ==
    LET deltas == Returned(snaps[id].deltas)
    IN  [source |-> id, old |-> LastOld(deltas), deltas |-> deltas,
         content |-> FileContent(files, InitText)]

(* backup_snapshot: INSERT OR IGNORE on the hash of the copy *)
Backup(id) ==
    /\ Unlocked
    /\ id \in present
    /\ Cardinality(backups \cup {Copy(id)}) <= MaxBackups
    /\ backups' = backups \cup {Copy(id)}
    /\ taken' = taken \cup {[backup |-> Copy(id), text |-> TextAt(id)]}
    /\ UNCHANGED <<snaps, present, manual, staged, files, restoring, losses>>

(* delete_backup *)
Delete(b) ==
    /\ Unlocked
    /\ backups' = backups \ {b}
    /\ taken' = {x \in taken : x.backup # b}
    /\ UNCHANGED <<snaps, present, manual, staged, files, restoring, losses>>

(* ApiService::restore reads the backup and stores its file and its deltas *)
RestoreFile(b) ==
    /\ restoring = Idle
    /\ files' = FileStored(files, b.old, b.content)
    /\ restoring' = [step |-> "merge", backup |-> b]
    /\ UNCHANGED <<snaps, present, manual, staged, backups, taken, losses>>

BackupText(b) == Rebuilt(b.content, b.deltas)

(* merge_to_staged reads the backup again, then staged *)
RestoreRead ==
    /\ restoring.step = "merge"
    /\ LET b == restoring.backup
       IN  restoring' = IF b \in backups /\ BackupText(b)[2] /\ Readable(staged)
                        THEN [step |-> "write", backup |-> b, staged |-> staged]
                        ELSE Idle
    /\ UNCHANGED <<snaps, present, manual, staged, files, backups, taken, losses>>

(* The three-way merge of what was read, over the backup's base *)
MergedTexts ==
    LET b == restoring.backup
        ours == TextAt(restoring.staged)
        theirs == BackupText(b)[1]
    IN  {MergeTexts(b.content, ours, theirs, o, t).text :
            o \in DiffsOf(b.content, ours), t \in DiffsOf(b.content, theirs)}

(* The diff from the base to the merge; a single delta is used again *)
MergeDiffs(merged) ==
    LET b == restoring.backup
        chain == Returned(snaps[restoring.staged].deltas)
    IN  CASE merged = BackupText(b)[1] /\ Len(b.deltas) = 1 -> {b.deltas[1].diff}
          [] merged = TextAt(restoring.staged) /\ Len(chain) = 1 /\ b.content = InitText
               /\ ~(merged = BackupText(b)[1] /\ Len(b.deltas) = 1) -> {chain[1].diff}
          [] OTHER -> DiffsOf(b.content, merged)

(* Mutant of Restored: the new snapshot continues the backup's chain. *)
ContinuesSource(diff) ==
    Child(snaps, <<restoring.backup.source, restoring.staged>>,
          DeltaOf(restoring.backup.old, diff, "backup"))

(* The snapshot a restore stores *)
Restored(diff) ==
    Child(snaps, <<restoring.staged, restoring.backup.source>>,
          DeltaOf(restoring.backup.old, diff, "backup"))

(* It is appended to the chain of staged, and becomes staged; without the  *)
(* source's row the request fails.                                         *)
RestoreWrite ==
    /\ restoring.step = "write"
    /\ restoring' = Idle
    /\ IF restoring.backup.source \in present /\ restoring.staged \in present
       THEN \E merged \in MergedTexts : \E diff \in MergeDiffs(merged) :
              /\ snaps' = Stored(snaps, Restored(diff))
              /\ staged' = IdIn(snaps', Restored(diff))
              /\ present' = present \cup {staged'}
              /\ Len(snaps') <= MaxSnaps
       ELSE UNCHANGED <<snaps, present, staged>>
    /\ UNCHANGED <<manual, files, backups, taken, losses>>

BackupNext ==
    \/ \E id \in present : Backup(id)
    \/ \E b \in backups : Delete(b) \/ RestoreFile(b)
    \/ RestoreRead \/ RestoreWrite

Next ==
    \/ \E t \in Texts : Edit(t)
    \/ Clean \/ Lose
    \/ BackupNext

Spec == Init /\ [][Next]_vars

-----------------------------------------------------------------------------
(* Properties *)

(* A backup gives back the text it was taken of, from its own database,     *)
(* whatever has happened to the core since.                                 *)
BackupsReadBack ==
    \A x \in taken : BackupText(x.backup)[1] = x.text

(* A row of file_nodes holds the content its hash was computed of.         *)
FilesAddressed == \A f \in files : f.content = f.hashed

(* As long as the core has lost nothing: a restore stores the row of its    *)
(* last delta's file with the content of its first, and finds the right row *)
(* already there, which the edit had stored.                                *)
FilesAddressedUntilLoss == losses = 0 => FilesAddressed

(* A restore that makes staged move, found as it was read *)
Restores ==
    /\ restoring.step = "write" /\ restoring' = Idle
    /\ staged' # staged /\ staged = restoring.staged

Fresh == \A k \in DOMAIN snaps[staged].deltas :
            snaps[staged].deltas[k] # Last(snaps'[staged'].deltas)

(* Reading the deltas over the content lost no blank line: the next delta   *)
(* is applied to the lines it was taken of.                                 *)
ReadInFull(content, deltas) ==
    PatchedBy(content, DiffsIn(deltas)).lines = Rebuilt(content, deltas)[1].lines

BothInFull ==
    LET b == restoring.backup
    IN  ReadInFull(InitText, Returned(snaps[staged].deltas)) /\ ReadInFull(b.content, b.deltas)

(* Onto a staged that reads as the backup's base, a restore reproduces the  *)
(* backed-up lines, but for a blank last line where Gives says (once: the   *)
(* delta of a second one is already in the chain, and reading the chain     *)
(* drops it; and if neither chain loses a blank line before).               *)
RestoresOntoBase ==
    [][Restores /\ TextAt(staged) = restoring.backup.content /\ Fresh /\ BothInFull =>
          Gives(TextAt(staged)', BackupText(restoring.backup)[1].lines, InitText.ends)]_vars
=============================================================================

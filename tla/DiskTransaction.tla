-------------------------- MODULE DiskTransaction --------------------------
(***************************************************************************)
(* src/core/uft_disk_transaction.c: multi-track writes staged in memory    *)
(* and committed through the format plugin, with a copy of the image file  *)
(* (<path>.uftbak) to roll back to in BACKUP_FILE mode.                    *)
(*                                                                         *)
(* The two files outlive the process, so commit and restore are one step   *)
(* per track written or file operation, and a crash may fall between any   *)
(* two.  SHADOW_WRITE is refused by begin and has no state of its own.     *)
(***************************************************************************)
EXTENDS Naturals, Sequences

CONSTANTS
    NumTracks,        \* tracks of the image, numbered in file order
    Data,             \* contents a whole track can have
    Torn,             \* a track whose plugin write stopped part way
    Lost,             \* a track past the end of a shortened file
    NoFile,           \* there is no .uftbak
    ShortCopyPasses,  \* file_copy_all may report success on a short copy
    Careful           \* the caller commits once, rolls back a failed commit
                      \* and restores by hand what rollback left

ASSUME TransactionAssumption ==
    /\ NumTracks \in Nat
    /\ Torn \notin Data /\ Lost \notin Data /\ Torn # Lost
    /\ ShortCopyPasses \in BOOLEAN
    /\ Careful \in BOOLEAN

VARIABLES
    image,      \* contents of disk->path, per track
    backup,     \* contents of <path>.uftbak, or NoFile
    phase,      \* the call in progress on the transaction
    mode,       \* tx->mode
    pending,    \* tx->pending; the list's head is the last element
    next,       \* commit: list elements still to write
    committed,  \* tx->committed
    aborted,    \* tx->aborted
    original,   \* (history) the image when the transaction began
    result,     \* (history) what the last commit of the transaction returned
    standing    \* (history) the file that holds the contents the user has
                \* been told of: those of the image, or of the backup

files == <<image, backup>>
tx    == <<phase, mode, pending, next, committed, aborted>>
vars  == <<image, backup, phase, mode, pending, next, committed, aborted,
           original, result, standing>>

Tracks  == 1..NumTracks
Content == Data \cup {Torn, Lost}
Write   == [track : Tracks, data : Data]

-----------------------------------------------------------------------------
(* A file cut off after track n. *)
Cut(file, n) == [t \in Tracks |-> IF t <= n THEN file[t] ELSE Lost]

(* What a copy of file may leave behind when it reports success.  A read   *)
(* error ends the loop as the end of the file does, and fclose is not      *)
(* asked whether the last buffer reached the disk.                         *)
CopyPasses(file) ==
    IF ShortCopyPasses THEN {Cut(file, n) : n \in 0..NumTracks} ELSE {file}

(* ... and when it reports failure after it opened the destination. *)
CopyFails(file) == {Cut(file, n) : n \in 0..NumTracks}

IsStaged(t) == \E i \in 1..Len(pending) : pending[i].track = t

Init ==
    /\ image \in [Tracks -> Data]
    /\ backup = NoFile
    /\ phase = "idle"
    /\ mode = "IN_MEMORY"
    /\ pending = <<>>
    /\ next = 0
    /\ committed = 0
    /\ aborted = FALSE
    /\ original = image
    /\ result = "none"
    /\ standing = "image"

-----------------------------------------------------------------------------
\* a plausible slip: a .uftbak that is already there is kept
BeginKeepsOldBackup(m) ==
    /\ phase = "idle"
    /\ Careful => standing = "image" /\ m = "BACKUP_FILE"
    /\ IF m = "BACKUP_FILE" /\ backup = NoFile
       THEN backup' \in CopyPasses(image)
       ELSE UNCHANGED backup
    /\ phase' = "open"
    /\ mode' = m
    /\ pending' = <<>>
    /\ next' = 0
    /\ committed' = 0
    /\ aborted' = FALSE
    /\ original' = image
    /\ result' = "none"
    /\ standing' = "image"
    /\ UNCHANGED image

(* uft_disk_transaction_begin on a writable disk *)
Begin(m) ==
    /\ phase = "idle"
    /\ Careful => standing = "image" /\ m = "BACKUP_FILE"
    /\ IF m = "BACKUP_FILE"
       THEN backup' \in CopyPasses(image)
       ELSE UNCHANGED backup
    /\ phase' = "open"
    /\ mode' = m
    /\ pending' = <<>>
    /\ next' = 0
    /\ committed' = 0
    /\ aborted' = FALSE
    /\ original' = image
    /\ result' = "none"
    /\ standing' = "image"
    /\ UNCHANGED image

(* begin in BACKUP_FILE mode whose copy reports failure: no transaction,   *)
(* but the .uftbak that was there has been overwritten                     *)
BeginFails ==
    /\ phase = "idle"
    /\ Careful => standing = "image"
    /\ backup' \in CopyFails(image)
    /\ UNCHANGED <<image, tx, original, result, standing>>

\* a plausible slip: the conflict check is left out
WriteTrackUnchecked(t, d) ==
    /\ phase = "open"
    /\ ~aborted
    /\ Len(pending) < NumTracks
    /\ pending' = Append(pending, [track |-> t, data |-> d])
    /\ UNCHANGED <<files, phase, mode, next, committed, aborted, original,
                   result, standing>>

(* uft_disk_transaction_write_track; a track already staged is refused *)
WriteTrack(t, d) ==
    /\ phase = "open"
    /\ ~aborted
    /\ ~IsStaged(t)
    /\ pending' = Append(pending, [track |-> t, data |-> d])
    /\ UNCHANGED <<files, phase, mode, next, committed, aborted, original,
                   result, standing>>

(* uft_disk_transaction_commit, from its first line to the loop *)
CommitStart ==
    /\ phase = "open"
    /\ ~aborted
    /\ Careful => result = "none"
    /\ phase' = "committing"
    /\ next' = Len(pending)
    /\ result' = "none"
    /\ standing' = IF mode = "BACKUP_FILE" THEN "backup" ELSE "image"
    /\ UNCHANGED <<files, mode, pending, committed, aborted, original>>

(* plugin->write_track returned UFT_OK *)
CommitTrack ==
    /\ phase = "committing"
    /\ next > 0
    /\ image' = [image EXCEPT ![pending[next].track] = pending[next].data]
    /\ next' = next - 1
    /\ UNCHANGED <<backup, phase, mode, pending, committed, aborted, original,
                   result, standing>>

\* a plausible slip: the failing track is not told from the one before it
CommitFailsOneShort ==
    /\ phase = "committing"
    /\ next > 0
    /\ image' \in {image, [image EXCEPT ![pending[next].track] = Torn]}
    /\ committed' = IF next = Len(pending) THEN 0 ELSE Len(pending) - next - 1
    /\ phase' = "open"
    /\ result' = "failed"
    /\ UNCHANGED <<backup, mode, pending, next, aborted, original, standing>>

(* plugin->write_track returned an error: before its first sector, or      *)
(* part way through the track                                              *)
CommitFails ==
    /\ phase = "committing"
    /\ next > 0
    /\ image' \in {image, [image EXCEPT ![pending[next].track] = Torn]}
    /\ committed' = Len(pending) - next
    /\ phase' = "open"
    /\ result' = "failed"
    /\ UNCHANGED <<backup, mode, pending, next, aborted, original, standing>>

CommitDone ==
    /\ phase = "committing"
    /\ next = 0
    /\ committed' = Len(pending)
    /\ phase' = "open"
    /\ result' = "ok"
    /\ standing' = "image"
    /\ UNCHANGED <<files, mode, pending, next, aborted, original>>

-----------------------------------------------------------------------------
RestoreNeeded == mode = "BACKUP_FILE" /\ committed > 0

(* uft_disk_transaction_rollback with nothing to restore, or whose copy    *)
(* cannot open one of the files: the result of the copy is dropped         *)
RollbackDiscards ==
    /\ phase = "open"
    /\ aborted' = TRUE
    /\ UNCHANGED <<files, phase, mode, pending, next, committed, original,
                   result, standing>>

(* rollback that restores: opening the image for writing empties it ...    *)
RollbackRestores ==
    /\ phase = "open"
    /\ RestoreNeeded
    /\ aborted' = TRUE
    /\ phase' = "restoring"
    /\ image' = Cut(image, 0)
    /\ standing' = "backup"
    /\ UNCHANGED <<backup, mode, pending, next, committed, original, result>>

(* ... then the copy runs to its end, or stops early, and neither is told  *)
(* to the caller                                                           *)
RestoreEnds ==
    /\ phase = "restoring"
    /\ image' \in {backup} \cup CopyFails(backup)
    /\ phase' = "open"
    /\ UNCHANGED <<backup, mode, pending, next, committed, aborted, original,
                   result, standing>>

\* a plausible slip: the backup is removed after a rollback too
FreeRemovesAlways ==
    /\ phase = "open"
    /\ Careful => result # "failed" \/ aborted
    /\ backup' = IF mode = "BACKUP_FILE" THEN NoFile ELSE backup
    /\ phase' = "idle"
    /\ pending' = <<>>
    /\ next' = 0
    /\ committed' = 0
    /\ UNCHANGED <<image, mode, aborted, original, result, standing>>

(* uft_disk_transaction_free; remove() may fail, unnoticed *)
Free ==
    /\ phase = "open"
    /\ Careful => result # "failed" \/ aborted
    /\ \/ mode = "BACKUP_FILE" /\ ~aborted /\ backup' = NoFile
       \/ UNCHANGED backup
    /\ phase' = "idle"
    /\ pending' = <<>>
    /\ next' = 0
    /\ committed' = 0
    /\ UNCHANGED <<image, mode, aborted, original, result, standing>>

-----------------------------------------------------------------------------
(* The process ends between two steps; no code looks for a .uftbak later. *)
Crash ==
    /\ phase # "idle"
    /\ phase' = "idle"
    /\ pending' = <<>>
    /\ next' = 0
    /\ committed' = 0
    /\ UNCHANGED <<files, mode, aborted, original, result, standing>>

(* "so the user can inspect or manually restore" *)
ManualRestore ==
    /\ phase = "idle"
    /\ backup # NoFile
    /\ Careful => standing = "backup"
    /\ image' = backup
    /\ standing' = "image"
    /\ UNCHANGED <<backup, tx, original, result>>

Next ==
    \/ \E m \in {"BACKUP_FILE", "IN_MEMORY"} : Begin(m)
    \/ BeginFails
    \/ \E t \in Tracks, d \in Data : WriteTrack(t, d)
    \/ CommitStart \/ CommitTrack \/ CommitFails \/ CommitDone
    \/ RollbackDiscards \/ RollbackRestores \/ RestoreEnds
    \/ Free \/ Crash \/ ManualRestore

Spec == Init /\ [][Next]_vars

-----------------------------------------------------------------------------
(* Types of every variable of the transaction and of both files. *)
TypeOK ==
    /\ image \in [Tracks -> Content]
    /\ backup \in [Tracks -> Content] \cup {NoFile}
    /\ phase \in {"idle", "open", "committing", "restoring"}
    /\ mode \in {"BACKUP_FILE", "IN_MEMORY"}
    /\ pending \in Seq(Write)
    /\ next \in 0..Len(pending)
    /\ committed \in 0..Len(pending)
    /\ aborted \in BOOLEAN
    /\ original \in [Tracks -> Content]
    /\ result \in {"none", "ok", "failed"}
    /\ standing \in {"image", "backup"}

(* When commit has returned UFT_OK the image is, track for track, what it  *)
(* was when the transaction began with the newest committed write of each  *)
(* track on top, whatever failed attempts came before and whatever has     *)
(* been staged since.  (The list is written newest first, so this rests on *)
(* write_track refusing a second write to a track.)                        *)
CommitIsExact ==
    phase = "open" /\ result = "ok" /\ ~aborted =>
        \A t \in Tracks :
            LET writes == {i \in 1..committed : pending[i].track = t}
            IN  /\ writes = {} => image[t] = original[t]
                /\ \A i \in writes :
                      (\A k \in writes : k <= i) => image[t] = pending[i].data

(* A track nobody staged is never changed by the transaction, unless a     *)
(* restore cut short has lost it.                                          *)
OnlyStagedTracksChange ==
    phase # "idle" =>
        \A t \in Tracks : IsStaged(t) \/ image[t] \in {original[t], Lost}

(* Where rollback sees nothing to restore after the one commit a careful   *)
(* caller makes, at most the track that failed differs from what was there *)
(* before: the committed count never hides a track that was written.       *)
SkippedRestoreHidesNoWrite ==
    phase = "open" /\ result = "failed" /\ mode = "BACKUP_FILE" /\ committed = 0
        => \A t \in Tracks : image[t] \in {original[t], Torn}

(* From the start of a commit until it succeeds, through failures,         *)
(* rollback, free, a crash at any point and a restart, .uftbak holds the   *)
(* whole image as it was when the transaction began.                       *)
OneGoodCopy == standing = "backup" => backup = original

(* The writes of a list of pending writes, by track. *)
TracksOf(list) == {list[i].track : i \in 1..Len(list)}

WritesOf(list) ==
    [t \in TracksOf(list) |->
        list[CHOOSE i \in 1..Len(list) : list[i].track = t].data]

(* What can be read back: the image, or the backup while the image is      *)
(* being rewritten or has been left unfinished.                            *)
Recoverable == IF standing = "image" THEN image ELSE backup

Atomic == INSTANCE AtomicImage WITH
    content <- Recoverable, before <- original, staged <- WritesOf(pending)

(* For a careful caller in BACKUP_FILE mode what can be read back changes  *)
(* as AtomicImage says: all staged tracks at once, or none, through        *)
(* failing writes, short restores and crashes.                             *)
ImplementsAtomicImage == Atomic!Spec
=============================================================================

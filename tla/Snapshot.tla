------------------------------ MODULE Snapshot ------------------------------
(***************************************************************************)
(* src/core/uft_snapshot.c: copies of an image kept in a directory, each   *)
(* with the SHA-256 of what it was made from, to be checked and restored   *)
(* later.                                                                  *)
(*                                                                         *)
(* Several users work at once on one directory with one prefix, so a path  *)
(* is its millisecond timestamp.  Each file operation is a step.  A hash   *)
(* is the contents it was computed from; a file that holds anything but a  *)
(* whole image holds Part.                                                 *)
(***************************************************************************)
EXTENDS Naturals

CONSTANTS
    Users,      \* threads or processes that use the directory
    Data,       \* contents of images, all of one size
    Empty,      \* the contents of a file of no bytes
    Part,       \* neither Empty nor an image
    NoFile,     \* nothing at this path
    MaxTime,    \* bound: the last millisecond
    OwnTimes,   \* no two creations fall into one millisecond
    LateErrors, \* a write may fail when the file is closed, and not before
    BadMedia    \* a write to the directory may go wrong and report success

ASSUME SnapshotAssumption ==
    /\ Empty \notin Data /\ Part \notin Data \cup {Empty}
    /\ NoFile \notin Data \cup {Empty, Part}
    /\ MaxTime \in Nat \ {0}
    /\ OwnTimes \in BOOLEAN
    /\ LateErrors \in BOOLEAN /\ BadMedia \in BOOLEAN

VARIABLES
    clock,   \* now_ms()
    files,   \* the snapshot directory
    step,    \* where each user's call is
    snap,    \* each user's uft_snapshot_t
    opts,    \* uft_snapshot_create was given options, not NULL
    buf,     \* restore_to_file: what slurp_file returned
    target,  \* the file each user saves and restores
    ret,     \* (history) the user's last call, and how it returned
    held     \* (history) its create succeeded and it has not been deleted

hist == <<ret, held>>
sv   == <<clock, files, step, snap, opts, buf, target, ret, held>>

Times    == 1..MaxTime
Contents == Data \cup {Empty, Part}
NoSnap   == [at |-> 0, data |-> Empty, sized |-> FALSE]

SnapInit ==
    /\ clock = 1
    /\ files = [t \in Times |-> NoFile]
    /\ step = [u \in Users |-> "idle"]
    /\ snap = [u \in Users |-> NoSnap]
    /\ opts = [u \in Users |-> TRUE]
    /\ buf = [u \in Users |-> Empty]
    /\ target \in [Users -> Data]
    /\ ret = [u \in Users |-> <<"none", TRUE>>]
    /\ held = [u \in Users |-> FALSE]

Returns(u, op, ok) ==
    /\ step' = [step EXCEPT ![u] = "idle"]
    /\ ret' = [ret EXCEPT ![u] = <<op, ok>>]
    /\ held' = CASE op = "create" -> [held EXCEPT ![u] = ok]
                 [] op = "delete" -> [held EXCEPT ![u] = @ /\ ~ok]
                 [] OTHER         -> held

(* uft_snapshot_verify: size and hash of the file are those of the handle. *)
(* size_bytes is 0 until the file has been written and closed.  A call     *)
(* that verifies fails also when it cannot read a whole file.              *)
Verified(u) ==
    /\ snap[u].at # 0
    /\ snap[u].sized \/ snap[u].data = Empty
    /\ files[snap[u].at] = snap[u].data

-----------------------------------------------------------------------------
Tick ==
    /\ clock < MaxTime
    /\ clock' = clock + 1
    /\ UNCHANGED <<files, step, snap, opts, buf, target, hist>>

\* a plausible slip: the name is made of seconds
OpenForWriteCoarse(u, d) ==
    /\ snap' = [snap EXCEPT ![u] = [at |-> 1, data |-> d, sized |-> FALSE]]
    /\ \/ /\ files' = [files EXCEPT ![1] = IF d = Empty THEN Empty ELSE Part]
          /\ step' = [step EXCEPT ![u] = "writing"]
          /\ held' = [held EXCEPT ![u] = FALSE]
          /\ ret' = [ret EXCEPT ![u] = <<"none", TRUE>>]
       \/ Returns(u, "create", FALSE) /\ UNCHANGED files

(* uft_snapshot_create of contents d: the name is made, the hash computed, *)
(* and the file opened for writing, which empties it, or not opened        *)
OpenForWrite(u, d) ==
    /\ OwnTimes => files[clock] = NoFile /\ \A v \in Users : snap[v].at # clock
    /\ snap' = [snap EXCEPT ![u] = [at |-> clock, data |-> d, sized |-> FALSE]]
    /\ \/ /\ files' = [files EXCEPT ![clock] = IF d = Empty THEN Empty ELSE Part]
          /\ step' = [step EXCEPT ![u] = "writing"]
          /\ held' = [held EXCEPT ![u] = FALSE]
          /\ ret' = [ret EXCEPT ![u] = <<"none", TRUE>>]
       \/ Returns(u, "create", FALSE) /\ UNCHANGED files

(* uft_snapshot_create from memory, with options or with NULL *)
Create(u, d, o) ==
    /\ step[u] = "idle"
    /\ OpenForWrite(u, d)
    /\ opts' = [opts EXCEPT ![u] = o]
    /\ UNCHANGED <<clock, buf, target>>

(* uft_snapshot_create_from_file, with options or NULL; a source that      *)
(* cannot be read to its end is taken for an empty one.  (Part stands for  *)
(* many contents, so nobody saves a file that holds it.)                   *)
CreateFromFile(u, o) ==
    /\ step[u] = "idle"
    /\ target[u] # Part
    /\ \/ OpenForWrite(u, target[u])
       \/ OpenForWrite(u, Empty)
    /\ opts' = [opts EXCEPT ![u] = o]
    /\ UNCHANGED <<clock, buf, target>>

(* fwrite or fclose fails, and the file stays as it is *)
WriteFails(u) ==
    /\ step[u] = "writing"
    /\ Returns(u, "create", FALSE)
    /\ UNCHANGED <<clock, files, snap, opts, buf, target>>

\* a plausible slip: what was written is not checked
WriteDoneUnchecked(u) ==
    /\ step[u] = "writing"
    /\ \E d \in {snap[u].data} \cup (IF BadMedia THEN {Part} ELSE {}) :
          files' = [files EXCEPT ![snap[u].at] = d]
    /\ snap' = [snap EXCEPT ![u].sized = TRUE]
    /\ Returns(u, "create", TRUE)
    /\ UNCHANGED <<clock, opts, buf, target>>

(* the file is written and closed: check it, if asked to *)
WriteDone(u) ==
    /\ step[u] = "writing"
    /\ \E d \in {snap[u].data} \cup (IF BadMedia THEN {Part} ELSE {}) :
          files' = [files EXCEPT ![snap[u].at] = d]
    /\ snap' = [snap EXCEPT ![u].sized = TRUE]
    /\ IF opts[u]
       THEN step' = [step EXCEPT ![u] = "checking"] /\ UNCHANGED hist
       ELSE Returns(u, "create", TRUE)
    /\ UNCHANGED <<clock, opts, buf, target>>

CreateChecked(u) ==
    /\ step[u] = "checking"
    /\ \E ok \in {Verified(u), FALSE} : Returns(u, "create", ok)
    /\ UNCHANGED <<clock, files, snap, opts, buf, target>>

-----------------------------------------------------------------------------
\* a plausible slip: the snapshot is not verified first
RestoreUnverified(u, dest) ==
    /\ step[u] = "idle"
    /\ snap[u].at # 0
    /\ step' = [step EXCEPT ![u] = dest]
    /\ UNCHANGED <<clock, files, snap, opts, buf, target, hist>>

(* uft_snapshot_restore_to_file, or uft_snapshot_restore to a buffer:      *)
(* verify ...                                                              *)
Restore(u, dest) ==
    /\ step[u] = "idle"
    /\ snap[u].at # 0
    /\ \/ Verified(u) /\ step' = [step EXCEPT ![u] = dest] /\ UNCHANGED hist
       \/ Returns(u, "restore", FALSE)
    /\ UNCHANGED <<clock, files, snap, opts, buf, target>>

(* ... read size_bytes of the file again, straight into the buffer, which  *)
(* a failing read leaves half filled; only the length read is checked ...  *)
RestoreToBuffer(u) ==
    /\ step[u] = "buffer"
    /\ LET f == files[snap[u].at] IN
          \/ /\ f # NoFile
             /\ f = Empty => snap[u].data = Empty
             /\ target' = [target EXCEPT ![u] = IF snap[u].data = Empty THEN Empty ELSE f]
             /\ Returns(u, "restore", TRUE)
          \/ /\ \E d \in {target[u], Part} : target' = [target EXCEPT ![u] = d]
             /\ Returns(u, "restore", FALSE)
    /\ UNCHANGED <<clock, files, snap, opts, buf>>

(* ... or all of it into a buffer of its own, which an empty snapshot does *)
(* not need ...                                                            *)
RestoreRead(u) ==
    /\ step[u] = "file"
    /\ \/ /\ \/ files[snap[u].at] # NoFile /\ buf' = [buf EXCEPT ![u] = files[snap[u].at]]
             \/ snap[u].data = Empty /\ buf' = [buf EXCEPT ![u] = Empty]
          /\ step' = [step EXCEPT ![u] = "opening"]
          /\ UNCHANGED hist
       \/ Returns(u, "restore", FALSE) /\ UNCHANGED buf
    /\ UNCHANGED <<clock, files, snap, opts, target>>

(* ... then open the destination, which empties it, or fail to ... *)
RestoreOpen(u) ==
    /\ step[u] = "opening"
    /\ \/ /\ target' = [target EXCEPT ![u] = Empty]
          /\ step' = [step EXCEPT ![u] = "restoring"]
          /\ UNCHANGED hist
       \/ Returns(u, "restore", FALSE) /\ UNCHANGED target
    /\ UNCHANGED <<clock, files, snap, opts, buf>>

(* ... and write it; the result of fclose is not looked at *)
RestoreWrite(u) ==
    /\ step[u] = "restoring"
    /\ \/ /\ target' = [target EXCEPT ![u] = buf[u]]
          /\ Returns(u, "restore", TRUE)
       \/ /\ target' = [target EXCEPT ![u] = Part]
          /\ Returns(u, "restore", FALSE)
       \/ /\ LateErrors
          /\ target' = [target EXCEPT ![u] = Part]
          /\ Returns(u, "restore", TRUE)
    /\ UNCHANGED <<clock, files, snap, opts, buf>>

(* uft_snapshot_delete; remove may fail *)
Delete(u) ==
    /\ step[u] = "idle"
    /\ snap[u].at # 0
    /\ \/ /\ files[snap[u].at] # NoFile
          /\ files' = [files EXCEPT ![snap[u].at] = NoFile]
          /\ Returns(u, "delete", TRUE)
       \/ Returns(u, "delete", FALSE) /\ UNCHANGED files
    /\ UNCHANGED <<clock, snap, opts, buf, target>>

(* the user overwrites the file, or part of it *)
Overwrite(u, d) ==
    /\ step[u] = "idle"
    /\ target' = [target EXCEPT ![u] = d]
    /\ ret' = [ret EXCEPT ![u] = <<"none", TRUE>>]
    /\ UNCHANGED <<clock, files, step, snap, opts, buf, held>>

Call(u) ==
    \/ \E o \in BOOLEAN : CreateFromFile(u, o) \/ \E d \in Data : Create(u, d, o)
    \/ WriteFails(u) \/ WriteDone(u) \/ CreateChecked(u)
    \/ \E dest \in {"file", "buffer"} : Restore(u, dest)
    \/ RestoreToBuffer(u) \/ RestoreRead(u) \/ RestoreOpen(u) \/ RestoreWrite(u)
    \/ Delete(u)

SnapNext ==
    \/ Tick
    \/ \E u \in Users : Call(u) \/ \E d \in Data \cup {Part} : Overwrite(u, d)

SnapSpec == SnapInit /\ [][SnapNext]_sv

-----------------------------------------------------------------------------
TypeOK ==
    /\ clock \in Times
    /\ files \in [Times -> Contents \cup {NoFile}]
    /\ step \in [Users -> {"idle", "writing", "checking", "file", "buffer",
                           "opening", "restoring"}]
    /\ snap \in [Users -> [at : Times \cup {0}, data : Contents, sized : BOOLEAN]]
    /\ opts \in [Users -> BOOLEAN]
    /\ buf \in [Users -> Contents]
    /\ target \in [Users -> Contents]
    /\ ret \in [Users -> {"none", "create", "restore", "delete"} \X BOOLEAN]
    /\ held \in [Users -> BOOLEAN]

(* A snapshot whose creation was asked to verify and succeeded stays whole *)
(* until its owner deletes it, whatever the other users create, restore,   *)
(* delete or fail to write in the same directory.                          *)
HeldIsWhole ==
    \A u \in Users : held[u] /\ opts[u] => Verified(u)

(* A restore that reports success has brought back what the snapshot was   *)
(* made from, also when its creation failed or was not checked.            *)
RestoreIsExact ==
    \A u \in Users : step[u] = "idle" /\ ret[u] = <<"restore", TRUE>>
                       => target[u] = snap[u].data

(* Nobody's destination is emptied unless the snapshot to restore it from  *)
(* is whole at that moment, and it stays so until the write ends.          *)
DestroyedOnlyWithSnapshot ==
    \A u \in Users : step[u] = "restoring" => Verified(u)
=============================================================================

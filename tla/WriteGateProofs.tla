--------------------------- MODULE WriteGateProofs ---------------------------
(***************************************************************************)
(* The snapshots, and the gate that makes them.                            *)
(*                                                                         *)
(* What holds of Snapshot for any number of users, images and              *)
(* milliseconds: no user's steps reach another user's file as long as no   *)
(* two creations fall into one millisecond (OwnTimes); the rest follows    *)
(* one user at a time.  Then what the gate's decision stands for, for any  *)
(* images, policies and diagnostics and whatever becomes of the snapshots, *)
(* and that the gates use the snapshot directory as any user of it does.   *)
(***************************************************************************)
EXTENDS WriteGate, TLAPS

-----------------------------------------------------------------------------
(* Snapshots.                                                              *)

(* a call at work on a snapshot has one *)
HasName == \A u \in Users : step[u] # "idle" => snap[u].at # 0

SnapTypeInv == TypeOK /\ HasName

-----------------------------------------------------------------------------
(* What a call returns has the type of the variables it sets. *)
LEMMA ReturnsType ==
    ASSUME TypeOK, NEW u \in Users, NEW ok \in BOOLEAN,
           NEW op \in {"create", "restore", "delete"}, Returns(u, op, ok)
    PROVE  /\ step' = [step EXCEPT ![u] = "idle"]
           /\ ret' \in [Users -> {"none", "create", "restore", "delete"} \X BOOLEAN]
           /\ held' \in [Users -> BOOLEAN]
BY DEF Returns, TypeOK

(* The start of a creation keeps the types. *)
LEMMA OpenType ==
    ASSUME SnapTypeInv, NEW u \in Users, NEW d \in Data \cup {Empty},
           OpenForWrite(u, d)
    PROVE  /\ files' \in [Times -> Contents \cup {NoFile}]
           /\ snap' \in [Users -> [at : Times \cup {0}, data : Contents, sized : BOOLEAN]]
           /\ step' \in {[step EXCEPT ![u] = "writing"], [step EXCEPT ![u] = "idle"]}
           /\ ret' \in [Users -> {"none", "create", "restore", "delete"} \X BOOLEAN]
           /\ held' \in [Users -> BOOLEAN]
           /\ snap'[u].at # 0
           /\ \A v \in Users \ {u} : snap'[v] = snap[v]
<1> DEFINE new == [at |-> clock, data |-> d, sized |-> FALSE]
<1>1. /\ new \in [at : Times \cup {0}, data : Contents, sized : BOOLEAN]
      /\ new.at # 0
  BY DEF SnapTypeInv, TypeOK, Times, Contents
<1>2. snap' = [snap EXCEPT ![u] = new]
  BY DEF OpenForWrite
<1> HIDE DEF new
<1>3. /\ snap' \in [Users -> [at : Times \cup {0}, data : Contents, sized : BOOLEAN]]
      /\ snap'[u].at # 0
      /\ \A v \in Users \ {u} : snap'[v] = snap[v]
  BY <1>1, <1>2 DEF SnapTypeInv, TypeOK
<1>4. CASE /\ files' = [files EXCEPT ![clock] = IF d = Empty THEN Empty ELSE Part]
           /\ step' = [step EXCEPT ![u] = "writing"]
           /\ held' = [held EXCEPT ![u] = FALSE]
           /\ ret' = [ret EXCEPT ![u] = <<"none", TRUE>>]
  BY <1>3, <1>4 DEF SnapTypeInv, TypeOK, Contents
<1>5. CASE Returns(u, "create", FALSE) /\ UNCHANGED files
  <2>1. FALSE \in BOOLEAN
    OBVIOUS
  <2> QED
    BY <1>3, <1>5, <2>1, ReturnsType DEF SnapTypeInv, TypeOK
<1> QED
  BY <1>4, <1>5 DEF OpenForWrite

LEMMA SnapInitType == SnapInit => SnapTypeInv
<1> SUFFICES ASSUME SnapInit
             PROVE  SnapTypeInv
  OBVIOUS
<1>1. clock \in Times
  BY SnapshotAssumption DEF SnapInit, Times
<1>2. NoSnap \in [at : Times \cup {0}, data : Contents, sized : BOOLEAN]
  BY DEF NoSnap, Contents
<1>3. snap \in [Users -> [at : Times \cup {0}, data : Contents, sized : BOOLEAN]]
  BY <1>2 DEF SnapInit
<1>4. /\ files \in [Times -> Contents \cup {NoFile}]
      /\ step \in [Users -> {"idle", "writing", "checking", "file", "buffer",
                             "opening", "restoring"}]
      /\ opts \in [Users -> BOOLEAN] /\ buf \in [Users -> Contents]
      /\ target \in [Users -> Contents]
      /\ ret \in [Users -> {"none", "create", "restore", "delete"} \X BOOLEAN]
      /\ held \in [Users -> BOOLEAN]
  BY DEF SnapInit, Contents
<1>5. HasName
  BY DEF SnapInit, HasName
<1> QED
  BY <1>1, <1>3, <1>4, <1>5 DEF SnapTypeInv, TypeOK

LEMMA SnapNextType == SnapTypeInv /\ [SnapNext]_sv => SnapTypeInv'
<1> SUFFICES ASSUME SnapTypeInv, [SnapNext]_sv
             PROVE  SnapTypeInv'
  OBVIOUS
<1> USE DEF SnapTypeInv, HasName
<1>1. CASE Tick
  BY <1>1, SnapshotAssumption DEF Tick, TypeOK, hist, Times
<1>2. ASSUME NEW u \in Users, NEW d \in Data \cup {Part}, Overwrite(u, d)
      PROVE  SnapTypeInv'
  BY <1>2 DEF Overwrite, TypeOK, Contents
<1>3. ASSUME NEW u \in Users, NEW d \in Data, NEW o \in BOOLEAN, Create(u, d, o)
      PROVE  SnapTypeInv'
  <2>1. OpenForWrite(u, d)
    BY <1>3 DEF Create
  <2> QED
    BY <1>3, <2>1, OpenType DEF Create, TypeOK
<1>4. ASSUME NEW u \in Users, NEW o \in BOOLEAN, CreateFromFile(u, o)
      PROVE  SnapTypeInv'
  <2>1. PICK d \in Data \cup {Empty} : OpenForWrite(u, d)
    BY <1>4 DEF CreateFromFile, TypeOK, Contents
  <2> QED
    BY <1>4, <2>1, OpenType DEF CreateFromFile, TypeOK
<1>5. ASSUME NEW u \in Users, WriteFails(u)
      PROVE  SnapTypeInv'
  BY <1>5, ReturnsType DEF WriteFails, TypeOK
<1>6. ASSUME NEW u \in Users, WriteDone(u)
      PROVE  SnapTypeInv'
  <2>1. files' \in [Times -> Contents \cup {NoFile}]
    BY <1>6 DEF WriteDone, TypeOK, Contents
  <2>2. /\ snap' \in [Users -> [at : Times \cup {0}, data : Contents, sized : BOOLEAN]]
        /\ \A v \in Users : snap'[v].at = snap[v].at
    <3>1. /\ snap[u] \in [at : Times \cup {0}, data : Contents, sized : BOOLEAN]
          /\ snap' = [snap EXCEPT ![u] = [snap[u] EXCEPT !.sized = TRUE]]
      BY <1>6 DEF WriteDone, TypeOK
    <3>2. /\ [snap[u] EXCEPT !.sized = TRUE]
               \in [at : Times \cup {0}, data : Contents, sized : BOOLEAN]
          /\ [snap[u] EXCEPT !.sized = TRUE].at = snap[u].at
      BY <3>1
    <3> QED
      BY <3>1, <3>2 DEF TypeOK
  <2>3. CASE opts[u]
    BY <1>6, <2>1, <2>2, <2>3 DEF WriteDone, TypeOK, hist
  <2>4. CASE ~opts[u]
    <3>1. Returns(u, "create", TRUE) /\ TRUE \in BOOLEAN
      BY <1>6, <2>4 DEF WriteDone
    <3>2. UNCHANGED <<clock, opts, buf, target>>
      BY <1>6 DEF WriteDone
    <3> QED
      BY <2>1, <2>2, <3>1, <3>2, ReturnsType DEF TypeOK
  <2> QED
    BY <2>3, <2>4
<1>7. ASSUME NEW u \in Users, CreateChecked(u)
      PROVE  SnapTypeInv'
  <2>1. PICK ok \in BOOLEAN : Returns(u, "create", ok)
    BY <1>7 DEF CreateChecked, Verified
  <2> QED
    BY <1>7, <2>1, ReturnsType, ZenonT(30) DEF CreateChecked, TypeOK
<1>8. ASSUME NEW u \in Users, NEW dest \in {"file", "buffer"}, Restore(u, dest)
      PROVE  SnapTypeInv'
  <2>1. CASE step' = [step EXCEPT ![u] = dest] /\ UNCHANGED hist
    BY <1>8, <2>1 DEF Restore, TypeOK, hist
  <2>2. CASE Returns(u, "restore", FALSE)
    BY <1>8, <2>2, ReturnsType DEF Restore, TypeOK
  <2> QED
    BY <1>8, <2>1, <2>2 DEF Restore
<1>9. ASSUME NEW u \in Users, RestoreToBuffer(u)
      PROVE  SnapTypeInv'
  <2>1. target' \in [Users -> Contents]
    BY <1>9 DEF RestoreToBuffer, TypeOK, Contents
  <2>2. PICK ok \in BOOLEAN : Returns(u, "restore", ok)
    BY <1>9 DEF RestoreToBuffer
  <2> QED
    BY <1>9, <2>1, <2>2, ReturnsType DEF RestoreToBuffer, TypeOK
<1>10. ASSUME NEW u \in Users, RestoreRead(u)
       PROVE  SnapTypeInv'
  <2>1. buf' \in [Users -> Contents]
    BY <1>10 DEF RestoreRead, TypeOK, Contents
  <2>2. CASE step' = [step EXCEPT ![u] = "opening"] /\ UNCHANGED hist
    BY <1>10, <2>1, <2>2 DEF RestoreRead, TypeOK, hist
  <2>3. CASE Returns(u, "restore", FALSE)
    BY <1>10, <2>1, <2>3, ReturnsType DEF RestoreRead, TypeOK
  <2> QED
    BY <1>10, <2>2, <2>3 DEF RestoreRead
<1>11. ASSUME NEW u \in Users, RestoreOpen(u)
       PROVE  SnapTypeInv'
  <2>1. target' \in [Users -> Contents]
    BY <1>11 DEF RestoreOpen, TypeOK, Contents
  <2>2. CASE step' = [step EXCEPT ![u] = "restoring"] /\ UNCHANGED hist
    BY <1>11, <2>1, <2>2 DEF RestoreOpen, TypeOK, hist
  <2>3. CASE Returns(u, "restore", FALSE)
    BY <1>11, <2>1, <2>3, ReturnsType DEF RestoreOpen, TypeOK
  <2> QED
    BY <1>11, <2>2, <2>3 DEF RestoreOpen
<1>12. ASSUME NEW u \in Users, RestoreWrite(u)
       PROVE  SnapTypeInv'
  <2>1. target' \in [Users -> Contents]
    BY <1>12 DEF RestoreWrite, TypeOK, Contents
  <2>2. PICK ok \in BOOLEAN : Returns(u, "restore", ok)
    BY <1>12 DEF RestoreWrite
  <2> QED
    BY <1>12, <2>1, <2>2, ReturnsType DEF RestoreWrite, TypeOK
<1>13. ASSUME NEW u \in Users, Delete(u)
       PROVE  SnapTypeInv'
  <2>1. files' \in [Times -> Contents \cup {NoFile}]
    BY <1>13 DEF Delete, TypeOK
  <2>2. PICK ok \in BOOLEAN : Returns(u, "delete", ok)
    BY <1>13 DEF Delete
  <2> QED
    BY <1>13, <2>1, <2>2, ReturnsType DEF Delete, TypeOK
<1>14. CASE UNCHANGED sv
  BY <1>14 DEF sv, TypeOK
<1> QED
  BY <1>1, <1>2, <1>3, <1>4, <1>5, <1>6, <1>7, <1>8, <1>9, <1>10, <1>11, <1>12,
     <1>13, <1>14 DEF SnapNext, Call

LEMMA TypeInvCorrect == SnapSpec => []SnapTypeInv
BY SnapInitType, SnapNextType, PTL DEF SnapSpec

(* Every variable keeps its type for any number of users, whatever fails   *)
(* and however their calls interleave: uft_snapshot.c never names a file   *)
(* by a time that has not come.                                            *)
THEOREM TypeCorrect == SnapSpec => []TypeOK
<1>1. SnapTypeInv => TypeOK
  BY DEF SnapTypeInv
<1> QED
  BY <1>1, TypeInvCorrect, PTL

-----------------------------------------------------------------------------
(* No two users have a snapshot of one name. *)
Distinct ==
    \A u, v \in Users : u # v /\ snap[u].at # 0 => snap[u].at # snap[v].at

Reading(u) == step[u] \in {"file", "buffer", "opening", "restoring"}

(* What each step of a user's call knows of the user's own snapshot. *)
UserInv(u) ==
    /\ snap[u].data # Part
    /\ step[u] = "writing" => ~held[u]
    /\ step[u] = "checking" => ~held[u]
    /\ Reading(u) => Verified(u)
    /\ step[u] \in {"opening", "restoring"} => buf[u] = snap[u].data
    /\ held[u] /\ opts[u] => Verified(u)
    /\ ~LateErrors /\ step[u] = "idle" /\ ret[u] = <<"restore", TRUE>>
         => target[u] = snap[u].data

SnapIInv == SnapTypeInv /\ Distinct /\ \A u \in Users : UserInv(u)

(* A user whose variables and file are left alone stays as it was. *)
LEMMA UserKept ==
    ASSUME NEW u \in Users, UserInv(u),
           step'[u] = step[u], snap'[u] = snap[u], opts'[u] = opts[u],
           buf'[u] = buf[u], target'[u] = target[u], ret'[u] = ret[u],
           held'[u] = held[u],
           snap[u].at # 0 => files'[snap[u].at] = files[snap[u].at]
    PROVE  UserInv(u)'
BY DEF UserInv, Verified, Reading

(* No other call's return is taken for that of a restore. *)
LEMMA PairsDiffer ==
    /\ <<"none", TRUE>> # <<"restore", TRUE>>
    /\ \A ok \in BOOLEAN : /\ <<"create", ok>> # <<"restore", TRUE>>
                           /\ <<"delete", ok>> # <<"restore", TRUE>>
    /\ <<"restore", FALSE>> # <<"restore", TRUE>>
OBVIOUS

LEMMA SnapInitIInv == SnapInit => SnapIInv
<1> SUFFICES ASSUME SnapInit
             PROVE  SnapIInv
  OBVIOUS
<1>1. \A u \in Users : /\ snap[u] = NoSnap /\ step[u] = "idle" /\ ~held[u]
                       /\ ret[u] = <<"none", TRUE>>
  BY DEF SnapInit
<1>2. NoSnap.at = 0 /\ NoSnap.data = Empty
  BY DEF NoSnap
<1>3. Empty # Part
  BY SnapshotAssumption
<1>4. Distinct
  BY <1>1, <1>2 DEF Distinct
<1>5. ASSUME NEW u \in Users
      PROVE  UserInv(u)
  <2>1. ret[u] # <<"restore", TRUE>>
    BY <1>1, PairsDiffer
  <2> QED
    BY <1>1, <1>2, <1>3, <2>1 DEF UserInv, Reading
<1> QED
  BY <1>4, <1>5, SnapInitType DEF SnapIInv

(* A step of v leaves the variables and the files of the others alone. *)
KeepsOthers(v) ==
    \A u \in Users \ {v} :
        /\ step'[u] = step[u] /\ snap'[u] = snap[u] /\ opts'[u] = opts[u]
        /\ buf'[u] = buf[u] /\ target'[u] = target[u] /\ ret'[u] = ret[u]
        /\ held'[u] = held[u]
        /\ snap[u].at # 0 => files'[snap[u].at] = files[snap[u].at]

(* What is left to show of a step of v, then, is about v. *)
LEMMA OnlyOneMoves ==
    ASSUME SnapIInv, NEW v \in Users, KeepsOthers(v), UserInv(v)'
    PROVE  \A u \in Users : UserInv(u)'
<1>1. ASSUME NEW u \in Users \ {v}
      PROVE  UserInv(u)'
  BY <1>1, UserKept DEF SnapIInv, KeepsOthers
<1> QED
  BY <1>1

(* A call that returns does so for its own user only. *)
LEMMA ReturnsMeans ==
    ASSUME TypeOK, NEW v \in Users, NEW op \in {"create", "restore", "delete"},
           NEW ok \in BOOLEAN, Returns(v, op, ok)
    PROVE  /\ \A u \in Users \ {v} : /\ step'[u] = step[u] /\ ret'[u] = ret[u]
                                      /\ held'[u] = held[u]
           /\ step'[v] = "idle"
           /\ ret'[v] = <<op, ok>>
           /\ op = "create" => held'[v] = ok
           /\ op = "delete" => held'[v] = (held[v] /\ ~ok)
           /\ op = "restore" => held'[v] = held[v]
BY DEF Returns, TypeOK

(* The start of a creation under OwnTimes takes a name nobody has. *)
LEMMA OpenKeeps ==
    ASSUME OwnTimes, SnapIInv, NEW v \in Users, NEW d \in Data \cup {Empty},
           step[v] = "idle", OpenForWrite(v, d),
           UNCHANGED <<buf, target>>, \A u \in Users \ {v} : opts'[u] = opts[u]
    PROVE  Distinct' /\ \A u \in Users : UserInv(u)'
<1> DEFINE new == [at |-> clock, data |-> d, sized |-> FALSE]
<1>1. new.at = clock /\ new.data = d /\ d # Part
  BY SnapshotAssumption
<1>2. snap' = [snap EXCEPT ![v] = new]
  BY DEF OpenForWrite
<1> HIDE DEF new
<1>3. snap'[v] = new /\ \A u \in Users \ {v} : snap'[u] = snap[u]
  BY <1>2 DEF SnapIInv, SnapTypeInv, TypeOK
<1>4. \A u \in Users : snap[u].at # clock
  BY DEF OpenForWrite
<1>5. Distinct'
  BY <1>1, <1>3, <1>4 DEF SnapIInv, Distinct
<1>6. CASE /\ files' = [files EXCEPT ![clock] = IF d = Empty THEN Empty ELSE Part]
           /\ step' = [step EXCEPT ![v] = "writing"]
           /\ held' = [held EXCEPT ![v] = FALSE]
           /\ ret' = [ret EXCEPT ![v] = <<"none", TRUE>>]
  <2>1. KeepsOthers(v)
    <3>1. \A at \in Times \ {clock} : files'[at] = files[at]
      BY <1>6 DEF SnapIInv, SnapTypeInv, TypeOK
    <3>2. \A u \in Users : snap[u].at # 0 => snap[u].at \in Times \ {clock}
      BY <1>4 DEF SnapIInv, SnapTypeInv, TypeOK
    <3>3. \A u \in Users \ {v} : /\ step'[u] = step[u] /\ ret'[u] = ret[u]
                                 /\ held'[u] = held[u]
      BY <1>6 DEF SnapIInv, SnapTypeInv, TypeOK
    <3> QED
      BY <1>3, <3>1, <3>2, <3>3 DEF KeepsOthers
  <2>2. step'[v] = "writing" /\ ~held'[v]
    BY <1>6 DEF SnapIInv, SnapTypeInv, TypeOK
  <2>3. UserInv(v)'
    BY <1>1, <1>3, <2>2 DEF UserInv, Reading
  <2> QED
    BY <1>5, <2>1, <2>3, OnlyOneMoves
<1>7. CASE Returns(v, "create", FALSE) /\ UNCHANGED files
  <2>1. FALSE \in BOOLEAN /\ "create" \in {"create", "restore", "delete"}
    OBVIOUS
  <2>2. /\ \A u \in Users \ {v} : /\ step'[u] = step[u] /\ ret'[u] = ret[u]
                                   /\ held'[u] = held[u]
        /\ step'[v] = "idle"
        /\ ret'[v] = <<"create", FALSE>>
        /\ held'[v] = FALSE
    BY <1>7, <2>1, ReturnsMeans DEF SnapIInv, SnapTypeInv
  <2>3. KeepsOthers(v)
    BY <1>3, <1>7, <2>2 DEF KeepsOthers
  <2>4. ret'[v] # <<"restore", TRUE>>
    BY <2>2
  <2>5. UserInv(v)'
    BY <1>1, <1>3, <2>2, <2>4 DEF UserInv, Reading
  <2> QED
    BY <1>5, <2>3, <2>5, OnlyOneMoves
<1> QED
  BY <1>6, <1>7 DEF OpenForWrite

(* A step of v that makes no name, and may write to the file of v. *)
SameNames(v) ==
    /\ \A u \in Users \ {v} : snap'[u] = snap[u]
    /\ snap'[v].at = snap[v].at
    /\ \A at \in Times : at # snap[v].at => files'[at] = files[at]

LEMMA NamesKept ==
    ASSUME SnapIInv, NEW v \in Users, SameNames(v)
    PROVE  /\ Distinct'
           /\ \A u \in Users \ {v} :
                snap[u].at # 0 => files'[snap[u].at] = files[snap[u].at]
<1>1. \A u \in Users : snap'[u].at = snap[u].at
  BY DEF SameNames
<1>2. Distinct'
  BY <1>1 DEF SnapIInv, Distinct
<1>3. ASSUME NEW u \in Users \ {v}, snap[u].at # 0
      PROVE  files'[snap[u].at] = files[snap[u].at]
  <2>1. snap[u].at \in Times /\ snap[u].at # snap[v].at
    BY <1>3 DEF SnapIInv, SnapTypeInv, TypeOK, Distinct
  <2> QED
    BY <2>1 DEF SameNames
<1> QED
  BY <1>2, <1>3

(* A step of v inside a call, or the whole of a call but create. *)
LEMMA StepKeeps ==
    ASSUME SnapIInv, NEW v \in Users, SameNames(v), UserInv(v)',
           \A u \in Users \ {v} :
              /\ step'[u] = step[u] /\ opts'[u] = opts[u] /\ buf'[u] = buf[u]
              /\ target'[u] = target[u] /\ ret'[u] = ret[u] /\ held'[u] = held[u]
    PROVE  Distinct' /\ \A u \in Users : UserInv(u)'
<1>1. KeepsOthers(v)
  BY NamesKept DEF KeepsOthers, SameNames
<1> QED
  BY <1>1, NamesKept, OnlyOneMoves

(* A step with which a call of v returns. *)
LEMMA ReturnKeeps ==
    ASSUME SnapIInv, NEW v \in Users, SameNames(v),
           NEW op \in {"create", "restore", "delete"}, NEW ok \in BOOLEAN,
           Returns(v, op, ok), UNCHANGED <<opts, buf>>,
           \A u \in Users \ {v} : target'[u] = target[u],
           snap'[v].data = snap[v].data,
           held'[v] /\ opts[v] => Verified(v)',
           ~LateErrors /\ op = "restore" /\ ok => target'[v] = snap[v].data
    PROVE  Distinct' /\ \A u \in Users : UserInv(u)'
<1>1. /\ \A u \in Users \ {v} : /\ step'[u] = step[u] /\ ret'[u] = ret[u]
                                 /\ held'[u] = held[u]
      /\ step'[v] = "idle"
      /\ ret'[v] = <<op, ok>>
  BY ReturnsMeans DEF SnapIInv, SnapTypeInv
<1>2. ret'[v] = <<"restore", TRUE>> => op = "restore" /\ ok
  BY <1>1, PairsDiffer
<1>3. UserInv(v)'
  BY <1>1, <1>2 DEF SnapIInv, UserInv, Reading
<1> QED
  BY <1>1, <1>3, StepKeeps

LEMMA SnapNextIInv ==
    ASSUME OwnTimes
    PROVE  SnapIInv /\ [SnapNext]_sv => SnapIInv'
<1> SUFFICES ASSUME SnapIInv, [SnapNext]_sv
             PROVE  Distinct' /\ \A u \in Users : UserInv(u)'
  BY SnapNextType DEF SnapIInv
<1>0. /\ "create" \in {"create", "restore", "delete"} /\ TRUE \in BOOLEAN
      /\ "restore" \in {"create", "restore", "delete"} /\ FALSE \in BOOLEAN
      /\ "delete" \in {"create", "restore", "delete"}
  OBVIOUS
<1>1. CASE Tick \/ UNCHANGED sv
  <2>1. UNCHANGED <<files, step, snap, opts, buf, target, ret, held>>
    BY <1>1 DEF Tick, sv, hist
  <2>2. Distinct'
    BY <2>1 DEF SnapIInv, Distinct
  <2>3. ASSUME NEW u \in Users
        PROVE  UserInv(u)'
    BY <2>1, UserKept DEF SnapIInv
  <2> QED
    BY <2>2, <2>3
<1>2. ASSUME NEW v \in Users, NEW d \in Data \cup {Part}, Overwrite(v, d)
      PROVE  Distinct' /\ \A u \in Users : UserInv(u)'
  <2>1. ret'[v] = <<"none", TRUE>>
    BY <1>2 DEF Overwrite, SnapIInv, SnapTypeInv, TypeOK
  <2>2. ret'[v] # <<"restore", TRUE>>
    BY <2>1, PairsDiffer
  <2>3. UserInv(v)'
    BY <1>2, <2>2 DEF Overwrite, SnapIInv, UserInv, Reading, Verified
  <2>4. SameNames(v)
    BY <1>2 DEF Overwrite, SameNames
  <2> QED
    BY <1>2, <2>3, <2>4, StepKeeps DEF Overwrite, SnapIInv, SnapTypeInv, TypeOK
<1>3. ASSUME NEW v \in Users, NEW d \in Data, NEW o \in BOOLEAN, Create(v, d, o)
      PROVE  Distinct' /\ \A u \in Users : UserInv(u)'
  BY <1>3, OpenKeeps DEF Create, SnapIInv, SnapTypeInv, TypeOK
<1>4. ASSUME NEW v \in Users, NEW o \in BOOLEAN, CreateFromFile(v, o)
      PROVE  Distinct' /\ \A u \in Users : UserInv(u)'
  <2>1. PICK d \in Data \cup {Empty} : OpenForWrite(v, d)
    BY <1>4 DEF CreateFromFile, SnapIInv, SnapTypeInv, TypeOK, Contents
  <2> QED
    BY <1>4, <2>1, OpenKeeps DEF CreateFromFile, SnapIInv, SnapTypeInv, TypeOK
<1>5. ASSUME NEW v \in Users, WriteFails(v)
      PROVE  Distinct' /\ \A u \in Users : UserInv(u)'
  <2>1. Returns(v, "create", FALSE) /\ UNCHANGED <<files, snap, opts, buf, target>>
    BY <1>5 DEF WriteFails
  <2>2. ~held'[v]
    BY <1>0, <2>1, ReturnsMeans DEF SnapIInv, SnapTypeInv
  <2>3. SameNames(v)
    BY <2>1 DEF SameNames
  <2> QED
    BY <1>0, <2>1, <2>2, <2>3, ReturnKeeps
<1>6. ASSUME NEW v \in Users, WriteDone(v)
      PROVE  Distinct' /\ \A u \in Users : UserInv(u)'
  <2>1. /\ UNCHANGED <<opts, buf, target>>
        /\ step[v] = "writing" /\ ~held[v]
    BY <1>6 DEF WriteDone, SnapIInv, UserInv
  <2>2. /\ snap'[v].at = snap[v].at /\ snap'[v].data = snap[v].data
        /\ \A u \in Users \ {v} : snap'[u] = snap[u]
    BY <1>6 DEF WriteDone, SnapIInv, SnapTypeInv, TypeOK
  <2>3. \A at \in Times : at # snap[v].at => files'[at] = files[at]
    BY <1>6 DEF WriteDone, SnapIInv, SnapTypeInv, TypeOK
  <2>4. SameNames(v)
    BY <2>2, <2>3 DEF SameNames
  <2>5. CASE opts[v]
    <3>1. step' = [step EXCEPT ![v] = "checking"] /\ UNCHANGED <<ret, held>>
      BY <1>6, <2>5 DEF WriteDone, hist
    <3>2. step'[v] = "checking" /\ \A u \in Users \ {v} : step'[u] = step[u]
      BY <3>1 DEF SnapIInv, SnapTypeInv, TypeOK
    <3>3. UserInv(v)'
      BY <2>1, <2>2, <3>1, <3>2 DEF SnapIInv, UserInv, Reading
    <3> QED
      BY <2>1, <2>4, <3>1, <3>2, <3>3, StepKeeps
  <2>6. CASE ~opts[v]
    <3>1. Returns(v, "create", TRUE)
      BY <1>6, <2>6 DEF WriteDone
    <3> QED
      BY <1>0, <2>1, <2>2, <2>4, <2>6, <3>1, ReturnKeeps
  <2> QED
    BY <2>5, <2>6
<1>7. ASSUME NEW v \in Users, CreateChecked(v)
      PROVE  Distinct' /\ \A u \in Users : UserInv(u)'
  <2>1. PICK ok \in BOOLEAN : Returns(v, "create", ok) /\ (ok => Verified(v))
    BY <1>7 DEF CreateChecked, Verified
  <2>5. UNCHANGED <<files, snap, opts, buf, target>>
    BY <1>7 DEF CreateChecked
  <2>2. held'[v] => Verified(v)
    BY <1>0, <2>1, ReturnsMeans DEF SnapIInv, SnapTypeInv
  <2>3. Verified(v)' = Verified(v)
    BY <2>5 DEF Verified
  <2>4. SameNames(v)
    BY <2>5 DEF SameNames
  <2> QED
    BY <1>0, <2>1, <2>2, <2>3, <2>4, <2>5, ReturnKeeps
<1>8. ASSUME NEW v \in Users, NEW dest \in {"file", "buffer"}, Restore(v, dest)
      PROVE  Distinct' /\ \A u \in Users : UserInv(u)'
  <2>1. UNCHANGED <<files, snap, opts, buf, target>> /\ step[v] = "idle"
    BY <1>8 DEF Restore
  <2>2. SameNames(v) /\ Verified(v)' = Verified(v)
    BY <2>1 DEF SameNames, Verified
  <2>3. CASE Verified(v) /\ step' = [step EXCEPT ![v] = dest] /\ UNCHANGED hist
    <3>1. step' = [step EXCEPT ![v] = dest] /\ UNCHANGED <<ret, held>>
      BY <2>3 DEF hist
    <3>2. /\ step'[v] \in {"file", "buffer"}
          /\ \A u \in Users \ {v} : step'[u] = step[u]
      BY <3>1 DEF SnapIInv, SnapTypeInv, TypeOK
    <3>3. UserInv(v)'
      BY <2>1, <2>2, <2>3, <3>1, <3>2 DEF SnapIInv, UserInv, Reading
    <3> QED
      BY <2>1, <2>2, <3>1, <3>2, <3>3, StepKeeps
  <2>4. CASE Returns(v, "restore", FALSE)
    <3>2. held'[v] = held[v]
      BY <1>0, <2>4, ReturnsMeans DEF SnapIInv, SnapTypeInv
    <3>3. held'[v] /\ opts[v] => Verified(v)'
      BY <2>2, <3>2 DEF SnapIInv, UserInv
    <3> QED
      BY <1>0, <2>1, <2>2, <2>4, <3>3, ReturnKeeps
  <2> QED
    BY <1>8, <2>3, <2>4 DEF Restore
<1>9. ASSUME NEW v \in Users, RestoreToBuffer(v)
      PROVE  Distinct' /\ \A u \in Users : UserInv(u)'
  <2>1. UNCHANGED <<files, snap, opts, buf>> /\ step[v] = "buffer"
    BY <1>9 DEF RestoreToBuffer
  <2>2. SameNames(v) /\ Verified(v)' = Verified(v)
    BY <2>1 DEF SameNames, Verified
  <2>3. files[snap[v].at] = snap[v].data
    BY <2>1 DEF SnapIInv, UserInv, Reading, Verified
  <2>4. PICK ok \in BOOLEAN :
            /\ Returns(v, "restore", ok)
            /\ ok => target' = [target EXCEPT ![v] = snap[v].data]
            /\ \A u \in Users \ {v} : target'[u] = target[u]
    <3>1. CASE /\ target' = [target EXCEPT ![v] = IF snap[v].data = Empty THEN Empty
                                                 ELSE files[snap[v].at]]
               /\ Returns(v, "restore", TRUE)
      BY <2>3, <3>1 DEF SnapIInv, SnapTypeInv, TypeOK
    <3>2. CASE /\ \E d \in {target[v], Part} : target' = [target EXCEPT ![v] = d]
               /\ Returns(v, "restore", FALSE)
      BY <3>2 DEF SnapIInv, SnapTypeInv, TypeOK
    <3> QED
      BY <1>9, <3>1, <3>2 DEF RestoreToBuffer
  <2>5. held'[v] = held[v]
    BY <1>0, <2>4, ReturnsMeans DEF SnapIInv, SnapTypeInv
  <2>6. held'[v] /\ opts[v] => Verified(v)'
    BY <2>2, <2>5 DEF SnapIInv, UserInv
  <2>7. ok => target'[v] = snap[v].data
    BY <2>4 DEF SnapIInv, SnapTypeInv, TypeOK
  <2> QED
    BY <1>0, <2>1, <2>2, <2>4, <2>6, <2>7, ReturnKeeps
<1>10. ASSUME NEW v \in Users, RestoreRead(v)
       PROVE  Distinct' /\ \A u \in Users : UserInv(u)'
  <2>1. UNCHANGED <<files, snap, opts, target>> /\ step[v] = "file"
    BY <1>10 DEF RestoreRead
  <2>2. SameNames(v) /\ Verified(v)' = Verified(v)
    BY <2>1 DEF SameNames, Verified
  <2>3. Verified(v) /\ files[snap[v].at] = snap[v].data
    BY <2>1 DEF SnapIInv, UserInv, Reading, Verified
  <2>4. CASE /\ buf' = [buf EXCEPT ![v] = snap[v].data]
             /\ step' = [step EXCEPT ![v] = "opening"]
             /\ UNCHANGED hist
    <3>1. /\ step'[v] = "opening" /\ buf'[v] = snap[v].data
          /\ \A u \in Users \ {v} : step'[u] = step[u] /\ buf'[u] = buf[u]
          /\ UNCHANGED <<ret, held>>
      BY <2>4 DEF SnapIInv, SnapTypeInv, TypeOK, hist
    <3>2. UserInv(v)'
      BY <2>1, <2>2, <2>3, <3>1 DEF SnapIInv, UserInv, Reading
    <3> QED
      BY <2>1, <2>2, <3>1, <3>2, StepKeeps
  <2>5. CASE Returns(v, "restore", FALSE) /\ UNCHANGED buf
    <3>1. held'[v] = held[v]
      BY <1>0, <2>5, ReturnsMeans DEF SnapIInv, SnapTypeInv
    <3>2. held'[v] /\ opts[v] => Verified(v)'
      BY <2>2, <3>1 DEF SnapIInv, UserInv
    <3> QED
      BY <1>0, <2>1, <2>2, <2>5, <3>2, ReturnKeeps
  <2> QED
    BY <1>10, <2>3, <2>4, <2>5 DEF RestoreRead
<1>11. ASSUME NEW v \in Users, RestoreOpen(v)
       PROVE  Distinct' /\ \A u \in Users : UserInv(u)'
  <2>1. UNCHANGED <<files, snap, opts, buf>> /\ step[v] = "opening"
    BY <1>11 DEF RestoreOpen
  <2>2. SameNames(v) /\ Verified(v)' = Verified(v)
    BY <2>1 DEF SameNames, Verified
  <2>3. CASE /\ target' = [target EXCEPT ![v] = Empty]
             /\ step' = [step EXCEPT ![v] = "restoring"]
             /\ UNCHANGED hist
    <3>1. /\ step'[v] = "restoring"
          /\ \A u \in Users \ {v} : step'[u] = step[u] /\ target'[u] = target[u]
          /\ UNCHANGED <<ret, held>>
      BY <2>3 DEF SnapIInv, SnapTypeInv, TypeOK, hist
    <3>2. UserInv(v)'
      BY <2>1, <2>2, <3>1 DEF SnapIInv, UserInv, Reading
    <3> QED
      BY <2>1, <2>2, <3>1, <3>2, StepKeeps
  <2>4. CASE Returns(v, "restore", FALSE) /\ UNCHANGED target
    <3>1. held'[v] = held[v]
      BY <1>0, <2>4, ReturnsMeans DEF SnapIInv, SnapTypeInv
    <3>2. held'[v] /\ opts[v] => Verified(v)'
      BY <2>2, <3>1 DEF SnapIInv, UserInv
    <3> QED
      BY <1>0, <2>1, <2>2, <2>4, <3>2, ReturnKeeps
  <2> QED
    BY <1>11, <2>3, <2>4 DEF RestoreOpen
<1>12. ASSUME NEW v \in Users, RestoreWrite(v)
       PROVE  Distinct' /\ \A u \in Users : UserInv(u)'
  <2>1. UNCHANGED <<files, snap, opts, buf>> /\ step[v] = "restoring"
    BY <1>12 DEF RestoreWrite
  <2>2. SameNames(v) /\ Verified(v)' = Verified(v)
    BY <2>1 DEF SameNames, Verified
  <2>3. buf[v] = snap[v].data
    BY <2>1 DEF SnapIInv, UserInv
  <2>4. PICK ok \in BOOLEAN :
            /\ Returns(v, "restore", ok)
            /\ ~LateErrors /\ ok => target' = [target EXCEPT ![v] = buf[v]]
            /\ \A u \in Users \ {v} : target'[u] = target[u]
    BY <1>12 DEF RestoreWrite, SnapIInv, SnapTypeInv, TypeOK
  <2>5. held'[v] = held[v]
    BY <1>0, <2>4, ReturnsMeans DEF SnapIInv, SnapTypeInv
  <2>6. held'[v] /\ opts[v] => Verified(v)'
    BY <2>2, <2>5 DEF SnapIInv, UserInv
  <2>7. ~LateErrors /\ ok => target'[v] = snap[v].data
    BY <2>3, <2>4 DEF SnapIInv, SnapTypeInv, TypeOK
  <2> QED
    BY <1>0, <2>1, <2>2, <2>4, <2>6, <2>7, ReturnKeeps
<1>13. ASSUME NEW v \in Users, Delete(v)
       PROVE  Distinct' /\ \A u \in Users : UserInv(u)'
  <2>1. UNCHANGED <<snap, opts, buf, target>>
    BY <1>13 DEF Delete
  <2>2. CASE /\ files' = [files EXCEPT ![snap[v].at] = NoFile]
             /\ Returns(v, "delete", TRUE)
    <3>1. SameNames(v)
      BY <2>1, <2>2 DEF SameNames, SnapIInv, SnapTypeInv, TypeOK
    <3>2. ~held'[v]
      BY <1>0, <2>2, ReturnsMeans DEF SnapIInv, SnapTypeInv
    <3> QED
      BY <1>0, <2>1, <2>2, <3>1, <3>2, ReturnKeeps
  <2>3. CASE Returns(v, "delete", FALSE) /\ UNCHANGED files
    <3>1. SameNames(v) /\ Verified(v)' = Verified(v)
      BY <2>1, <2>3 DEF SameNames, Verified
    <3>2. held'[v] = held[v]
      BY <1>0, <2>3, ReturnsMeans DEF SnapIInv, SnapTypeInv, TypeOK
    <3>3. held'[v] /\ opts[v] => Verified(v)'
      BY <3>1, <3>2 DEF SnapIInv, UserInv
    <3> QED
      BY <1>0, <2>1, <2>3, <3>1, <3>3, ReturnKeeps
  <2> QED
    BY <1>13, <2>2, <2>3 DEF Delete
<1> QED
  BY <1>1, <1>2, <1>3, <1>4, <1>5, <1>6, <1>7, <1>8, <1>9, <1>10, <1>11, <1>12,
     <1>13 DEF SnapNext, Call

(* A snapshot whose creation was asked to verify and succeeded stays whole *)
(* until it is deleted, whatever any number of users do in the directory,  *)
(* if no two of uft_snapshot_create's file names are made in one           *)
(* millisecond.                                                            *)
THEOREM SnapshotsStayWhole ==
    ASSUME OwnTimes
    PROVE  SnapSpec => []HeldIsWhole
<1>1. SnapIInv => HeldIsWhole
  BY DEF SnapIInv, UserInv, HeldIsWhole
<1> QED
  BY <1>1, SnapInitIInv, SnapNextIInv, PTL DEF SnapSpec

(* Under the same assumption, and if an error of a write is not first seen *)
(* by the fclose whose result is dropped, a restore that                   *)
(* uft_snapshot_restore or uft_snapshot_restore_to_file reports as done    *)
(* has brought back what the snapshot was made from: nothing reached the   *)
(* file between the check of its hash and the second reading of it.        *)
THEOREM RestoresAreExact ==
    ASSUME OwnTimes, ~LateErrors
    PROVE  SnapSpec => []RestoreIsExact
<1>1. SnapIInv => RestoreIsExact
  BY DEF SnapIInv, UserInv, RestoreIsExact
<1> QED
  BY <1>1, SnapInitIInv, SnapNextIInv, PTL DEF SnapSpec

(* Under OwnTimes alone the destination of a restore is empty, from        *)
(* uft_snapshot_restore_to_file's fopen to its fclose, only while a whole  *)
(* snapshot to restore it from lies in the directory.                      *)
THEOREM DestroyedOnlyWithSnapshotHolds ==
    ASSUME OwnTimes
    PROVE  SnapSpec => []DestroyedOnlyWithSnapshot
<1>1. SnapIInv => DestroyedOnlyWithSnapshot
  BY DEF SnapIInv, UserInv, Reading, DestroyedOnlyWithSnapshot
<1> QED
  BY <1>1, SnapInitIInv, SnapNextIInv, PTL DEF SnapSpec

-----------------------------------------------------------------------------
(* The gate.                                                               *)

Phases  == {"idle", "saving", "creating", "verifying", "decided", "writing"}
Results == [status : Statuses, override : BOOLEAN, passed : SUBSET Checks,
            failed : SUBSET Checks, done : BOOLEAN, overridden : BOOLEAN]

\* What the checks in front of the snapshot have to pass under policy p with
\* diagnostics g
Early(p, g) ==
    {k \in {"FORMAT", "DRIVE"} : \/ k = "FORMAT" /\ p.format
                                 \/ k = "DRIVE" /\ p.drive /\ (g # NoDiag \/ p.strict)}

\* The format of image d is good enough for policy p.
FormatFits(p, d) ==
    p.format => /\ d # Empty /\ Probe[d].known
                /\ Probe[d].confidence >= p.confidence
                /\ Probe[d].write \/ p.readonly

\* A result in front of the snapshot
Open(r, p, d, g) ==
    /\ r \in Results /\ ~r.overridden /\ ~r.done
    /\ r.failed = {} => Early(p, g) \subseteq r.passed
    /\ r.failed # {} => r.status # "OK"
    /\ r.override => r.failed # {} /\ Offered(p, d, g)
    /\ FormatFits(p, d)

\* A result that is final, or has been overridden since
Final(r, p, d, g) ==
    /\ r \in Results
    /\ r.status = "OK" /\ ~r.overridden =>
           /\ r.failed = {} /\ Early(p, g) \subseteq r.passed
           /\ p.snapshot => {"SNAPSHOT", "VERIFY"} \subseteq r.passed
    /\ r.status = "OK" \/ r.override => FormatFits(p, d)
    /\ r.override \/ r.overridden => Offered(p, d, g)

TypeInv ==
    /\ phase \in [Users -> Phases]
    /\ result \in [Users -> Results]
    /\ policy \in [Users -> Policies \cup {CHOOSE p \in Policies : TRUE}]
    /\ image \in [Users -> Data \cup {Empty}]
    /\ diag \in [Users -> Diags \cup {NoDiag}]

GateInv(u) ==
    /\ phase[u] \in {"saving", "creating", "verifying"} =>
           Open(result[u], policy[u], image[u], diag[u])
    /\ phase[u] \in {"decided", "writing"} =>
           Final(result[u], policy[u], image[u], diag[u])
    /\ phase[u] = "writing" => result[u].status = "OK"

ResultInv == \A u \in Users : GateInv(u)

IInv == TypeInv /\ ResultInv

-----------------------------------------------------------------------------
(* The checks, one by one.                                                 *)

LEMMA FreshIsResult == Fresh \in Results
BY DEF Fresh, Results, Statuses

\* A check that fails blocks ...
LEMMA BlockedResult ==
    ASSUME NEW r \in Results, NEW s \in Statuses, s # "OK", NEW k \in Checks
    PROVE  /\ Blocked(r, s, k) \in Results
           /\ Blocked(r, s, k).failed # {}
           /\ Blocked(r, s, k).status = s
           /\ Blocked(r, s, k).override = r.override
           /\ Blocked(r, s, k).overridden = r.overridden
           /\ Blocked(r, s, k).done
BY DEF Blocked, Results

\* ... or is flagged.
LEMMA FlaggedResult ==
    ASSUME NEW r \in Results, NEW s \in Statuses, s # "OK", NEW k \in Checks
    PROVE  /\ Flagged(r, s, k) \in Results
           /\ Flagged(r, s, k).failed # {}
           /\ Flagged(r, s, k).status = s
           /\ Flagged(r, s, k).override
           /\ Flagged(r, s, k).overridden = r.overridden
           /\ Flagged(r, s, k).done = r.done
BY DEF Flagged, Results

LEMMA BlockedFresh ==
    ASSUME NEW s \in Statuses, s # "OK"
    PROVE  LET b == Blocked(Fresh, s, "FORMAT") IN
           /\ b \in Results /\ b.status = s /\ b.failed # {} /\ b.done
           /\ ~b.override /\ ~b.overridden
<1>1. ~Fresh.override /\ ~Fresh.overridden
    BY DEF Fresh
<1>2. "FORMAT" \in Checks
    BY DEF Checks
<1> DEFINE b == Blocked(Fresh, s, "FORMAT")
<1>3. /\ b \in Results /\ b.status = s /\ b.failed # {} /\ b.done
      /\ b.override = Fresh.override /\ b.overridden = Fresh.overridden
    BY <1>2, FreshIsResult, BlockedResult, ZenonT(30)
<1> QED
    BY <1>1, <1>3, Zenon

\* A result after step 1, and what it says of the format
AfterFormat(r, p, d) ==
    /\ r \in Results /\ ~r.overridden
    /\ r.failed = {} => (p.format => "FORMAT" \in r.passed)
    /\ r.failed # {} => r.status # "OK"
    /\ r.override => /\ r.failed # {}
                     /\ p.format /\ p.readonly /\ d # Empty /\ ~Probe[d].write
    /\ r.done => r.failed # {} /\ ~r.override
    /\ ~r.done => FormatFits(p, d)

\* Step 1 blocks every image whose format does not fit.
LEMMA FormatCheckResult ==
    ASSUME NEW p \in Policies, NEW d \in Data \cup {Empty}
    PROVE  AfterFormat(FormatCheck(p, d), p, d)
<1>1. CASE ~p.format
    <2>1. FormatCheck(p, d) = Fresh
        BY <1>1 DEF FormatCheck
    <2>2. /\ ~Fresh.overridden /\ ~Fresh.override /\ ~Fresh.done /\ Fresh.failed = {}
        BY DEF Fresh
    <2> QED
        BY <1>1, <2>1, <2>2, FreshIsResult DEF FormatFits, AfterFormat
<1>2. CASE p.format /\ (d = Empty \/ ~Probe[d].known \/ Probe[d].confidence < p.confidence)
    <2>1. FormatCheck(p, d) = Blocked(Fresh, "PRECHECK_FAILED", "FORMAT")
        BY <1>2 DEF FormatCheck
    <2> QED
        BY <2>1, BlockedFresh DEF AfterFormat, Statuses
<1>3. CASE p.format /\ ~(d = Empty \/ ~Probe[d].known \/ Probe[d].confidence < p.confidence)
    <2>0. d # Empty /\ Probe[d].known /\ Probe[d].confidence >= p.confidence
        <3>1. p.confidence \in Nat /\ Probe[d].confidence \in Nat
            BY <1>3, WriteGateAssumption
        <3> QED
            BY <1>3, <3>1
    <2>1. CASE Probe[d].write
        <3>1. FormatCheck(p, d) = Passed(Fresh, {"FORMAT"})
            BY <1>3, <2>1 DEF FormatCheck
        <3>2. /\ Passed(Fresh, {"FORMAT"}) \in Results
              /\ ~Passed(Fresh, {"FORMAT"}).overridden
              /\ ~Passed(Fresh, {"FORMAT"}).override
              /\ ~Passed(Fresh, {"FORMAT"}).done
              /\ Passed(Fresh, {"FORMAT"}).failed = {}
              /\ Passed(Fresh, {"FORMAT"}).passed = {"FORMAT"}
            BY DEF Passed, Fresh, Results, Statuses, Checks
        <3>3. FormatFits(p, d)
            BY <2>0, <2>1 DEF FormatFits
        <3> QED
            BY <3>1, <3>2, <3>3 DEF AfterFormat
    <2>2. CASE ~Probe[d].write /\ p.readonly
        <3>1. FormatCheck(p, d) = Flagged(Fresh, "FORMAT_READONLY", "FORMAT")
            BY <1>3, <2>2 DEF FormatCheck
        <3>2. FormatFits(p, d)
            BY <2>0, <2>2 DEF FormatFits
        <3>3. ~Fresh.done /\ ~Fresh.overridden
            BY DEF Fresh
        <3>4. "FORMAT_READONLY" \in Statuses /\ "FORMAT_READONLY" # "OK" /\ "FORMAT" \in Checks
            BY DEF Statuses, Checks
        <3> DEFINE h == Flagged(Fresh, "FORMAT_READONLY", "FORMAT")
        <3>5. /\ h \in Results /\ h.failed # {} /\ h.status = "FORMAT_READONLY"
              /\ h.override /\ h.overridden = Fresh.overridden /\ h.done = Fresh.done
            BY <3>4, FlaggedResult, FreshIsResult, ZenonT(30)
        <3> HIDE DEF h
        <3> QED
            BY <1>3, <2>0, <2>2, <3>1, <3>2, <3>3, <3>5, Zenon DEF AfterFormat, h
    <2>3. CASE ~Probe[d].write /\ ~p.readonly
        <3>1. FormatCheck(p, d) = Blocked(Fresh, "FORMAT_READONLY", "FORMAT")
            BY <1>3, <2>3 DEF FormatCheck
        <3> QED
            BY <3>1, BlockedFresh DEF AfterFormat, Statuses
    <2> QED
        BY <2>1, <2>2, <2>3
<1> QED
    BY <1>1, <1>2, <1>3

\* Step 2: a result that is final by now is not OK.
LEMMA DriveCheckResult ==
    ASSUME NEW p \in Policies, NEW d \in Data \cup {Empty}, NEW g,
           NEW f, AfterFormat(f, p, d),
           NEW r, r = DriveCheck(f, p, g)
    PROVE  /\ r.done => Final(r, p, d, g) /\ r.status # "OK"
           /\ ~r.done => Open(r, p, d, g)
<1>0. f \in Results
    BY DEF AfterFormat
<1>2. CASE f.done \/ ~p.drive
    <2>1. r = f
        BY <1>2 DEF DriveCheck
    <2>2. ~p.drive /\ r.failed = {} /\ ~r.done => Early(p, g) \subseteq r.passed
        BY <2>1 DEF Early, AfterFormat
    <2> QED
        BY <1>2, <2>1, <2>2 DEF Final, Open, AfterFormat, Offered
<1>3. CASE ~f.done /\ p.drive /\ g = NoDiag
    <2>1. CASE p.strict
        <3>0. DEFINE h == Flagged(f, "NEEDS_OVERRIDE", "DRIVE")
        <3>1. r = [h EXCEPT !.done = TRUE]
            BY <1>3, <2>1 DEF DriveCheck
        <3>2. h \in Results /\ h.status = "NEEDS_OVERRIDE"
            BY <1>0, FlaggedResult DEF Statuses, Checks
        <3>3. r \in Results /\ r.status = "NEEDS_OVERRIDE" /\ r.done
            <4> HIDE DEF h
            <4> QED
                BY <3>1, <3>2 DEF Results
        <3>4. Offered(p, d, g)
            BY <1>3, <2>1 DEF Offered
        <3> QED
            BY <1>3, <2>1, <3>3, <3>4 DEF Final, AfterFormat, Offered
    <2>2. CASE ~p.strict
        <3>1. r = f
            BY <1>3, <2>2 DEF DriveCheck
        <3>2. r.failed = {} => Early(p, g) \subseteq r.passed
            BY <1>3, <2>2, <3>1 DEF Early, AfterFormat
        <3> QED
            BY <1>3, <3>1, <3>2 DEF Open, AfterFormat, Offered
    <2> QED
        BY <2>1, <2>2
<1>4. CASE ~f.done /\ p.drive /\ g # NoDiag
    <2>1. CASE "unsafe" \in g /\ p.unsafe
        <3>1. r = Flagged(f, "DRIVE_UNSAFE", "DRIVE")
            BY <1>4, <2>1 DEF DriveCheck
        <3>2. /\ r \in Results /\ r.failed # {} /\ r.status = "DRIVE_UNSAFE"
              /\ ~r.done /\ ~r.overridden
            <4>1. "DRIVE_UNSAFE" \in Statuses /\ "DRIVE_UNSAFE" # "OK" /\ "DRIVE" \in Checks
                BY DEF Statuses, Checks
            <4> DEFINE h == Flagged(f, "DRIVE_UNSAFE", "DRIVE")
            <4>2. /\ h \in Results /\ h.failed # {} /\ h.status = "DRIVE_UNSAFE"
                  /\ h.done = f.done /\ h.overridden = f.overridden
                BY <1>0, <4>1, FlaggedResult, ZenonT(30)
            <4> HIDE DEF h
            <4>3. r = h
                BY <3>1 DEF h
            <4> QED
                BY <1>4, <4>2, <4>3, Zenon DEF AfterFormat
        <3> QED
            BY <1>4, <2>1, <3>2 DEF Open, AfterFormat, Offered
    <2>2. CASE \/ "unsafe" \in g /\ ~p.unsafe
               \/ "unsafe" \notin g /\ g \cap {"protected", "nodisk"} # {}
        <3>1. r = Blocked(f, "DRIVE_UNSAFE", "DRIVE")
            BY <1>4, <2>2 DEF DriveCheck
        <3>2. /\ r \in Results /\ r.status = "DRIVE_UNSAFE" /\ r.done
              /\ r.override = f.override /\ r.overridden = f.overridden
            <4>1. "DRIVE_UNSAFE" \in Statuses /\ "DRIVE_UNSAFE" # "OK" /\ "DRIVE" \in Checks
                BY DEF Statuses, Checks
            <4> DEFINE h == Blocked(f, "DRIVE_UNSAFE", "DRIVE")
            <4>2. /\ h \in Results /\ h.status = "DRIVE_UNSAFE" /\ h.done
                  /\ h.override = f.override /\ h.overridden = f.overridden
                BY <1>0, <4>1, BlockedResult, Zenon
            <4> HIDE DEF h
            <4>3. r = h
                BY <3>1 DEF h
            <4> QED
                BY <4>2, <4>3
        <3> QED
            BY <1>4, <3>2 DEF Final, AfterFormat, Offered
    <2>3. CASE "unsafe" \notin g /\ g \cap {"protected", "nodisk"} = {}
        <3>1. r = Passed(f, {"DRIVE"})
            BY <1>4, <2>3 DEF DriveCheck
        <3>2. /\ r \in Results /\ r.passed = f.passed \cup {"DRIVE"}
              /\ r.failed = f.failed /\ r.status = f.status /\ r.override = f.override
              /\ r.done = f.done /\ r.overridden = f.overridden
            BY <1>0, <3>1 DEF Passed, Results, Checks
        <3>3. r.failed = {} => Early(p, g) \subseteq r.passed
            BY <3>2 DEF Early, AfterFormat
        <3> QED
            BY <1>4, <3>2, <3>3 DEF Open, AfterFormat, Offered
    <2> QED
        BY <2>1, <2>2, <2>3
<1> QED
    BY <1>2, <1>3, <1>4

\* The final decision on an open result
LEMMA DecideResult ==
    ASSUME NEW r, NEW p, NEW d, NEW g, Open(r, p, d, g),
           p.snapshot => {"SNAPSHOT", "VERIFY"} \subseteq r.passed
    PROVE  Final(Decide(r), p, d, g)
<1>1. /\ Decide(r).passed = r.passed /\ Decide(r).failed = r.failed
      /\ Decide(r).override = r.override /\ Decide(r).overridden = r.overridden
      /\ Decide(r).status = IF ~r.override /\ r.failed = {} THEN "OK" ELSE r.status
      /\ Decide(r) \in Results
    BY DEF Decide, Open, Results, Statuses
<1> QED
    BY <1>1 DEF Final, Open

-----------------------------------------------------------------------------
(* One user's step leaves the gates of the others alone.                   *)

OthersStay(u) ==
    \A v \in Users \ {u} :
        /\ phase'[v] = phase[v] /\ result'[v] = result[v] /\ policy'[v] = policy[v]
        /\ image'[v] = image[v] /\ diag'[v] = diag[v]

LEMMA OneGateMoves ==
    ASSUME NEW u \in Users, ResultInv, OthersStay(u), GateInv(u)'
    PROVE  ResultInv'
<1> SUFFICES ASSUME NEW v \in Users, v # u  PROVE GateInv(v)'
    BY DEF ResultInv
<1> QED
    BY DEF ResultInv, OthersStay, GateInv

\* The steps that end the checks of gate u with the result r
LEMMA Decides ==
    ASSUME NEW u \in Users, IInv, NEW r,
           phase' = [phase EXCEPT ![u] = "decided"],
           result' = [result EXCEPT ![u] = r],
           UNCHANGED <<policy, image, diag>>,
           Final(r, policy[u], image[u], diag[u])
    PROVE  IInv'
<1>1. r \in Results
    BY DEF Final
<1>2. TypeInv'
    BY <1>1 DEF IInv, TypeInv, Phases
<1>3. OthersStay(u)
    BY DEF IInv, TypeInv, OthersStay
<1>4. GateInv(u)'
    <2>1. phase'[u] = "decided" /\ result'[u] = r
        BY DEF IInv, TypeInv
    <2> QED
        BY <2>1 DEF GateInv
<1> QED
    BY <1>2, <1>3, <1>4, OneGateMoves DEF IInv

\* A failed snapshot ends the checks, and does not end them well.
LEMMA SnapshotBlocks ==
    ASSUME NEW r, NEW p, NEW d, NEW g, Open(r, p, d, g),
           NEW s \in Statuses, s # "OK", NEW k \in Checks
    PROVE  Final(Blocked(r, s, k), p, d, g)
<1> DEFINE b == Blocked(r, s, k)
<1>1. r \in Results
    BY DEF Open
<1>2. /\ b \in Results /\ b.status = s
      /\ b.override = r.override /\ b.overridden = r.overridden
    BY <1>1, BlockedResult, Zenon
<1> HIDE DEF b
<1> QED
    BY <1>2 DEF Final, Open, b

-----------------------------------------------------------------------------
(* The steps of a gate.                                                    *)

LEMMA PrecheckKeeps ==
    ASSUME IInv, NEW u \in Users, NEW p \in Policies, NEW d \in Data \cup {Empty},
           NEW g \in Diags \cup {NoDiag}, Precheck(u, p, d, g)
    PROVE  IInv'
<1> DEFINE r == DriveCheck(FormatCheck(p, d), p, g)
<1>1. /\ r.done => Final(r, p, d, g) /\ r.status # "OK"
      /\ ~r.done => Open(r, p, d, g)
    BY FormatCheckResult, DriveCheckResult, Zenon
<1>2. /\ policy' = [policy EXCEPT ![u] = p] /\ image' = [image EXCEPT ![u] = d]
      /\ diag' = [diag EXCEPT ![u] = g]
      /\ \/ /\ r.done \/ ~p.snapshot
            /\ result' = [result EXCEPT ![u] = IF r.done THEN r ELSE Decide(r)]
            /\ phase' = [phase EXCEPT ![u] = "decided"]
         \/ /\ ~r.done
            /\ result' = [result EXCEPT ![u] = r]
            /\ phase' = [phase EXCEPT ![u] = "saving"]
    BY DEF Precheck
<1> HIDE DEF r
<1>3. CASE /\ r.done \/ ~p.snapshot
           /\ result' = [result EXCEPT ![u] = IF r.done THEN r ELSE Decide(r)]
           /\ phase' = [phase EXCEPT ![u] = "decided"]
    <2> DEFINE q == IF r.done THEN r ELSE Decide(r)
    <2>1. Final(q, p, d, g)
        BY <1>1, <1>3, DecideResult
    <2>2. q \in Results
        BY <2>1 DEF Final
    <2> HIDE DEF q
    <2>3. result' = [result EXCEPT ![u] = q]
        BY <1>3 DEF q
    <2>4. TypeInv' /\ OthersStay(u)
        BY <1>2, <1>3, <2>2, <2>3 DEF IInv, TypeInv, Phases, OthersStay
    <2>5. /\ phase'[u] = "decided" /\ result'[u] = q /\ policy'[u] = p
          /\ image'[u] = d /\ diag'[u] = g
        BY <1>2, <1>3, <2>3 DEF IInv, TypeInv
    <2>6. GateInv(u)'
        BY <2>1, <2>5 DEF GateInv
    <2> QED
        BY <2>4, <2>6, OneGateMoves DEF IInv
<1>4. CASE /\ ~r.done
           /\ result' = [result EXCEPT ![u] = r]
           /\ phase' = [phase EXCEPT ![u] = "saving"]
    <2>1. Open(r, p, d, g)
        BY <1>1, <1>4
    <2>2. r \in Results
        BY <2>1 DEF Open
    <2>4. TypeInv' /\ OthersStay(u)
        BY <1>2, <1>4, <2>2 DEF IInv, TypeInv, Phases, OthersStay
    <2>5. /\ phase'[u] = "saving" /\ result'[u] = r /\ policy'[u] = p
          /\ image'[u] = d /\ diag'[u] = g
        BY <1>2, <1>4 DEF IInv, TypeInv
    <2>6. GateInv(u)'
        BY <2>1, <2>5 DEF GateInv
    <2> QED
        BY <2>4, <2>6, OneGateMoves DEF IInv
<1> QED
    BY <1>2, <1>3, <1>4

\* The steps between two phases of the snapshot
LEMMA SnapshotGoesOn ==
    ASSUME IInv, NEW u \in Users,
           \/ SnapshotStarts(u)
           \/ SnapshotReturns(u) /\ ret[u] = <<"create", TRUE>>
    PROVE  IInv'
<1>1. PICK ph \in {"creating", "verifying"} : phase' = [phase EXCEPT ![u] = ph]
    BY DEF SnapshotStarts, SnapshotReturns
<1>2. phase[u] \in {"saving", "creating"} /\ UNCHANGED <<policy, image, diag, result>>
    BY DEF SnapshotStarts, SnapshotReturns
<1>3. TypeInv' /\ OthersStay(u)
    BY <1>1, <1>2 DEF IInv, TypeInv, Phases, OthersStay
<1>4. GateInv(u)'
    BY <1>1, <1>2 DEF GateInv, IInv, TypeInv, ResultInv
<1> QED
    BY <1>3, <1>4, OneGateMoves DEF IInv

LEMMA SnapshotEnds ==
    ASSUME IInv, NEW u \in Users,
           \/ SnapshotRefused(u)
           \/ SnapshotReturns(u) /\ ret[u] # <<"create", TRUE>>
    PROVE  IInv'
<1>1. /\ phase' = [phase EXCEPT ![u] = "decided"]
      /\ result' = [result EXCEPT ![u] =
                       Blocked(result[u], "SNAPSHOT_FAILED", "SNAPSHOT")]
      /\ UNCHANGED <<policy, image, diag>>
    BY DEF SnapshotRefused, SnapshotReturns
<1>2. Open(result[u], policy[u], image[u], diag[u])
    BY DEF SnapshotRefused, SnapshotReturns, IInv, ResultInv, GateInv
<1>3. "SNAPSHOT_FAILED" \in Statuses /\ "SNAPSHOT" \in Checks
    BY DEF Statuses, Checks
<1>4. Final(Blocked(result[u], "SNAPSHOT_FAILED", "SNAPSHOT"),
            policy[u], image[u], diag[u])
    BY <1>2, <1>3, SnapshotBlocks
<1> QED
    BY <1>1, <1>4, Decides

LEMMA SnapshotVerifyKeeps ==
    ASSUME IInv, NEW u \in Users, SnapshotVerify(u)
    PROVE  IInv'
<1> DEFINE r == result[u]
           q == Passed(r, {"SNAPSHOT", "VERIFY"})
<1>1. Open(r, policy[u], image[u], diag[u])
    BY DEF SnapshotVerify, IInv, ResultInv, GateInv
<1>2. CASE result' = [result EXCEPT ![u] = Decide(q)]
    <2>1. /\ q \in Results /\ q.passed = r.passed \cup {"SNAPSHOT", "VERIFY"}
          /\ q.failed = r.failed /\ q.status = r.status /\ q.override = r.override
          /\ q.done = r.done /\ q.overridden = r.overridden
        <3>1. r \in Results
            BY <1>1 DEF Open
        <3> HIDE DEF r
        <3> QED
            BY <3>1 DEF Passed, Results, Checks
    <2> HIDE DEF q, r
    <2>2. Open(q, policy[u], image[u], diag[u])
        BY <1>1, <2>1 DEF Open
    <2>3. {"SNAPSHOT", "VERIFY"} \subseteq q.passed
        BY <2>1
    <2>4. Final(Decide(q), policy[u], image[u], diag[u])
        BY <2>2, <2>3, DecideResult
    <2> QED
        BY <1>2, <2>4, Decides DEF SnapshotVerify
<1>3. CASE result' = [result EXCEPT ![u] = Blocked(r, "VERIFY_FAILED", "VERIFY")]
    <2>1. "VERIFY_FAILED" \in Statuses /\ "VERIFY" \in Checks
        BY DEF Statuses, Checks
    <2>2. Final(Blocked(r, "VERIFY_FAILED", "VERIFY"), policy[u], image[u], diag[u])
        BY <1>1, <2>1, SnapshotBlocks
    <2> QED
        BY <1>3, <2>2, Decides DEF SnapshotVerify
<1> QED
    BY <1>2, <1>3 DEF SnapshotVerify

LEMMA ApplyOverrideKeeps ==
    ASSUME IInv, NEW u \in Users, ApplyOverride(u)
    PROVE  IInv'
<1> DEFINE q == [result[u] EXCEPT !.status = "OK", !.override = FALSE,
                                  !.overridden = TRUE]
<1>1. result[u] \in Results /\ result[u].override
    BY DEF ApplyOverride, IInv, TypeInv
<1>2. q \in Results /\ q.overridden
    BY <1>1 DEF Results, Statuses
<1>3. FormatFits(policy[u], image[u]) /\ Offered(policy[u], image[u], diag[u])
    BY <1>1 DEF ApplyOverride, IInv, ResultInv, GateInv, Final
<1>4. result' = [result EXCEPT ![u] = q]
    BY DEF ApplyOverride, IInv, TypeInv, Results
<1> HIDE DEF q
<1>5. Final(q, policy[u], image[u], diag[u])
    BY <1>2, <1>3 DEF Final
<1>6. phase' = [phase EXCEPT ![u] = "decided"]
    BY DEF ApplyOverride, IInv, TypeInv
<1>7. UNCHANGED <<policy, image, diag>>
    BY DEF ApplyOverride
<1> QED
    BY <1>4, <1>5, <1>6, <1>7, Decides

LEMMA WriteStartsKeeps ==
    ASSUME IInv, NEW u \in Users, WriteStarts(u)
    PROVE  IInv'
<1>1. TypeInv' /\ OthersStay(u)
    BY DEF WriteStarts, IInv, TypeInv, Phases, OthersStay
<1>2. GateInv(u)'
    BY DEF WriteStarts, IInv, TypeInv, ResultInv, GateInv
<1> QED
    BY <1>1, <1>2, OneGateMoves DEF IInv

LEMMA CloseKeeps ==
    ASSUME IInv, NEW u \in Users, Close(u)
    PROVE  IInv'
<1>1. TypeInv'
    BY FreshIsResult DEF Close, IInv, TypeInv, Phases
<1>2. OthersStay(u)
    BY DEF Close, IInv, TypeInv, OthersStay
<1>3. GateInv(u)'
    BY DEF Close, IInv, TypeInv, GateInv
<1> QED
    BY <1>1, <1>2, <1>3, OneGateMoves DEF IInv

LEMMA StutterKeeps ==
    ASSUME IInv, UNCHANGED gv
    PROVE  IInv'
BY DEF gv, IInv, TypeInv, ResultInv, GateInv

-----------------------------------------------------------------------------
LEMMA InitIInv == Init => IInv
<1> SUFFICES ASSUME Init  PROVE IInv
    OBVIOUS
<1>1. TypeInv
    BY FreshIsResult DEF Init, TypeInv, Phases
<1>2. ResultInv
    BY DEF Init, ResultInv, GateInv
<1> QED
    BY <1>1, <1>2 DEF IInv

LEMMA NextKeeps == IInv /\ [Next]_vars => IInv'
<1> SUFFICES ASSUME IInv, [Next]_vars  PROVE IInv'
    OBVIOUS
<1>1. CASE UNCHANGED vars \/ (Tick /\ UNCHANGED gv)
    BY <1>1, StutterKeeps DEF vars
<1>2. ASSUME NEW u \in Users, NEW p \in Policies, NEW d \in Data \cup {Empty},
             NEW g \in Diags \cup {NoDiag}, Precheck(u, p, d, g)
      PROVE  IInv'
    BY <1>2, PrecheckKeeps
<1>3. ASSUME NEW u \in Users,
             SnapshotRefused(u) \/ SnapshotStarts(u) \/ SnapshotReturns(u)
      PROVE  IInv'
    BY <1>3, SnapshotGoesOn, SnapshotEnds
<1>4. ASSUME NEW u \in Users, SnapshotStep(u)
      PROVE  IInv'
    BY <1>4, StutterKeeps DEF SnapshotStep
<1>5. ASSUME NEW u \in Users,
             SnapshotVerify(u) \/ ApplyOverride(u) \/ WriteStarts(u) \/ Close(u)
      PROVE  IInv'
    BY <1>5, SnapshotVerifyKeeps, ApplyOverrideKeeps, WriteStartsKeeps, CloseKeeps
<1> QED
    BY <1>1, <1>2, <1>3, <1>4, <1>5 DEF Next

LEMMA InvariantHolds == Spec => []IInv
<1> QED
    BY InitIInv, NextKeeps, PTL DEF Spec

-----------------------------------------------------------------------------
(* When uft_write_gate_precheck_with_diag decides OK by itself, no check   *)
(* has failed, and every check the policy enables has passed, save the     *)
(* drive check of a policy that is not strict and was given no             *)
(* diagnostics, which the code skips.                                      *)
THEOREM OkLacksOnlyTheDriveCheck == Spec => []OkLacksOnlyTheDrive
<1>1. IInv => OkLacksOnlyTheDrive
    <2> SUFFICES ASSUME IInv, NEW u \in Users, Decided(u),
                        result[u].status = "OK", ~result[u].overridden
                 PROVE  /\ result[u].failed = {}
                        /\ \A c \in Enabled(policy[u]) \ result[u].passed :
                              c = "DRIVE" /\ diag[u] = NoDiag /\ ~policy[u].strict
        BY DEF OkLacksOnlyTheDrive
    <2>1. Final(result[u], policy[u], image[u], diag[u])
        BY DEF IInv, ResultInv, GateInv, Decided
    <2>2. /\ result[u].failed = {}
          /\ Early(policy[u], diag[u]) \subseteq result[u].passed
          /\ policy[u].snapshot => {"SNAPSHOT", "VERIFY"} \subseteq result[u].passed
        BY <2>1 DEF Final
    <2>3. ASSUME NEW c \in Enabled(policy[u]) \ result[u].passed
          PROVE  c = "DRIVE" /\ diag[u] = NoDiag /\ ~policy[u].strict
        <3>1. c \notin {"SNAPSHOT", "VERIFY"}
            BY <2>2, <2>3 DEF Enabled
        <3>2. c \notin Early(policy[u], diag[u])
            BY <2>2, <2>3
        <3> QED
            BY <2>3, <3>1, <3>2 DEF Enabled, Early, Checks
    <2> QED
        BY <2>2, <2>3
<1> QED
    BY <1>1, InvariantHolds, PTL

(* uft_write_gate_apply_override does nothing but where one of the checks  *)
(* the policy leaves to the user has failed, whatever else has.            *)
THEOREM OverridesAreOffered == Spec => []OverrideIsOffered
<1>1. IInv => OverrideIsOffered
    BY DEF OverrideIsOffered, IInv, ResultInv, GateInv, Final, Decided
<1> QED
    BY <1>1, InvariantHolds, PTL

(* uft_write_gate_apply_override cannot lift a format check that failed:   *)
(* whatever is written has a format that is known, detected well enough    *)
(* and writable, or read-only under a policy that lets the user go on.     *)
THEOREM NoOverrideOfTheFormat == Spec => []FormatIsAHardStop
<1>1. IInv => FormatIsAHardStop
    <2> SUFFICES ASSUME IInv, NEW u \in Users, phase[u] = "writing"
                 PROVE  FormatFits(policy[u], image[u])
        BY DEF FormatIsAHardStop, FormatFits
    <2> QED
        BY DEF IInv, ResultInv, GateInv, Final
<1> QED
    BY <1>1, InvariantHolds, PTL

(* The one override flag lifts nothing the policy keeps to itself: some    *)
(* check it leaves to the user has failed in this call, and the format of  *)
(* what is then written is one the policy accepts.                         *)
THEOREM OverridesAreWithinPolicy == Spec => []OverridesStayInPolicy
<1> QED
    BY OverridesAreOffered, NoOverrideOfTheFormat, PTL DEF OverridesStayInPolicy

-----------------------------------------------------------------------------
(* The gate over the snapshot directory.                                   *)

LEMMA StepIsSnapshotStep == IInv /\ [Next]_vars => [SnapNext]_sv
<1> SUFFICES ASSUME IInv, Next, sv' # sv PROVE SnapNext
    BY DEF vars
<1>1. ASSUME NEW u \in Users, SnapshotStarts(u) PROVE SnapNext
    <2>1. image[u] \in Data /\ Create(u, image[u], TRUE)
        BY <1>1 DEF SnapshotStarts, IInv, TypeInv
    <2> QED
        BY <2>1 DEF SnapNext, Call
<1>2. ASSUME NEW u \in Users, SnapshotStep(u) PROVE SnapNext
    BY <1>2 DEF SnapshotStep, SnapNext, Call
<1>3. ASSUME NEW u \in Users,
             \/ \E p \in Policies, d \in Data \cup {Empty}, g \in Diags \cup {NoDiag} :
                   Precheck(u, p, d, g)
             \/ SnapshotRefused(u) \/ SnapshotReturns(u) \/ SnapshotVerify(u)
             \/ ApplyOverride(u) \/ WriteStarts(u) \/ Close(u)
      PROVE  UNCHANGED sv
    BY <1>3 DEF Precheck, SnapshotRefused, SnapshotReturns, SnapshotVerify, ApplyOverride,
       WriteStarts, Close
<1> QED
    BY <1>1, <1>2, <1>3 DEF Next, SnapNext

\* The gates do nothing in the snapshot directory but what its users may do.
THEOREM GateUsesSnapshots == Spec => SnapSpec
<1>1. Init => SnapInit
    BY DEF Init
<1> QED
    BY <1>1, StepIsSnapshotStep, InvariantHolds, PTL DEF Spec, SnapSpec

LEMMA Whole == ASSUME OwnTimes PROVE Spec => [](TypeOK /\ HeldIsWhole)
<1>1. SnapSpec => []HeldIsWhole
    BY SnapshotsStayWhole
<1> QED
    BY GateUsesSnapshots, TypeCorrect, <1>1, PTL

\* The snapshot of image d is there, and a snapshot that is there is whole.
Saved(u, d) ==
    /\ step[u] = "idle" /\ held[u] /\ opts[u] /\ snap[u].data = d

\* From its creation to the end of the write the handle of gate u is that of a
\* snapshot of its image.
SavedBy(u) ==
    /\ phase[u] # "creating" => step[u] = "idle"
    /\ phase[u] = "creating" =>
           /\ opts[u] /\ snap[u].data = image[u]
           /\ step[u] \in {"idle", "writing", "checking"}
           /\ step[u] = "idle" /\ ret[u] = <<"create", TRUE>> => held[u]
    /\ phase[u] = "verifying" => Saved(u, image[u])
    /\ /\ phase[u] \in {"decided", "writing"} /\ policy[u].snapshot
       /\ result[u].status = "OK" /\ ~result[u].overridden
       => Saved(u, image[u])

SavedInv == \A u \in Users : SavedBy(u)

\* What another gate does is not seen.
HandleKept(v) ==
    /\ step'[v] = step[v] /\ held'[v] = held[v] /\ opts'[v] = opts[v]
    /\ snap'[v] = snap[v] /\ ret'[v] = ret[v]

LEMMA SavedByKept ==
    ASSUME NEW u \in Users, OthersStay(u), SavedInv, SavedBy(u)',
           \A v \in Users \ {u} : HandleKept(v)
    PROVE  SavedInv'
<1> SUFFICES ASSUME NEW v \in Users, v # u PROVE SavedBy(v)'
    BY DEF SavedInv
<1>1. /\ phase'[v] = phase[v] /\ result'[v] = result[v] /\ policy'[v] = policy[v]
      /\ image'[v] = image[v] /\ step'[v] = step[v] /\ held'[v] = held[v]
      /\ opts'[v] = opts[v] /\ snap'[v] = snap[v] /\ ret'[v] = ret[v]
    BY DEF OthersStay, HandleKept
<1>2. SavedBy(v)
    BY DEF SavedInv
<1> QED
    BY <1>1, <1>2 DEF SavedBy, Saved

\* A step of the checks that leaves the snapshots alone and comes to an end
\* that is not OK, or has been overridden, or owes nothing to a snapshot
LEMMA EndKeepsSaved ==
    ASSUME NEW u \in Users, OthersStay(u), SavedInv, UNCHANGED sv, step[u] = "idle",
           phase'[u] \notin {"creating", "verifying"},
           \/ phase'[u] \notin {"decided", "writing"}
           \/ ~policy'[u].snapshot
           \/ result'[u].status # "OK"
           \/ result'[u].overridden
           \/ Saved(u, image'[u])
    PROVE  SavedInv'
<1>1. \A v \in Users : HandleKept(v)
    BY DEF sv, HandleKept
<1>2. UNCHANGED <<step, held, opts, snap, ret>>
    BY DEF sv
<1>3. SavedBy(u)'
    BY <1>2 DEF SavedBy, Saved
<1> QED
    BY <1>1, <1>3, SavedByKept

LEMMA PrecheckKeepsSaved ==
    ASSUME IInv, SavedInv, NEW u \in Users, NEW p \in Policies, NEW d \in Data \cup {Empty},
           NEW g \in Diags \cup {NoDiag}, Precheck(u, p, d, g)
    PROVE  SavedInv'
<1> DEFINE r == DriveCheck(FormatCheck(p, d), p, g)
<1>1. r.done => r.status # "OK"
    BY FormatCheckResult, DriveCheckResult, Zenon
<1>2. /\ policy' = [policy EXCEPT ![u] = p] /\ image' = [image EXCEPT ![u] = d]
      /\ diag' = [diag EXCEPT ![u] = g] /\ UNCHANGED sv /\ step[u] = "idle"
      /\ \/ /\ r.done \/ ~p.snapshot
            /\ result' = [result EXCEPT ![u] = IF r.done THEN r ELSE Decide(r)]
            /\ phase' = [phase EXCEPT ![u] = "decided"]
         \/ /\ result' = [result EXCEPT ![u] = r]
            /\ phase' = [phase EXCEPT ![u] = "saving"]
    BY DEF Precheck
<1> HIDE DEF r
<1>3. OthersStay(u)
    BY <1>2 DEF IInv, TypeInv, OthersStay
<1>4. phase'[u] = "saving" \/ ~policy'[u].snapshot \/ (phase'[u] = "decided" /\ result'[u].status # "OK")
    BY <1>1, <1>2 DEF IInv, TypeInv
<1>5. phase'[u] \in {"decided", "saving"}
    BY <1>2 DEF IInv, TypeInv
<1> QED
    BY <1>2, <1>3, <1>4, <1>5, EndKeepsSaved

LEMMA BlockKeepsSaved ==
    ASSUME IInv, SavedInv, NEW u \in Users, UNCHANGED sv, step[u] = "idle",
           NEW s \in Statuses, s # "OK", NEW k \in Checks,
           phase' = [phase EXCEPT ![u] = "decided"], UNCHANGED <<policy, image, diag>>,
           result' = [result EXCEPT ![u] = Blocked(result[u], s, k)]
    PROVE  SavedInv'
<1>1. result[u] \in Results
    BY DEF IInv, TypeInv
<1>2. Blocked(result[u], s, k).status = s
    BY <1>1, BlockedResult, Zenon
<1>3. OthersStay(u) /\ phase'[u] = "decided" /\ result'[u].status # "OK"
    BY <1>2 DEF IInv, TypeInv, OthersStay
<1> QED
    BY <1>3, EndKeepsSaved

\* The steps of a gate that leave the snapshots alone
LEMMA CheckKeepsSaved ==
    ASSUME IInv, SavedInv, NEW u \in Users,
           \/ SnapshotRefused(u) \/ SnapshotReturns(u) \/ SnapshotVerify(u)
           \/ ApplyOverride(u) \/ WriteStarts(u) \/ Close(u)
    PROVE  SavedInv'
<1>1. SavedBy(u) /\ UNCHANGED sv
    BY DEF SavedInv, SnapshotRefused, SnapshotReturns, SnapshotVerify, ApplyOverride,
       WriteStarts, Close
<1>2. CASE /\ phase' = [phase EXCEPT ![u] = "decided"] /\ step[u] = "idle"
           /\ result' = [result EXCEPT ![u] = Blocked(result[u], "SNAPSHOT_FAILED", "SNAPSHOT")]
           /\ UNCHANGED <<policy, image, diag>>
    <2>1. "SNAPSHOT_FAILED" \in Statuses /\ "SNAPSHOT" \in Checks
        BY DEF Statuses, Checks
    <2> QED
        BY <1>1, <1>2, <2>1, BlockKeepsSaved
<1>3. CASE SnapshotReturns(u) /\ ret[u] = <<"create", TRUE>>
    <2>1. /\ phase'[u] = "verifying" /\ phase[u] = "creating" /\ step[u] = "idle"
          /\ UNCHANGED <<sv, policy, image, diag, result>> /\ OthersStay(u)
        BY <1>3 DEF SnapshotReturns, IInv, TypeInv, OthersStay
    <2>2. Saved(u, image[u]) /\ UNCHANGED <<step, held, opts, snap, ret>>
        BY <1>1, <1>3, <2>1 DEF SavedBy, Saved, sv
    <2>3. SavedBy(u)'
        BY <2>1, <2>2 DEF SavedBy, Saved
    <2>4. \A v \in Users : HandleKept(v)
        BY <2>2 DEF HandleKept
    <2> QED
        BY <2>1, <2>3, <2>4, SavedByKept
<1>4. CASE SnapshotVerify(u)
    <2>1. phase[u] = "verifying" /\ phase'[u] = "decided" /\ image' = image /\ OthersStay(u)
        BY <1>4 DEF SnapshotVerify, IInv, TypeInv, OthersStay
    <2>2. step[u] = "idle" /\ Saved(u, image'[u])
        BY <1>1, <2>1 DEF SavedBy
    <2> QED
        BY <1>1, <2>1, <2>2, EndKeepsSaved
<1>5. CASE ApplyOverride(u)
    <2>1. phase[u] = "decided" /\ phase' = phase /\ OthersStay(u)
        BY <1>5 DEF ApplyOverride, IInv, TypeInv, OthersStay
    <2>2. result'[u].overridden
        BY <1>5 DEF ApplyOverride, IInv, TypeInv, Results
    <2> QED
        BY <1>1, <2>1, <2>2, EndKeepsSaved DEF SavedBy
<1>6. CASE WriteStarts(u)
    <2>1. /\ phase[u] = "decided" /\ phase'[u] = "writing" /\ OthersStay(u)
          /\ UNCHANGED <<policy, image, result>>
        BY <1>6 DEF WriteStarts, IInv, TypeInv, OthersStay
    <2> QED
        BY <1>1, <2>1, EndKeepsSaved DEF SavedBy
<1>7. CASE Close(u)
    <2>1. phase[u] \in {"decided", "writing"} /\ phase'[u] = "idle" /\ OthersStay(u)
        BY <1>7 DEF Close, IInv, TypeInv, OthersStay
    <2> QED
        BY <1>1, <2>1, EndKeepsSaved DEF SavedBy
<1>8. ASSUME SnapshotRefused(u) \/ (SnapshotReturns(u) /\ ret[u] # <<"create", TRUE>>)
      PROVE  SavedInv'
    BY <1>2, <1>8 DEF SnapshotRefused, SnapshotReturns
<1> QED
    BY <1>3, <1>4, <1>5, <1>6, <1>7, <1>8

\* The steps of a gate's snapshot
LEMMA SnapshotKeepsSaved ==
    ASSUME IInv, SavedInv, TypeOK, NEW u \in Users, SnapshotStarts(u) \/ SnapshotStep(u)
    PROVE  SavedInv'
<1>1. SavedBy(u)
    BY DEF SavedInv
<1>t. /\ step = [v \in Users |-> step[v]] /\ held = [v \in Users |-> held[v]]
      /\ opts = [v \in Users |-> opts[v]] /\ ret = [v \in Users |-> ret[v]]
      /\ snap = [v \in Users |-> snap[v]]
    BY DEF TypeOK
<1>f. ASSUME NEW ok \in BOOLEAN, Returns(u, "create", ok)
      PROVE  step'[u] = "idle" /\ held'[u] = ok /\ (ret'[u] = <<"create", TRUE>> => ok)
    <2>1. step'[u] = "idle" /\ ret'[u] = <<"create", ok>> /\ held'[u] = ok
        BY <1>t, <1>f DEF Returns
    <2>2. CASE ok
        BY <2>1, <2>2
    <2>3. CASE ~ok
        <3>1. <<"create", ok>>[2] = FALSE /\ <<"create", TRUE>>[2] = TRUE
            BY <2>3
        <3>2. <<"create", ok>> # <<"create", TRUE>>
            BY <3>1, Zenon
        <3> QED
            BY <2>1, <3>2
    <2> QED
        BY <2>2, <2>3
<1>2. CASE SnapshotStarts(u)
    <2>1. /\ phase'[u] = "creating" /\ UNCHANGED <<policy, image, diag, result>>
          /\ OthersStay(u)
        BY <1>2 DEF SnapshotStarts, IInv, TypeInv, OthersStay
    <2>2. /\ snap' = [snap EXCEPT ![u] = [at |-> clock, data |-> image[u], sized |-> FALSE]]
          /\ opts' = [opts EXCEPT ![u] = TRUE]
          /\ \/ /\ step' = [step EXCEPT ![u] = "writing"]
                /\ held' = [held EXCEPT ![u] = FALSE]
                /\ ret' = [ret EXCEPT ![u] = <<"none", TRUE>>]
             \/ Returns(u, "create", FALSE)
        BY <1>2 DEF SnapshotStarts, Create, OpenForWrite
    <2>3. snap'[u].data = image[u] /\ opts'[u]
        BY <1>t, <2>2
    <2>4. \/ step'[u] = "writing"
          \/ step'[u] = "idle" /\ ret'[u] # <<"create", TRUE>>
        <3>1. CASE Returns(u, "create", FALSE)
            BY <1>f, <3>1
        <3>2. CASE step' = [step EXCEPT ![u] = "writing"]
            BY <3>2 DEF TypeOK
        <3> QED
            BY <2>2, <3>1, <3>2
    <2>5. SavedBy(u)'
        BY <2>1, <2>3, <2>4 DEF SavedBy
    <2>6. \A v \in Users \ {u} : HandleKept(v)
        BY <1>t, <2>2 DEF Returns, HandleKept
    <2> QED
        BY <2>1, <2>5, <2>6, SavedByKept
<1>3. CASE SnapshotStep(u)
    <2>1. /\ phase[u] = "creating" /\ UNCHANGED <<phase, policy, image, diag, result>>
          /\ OthersStay(u)
        BY <1>3 DEF SnapshotStep, gv, IInv, TypeInv, OthersStay
    <2>2. /\ opts' = opts /\ step[u] # "idle"
          /\ snap' = snap \/ snap' = [snap EXCEPT ![u].sized = TRUE]
          /\ \/ step' = [step EXCEPT ![u] = "checking"] /\ UNCHANGED <<ret, held>>
             \/ \E ok \in BOOLEAN : Returns(u, "create", ok)
        <3>1. Verified(u) \in BOOLEAN
            BY DEF Verified
        <3>2. ASSUME WriteFails(u) \/ CreateChecked(u)
              PROVE  /\ step[u] # "idle" /\ opts' = opts /\ snap' = snap
                     /\ \E ok \in BOOLEAN : Returns(u, "create", ok)
            BY <3>1, <3>2 DEF WriteFails, CreateChecked
        <3>3. ASSUME WriteDone(u)
              PROVE  /\ step[u] # "idle" /\ opts' = opts
                     /\ snap' = [snap EXCEPT ![u].sized = TRUE]
                     /\ \/ step' = [step EXCEPT ![u] = "checking"] /\ UNCHANGED <<ret, held>>
                        \/ \E ok \in BOOLEAN : Returns(u, "create", ok)
            BY <3>3 DEF WriteDone, hist
        <3> QED
            BY <1>3, <3>2, <3>3 DEF SnapshotStep
    <2>3. /\ snap'[u].data = snap[u].data
          /\ \A v \in Users \ {u} : snap'[v] = snap[v]
        BY <2>2 DEF TypeOK
    <2>4. \/ step'[u] = "checking"
          \/ step'[u] = "idle" /\ (ret'[u] = <<"create", TRUE>> => held'[u])
        <3>1. ASSUME NEW ok \in BOOLEAN, Returns(u, "create", ok)
              PROVE  step'[u] = "idle" /\ (ret'[u] = <<"create", TRUE>> => held'[u])
            BY <1>f, <3>1
        <3>2. CASE step' = [step EXCEPT ![u] = "checking"]
            BY <3>2 DEF TypeOK
        <3> QED
            BY <2>2, <3>1, <3>2
    <2>5. SavedBy(u)'
        BY <1>1, <2>1, <2>2, <2>3, <2>4 DEF SavedBy
    <2>6. \A v \in Users \ {u} : HandleKept(v)
        BY <1>t, <2>2, <2>3 DEF Returns, HandleKept
    <2> QED
        BY <2>1, <2>5, <2>6, SavedByKept
<1> QED
    BY <1>2, <1>3

LEMMA NextKeepsSaved == IInv /\ SavedInv /\ TypeOK /\ [Next]_vars => SavedInv'
<1> SUFFICES ASSUME IInv, SavedInv, TypeOK, [Next]_vars PROVE SavedInv'
    OBVIOUS
<1>1. CASE UNCHANGED <<step, held, opts, snap, ret, gv>>
    BY <1>1 DEF SavedInv, SavedBy, Saved, gv
<1>2. CASE UNCHANGED vars \/ (Tick /\ UNCHANGED gv)
    BY <1>1, <1>2 DEF vars, sv, Tick, hist
<1>3. ASSUME Next, ~(Tick /\ UNCHANGED gv) PROVE SavedInv'
    BY <1>3, PrecheckKeepsSaved, CheckKeepsSaved, SnapshotKeepsSaved, Zenon DEF Next
<1> QED
    BY <1>2, <1>3

(* While a write that the gate allowed by itself is under way, the snapshot *)
(* made by uft_write_gate_precheck_with_diag is there and whole, whatever   *)
(* other gates do in the directory, if no two names are made in one         *)
(* millisecond.                                                             *)
THEOREM SavesLast ==
    ASSUME OwnTimes
    PROVE  Spec => []SavedWhileWriting
<1>1. Init => SavedInv
    BY DEF Init, SnapInit, SavedInv, SavedBy
<1>2. IInv /\ SavedInv /\ HeldIsWhole => SavedWhileWriting
    <2> SUFFICES ASSUME IInv, SavedInv, HeldIsWhole, NEW u \in Users, phase[u] = "writing",
                        policy[u].snapshot, ~result[u].overridden
                 PROVE  Verified(u) /\ snap[u].data = image[u]
        BY DEF SavedWhileWriting
    <2>1. result[u].status = "OK"
        BY DEF IInv, ResultInv, GateInv
    <2>2. held[u] /\ opts[u] /\ snap[u].data = image[u]
        BY <2>1 DEF SavedInv, SavedBy, Saved
    <2> QED
        BY <2>2 DEF HeldIsWhole
<1> QED
    BY Whole, InvariantHolds, NextKeepsSaved, <1>1, <1>2, PTL DEF Spec
=============================================================================

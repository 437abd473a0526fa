----------------------- MODULE DiskTransactionProofs -----------------------
(* Theorems about DiskTransaction, for any number of tracks and any data.  *)
EXTENDS DiskTransaction, TLAPS

LEMMA CutType ==
    ASSUME NEW file \in [Tracks -> Content], NEW n
    PROVE  Cut(file, n) \in [Tracks -> Content]
  BY DEF Cut, Content

(* The typing invariant is inductive once it also says that a BACKUP_FILE  *)
(* transaction has a backup, which only begin and free decide.             *)
TypeInv ==
    /\ TypeOK
    /\ phase # "idle" /\ mode = "BACKUP_FILE" => backup \in [Tracks -> Content]
    /\ phase = "restoring" => mode = "BACKUP_FILE"

LEMMA TypeInvCorrect == Spec => []TypeInv
<1> USE TransactionAssumption
<1>1. Init => TypeInv
  <2> SUFFICES ASSUME Init PROVE TypeInv
    OBVIOUS
  <2>1. image \in [Tracks -> Content]
    BY DEF Init, Content
  <2>2. pending \in Seq(Write) /\ next \in 0..Len(pending)
        /\ committed \in 0..Len(pending)
    BY DEF Init
  <2>3. backup = NoFile /\ phase = "idle" /\ mode = "IN_MEMORY" /\ aborted = FALSE
        /\ original = image /\ result = "none" /\ standing = "image"
    BY DEF Init
  <2>4. QED
    BY <2>1, <2>2, <2>3 DEF TypeOK, TypeInv
<1>2. TypeInv /\ [Next]_vars => TypeInv'
  <2> SUFFICES ASSUME TypeInv, [Next]_vars PROVE TypeInv'
    OBVIOUS
  <2> USE DEF TypeInv, TypeOK, files, tx
  <2>1. ASSUME NEW m \in {"BACKUP_FILE", "IN_MEMORY"}, Begin(m) PROVE TypeInv'
    <3>1. /\ backup' \in [Tracks -> Content] \cup {NoFile}
          /\ m = "BACKUP_FILE" => backup' \in [Tracks -> Content]
      BY <2>1, CutType DEF Begin, CopyPasses
    <3>2. pending' \in Seq(Write) /\ next' \in 0..Len(pending')
          /\ committed' \in 0..Len(pending')
      BY <2>1 DEF Begin
    <3>3. image' = image /\ phase' = "open" /\ mode' = m /\ aborted' = FALSE
          /\ original' = image /\ result' = "none" /\ standing' = "image"
      BY <2>1 DEF Begin
    <3>4. QED
      BY <3>1, <3>2, <3>3
  <2>2. CASE BeginFails
    <3>1. backup' \in [Tracks -> Content]
      BY <2>2, CutType DEF BeginFails, CopyFails
    <3>2. QED
      BY <2>2, <3>1 DEF BeginFails
  <2>3. ASSUME NEW t \in Tracks, NEW d \in Data, WriteTrack(t, d) PROVE TypeInv'
    <3>1. [track |-> t, data |-> d] \in Write
      BY DEF Write
    <3>2. pending' \in Seq(Write) /\ Len(pending') = Len(pending) + 1
      BY <2>3, <3>1 DEF WriteTrack
    <3>3. QED
      BY <2>3, <3>2 DEF WriteTrack
  <2>4. CASE CommitStart
    BY <2>4 DEF CommitStart
  <2>5. CASE CommitTrack
    <3>1. pending[next] \in Write
      BY <2>5 DEF CommitTrack
    <3>2. pending[next].data \in Content
      BY <3>1 DEF Write, Content
    <3>3. image' \in [Tracks -> Content]
      BY <2>5, <3>2 DEF CommitTrack
    <3>4. next' \in 0..Len(pending)
      BY <2>5 DEF CommitTrack
    <3>5. QED
      BY <2>5, <3>3, <3>4 DEF CommitTrack
  <2>6. CASE CommitFails
    BY <2>6 DEF CommitFails, Content
  <2>7. CASE CommitDone
    BY <2>7 DEF CommitDone
  <2>8. CASE RollbackDiscards
    BY <2>8 DEF RollbackDiscards
  <2>9. CASE RollbackRestores
    BY <2>9, CutType DEF RollbackRestores, RestoreNeeded
  <2>10. CASE RestoreEnds
    BY <2>10, CutType DEF RestoreEnds, CopyFails
  <2>11. CASE Free
    BY <2>11 DEF Free
  <2>12. CASE Crash
    BY <2>12 DEF Crash
  <2>13. CASE ManualRestore
    BY <2>13 DEF ManualRestore
  <2>14. CASE UNCHANGED vars
    BY <2>14 DEF vars
  <2>15. QED
    BY <2>1, <2>2, <2>3, <2>4, <2>5, <2>6, <2>7, <2>8, <2>9, <2>10, <2>11,
       <2>12, <2>13, <2>14 DEF Next
<1>3. QED
  BY <1>1, <1>2, PTL DEF Spec

(* Every variable of the transaction and both files keep their types,      *)
(* however calls, failures and crashes follow each other.                  *)
THEOREM TypeCorrect == Spec => []TypeOK
<1>1. TypeInv => TypeOK
  BY DEF TypeInv
<1>2. QED
  BY <1>1, TypeInvCorrect, PTL

-----------------------------------------------------------------------------
(* For a careful caller.  While a transaction exists the backup is what    *)
(* the image was; an open transaction whose image is not to be trusted has *)
(* failed or been rolled back, so free keeps the backup.                   *)
CopyInv ==
    /\ OneGoodCopy
    /\ phase # "idle" => mode = "BACKUP_FILE" /\ backup = original
    /\ phase = "open" /\ standing = "backup" => aborted \/ result = "failed"
    /\ phase = "restoring" => aborted

LEMMA CopyInvCorrect ==
    ASSUME Careful, ~ShortCopyPasses
    PROVE  Spec => []CopyInv
<1> USE DEF CopyInv, OneGoodCopy
<1>1. Init => CopyInv
  BY DEF Init
<1>2. CopyInv /\ [Next]_vars => CopyInv'
  <2> SUFFICES ASSUME CopyInv, [Next]_vars PROVE CopyInv'
    OBVIOUS
  <2> USE DEF files, tx
  <2>1. ASSUME NEW m \in {"BACKUP_FILE", "IN_MEMORY"}, Begin(m) PROVE CopyInv'
    BY <2>1 DEF Begin, CopyPasses
  <2>2. CASE BeginFails
    BY <2>2 DEF BeginFails
  <2>3. ASSUME NEW t \in Tracks, NEW d \in Data, WriteTrack(t, d) PROVE CopyInv'
    BY <2>3 DEF WriteTrack
  <2>4. CASE CommitStart
    BY <2>4 DEF CommitStart
  <2>5. CASE CommitTrack
    BY <2>5 DEF CommitTrack
  <2>6. CASE CommitFails
    BY <2>6 DEF CommitFails
  <2>7. CASE CommitDone
    BY <2>7 DEF CommitDone
  <2>8. CASE RollbackDiscards
    BY <2>8 DEF RollbackDiscards
  <2>9. CASE RollbackRestores
    BY <2>9 DEF RollbackRestores
  <2>10. CASE RestoreEnds
    BY <2>10 DEF RestoreEnds
  <2>11. CASE Free
    BY <2>11 DEF Free
  <2>12. CASE Crash
    BY <2>12 DEF Crash
  <2>13. CASE ManualRestore
    BY <2>13 DEF ManualRestore
  <2>14. CASE UNCHANGED vars
    BY <2>14 DEF vars
  <2>15. QED
    BY <2>1, <2>2, <2>3, <2>4, <2>5, <2>6, <2>7, <2>8, <2>9, <2>10, <2>11,
       <2>12, <2>13, <2>14 DEF Next
<1>3. QED
  BY <1>1, <1>2, PTL DEF Spec

(* From the start of a commit until it has succeeded the backup is the     *)
(* whole original image, through rollback, free, crash and restart: a      *)
(* caller that rolls back failures can always get it back by hand.         *)
THEOREM OneGoodCopyHolds ==
    ASSUME Careful, ~ShortCopyPasses
    PROVE  Spec => []OneGoodCopy
<1>1. CopyInv => OneGoodCopy
  BY DEF CopyInv
<1>2. QED
  BY <1>1, CopyInvCorrect, PTL

-----------------------------------------------------------------------------
(* No track is staged twice, and while commit walks the list the image is  *)
(* the original with the writes behind the cursor on top.                  *)
Distinct(list) ==
    \A i, j \in 1..Len(list) : list[i].track = list[j].track => i = j

WalkInv ==
    /\ \A i \in 1..Len(pending) : i > next => image[pending[i].track] = pending[i].data
    /\ \A t \in Tracks :
          (\A i \in 1..Len(pending) : i > next => pending[i].track # t)
              => image[t] = original[t]

CommitInv ==
    /\ Distinct(pending)
    /\ phase = "open" /\ result = "none" => standing = "image" /\ image = original
    /\ phase = "committing" => standing = "backup" /\ WalkInv
    /\ phase = "open" /\ committed > 0 => result # "none"
    /\ phase = "restoring" => standing = "backup" /\ result # "none"

LEMMA CommitInvStep ==
    ASSUME Careful, TypeInv, TypeInv', CopyInv, CommitInv, [Next]_vars
    PROVE  CommitInv'
<1> USE DEF CommitInv
<1> USE DEF files, tx
<1>1. ASSUME NEW m \in {"BACKUP_FILE", "IN_MEMORY"}, Begin(m) PROVE CommitInv'
  BY <1>1 DEF Begin, Distinct
<1>2. CASE BeginFails
  BY <1>2 DEF BeginFails, Distinct
<1>3. ASSUME NEW t \in Tracks, NEW d \in Data, WriteTrack(t, d) PROVE CommitInv'
  <2>1. Distinct(pending')
    BY <1>3 DEF WriteTrack, IsStaged, Distinct, TypeInv, TypeOK
  <2>2. QED
    BY <1>3, <2>1 DEF WriteTrack
<1>4. CASE CommitStart
  <2>1. Distinct(pending') /\ phase' = "committing" /\ image' = image /\ image = original
    BY <1>4 DEF CommitStart, Distinct
  <2>2. standing' = "backup"
    BY <1>4 DEF CommitStart, CopyInv
  <2>3. WalkInv'
    BY <1>4, <2>1 DEF CommitStart, WalkInv, TypeInv, TypeOK
  <2>4. QED
    BY <2>1, <2>2, <2>3
<1>5. CASE CommitTrack
  <2>1. Distinct(pending') /\ phase' = "committing" /\ standing' = "backup"
    BY <1>5 DEF CommitTrack, Distinct
  <2>2. WalkInv'
    <3> DEFINE here == pending[next].track
    <3>1. /\ next \in 1..Len(pending)
          /\ pending \in Seq(Write)
          /\ image \in [Tracks -> Content]
      BY <1>5 DEF CommitTrack, TypeInv, TypeOK
    <3>2. pending[next] \in Write
      BY <3>1
    <3>3. here \in Tracks
      BY <3>2 DEF Write
    <3>4. /\ image'[here] = pending[next].data
          /\ \A t \in Tracks : t # here => image'[t] = image[t]
      BY <1>5, <3>1, <3>3 DEF CommitTrack
    <3>5. /\ pending' = pending /\ next' = next - 1 /\ original' = original
      BY <1>5 DEF CommitTrack
    <3>6. ASSUME NEW i \in 1..Len(pending), i > next - 1
          PROVE  image'[pending[i].track] = pending[i].data
      <4>1. CASE i = next
        BY <4>1, <3>4
      <4>2. CASE i # next
        <5>1. i > next
          BY <4>2, <3>6, <3>1
        <5>2. pending[i].track # here
          BY <4>2, <3>1 DEF Distinct
        <5>3. pending[i] \in Write
          BY <3>1
        <5>4. pending[i].track \in Tracks
          BY <5>3 DEF Write
        <5>5. QED
          BY <5>1, <5>2, <5>4, <3>4, <1>5 DEF WalkInv, CommitTrack
      <4>3. QED
        BY <4>1, <4>2
    <3>7. ASSUME NEW t \in Tracks,
                 \A i \in 1..Len(pending) : i > next - 1 => pending[i].track # t
          PROVE  image'[t] = original[t]
      <4>1. t # here
        BY <3>7, <3>1
      <4>2. \A i \in 1..Len(pending) : i > next => pending[i].track # t
        BY <3>7, <3>1
      <4>3. QED
        BY <4>1, <4>2, <3>4, <1>5 DEF WalkInv, CommitTrack
    <3> HIDE DEF here
    <3>8. QED
      BY <3>5, <3>6, <3>7 DEF WalkInv
  <2>3. QED
    BY <2>1, <2>2
<1>6. CASE CommitFails
  BY <1>6 DEF CommitFails, Distinct
<1>7. CASE CommitDone
  BY <1>7 DEF CommitDone, Distinct
<1>8. CASE RollbackDiscards
  BY <1>8 DEF RollbackDiscards, Distinct
<1>9. CASE RollbackRestores
  BY <1>9 DEF RollbackRestores, RestoreNeeded, Distinct
<1>10. CASE RestoreEnds
  BY <1>10 DEF RestoreEnds, Distinct
<1>11. CASE Free
  BY <1>11 DEF Free, Distinct
<1>12. CASE Crash
  BY <1>12 DEF Crash, Distinct
<1>13. CASE ManualRestore
  BY <1>13 DEF ManualRestore, Distinct
<1>14. CASE UNCHANGED vars
  BY <1>14 DEF vars, Distinct, WalkInv
<1>15. QED
  BY <1>1, <1>2, <1>3, <1>4, <1>5, <1>6, <1>7, <1>8, <1>9, <1>10, <1>11,
     <1>12, <1>13, <1>14 DEF Next

LEMMA CommitInvCorrect ==
    ASSUME Careful, ~ShortCopyPasses
    PROVE  Spec => []CommitInv
<1>1. Init => CommitInv
  BY DEF Init, CommitInv, Distinct
<1>2. QED
  BY <1>1, CommitInvStep, TypeInvCorrect, CopyInvCorrect, PTL DEF Spec

(* Looking a track up in a list without duplicates finds its one entry. *)
LEMMA WritesOfEntry ==
    ASSUME NEW list, Distinct(list), NEW i \in 1..Len(list)
    PROVE  /\ list[i].track \in TracksOf(list)
           /\ WritesOf(list)[list[i].track] = list[i].data
<1>1. list[i].track \in TracksOf(list)
  BY DEF TracksOf
<1>2. \A j \in 1..Len(list) : list[j].track = list[i].track => j = i
  BY DEF Distinct
<1>3. (CHOOSE j \in 1..Len(list) : list[j].track = list[i].track) = i
  BY <1>2
<1>4. QED
  BY <1>1, <1>3 DEF WritesOf

LEMMA WritesOfNone == WritesOf(<<>>) = [t \in {} |-> 0]
<1>1. TracksOf(<<>>) = {}
  BY DEF TracksOf
<1>2. QED
  BY <1>1 DEF WritesOf

LEMMA WritesOfAppend ==
    ASSUME NEW list \in Seq(Write), NEW w \in Write,
           Distinct(list), Distinct(Append(list, w))
    PROVE  WritesOf(Append(list, w)) =
               [u \in DOMAIN WritesOf(list) \cup {w.track} |->
                   IF u = w.track THEN w.data ELSE WritesOf(list)[u]]
<1> DEFINE longer == Append(list, w)
<1>1. /\ Len(longer) = Len(list) + 1
      /\ longer[Len(list) + 1] = w
      /\ \A i \in 1..Len(list) : longer[i] = list[i]
      /\ Len(list) \in Nat
  OBVIOUS
<1> HIDE DEF longer
<1>2. TracksOf(longer) = TracksOf(list) \cup {w.track}
  BY <1>1 DEF TracksOf
<1>3. WritesOf(longer)[w.track] = w.data
  <2>1. Len(list) + 1 \in 1..Len(longer)
    BY <1>1
  <2>2. Distinct(longer)
    BY DEF longer
  <2>3. WritesOf(longer)[longer[Len(list) + 1].track] = longer[Len(list) + 1].data
    BY <2>1, <2>2, WritesOfEntry
  <2>4. QED
    BY <1>1, <2>3
<1>4. ASSUME NEW u \in TracksOf(list), u # w.track
      PROVE  WritesOf(longer)[u] = WritesOf(list)[u]
  <2>1. PICK i \in 1..Len(list) : list[i].track = u
    BY DEF TracksOf
  <2>2. WritesOf(list)[u] = list[i].data
    BY <2>1, WritesOfEntry
  <2>3. i \in 1..Len(longer) /\ longer[i] = list[i]
    BY <1>1
  <2>4. WritesOf(longer)[u] = longer[i].data
    BY <2>1, <2>3, WritesOfEntry DEF longer
  <2>5. QED
    BY <2>2, <2>3, <2>4
<1>5. DOMAIN WritesOf(list) = TracksOf(list)
  BY DEF WritesOf
<1>6. WritesOf(longer) = [u \in TracksOf(longer) |-> WritesOf(longer)[u]]
  BY DEF WritesOf
<1>7. QED
  BY <1>2, <1>3, <1>4, <1>5, <1>6 DEF longer

(* Each step of the transaction is a step of the atomic one, or changes    *)
(* nothing that it sees.                                                   *)
LEMMA StepSimulates ==
    ASSUME Careful, ~ShortCopyPasses, TypeInv, TypeInv', CopyInv, CommitInv,
           CommitInv', [Next]_vars
    PROVE  [Atomic!Next]_(Atomic!vars)
<1> USE DEF Atomic!vars, Atomic!Next, files, tx
<1>1. ASSUME NEW m \in {"BACKUP_FILE", "IN_MEMORY"}, Begin(m)
      PROVE  Atomic!Begin
  <2>1. /\ pending' = <<>> /\ original' = image
        /\ Recoverable = image /\ Recoverable' = image
    BY <1>1 DEF Begin, Recoverable
  <2>2. QED
    BY <2>1, WritesOfNone DEF Atomic!Begin, Atomic!NothingStaged
<1>2. CASE BeginFails
  BY <1>2 DEF BeginFails, Recoverable
<1>3. ASSUME NEW t \in Tracks, NEW d \in Data, WriteTrack(t, d)
      PROVE  Atomic!Stage(t, d)
  <2> DEFINE w == [track |-> t, data |-> d]
  <2>1. w \in Write /\ pending' = Append(pending, w) /\ pending \in Seq(Write)
    BY <1>3 DEF WriteTrack, Write, TypeInv, TypeOK
  <2>2. Distinct(pending) /\ Distinct(pending') /\ w.track = t /\ w.data = d
    BY DEF CommitInv
  <2> HIDE DEF w
  <2>3. WritesOf(pending') = [u \in DOMAIN WritesOf(pending) \cup {t} |->
                                 IF u = t THEN d ELSE WritesOf(pending)[u]]
    <3>1. Distinct(Append(pending, w))
      BY <2>1, <2>2
    <3>2. WritesOf(Append(pending, w)) =
              [u \in DOMAIN WritesOf(pending) \cup {w.track} |->
                  IF u = w.track THEN w.data ELSE WritesOf(pending)[u]]
      BY <3>1, <2>1, <2>2, WritesOfAppend
    <3>3. QED
      BY <3>2, <2>1, <2>2
  <2>4. t \notin DOMAIN WritesOf(pending)
    BY <1>3 DEF WriteTrack, IsStaged, WritesOf, TracksOf
  <2>5. Recoverable' = Recoverable /\ original' = original
    BY <1>3 DEF WriteTrack, Recoverable
  <2>6. QED
    BY <2>3, <2>4, <2>5 DEF Atomic!Stage
<1>4. CASE CommitStart
  <2>1. standing = "image" /\ image = original /\ backup = original
    BY <1>4 DEF CommitStart, CommitInv, CopyInv
  <2>2. QED
    BY <1>4, <2>1 DEF CommitStart, Recoverable
<1>5. CASE CommitTrack
  BY <1>5 DEF CommitTrack, Recoverable, CommitInv
<1>6. CASE CommitFails
  BY <1>6 DEF CommitFails, Recoverable, CommitInv
<1>7. CASE CommitDone
  <2>1. /\ Recoverable = original /\ Recoverable' = image
        /\ original' = original /\ pending' = pending
        /\ Distinct(pending) /\ WalkInv /\ next = 0
    BY <1>7 DEF CommitDone, Recoverable, CommitInv, CopyInv
  <2>2. DOMAIN WritesOf(pending) = TracksOf(pending)
    BY DEF WritesOf
  <2>3. ASSUME NEW t \in Tracks
        PROVE  image[t] = IF t \in TracksOf(pending) THEN WritesOf(pending)[t]
                                                     ELSE original[t]
    <3>1. CASE t \in TracksOf(pending)
      <4>1. PICK i \in 1..Len(pending) : pending[i].track = t
        BY <3>1 DEF TracksOf
      <4>2. QED
        BY <2>1, <3>1, <4>1, WritesOfEntry DEF WalkInv
    <3>2. CASE t \notin TracksOf(pending)
      BY <2>1, <3>2 DEF WalkInv, TracksOf
    <3>3. QED
      BY <3>1, <3>2
  <2>4. image \in [Tracks -> Content]
    BY DEF TypeInv, TypeOK
  <2>5. image = Atomic!Overlay(original, WritesOf(pending))
    BY <2>2, <2>3, <2>4 DEF Atomic!Overlay, Atomic!Tracks, Tracks
  <2>6. QED
    BY <2>1, <2>5 DEF Atomic!Commit
<1>8. CASE RollbackDiscards
  BY <1>8 DEF RollbackDiscards, Recoverable
<1>9. CASE RollbackRestores
  BY <1>9 DEF RollbackRestores, Recoverable, CopyInv, Atomic!Undo
<1>10. CASE RestoreEnds
  BY <1>10 DEF RestoreEnds, Recoverable, CommitInv
<1>11. ASSUME Free \/ Crash PROVE Atomic!Close
  <2>1. pending' = <<>> /\ original' = original
    BY <1>11 DEF Free, Crash
  <2>2. Recoverable' = Recoverable
    BY <1>11 DEF Free, Crash, Recoverable, CopyInv, TypeInv, TypeOK
  <2>3. QED
    BY <2>1, <2>2, WritesOfNone DEF Atomic!Close, Atomic!NothingStaged
<1>12. CASE ManualRestore
  BY <1>12 DEF ManualRestore, Recoverable
<1>13. CASE UNCHANGED vars
  BY <1>13 DEF vars, Recoverable
<1>14. QED
  BY <1>1, <1>2, <1>3, <1>4, <1>5, <1>6, <1>7, <1>8, <1>9, <1>10, <1>11,
     <1>12, <1>13 DEF Next, Atomic!Tracks, Tracks

(* For a careful caller in BACKUP_FILE mode, what can be read back from    *)
(* the image or, while the image is unfinished, from its backup changes    *)
(* all at once or not at all, through failing writes, short restores and   *)
(* crashes anywhere.                                                       *)
THEOREM TransactionIsAtomic ==
    ASSUME Careful, ~ShortCopyPasses
    PROVE  Spec => ImplementsAtomicImage
<1>1. Init => Atomic!Init
  BY WritesOfNone DEF Init, Atomic!Init, Atomic!NothingStaged, Recoverable,
                      Atomic!Tracks, Tracks
<1>2. QED
  BY <1>1, StepSimulates, TypeInvCorrect, CopyInvCorrect, CommitInvCorrect, PTL
     DEF Spec, Atomic!Spec, ImplementsAtomicImage

-----------------------------------------------------------------------------
(* For any caller.  Only staged tracks are touched, and what a restore may *)
(* bring back is the original, cut short perhaps.                          *)
StagedInv ==
    /\ OnlyStagedTracksChange
    /\ phase # "idle" /\ mode = "BACKUP_FILE" =>
          \A t \in Tracks : backup[t] \in {original[t], Lost}

LEMMA CutFile ==
    ASSUME NEW file, NEW n, NEW t \in Tracks
    PROVE  Cut(file, n)[t] \in {file[t], Lost}
  BY DEF Cut

LEMMA StagedInvStep ==
    ASSUME TypeInv, StagedInv, [Next]_vars
    PROVE  StagedInv'
<1> USE DEF StagedInv, OnlyStagedTracksChange, files, tx
<1>1. ASSUME NEW m \in {"BACKUP_FILE", "IN_MEMORY"}, Begin(m) PROVE StagedInv'
  <2>1. m = "BACKUP_FILE" => \A t \in Tracks : backup'[t] \in {image[t], Lost}
    BY <1>1, CutFile DEF Begin, CopyPasses
  <2>2. QED
    BY <1>1, <2>1 DEF Begin
<1>2. CASE BeginFails
  BY <1>2 DEF BeginFails
<1>3. ASSUME NEW t \in Tracks, NEW d \in Data, WriteTrack(t, d) PROVE StagedInv'
  <2>1. \A u \in Tracks : IsStaged(u) => IsStaged(u)'
    BY <1>3 DEF WriteTrack, IsStaged, TypeInv, TypeOK
  <2>2. QED
    BY <1>3, <2>1 DEF WriteTrack
<1>4. ASSUME CommitTrack \/ CommitFails PROVE StagedInv'
  <2>1. next \in 1..Len(pending) /\ pending' = pending /\ phase # "idle"
    BY <1>4 DEF CommitTrack, CommitFails, TypeInv, TypeOK
  <2>2. \A t \in Tracks : IsStaged(t)' = IsStaged(t)
    BY <2>1 DEF IsStaged
  <2>3. \A t \in Tracks : image'[t] = image[t] \/ t = pending[next].track
    BY <1>4 DEF CommitTrack, CommitFails, TypeInv, TypeOK
  <2>4. \A t \in Tracks : t = pending[next].track => IsStaged(t)
    BY <2>1 DEF IsStaged
  <2>5. QED
    BY <1>4, <2>1, <2>2, <2>3, <2>4 DEF CommitTrack, CommitFails
<1>5. ASSUME CommitStart \/ CommitDone \/ RollbackDiscards PROVE StagedInv'
  BY <1>5 DEF CommitStart, CommitDone, RollbackDiscards, IsStaged
<1>6. CASE RollbackRestores
  BY <1>6, CutFile DEF RollbackRestores, IsStaged
<1>7. CASE RestoreEnds
  <2>1. \A t \in Tracks : image'[t] \in {original[t], Lost}
    BY <1>7, CutFile DEF RestoreEnds, CopyFails, TypeInv
  <2>2. QED
    BY <1>7, <2>1 DEF RestoreEnds
<1>8. ASSUME Free \/ Crash \/ ManualRestore PROVE StagedInv'
  BY <1>8 DEF Free, Crash, ManualRestore
<1>9. CASE UNCHANGED vars
  BY <1>9 DEF vars, IsStaged
<1>10. QED
  BY <1>1, <1>2, <1>3, <1>4, <1>5, <1>6, <1>7, <1>8, <1>9 DEF Next

(* For any caller, through retries, failures, restores and crashes, a      *)
(* track nobody staged is as it was, or lost by a restore cut short.       *)
THEOREM UnstagedStaysPut == Spec => []OnlyStagedTracksChange
<1>1. Init => StagedInv
  BY DEF Init, StagedInv, OnlyStagedTracksChange
<1>2. StagedInv => OnlyStagedTracksChange
  BY DEF StagedInv
<1>3. QED
  BY <1>1, <1>2, StagedInvStep, TypeInvCorrect, PTL DEF Spec

-----------------------------------------------------------------------------
(* For any caller.  As long as nothing has been rolled back an unstaged    *)
(* track is the original; a commit in progress has written what is behind  *)
(* it, and one that succeeded the first "committed" entries of the list.   *)
Written(from, to) ==
    \A i \in 1..Len(pending) : i > from /\ i <= to => image[pending[i].track] = pending[i].data

ExactInv ==
    /\ Distinct(pending)
    /\ phase # "idle" /\ ~aborted => \A t \in Tracks : IsStaged(t) \/ image[t] = original[t]
    /\ phase = "committing" => ~aborted /\ Written(next, Len(pending))
    /\ phase = "restoring" => aborted
    /\ phase = "open" /\ result = "ok" /\ ~aborted =>
          /\ Written(0, committed)
          /\ \A t \in Tracks :
                (\A i \in 1..committed : pending[i].track # t) => image[t] = original[t]

LEMMA ExactInvStep ==
    ASSUME TypeInv, TypeInv', ExactInv, [Next]_vars
    PROVE  ExactInv'
<1> USE DEF ExactInv, files, tx
<1>1. ASSUME NEW m \in {"BACKUP_FILE", "IN_MEMORY"}, Begin(m) PROVE ExactInv'
  BY <1>1 DEF Begin, Distinct
<1>2. CASE BeginFails
  BY <1>2 DEF BeginFails, Distinct
<1>3. ASSUME NEW t \in Tracks, NEW d \in Data, WriteTrack(t, d) PROVE ExactInv'
  <2>1. Distinct(pending')
    BY <1>3 DEF WriteTrack, IsStaged, Distinct, TypeInv, TypeOK
  <2>2. /\ Len(pending') = Len(pending) + 1
        /\ \A i \in 1..Len(pending) : i \in 1..Len(pending') /\ pending'[i] = pending[i]
        /\ committed \in 0..Len(pending) /\ Len(pending) \in Nat
    BY <1>3 DEF WriteTrack, TypeInv, TypeOK
  <2>3. \A u \in Tracks : IsStaged(u) => IsStaged(u)'
    BY <2>2 DEF IsStaged
  <2>4. Written(0, committed) => Written(0, committed)'
    <3>1. \A i \in 1..Len(pending') : i <= committed => i \in 1..Len(pending)
      BY <2>2
    <3>2. QED
      BY <1>3, <2>2, <3>1 DEF Written, WriteTrack
  <2>5. \A i \in 1..committed : pending'[i] = pending[i]
    BY <2>2
  <2>6. QED
    BY <1>3, <2>1, <2>3, <2>4, <2>5 DEF WriteTrack
<1>4. CASE CommitStart
  <2>1. Written(next, Len(pending))'
    BY <1>4 DEF CommitStart, Written, TypeInv, TypeOK
  <2>2. QED
    BY <1>4, <2>1 DEF CommitStart, Distinct, IsStaged
<1>5. CASE CommitTrack
  <2> DEFINE here == pending[next].track
  <2>1. /\ next \in 1..Len(pending) /\ pending' = pending /\ next' = next - 1
        /\ pending \in Seq(Write)
    BY <1>5 DEF CommitTrack, TypeInv, TypeOK
  <2>2. \A i \in 1..Len(pending) : pending[i].track \in Tracks
    <3>1. \A i \in 1..Len(pending) : pending[i] \in Write
      BY <2>1
    <3>2. QED
      BY <3>1 DEF Write
  <2>3. image'[here] = pending[next].data /\ \A t \in Tracks : t # here => image'[t] = image[t]
    BY <1>5, <2>1, <2>2 DEF CommitTrack, TypeInv, TypeOK
  <2>4. IsStaged(here)
    BY <2>1 DEF IsStaged
  <2>5. ASSUME NEW i \in 1..Len(pending), i > next - 1
        PROVE  image'[pending[i].track] = pending[i].data
    <3>1. CASE i = next
      BY <3>1, <2>3
    <3>2. CASE i # next
      <4>1. i > next /\ i <= Len(pending)
        BY <3>2, <2>5, <2>1
      <4>2. pending[i].track # here
        BY <3>2, <2>1 DEF Distinct
      <4>3. image[pending[i].track] = pending[i].data
        BY <1>5, <4>1 DEF CommitTrack, Written
      <4>4. QED
        BY <4>2, <4>3, <2>2, <2>3
    <3>3. QED
      BY <3>1, <3>2
  <2>6. Written(next, Len(pending))'
    BY <2>1, <2>5 DEF Written
  <2>7. \A t \in Tracks : IsStaged(t)' = IsStaged(t)
    BY <2>1 DEF IsStaged
  <2>8. \A t \in Tracks : IsStaged(t) \/ image'[t] = original[t]
    <3> SUFFICES ASSUME NEW t \in Tracks, ~IsStaged(t) PROVE image'[t] = original[t]
      OBVIOUS
    <3>1. t # here
      BY <2>4
    <3>2. image[t] = original[t]
      BY <1>5 DEF CommitTrack
    <3>3. QED
      BY <3>1, <3>2, <2>3
  <2> HIDE DEF here
  <2>9. QED
    BY <1>5, <2>1, <2>6, <2>7, <2>8 DEF CommitTrack
<1>6. CASE CommitFails
  <2>1. next \in 1..Len(pending) /\ pending' = pending /\ phase' = "open" /\ result' = "failed"
    BY <1>6 DEF CommitFails, TypeInv, TypeOK
  <2>2. \A t \in Tracks : image'[t] = image[t] \/ t = pending[next].track
    BY <1>6 DEF CommitFails, TypeInv, TypeOK
  <2>3. \A t \in Tracks : (t = pending[next].track => IsStaged(t)) /\ IsStaged(t)' = IsStaged(t)
    BY <2>1 DEF IsStaged
  <2>4. QED
    BY <1>6, <2>1, <2>2, <2>3 DEF CommitFails
<1>7. CASE CommitDone
  <2>1. pending' = pending /\ committed' = Len(pending) /\ image' = image /\ next = 0
    BY <1>7 DEF CommitDone
  <2>2. Written(0, committed)'
    BY <1>7, <2>1 DEF CommitDone, Written
  <2>3. \A t \in Tracks : (\A i \in 1..Len(pending) : pending[i].track # t) => ~IsStaged(t)
    BY DEF IsStaged
  <2>4. \A t \in Tracks : IsStaged(t)' = IsStaged(t)
    BY <2>1 DEF IsStaged
  <2>5. QED
    BY <1>7, <2>1, <2>2, <2>3, <2>4 DEF CommitDone
<1>8. ASSUME RollbackDiscards \/ RollbackRestores PROVE ExactInv'
  BY <1>8 DEF RollbackDiscards, RollbackRestores, Distinct
<1>9. CASE RestoreEnds
  BY <1>9 DEF RestoreEnds, Distinct
<1>10. ASSUME Free \/ Crash PROVE ExactInv'
  BY <1>10 DEF Free, Crash, Distinct
<1>11. CASE ManualRestore
  BY <1>11 DEF ManualRestore, Distinct
<1>12. CASE UNCHANGED vars
  BY <1>12 DEF vars, Distinct, IsStaged, Written
<1>13. QED
  BY <1>1, <1>2, <1>3, <1>4, <1>5, <1>6, <1>7, <1>8, <1>9, <1>10, <1>11, <1>12 DEF Next

(* For any caller, a commit that has returned UFT_OK has written exactly   *)
(* what was staged, whatever attempts failed before it.                    *)
THEOREM CommitsAreExact == Spec => []CommitIsExact
<1>1. Init => ExactInv
  BY DEF Init, ExactInv, Distinct
<1>2. TypeInv /\ ExactInv => CommitIsExact
  <2> SUFFICES ASSUME TypeInv, ExactInv, phase = "open", result = "ok", ~aborted, NEW t \in Tracks
               PROVE  /\ {i \in 1..committed : pending[i].track = t} = {} => image[t] = original[t]
                      /\ \A i \in 1..committed : pending[i].track = t => image[t] = pending[i].data
    BY DEF CommitIsExact
  <2>1. \A i \in 1..committed : i \in 1..Len(pending) /\ i > 0 /\ i <= committed
    BY DEF TypeInv, TypeOK
  <2>2. QED
    BY <2>1 DEF ExactInv, Written
<1>3. QED
  BY <1>1, <1>2, ExactInvStep, TypeInvCorrect, PTL DEF Spec

-----------------------------------------------------------------------------
(* A restore is only tried with a count above zero.                        *)
SkipInv ==
    /\ SkippedRestoreHidesNoWrite
    /\ phase = "restoring" => committed > 0

LEMMA SkipInvStep ==
    ASSUME Careful, TypeInv, CommitInv, SkipInv, [Next]_vars
    PROVE  SkipInv'
<1> USE DEF SkipInv, SkippedRestoreHidesNoWrite, files, tx
<1>1. ASSUME NEW m \in {"BACKUP_FILE", "IN_MEMORY"}, Begin(m) PROVE SkipInv'
  BY <1>1 DEF Begin
<1>2. ASSUME NEW t \in Tracks, NEW d \in Data, WriteTrack(t, d) PROVE SkipInv'
  BY <1>2 DEF WriteTrack
<1>3. CASE CommitFails
  <2>1. phase' = "open" /\ original' = original /\ committed' = Len(pending) - next
    BY <1>3 DEF CommitFails
  <2>2. ASSUME committed' = 0, NEW t \in Tracks PROVE image'[t] \in {original[t], Torn}
    <3>1. \A i \in 1..Len(pending) : ~(i > next)
      BY <2>1, <2>2 DEF TypeInv, TypeOK
    <3>2. image[t] = original[t]
      BY <1>3, <3>1 DEF CommitFails, CommitInv, WalkInv
    <3>3. QED
      BY <1>3, <3>2 DEF CommitFails, TypeInv, TypeOK
  <2>3. QED
    BY <2>1, <2>2
<1>4. ASSUME BeginFails \/ CommitStart \/ CommitTrack \/ CommitDone PROVE SkipInv'
  BY <1>4 DEF BeginFails, CommitStart, CommitTrack, CommitDone
<1>5. ASSUME RollbackDiscards \/ RollbackRestores \/ RestoreEnds PROVE SkipInv'
  BY <1>5 DEF RollbackDiscards, RollbackRestores, RestoreNeeded, RestoreEnds, TypeInv, TypeOK
<1>6. ASSUME Free \/ Crash \/ ManualRestore PROVE SkipInv'
  BY <1>6 DEF Free, Crash, ManualRestore
<1>7. CASE UNCHANGED vars
  BY <1>7 DEF vars
<1>8. QED
  BY <1>1, <1>2, <1>3, <1>4, <1>5, <1>6, <1>7 DEF Next

(* For a careful caller, when rollback skips the restore for a zero count, *)
(* no track has been written whole.                                        *)
THEOREM SkippedRestoresAreHarmless ==
    ASSUME Careful, ~ShortCopyPasses
    PROVE  Spec => []SkippedRestoreHidesNoWrite
<1>1. Init => SkipInv
  BY DEF Init, SkipInv, SkippedRestoreHidesNoWrite
<1>2. SkipInv => SkippedRestoreHidesNoWrite
  BY DEF SkipInv
<1>3. QED
  BY <1>1, <1>2, SkipInvStep, TypeInvCorrect, CommitInvCorrect, PTL DEF Spec
=============================================================================

------------------------------ MODULE DecodeJob ------------------------------
(***************************************************************************)
(* src/decodejob.cpp: what the run() of a decode job reports and what it   *)
(* does to the files, one step per sector read and per chunk copied.       *)
(*                                                                         *)
(* The Workflow tab starts one job after the other, and after an abort a   *)
(* new one while the aborted one is still at work.  A file is a set of     *)
(* chunks behind a name: a job writes to the file it opened, whatever its  *)
(* name has come to stand for since.                                       *)
(***************************************************************************)
EXTENDS Naturals, FiniteSets

CONSTANTS
    NumJobs,    \* bound: jobs started one after the other
    NumChunks,  \* bound: 64 KiB chunks of the source
    MaxSectors, \* bound: sectors an image is taken to have
    None        \* no file

ASSUME DecodeJobAssumption ==
    /\ {NumJobs, NumChunks, MaxSectors} \subseteq Nat \ {0}
    /\ None \notin 1 .. (NumJobs + 2)

Jobs       == 1 .. NumJobs
Chunks     == 1 .. NumChunks
OldFile    == NumJobs + 1   \* files: a job that creates one gives it its number
SourceFile == NumJobs + 2

VARIABLES
    patient,  \* (frozen) the user starts no job while another is at work
    image,    \* (frozen) the source is of a "flux" or of a "sector" format
    copy,     \* (frozen) no destination, an "other" file, or the "same" one
    source,   \* the file the source's name stands for, or None
    dest,     \* the file the destination's name stands for, or None
    data,     \* the chunks of every file; 0 stands for what a file held before
    cancel,   \* m_cancel of each job
    pc,       \* where each run() is
    total, good, bad,  \* m_result's totalSectors, goodSectors and badSectors
    fd,       \* the file a job's destFile is open on
    at,       \* chunks of the source a job has read
    size,     \* the source's size in chunks when a job's copy began
    held,     \* the chunk in the buffer of a job's destFile, or 0
    verdict,  \* the terminal signal a job has emitted
    lost,     \* (history) the flush at the close of the last copy has failed
    kept      \* (history) the removal of the last copy has failed

setting == <<patient, image, copy>>
names   == <<source, dest>>
counts  == <<total, good, bad>>
local   == <<fd, at, size, held>>
hist    == <<lost, kept>>
vars    == <<setting, names, data, cancel, pc, counts, local, verdict, hist>>

Init ==
    /\ patient \in BOOLEAN
    /\ image \in {"flux", "sector"}
    /\ copy \in {"none", "other", "same"}
    /\ source = SourceFile /\ dest \in {OldFile, None}
    /\ data = [f \in 1 .. SourceFile |->
                  CASE f = SourceFile -> Chunks [] f = OldFile -> {0} [] OTHER -> {}]
    /\ cancel = [j \in Jobs |-> FALSE]
    /\ pc = [j \in Jobs |-> "unused"]
    /\ total = [j \in Jobs |-> 0] /\ good = total /\ bad = total
    /\ fd = [j \in Jobs |-> None]
    /\ at = [j \in Jobs |-> 0] /\ size = at /\ held = at
    /\ verdict = [j \in Jobs |-> "none"]
    /\ lost = FALSE /\ kept = FALSE

AtWork(j) == pc[j] \notin {"unused", "done"}
Go(j, l)  == pc' = [pc EXCEPT ![j] = l] /\ verdict' = verdict
Emit(j, v) == /\ pc' = [pc EXCEPT ![j] = "done"]
              /\ verdict' = [verdict EXCEPT ![j] = v]

-----------------------------------------------------------------------------
(* The tab starts a job when none is at work that has not been aborted. *)
Start(j) ==
    /\ pc[j] = "unused" /\ \A i \in 1 .. (j - 1) : pc[i] # "unused"
    /\ \A i \in Jobs : AtWork(i) => cancel[i] /\ ~patient
    /\ Go(j, "load")
    /\ UNCHANGED <<names, data, cancel, counts, local, hist>>

RequestCancel(j) ==
    /\ AtWork(j)
    /\ cancel' = [cancel EXCEPT ![j] = TRUE]
    /\ UNCHANGED <<names, data, pc, counts, local, verdict, hist>>

(* run() up to the loaded image: no source, an image that is not valid, or *)
(* a cancel end it; the geometry says how many sectors there should be     *)
Load(j) ==
    /\ pc[j] = "load"
    /\ \/ Emit(j, "error") /\ UNCHANGED total
       \/ /\ ~cancel[j] /\ source # None
          /\ \E n \in 1 .. MaxSectors : total' = [total EXCEPT ![j] = n]
          /\ Go(j, "verify")
    /\ UNCHANGED <<names, data, cancel, good, bad, local, hist>>

-----------------------------------------------------------------------------
(* verifySectors: the source opens, or not; of a flux image it is only     *)
(* asked that something can be read                                        *)
VerifyOpen(j) ==
    /\ pc[j] = "verify"
    /\ \/ Emit(j, "error") /\ UNCHANGED good
       \/ source # None /\ image = "sector" /\ Go(j, "sectors") /\ UNCHANGED good
       \/ /\ source # None /\ image = "flux"
          /\ data[source] # {}
          /\ good' = [good EXCEPT ![j] = total[j]]
          /\ Go(j, "verified")
    /\ UNCHANGED <<names, data, cancel, total, bad, local, hist>>

(* one turn of the loops over tracks, heads and sectors *)
VerifySector(j) ==
    /\ pc[j] = "sectors"
    /\ good[j] + bad[j] < total[j] /\ ~cancel[j]
    /\ \/ source # None /\ data[source] # {}
             /\ good' = [good EXCEPT ![j] = @ + 1] /\ UNCHANGED bad
       \/ bad' = [bad EXCEPT ![j] = @ + 1] /\ UNCHANGED good
    /\ UNCHANGED <<names, data, cancel, pc, total, local, verdict, hist>>

SectorsEnd(j) ==
    /\ pc[j] = "sectors"
    /\ good[j] + bad[j] = total[j] \/ cancel[j]
    /\ Go(j, "verified")
    /\ UNCHANGED <<names, data, cancel, counts, local, hist>>

\* a plausible slip: a cancel that stopped the loops is not an error
VerifyEndAnyway(j) ==
    /\ pc[j] = "verified"
    /\ IF copy = "none" THEN Emit(j, "finished") ELSE Go(j, "convert")
    /\ UNCHANGED <<names, data, cancel, counts, local, hist>>

(* the checks at the end of verifySectors and behind it in run() *)
VerifyEnd(j) ==
    /\ pc[j] = "verified"
    /\ IF cancel[j] THEN Emit(j, "error")
       ELSE IF copy = "none" THEN Emit(j, "finished") ELSE Go(j, "convert")
    /\ UNCHANGED <<names, data, cancel, counts, local, hist>>

-----------------------------------------------------------------------------
(* convertImage: the source opens, then the destination, which empties it; *)
(* the size of the source is taken after that                              *)
Target == IF copy = "same" THEN source ELSE dest

ConvertOpen(j) ==
    /\ pc[j] = "convert"
    /\ \/ Emit(j, "error") /\ UNCHANGED <<names, data, fd, size, hist>>
       \/ /\ source # None
          /\ LET f == IF Target = None THEN j ELSE Target
             IN  /\ fd' = [fd EXCEPT ![j] = f]
                 /\ data' = [data EXCEPT ![f] = {}]
                 /\ dest' = IF copy = "other" THEN f ELSE dest
                 /\ size' = [size EXCEPT ![j] = Cardinality(data'[source])]
                 /\ Go(j, "copy")
          /\ lost' = FALSE /\ kept' = FALSE
          /\ UNCHANGED source
    /\ UNCHANGED <<cancel, counts, at, held>>

(* QFile::remove(m_destPath): the name goes, not the file.  It may fail,   *)
(* and its result is not looked at.                                        *)
Remove ==
    /\ \/ /\ kept' = FALSE
          /\ IF copy = "same" THEN source' = None /\ dest' = dest
                              ELSE dest' = None /\ source' = source
       \/ kept' = TRUE /\ UNCHANGED names
    /\ lost' = lost

\* a plausible slip: what write() returns is not looked at
CopyChunkUnchecked(j) ==
    /\ pc[j] = "copy"
    /\ at[j] < size[j] /\ ~cancel[j]
    /\ at' = [at EXCEPT ![j] = @ + 1]
    /\ \/ data' = [data EXCEPT ![fd[j]] = @ \cup {at[j] + 1}]
       \/ UNCHANGED data
    /\ UNCHANGED <<names, cancel, pc, counts, fd, size, held, verdict, hist>>

(* one turn of the copy loop: a chunk is written at once, or it is the     *)
(* last one and short enough to stay in the buffer, or its write fails     *)
CopyChunk(j) ==
    /\ pc[j] = "copy"
    /\ at[j] < size[j] /\ ~cancel[j]
    /\ \/ /\ data' = [data EXCEPT ![fd[j]] = @ \cup {at[j] + 1}]
          /\ at' = [at EXCEPT ![j] = @ + 1]
          /\ UNCHANGED <<names, pc, held, verdict, hist>>
       \/ /\ at[j] + 1 = size[j]
          /\ held' = [held EXCEPT ![j] = size[j]]
          /\ at' = [at EXCEPT ![j] = @ + 1]
          /\ UNCHANGED <<names, data, pc, verdict, hist>>
       \/ Remove /\ Emit(j, "error") /\ UNCHANGED <<data, at, held>>
    /\ UNCHANGED <<cancel, counts, fd, size>>

(* a read that fails for good yields nothing, which is written with        *)
(* success, over and over                                                  *)
ReadFails(j) ==
    /\ pc[j] = "copy"
    /\ at[j] < size[j] /\ ~cancel[j]
    /\ Go(j, "stuck")
    /\ UNCHANGED <<names, data, cancel, counts, local, hist>>

\* a plausible slip: the cancel is not looked at in the loop
CopyCloseAtEnd(j) ==
    /\ pc[j] = "copy" /\ at[j] = size[j]
    /\ data' = [data EXCEPT ![fd[j]] = @ \cup ({held[j]} \ {0})]
    /\ Go(j, "closed")
    /\ UNCHANGED <<names, cancel, counts, local, hist>>

(* the loop ends and both files are closed: a chunk still in the buffer    *)
(* is written now, or is lost and nobody is told                           *)
CopyClose(j) ==
    /\ \/ pc[j] = "copy" /\ (at[j] = size[j] \/ cancel[j])
       \/ pc[j] = "stuck" /\ cancel[j]
    /\ \/ data' = [data EXCEPT ![fd[j]] = @ \cup ({held[j]} \ {0})] /\ lost' = lost
       \/ held[j] # 0 /\ data' = data /\ lost' = TRUE
    /\ Go(j, "closed")
    /\ UNCHANGED <<names, cancel, counts, local, kept>>

\* a plausible slip: the part of a cancelled copy is left where it is
ConvertEndKeepsPart(j) ==
    /\ pc[j] = "closed"
    /\ IF cancel[j] THEN Go(j, "done") ELSE Emit(j, "finished")
    /\ UNCHANGED <<names, data, cancel, counts, local, hist>>

(* a cancel, even one behind the last chunk, removes the copy and returns  *)
(* without a signal                                                        *)
ConvertEnd(j) ==
    /\ pc[j] = "closed"
    /\ IF cancel[j] THEN Remove /\ Go(j, "done")
       ELSE UNCHANGED <<names, hist>> /\ Emit(j, "finished")
    /\ UNCHANGED <<data, cancel, counts, local>>

-----------------------------------------------------------------------------
Run(j) ==
    \/ Load(j)
    \/ VerifyOpen(j) \/ VerifySector(j) \/ SectorsEnd(j) \/ VerifyEnd(j)
    \/ ConvertOpen(j) \/ CopyChunk(j) \/ ReadFails(j) \/ CopyClose(j)
    \/ ConvertEnd(j)

Next ==
    /\ \E j \in Jobs : Start(j) \/ RequestCancel(j) \/ Run(j)
    /\ UNCHANGED setting

Spec == Init /\ [][Next]_vars

(* A worker thread that has something to do gets to do it. *)
system == <<names, data, cancel, pc, counts, local, verdict, hist>>
FairSpec == Spec /\ \A j \in Jobs : WF_system(Run(j))

-----------------------------------------------------------------------------
(* The counts of the final message are of a finished pass: whenever the    *)
(* cancel comes, a job that reports success has counted every sector as    *)
(* good or bad (comment MF-118 of verifySectors).                          *)
CountsAreTrue ==
    \A j \in Jobs : verdict[j] = "finished" => good[j] + bad[j] = total[j]

(* When a job that copied to another file reports success, and the user    *)
(* waits for aborted jobs, the name it was given stands for a whole copy,  *)
(* unless the flush at its close failed: comment MF-122 calls a short      *)
(* write a hard failure, but nobody looks at this one.                     *)
FinishedCopyIsWhole ==
    [][\A j \in Jobs :
          verdict'[j] = "finished" /\ verdict[j] = "none" /\ copy = "other" /\ patient
              => lost' \/ (dest' # None /\ data'[dest'] = Chunks)]_vars

(* The destination's name never stands for part of a copy but while a job  *)
(* is at work on it: an error and a cancel, at any chunk, leave no file,   *)
(* unless the system refused the flush or the removal of this very copy:   *)
(* "we delete it before bailing", says MF-122, but remove() may fail.      *)
NoPartStays ==
    patient /\ dest # None /\ data[dest] \notin {{0}, Chunks} =>
        lost \/ kept \/ \E j \in Jobs : AtWork(j) /\ fd[j] = dest

(* A job that is cancelled ends, wherever it is.  One that is not ends     *)
(* with its signal, and without one there is no other way for it to end,   *)
(* unless it cannot read on in the middle of its copy.                     *)
EndsUnlessStuck ==
    \A j \in Jobs :
        /\ AtWork(j) /\ cancel[j] ~> ~AtWork(j)
        /\ AtWork(j) ~> verdict[j] # "none" \/ cancel[j] \/ pc[j] = "stuck"
=============================================================================

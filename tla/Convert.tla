------------------------------- MODULE Convert -------------------------------
(***************************************************************************)
(* uft_convert_file (src/formats/uft_format_convert_dispatch.c): chains of *)
(* conversions between files, by callers that may be at work at the same   *)
(* time (the command line tool, the worker of the converter wizard), any   *)
(* of which may be killed between two steps.  With the preflight that      *)
(* decides which losses need consent (src/core/uft_preflight.c over the    *)
(* matrix of src/core/uft_roundtrip.c) and the report of a loss that is    *)
(* left beside the target, <target>.loss.json.                             *)
(*                                                                         *)
(* A file is its format and its past; what a converter makes of the tracks *)
(* and sectors is left out, and so are the warnings and the result.  No    *)
(* two calls have one target at the same time.                             *)
(***************************************************************************)
EXTENDS Naturals

CONSTANTS
    Paths,     \* names of files
    Originals, \* those that stand for a file when the story begins
    Callers,   \* processes and threads that convert
    MaxCalls,  \* bound: calls of uft_convert_file in a story
    None

ASSUME ConvertAssumption == Originals \subseteq Paths /\ MaxCalls \in Nat

VARIABLES
    file,   \* what each path holds
    note,   \* the .loss.json beside each path
    pc,     \* where each caller's call is
    job,    \* the local variables of that call
    calls,  \* calls begun
    missed  \* (history) targets whose report a crash or a failed open cost

vars == <<file, note, pc, job, calls, missed>>

-----------------------------------------------------------------------------
(* The tables.                                                             *)

FluxFormats      == {"SCP", "KRYOFLUX"}
BitstreamFormats == {"HFE", "G64", "WOZ", "NIB"}
SectorFormats    == {"D64", "ADF", "IMG", "DSK", "IMD"}
OtherFormats     == {"IPF", "STX", "TD0", "NBZ"}
Formats == FluxFormats \cup BitstreamFormats \cup SectorFormats \cup OtherFormats

\* g_conversion_paths
Targets(from) ==
    CASE from = "SCP"      -> {"HFE", "G64", "D64", "ADF", "IMG"}
      [] from = "KRYOFLUX" -> {"SCP", "HFE", "D64", "ADF"}
      [] from = "HFE"      -> {"SCP", "IMG", "ADF", "G64"}
      [] from = "G64"      -> {"SCP", "D64", "HFE"}
      [] from = "WOZ"      -> {"DSK", "NIB"}
      [] from = "NIB"      -> {"DSK"}
      [] from = "D64"      -> {"G64", "HFE", "SCP", "D64"}
      [] from = "ADF"      -> {"HFE", "SCP", "ADF", "IMG"}
      [] from = "IMG"      -> {"HFE", "SCP", "ADF", "IMD"}
      [] from = "DSK"      -> {"WOZ", "NIB"}
      [] from = "IMD"      -> {"IMG"}
      [] from = "IPF"      -> {"ADF", "IMG", "SCP"}
      [] from = "STX"      -> {"DSK", "IMG", "SCP"}
      [] from = "TD0"      -> {"IMG", "IMD"}
      [] from = "NBZ"      -> {"D64", "G64"}

\* g_matrix, and what uft_roundtrip_status answers for a pair it does not list
RoundTrip(from, to) ==
    CASE <<from, to>> \in {<<"SCP", "HFE">>, <<"HFE", "SCP">>} -> "lossless"
      [] \/ from = "SCP" /\ to \in {"IMG", "ADF", "D64", "IMD"}
         \/ from = "HFE" /\ to \in {"IMG", "ADF"}
         \/ from = "IPF" /\ to = "ADF" -> "lossy"
      [] <<from, to>> \in {<<"IMG", "SCP">>, <<"ADF", "SCP">>, <<"IMG", "HFE">>}
             -> "impossible"
      [] OTHER -> "untested"

\* A pair some converter, or the plain copy of the bytes, is there for.
HasConverter(from, to) ==
    \/ from = to
    \/ {from, to} \subseteq SectorFormats
    \/ from \in {"SCP", "KRYOFLUX", "HFE", "G64", "TD0", "NBZ"} /\ to \in Targets(from)
    \/ from \in {"D64", "ADF", "IMG"} /\ to \in {"HFE", "SCP"}
    \/ from = "D64" /\ to = "G64"

\* a plausible slip: a pair the matrix does not list is let through
MayRunUntested(from, to, consent) ==
    \/ RoundTrip(from, to) \in {"lossless", "untested"}
    \/ RoundTrip(from, to) = "lossy" /\ consent

\* uft_preflight_check: the conversion may run, with or without the loss report
MayRun(from, to, consent) ==
    \/ RoundTrip(from, to) = "lossless"
    \/ RoundTrip(from, to) = "lossy" /\ consent
WritesSidecar(from, to, consent) == RoundTrip(from, to) = "lossy" /\ consent

-----------------------------------------------------------------------------
NoJob == [dst |-> None, from |-> None, to |-> None, sidecar |-> FALSE, image |-> FALSE]

Init ==
    /\ file \in [Paths -> {None} \cup [format : Formats, from : {None},
                                       image : {FALSE}, whole : {TRUE}]]
    /\ \A p \in Paths : file[p] # None <=> p \in Originals
    /\ note = [p \in Paths |-> None]
    /\ pc = [c \in Callers |-> "idle"]
    /\ job = [c \in Callers |-> NoJob]
    /\ calls = 0 /\ missed = {}

Return(c) == pc' = [pc EXCEPT ![c] = "idle"] /\ job' = [job EXCEPT ![c] = NoJob]
Go(c, l)  == pc' = [pc EXCEPT ![c] = l] /\ UNCHANGED job

\* The local variables of a call whose source holds f
NewJob(f, dst, to, consent) ==
    [dst |-> dst, from |-> f.format, to |-> to,
     sidecar |-> WritesSidecar(f.format, to, consent),
     image |-> f.image \/ f.format \in SectorFormats]

\* The source is read whole, and its format found, before the target is touched.
\* Detection is taken to be right: what it fails to tell occurs in Refuse alone.
\* A file that was cut off may no longer be recognised, see Refuse.
Begin(c) ==
    /\ pc[c] = "idle" /\ calls < MaxCalls
    /\ calls' = calls + 1
    /\ \E src \in Paths, dst \in Paths, to \in Formats, consent \in BOOLEAN :
          /\ \A d \in Callers : job[d].dst # dst
          /\ file[src] # None
          /\ to \in Targets(file[src].format) /\ MayRun(file[src].format, to, consent)
          /\ job' = [job EXCEPT ![c] = NewJob(file[src], dst, to, consent)]
    /\ pc' = [pc EXCEPT ![c] = "convert"]
    /\ UNCHANGED <<file, note, missed>>

\* An unreadable or unknown source, no path, a preflight that says no.
Refuse(c) ==
    /\ pc[c] = "idle" /\ calls < MaxCalls
    /\ calls' = calls + 1
    /\ UNCHANGED <<file, note, pc, job, missed>>

\* a plausible slip: the report is written whether or not there was success
ConvertFailsReported(c) ==
    /\ pc[c] = "convert"
    /\ IF job[c].sidecar THEN Go(c, "report") ELSE Return(c)
    /\ UNCHANGED <<file, note, calls, missed>>

\* In memory: a source that does not parse, no memory, no converter.
ConvertFails(c) ==
    /\ pc[c] = "convert"
    /\ Return(c) /\ UNCHANGED <<file, note, calls, missed>>

\* The target is opened for writing, which empties it.
Open(c) ==
    /\ pc[c] = "convert" /\ HasConverter(job[c].from, job[c].to)
    /\ file' = [file EXCEPT ![job[c].dst] =
                   [format |-> job[c].to, from |-> job[c].from,
                    image |-> job[c].image, whole |-> FALSE]]
    /\ missed' = missed \ {job[c].dst}
    /\ Go(c, "write") /\ UNCHANGED <<note, calls>>

WriteFails(c) ==
    /\ pc[c] = "write"
    /\ Return(c) /\ UNCHANGED <<file, note, calls, missed>>

\* Success; the bytes held back until the close may be lost without a word.
Write(c) ==
    /\ pc[c] = "write"
    /\ \E kept \in BOOLEAN : file' = [file EXCEPT ![job[c].dst].whole = kept]
    /\ IF job[c].sidecar THEN Go(c, "report") ELSE Return(c)
    /\ UNCHANGED <<note, calls, missed>>

\* The report is not opened, or opened and not written to its end.
NoReport(c) ==
    /\ missed' = missed \cup {job[c].dst}
    /\ note' \in {note, [note EXCEPT ![job[c].dst] = None]}

\* uft_preflight_emit_sidecar, whose result is ignored
Report(c) ==
    /\ pc[c] = "report"
    /\ \/ /\ note' = [note EXCEPT ![job[c].dst] = [from |-> job[c].from, to |-> job[c].to]]
          /\ UNCHANGED missed
       \/ NoReport(c)
    /\ Return(c) /\ UNCHANGED <<file, calls>>

\* The process is killed.
Crash(c) ==
    /\ pc[c] # "idle"
    /\ IF pc[c] = "report" THEN NoReport(c) ELSE UNCHANGED <<note, missed>>
    /\ Return(c) /\ UNCHANGED <<file, calls>>

Stop == calls = MaxCalls /\ (\A c \in Callers : pc[c] = "idle") /\ UNCHANGED vars

Next ==
    \/ \E c \in Callers :
          \/ Begin(c)      \/ Refuse(c)
          \/ ConvertFails(c) \/ Open(c)
          \/ WriteFails(c) \/ Write(c)
          \/ Report(c)     \/ Crash(c)
    \/ Stop

Spec == Init /\ [][Next]_vars

-----------------------------------------------------------------------------
\* No chain of conversions makes flux or a bitstream of what was once a sector
\* image: its timing would be invented (the "impossible" entries of the matrix,
\* src/core/uft_roundtrip.c lines 48-53), whatever detour through formats the
\* path table offers, and whichever file was overwritten on the way.
FluxIsNeverMadeUp ==
    \A p \in Paths :
        file[p] # None /\ file[p].format \in FluxFormats \cup BitstreamFormats
            => ~file[p].image

\* The report beside a file that was made with a loss tells that loss, and not
\* the loss of a conversion that was made there before, or was tried since and
\* failed before it touched the file; unless writing the report failed or the
\* process was killed first (lines 550-587).
LossIsTold ==
    \A p \in Paths :
        (/\ file[p] # None /\ file[p].from # None /\ file[p].whole
         /\ RoundTrip(file[p].from, file[p].format) = "lossy"
         /\ p \notin missed
         /\ \A c \in Callers : ~(job[c].dst = p /\ pc[c] = "report"))
        => note[p] = [from |-> file[p].from, to |-> file[p].format]
=============================================================================

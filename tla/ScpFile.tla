------------------------------ MODULE ScpFile ------------------------------
(***************************************************************************)
(* One track of an SCP file: as scp_writer_save lays it out                *)
(* (src/formats/scp/uft_scp_writer.c) and as the format plugin reads it    *)
(* (src/formats/scp/uft_scp_plugin.c).  Left out: the file header, the     *)
(* table of tracks and the checksum.  Offsets count from the first flux    *)
(* word of the track, lengths are bytes, a word has two of them.           *)
(***************************************************************************)
EXTENDS Integers, Sequences, SequencesExt

CONSTANTS
    TickNs,     \* SCP_TICK_NS
    WordRange   \* 65536

ASSUME ScpFileAssumption == {TickNs, WordRange} \subseteq Nat \ {0}

Ticks(ns) == ns \div TickNs

Overflows(ticks) == [k \in 1..(ticks \div WordRange) |-> 0]

\* a plausible slip: the overflow words come behind the rest
WordsRestFirst(ns) == <<Ticks(ns) % WordRange>> \o Overflows(Ticks(ns))

(* a zero for each full range of ticks, then the rest *)
WordsOf(ns) == Overflows(Ticks(ns)) \o <<Ticks(ns) % WordRange>>

(* the writer's data_length: one word per interval, whatever it takes *)
LengthOf(flux) == 2 * Len(flux)

(* the revolution headers, and the words of all revolutions behind them *)
TrackEntry(revs) ==
    LET offset[k \in 1..Len(revs)] ==
            IF k = 1 THEN 0 ELSE offset[k - 1] + LengthOf(revs[k - 1])
    IN  [heads |-> [k \in 1..Len(revs) |-> [length |-> LengthOf(revs[k]), offset |-> offset[k]]],
         words |-> FlattenSeq([k \in 1..Len(revs) |->
                       FlattenSeq([n \in 1..Len(revs[k]) |-> WordsOf(revs[k][n])])])]

(* scp_read_revolution_flux: a zero adds a range to the next interval *)
Decode(words) ==
    LET after[n \in 0..Len(words)] ==
            IF n = 0
              THEN [overflow |-> 0, flux |-> <<>>]
              ELSE LET was == after[n - 1]
                   IN  IF words[n] = 0
                         THEN [was EXCEPT !.overflow = @ + WordRange]
                         ELSE [overflow |-> 0,
                               flux |-> Append(was.flux, (was.overflow + words[n]) * TickNs)]
    IN  after[Len(words)].flux

(* scp_read_track takes the first revolution *)
FirstRevolution(track) ==
    LET head  == track.heads[1]
        begin == head.offset \div 2
    IN  Decode(SubSeq(track.words, begin + 1, begin + head.length \div 2))
=============================================================================

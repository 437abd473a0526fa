----------------------------- MODULE FluxStream -----------------------------
(***************************************************************************)
(* One captured track on its way from the Greaseweazle to the SCP writer:  *)
(* the two stream decoders of src/hal/uft_greaseweazle_full.c, the         *)
(* conversion of do_read_raw_flux, the split of src/fluxcapturejob.cpp, the *)
(* track in the SCP file, which the SCP plugin can read again.             *)
(*                                                                         *)
(* The firmware is external: it sends flux, space and index opcodes, an    *)
(* index before the transition that follows the pulse.  The bytes of an    *)
(* opcode are abstracted to its number of ticks.  Both decoders walk the   *)
(* same opcodes and keep the same count of pending ticks, so one step of   *)
(* the model decodes an opcode for both.                                   *)
(***************************************************************************)
EXTENDS IndexSplit, ScpFile

CONSTANTS
    FluxTicks, IndexTicks, SpaceTicks,  \* what opcodes may carry
    MaxIndices,         \* UFT_GW_MAX_REVOLUTIONS + 1
    NsNum, NsDen,       \* nanoseconds per tick, as a fraction
    MaxSamples, MaxPulses   \* bounds of the model

ASSUME FluxStreamAssumption ==
    /\ FluxTicks \subseteq Nat \ {0} /\ IndexTicks \subseteq Nat
    /\ SpaceTicks \subseteq Nat \ {0}
    /\ {MaxIndices, NsNum, NsDen, MaxSamples, MaxPulses} \subseteq Nat \ {0}

VARIABLES
    stage,       \* of the track: decode, split or saved
    ticks,       \* pending ticks of both decoders
    since,       \* ticks_since_index
    flux,        \* uft_gw_flux_data_t::samples
    index,       \* uft_gw_flux_data_t::index_times
    now,         \* (history) the position of the last transition
    pulses,      \* (history) the positions of the index pulses
    saved        \* the track in the SCP file

decoded == <<ticks, since, flux, index, now, pulses>>
split   == <<samples, times, r, start, prev, slices>>
sv      == <<stage, decoded, split, saved>>

(* uft_gw_ticks_to_ns: a uint32_t *)
Ns(n) == ((n * NsNum) \div NsDen) % Word

StreamInit ==
    /\ stage = "decode"
    /\ ticks = 0
    /\ since = 0
    /\ flux = <<>>
    /\ index = <<>>
    /\ now = 0
    /\ pulses = <<>>
    /\ saved = <<>>
    /\ samples = <<>>
    /\ times = <<>>
    /\ SplitInit

-----------------------------------------------------------------------------
LastPulse == IF pulses = <<>> THEN 0 ELSE pulses[Len(pulses)]

(* one or two bytes: a transition n ticks after the pending ones *)
DecodeFlux(n) ==
    /\ stage = "decode"
    /\ Len(flux) < MaxSamples
    /\ now + ticks + n >= LastPulse
    /\ flux' = Append(flux, ticks + n)
    /\ since' = since + ticks + n
    /\ ticks' = 0
    /\ now' = now + ticks + n
    /\ UNCHANGED <<stage, index, pulses, split, saved>>

(* FluxOp.Space: ticks without a transition; bound: one before each *)
DecodeSpace(n) ==
    /\ stage = "decode"
    /\ ticks = 0
    /\ ticks' = ticks + n
    /\ UNCHANGED <<stage, since, flux, index, now, pulses, split, saved>>

\* a plausible slip: the pending ticks are not taken off the next interval
DecodeIndexLate(n) ==
    /\ stage = "decode"
    /\ Len(pulses) < MaxPulses
    /\ now + ticks + n > LastPulse
    /\ IF Len(index) < MaxIndices
         THEN index' = Append(index, since + ticks + n) /\ since' = -n
         ELSE UNCHANGED <<index, since>>
    /\ pulses' = Append(pulses, now + ticks + n)
    /\ UNCHANGED <<stage, ticks, flux, now, split, saved>>

(* FluxOp.Index: a pulse n ticks after the pending ones *)
DecodeIndex(n) ==
    /\ stage = "decode"
    /\ Len(pulses) < MaxPulses
    /\ now + ticks + n > LastPulse
    /\ IF Len(index) < MaxIndices
         THEN index' = Append(index, since + ticks + n) /\ since' = -(ticks + n)
         ELSE UNCHANGED <<index, since>>
    /\ pulses' = Append(pulses, now + ticks + n)
    /\ UNCHANGED <<stage, ticks, flux, now, split, saved>>

(* do_read_raw_flux: everything becomes nanoseconds; without a transition  *)
(* the track is marginal, without an index it is left out                  *)
Convert ==
    /\ stage = "decode"
    /\ flux # <<>> /\ index # <<>>
    /\ samples' = [k \in DOMAIN flux |-> Ns(flux[k])]
    /\ times' = [k \in DOMAIN index |-> Ns(index[k])]
    /\ stage' = "split"
    /\ UNCHANGED <<decoded, r, start, prev, slices, saved>>

SplitStep == stage = "split" /\ Slice /\ UNCHANGED <<stage, decoded, saved>>

(* the samples of each slice, as scp_writer_add_track copies them *)
Revolutions == [k \in 1..Len(slices) |-> SubSeq(samples, slices[k].from + 1, slices[k].to)]

(* scp_writer_save, for a track of which a revolution was added *)
Save ==
    /\ stage = "split" /\ ~Splitting /\ slices # <<>>
    /\ saved' = TrackEntry(Revolutions)
    /\ stage' = "saved"
    /\ UNCHANGED <<decoded, split>>

StreamNext ==
    \/ \E n \in FluxTicks : DecodeFlux(n)
    \/ \E n \in SpaceTicks : DecodeSpace(n)
    \/ \E n \in IndexTicks : DecodeIndex(n)
    \/ Convert
    \/ SplitStep
    \/ Save

StreamSpec == StreamInit /\ [][StreamNext]_sv

-----------------------------------------------------------------------------
(* uft_gw_decode_flux_index_times reports the time from each index pulse   *)
(* to the next, and of the first the time from the start, however the      *)
(* ticks around it are spread over flux, space and index opcodes.          *)
IndexTimesAreIntervals ==
    \A k \in 1..Len(index) :
        index[k] = pulses[k] - (IF k = 1 THEN 0 ELSE pulses[k - 1])

(* What the SCP plugin reads of the file is the first revolution of the    *)
(* capture, to a tick, as far as it reads: nothing is moved or made up,    *)
(* and it reads all of it if no interval takes more than one word.  The    *)
(* format has no word for an interval below a tick or of whole ranges.     *)
PluginReadsBack ==
    stage = "saved" =>
      LET rev      == Revolutions[1]
          captured == [k \in 1..Len(rev) |-> Ticks(rev[k]) * TickNs]
      IN  (\A k \in 1..Len(rev) : Ticks(rev[k]) % WordRange # 0) =>
            /\ IsPrefix(FirstRevolution(saved), captured)
            /\ (\A k \in 1..Len(rev) : Ticks(rev[k]) < WordRange) =>
                 FirstRevolution(saved) = captured

Done == stage = "split" /\ ~Splitting

-----------------------------------------------------------------------------
(* The disk turns evenly, and each revolution has a transition. *)
Even ==
    /\ \A k \in 2..Len(pulses) : pulses[k] - pulses[k - 1] = pulses[2] - pulses[1]
    /\ pulses[1] <= pulses[2] - pulses[1]
    /\ \A k \in 1..Len(pulses) :
         \E n \in 1..Len(flux) :
            LET at[j \in 0..Len(flux)] == IF j = 0 THEN 0 ELSE at[j - 1] + flux[j]
            IN  at[n] > (IF k = 1 THEN 0 ELSE pulses[k - 1]) /\ at[n] < pulses[k]

(* fluxcapturejob.cpp:164: "split the flux stream into per-revolution SCP  *)
(* track entries on the measured index boundaries": of an even disk there  *)
(* are the revolutions asked for.                                          *)
EnoughRevolutions ==
    Done /\ Len(pulses) >= Revs /\ Revs > 1 /\ Even => Len(slices) = Revs
=============================================================================

----------------------------- MODULE IndexSplit -----------------------------
(***************************************************************************)
(* The loop of src/fluxcapturejob.cpp that cuts the flux of one track into *)
(* revolutions at the index times the provider reports, and what it is to  *)
(* compute when the times are what hal/outcomes.h says they are.           *)
(***************************************************************************)
EXTENDS Integers, Sequences, FiniteSets, SequencesExt

CONSTANTS
    Revs,    \* m_revolutions
    Word     \* 2^32, the range of a duration

ASSUME IndexSplitAssumption == Revs \in Nat \ {0} /\ Word \in Nat \ {0}

VARIABLES
    samples,  \* FluxCaptured::transitions_ns
    times,    \* FluxCaptured::index_times_ns
    r, start, prev,  \* the loop's r, sample_start, prev_index_ns
    slices    \* the revolutions handed to the SCP writer

(* the running sum of the first n samples; cumulative_ns is Elapsed[start] *)
Elapsed[n \in 0..Len(samples)] ==
    IF n = 0 THEN 0 ELSE Elapsed[n - 1] + samples[n]

SplitInit ==
    /\ r = 0
    /\ start = 0
    /\ prev = 0
    /\ slices = <<>>

Splitting == r < Len(times) /\ Len(slices) < Revs

(* the inner while: the first transition at or behind the index time *)
SampleEnd(target) ==
    CHOOSE e \in start..Len(samples) :
        /\ e = Len(samples) \/ Elapsed[e] >= target
        /\ \A d \in start..(e - 1) : Elapsed[d] < target

\* a plausible slip: each slice swallows the transition behind it
SliceGreedy ==
    /\ Splitting
    /\ LET target == times[r + 1]
           stop   == SampleEnd(target)
       IN  /\ slices' = IF stop > start
                          THEN Append(slices, [from |-> start, to |-> stop,
                                               duration |-> (target - prev) % Word])
                          ELSE slices
           /\ start' = IF stop < Len(samples) THEN stop + 1 ELSE stop
           /\ prev' = target
    /\ r' = r + 1
    /\ UNCHANGED <<samples, times>>

\* a plausible slip: the last index is not moved over an empty slice
SliceFromOldIndex ==
    /\ Splitting
    /\ LET target == times[r + 1]
           stop   == SampleEnd(target)
       IN  /\ slices' = IF stop > start
                          THEN Append(slices, [from |-> start, to |-> stop,
                                               duration |-> (target - prev) % Word])
                          ELSE slices
           /\ start' = stop
           /\ prev' = IF stop > start THEN target ELSE prev
    /\ r' = r + 1
    /\ UNCHANGED <<samples, times>>

(* one turn of the loop *)
Slice ==
    /\ Splitting
    /\ LET target == times[r + 1]
           stop   == SampleEnd(target)
       IN  /\ slices' = IF stop > start
                          THEN Append(slices, [from |-> start, to |-> stop,
                                               duration |-> (target - prev) % Word])
                          ELSE slices
           /\ start' = stop
           /\ prev' = target
    /\ r' = r + 1
    /\ UNCHANGED <<samples, times>>

-----------------------------------------------------------------------------
(* The slices lie behind one another from the first transition on: none is *)
(* lost between two revolutions and none is in two of them.                *)
NoFluxLostOrDoubled ==
    \A k \in 1..Len(slices) :
        /\ slices[k].from = (IF k = 1 THEN 0 ELSE slices[k - 1].to)
        /\ slices[k].to <= start

Increasing(s) == \A j \in 1..(Len(s) - 1) : s[j] < s[j + 1]

(* the transitions before the k-th index *)
Boundary(k) ==
    IF k = 0 THEN 0 ELSE Cardinality({e \in 0..(Len(samples) - 1) : Elapsed[e] < times[k]})

Revolution(k) ==
    [from |-> Boundary(k - 1), to |-> Boundary(k),
     duration |-> times[k] - (IF k = 1 THEN 0 ELSE times[k - 1])]

(* the revolutions up to the k-th index that have a transition *)
Filled[k \in 0..Len(times)] ==
    IF k = 0 THEN <<>>
    ELSE IF Boundary(k) > Boundary(k - 1) THEN Append(Filled[k - 1], Revolution(k))
                                          ELSE Filled[k - 1]

(* what hal/outcomes.h:195 asks a consumer of FluxCaptured to cut *)
Contract ==
    LET all == Filled[Len(times)]
    IN  IF Len(all) <= Revs THEN all ELSE SubSeq(all, 1, Revs)

(* Under increasing index times the loop ends with the slices of the       *)
(* contract: cut at the first transition at or behind each index, with the *)
(* time between two indices as the duration.                               *)
SplitFollowsContract == ~Splitting /\ Increasing(times) => slices = Contract
=============================================================================

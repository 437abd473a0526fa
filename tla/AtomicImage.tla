---------------------------- MODULE AtomicImage ----------------------------
(***************************************************************************)
(* What a disk transaction promises: the contents of an image that can be  *)
(* read back change in one step, to the contents with every staged track   *)
(* replaced, or not at all, and can be taken back to what they were when   *)
(* the transaction began.  Nothing here knows of files, of the order in    *)
(* which tracks reach the medium, or of crashes.                           *)
(***************************************************************************)
EXTENDS Naturals

CONSTANTS NumTracks,   \* tracks of the image, numbered from 1
          Data         \* contents a whole track can have

VARIABLES content,     \* the track contents that can be read back
          before,      \* the contents when the transaction began
          staged       \* what the transaction will write, by track

vars == <<content, before, staged>>

Tracks == 1..NumTracks

(* base with the tracks of the partial function patch replaced *)
Overlay(base, patch) ==
    [t \in Tracks |-> IF t \in DOMAIN patch THEN patch[t] ELSE base[t]]

NothingStaged == [t \in {} |-> 0]

Init == /\ content \in [Tracks -> Data]
        /\ before = content
        /\ staged = NothingStaged

Begin == /\ before' = content
         /\ staged' = NothingStaged
         /\ UNCHANGED content

Stage(t, d) == /\ t \notin DOMAIN staged
               /\ staged' = [u \in DOMAIN staged \cup {t} |->
                                IF u = t THEN d ELSE staged[u]]
               /\ UNCHANGED <<content, before>>

Commit == /\ content' = Overlay(content, staged)
          /\ UNCHANGED <<before, staged>>

Undo == /\ content' = before
        /\ UNCHANGED <<before, staged>>

Close == /\ staged' = NothingStaged
         /\ UNCHANGED <<content, before>>

Next == \/ Begin
        \/ \E t \in Tracks, d \in Data : Stage(t, d)
        \/ Commit
        \/ Undo
        \/ Close

Spec == Init /\ [][Next]_vars
=============================================================================

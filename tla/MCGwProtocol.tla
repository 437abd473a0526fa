---------------------------- MODULE MCGwProtocol ----------------------------
(* GwProtocol on a drive of two tracks: one where the head is at the start, *)
(* on cylinder 0 with its sensor, and one on another cylinder and side.     *)
EXTENDS GwProtocol

TwoTracks == {<<0, 0>>, <<1, 1>>}
=============================================================================

---------------------------- MODULE MCRecording ----------------------------
(* Instance of Recording for TLC: two peers that disagree about tick 0, and
   a Metadata frame whose payload is as large as the BufWriter. *)
EXTENDS Recording

MCFrames == {TickHash(0, 0, 6), TickHash(0, 1, 7), Metadata(8, <<9, 1>>)}
============================================================================

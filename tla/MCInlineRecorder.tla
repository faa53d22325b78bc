-------------------------- MODULE MCInlineRecorder --------------------------
(***************************************************************************)
(* Values of the constants of InlineRecorder for TLC.                      *)
(***************************************************************************)
EXTENDS InlineRecorder

\* Packets that start a frame, six of the seven of the small stream.
MCFrameStart == {1, 2, 3, 4, 6, 7}

\* For the smaller streams.
MCFewFrames == {1, 2, 3}
=============================================================================

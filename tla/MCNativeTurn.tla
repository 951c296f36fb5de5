---------------------------- MODULE MCNativeTurn ----------------------------
(***************************************************************************)
(* Two viewers on one session with up to two turns, a journal shorter    *)
(* than the stream.                                                        *)
(***************************************************************************)
EXTENDS NativeTurn
=============================================================================

-------------------------- MODULE MCEffectStreamer --------------------------
(* Model checking of EffectStreamer.                                         *)
EXTENDS EffectStreamer
=============================================================================

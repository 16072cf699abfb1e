----------------------------- MODULE MCPlayback -----------------------------
(* Model-checking instances of Playback: two tracks of one rate, or of two. *)
EXTENDS Playback

OneRate  == <<1, 1>>
TwoRates == <<1, 2>>
=============================================================================

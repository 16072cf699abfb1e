-------------------------- MODULE MCSyncLifecycle --------------------------
(* Model-checking instances of SyncLifecycle: the warmup format, one of another rate, *)
(* one of another depth, and DSD. *)
EXTENDS SyncLifecycle

Pcm44   == [dsd |-> FALSE, rate |-> 44, bits |-> 16]
Pcm48   == [dsd |-> FALSE, rate |-> 48, bits |-> 16]
Pcm44x24 == [dsd |-> FALSE, rate |-> 44, bits |-> 24]
Dsd64   == [dsd |-> TRUE, rate |-> 64, bits |-> 1]

TwoRates  == {Pcm44, Pcm48}
TwoDepths == {Pcm44, Pcm44x24}
AllFormats == {Pcm44, Pcm48, Pcm44x24, Dsd64}
=============================================================================

----------------------------- MODULE MCDataPath -----------------------------
(* Model-checking instances of DataPath. *)
EXTENDS DataPath

Pcm(rate, channels, bps, inBps) ==
  [dsd |-> FALSE, rate |-> rate, channels |-> channels, bps |-> bps, inBps |-> inBps,
   remote |-> FALSE]
Remote(f) == [f EXCEPT !.remote = TRUE]
\* The PCM widths are not used by DSD.
Dsd(multiple, channels) ==
  [dsd |-> TRUE, rate |-> multiple * DSD64, channels |-> channels, bps |-> 4, inBps |-> 4,
   remote |-> FALSE]

\* Buffers of 1 ms with and without a remainder, and of a packet; low, ordinary
\* and high rates, local and remote, every kind of push.  The MTU of 1539 and
\* the rates beside it keep buffers and blocks commensurable, so that the ring
\* has few levels.
SomeMtus == {1500, 1539, 9014}
SomeFormats ==
  [mtu \in SomeMtus |->
     CASE mtu = 1500 -> {Pcm(44100, 2, 2, 2), Remote(Pcm(48000, 2, 2, 2)), Pcm(48000, 2, 2, 2),
                         Pcm(48000, 8, 3, 4), Dsd(1, 2), Dsd(2, 2)}
       [] mtu = 1539 -> {Pcm(352800, 2, 3, 4), Dsd(8, 2)}
       [] mtu = 9014 -> {Pcm(192000, 2, 4, 4), Pcm(384000, 2, 4, 2), Pcm(96000, 2, 3, 2)}]

\* The instances are of the formats the theorems are about.
ASSUME InstanceIsReal == RealFormats

\* DSD alone, after CD.
Ethernet == {1500}
DsdFormats == [mtu \in Ethernet |-> {Pcm(48000, 2, 2, 2), Dsd(1, 2), Dsd(2, 2)}]
=============================================================================

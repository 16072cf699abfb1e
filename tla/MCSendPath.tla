----------------------------- MODULE MCSendPath -----------------------------
(* Model-checking instances of SendPath. *)
EXTENDS SendPath

Pcm(uri, bits, aligned, blocks) ==
  [uri |-> uri, rate |-> 44100, bits |-> bits, dsd |-> "no", aligned |-> aligned, blocks |-> blocks]
Dsd(uri, kind) ==
  [uri |-> uri, rate |-> 2822400, bits |-> 1, dsd |-> kind, aligned |-> "Unknown", blocks |-> <<"loud", "loud">>]

Flac24    == Pcm("flac24", 24, "MsbAligned", <<"silent", "silent", "quiet", "loud">>)
Wavpack24 == Pcm("wv24", 24, "Unknown", <<"silent", "loud">>)
Cd        == Pcm("cd", 16, "Unknown", <<"loud", "silent">>)
Float32   == Pcm("float32", 32, "Unknown", <<"loud">>)
Dsf       == Dsd("dsf", "DSF")
Dff       == Dsd("dff", "DFF")

AllTracks == {Flac24, Wavpack24, Cd, Float32, Dsf, Dff}

Env(build, mode, pcm, dsd) == [build |-> build, mode |-> mode, pcm |-> pcm, dsd |-> dsd]

\* Every build, every PCM path, every DSD layout, a sink with no format for 16 bits
\* and one with no other, to which the ring has no conversion from 24 or 32.
AllEnvironments ==
  {Env("avx2", "AUTO", {24}, {"LSB_BIG", "MSB_BIG"}),
   Env("avx2", "AUTO", {16, 24, 32}, {"MSB_BIG"}),
   Env("neon", "AUTO", {24}, {"LSB_LITTLE"}),
   Env("neon", "PREFER_32", {16, 32}, {"MSB_LITTLE"}),
   Env("avx2", "PREFER_32", {16, 32}, {"LSB_LITTLE", "MSB_LITTLE"}),
   Env("scalar", "FORCE_24", {16, 24}, {"DSD1"}),
   Env("neon", "AUTO", {32}, {"MSB_BIG"}),
   Env("avx2", "AUTO", {16}, {"LSB_BIG"})}

\* What the theorems ask of sizes and files.
ASSUME BlocksFit /\ OneAlignment

\* An x86 daemon in front of a DAC that has 24 bits only.
Sink24 == {Env("avx2", "AUTO", {24}, {"LSB_BIG"})}

\* ... and of one that has 16 bits only.
Sink16 == {Env("avx2", "AUTO", {16}, {"LSB_BIG"})}
=============================================================================

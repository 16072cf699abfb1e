-------------------------- MODULE AudioEngine_proofs --------------------------
(***************************************************************************)
(* What AudioEngine keeps together, for any tracks of any length and any   *)
(* formats: the three threads step in any order, commands come in any      *)
(* order, tracks open or do not.                                           *)
(***************************************************************************)
EXTENDS AudioEngine, SequenceTheorems, TLAPS

USE AudioEngineAssumption

(* The type invariant in parts. *)

NamesOK ==
  /\ m_currentURI \in Uri /\ m_nextURI \in Uri /\ m_pendingNextURI \in Uri
  /\ m_nextDecoder \in Uri /\ m_currentTrackInfo \in Uri
  /\ r_currentURI \in Uri /\ queued \in Uri

FlagsOK ==
  /\ formatOf \in Formats
  /\ m_pendingNextTrack \in BOOLEAN /\ m_formatChangePending \in BOOLEAN
  /\ m_preloadRunning \in BOOLEAN /\ m_seekRequested \in BOOLEAN
  /\ samplesRead \in BOOLEAN /\ stopDone \in BOOLEAN

NumbersOK ==
  /\ m_currentDecoder \in Decoder \cup {None}
  /\ m_seekTarget \in 0..Length /\ seekLocal \in 0..Length
  /\ m_samplesPlayed \in Nat /\ m_silenceCount \in 0..SilenceLimit
  /\ ipcArg \in Uri \cup (0..Length) /\ sought \in (0..Length) \cup {None}

ThreadsOK ==
  /\ m_state \in {"stopped", "playing", "paused"}
  /\ m_mutex \in {"free", "audio", "ipc"}
  /\ audio \in AudioPc
  /\ loader \in [Loaders -> LoaderPc]
  /\ captured \in [Loaders -> [uri : Uri, info : Uri]]
  /\ calls \in Seq(Call)
  /\ ipc \in IpcPc

LEMMA TypeParts ==
  /\ TypeOK <=> NamesOK /\ FlagsOK /\ NumbersOK /\ ThreadsOK
  /\ TypeOK' <=> NamesOK' /\ FlagsOK' /\ NumbersOK' /\ ThreadsOK'
BY DEF TypeOK, NamesOK, FlagsOK, NumbersOK, ThreadsOK

-----------------------------------------------------------------------------
(* One lemma an action. *)

LEMMA QueueNextKeeps ==
  ASSUME IInv, NEW uri \in Track, QueueNext(uri)
  PROVE  IInv'
<1>1. NamesOK'
  BY TypeParts DEF IInv, NamesOK, Uri, QueueNext, RendererFree, decoders, counters, seeking, audioVars,
     loadVars, history
<1>2. FlagsOK'
  BY TypeParts DEF IInv, FlagsOK, QueueNext, RendererFree, decoders, counters, seeking, audioVars,
     loadVars, history
<1>3. NumbersOK'
  BY TypeParts DEF IInv, NumbersOK, Decoder, Uri, QueueNext, RendererFree, decoders, counters, seeking,
     audioVars, loadVars, history
<1>4. ThreadsOK'
  BY TypeParts DEF IInv, ThreadsOK, AudioPc, LoaderPc, IpcPc, Uri, QueueNext, RendererFree, decoders,
     counters, seeking, audioVars, loadVars, history
<1>5. MutexHeld'
  BY DEF IInv, MutexHeld, QueueNext, RendererFree, decoders, counters, seeking, audioVars, loadVars,
     history
<1>6. DecodersMatchUris' /\ PreloadedIsAnother' /\ NextIsAnotherTrack'
  BY TypeParts DEF IInv, NumbersOK, Decoder, MutexHeld, DecodersMatchUris, PreloadedIsAnother,
     NextIsAnotherTrack, QueueNext, RendererFree, decoders, counters, seeking, audioVars, loadVars,
     history
<1>7. QueueKnown'
  BY DEF IInv, QueueKnown, LastQueued, QueueNext, RendererFree, decoders, counters, seeking, audioVars,
     loadVars, history
<1>8. SeekKnown'
  BY DEF IInv, SeekKnown, QueueNext, RendererFree, decoders, counters, seeking, audioVars, loadVars,
     history
<1> QED BY <1>1, <1>2, <1>3, <1>4, <1>5, <1>6, <1>7, <1>8, TypeParts DEF IInv

\* The acknowledgement names the URI that was made pending, taken or not.
LEMMA QueueNextFlagKeeps ==
  ASSUME IInv, QueueNextFlag
  PROVE  IInv'
<1>1. NamesOK'
  BY TypeParts DEF IInv, NamesOK, Uri, QueueKnown, QueueNextFlag, decoders, counters, seeking,
     audioVars, loadVars
<1>2. FlagsOK'
  BY TypeParts DEF IInv, FlagsOK, QueueNextFlag, decoders, counters, seeking, audioVars, loadVars
<1>3. NumbersOK'
  BY TypeParts DEF IInv, NumbersOK, Decoder, Uri, QueueNextFlag, decoders, counters, seeking, audioVars,
     loadVars
<1>4. ThreadsOK'
  BY TypeParts DEF IInv, ThreadsOK, AudioPc, LoaderPc, IpcPc, Uri, QueueNextFlag, decoders, counters,
     seeking, audioVars, loadVars
<1>5. MutexHeld'
  BY DEF IInv, MutexHeld, QueueNextFlag, decoders, counters, seeking, audioVars, loadVars
<1>6. DecodersMatchUris' /\ PreloadedIsAnother' /\ NextIsAnotherTrack'
  BY TypeParts DEF IInv, NumbersOK, Decoder, MutexHeld, DecodersMatchUris, PreloadedIsAnother,
     NextIsAnotherTrack, QueueNextFlag, decoders, counters, seeking, audioVars, loadVars
<1>7. QueueKnown'
  BY DEF IInv, QueueKnown, LastQueued, QueueNextFlag, decoders, counters, seeking, audioVars, loadVars
<1>8. SeekKnown'
  BY DEF IInv, SeekKnown, QueueNextFlag, decoders, counters, seeking, audioVars, loadVars
<1> QED BY <1>1, <1>2, <1>3, <1>4, <1>5, <1>6, <1>7, <1>8, TypeParts DEF IInv

LEMMA ClearNextKeeps ==
  ASSUME IInv, ClearNext
  PROVE  IInv'
<1>1. NamesOK'
  BY TypeParts DEF IInv, NamesOK, Uri, ClearNext, RendererFree, counters, seeking, audioVars, loadVars,
     ipcVars
<1>2. FlagsOK'
  BY TypeParts DEF IInv, FlagsOK, ClearNext, RendererFree, counters, seeking, audioVars, loadVars,
     ipcVars
<1>3. NumbersOK'
  BY TypeParts DEF IInv, NumbersOK, Decoder, Uri, ClearNext, RendererFree, counters, seeking, audioVars,
     loadVars, ipcVars
<1>4. ThreadsOK'
  BY TypeParts DEF IInv, ThreadsOK, AudioPc, LoaderPc, IpcPc, Uri, ClearNext, RendererFree, counters,
     seeking, audioVars, loadVars, ipcVars
<1>5. MutexHeld'
  BY DEF IInv, MutexHeld, ClearNext, RendererFree, counters, seeking, audioVars, loadVars, ipcVars
<1>6. DecodersMatchUris' /\ PreloadedIsAnother' /\ NextIsAnotherTrack'
  BY TypeParts DEF IInv, NumbersOK, Decoder, MutexHeld, DecodersMatchUris, PreloadedIsAnother,
     NextIsAnotherTrack, ClearNext, RendererFree, counters, seeking, audioVars, loadVars, ipcVars
<1>7. QueueKnown'
  BY DEF IInv, QueueKnown, LastQueued, ClearNext, RendererFree, counters, seeking, audioVars, loadVars,
     ipcVars
<1>8. SeekKnown'
  BY DEF IInv, SeekKnown, ClearNext, RendererFree, counters, seeking, audioVars, loadVars, ipcVars
<1> QED BY <1>1, <1>2, <1>3, <1>4, <1>5, <1>6, <1>7, <1>8, TypeParts DEF IInv

LEMMA SeekKeeps ==
  ASSUME IInv, NEW target \in 0..Length, Seek(target)
  PROVE  IInv'
<1>1. NamesOK'
  BY TypeParts DEF IInv, NamesOK, Uri, Seek, RendererFree, uris, decoders, counters, audioVars,
     loadVars, history
<1>2. FlagsOK'
  BY TypeParts DEF IInv, FlagsOK, Seek, RendererFree, uris, decoders, counters, audioVars, loadVars,
     history
<1>3. NumbersOK'
  BY TypeParts DEF IInv, NumbersOK, Decoder, Uri, Seek, RendererFree, uris, decoders, counters,
     audioVars, loadVars, history
<1>4. ThreadsOK'
  BY TypeParts DEF IInv, ThreadsOK, AudioPc, LoaderPc, IpcPc, Uri, Seek, RendererFree, uris, decoders,
     counters, audioVars, loadVars, history
<1>5. MutexHeld'
  BY DEF IInv, MutexHeld, Seek, RendererFree, uris, decoders, counters, audioVars, loadVars, history
<1>6. DecodersMatchUris' /\ PreloadedIsAnother' /\ NextIsAnotherTrack'
  BY TypeParts DEF IInv, NumbersOK, Decoder, MutexHeld, DecodersMatchUris, PreloadedIsAnother,
     NextIsAnotherTrack, Seek, RendererFree, uris, decoders, counters, audioVars, loadVars, history
<1>7. QueueKnown'
  BY DEF IInv, QueueKnown, LastQueued, Seek, RendererFree, uris, decoders, counters, audioVars,
     loadVars, history
<1>8. SeekKnown'
  BY DEF IInv, SeekKnown, Seek, RendererFree, uris, decoders, counters, audioVars, loadVars, history
<1> QED BY <1>1, <1>2, <1>3, <1>4, <1>5, <1>6, <1>7, <1>8, TypeParts DEF IInv

LEMMA SeekFlagKeeps ==
  ASSUME IInv, SeekFlag
  PROVE  IInv'
<1>1. NamesOK'
  BY TypeParts DEF IInv, NamesOK, Uri, SeekFlag, uris, decoders, counters, audioVars, loadVars
<1>2. FlagsOK'
  BY TypeParts DEF IInv, FlagsOK, SeekFlag, uris, decoders, counters, audioVars, loadVars
<1>3. NumbersOK'
  BY TypeParts DEF IInv, NumbersOK, Decoder, Uri, SeekKnown, SeekFlag, uris, decoders, counters,
     audioVars, loadVars
<1>4. ThreadsOK'
  BY TypeParts DEF IInv, ThreadsOK, AudioPc, LoaderPc, IpcPc, Uri, SeekFlag, uris, decoders, counters,
     audioVars, loadVars
<1>5. MutexHeld'
  BY DEF IInv, MutexHeld, SeekFlag, uris, decoders, counters, audioVars, loadVars
<1>6. DecodersMatchUris' /\ PreloadedIsAnother' /\ NextIsAnotherTrack'
  BY TypeParts DEF IInv, NumbersOK, Decoder, MutexHeld, DecodersMatchUris, PreloadedIsAnother,
     NextIsAnotherTrack, SeekFlag, uris, decoders, counters, audioVars, loadVars
<1>7. QueueKnown'
  BY DEF IInv, QueueKnown, LastQueued, SeekFlag, uris, decoders, counters, audioVars, loadVars
<1>8. SeekKnown'
  BY DEF IInv, SeekKnown, SeekFlag, uris, decoders, counters, audioVars, loadVars
<1> QED BY <1>1, <1>2, <1>3, <1>4, <1>5, <1>6, <1>7, <1>8, TypeParts DEF IInv

LEMMA PauseKeeps ==
  ASSUME IInv, Pause
  PROVE  IInv'
<1>1. NamesOK'
  BY TypeParts DEF IInv, NamesOK, Uri, Pause, RendererFree, uris, decoders, counters, seeking,
     audioVars, loadVars, ipcVars, history
<1>2. FlagsOK'
  BY TypeParts DEF IInv, FlagsOK, Pause, RendererFree, uris, decoders, counters, seeking, audioVars,
     loadVars, ipcVars, history
<1>3. NumbersOK'
  BY TypeParts DEF IInv, NumbersOK, Decoder, Uri, Pause, RendererFree, uris, decoders, counters,
     seeking, audioVars, loadVars, ipcVars, history
<1>4. ThreadsOK'
  BY TypeParts DEF IInv, ThreadsOK, AudioPc, LoaderPc, IpcPc, Uri, Pause, RendererFree, uris, decoders,
     counters, seeking, audioVars, loadVars, ipcVars, history
<1>5. MutexHeld'
  BY DEF IInv, MutexHeld, Pause, RendererFree, uris, decoders, counters, seeking, audioVars, loadVars,
     ipcVars, history
<1>6. DecodersMatchUris' /\ PreloadedIsAnother' /\ NextIsAnotherTrack'
  BY TypeParts DEF IInv, NumbersOK, Decoder, MutexHeld, DecodersMatchUris, PreloadedIsAnother,
     NextIsAnotherTrack, Pause, RendererFree, uris, decoders, counters, seeking, audioVars, loadVars,
     ipcVars, history
<1>7. QueueKnown'
  BY DEF IInv, QueueKnown, LastQueued, Pause, RendererFree, uris, decoders, counters, seeking,
     audioVars, loadVars, ipcVars, history
<1>8. SeekKnown'
  BY DEF IInv, SeekKnown, Pause, RendererFree, uris, decoders, counters, seeking, audioVars, loadVars,
     ipcVars, history
<1> QED BY <1>1, <1>2, <1>3, <1>4, <1>5, <1>6, <1>7, <1>8, TypeParts DEF IInv

LEMMA StopStateKeeps ==
  ASSUME IInv, StopState
  PROVE  IInv'
<1>1. NamesOK'
  BY TypeParts DEF IInv, NamesOK, Uri, StopState, uris, decoders, counters, audioVars, loadVars
<1>2. FlagsOK'
  BY TypeParts DEF IInv, FlagsOK, StopState, uris, decoders, counters, audioVars, loadVars
<1>3. NumbersOK'
  BY TypeParts DEF IInv, NumbersOK, Decoder, Uri, StopState, uris, decoders, counters, audioVars,
     loadVars
<1>4. ThreadsOK'
  BY TypeParts DEF IInv, ThreadsOK, AudioPc, LoaderPc, IpcPc, Uri, StopState, uris, decoders, counters,
     audioVars, loadVars
<1>5. MutexHeld'
  BY DEF IInv, MutexHeld, StopState, uris, decoders, counters, audioVars, loadVars
<1>6. DecodersMatchUris' /\ PreloadedIsAnother' /\ NextIsAnotherTrack'
  BY TypeParts DEF IInv, NumbersOK, Decoder, MutexHeld, DecodersMatchUris, PreloadedIsAnother,
     NextIsAnotherTrack, StopState, uris, decoders, counters, audioVars, loadVars
<1>7. QueueKnown'
  BY DEF IInv, QueueKnown, LastQueued, StopState, uris, decoders, counters, audioVars, loadVars
<1>8. SeekKnown'
  BY DEF IInv, SeekKnown, StopState, uris, decoders, counters, audioVars, loadVars
<1> QED BY <1>1, <1>2, <1>3, <1>4, <1>5, <1>6, <1>7, <1>8, TypeParts DEF IInv

LEMMA StopFlagKeeps ==
  ASSUME IInv, StopFlag
  PROVE  IInv'
<1>1. NamesOK'
  BY TypeParts DEF IInv, NamesOK, Uri, StopFlag, decoders, counters, seeking, audioVars, loadVars,
     history
<1>2. FlagsOK'
  BY TypeParts DEF IInv, FlagsOK, StopFlag, decoders, counters, seeking, audioVars, loadVars, history
<1>3. NumbersOK'
  BY TypeParts DEF IInv, NumbersOK, Decoder, Uri, StopFlag, decoders, counters, seeking, audioVars,
     loadVars, history
<1>4. ThreadsOK'
  BY TypeParts DEF IInv, ThreadsOK, AudioPc, LoaderPc, IpcPc, Uri, StopFlag, decoders, counters,
     seeking, audioVars, loadVars, history
<1>5. MutexHeld'
  BY DEF IInv, MutexHeld, StopFlag, decoders, counters, seeking, audioVars, loadVars, history
<1>6. DecodersMatchUris' /\ PreloadedIsAnother' /\ NextIsAnotherTrack'
  BY TypeParts DEF IInv, NumbersOK, Decoder, MutexHeld, DecodersMatchUris, PreloadedIsAnother,
     NextIsAnotherTrack, StopFlag, decoders, counters, seeking, audioVars, loadVars, history
<1>7. QueueKnown'
  BY DEF IInv, QueueKnown, LastQueued, StopFlag, decoders, counters, seeking, audioVars, loadVars,
     history
<1>8. SeekKnown'
  BY DEF IInv, SeekKnown, StopFlag, decoders, counters, seeking, audioVars, loadVars, history
<1> QED BY <1>1, <1>2, <1>3, <1>4, <1>5, <1>6, <1>7, <1>8, TypeParts DEF IInv

\* What is left after a stop is what was next.
LEMMA StopPendingKeeps ==
  ASSUME IInv, StopPending
  PROVE  IInv'
<1>1. NamesOK'
  BY TypeParts DEF IInv, NamesOK, Uri, StopPending, Joinable, decoders, counters, seeking, audioVars,
     loadVars
<1>2. FlagsOK'
  BY TypeParts DEF IInv, FlagsOK, StopPending, Joinable, decoders, counters, seeking, audioVars,
     loadVars
<1>3. NumbersOK'
  BY TypeParts DEF IInv, NumbersOK, Decoder, Uri, StopPending, Joinable, decoders, counters, seeking,
     audioVars, loadVars
<1>4. ThreadsOK'
  BY TypeParts DEF IInv, ThreadsOK, AudioPc, LoaderPc, IpcPc, Uri, StopPending, Joinable, decoders,
     counters, seeking, audioVars, loadVars
<1>5. MutexHeld'
  BY DEF IInv, MutexHeld, StopPending, Joinable, decoders, counters, seeking, audioVars, loadVars
<1>6. DecodersMatchUris' /\ PreloadedIsAnother' /\ NextIsAnotherTrack'
  BY TypeParts DEF IInv, NumbersOK, Decoder, MutexHeld, DecodersMatchUris, PreloadedIsAnother,
     NextIsAnotherTrack, StopPending, Joinable, decoders, counters, seeking, audioVars, loadVars
<1>7. QueueKnown'
  BY DEF IInv, QueueKnown, LastQueued, StopPending, Joinable, decoders, counters, seeking, audioVars,
     loadVars
<1>8. SeekKnown'
  BY DEF IInv, SeekKnown, StopPending, Joinable, decoders, counters, seeking, audioVars, loadVars
<1> QED BY <1>1, <1>2, <1>3, <1>4, <1>5, <1>6, <1>7, <1>8, TypeParts DEF IInv

LEMMA StopJoinKeeps ==
  ASSUME IInv, StopJoin
  PROVE  IInv'
<1>1. NamesOK'
  BY TypeParts DEF IInv, NamesOK, Uri, StopJoin, uris, decoders, counters, seeking, audioVars, history
<1>2. FlagsOK'
  BY TypeParts DEF IInv, FlagsOK, StopJoin, uris, decoders, counters, seeking, audioVars, history
<1>3. NumbersOK'
  BY TypeParts DEF IInv, NumbersOK, Decoder, Uri, StopJoin, uris, decoders, counters, seeking,
     audioVars, history
<1>4. ThreadsOK'
  BY TypeParts DEF IInv, ThreadsOK, AudioPc, LoaderPc, IpcPc, Uri, StopJoin, uris, decoders, counters,
     seeking, audioVars, history
<1>5. MutexHeld'
  BY DEF IInv, MutexHeld, StopJoin, uris, decoders, counters, seeking, audioVars, history
<1>6. DecodersMatchUris' /\ PreloadedIsAnother' /\ NextIsAnotherTrack'
  BY TypeParts DEF IInv, NumbersOK, Decoder, MutexHeld, DecodersMatchUris, PreloadedIsAnother,
     NextIsAnotherTrack, StopJoin, uris, decoders, counters, seeking, audioVars, history
<1>7. QueueKnown'
  BY DEF IInv, QueueKnown, LastQueued, StopJoin, uris, decoders, counters, seeking, audioVars, history
<1>8. SeekKnown'
  BY DEF IInv, SeekKnown, StopJoin, uris, decoders, counters, seeking, audioVars, history
<1> QED BY <1>1, <1>2, <1>3, <1>4, <1>5, <1>6, <1>7, <1>8, TypeParts DEF IInv

LEMMA StopCleanKeeps ==
  ASSUME IInv, StopClean
  PROVE  IInv'
<1>1. NamesOK'
  BY TypeParts DEF IInv, NamesOK, Uri, StopClean, decoders, counters, uris, seeking, audioVars, loadVars
<1>2. FlagsOK'
  BY TypeParts DEF IInv, FlagsOK, StopClean, decoders, counters, uris, seeking, audioVars, loadVars
<1>3. NumbersOK'
  BY TypeParts DEF IInv, NumbersOK, Decoder, Uri, StopClean, decoders, counters, uris, seeking,
     audioVars, loadVars
<1>4. ThreadsOK'
  BY TypeParts DEF IInv, ThreadsOK, AudioPc, LoaderPc, IpcPc, Uri, StopClean, decoders, counters, uris,
     seeking, audioVars, loadVars
<1>5. MutexHeld'
  BY DEF IInv, MutexHeld, StopClean, decoders, counters, uris, seeking, audioVars, loadVars
<1>6. DecodersMatchUris' /\ PreloadedIsAnother' /\ NextIsAnotherTrack'
  BY TypeParts DEF IInv, NumbersOK, Decoder, MutexHeld, DecodersMatchUris, PreloadedIsAnother,
     NextIsAnotherTrack, StopClean, decoders, counters, uris, seeking, audioVars, loadVars
<1>7. QueueKnown'
  BY DEF IInv, QueueKnown, LastQueued, StopClean, decoders, counters, uris, seeking, audioVars, loadVars
<1>8. SeekKnown'
  BY DEF IInv, SeekKnown, StopClean, decoders, counters, uris, seeking, audioVars, loadVars
<1> QED BY <1>1, <1>2, <1>3, <1>4, <1>5, <1>6, <1>7, <1>8, TypeParts DEF IInv

\* Nobody is at a step under m_mutex, so no look at a taken URI is due.
LEMMA SetCurrentURIKeeps ==
  ASSUME IInv, SetCurrentURI
  PROVE  IInv'
<1>1. NamesOK'
  BY TypeParts DEF IInv, NamesOK, Uri, SetCurrentURI, decoders, counters, audioVars
<1>2. FlagsOK'
  BY TypeParts DEF IInv, FlagsOK, SetCurrentURI, decoders, counters, audioVars
<1>3. NumbersOK'
  BY TypeParts DEF IInv, NumbersOK, Decoder, Uri, SetCurrentURI, decoders, counters, audioVars
<1>4. ThreadsOK'
  BY TypeParts DEF IInv, ThreadsOK, AudioPc, LoaderPc, IpcPc, Uri, SetCurrentURI, decoders, counters,
     audioVars
<1>5. MutexHeld'
  BY DEF IInv, MutexHeld, SetCurrentURI, decoders, counters, audioVars
<1>6. DecodersMatchUris' /\ PreloadedIsAnother' /\ NextIsAnotherTrack'
  BY TypeParts DEF IInv, NumbersOK, Decoder, MutexHeld, DecodersMatchUris, PreloadedIsAnother,
     NextIsAnotherTrack, SetCurrentURI, decoders, counters, audioVars
<1>7. QueueKnown'
  BY DEF IInv, QueueKnown, LastQueued, SetCurrentURI, decoders, counters, audioVars
<1>8. SeekKnown'
  BY DEF IInv, SeekKnown, SetCurrentURI, decoders, counters, audioVars
<1> QED BY <1>1, <1>2, <1>3, <1>4, <1>5, <1>6, <1>7, <1>8, TypeParts DEF IInv

LEMMA PlayResumeKeeps ==
  ASSUME IInv, PlayResume
  PROVE  IInv'
<1>1. NamesOK'
  BY TypeParts DEF IInv, NamesOK, Uri, PlayResume, uris, decoders, counters, seeking, audioVars,
     loadVars
<1>2. FlagsOK'
  BY TypeParts DEF IInv, FlagsOK, PlayResume, uris, decoders, counters, seeking, audioVars, loadVars
<1>3. NumbersOK'
  BY TypeParts DEF IInv, NumbersOK, Decoder, Uri, PlayResume, uris, decoders, counters, seeking,
     audioVars, loadVars
<1>4. ThreadsOK'
  BY TypeParts DEF IInv, ThreadsOK, AudioPc, LoaderPc, IpcPc, Uri, PlayResume, uris, decoders, counters,
     seeking, audioVars, loadVars
<1>5. MutexHeld'
  BY DEF IInv, MutexHeld, PlayResume, uris, decoders, counters, seeking, audioVars, loadVars
<1>6. DecodersMatchUris' /\ PreloadedIsAnother' /\ NextIsAnotherTrack'
  BY TypeParts DEF IInv, NumbersOK, Decoder, MutexHeld, DecodersMatchUris, PreloadedIsAnother,
     NextIsAnotherTrack, PlayResume, uris, decoders, counters, seeking, audioVars, loadVars
<1>7. QueueKnown'
  BY DEF IInv, QueueKnown, LastQueued, PlayResume, uris, decoders, counters, seeking, audioVars,
     loadVars
<1>8. SeekKnown'
  BY DEF IInv, SeekKnown, PlayResume, uris, decoders, counters, seeking, audioVars, loadVars
<1> QED BY <1>1, <1>2, <1>3, <1>4, <1>5, <1>6, <1>7, <1>8, TypeParts DEF IInv

\* The track that opens is the current one.
LEMMA PlayStartKeeps ==
  ASSUME IInv, PlayStart
  PROVE  IInv'
<1>1. NamesOK'
  BY TypeParts DEF IInv, NamesOK, Uri, PlayStart, IsEOF, OpenCurrentTrack, PreloadDue, Joinable, Spawn,
     uris, seeking, audioVars
<1>2. FlagsOK'
  BY TypeParts DEF IInv, FlagsOK, PlayStart, IsEOF, OpenCurrentTrack, PreloadDue, Joinable, Spawn, uris,
     seeking, audioVars
<1>3. NumbersOK'
  BY TypeParts DEF IInv, NumbersOK, Decoder, Uri, NamesOK, PlayStart, IsEOF, OpenCurrentTrack,
     PreloadDue, Joinable, Spawn, uris, seeking, audioVars
<1>4. ThreadsOK'
  BY TypeParts DEF IInv, ThreadsOK, AudioPc, LoaderPc, IpcPc, Uri, PlayStart, IsEOF, OpenCurrentTrack,
     PreloadDue, Joinable, Spawn, uris, seeking, audioVars
<1>5. MutexHeld'
  BY DEF IInv, MutexHeld, PlayStart, IsEOF, OpenCurrentTrack, PreloadDue, Joinable, Spawn, uris,
     seeking, audioVars
<1>6. DecodersMatchUris' /\ PreloadedIsAnother' /\ NextIsAnotherTrack'
  BY TypeParts DEF IInv, NumbersOK, Decoder, MutexHeld, DecodersMatchUris, PreloadedIsAnother,
     NextIsAnotherTrack, PlayStart, IsEOF, OpenCurrentTrack, PreloadDue, Joinable, Spawn, uris, seeking,
     audioVars
<1>7. QueueKnown'
  BY DEF IInv, QueueKnown, LastQueued, PlayStart, IsEOF, OpenCurrentTrack, PreloadDue, Joinable, Spawn,
     uris, seeking, audioVars
<1>8. SeekKnown'
  BY DEF IInv, SeekKnown, PlayStart, IsEOF, OpenCurrentTrack, PreloadDue, Joinable, Spawn, uris,
     seeking, audioVars
<1> QED BY <1>1, <1>2, <1>3, <1>4, <1>5, <1>6, <1>7, <1>8, TypeParts DEF IInv

LEMMA PlayFailKeeps ==
  ASSUME IInv, PlayFail
  PROVE  IInv'
<1>1. NamesOK'
  BY TypeParts DEF IInv, NamesOK, Uri, PlayFail, IsEOF, OpenCurrentTrack, uris, counters, seeking,
     audioVars, loadVars, history
<1>2. FlagsOK'
  BY TypeParts DEF IInv, FlagsOK, PlayFail, IsEOF, OpenCurrentTrack, uris, counters, seeking, audioVars,
     loadVars, history
<1>3. NumbersOK'
  BY TypeParts DEF IInv, NumbersOK, Decoder, Uri, PlayFail, IsEOF, OpenCurrentTrack, uris, counters,
     seeking, audioVars, loadVars, history
<1>4. ThreadsOK'
  BY TypeParts DEF IInv, ThreadsOK, AudioPc, LoaderPc, IpcPc, Uri, PlayFail, IsEOF, OpenCurrentTrack,
     uris, counters, seeking, audioVars, loadVars, history
<1>5. MutexHeld'
  BY DEF IInv, MutexHeld, PlayFail, IsEOF, OpenCurrentTrack, uris, counters, seeking, audioVars,
     loadVars, history
<1>6. DecodersMatchUris' /\ PreloadedIsAnother' /\ NextIsAnotherTrack'
  BY TypeParts DEF IInv, NumbersOK, Decoder, MutexHeld, DecodersMatchUris, PreloadedIsAnother,
     NextIsAnotherTrack, PlayFail, IsEOF, OpenCurrentTrack, uris, counters, seeking, audioVars,
     loadVars, history
<1>7. QueueKnown'
  BY DEF IInv, QueueKnown, LastQueued, PlayFail, IsEOF, OpenCurrentTrack, uris, counters, seeking,
     audioVars, loadVars, history
<1>8. SeekKnown'
  BY DEF IInv, SeekKnown, PlayFail, IsEOF, OpenCurrentTrack, uris, counters, seeking, audioVars,
     loadVars, history
<1> QED BY <1>1, <1>2, <1>3, <1>4, <1>5, <1>6, <1>7, <1>8, TypeParts DEF IInv

LEMMA PlayJoinKeeps ==
  ASSUME IInv, PlayJoin
  PROVE  IInv'
<1>1. NamesOK'
  BY TypeParts DEF IInv, NamesOK, Uri, PlayJoin, Spawn, uris, decoders, counters, seeking, audioVars,
     history
<1>2. FlagsOK'
  BY TypeParts DEF IInv, FlagsOK, PlayJoin, Spawn, uris, decoders, counters, seeking, audioVars, history
<1>3. NumbersOK'
  BY TypeParts DEF IInv, NumbersOK, Decoder, Uri, PlayJoin, Spawn, uris, decoders, counters, seeking,
     audioVars, history
<1>4. ThreadsOK'
  BY TypeParts DEF IInv, ThreadsOK, AudioPc, LoaderPc, IpcPc, Uri, PlayJoin, Spawn, uris, decoders,
     counters, seeking, audioVars, history
<1>5. MutexHeld'
  BY DEF IInv, MutexHeld, PlayJoin, Spawn, uris, decoders, counters, seeking, audioVars, history
<1>6. DecodersMatchUris' /\ PreloadedIsAnother' /\ NextIsAnotherTrack'
  BY TypeParts DEF IInv, NumbersOK, Decoder, MutexHeld, DecodersMatchUris, PreloadedIsAnother,
     NextIsAnotherTrack, PlayJoin, Spawn, uris, decoders, counters, seeking, audioVars, history
<1>7. QueueKnown'
  BY DEF IInv, QueueKnown, LastQueued, PlayJoin, Spawn, uris, decoders, counters, seeking, audioVars,
     history
<1>8. SeekKnown'
  BY DEF IInv, SeekKnown, PlayJoin, Spawn, uris, decoders, counters, seeking, audioVars, history
<1> QED BY <1>1, <1>2, <1>3, <1>4, <1>5, <1>6, <1>7, <1>8, TypeParts DEF IInv

LEMMA ProcessEnterKeeps ==
  ASSUME IInv, ProcessEnter
  PROVE  IInv'
<1>1. NamesOK'
  BY TypeParts DEF IInv, NamesOK, Uri, ProcessEnter, uris, decoders, counters, seeking, loadVars,
     ipcVars, history
<1>2. FlagsOK'
  BY TypeParts DEF IInv, FlagsOK, ProcessEnter, uris, decoders, counters, seeking, loadVars, ipcVars,
     history
<1>3. NumbersOK'
  BY TypeParts DEF IInv, NumbersOK, Decoder, Uri, ProcessEnter, uris, decoders, counters, seeking,
     loadVars, ipcVars, history
<1>4. ThreadsOK'
  BY TypeParts DEF IInv, ThreadsOK, AudioPc, LoaderPc, IpcPc, Uri, ProcessEnter, uris, decoders,
     counters, seeking, loadVars, ipcVars, history
<1>5. MutexHeld'
  BY DEF IInv, MutexHeld, ProcessEnter, uris, decoders, counters, seeking, loadVars, ipcVars, history
<1>6. DecodersMatchUris' /\ PreloadedIsAnother' /\ NextIsAnotherTrack'
  BY TypeParts DEF IInv, NumbersOK, Decoder, MutexHeld, DecodersMatchUris, PreloadedIsAnother,
     NextIsAnotherTrack, ProcessEnter, uris, decoders, counters, seeking, loadVars, ipcVars, history
<1>7. QueueKnown'
  BY DEF IInv, QueueKnown, LastQueued, ProcessEnter, uris, decoders, counters, seeking, loadVars,
     ipcVars, history
<1>8. SeekKnown'
  BY DEF IInv, SeekKnown, ProcessEnter, uris, decoders, counters, seeking, loadVars, ipcVars, history
<1> QED BY <1>1, <1>2, <1>3, <1>4, <1>5, <1>6, <1>7, <1>8, TypeParts DEF IInv

LEMMA ProcessRestKeeps ==
  ASSUME IInv, ProcessRest
  PROVE  IInv'
<1>1. NamesOK'
  BY TypeParts DEF IInv, NamesOK, Uri, ProcessRest, uris, decoders, counters, seeking, loadVars,
     ipcVars, history
<1>2. FlagsOK'
  BY TypeParts DEF IInv, FlagsOK, ProcessRest, uris, decoders, counters, seeking, loadVars, ipcVars,
     history
<1>3. NumbersOK'
  BY TypeParts DEF IInv, NumbersOK, Decoder, Uri, ProcessRest, uris, decoders, counters, seeking,
     loadVars, ipcVars, history
<1>4. ThreadsOK'
  BY TypeParts DEF IInv, ThreadsOK, AudioPc, LoaderPc, IpcPc, Uri, ProcessRest, uris, decoders,
     counters, seeking, loadVars, ipcVars, history
<1>5. MutexHeld'
  BY DEF IInv, MutexHeld, ProcessRest, uris, decoders, counters, seeking, loadVars, ipcVars, history
<1>6. DecodersMatchUris' /\ PreloadedIsAnother' /\ NextIsAnotherTrack'
  BY TypeParts DEF IInv, NumbersOK, Decoder, MutexHeld, DecodersMatchUris, PreloadedIsAnother,
     NextIsAnotherTrack, ProcessRest, uris, decoders, counters, seeking, loadVars, ipcVars, history
<1>7. QueueKnown'
  BY DEF IInv, QueueKnown, LastQueued, ProcessRest, uris, decoders, counters, seeking, loadVars,
     ipcVars, history
<1>8. SeekKnown'
  BY DEF IInv, SeekKnown, ProcessRest, uris, decoders, counters, seeking, loadVars, ipcVars, history
<1> QED BY <1>1, <1>2, <1>3, <1>4, <1>5, <1>6, <1>7, <1>8, TypeParts DEF IInv

LEMMA ProcessSeekClearKeeps ==
  ASSUME IInv, ProcessSeekClear
  PROVE  IInv'
<1>1. NamesOK'
  BY TypeParts DEF IInv, NamesOK, Uri, ProcessSeekClear, uris, decoders, counters, loadVars, ipcVars,
     history
<1>2. FlagsOK'
  BY TypeParts DEF IInv, FlagsOK, ProcessSeekClear, uris, decoders, counters, loadVars, ipcVars, history
<1>3. NumbersOK'
  BY TypeParts DEF IInv, NumbersOK, Decoder, Uri, ProcessSeekClear, uris, decoders, counters, loadVars,
     ipcVars, history
<1>4. ThreadsOK'
  BY TypeParts DEF IInv, ThreadsOK, AudioPc, LoaderPc, IpcPc, Uri, ProcessSeekClear, uris, decoders,
     counters, loadVars, ipcVars, history
<1>5. MutexHeld'
  BY DEF IInv, MutexHeld, ProcessSeekClear, uris, decoders, counters, loadVars, ipcVars, history
<1>6. DecodersMatchUris' /\ PreloadedIsAnother' /\ NextIsAnotherTrack'
  BY TypeParts DEF IInv, NumbersOK, Decoder, MutexHeld, DecodersMatchUris, PreloadedIsAnother,
     NextIsAnotherTrack, ProcessSeekClear, uris, decoders, counters, loadVars, ipcVars, history
<1>7. QueueKnown'
  BY DEF IInv, QueueKnown, LastQueued, ProcessSeekClear, uris, decoders, counters, loadVars, ipcVars,
     history
<1>8. SeekKnown'
  BY DEF IInv, SeekKnown, ProcessSeekClear, uris, decoders, counters, loadVars, ipcVars, history
<1> QED BY <1>1, <1>2, <1>3, <1>4, <1>5, <1>6, <1>7, <1>8, TypeParts DEF IInv

LEMMA ProcessSeekApplyKeeps ==
  ASSUME IInv, ProcessSeekApply
  PROVE  IInv'
<1>1. NamesOK'
  BY TypeParts DEF IInv, NamesOK, Uri, ProcessSeekApply, counters, uris, seeking, loadVars, ipcVars
<1>2. FlagsOK'
  BY TypeParts DEF IInv, FlagsOK, ProcessSeekApply, counters, uris, seeking, loadVars, ipcVars
<1>3. NumbersOK'
  BY TypeParts DEF IInv, NumbersOK, Decoder, Uri, ProcessSeekApply, counters, uris, seeking, loadVars,
     ipcVars
<1>4. ThreadsOK'
  BY TypeParts DEF IInv, ThreadsOK, AudioPc, LoaderPc, IpcPc, Uri, ProcessSeekApply, counters, uris,
     seeking, loadVars, ipcVars
<1>5. MutexHeld'
  BY DEF IInv, MutexHeld, ProcessSeekApply, counters, uris, seeking, loadVars, ipcVars
<1>6. DecodersMatchUris' /\ PreloadedIsAnother' /\ NextIsAnotherTrack'
  BY TypeParts DEF IInv, NumbersOK, Decoder, MutexHeld, DecodersMatchUris, PreloadedIsAnother,
     NextIsAnotherTrack, ProcessSeekApply, counters, uris, seeking, loadVars, ipcVars
<1>7. QueueKnown'
  BY DEF IInv, QueueKnown, LastQueued, ProcessSeekApply, counters, uris, seeking, loadVars, ipcVars
<1>8. SeekKnown'
  BY DEF IInv, SeekKnown, ProcessSeekApply, counters, uris, seeking, loadVars, ipcVars
<1> QED BY <1>1, <1>2, <1>3, <1>4, <1>5, <1>6, <1>7, <1>8, TypeParts DEF IInv

LEMMA ProcessLockKeeps ==
  ASSUME IInv, ProcessLock
  PROVE  IInv'
<1>1. NamesOK'
  BY TypeParts DEF IInv, NamesOK, Uri, ProcessLock, uris, decoders, counters, seeking, loadVars,
     ipcVars, history
<1>2. FlagsOK'
  BY TypeParts DEF IInv, FlagsOK, ProcessLock, uris, decoders, counters, seeking, loadVars, ipcVars,
     history
<1>3. NumbersOK'
  BY TypeParts DEF IInv, NumbersOK, Decoder, Uri, ProcessLock, uris, decoders, counters, seeking,
     loadVars, ipcVars, history
<1>4. ThreadsOK'
  BY TypeParts DEF IInv, ThreadsOK, AudioPc, LoaderPc, IpcPc, Uri, ProcessLock, uris, decoders,
     counters, seeking, loadVars, ipcVars, history
<1>5. MutexHeld'
  BY DEF IInv, MutexHeld, ProcessLock, uris, decoders, counters, seeking, loadVars, ipcVars, history
<1>6. DecodersMatchUris' /\ PreloadedIsAnother' /\ NextIsAnotherTrack'
  BY TypeParts DEF IInv, NumbersOK, Decoder, MutexHeld, DecodersMatchUris, PreloadedIsAnother,
     NextIsAnotherTrack, ProcessLock, uris, decoders, counters, seeking, loadVars, ipcVars, history
<1>7. QueueKnown'
  BY DEF IInv, QueueKnown, LastQueued, ProcessLock, uris, decoders, counters, seeking, loadVars,
     ipcVars, history
<1>8. SeekKnown'
  BY DEF IInv, SeekKnown, ProcessLock, uris, decoders, counters, seeking, loadVars, ipcVars, history
<1> QED BY <1>1, <1>2, <1>3, <1>4, <1>5, <1>6, <1>7, <1>8, TypeParts DEF IInv

\* A preloaded decoder survives only for the URI it was opened for.
LEMMA ProcessTakePendingKeeps ==
  ASSUME IInv, ProcessTakePending
  PROVE  IInv'
<1>1. NamesOK'
  BY TypeParts DEF IInv, NamesOK, Uri, ProcessTakePending, counters, seeking, loadVars, ipcVars, history
<1>2. FlagsOK'
  BY TypeParts DEF IInv, FlagsOK, ProcessTakePending, counters, seeking, loadVars, ipcVars, history
<1>3. NumbersOK'
  BY TypeParts DEF IInv, NumbersOK, Decoder, Uri, ProcessTakePending, counters, seeking, loadVars,
     ipcVars, history
<1>4. ThreadsOK'
  BY TypeParts DEF IInv, ThreadsOK, AudioPc, LoaderPc, IpcPc, Uri, ProcessTakePending, counters,
     seeking, loadVars, ipcVars, history
<1>5. MutexHeld'
  BY DEF IInv, MutexHeld, ProcessTakePending, counters, seeking, loadVars, ipcVars, history
<1>6. DecodersMatchUris' /\ PreloadedIsAnother' /\ NextIsAnotherTrack'
  BY TypeParts DEF IInv, NumbersOK, Decoder, MutexHeld, DecodersMatchUris, PreloadedIsAnother,
     NextIsAnotherTrack, ProcessTakePending, counters, seeking, loadVars, ipcVars, history
<1>7. QueueKnown'
  BY DEF IInv, QueueKnown, LastQueued, ProcessTakePending, counters, seeking, loadVars, ipcVars, history
<1>8. SeekKnown'
  BY DEF IInv, SeekKnown, ProcessTakePending, counters, seeking, loadVars, ipcVars, history
<1> QED BY <1>1, <1>2, <1>3, <1>4, <1>5, <1>6, <1>7, <1>8, TypeParts DEF IInv

\* The look at what was taken.
LEMMA ProcessApplyPendingKeeps ==
  ASSUME IInv, ProcessApplyPending
  PROVE  IInv'
<1>1. NamesOK'
  BY TypeParts DEF IInv, NamesOK, Uri, ProcessApplyPending, StillQueued, Joinable, Spawn, decoders,
     counters, seeking, ipcVars
<1>2. FlagsOK'
  BY TypeParts DEF IInv, FlagsOK, ProcessApplyPending, StillQueued, Joinable, Spawn, decoders, counters,
     seeking, ipcVars
<1>3. NumbersOK'
  BY TypeParts DEF IInv, NumbersOK, Decoder, Uri, ProcessApplyPending, StillQueued, Joinable, Spawn,
     decoders, counters, seeking, ipcVars
<1>4. ThreadsOK'
  BY TypeParts DEF IInv, ThreadsOK, AudioPc, LoaderPc, IpcPc, Uri, ProcessApplyPending, StillQueued,
     Joinable, Spawn, decoders, counters, seeking, ipcVars
<1>5. MutexHeld'
  BY DEF IInv, MutexHeld, ProcessApplyPending, StillQueued, Joinable, Spawn, decoders, counters,
     seeking, ipcVars
<1>6. DecodersMatchUris' /\ PreloadedIsAnother' /\ NextIsAnotherTrack'
  BY TypeParts DEF IInv, NumbersOK, Decoder, MutexHeld, DecodersMatchUris, PreloadedIsAnother,
     NextIsAnotherTrack, ProcessApplyPending, StillQueued, Joinable, Spawn, decoders, counters, seeking,
     ipcVars
<1>7. QueueKnown'
  BY DEF IInv, QueueKnown, LastQueued, ProcessApplyPending, StillQueued, Joinable, Spawn, decoders,
     counters, seeking, ipcVars
<1>8. SeekKnown'
  BY DEF IInv, SeekKnown, ProcessApplyPending, StillQueued, Joinable, Spawn, decoders, counters,
     seeking, ipcVars
<1> QED BY <1>1, <1>2, <1>3, <1>4, <1>5, <1>6, <1>7, <1>8, TypeParts DEF IInv

LEMMA ProcessJoinKeeps ==
  ASSUME IInv, ProcessJoin
  PROVE  IInv'
<1>1. NamesOK'
  BY TypeParts DEF IInv, NamesOK, Uri, ProcessJoin, Spawn, uris, decoders, counters, seeking, ipcVars,
     history
<1>2. FlagsOK'
  BY TypeParts DEF IInv, FlagsOK, ProcessJoin, Spawn, uris, decoders, counters, seeking, ipcVars,
     history
<1>3. NumbersOK'
  BY TypeParts DEF IInv, NumbersOK, Decoder, Uri, ProcessJoin, Spawn, uris, decoders, counters, seeking,
     ipcVars, history
<1>4. ThreadsOK'
  BY TypeParts DEF IInv, ThreadsOK, AudioPc, LoaderPc, IpcPc, Uri, ProcessJoin, Spawn, uris, decoders,
     counters, seeking, ipcVars, history
<1>5. MutexHeld'
  BY DEF IInv, MutexHeld, ProcessJoin, Spawn, uris, decoders, counters, seeking, ipcVars, history
<1>6. DecodersMatchUris' /\ PreloadedIsAnother' /\ NextIsAnotherTrack'
  BY TypeParts DEF IInv, NumbersOK, Decoder, MutexHeld, DecodersMatchUris, PreloadedIsAnother,
     NextIsAnotherTrack, ProcessJoin, Spawn, uris, decoders, counters, seeking, ipcVars, history
<1>7. QueueKnown'
  BY DEF IInv, QueueKnown, LastQueued, ProcessJoin, Spawn, uris, decoders, counters, seeking, ipcVars,
     history
<1>8. SeekKnown'
  BY DEF IInv, SeekKnown, ProcessJoin, Spawn, uris, decoders, counters, seeking, ipcVars, history
<1> QED BY <1>1, <1>2, <1>3, <1>4, <1>5, <1>6, <1>7, <1>8, TypeParts DEF IInv

LEMMA ProcessReopenKeeps ==
  ASSUME IInv, ProcessReopen
  PROVE  IInv'
<1>1. NamesOK'
  BY TypeParts DEF IInv, NamesOK, Uri, ProcessReopen, OpenCurrentTrack, TrackChanged, RendererFree,
     counters, uris, seeking, loadVars, history
<1>2. FlagsOK'
  BY TypeParts DEF IInv, FlagsOK, ProcessReopen, OpenCurrentTrack, TrackChanged, RendererFree, counters,
     uris, seeking, loadVars, history
<1>3. NumbersOK'
  BY TypeParts DEF IInv, NumbersOK, Decoder, Uri, NamesOK, ProcessReopen, OpenCurrentTrack,
     TrackChanged, RendererFree, counters, uris, seeking, loadVars, history
<1>4. ThreadsOK'
  BY TypeParts DEF IInv, ThreadsOK, AudioPc, LoaderPc, IpcPc, Uri, ProcessReopen, OpenCurrentTrack,
     TrackChanged, RendererFree, counters, uris, seeking, loadVars, history
<1>5. MutexHeld'
  BY DEF IInv, MutexHeld, ProcessReopen, OpenCurrentTrack, TrackChanged, RendererFree, counters, uris,
     seeking, loadVars, history
<1>6. DecodersMatchUris' /\ PreloadedIsAnother' /\ NextIsAnotherTrack'
  BY TypeParts DEF IInv, NumbersOK, Decoder, MutexHeld, DecodersMatchUris, PreloadedIsAnother,
     NextIsAnotherTrack, ProcessReopen, OpenCurrentTrack, TrackChanged, RendererFree, counters, uris,
     seeking, loadVars, history
<1>7. QueueKnown'
  BY DEF IInv, QueueKnown, LastQueued, ProcessReopen, OpenCurrentTrack, TrackChanged, RendererFree,
     counters, uris, seeking, loadVars, history
<1>8. SeekKnown'
  BY DEF IInv, SeekKnown, ProcessReopen, OpenCurrentTrack, TrackChanged, RendererFree, counters, uris,
     seeking, loadVars, history
<1> QED BY <1>1, <1>2, <1>3, <1>4, <1>5, <1>6, <1>7, <1>8, TypeParts DEF IInv

LEMMA ProcessReadKeeps ==
  ASSUME IInv, ProcessRead
  PROVE  IInv'
<1>1. NamesOK'
  BY TypeParts DEF IInv, NamesOK, Uri, ProcessRead, uris, counters, seeking, ipcVars, history
<1>2. FlagsOK'
  BY TypeParts DEF IInv, FlagsOK, ProcessRead, uris, counters, seeking, ipcVars, history
<1>3. NumbersOK'
  BY TypeParts DEF IInv, NumbersOK, Decoder, Uri, ProcessRead, uris, counters, seeking, ipcVars, history
<1>4. ThreadsOK'
  BY TypeParts DEF IInv, ThreadsOK, AudioPc, LoaderPc, IpcPc, Uri, ProcessRead, uris, counters, seeking,
     ipcVars, history
<1>5. MutexHeld'
  BY DEF IInv, MutexHeld, ProcessRead, uris, counters, seeking, ipcVars, history
<1>6. DecodersMatchUris' /\ PreloadedIsAnother' /\ NextIsAnotherTrack'
  BY TypeParts DEF IInv, NumbersOK, Decoder, MutexHeld, DecodersMatchUris, PreloadedIsAnother,
     NextIsAnotherTrack, ProcessRead, uris, counters, seeking, ipcVars, history
<1>7. QueueKnown'
  BY DEF IInv, QueueKnown, LastQueued, ProcessRead, uris, counters, seeking, ipcVars, history
<1>8. SeekKnown'
  BY DEF IInv, SeekKnown, ProcessRead, uris, counters, seeking, ipcVars, history
<1> QED BY <1>1, <1>2, <1>3, <1>4, <1>5, <1>6, <1>7, <1>8, TypeParts DEF IInv

LEMMA ProcessAwaitKeeps ==
  ASSUME IInv, ProcessAwait
  PROVE  IInv'
<1>1. NamesOK'
  BY TypeParts DEF IInv, NamesOK, Uri, ProcessAwait, uris, decoders, counters, seeking, ipcVars, history
<1>2. FlagsOK'
  BY TypeParts DEF IInv, FlagsOK, ProcessAwait, uris, decoders, counters, seeking, ipcVars, history
<1>3. NumbersOK'
  BY TypeParts DEF IInv, NumbersOK, Decoder, Uri, ProcessAwait, uris, decoders, counters, seeking,
     ipcVars, history
<1>4. ThreadsOK'
  BY TypeParts DEF IInv, ThreadsOK, AudioPc, LoaderPc, IpcPc, Uri, ProcessAwait, uris, decoders,
     counters, seeking, ipcVars, history
<1>5. MutexHeld'
  BY DEF IInv, MutexHeld, ProcessAwait, uris, decoders, counters, seeking, ipcVars, history
<1>6. DecodersMatchUris' /\ PreloadedIsAnother' /\ NextIsAnotherTrack'
  BY TypeParts DEF IInv, NumbersOK, Decoder, MutexHeld, DecodersMatchUris, PreloadedIsAnother,
     NextIsAnotherTrack, ProcessAwait, uris, decoders, counters, seeking, ipcVars, history
<1>7. QueueKnown'
  BY DEF IInv, QueueKnown, LastQueued, ProcessAwait, uris, decoders, counters, seeking, ipcVars, history
<1>8. SeekKnown'
  BY DEF IInv, SeekKnown, ProcessAwait, uris, decoders, counters, seeking, ipcVars, history
<1> QED BY <1>1, <1>2, <1>3, <1>4, <1>5, <1>6, <1>7, <1>8, TypeParts DEF IInv

LEMMA ProcessRelockKeeps ==
  ASSUME IInv, ProcessRelock
  PROVE  IInv'
<1>1. NamesOK'
  BY TypeParts DEF IInv, NamesOK, Uri, ProcessRelock, uris, decoders, counters, seeking, loadVars,
     ipcVars, history
<1>2. FlagsOK'
  BY TypeParts DEF IInv, FlagsOK, ProcessRelock, uris, decoders, counters, seeking, loadVars, ipcVars,
     history
<1>3. NumbersOK'
  BY TypeParts DEF IInv, NumbersOK, Decoder, Uri, ProcessRelock, uris, decoders, counters, seeking,
     loadVars, ipcVars, history
<1>4. ThreadsOK'
  BY TypeParts DEF IInv, ThreadsOK, AudioPc, LoaderPc, IpcPc, Uri, ProcessRelock, uris, decoders,
     counters, seeking, loadVars, ipcVars, history
<1>5. MutexHeld'
  BY DEF IInv, MutexHeld, ProcessRelock, uris, decoders, counters, seeking, loadVars, ipcVars, history
<1>6. DecodersMatchUris' /\ PreloadedIsAnother' /\ NextIsAnotherTrack'
  BY TypeParts DEF IInv, NumbersOK, Decoder, MutexHeld, DecodersMatchUris, PreloadedIsAnother,
     NextIsAnotherTrack, ProcessRelock, uris, decoders, counters, seeking, loadVars, ipcVars, history
<1>7. QueueKnown'
  BY DEF IInv, QueueKnown, LastQueued, ProcessRelock, uris, decoders, counters, seeking, loadVars,
     ipcVars, history
<1>8. SeekKnown'
  BY DEF IInv, SeekKnown, ProcessRelock, uris, decoders, counters, seeking, loadVars, ipcVars, history
<1> QED BY <1>1, <1>2, <1>3, <1>4, <1>5, <1>6, <1>7, <1>8, TypeParts DEF IInv

LEMMA ProcessDeliveredKeeps ==
  ASSUME IInv, ProcessDelivered
  PROVE  IInv'
<1>1. NamesOK'
  BY TypeParts DEF IInv, NamesOK, Uri, ProcessDelivered, uris, decoders, seeking, loadVars, ipcVars,
     history
<1>2. FlagsOK'
  BY TypeParts DEF IInv, FlagsOK, ProcessDelivered, uris, decoders, seeking, loadVars, ipcVars, history
<1>3. NumbersOK'
  BY TypeParts DEF IInv, NumbersOK, Decoder, Uri, ProcessDelivered, uris, decoders, seeking, loadVars,
     ipcVars, history
<1>4. ThreadsOK'
  BY TypeParts DEF IInv, ThreadsOK, AudioPc, LoaderPc, IpcPc, Uri, ProcessDelivered, uris, decoders,
     seeking, loadVars, ipcVars, history
<1>5. MutexHeld'
  BY DEF IInv, MutexHeld, ProcessDelivered, uris, decoders, seeking, loadVars, ipcVars, history
<1>6. DecodersMatchUris' /\ PreloadedIsAnother' /\ NextIsAnotherTrack'
  BY TypeParts DEF IInv, NumbersOK, Decoder, MutexHeld, DecodersMatchUris, PreloadedIsAnother,
     NextIsAnotherTrack, ProcessDelivered, uris, decoders, seeking, loadVars, ipcVars, history
<1>7. QueueKnown'
  BY DEF IInv, QueueKnown, LastQueued, ProcessDelivered, uris, decoders, seeking, loadVars, ipcVars,
     history
<1>8. SeekKnown'
  BY DEF IInv, SeekKnown, ProcessDelivered, uris, decoders, seeking, loadVars, ipcVars, history
<1> QED BY <1>1, <1>2, <1>3, <1>4, <1>5, <1>6, <1>7, <1>8, TypeParts DEF IInv

LEMMA ProcessRefusedKeeps ==
  ASSUME IInv, ProcessRefused
  PROVE  IInv'
<1>1. NamesOK'
  BY TypeParts DEF IInv, NamesOK, Uri, ProcessRefused, uris, decoders, counters, seeking, loadVars,
     ipcVars, history
<1>2. FlagsOK'
  BY TypeParts DEF IInv, FlagsOK, ProcessRefused, uris, decoders, counters, seeking, loadVars, ipcVars,
     history
<1>3. NumbersOK'
  BY TypeParts DEF IInv, NumbersOK, Decoder, Uri, ProcessRefused, uris, decoders, counters, seeking,
     loadVars, ipcVars, history
<1>4. ThreadsOK'
  BY TypeParts DEF IInv, ThreadsOK, AudioPc, LoaderPc, IpcPc, Uri, ProcessRefused, uris, decoders,
     counters, seeking, loadVars, ipcVars, history
<1>5. MutexHeld'
  BY DEF IInv, MutexHeld, ProcessRefused, uris, decoders, counters, seeking, loadVars, ipcVars, history
<1>6. DecodersMatchUris' /\ PreloadedIsAnother' /\ NextIsAnotherTrack'
  BY TypeParts DEF IInv, NumbersOK, Decoder, MutexHeld, DecodersMatchUris, PreloadedIsAnother,
     NextIsAnotherTrack, ProcessRefused, uris, decoders, counters, seeking, loadVars, ipcVars, history
<1>7. QueueKnown'
  BY DEF IInv, QueueKnown, LastQueued, ProcessRefused, uris, decoders, counters, seeking, loadVars,
     ipcVars, history
<1>8. SeekKnown'
  BY DEF IInv, SeekKnown, ProcessRefused, uris, decoders, counters, seeking, loadVars, ipcVars, history
<1> QED BY <1>1, <1>2, <1>3, <1>4, <1>5, <1>6, <1>7, <1>8, TypeParts DEF IInv

\* The preloaded track becomes the current one, under its own name.
LEMMA ProcessTransitionKeeps ==
  ASSUME IInv, ProcessTransition
  PROVE  IInv'
<1>1. NamesOK'
  BY TypeParts DEF IInv, NamesOK, Uri, ProcessTransition, TrackChanged, RendererFree, StillQueued,
     seeking, loadVars
<1>2. FlagsOK'
  BY TypeParts DEF IInv, FlagsOK, ProcessTransition, TrackChanged, RendererFree, StillQueued, seeking,
     loadVars
<1>3. NumbersOK'
  BY TypeParts DEF IInv, NumbersOK, Decoder, Uri, NamesOK, ProcessTransition, TrackChanged,
     RendererFree, StillQueued, seeking, loadVars
<1>4. ThreadsOK'
  BY TypeParts DEF IInv, ThreadsOK, AudioPc, LoaderPc, IpcPc, Uri, ProcessTransition, TrackChanged,
     RendererFree, StillQueued, seeking, loadVars
<1>5. MutexHeld'
  BY DEF IInv, MutexHeld, ProcessTransition, TrackChanged, RendererFree, StillQueued, seeking, loadVars
<1>6. DecodersMatchUris' /\ PreloadedIsAnother' /\ NextIsAnotherTrack'
  BY TypeParts DEF IInv, NumbersOK, Decoder, MutexHeld, DecodersMatchUris, PreloadedIsAnother,
     NextIsAnotherTrack, ProcessTransition, TrackChanged, RendererFree, StillQueued, seeking, loadVars
<1>7. QueueKnown'
  BY DEF IInv, QueueKnown, LastQueued, ProcessTransition, TrackChanged, RendererFree, StillQueued,
     seeking, loadVars
<1>8. SeekKnown'
  BY DEF IInv, SeekKnown, ProcessTransition, TrackChanged, RendererFree, StillQueued, seeking, loadVars
<1> QED BY <1>1, <1>2, <1>3, <1>4, <1>5, <1>6, <1>7, <1>8, TypeParts DEF IInv

LEMMA ProcessNextFormatKeeps ==
  ASSUME IInv, ProcessNextFormat
  PROVE  IInv'
<1>1. NamesOK'
  BY TypeParts DEF IInv, NamesOK, Uri, ProcessNextFormat, StillQueued, seeking, loadVars, ipcVars
<1>2. FlagsOK'
  BY TypeParts DEF IInv, FlagsOK, ProcessNextFormat, StillQueued, seeking, loadVars, ipcVars
<1>3. NumbersOK'
  BY TypeParts DEF IInv, NumbersOK, Decoder, Uri, ProcessNextFormat, StillQueued, seeking, loadVars,
     ipcVars
<1>4. ThreadsOK'
  BY TypeParts DEF IInv, ThreadsOK, AudioPc, LoaderPc, IpcPc, Uri, ProcessNextFormat, StillQueued,
     seeking, loadVars, ipcVars
<1>5. MutexHeld'
  BY DEF IInv, MutexHeld, ProcessNextFormat, StillQueued, seeking, loadVars, ipcVars
<1>6. DecodersMatchUris' /\ PreloadedIsAnother' /\ NextIsAnotherTrack'
  BY TypeParts DEF IInv, NumbersOK, Decoder, MutexHeld, DecodersMatchUris, PreloadedIsAnother,
     NextIsAnotherTrack, ProcessNextFormat, StillQueued, seeking, loadVars, ipcVars
<1>7. QueueKnown'
  BY DEF IInv, QueueKnown, LastQueued, ProcessNextFormat, StillQueued, seeking, loadVars, ipcVars
<1>8. SeekKnown'
  BY DEF IInv, SeekKnown, ProcessNextFormat, StillQueued, seeking, loadVars, ipcVars
<1> QED BY <1>1, <1>2, <1>3, <1>4, <1>5, <1>6, <1>7, <1>8, TypeParts DEF IInv

LEMMA ProcessDrainKeeps ==
  ASSUME IInv, ProcessDrain
  PROVE  IInv'
<1>1. NamesOK'
  BY TypeParts DEF IInv, NamesOK, Uri, ProcessDrain, uris, decoders, seeking, loadVars, ipcVars, history
<1>2. FlagsOK'
  BY TypeParts DEF IInv, FlagsOK, ProcessDrain, uris, decoders, seeking, loadVars, ipcVars, history
<1>3. NumbersOK'
  BY TypeParts DEF IInv, NumbersOK, Decoder, Uri, ProcessDrain, uris, decoders, seeking, loadVars,
     ipcVars, history
<1>4. ThreadsOK'
  BY TypeParts DEF IInv, ThreadsOK, AudioPc, LoaderPc, IpcPc, Uri, ProcessDrain, uris, decoders,
     seeking, loadVars, ipcVars, history
<1>5. MutexHeld'
  BY DEF IInv, MutexHeld, ProcessDrain, uris, decoders, seeking, loadVars, ipcVars, history
<1>6. DecodersMatchUris' /\ PreloadedIsAnother' /\ NextIsAnotherTrack'
  BY TypeParts DEF IInv, NumbersOK, Decoder, MutexHeld, DecodersMatchUris, PreloadedIsAnother,
     NextIsAnotherTrack, ProcessDrain, uris, decoders, seeking, loadVars, ipcVars, history
<1>7. QueueKnown'
  BY DEF IInv, QueueKnown, LastQueued, ProcessDrain, uris, decoders, seeking, loadVars, ipcVars, history
<1>8. SeekKnown'
  BY DEF IInv, SeekKnown, ProcessDrain, uris, decoders, seeking, loadVars, ipcVars, history
<1> QED BY <1>1, <1>2, <1>3, <1>4, <1>5, <1>6, <1>7, <1>8, TypeParts DEF IInv

LEMMA LoaderCaptureKeeps ==
  ASSUME IInv, NEW p \in Loaders, LoaderCapture(p)
  PROVE  IInv'
<1>1. NamesOK'
  BY TypeParts DEF IInv, NamesOK, Uri, LoaderCapture, Return, NoCapture, decoders, counters, seeking,
     audioVars, ipcVars, history
<1>2. FlagsOK'
  BY TypeParts DEF IInv, FlagsOK, LoaderCapture, Return, NoCapture, decoders, counters, seeking,
     audioVars, ipcVars, history
<1>3. NumbersOK'
  BY TypeParts DEF IInv, NumbersOK, Decoder, Uri, LoaderCapture, Return, NoCapture, decoders, counters,
     seeking, audioVars, ipcVars, history
<1>4. ThreadsOK'
  <2>1. ThreadsOK /\ None \in Uri
    BY TypeParts DEF IInv, Uri
  <2>2. m_nextURI \in Uri /\ m_currentTrackInfo \in Uri
    BY TypeParts DEF IInv, NamesOK
  <2>3. loader' \in [Loaders -> LoaderPc]
    BY <2>1 DEF ThreadsOK, LoaderPc, Return, LoaderCapture
  <2>4. captured' \in [Loaders -> [uri : Uri, info : Uri]]
    BY <2>1, <2>2 DEF ThreadsOK, Return, NoCapture, LoaderCapture
  <2> QED BY <2>1, <2>3, <2>4 DEF ThreadsOK, LoaderCapture, audioVars, ipcVars
<1>5. MutexHeld'
  BY DEF IInv, MutexHeld, LoaderCapture, Return, NoCapture, decoders, counters, seeking, audioVars,
     ipcVars, history
<1>6. DecodersMatchUris' /\ PreloadedIsAnother' /\ NextIsAnotherTrack'
  BY TypeParts DEF IInv, NumbersOK, Decoder, MutexHeld, DecodersMatchUris, PreloadedIsAnother,
     NextIsAnotherTrack, LoaderCapture, Return, NoCapture, decoders, counters, seeking, audioVars,
     ipcVars, history
<1>7. QueueKnown'
  BY DEF IInv, QueueKnown, LastQueued, LoaderCapture, Return, NoCapture, decoders, counters, seeking,
     audioVars, ipcVars, history
<1>8. SeekKnown'
  BY DEF IInv, SeekKnown, LoaderCapture, Return, NoCapture, decoders, counters, seeking, audioVars,
     ipcVars, history
<1> QED BY <1>1, <1>2, <1>3, <1>4, <1>5, <1>6, <1>7, <1>8, TypeParts DEF IInv

LEMMA LoaderOpenKeeps ==
  ASSUME IInv, NEW p \in Loaders, LoaderOpen(p)
  PROVE  IInv'
<1>1. NamesOK'
  BY TypeParts DEF IInv, NamesOK, Uri, LoaderOpen, Return, NoCapture, uris, decoders, counters, seeking,
     audioVars, ipcVars, history
<1>2. FlagsOK'
  BY TypeParts DEF IInv, FlagsOK, LoaderOpen, Return, NoCapture, uris, decoders, counters, seeking,
     audioVars, ipcVars, history
<1>3. NumbersOK'
  BY TypeParts DEF IInv, NumbersOK, Decoder, Uri, LoaderOpen, Return, NoCapture, uris, decoders,
     counters, seeking, audioVars, ipcVars, history
<1>4. ThreadsOK'
  <2>1. ThreadsOK /\ None \in Uri
    BY TypeParts DEF IInv, Uri
  <2>3. loader' \in [Loaders -> LoaderPc]
    BY <2>1 DEF ThreadsOK, LoaderPc, Return, LoaderOpen
  <2>4. captured' \in [Loaders -> [uri : Uri, info : Uri]]
    BY <2>1 DEF ThreadsOK, Return, NoCapture, LoaderOpen
  <2> QED BY <2>1, <2>3, <2>4 DEF ThreadsOK, LoaderOpen, audioVars, ipcVars
<1>5. MutexHeld'
  BY DEF IInv, MutexHeld, LoaderOpen, Return, NoCapture, uris, decoders, counters, seeking, audioVars,
     ipcVars, history
<1>6. DecodersMatchUris' /\ PreloadedIsAnother' /\ NextIsAnotherTrack'
  BY TypeParts DEF IInv, NumbersOK, Decoder, MutexHeld, DecodersMatchUris, PreloadedIsAnother,
     NextIsAnotherTrack, LoaderOpen, Return, NoCapture, uris, decoders, counters, seeking, audioVars,
     ipcVars, history
<1>7. QueueKnown'
  BY DEF IInv, QueueKnown, LastQueued, LoaderOpen, Return, NoCapture, uris, decoders, counters, seeking,
     audioVars, ipcVars, history
<1>8. SeekKnown'
  BY DEF IInv, SeekKnown, LoaderOpen, Return, NoCapture, uris, decoders, counters, seeking, audioVars,
     ipcVars, history
<1> QED BY <1>1, <1>2, <1>3, <1>4, <1>5, <1>6, <1>7, <1>8, TypeParts DEF IInv

\* Under m_mutex again, the URI must still be the next one, and not the current one.
LEMMA LoaderCommitKeeps ==
  ASSUME IInv, NEW p \in Loaders, LoaderCommit(p)
  PROVE  IInv'
<1>1. NamesOK'
  BY TypeParts DEF IInv, NamesOK, Uri, LoaderCommit, Return, NoCapture, counters, seeking, audioVars,
     ipcVars, history
<1>2. FlagsOK'
  BY TypeParts DEF IInv, FlagsOK, LoaderCommit, Return, NoCapture, counters, seeking, audioVars,
     ipcVars, history
<1>3. NumbersOK'
  BY TypeParts DEF IInv, NumbersOK, Decoder, Uri, LoaderCommit, Return, NoCapture, counters, seeking,
     audioVars, ipcVars, history
<1>4. ThreadsOK'
  BY TypeParts DEF IInv, ThreadsOK, AudioPc, LoaderPc, IpcPc, Uri, LoaderCommit, Return, NoCapture,
     counters, seeking, audioVars, ipcVars, history
<1>5. MutexHeld'
  BY DEF IInv, MutexHeld, LoaderCommit, Return, NoCapture, counters, seeking, audioVars, ipcVars,
     history
<1>6. DecodersMatchUris' /\ PreloadedIsAnother' /\ NextIsAnotherTrack'
  BY TypeParts DEF IInv, NumbersOK, Decoder, MutexHeld, DecodersMatchUris, PreloadedIsAnother,
     NextIsAnotherTrack, LoaderCommit, Return, NoCapture, counters, seeking, audioVars, ipcVars, history
<1>7. QueueKnown'
  BY DEF IInv, QueueKnown, LastQueued, LoaderCommit, Return, NoCapture, counters, seeking, audioVars,
     ipcVars, history
<1>8. SeekKnown'
  BY DEF IInv, SeekKnown, LoaderCommit, Return, NoCapture, counters, seeking, audioVars, ipcVars,
     history
<1> QED BY <1>1, <1>2, <1>3, <1>4, <1>5, <1>6, <1>7, <1>8, TypeParts DEF IInv

LEMMA LoaderExitKeeps ==
  ASSUME IInv, LoaderExit
  PROVE  IInv'
<1>1. NamesOK'
  BY TypeParts DEF IInv, NamesOK, Uri, LoaderExit, uris, decoders, counters, seeking, audioVars,
     ipcVars, history
<1>2. FlagsOK'
  BY TypeParts DEF IInv, FlagsOK, LoaderExit, uris, decoders, counters, seeking, audioVars, ipcVars,
     history
<1>3. NumbersOK'
  BY TypeParts DEF IInv, NumbersOK, Decoder, Uri, LoaderExit, uris, decoders, counters, seeking,
     audioVars, ipcVars, history
<1>4. ThreadsOK'
  BY TypeParts DEF IInv, ThreadsOK, AudioPc, LoaderPc, IpcPc, Uri, LoaderExit, uris, decoders, counters,
     seeking, audioVars, ipcVars, history
<1>5. MutexHeld'
  BY DEF IInv, MutexHeld, LoaderExit, uris, decoders, counters, seeking, audioVars, ipcVars, history
<1>6. DecodersMatchUris' /\ PreloadedIsAnother' /\ NextIsAnotherTrack'
  BY TypeParts DEF IInv, NumbersOK, Decoder, MutexHeld, DecodersMatchUris, PreloadedIsAnother,
     NextIsAnotherTrack, LoaderExit, uris, decoders, counters, seeking, audioVars, ipcVars, history
<1>7. QueueKnown'
  BY DEF IInv, QueueKnown, LastQueued, LoaderExit, uris, decoders, counters, seeking, audioVars,
     ipcVars, history
<1>8. SeekKnown'
  BY DEF IInv, SeekKnown, LoaderExit, uris, decoders, counters, seeking, audioVars, ipcVars, history
<1> QED BY <1>1, <1>2, <1>3, <1>4, <1>5, <1>6, <1>7, <1>8, TypeParts DEF IInv

-----------------------------------------------------------------------------
(* The other steps, and the theorems. *)

\* A command begins with a list of calls.
LEMMA BeginKeeps ==
  ASSUME IInv, NEW command, NEW list \in Seq(Call), Begin(command, list), r_currentURI' \in Uri
  PROVE  IInv'
<1>1. NamesOK'
  BY TypeParts DEF IInv, NamesOK, Begin, uris, decoders, history
<1>2. FlagsOK' /\ NumbersOK'
  BY TypeParts DEF IInv, FlagsOK, NumbersOK, Begin, uris, decoders, counters, seeking, audioVars, loadVars, history
<1>3. ThreadsOK'
  BY TypeParts DEF IInv, ThreadsOK, Begin, audioVars, loadVars
<1>4. MutexHeld'
  BY DEF IInv, MutexHeld, Begin, audioVars
<1>5. DecodersMatchUris' /\ PreloadedIsAnother' /\ NextIsAnotherTrack'
  BY DEF IInv, DecodersMatchUris, PreloadedIsAnother, NextIsAnotherTrack, Begin, uris, decoders, audioVars
<1>6. QueueKnown' /\ SeekKnown'
  BY DEF IInv, QueueKnown, LastQueued, SeekKnown, Begin, uris, seeking, history
<1> QED BY <1>1, <1>2, <1>3, <1>4, <1>5, <1>6, TypeParts DEF IInv

\* The lists of the commands.
LEMMA Lists ==
  /\ StopIfActive \in Seq(Call) /\ StopIfActive \o <<"setUri">> \in Seq(Call)
  /\ \A active \in BOOLEAN : PlayCurrent(active) \subseteq Seq(Call)
  /\ \A active \in BOOLEAN : \A list \in PlayCurrent(active) :
       StopIfActive \o <<"setUri">> \o list \in Seq(Call)
  /\ <<"stop">> \in Seq(Call) /\ <<"stop", "force">> \in Seq(Call)
<1>1. StopIfActive \in Seq(Call)
  <2>1. <<>> \in Seq(Call)
    OBVIOUS
  <2>2. <<"stop">> \in Seq(Call)
    BY DEF Call
  <2> QED BY <2>1, <2>2 DEF StopIfActive
<1>2. StopIfActive \o <<"setUri">> \in Seq(Call)
  <2>1. <<"setUri">> \in Seq(Call)
    BY DEF Call
  <2> QED BY <1>1, <2>1
<1>3. ASSUME NEW active \in BOOLEAN
      PROVE  PlayCurrent(active) \subseteq Seq(Call)
  <2> DEFINE starts == {<<"play">>, <<"force", "play">>}
                       \cup (IF active THEN {<<"stop", "force", "play">>} ELSE {})
             ends == {<<>>, <<"stop">>}
  <2>1. starts \subseteq Seq(Call)
    <3>1. <<"play">> \in Seq(Call)
      BY DEF Call
    <3>2. <<"force", "play">> \in Seq(Call)
      BY DEF Call
    <3>3. <<"stop", "force", "play">> \in Seq(Call)
      BY DEF Call
    <3> QED BY <3>1, <3>2, <3>3
  <2>2. ends \subseteq Seq(Call)
    <3>1. <<>> \in Seq(Call)
      OBVIOUS
    <3>2. <<"stop">> \in Seq(Call)
      BY DEF Call
    <3> QED BY <3>1, <3>2
  <2>3. PlayCurrent(active) = {start \o end : start \in starts, end \in ends}
    BY DEF PlayCurrent
  <2> HIDE DEF starts, ends
  <2>4. ASSUME NEW start \in Seq(Call), NEW end \in Seq(Call)
        PROVE  start \o end \in Seq(Call)
    OBVIOUS
  <2>5. ASSUME NEW list \in PlayCurrent(active)
        PROVE  list \in Seq(Call)
    <3>1. PICK start \in starts, end \in ends : list = start \o end
      BY <2>3, <2>5
    <3>2. start \in Seq(Call) /\ end \in Seq(Call)
      BY <2>1, <2>2
    <3> QED BY <2>4, <3>1, <3>2
  <2> QED BY <2>5
<1>4. ASSUME NEW active \in BOOLEAN, NEW list \in PlayCurrent(active)
      PROVE  StopIfActive \o <<"setUri">> \o list \in Seq(Call)
  BY <1>2, <1>3
<1>5. <<"stop">> \in Seq(Call) /\ <<"stop", "force">> \in Seq(Call)
  BY DEF Call
<1> QED BY <1>1, <1>2, <1>3, <1>4, <1>5

LEMMA CommandsKeep ==
  ASSUME IInv, (\E uri \in Track : SetUri(uri) \/ PlayNow(uri)) \/ Resume \/ Stop
  PROVE  IInv'
<1>1. ASSUME NEW uri \in Track, SetUri(uri)
      PROVE  IInv'
  BY <1>1, Lists, BeginKeeps DEF SetUri, Uri
<1>2. ASSUME NEW uri \in Track, PlayNow(uri)
      PROVE  IInv'
  BY <1>2, Lists, BeginKeeps DEF PlayNow, Uri
<1>3. r_currentURI \in Uri
  BY TypeParts DEF IInv, NamesOK
<1>4. CASE Resume
  <2>1. PICK list \in PlayCurrent(m_state # "stopped") : Begin("resume", list)
    BY <1>4 DEF Resume
  <2>2. r_currentURI' \in Uri /\ (m_state # "stopped") \in BOOLEAN
    BY <1>3, <1>4 DEF Resume
  <2> QED BY <2>1, <2>2, Lists, BeginKeeps
<1>5. CASE Stop
  BY <1>3, <1>5, Lists, BeginKeeps DEF Stop
<1> QED BY <1>1, <1>2, <1>4, <1>5

LEMMA StutterKeeps ==
  ASSUME IInv, UNCHANGED vars
  PROVE  IInv'
<1>1. NamesOK' /\ FlagsOK'
  BY TypeParts DEF IInv, NamesOK, FlagsOK, vars, uris, decoders, counters, seeking, audioVars, loadVars, ipcVars,
     history
<1>2. NumbersOK'
  BY TypeParts DEF IInv, NumbersOK, vars, decoders, counters, seeking, audioVars, ipcVars, history
<1>3. ThreadsOK'
  BY TypeParts DEF IInv, ThreadsOK, vars, audioVars, loadVars, ipcVars
<1>4. MutexHeld' /\ QueueKnown' /\ SeekKnown'
  BY DEF IInv, MutexHeld, QueueKnown, LastQueued, SeekKnown, vars, uris, seeking, audioVars, ipcVars, history
<1>5. DecodersMatchUris' /\ PreloadedIsAnother' /\ NextIsAnotherTrack'
  BY DEF IInv, DecodersMatchUris, PreloadedIsAnother, NextIsAnotherTrack, vars, uris, decoders, audioVars
<1> QED BY <1>1, <1>2, <1>3, <1>4, <1>5, TypeParts DEF IInv

LEMMA InitIInv == Init => IInv
<1> SUFFICES ASSUME Init PROVE IInv
  OBVIOUS
<1>1. NamesOK /\ FlagsOK
  BY DEF Init, NamesOK, FlagsOK, Uri
<1>2. NumbersOK
  BY DEF Init, NumbersOK, Uri
<1>3. ThreadsOK
  BY DEF Init, ThreadsOK, AudioPc, LoaderPc, IpcPc, NoCapture, Uri
<1>4. MutexHeld /\ QueueKnown /\ SeekKnown
  BY DEF Init, MutexHeld, QueueKnown, LastQueued, SeekKnown
<1>5. DecodersMatchUris /\ PreloadedIsAnother /\ NextIsAnotherTrack
  BY DEF Init, DecodersMatchUris, PreloadedIsAnother, NextIsAnotherTrack
<1> QED BY <1>1, <1>2, <1>3, <1>4, <1>5, TypeParts DEF IInv

\* The type invariant and what the theorems below rest on.
THEOREM Inductive == Spec => []IInv
<1>1. Init => IInv
  BY InitIInv
<1>2. IInv /\ [Next]_vars => IInv'
  <2> SUFFICES ASSUME IInv, [Next]_vars PROVE IInv'
    OBVIOUS
  <2>1. CASE CommandThread
    <3>1. CASE (\E uri \in Track : SetUri(uri) \/ PlayNow(uri)) \/ Resume \/ Stop
      BY <3>1, CommandsKeep
    <3>2. CASE \/ \E uri \in Track : QueueNext(uri)
               \/ \E target \in 0..Length : Seek(target)
               \/ Pause \/ ClearNext \/ QueueNextFlag \/ SeekFlag
      BY <3>2, QueueNextKeeps, SeekKeeps, PauseKeeps, ClearNextKeeps, QueueNextFlagKeeps, SeekFlagKeeps
    <3>3. CASE StopState \/ StopFlag \/ StopPending \/ StopJoin \/ StopClean
      BY <3>3, StopStateKeeps, StopFlagKeeps, StopPendingKeeps, StopJoinKeeps, StopCleanKeeps
    <3>4. CASE SetCurrentURI \/ PlayResume \/ PlayStart \/ PlayFail \/ PlayJoin
      BY <3>4, SetCurrentURIKeeps, PlayResumeKeeps, PlayStartKeeps, PlayFailKeeps, PlayJoinKeeps
    <3> QED BY <2>1, <3>1, <3>2, <3>3, <3>4 DEF CommandThread
  <2>2. CASE AudioThread
    BY <2>2, ProcessEnterKeeps, ProcessRestKeeps, ProcessSeekClearKeeps, ProcessSeekApplyKeeps, ProcessLockKeeps,
       ProcessTakePendingKeeps, ProcessApplyPendingKeeps, ProcessJoinKeeps, ProcessReopenKeeps, ProcessReadKeeps,
       ProcessAwaitKeeps, ProcessRelockKeeps, ProcessDeliveredKeeps, ProcessRefusedKeeps, ProcessTransitionKeeps,
       ProcessNextFormatKeeps, ProcessDrainKeeps DEF AudioThread
  <2>3. CASE Preload
    BY <2>3, LoaderExitKeeps, LoaderCaptureKeeps, LoaderOpenKeeps, LoaderCommitKeeps DEF Preload
  <2>4. CASE UNCHANGED vars
    BY <2>4, StutterKeeps
  <2> QED BY <2>1, <2>2, <2>3, <2>4 DEF Next
<1> QED BY <1>1, <1>2, PTL DEF Spec

\* Every value stays in its range, and every thread inside a step of its own.
THEOREM TypeCorrect == Spec => []TypeOK
<1>1. IInv => TypeOK
  BY DEF IInv
<1> QED BY <1>1, Inductive, PTL

\* Whatever is queued, cleared, stopped, sought or preloaded meanwhile, no decoder plays
\* under the name of another track (commit of preloadNextTrack, transitionToNextTrack).
THEOREM TracksKeepTheirNames == Spec => []DecodersMatchUris
<1>1. IInv => DecodersMatchUris
  BY DEF IInv
<1> QED BY <1>1, Inductive, PTL

\* No track follows itself, whichever of the two moved last (process, preloadNextTrack).
THEOREM NoTrackFollowsItself == Spec => []NextIsAnotherTrack
<1>1. IInv => NextIsAnotherTrack
  BY DEF IInv
<1> QED BY <1>1, Inductive, PTL

\* A next track that was revoked is neither next nor pending, however late the audio
\* thread is with what it took (clearNextURI, stop, setCurrentURI).
THEOREM NothingRevokedReturns == Spec => []RevokedStaysRevoked
<1>1. IInv => RevokedStaysRevoked
  <2> SUFFICES ASSUME IInv, RendererFree, queued = None
               PROVE  m_nextURI = None /\ m_pendingNextURI = None
    BY DEF RevokedStaysRevoked
  <2>1. LastQueued = None
    BY DEF RendererFree, LastQueued
  <2> QED BY <2>1 DEF IInv, QueueKnown
<1> QED BY <1>1, Inductive, PTL
=============================================================================

---------------------------- MODULE Playback_proofs ----------------------------
(***************************************************************************)
(* The path of the audio for any playlist, any sizes of ring and block and *)
(* any choice of commands: no hole in the ring, and a stop that releases.  *)
(***************************************************************************)
EXTENDS Playback, SequenceTheorems, TLAPS

-----------------------------------------------------------------------------
(* A command's list of steps. *)

LEMMA EndOf ==
  ASSUME NEW list \in Seq(Step), NEW t \in Ends(list)
  PROVE  /\ t \in Seq(Step) /\ Len(t) <= Len(list)
         /\ \A i \in 1..Len(t) : t[i] = list[Len(list) - Len(t) + i]
         /\ t # <<>> => /\ Len(t) > 0 /\ Head(t) = list[Len(list) - Len(t) + 1]
                        /\ Tail(t) \in Ends(list) /\ Len(Tail(t)) = Len(t) - 1
                        /\ \A i \in 1..Len(t) - 1 : Tail(t)[i] = t[i + 1]
<1>1. PICK k \in 1..Len(list) + 1 : t = SubSeq(list, k, Len(list))
  BY DEF Ends
<1>2. Len(list) \in Nat
  BY LenProperties
<1>3. /\ t \in Seq(Step) /\ Len(t) = Len(list) + 1 - k
      /\ \A i \in 1..Len(t) : t[i] = list[k + i - 1]
  BY <1>1, <1>2, SubSeqProperties
<1>4. ASSUME t # <<>>
      PROVE  /\ Len(t) > 0 /\ Head(t) = t[1]
             /\ Tail(t) \in Ends(list) /\ Len(Tail(t)) = Len(t) - 1
             /\ \A i \in 1..Len(t) - 1 : Tail(t)[i] = t[i + 1]
  <2>3. t \in Seq(Step) /\ t # <<>>
    BY <1>3, <1>4
  <2>a. /\ Tail(t) \in Seq(Step) /\ Len(Tail(t)) = Len(t) - 1
        /\ \A i \in 1..Len(Tail(t)) : Tail(t)[i] = t[i + 1]
    BY ONLY <2>3, HeadTailProperties
  <2>b. Len(t) > 0 /\ Head(t) = t[1]
    BY ONLY <2>3
  <2>1. /\ Len(t) > 0 /\ Head(t) = t[1]
        /\ Len(Tail(t)) = Len(t) - 1
        /\ \A i \in 1..Len(t) - 1 : Tail(t)[i] = t[i + 1]
    BY <2>a, <2>b
  <2>2. k <= Len(list)
    BY <1>2, <1>3, <2>1
  <2>4. SubSeq(list, k + 1, Len(list)) = Tail(t)
    <3> DEFINE s == SubSeq(list, k + 1, Len(list))
    <3>1. /\ s \in Seq(Step) /\ Len(s) = Len(list) - k
          /\ \A i \in 1..Len(s) : s[i] = list[k + i]
      BY <1>2, <2>2, SubSeqProperties
    <3>2. \A i \in 1..Len(s) : s[i] = Tail(t)[i]
      BY <1>2, <1>3, <2>1, <2>2, <3>1
    <3>3. Len(s) = Len(Tail(t))
      BY <1>2, <1>3, <2>1, <2>2, <3>1
    <3> HIDE DEF s
    <3>4. s = Tail(t)
      BY ONLY <2>a, <3>1, <3>2, <3>3, SeqEqual
    <3> QED BY <3>4 DEF s
  <2>5. Tail(t) \in Ends(list)
    <3>1. k + 1 \in 1..Len(list) + 1
      BY <1>2, <2>2
    <3> QED BY ONLY <3>1, <2>4 DEF Ends
  <2> QED BY <2>1, <2>5
<1> QED BY <1>2, <1>3, <1>4

LEMMA WholeList ==
  ASSUME NEW list \in Seq(Step)
  PROVE  list \in Ends(list) /\ <<>> \in Ends(list)
<1>1. Len(list) \in Nat
  BY LenProperties
<1>2. SubSeq(list, 1, Len(list)) = list
  BY SubSeqFull
<1>3. SubSeq(list, Len(list) + 1, Len(list)) = <<>>
  BY <1>1, SubSeqEmpty
<1> QED BY <1>1, <1>2, <1>3 DEF Ends

\* What every list keeps to: a flush comes after its silence, a flag before its wait, and
\* after a wait the decoder or the target is let go.
Kept(list) ==
  /\ \A j \in 1..Len(list) - 1 :
       list[j + 1] # "hold" /\ (list[j + 1] = "flush" => list[j] = "silence")
  /\ \A j \in 1..Len(list) : list[j] = "flag" => j < Len(list) /\ list[j + 1] = "wait"
  /\ \A j \in 1..Len(list) : list[j] = "wait" =>
       \E i \in 1..Len(list) - j : /\ list[j + i] \in Renews
                                   /\ \A m \in 0..i - 1 :
                                        list[j + m] \in {"wait", "cut", "reconnect"}

LEMMA AfterEngineStops ==
  ASSUME NEW rest \in Seq(Step)
  PROVE  LET list == EngineStops \o rest
         IN  /\ list \in Seq(Step) /\ Len(list) = Len(rest) + 3
             /\ list[1] = "engine.stop" /\ list[2] = "flag" /\ list[3] = "wait"
             /\ \A i \in 1..Len(rest) : list[i + 3] = rest[i]
<1>1. /\ EngineStops \in Seq(Step) /\ Len(EngineStops) = 3
      /\ EngineStops[1] = "engine.stop" /\ EngineStops[2] = "flag" /\ EngineStops[3] = "wait"
  BY DEF EngineStops, Step
<1>2. Len(rest) \in Nat
  BY LenProperties
<1> DEFINE list == EngineStops \o rest
<1>3. /\ list \in Seq(Step) /\ Len(list) = Len(EngineStops) + Len(rest)
      /\ \A i \in 1..Len(EngineStops) + Len(rest) :
           list[i] = IF i <= Len(EngineStops) THEN EngineStops[i] ELSE rest[i - Len(EngineStops)]
  BY <1>1, ConcatProperties
<1> QED BY <1>1, <1>2, <1>3

\* The list of a command that stops the engine, by what it does after.
LEMMA StopKept ==
  ASSUME NEW rest \in Seq(Step),
         \A j \in 1..Len(rest) : /\ rest[j] \notin {"flag", "wait", "hold"}
                                 /\ rest[j] = "flush" => j > 1 /\ rest[j - 1] = "silence",
         \E n \in 1..Len(rest) : /\ rest[n] \in Renews
                                 /\ \A m \in 1..n - 1 : rest[m] \in {"wait", "cut", "reconnect"}
  PROVE  Kept(EngineStops \o rest)
<1> DEFINE list == EngineStops \o rest
<1>0. PICK n \in 1..Len(rest) : /\ rest[n] \in Renews
                                /\ \A m \in 1..n - 1 : rest[m] \in {"wait", "cut", "reconnect"}
  OBVIOUS
<1>1. Len(rest) \in Nat
  BY LenProperties
<1>2. /\ Len(list) = Len(rest) + 3
      /\ list[1] = "engine.stop" /\ list[2] = "flag" /\ list[3] = "wait"
      /\ \A i \in 1..Len(rest) : list[i + 3] = rest[i]
  BY AfterEngineStops
<1> HIDE DEF list
<1>3. ASSUME NEW j \in 1..Len(list), j > 3
      PROVE  list[j] \notin {"flag", "wait", "hold"} /\ (list[j] = "flush" => list[j - 1] = "silence")
  <2> DEFINE k == j - 3
  <2>1. k \in 1..Len(rest) /\ j = k + 3
    BY <1>1, <1>2, <1>3
  <2> HIDE DEF k
  <2>2. list[k + 3] = rest[k]
    BY <1>2, <2>1
  <2>3. rest[k] \notin {"flag", "wait", "hold"} /\ (rest[k] = "flush" => k > 1 /\ rest[k - 1] = "silence")
    BY <2>1
  <2>4. k > 1 => list[(k - 1) + 3] = rest[k - 1]
    <3>1. k > 1 => k - 1 \in 1..Len(rest)
      BY <1>1, <2>1
    <3> QED BY <1>2, <3>1, Zenon
  <2>5. (k - 1) + 3 = j - 1
    BY <1>1, <2>1
  <2> QED BY <2>1, <2>2, <2>3, <2>4, <2>5
<1>4. ASSUME NEW j \in 1..Len(list) - 1
      PROVE  list[j + 1] # "hold" /\ (list[j + 1] = "flush" => list[j] = "silence")
  <2>1. CASE j <= 2
    BY <1>1, <1>2, <2>1
  <2>2. CASE j > 2
    <3>1. j + 1 \in 1..Len(list) /\ j + 1 > 3 /\ (j + 1) - 1 = j
      BY <1>1, <1>2, <2>2
    <3> QED BY <1>3, <3>1
  <2> QED BY <2>1, <2>2
<1>5. ASSUME NEW j \in 1..Len(list), list[j] = "flag"
      PROVE  j < Len(list) /\ list[j + 1] = "wait"
  <2>1. ~(j > 3)
    BY <1>3, <1>5
  <2>2. j = 2
    BY <1>1, <1>2, <1>5, <2>1
  <2> QED BY <1>1, <1>2, <2>2
<1>6. ASSUME NEW j \in 1..Len(list), list[j] = "wait"
      PROVE  \E i \in 1..Len(list) - j :
                /\ list[j + i] \in Renews
                /\ \A m \in 0..i - 1 : list[j + m] \in {"wait", "cut", "reconnect"}
  <2>a. ~(j > 3)
    BY <1>3, <1>6
  <2>1. j = 3
    BY <1>1, <1>2, <1>6, <2>a
  <2>2. list[3 + n] \in Renews
    BY <1>0, <1>1, <1>2
  <2>3. ASSUME NEW m \in 0..n - 1
        PROVE  list[3 + m] \in {"wait", "cut", "reconnect"}
    <3>1. CASE m = 0
      BY <1>2, <3>1
    <3>2. CASE m # 0
      <4>1. m \in 1..n - 1 /\ m \in 1..Len(rest)
        BY <1>1, <3>2
      <4>2. list[m + 3] = rest[m] /\ rest[m] \in {"wait", "cut", "reconnect"}
        BY <1>0, <1>2, <4>1
      <4> QED BY <4>2
    <3> QED BY <3>1, <3>2
  <2>4. n \in 1..Len(list) - 3
    BY <1>1, <1>2
  <2> QED BY <2>1, <2>2, <2>3, <2>4
<1> QED BY <1>4, <1>5, <1>6 DEF Kept, list

\* ... and of the others, which stop nothing.
LEMMA OthersKept ==
  ASSUME NEW list \in Seq(Step),
         \A j \in 1..Len(list) : list[j] \notin {"flag", "wait", "flush"},
         \A j \in 2..Len(list) : list[j] # "hold"
  PROVE  Kept(list)
<1>1. Len(list) \in Nat
  BY LenProperties
<1> QED BY <1>1 DEF Kept

LEMMA ProgramsKept ==
  ASSUME NEW list \in Programs
  PROVE  list \in Seq(Step) /\ Kept(list)
<1>1. CASE list = StopSteps
  <2> DEFINE rest == <<"reopen", "silence", "flush", "release">>
  <2>1. /\ rest \in Seq(Step) /\ Len(rest) = 4
        /\ rest[1] = "reopen" /\ rest[2] = "silence" /\ rest[3] = "flush" /\ rest[4] = "release"
    BY DEF Step
  <2> HIDE DEF rest
  <2>2. list = EngineStops \o rest
    BY <1>1 DEF StopSteps, rest
  <2>3. list \in Seq(Step)
    BY <2>1, <2>2, AfterEngineStops
  <2>4. \A j \in 1..Len(rest) : /\ rest[j] \notin {"flag", "wait", "hold"}
                                /\ rest[j] = "flush" => j > 1 /\ rest[j - 1] = "silence"
    BY <2>1
  <2>5. \E n \in 1..Len(rest) : /\ rest[n] \in Renews
                                /\ \A m \in 1..n - 1 : rest[m] \in {"wait", "cut", "reconnect"}
    BY <2>1 DEF Renews
  <2> QED BY <2>1, <2>2, <2>3, <2>4, <2>5, StopKept
<1>2. CASE list = EngineStops \o <<"cut", "replace", "play">>
  <2> DEFINE rest == <<"cut", "replace", "play">>
  <2>1. /\ rest \in Seq(Step) /\ Len(rest) = 3
        /\ rest[1] = "cut" /\ rest[2] = "replace" /\ rest[3] = "play"
    BY DEF Step
  <2> HIDE DEF rest
  <2>2. list = EngineStops \o rest
    BY <1>2 DEF rest
  <2>3. list \in Seq(Step)
    BY <2>1, <2>2, AfterEngineStops
  <2>4. \A j \in 1..Len(rest) : /\ rest[j] \notin {"flag", "wait", "hold"}
                                /\ rest[j] = "flush" => j > 1 /\ rest[j - 1] = "silence"
    BY <2>1
  <2>5. \E n \in 1..Len(rest) : /\ rest[n] \in Renews
                                /\ \A m \in 1..n - 1 : rest[m] \in {"wait", "cut", "reconnect"}
    BY <2>1 DEF Renews
  <2> QED BY <2>1, <2>2, <2>3, <2>4, <2>5, StopKept
<1>3. CASE list = EngineStops \o <<"release">>
  <2> DEFINE rest == <<"release">>
  <2>1. rest \in Seq(Step) /\ Len(rest) = 1 /\ rest[1] = "release"
    BY DEF Step
  <2> HIDE DEF rest
  <2>2. list = EngineStops \o rest
    BY <1>3 DEF rest
  <2>3. list \in Seq(Step)
    BY <2>1, <2>2, AfterEngineStops
  <2>4. \A j \in 1..Len(rest) : /\ rest[j] \notin {"flag", "wait", "hold"}
                                /\ rest[j] = "flush" => j > 1 /\ rest[j - 1] = "silence"
    BY <2>1
  <2>5. \E n \in 1..Len(rest) : /\ rest[n] \in Renews
                                /\ \A m \in 1..n - 1 : rest[m] \in {"wait", "cut", "reconnect"}
    BY <2>1 DEF Renews
  <2> QED BY <2>1, <2>2, <2>3, <2>4, <2>5, StopKept
<1>4. CASE list = EngineStops \o <<"reconnect", "reopen", "check">>
  <2> DEFINE rest == <<"reconnect", "reopen", "check">>
  <2>1. /\ rest \in Seq(Step) /\ Len(rest) = 3
        /\ rest[1] = "reconnect" /\ rest[2] = "reopen" /\ rest[3] = "check"
    BY DEF Step
  <2> HIDE DEF rest
  <2>2. list = EngineStops \o rest
    BY <1>4 DEF rest
  <2>3. list \in Seq(Step)
    BY <2>1, <2>2, AfterEngineStops
  <2>4. \A j \in 1..Len(rest) : /\ rest[j] \notin {"flag", "wait", "hold"}
                                /\ rest[j] = "flush" => j > 1 /\ rest[j - 1] = "silence"
    BY <2>1
  <2>5. \E n \in 1..Len(rest) : /\ rest[n] \in Renews
                                /\ \A m \in 1..n - 1 : rest[m] \in {"wait", "cut", "reconnect"}
    BY <2>1 DEF Renews
  <2> QED BY <2>1, <2>2, <2>3, <2>4, <2>5, StopKept
<1>5. CASE \E x \in {"play", "pause", "hold", "release"} : list = <<x>>
  <2>1. PICK x \in {"play", "pause", "hold", "release"} : list = <<x>>
    BY <1>5
  <2>2. x \in Step
    BY DEF Step
  <2>3. list \in Seq(Step) /\ Len(list) = 1 /\ list[1] = x
    BY <2>1, <2>2
  <2> QED BY <2>3, OthersKept
<1>6. CASE \E p \in {"reconnect", "replace", "resume", "engine.play"},
              q \in {"check", "play", "engine.play", "ready"} : list = <<p, q>>
  <2>1. PICK p \in {"reconnect", "replace", "resume", "engine.play"},
             q \in {"check", "play", "engine.play", "ready"} : list = <<p, q>>
    BY <1>6
  <2>2. p \in Step /\ q \in Step
    BY DEF Step
  <2>3. list \in Seq(Step) /\ Len(list) = 2 /\ list[1] = p /\ list[2] = q
    BY <2>1, <2>2
  <2> QED BY <2>3, OthersKept
<1>7. CASE list = <<"reopen", "engine.play", "ready">>
  <2>1. /\ list \in Seq(Step) /\ Len(list) = 3
        /\ list[1] = "reopen" /\ list[2] = "engine.play" /\ list[3] = "ready"
    BY <1>7 DEF Step
  <2> QED BY <2>1, OthersKept
<1> QED BY <1>1, <1>2, <1>3, <1>4, <1>5, <1>6, <1>7 DEF Programs

\* What is left of a list: the step after a step, and what still comes after a wait.
LEMMA RestOf ==
  ASSUME NEW t \in Steps
  PROVE  /\ t \in Seq(Step)
         /\ t # <<>> => /\ Len(t) > 0 /\ Tail(t) \in Steps /\ Len(Tail(t)) = Len(t) - 1
                        /\ Head(t) = t[1]
                        /\ Head(t) = "wait" => WillRenew(t)
                        /\ Head(t) = "flag" => Tail(t) # <<>> /\ Head(Tail(t)) = "wait"
                        /\ Tail(t) # <<>> /\ Head(Tail(t)) = "flush" => Head(t) = "silence"
                        /\ Tail(t) # <<>> => Head(Tail(t)) # "hold"
<1>1. PICK list \in Programs : t \in Ends(list)
  BY DEF Steps
<1>2. list \in Seq(Step) /\ Kept(list) /\ Len(list) \in Nat
  BY ProgramsKept, LenProperties
<1>3. /\ t \in Seq(Step) /\ Len(t) <= Len(list)
      /\ \A i \in 1..Len(t) : t[i] = list[Len(list) - Len(t) + i]
      /\ t # <<>> => /\ Len(t) > 0 /\ Head(t) = list[Len(list) - Len(t) + 1]
                     /\ Tail(t) \in Ends(list) /\ Len(Tail(t)) = Len(t) - 1
                     /\ \A i \in 1..Len(t) - 1 : Tail(t)[i] = t[i + 1]
  BY <1>1, <1>2, EndOf
<1> SUFFICES ASSUME t # <<>>
             PROVE  /\ Len(t) > 0 /\ Tail(t) \in Steps /\ Len(Tail(t)) = Len(t) - 1
                    /\ Head(t) = t[1]
                    /\ Head(t) = "wait" => WillRenew(t)
                    /\ Head(t) = "flag" => Tail(t) # <<>> /\ Head(Tail(t)) = "wait"
                    /\ Tail(t) # <<>> /\ Head(Tail(t)) = "flush" => Head(t) = "silence"
                    /\ Tail(t) # <<>> => Head(Tail(t)) # "hold"
  BY <1>3
<1> DEFINE k == Len(list) - Len(t) + 1
<1>4. /\ k \in 1..Len(list) /\ Len(t) \in Nat /\ Len(t) = Len(list) + 1 - k /\ Len(t) > 0
      /\ \A i \in 1..Len(t) : t[i] = list[k + i - 1]
      /\ Head(t) = list[k] /\ t[1] = list[k]
      /\ Tail(t) \in Ends(list) /\ Len(Tail(t)) = Len(t) - 1
  <2>1. Len(t) \in Nat /\ Len(t) > 0 /\ Len(t) <= Len(list)
    BY <1>3, LenProperties
  <2>2. ASSUME NEW i \in 1..Len(t)
        PROVE  t[i] = list[k + i - 1]
    <3>1. k + i - 1 = Len(list) - Len(t) + i
      BY <1>2, <2>1
    <3> QED BY <1>3, <3>1
  <2>3. t[1] = list[k]
    BY <1>2, <2>1, <2>2
  <2> QED BY <1>2, <1>3, <2>1, <2>2, <2>3
<1>5. Tail(t) # <<>> => k < Len(list) /\ Head(Tail(t)) = list[k + 1]
  <2> SUFFICES ASSUME Tail(t) # <<>>
               PROVE  k < Len(list) /\ Head(Tail(t)) = list[k + 1]
    OBVIOUS
  <2>1. Len(Tail(t)) > 0 /\ Head(Tail(t)) = list[Len(list) - Len(Tail(t)) + 1]
    BY <1>2, <1>4, EndOf
  <2>2. Len(list) - Len(Tail(t)) + 1 = k + 1 /\ k < Len(list)
    BY <1>2, <1>4, <2>1
  <2> QED BY <2>1, <2>2
<1>6. k < Len(list) => Tail(t) # <<>>
  <2>1. Len(<<>>) = 0
    OBVIOUS
  <2>2. k < Len(list) => Len(Tail(t)) # 0
    <3> HIDE DEF k
    <3>1. Len(Tail(t)) = Len(t) - 1
      BY <1>4, Zenon
    <3>2. Len(t) \in Nat /\ Len(list) \in Nat /\ k \in Int /\ Len(t) = Len(list) + 1 - k
      BY <1>2, <1>4
    <3>3. k < Len(list) => Len(t) # 1
      BY <3>2
    <3>4. Len(t) # 1 => Len(t) - 1 # 0
      BY <3>2
    <3> QED BY <3>1, <3>3, <3>4, Zenon
  <2> QED BY ONLY <2>1, <2>2, Zenon
<1> HIDE DEF k
<1>7. ASSUME list[k] = "wait"
      PROVE  WillRenew(t)
  <2>1. PICK i \in 1..Len(list) - k :
               /\ list[k + i] \in Renews
               /\ \A m \in 0..i - 1 : list[k + m] \in {"wait", "cut", "reconnect"}
    BY <1>2, <1>4, <1>7 DEF Kept
  <2>2. i + 1 \in 1..Len(t) /\ t[i + 1] = list[k + i]
    <3>1. i + 1 \in 1..Len(t) /\ k + (i + 1) - 1 = k + i
      BY <1>2, <1>4
    <3> QED BY <1>4, <3>1
  <2>3. ASSUME NEW j \in 1..(i + 1) - 1
        PROVE  t[j] \in {"wait", "cut", "reconnect"}
    <3>1. j \in 1..Len(t) /\ k + j - 1 = k + (j - 1) /\ j - 1 \in 0..i - 1
      BY <1>2, <1>4
    <3>2. t[j] = list[k + (j - 1)]
      BY <1>4, <3>1
    <3> QED BY <2>1, <3>1, <3>2
  <2> QED BY <2>1, <2>2, <2>3 DEF WillRenew
<1>8. list[k] = "flag" => k < Len(list) /\ list[k + 1] = "wait"
  BY <1>2, <1>4 DEF Kept
<1>9. k < Len(list) => list[k + 1] # "hold" /\ (list[k + 1] = "flush" => list[k] = "silence")
  <2> SUFFICES ASSUME k < Len(list)
               PROVE  list[k + 1] # "hold" /\ (list[k + 1] = "flush" => list[k] = "silence")
    OBVIOUS
  <2>1. k \in 1..Len(list) - 1
    BY <1>2, <1>4
  <2> QED BY <1>2, <2>1 DEF Kept
<1>10. Tail(t) \in Steps
  BY <1>1, <1>4 DEF Steps
<1> QED BY <1>4, <1>5, <1>6, <1>7, <1>8, <1>9, <1>10

\* A list that renews before anything else still does when another step has been taken.
LEMMA StillRenews ==
  ASSUME NEW t \in Steps, WillRenew(t)
  PROVE  /\ t # <<>> /\ Head(t) \in {"wait", "cut", "reconnect"} \cup Renews
         /\ Head(t) \notin Renews => WillRenew(Tail(t))
<1>1. PICK i \in 1..Len(t) : /\ t[i] \in Renews
                             /\ \A j \in 1..i - 1 : t[j] \in {"wait", "cut", "reconnect"}
  BY DEF WillRenew
<1>2. t \in Seq(Step) /\ Len(t) \in Nat /\ i \in Nat /\ i >= 1 /\ i <= Len(t)
  BY RestOf, LenProperties
<1>3. t # <<>>
  BY <1>2
<1>4. Head(t) = t[1] /\ Len(Tail(t)) = Len(t) - 1
  BY <1>3, RestOf
<1>5. \A j \in 1..Len(t) - 1 : Tail(t)[j] = t[j + 1]
  BY <1>2, <1>3, <1>4, HeadTailProperties
<1>6. Head(t) \in {"wait", "cut", "reconnect"} \cup Renews
  <2>1. CASE i = 1
    BY <1>1, <1>4, <2>1
  <2>2. CASE i # 1
    BY <1>1, <1>2, <1>4, <2>2
  <2> QED BY <2>1, <2>2
<1>7. ASSUME Head(t) \notin Renews
      PROVE  WillRenew(Tail(t))
  <2>1. i # 1
    BY <1>1, <1>4, <1>7
  <2>2. i - 1 \in 1..Len(Tail(t)) /\ Tail(t)[i - 1] = t[i]
    <3>1. i - 1 \in 1..Len(t) - 1 /\ (i - 1) + 1 = i
      BY <1>2, <2>1
    <3> QED BY <1>4, <1>5, <3>1
  <2>3. ASSUME NEW j \in 1..(i - 1) - 1
        PROVE  Tail(t)[j] \in {"wait", "cut", "reconnect"}
    <3>1. j \in 1..Len(t) - 1 /\ j + 1 \in 1..i - 1
      BY <1>2
    <3> QED BY <1>1, <1>5, <3>1
  <2> QED BY <1>1, <2>2, <2>3 DEF WillRenew
<1> QED BY <1>3, <1>6, <1>7

\* The lists that commands begin with; only a pause that is carried out goes on to hold.
Begun(list) ==
  list \in Steps /\ (list # <<>> => Head(list) # "flush" /\ Head(list) # "hold")

LEMMA Begins ==
  /\ Begun(<<>>) /\ Begun(<<"play">>) /\ Begun(<<"pause">>) /\ Begun(<<"release">>)
  /\ Begun(<<"reconnect", "check">>) /\ Begun(<<"replace", "play">>)
  /\ Begun(<<"resume", "engine.play">>) /\ Begun(<<"engine.play", "ready">>)
  /\ Begun(<<"reopen", "engine.play", "ready">>)
  /\ Begun(StopSteps) /\ Begun(EngineStops \o <<"cut", "replace", "play">>)
  /\ Begun(EngineStops \o <<"release">>)
  /\ Begun(EngineStops \o <<"reconnect", "reopen", "check">>)
  /\ <<"hold">> \in Steps
<1>1. ASSUME NEW list \in Programs
      PROVE  list \in Steps
  BY ProgramsKept, WholeList DEF Steps
<1>2. Begun(<<>>)
  <2>1. <<"play">> \in Programs
    BY DEF Programs
  <2> QED BY <2>1, ProgramsKept, WholeList DEF Steps, Begun
<1>3. ASSUME NEW rest \in Seq(Step), EngineStops \o rest \in Programs
      PROVE  Begun(EngineStops \o rest)
  <2> DEFINE list == EngineStops \o rest
  <2>1. list \in Seq(Step) /\ Len(list) = Len(rest) + 3 /\ list[1] = "engine.stop"
    BY AfterEngineStops
  <2> HIDE DEF list
  <2>2. Head(list) = "engine.stop"
    BY <2>1
  <2>3. list \in Steps
    BY <1>1, <1>3 DEF list
  <2> QED BY <2>2, <2>3 DEF Begun, list
<1>4. /\ <<"reopen", "silence", "flush", "release">> \in Seq(Step)
      /\ <<"cut", "replace", "play">> \in Seq(Step) /\ <<"release">> \in Seq(Step)
      /\ <<"reconnect", "reopen", "check">> \in Seq(Step)
  BY DEF Step
<1>5. /\ Begun(StopSteps) /\ Begun(EngineStops \o <<"cut", "replace", "play">>)
      /\ Begun(EngineStops \o <<"release">>)
      /\ Begun(EngineStops \o <<"reconnect", "reopen", "check">>)
  BY <1>3, <1>4, Zenon DEF Programs, StopSteps
<1>6. /\ Begun(<<"play">>) /\ Begun(<<"pause">>) /\ Begun(<<"release">>)
      /\ Begun(<<"reconnect", "check">>) /\ Begun(<<"replace", "play">>)
      /\ Begun(<<"resume", "engine.play">>) /\ Begun(<<"engine.play", "ready">>)
      /\ Begun(<<"reopen", "engine.play", "ready">>) /\ <<"hold">> \in Steps
  <2>1. /\ <<"play">> \in Steps /\ <<"pause">> \in Steps /\ <<"release">> \in Steps
        /\ <<"reconnect", "check">> \in Steps /\ <<"replace", "play">> \in Steps
        /\ <<"resume", "engine.play">> \in Steps /\ <<"engine.play", "ready">> \in Steps
        /\ <<"reopen", "engine.play", "ready">> \in Steps /\ <<"hold">> \in Steps
    BY <1>1, Zenon DEF Programs
  <2>2. /\ \A x \in {"play", "pause", "release"} : Head(<<x>>) = x
        /\ Head(<<"reconnect", "check">>) = "reconnect" /\ Head(<<"replace", "play">>) = "replace"
        /\ Head(<<"resume", "engine.play">>) = "resume"
        /\ Head(<<"engine.play", "ready">>) = "engine.play"
        /\ Head(<<"reopen", "engine.play", "ready">>) = "reopen"
    OBVIOUS
  <2> QED BY <2>1, <2>2 DEF Begun
<1> QED BY <1>2, <1>5, <1>6

\* A stop by what is left of it.
LEMMA StopLists ==
  /\ StopSteps \in Ends(StopSteps) /\ Len(StopSteps) = 7
  /\ \A t \in Ends(StopSteps) \cup Ends(<<"release">>) :
       t # <<>> =>
         /\ Len(t) \in 1..7 /\ Len(Tail(t)) = Len(t) - 1
         /\ Tail(t) \in Ends(StopSteps) \cup Ends(<<"release">>)
         /\ Head(t) = "engine.stop" => Len(t) = 7
         /\ Head(t) = "flag" => Len(t) = 6
         /\ Head(t) = "wait" => Len(t) = 5
         /\ Head(t) = "reopen" => Len(t) = 4
         /\ Head(t) = "silence" => Len(t) = 3
         /\ Head(t) = "flush" => Len(t) = 2
         /\ Head(t) = "release" => Len(t) = 1
         /\ Head(t) \in {"engine.stop", "flag", "wait", "reopen", "silence", "flush", "release"}
<1> DEFINE rest == <<"reopen", "silence", "flush", "release">>
<1>1. /\ rest \in Seq(Step) /\ Len(rest) = 4
      /\ rest[1] = "reopen" /\ rest[2] = "silence" /\ rest[3] = "flush" /\ rest[4] = "release"
  BY DEF Step
<1>2. StopSteps = EngineStops \o rest
  BY DEF StopSteps
<1> HIDE DEF rest
<1>3. /\ StopSteps \in Seq(Step) /\ Len(StopSteps) = 7
      /\ StopSteps[1] = "engine.stop" /\ StopSteps[2] = "flag" /\ StopSteps[3] = "wait"
      /\ \A i \in 1..Len(rest) : StopSteps[i + 3] = rest[i]
  <2> DEFINE list == EngineStops \o rest
  <2>1. /\ list \in Seq(Step) /\ Len(list) = Len(rest) + 3
        /\ list[1] = "engine.stop" /\ list[2] = "flag" /\ list[3] = "wait"
        /\ \A i \in 1..Len(rest) : list[i + 3] = rest[i]
    BY <1>1, AfterEngineStops
  <2> HIDE DEF list
  <2>2. Len(list) = 7
    BY <1>1, <2>1
  <2>3. StopSteps = list
    BY <1>2 DEF list
  <2> QED BY <2>1, <2>2, <2>3
<1>4. /\ StopSteps[4] = "reopen" /\ StopSteps[5] = "silence"
      /\ StopSteps[6] = "flush" /\ StopSteps[7] = "release"
  <2>1. /\ StopSteps[1 + 3] = rest[1] /\ StopSteps[2 + 3] = rest[2]
        /\ StopSteps[3 + 3] = rest[3] /\ StopSteps[4 + 3] = rest[4]
    BY <1>1, <1>3
  <2> QED BY <1>1, <2>1
<1>5. ASSUME NEW t \in Ends(StopSteps), t # <<>>
      PROVE  /\ Len(t) \in 1..7 /\ Len(Tail(t)) = Len(t) - 1 /\ Tail(t) \in Ends(StopSteps)
             /\ Head(t) = StopSteps[8 - Len(t)]
  <2>1. /\ t \in Seq(Step) /\ Len(t) <= 7 /\ Len(t) > 0
        /\ Head(t) = StopSteps[7 - Len(t) + 1]
        /\ Tail(t) \in Ends(StopSteps) /\ Len(Tail(t)) = Len(t) - 1
    BY <1>3, <1>5, EndOf
  <2>2. Len(t) \in Nat
    BY <2>1, LenProperties
  <2> DEFINE n == Len(t)
  <2>3. n \in Nat /\ n <= 7 /\ n > 0
    BY <2>1, <2>2
  <2> HIDE DEF n
  <2>4. 7 - n + 1 = 8 - n /\ n \in 1..7
    BY <2>3
  <2> QED BY ONLY <2>1, <2>4, Zenon DEF n
<1>6. ASSUME NEW t \in Ends(<<"release">>), t # <<>>
      PROVE  /\ Len(t) = 1 /\ Len(Tail(t)) = 0 /\ Tail(t) \in Ends(<<"release">>)
             /\ Head(t) = "release"
  <2> DEFINE list == <<"release">>
  <2>1. list \in Seq(Step) /\ Len(list) = 1 /\ list[1] = "release"
    BY DEF Step
  <2> HIDE DEF list
  <2>2. t \in Ends(list)
    BY <1>6 DEF list
  <2>3. /\ t \in Seq(Step) /\ Len(t) <= 1 /\ Len(t) > 0
        /\ Head(t) = list[1 - Len(t) + 1]
        /\ Tail(t) \in Ends(list) /\ Len(Tail(t)) = Len(t) - 1
    BY <1>6, <2>1, <2>2, EndOf
  <2>4. Len(t) = 1
    BY <2>3, LenProperties
  <2> QED BY <2>1, <2>3, <2>4 DEF list
<1>7. StopSteps \in Ends(StopSteps)
  BY <1>3, WholeList
<1>8. ASSUME NEW t \in Ends(StopSteps), t # <<>>
      PROVE  /\ Head(t) = "engine.stop" => Len(t) = 7
             /\ Head(t) = "flag" => Len(t) = 6
             /\ Head(t) = "wait" => Len(t) = 5
             /\ Head(t) = "reopen" => Len(t) = 4
             /\ Head(t) = "silence" => Len(t) = 3
             /\ Head(t) = "flush" => Len(t) = 2
             /\ Head(t) = "release" => Len(t) = 1
             /\ Head(t) \in {"engine.stop", "flag", "wait", "reopen", "silence", "flush", "release"}
  <2> DEFINE n == Len(t)
             step == Head(t)
  <2>1. n \in 1..7 /\ step = StopSteps[8 - n]
    BY <1>5, <1>8
  <2> HIDE DEF n, step
  <2>2. /\ step = "engine.stop" => n = 7
        /\ step = "flag" => n = 6
        /\ step = "wait" => n = 5
        /\ step = "reopen" => n = 4
        /\ step = "silence" => n = 3
        /\ step = "flush" => n = 2
        /\ step = "release" => n = 1
        /\ step \in {"engine.stop", "flag", "wait", "reopen", "silence", "flush", "release"}
    <3>1. n = 7 \/ n = 6 \/ n = 5 \/ n = 4 \/ n = 3 \/ n = 2 \/ n = 1
      BY <2>1
    <3> QED BY ONLY <1>3, <1>4, <2>1, <3>1
  <2> QED BY <2>2 DEF n, step
<1>9. ASSUME NEW t \in Ends(<<"release">>), t # <<>>
      PROVE  Len(t) = 1 /\ Len(Tail(t)) = Len(t) - 1
  BY <1>6, <1>9
<1>10. 1 \in 1..7
  OBVIOUS
<1> QED BY ONLY <1>3, <1>5, <1>6, <1>7, <1>8, <1>9, <1>10, Zenon

-----------------------------------------------------------------------------
(* What an action does not touch. *)

LEMMA EngineFrame ==
  ASSUME Next
  PROVE  \/ UNCHANGED engine
         \/ Process \/ NextTrack \/ TrackEnd \/ CallbackCheck \/ OpenEnds \/ SendRetry
         \/ Pause \/ EngineStop \/ Reopen \/ Replace \/ EnginePlay
BY DEF Next, Audio, Handler, engine, Issue,
       CallbackBegin, ChangeStop, ChangeFlushed, OpenQuick, OpenLong, Send,
       EndDrained, EndStop, EndFlushed, EndRelease, Disconnected, PullSilence, PullAudio,
       TargetDrops, Play, PlayNow, Stop, StopIgnored, Flag, Wait, Cut, Silence, NothingOpen,
       Flushed, Release, PauseAsked, Hold, PlayOffline, Reconnect, PlayCheck, Resume, Ready

LEMMA RingFrame ==
  ASSUME Next
  PROVE  \/ UNCHANGED ring
         \/ ring' = <<>> /\ (OpenQuick \/ OpenLong \/ EndRelease \/ Disconnected \/ Release
                             \/ Reconnect \/ Resume)
         \/ Send \/ PullAudio
BY DEF Next, Audio, Handler, flow, Issue, SilenceAsked, Emptied, ResetFailed, Released,
       Process, NextTrack, TrackEnd, CallbackCheck, CallbackBegin, ChangeStop, ChangeFlushed,
       OpenQuick, OpenLong, OpenEnds, SendRetry, EndDrained, EndStop, EndFlushed, EndRelease,
       Disconnected, PullSilence, TargetDrops, Play, PlayNow, Pause, Stop, StopIgnored,
       EngineStop, Flag, Wait, Reopen, Replace, Cut, Silence, NothingOpen, Flushed, Release,
       PauseAsked, Hold, PlayOffline, Reconnect, PlayCheck, Resume, EnginePlay, Ready

\* A muted output is heard again only with an empty ring, or when open() has ended well.
LEMMA MutedFrame ==
  ASSUME Next
  PROVE  \/ m_draining => m_draining'
         \/ ring' = <<>>
BY DEF Next, Audio, Handler, flow, Issue, SilenceAsked, RequestSilence, Emptied, Unmuted,
       ResetFailed, Released,
       Process, NextTrack, TrackEnd, CallbackCheck, CallbackBegin, ChangeStop, ChangeFlushed,
       OpenQuick, OpenLong, OpenEnds, Send, SendRetry, EndDrained, EndStop, EndFlushed,
       EndRelease, Disconnected, PullSilence, PullAudio, TargetDrops, Play, PlayNow, Pause,
       Stop, StopIgnored, EngineStop, Flag, Wait, Reopen, Replace, Cut, Silence, NothingOpen,
       Flushed, Release, PauseAsked, Hold, PlayOffline, Reconnect, PlayCheck, Resume,
       EnginePlay, Ready

LEMMA OnlineFrame ==
  ASSUME Next
  PROVE  \/ UNCHANGED <<online, m_open>>
         \/ OpenEnds \/ TargetDrops
         \/ ~online' /\ ~m_open'
BY DEF Next, Audio, Handler, conn, sdk, Issue, SilenceAsked, Stopped,
       ResetFailed, Released,
       Process, NextTrack, TrackEnd, CallbackCheck, CallbackBegin, ChangeStop, ChangeFlushed,
       OpenQuick, OpenLong, Send, SendRetry, EndDrained, EndStop, EndFlushed,
       EndRelease, Disconnected, PullSilence, PullAudio, Play, PlayNow, Pause,
       Stop, StopIgnored, EngineStop, Flag, Wait, Reopen, Replace, Cut, Silence, NothingOpen,
       Flushed, Release, PauseAsked, Hold, PlayOffline, Reconnect, PlayCheck, Resume,
       EnginePlay, Ready

LEMMA CommandFrame ==
  ASSUME Next
  PROVE  \/ UNCHANGED ctl
         \/ Play \/ PlayNow \/ Pause \/ Stop \/ StopIgnored \/ Handler
BY DEF Next, Audio, ctl,
       Process, NextTrack, TrackEnd, CallbackCheck, CallbackBegin, ChangeStop, ChangeFlushed,
       OpenQuick, OpenLong, OpenEnds, Send, SendRetry, EndDrained, EndStop, EndFlushed,
       EndRelease, Disconnected, PullSilence, PullAudio, TargetDrops

-----------------------------------------------------------------------------
(* The type invariant in parts. *)

FlagsOK ==
  /\ m_shutdownRequested \in BOOLEAN /\ m_callbackRunning \in BOOLEAN
  /\ m_direttaReleased \in BOOLEAN /\ m_open \in BOOLEAN /\ m_playing \in BOOLEAN
  /\ m_paused \in BOOLEAN /\ m_draining \in BOOLEAN /\ m_prefillComplete \in BOOLEAN
  /\ m_postOnlineDelayDone \in BOOLEAN /\ m_rebuffering \in BOOLEAN
  /\ online \in BOOLEAN /\ sdkPlays \in BOOLEAN

EngineOK ==
  state \in {"STOPPED", "PLAYING", "PAUSED"} /\ track \in 1..Tracks /\ next \in 0..Length + 1

CallbackOK ==
  /\ block \in Seq(Unit) /\ Len(block) <= BlockUnits
  /\ retryCount \in 0..MaxRetries - 1 /\ audio \in AudioPc

SessionOK ==
  /\ format \in Nat /\ lifecycle \in {"free", "audio", "command"}
  /\ m_silenceBuffersRemaining \in 0..SilenceUnits
  /\ audio \in {"opening", "change.flush", "end.flush"} => lifecycle = "audio"

RingOK == ring \in Seq(Unit) /\ Len(ring) <= RingUnits

TodoOK == command \in Commands \cup {"none", "ignored", "failed"} /\ todo \in Seq(Step)

LEMMA TypeParts ==
  /\ TypeOK <=> FlagsOK /\ EngineOK /\ CallbackOK /\ SessionOK /\ RingOK /\ TodoOK
  /\ TypeOK' <=> FlagsOK' /\ EngineOK' /\ CallbackOK' /\ SessionOK' /\ RingOK' /\ TodoOK'
BY DEF TypeOK, FlagsOK, EngineOK, CallbackOK, SessionOK, RingOK, TodoOK

LEMMA Constants ==
  /\ Tracks \in Nat /\ Tracks >= 1 /\ Length \in Nat /\ Length >= 1
  /\ BlockUnits \in Nat /\ BlockUnits >= 1 /\ RingUnits \in Nat /\ 2 * BlockUnits <= RingUnits
  /\ MaxRetries \in Nat /\ MaxRetries >= 1 /\ SilenceUnits \in Nat
  /\ FormatOf \in [1..Tracks -> Nat]
BY PlaybackAssumption

\* A block that is decoded.
LEMMA DecodedBlock ==
  ASSUME NEW first \in 1..Length, track \in 1..Tracks
  PROVE  /\ Decoded(first) \in Seq(Unit)
         /\ Len(Decoded(first)) \in 1..BlockUnits /\ first + Len(Decoded(first)) <= Length + 1
         /\ \A i \in 1..Len(Decoded(first)) : Decoded(first)[i] = <<track, first + i - 1>>
<1> DEFINE left == Length + 1 - first
           n == IF left < BlockUnits THEN left ELSE BlockUnits
           b == [i \in 1..n |-> <<track, first + i - 1>>]
<1>1. Decoded(first) = b
  BY DEF Decoded
<1>2. n \in Nat /\ n >= 1 /\ n <= BlockUnits /\ first + n <= Length + 1
  BY Constants
<1> HIDE DEF n
<1>3. \A i \in 1..n : <<track, first + i - 1>> \in Unit
  BY <1>2, Constants DEF Unit
<1>4. b \in [1..n -> Unit]
  BY <1>3
<1>5. b \in Seq(Unit) /\ Len(b) = n
  <2>1. b \in Seq(Unit)
    BY <1>2, <1>4, SeqDef
  <2>2. DOMAIN b = 1..n
    BY <1>4
  <2> HIDE DEF b
  <2>3. Len(b) \in Nat /\ 1..n = 1..Len(b)
    BY <2>1, <2>2, LenProperties
  <2> QED BY <1>2, <2>1, <2>3
<1>6. \A i \in 1..n : b[i] = <<track, first + i - 1>>
  OBVIOUS
<1> HIDE DEF b
<1> QED BY <1>1, <1>2, <1>5, <1>6

-----------------------------------------------------------------------------
(* The commands' lists. *)

\* How a command moves on: it takes a step of its list, or begins another one.
LEMMA TodoFrame ==
  ASSUME TypeOK, Next
  PROVE  \/ /\ todo' = todo /\ UNCHANGED m_shutdownRequested
            /\ lifecycle = "command" => lifecycle' = "command"
         \/ /\ todo # <<>> /\ todo' = Tail(todo)
            /\ Doing("silence") => lifecycle' = "command"
            /\ m_shutdownRequested' => Doing("flag") \/ (m_shutdownRequested /\ ~Doing("wait"))
         \/ Begun(todo') /\ UNCHANGED m_shutdownRequested /\ ~Doing("wait")
         \/ /\ todo' = <<"hold">> /\ lifecycle' = "command"
            /\ UNCHANGED m_shutdownRequested /\ ~Doing("wait")
<1>1. SessionOK
  BY TypeParts
<1>2. CASE Handler \/ Play \/ PlayNow \/ Pause \/ Stop \/ StopIgnored
  BY <1>2, Begins
     DEF Handler, ctl, Issue, Doing, Onward, Then, SilenceAsked, StopSteps,
         Play, PlayNow, Pause, Stop, StopIgnored, EngineStop, Flag, Wait, Reopen, Replace, Cut,
         Silence, NothingOpen, Flushed, Release, PauseAsked, Hold, PlayOffline, Reconnect,
         PlayCheck, Resume, EnginePlay, Ready
<1>3. CASE Audio \/ PullSilence \/ PullAudio \/ TargetDrops
  BY <1>1, <1>3
     DEF SessionOK, Audio, ctl, SilenceAsked,
         Process, NextTrack, TrackEnd, CallbackCheck, CallbackBegin, ChangeStop, ChangeFlushed,
         OpenQuick, OpenLong, OpenEnds, Send, SendRetry, EndDrained, EndStop, EndFlushed,
         EndRelease, Disconnected, PullSilence, PullAudio, TargetDrops
<1> QED BY <1>2, <1>3 DEF Next

LEMMA StepsStep ==
  ASSUME TypeOK, StepsOK, Next
  PROVE  StepsOK'
<1>1. todo \in Steps /\ todo \in Seq(Step)
  BY TypeParts DEF StepsOK, TodoOK
<1>2. CASE /\ todo' = todo /\ UNCHANGED m_shutdownRequested
           /\ lifecycle = "command" => lifecycle' = "command"
  BY <1>2 DEF StepsOK, Doing
<1>3. CASE /\ todo # <<>> /\ todo' = Tail(todo)
           /\ Doing("silence") => lifecycle' = "command"
           /\ m_shutdownRequested' => Doing("flag") \/ (m_shutdownRequested /\ ~Doing("wait"))
  <2>1. /\ Tail(todo) \in Steps
        /\ Head(todo) = "flag" => Tail(todo) # <<>> /\ Head(Tail(todo)) = "wait"
        /\ Tail(todo) # <<>> /\ Head(Tail(todo)) = "flush" => Head(todo) = "silence"
        /\ Tail(todo) # <<>> => Head(Tail(todo)) # "hold"
    BY <1>1, <1>3, RestOf
  <2> QED BY <1>3, <2>1 DEF StepsOK, Doing
<1>4. CASE Begun(todo') /\ UNCHANGED m_shutdownRequested /\ ~Doing("wait")
  BY <1>4 DEF StepsOK, Doing, Begun
<1>5. CASE /\ todo' = <<"hold">> /\ lifecycle' = "command"
           /\ UNCHANGED m_shutdownRequested /\ ~Doing("wait")
  BY <1>5, Begins DEF StepsOK, Doing
<1> QED BY <1>2, <1>3, <1>4, <1>5, TodoFrame

-----------------------------------------------------------------------------
(* The block of the output callback. *)

\* Between two blocks ...
Idle == {"loop", "failed", "end.drain", "end.stop", "end.flush", "end.release"}

\* ... and in one.
Busy == {"callback", "checked", "change", "change.flush", "open", "opening", "send"}

LEMMA Labels == AudioPc = Idle \cup Busy /\ Idle \cap Busy = {}
BY DEF AudioPc, Idle, Busy

LEMMA CallbackFrame ==
  ASSUME CallbackOK, Next
  PROVE  \/ UNCHANGED callback /\ (audio' = audio \/ (audio \in Idle /\ audio' \in Idle)
                                                \/ (audio \in Busy /\ audio' \in Busy))
         \/ Process \/ CallbackBegin \/ Send
         \/ Leaves("failed") /\ (CallbackCheck \/ OpenEnds \/ SendRetry)
         \/ SendRetry /\ UNCHANGED <<block, audio, m_callbackRunning>>
<1>1. CASE Audio
  BY <1>1
     DEF CallbackOK, Audio, callback, At, SilenceAsked, Idle, Busy, Fails,
         NextTrack, TrackEnd, CallbackCheck, ChangeStop, ChangeFlushed, OpenQuick, OpenLong,
         OpenEnds, SendRetry, EndDrained, EndStop, EndFlushed, EndRelease, Disconnected
<1>2. CASE ~Audio
  BY <1>2
     DEF Next, Handler, callback, Issue, PullSilence, PullAudio,
         TargetDrops, Play, PlayNow, Pause, Stop, StopIgnored, EngineStop, Flag, Wait, Reopen,
         Replace, Cut, Silence, NothingOpen, Flushed, Release, PauseAsked, Hold, PlayOffline,
         Reconnect, PlayCheck, Resume, EnginePlay, Ready
<1> QED BY <1>1, <1>2

\* The decoder stays where it is while there is a block.
LEMMA DecoderFrame ==
  ASSUME BlockOK, Next, block # <<>>
  PROVE  UNCHANGED <<track, next>>
<1>1. audio \notin {"loop", "failed"}
  BY DEF BlockOK
<1> QED BY <1>1, EngineFrame
        DEF engine, EngineFree, Fails, Process, NextTrack, TrackEnd, CallbackCheck, OpenEnds,
            SendRetry, Pause, Issue, EngineStop, Reopen, Replace, EnginePlay

\* DirettaSync begins to play, and a block comes to be sent, with the ring emptied.
LEMMA RoomFrame ==
  ASSUME Next, ConnectionOK
  PROVE  \/ ring' = <<>>
         \/ (m_playing' => m_playing) /\ (audio' = "send" => audio = "send" \/ m_playing)
<1>1. CASE Audio
  BY <1>1
     DEF Audio, ConnectionOK, conn, flow, callback, engine, At, Leaves, Fails, SilenceAsked,
         Stopped, Released, ResetFailed, Emptied,
         Process, NextTrack, TrackEnd, CallbackCheck, CallbackBegin, ChangeStop, ChangeFlushed,
         OpenQuick, OpenLong, OpenEnds, Send, SendRetry, EndDrained, EndStop, EndFlushed,
         EndRelease, Disconnected
<1>2. CASE ~Audio
  BY <1>2
     DEF Next, Handler, conn, flow, Issue, SilenceAsked, Stopped, Released, ResetFailed, Emptied,
         PullSilence, PullAudio,
         TargetDrops, Play, PlayNow, Pause, Stop, StopIgnored, EngineStop, Flag, Wait, Reopen,
         Replace, Cut, Silence, NothingOpen, Flushed, Release, PauseAsked, Hold, PlayOffline,
         Reconnect, PlayCheck, Resume, EnginePlay, Ready
<1> QED BY <1>1, <1>2

\* The ring only grows by what is sent.
LEMMA RingShrinks ==
  ASSUME RingOK, Next
  PROVE  Send \/ (ring' \in Seq(Unit) /\ Len(ring') <= Len(ring))
<1>1. ASSUME PullAudio
      PROVE  ring' \in Seq(Unit) /\ Len(ring') <= Len(ring)
  <2>1. CASE ring = <<>>
    BY <1>1, <2>1 DEF PullAudio, RingOK
  <2>2. CASE ring # <<>>
    <3>1. Tail(ring) \in Seq(Unit) /\ Len(Tail(ring)) = Len(ring) - 1 /\ Len(ring) \in Nat
      BY <2>2, HeadTailProperties, LenProperties DEF RingOK
    <3> QED BY <1>1, <2>2, <3>1 DEF PullAudio
  <2> QED BY <2>1, <2>2
<1>2. <<>> \in Seq(Unit) /\ Len(<<>>) = 0 /\ Len(ring) \in Nat
  BY LenProperties DEF RingOK
<1>3. CASE ring' = <<>>
  BY <1>2, <1>3
<1>4. CASE ring' = ring
  BY <1>2, <1>4 DEF RingOK
<1> QED BY <1>1, <1>3, <1>4, RingFrame

\* All of a block fits, or none of it does.
LEMMA AllOrNothing ==
  ASSUME CallbackOK, RingOK, BlockOK, audio = "send"
  PROVE  /\ block # <<>> /\ Len(block) \in Nat /\ Len(block) >= 1
         /\ Fits = IF Muted THEN 0 ELSE Len(block)
<1>1. block # <<>> /\ Len(ring) + Len(block) <= RingUnits
  BY DEF BlockOK
<1>2. Len(block) \in Nat /\ Len(ring) \in Nat
  BY LenProperties DEF CallbackOK, RingOK
<1>3. Len(block) >= 1
  BY <1>1, <1>2, EmptySeq DEF CallbackOK
<1> QED BY <1>1, <1>2, <1>3, Constants DEF Fits, Muted

LEMMA Sent ==
  ASSUME CallbackOK, RingOK, BlockOK, Send
  PROVE  /\ ~Muted /\ ring' = ring \o block /\ block' = <<>> /\ audio' = "loop"
         /\ ring' \in Seq(Unit) /\ Len(ring') = Len(ring) + Len(block) /\ Len(ring') <= RingUnits
         /\ retryCount' = 0 /\ m_callbackRunning' = FALSE
<1>1. /\ block # <<>> /\ Len(block) \in Nat /\ Len(block) >= 1 /\ ~Muted /\ Fits = Len(block)
  BY AllOrNothing DEF Send
<1>2. SubSeq(block, 1, Len(block)) = block
  BY SubSeqFull DEF CallbackOK
<1>3. /\ ring \o block \in Seq(Unit) /\ Len(ring \o block) = Len(ring) + Len(block)
  BY ConcatProperties DEF CallbackOK, RingOK
<1>4. Len(ring) + Len(block) <= RingUnits
  BY <1>1 DEF BlockOK, Send
<1> QED BY <1>1, <1>2, <1>3, <1>4 DEF Send, Leaves, At

\* The block and what is free in the ring, when the callback goes on with it.
LEMMA BlockStays ==
  ASSUME TypeOK, BlockOK, ConnectionOK, Next, block # <<>>, block' = block, ~Send,
         audio' = "send" => audio = "send" \/ m_playing \/ ring' = <<>>
  PROVE  /\ next' > Len(block')
         /\ \A i \in 1..Len(block') : block'[i] = <<track', next' - Len(block') + i - 1>>
         /\ m_playing' \/ audio' = "send" => Len(ring') + Len(block') <= RingUnits
<1>1. track' = track /\ next' = next
  BY DecoderFrame
<1>2. next > Len(block) /\ \A i \in 1..Len(block) : block[i] = <<track, next - Len(block) + i - 1>>
  BY DEF BlockOK
<1>3. /\ Len(block) \in Nat /\ Len(block) <= BlockUnits /\ Len(ring) \in Nat
      /\ Len(ring') \in Nat /\ Len(ring') <= Len(ring)
  <2>1. CallbackOK /\ RingOK
    BY TypeParts
  <2>2. ring' \in Seq(Unit) /\ Len(ring') <= Len(ring)
    BY <2>1, RingShrinks
  <2> QED BY <2>1, <2>2, LenProperties DEF CallbackOK, RingOK
<1>4. ASSUME m_playing' \/ audio' = "send"
      PROVE  Len(ring') + Len(block) <= RingUnits
  <2>1. CASE ring' = <<>>
    <3>1. Len(ring') = 0
      BY <2>1
    <3> QED BY <1>3, <3>1, Constants
  <2>2. CASE ring' # <<>>
    <3>1. m_playing \/ audio = "send"
      BY <1>4, <2>2, RoomFrame
    <3>2. Len(ring) + Len(block) <= RingUnits
      BY <3>1 DEF BlockOK
    <3> QED BY <1>3, <3>2, Constants
  <2> QED BY <2>1, <2>2
<1> QED BY <1>1, <1>2, <1>4

LEMMA BlockStep ==
  ASSUME TypeOK, BlockOK, ConnectionOK, Next
  PROVE  BlockOK'
<1>1. EngineOK /\ CallbackOK /\ RingOK
  BY TypeParts
<1>2. CASE block' = <<>> /\ audio' \in Idle /\ ~m_callbackRunning'
  BY <1>2 DEF BlockOK, Idle
<1>3. CASE Process
  <2>1. Position \in 1..Length /\ track \in 1..Tracks
    BY <1>1, <1>3 DEF EngineOK, Position, Process
  <2>2. /\ block' = Decoded(Position) /\ next' = Position + Len(block') /\ track' = track
        /\ audio' = "callback" /\ ring' = ring /\ m_playing' = m_playing
    BY <1>3 DEF Process, At, flow, conn
  <2>3. /\ Len(block') \in 1..BlockUnits
        /\ \A i \in 1..Len(block') : block'[i] = <<track, Position + i - 1>>
    BY <2>1, <2>2, DecodedBlock
  <2>4. next' - Len(block') = Position /\ next' > Len(block')
    BY <2>1, <2>2, <2>3, Constants
  <2>5. m_playing => Len(ring) + Len(block') <= RingUnits
    <3>1. m_playing => 2 * Len(ring) <= RingUnits
      BY <1>1, <1>3, Constants, LenProperties DEF Process, Throttled, RingOK
    <3> QED BY <1>1, <2>3, <3>1, Constants, LenProperties DEF RingOK
  <2>6. block' # <<>>
    BY <2>3
  <2> QED BY <2>2, <2>3, <2>4, <2>5, <2>6 DEF BlockOK
<1>4. CASE block # <<>> /\ block' = block /\ ~Send /\ audio' \in Busy
           /\ (audio' = "send" => audio = "send" \/ m_playing \/ ring' = <<>>)
  <2>1. /\ next' > Len(block')
        /\ \A i \in 1..Len(block') : block'[i] = <<track', next' - Len(block') + i - 1>>
        /\ m_playing' \/ audio' = "send" => Len(ring') + Len(block') <= RingUnits
    BY <1>4, BlockStays
  <2> QED BY <1>4, <2>1 DEF BlockOK, Busy
<1>5. CASE UNCHANGED callback /\ (audio' = audio \/ (audio \in Idle /\ audio' \in Idle)
                                                \/ (audio \in Busy /\ audio' \in Busy))
           /\ ~Send
  <2>1. CASE audio \in Idle
    BY <1>2, <1>5, <2>1, Labels DEF BlockOK, Idle, callback
  <2>2. CASE audio \in Busy
    BY <1>4, <1>5, <2>2, Labels, RoomFrame DEF BlockOK, Busy, callback
  <2> QED BY <1>1, <2>1, <2>2, Labels DEF CallbackOK
<1>6. CASE CallbackBegin
  BY <1>4, <1>6 DEF CallbackBegin, At, BlockOK, Busy, Send
<1>7. CASE Send
  BY <1>1, <1>2, <1>7, Sent DEF Idle
<1>8. CASE Leaves("failed")
  BY <1>2, <1>8 DEF Leaves, At, Idle
<1>9. CASE SendRetry /\ UNCHANGED <<block, audio, m_callbackRunning>>
  BY <1>4, <1>9 DEF SendRetry, Send, BlockOK, Busy
<1> QED BY <1>1, <1>3, <1>5, <1>6, <1>7, <1>8, <1>9, CallbackFrame

LEMMA ConnectionStep ==
  ASSUME TypeOK, ConnectionOK, Next
  PROVE  ConnectionOK'
<1>1. (online => m_open)'
  BY OnlineFrame DEF ConnectionOK, OpenEnds, TargetDrops, conn, Fails, sdk
<1>2. ASSUME audio' = "opening"
      PROVE  ring' = <<>> /\ ~online'
  <2>1. audio = "opening" \/ OpenLong
    BY <1>2
       DEF Next, Audio, Handler, At, Leaves, Fails, SilenceAsked, Issue,
           Process, NextTrack, TrackEnd, CallbackCheck, CallbackBegin, ChangeStop,
           ChangeFlushed, OpenQuick, OpenEnds, Send, SendRetry, EndDrained, EndStop, EndFlushed,
           EndRelease, Disconnected, PullSilence, PullAudio, TargetDrops, Play, PlayNow, Pause,
           Stop, StopIgnored, EngineStop, Flag, Wait, Reopen, Replace, Cut, Silence,
           NothingOpen, Flushed, Release, PauseAsked, Hold, PlayOffline, Reconnect, PlayCheck,
           Resume, EnginePlay, Ready
  <2>2. CASE OpenLong
    BY <2>2 DEF OpenLong, ResetFailed, Emptied
  <2>3. CASE audio = "opening" /\ ~OpenLong
    <3>1. ring = <<>> /\ ~online
      BY <2>3 DEF ConnectionOK
    <3>2. ring' = <<>>
      BY <2>3, <3>1, RingFrame DEF Send, PullAudio
    <3>3. ~OpenEnds
      BY <1>2 DEF OpenEnds, At, Fails, Leaves
    <3>4. ~online'
      BY <3>1, <3>3, OnlineFrame DEF TargetDrops
    <3> QED BY <3>2, <3>4
  <2> QED BY <2>1, <2>2, <2>3
<1> QED BY <1>1, <1>2 DEF ConnectionOK

-----------------------------------------------------------------------------
(* The audio in the ring. *)

\* A block that was given up: the command that stopped the engine still renews, until the
\* decoder is back at the start of a track or the target is let go.
LEMMA DroppedStep ==
  ASSUME TypeOK, StepsOK, BlockOK, Dropped, Next
  PROVE  Dropped' \/ Muted' \/ ring' = <<>> \/ (next' = 0 /\ block' = <<>>)
<1>1. /\ state = "STOPPED" /\ audio \in {"loop", "failed"} /\ WillRenew(todo) /\ todo \in Steps
      /\ block = <<>>
  BY DEF Dropped, EngineFree, StepsOK, BlockOK
<1>2. /\ todo # <<>> /\ Head(todo) \in {"wait", "cut", "reconnect"} \cup Renews
      /\ Head(todo) \notin Renews => WillRenew(Tail(todo))
  BY <1>1, StillRenews
<1>3. CASE Audio
  <2>1. Disconnected
    BY <1>1, <1>3
       DEF Audio, Process, NextTrack, TrackEnd, CallbackCheck, CallbackBegin, ChangeStop,
           ChangeFlushed, OpenQuick, OpenLong, OpenEnds, Send, SendRetry, EndDrained, EndStop,
           EndFlushed, EndRelease
  <2> QED BY <1>1, <2>1 DEF Disconnected, Dropped, EngineFree, engine, ctl, At
<1>4. CASE PullSilence \/ PullAudio \/ TargetDrops
  BY <1>1, <1>4 DEF PullSilence, PullAudio, TargetDrops, Dropped, EngineFree, engine, ctl
<1>5. CASE Play \/ PlayNow \/ Pause \/ Stop \/ StopIgnored
  BY <1>2, <1>5 DEF Play, PlayNow, Pause, Stop, StopIgnored, Issue
<1>6. CASE Wait \/ Cut
  BY <1>1, <1>2, <1>6 DEF Wait, Cut, Doing, Onward, Then, Dropped, EngineFree, engine, Renews
<1>7. CASE Reopen \/ Replace
  BY <1>1, <1>7 DEF Reopen, Replace, callback
<1>8. CASE Release
  BY <1>8 DEF Release, Released, ResetFailed, Muted
<1>9. CASE Reconnect
  BY <1>1, <1>2, <1>9
     DEF Reconnect, ResetFailed, Emptied, Doing, Onward, Then, Dropped, EngineFree, engine, Renews
<1>10. CASE \/ EngineStop \/ Flag \/ Silence \/ NothingOpen \/ Flushed \/ PauseAsked \/ Hold
            \/ PlayOffline \/ PlayCheck \/ Resume \/ EnginePlay \/ Ready
  BY <1>2, <1>10
     DEF EngineStop, Flag, Silence, NothingOpen, Flushed, PauseAsked, Hold, PlayOffline,
         PlayCheck, Resume, EnginePlay, Ready, Doing, Renews
<1> QED BY <1>3, <1>4, <1>5, <1>6, <1>7, <1>8, <1>9, <1>10 DEF Next, Handler

\* What is heard next after the ring: where the block, or the decoder, begins.
Upcoming == Position - Len(block)

LEMMA SeamlessMeans ==
  /\ Seamless <=> (ring # <<>> /\ ~Muted /\ ~Dropped =>
                     Upcoming = 1 \/ ring[Len(ring)] = <<track, Upcoming - 1>>)
  /\ Seamless' <=> (ring' # <<>> /\ ~Muted' /\ ~Dropped' =>
                      Upcoming' = 1 \/ ring'[Len(ring')] = <<track', Upcoming' - 1>>)
BY DEF Seamless, Upcoming

\* While the ring stays as it is and no block is given up for it.
LEMMA UpcomingStays ==
  ASSUME TypeOK, StepsOK, BlockOK, ConnectionOK, Next,
         ring' = ring, ring # <<>>, ~Muted, ~Dropped'
  PROVE  Upcoming' = 1 \/ (track' = track /\ Upcoming' = Upcoming)
<1>1. EngineOK /\ CallbackOK /\ RingOK
  BY TypeParts
<1>2. Len(<<>>) = 0
  OBVIOUS
<1>3. CASE EngineFree /\ block' = block /\ (next' = 0 \/ next' = 1)
  <2>1. block' = <<>>
    BY <1>3 DEF BlockOK, EngineFree
  <2> QED BY <1>2, <1>3, <2>1 DEF Upcoming, Position
<1>4. CASE UNCHANGED <<track, next, block>>
  BY <1>4 DEF Upcoming, Position
<1>5. CASE Process
  <2>1. Position \in 1..Length /\ track \in 1..Tracks
    BY <1>1, <1>5 DEF EngineOK, Position, Process
  <2>2. /\ block' = Decoded(Position) /\ next' = Position + Len(block') /\ track' = track
        /\ block = <<>>
    BY <1>5 DEF Process, BlockOK
  <2>3. Len(block') \in 1..BlockUnits
    BY <2>1, <2>2, DecodedBlock
  <2>4. Position' - Len(block') = Position
    BY <2>1, <2>2, <2>3, Constants DEF Position
  <2> QED BY <1>2, <2>1, <2>2, <2>4 DEF Upcoming
<1>6. CASE NextTrack
  BY <1>2, <1>6 DEF NextTrack, callback, BlockOK, Upcoming, Position
<1>7. CASE TrackEnd \/ Pause
  BY <1>4, <1>7 DEF TrackEnd, Pause, Issue, callback
<1>8. CASE CallbackCheck
  <2>1. ASSUME m_shutdownRequested
        PROVE  FALSE
    <3>1. Fails /\ todo' = todo
      BY <1>8, <2>1 DEF CallbackCheck, ctl
    <3>2. WillRenew(todo)
      BY <2>1, RestOf DEF StepsOK, Doing
    <3> QED BY <3>1, <3>2 DEF Dropped, EngineFree, Fails, Leaves, At
  <2> QED BY <1>4, <1>8, <2>1 DEF CallbackCheck, engine, callback
<1>9. CASE OpenEnds
  BY <1>9 DEF OpenEnds, ConnectionOK
<1>10. CASE SendRetry
  <2>1. Fits # 0
    BY <1>1, <1>10, AllOrNothing DEF SendRetry
  <2> QED BY <1>10, <2>1 DEF SendRetry
<1>11. CASE EngineStop \/ Reopen \/ Replace
  BY <1>3, <1>4, <1>11 DEF EngineStop, Reopen, Replace, callback
<1>12. CASE EnginePlay
  BY <1>3, <1>4, <1>12 DEF EnginePlay, callback
<1>13. CASE UNCHANGED engine
  <2>1. ~Send
    <3>1. ASSUME Send
          PROVE  FALSE
      BY <1>1, <3>1, Sent, LenProperties, AllOrNothing DEF Send, RingOK, CallbackOK
    <3> QED BY <3>1
  <2>2. CASE UNCHANGED block
    BY <1>4, <1>13, <2>2 DEF engine
  <2>3. CASE CallbackCheck \/ OpenEnds \/ SendRetry \/ Process
    BY <1>5, <1>8, <1>9, <1>10, <2>3
  <2> QED BY <1>1, <2>1, <2>2, <2>3, CallbackFrame DEF callback, CallbackBegin
<1> QED BY <1>5, <1>6, <1>7, <1>8, <1>9, <1>10, <1>11, <1>12, <1>13, EngineFrame

LEMMA SeamlessStep ==
  ASSUME TypeOK, StepsOK, BlockOK, ConnectionOK, Seamless, Next
  PROVE  Seamless'
<1> SUFFICES ASSUME ring' # <<>>, ~Muted', ~Dropped'
             PROVE  Upcoming' = 1 \/ ring'[Len(ring')] = <<track', Upcoming' - 1>>
  BY SeamlessMeans
<1>1. EngineOK /\ CallbackOK /\ RingOK
  BY TypeParts
<1>2. CASE Send
  <2>1. /\ ring' = ring \o block /\ block' = <<>> /\ Len(ring') = Len(ring) + Len(block)
        /\ track' = track /\ next' = next
    BY <1>1, <1>2, Sent DEF Send, engine
  <2>2. /\ Len(block) \in Nat /\ Len(block) >= 1 /\ Len(ring) \in Nat /\ block # <<>>
    BY <1>1, <1>2, AllOrNothing, LenProperties DEF Send, RingOK
  <2>3. ring'[Len(ring')] = block[Len(block)]
    BY <1>1, <2>1, <2>2, ConcatProperties DEF RingOK, CallbackOK
  <2>4. block[Len(block)] = <<track, next - 1>> /\ next > Len(block) /\ next \in Nat
    BY <1>1, <2>2 DEF BlockOK, EngineOK
  <2>5. Upcoming' = next
    <3>1. Len(<<>>) = 0
      OBVIOUS
    <3> QED BY <2>1, <2>2, <2>4, <3>1 DEF Upcoming, Position
  <2> QED BY <2>1, <2>3, <2>4, <2>5
<1>3. CASE ~Send
  <2>1. ring' = ring \/ PullAudio
    BY <1>3, RingFrame
  <2>2. ring # <<>>
    BY <2>1 DEF PullAudio
  <2>3. ~OpenEnds
    BY <2>2 DEF OpenEnds, ConnectionOK, flow
  <2>4. ~Muted
    BY <2>3, MutedFrame, OnlineFrame DEF Muted, TargetDrops
  <2>5. CASE Dropped
    <3>1. next' = 0 /\ block' = <<>>
      BY <2>5, DroppedStep
    <3> QED BY <3>1 DEF Upcoming, Position
  <2>6. CASE ~Dropped
    <3>1. Upcoming = 1 \/ ring[Len(ring)] = <<track, Upcoming - 1>>
      BY <2>2, <2>4, <2>6, SeamlessMeans
    <3>2. CASE ring' = ring
      BY <2>2, <2>4, <3>1, <3>2, UpcomingStays
    <3>3. CASE PullAudio
      <4>1. ring' = Tail(ring) /\ Len(ring) \in Nat
        BY <1>1, <2>2, <3>3, LenProperties DEF PullAudio, RingOK
      <4>2. /\ Len(ring') = Len(ring) - 1 /\ ring' \in Seq(Unit)
            /\ \A i \in 1..Len(ring') : ring'[i] = ring[i + 1]
        BY <1>1, <2>2, <4>1, HeadTailProperties DEF RingOK
      <4>3. Len(ring') >= 1
        BY <4>2, EmptySeq
      <4>4. ring'[Len(ring')] = ring[Len(ring)]
        BY <4>1, <4>2, <4>3
      <4>5. Upcoming' = Upcoming /\ track' = track
        BY <3>3 DEF PullAudio, engine, callback, Upcoming, Position
      <4> QED BY <3>1, <4>4, <4>5
    <3> QED BY <2>1, <3>2, <3>3
  <2> QED BY <2>5, <2>6
<1> QED BY <1>2, <1>3

LEMMA HoleStep ==
  ASSUME TypeOK, BlockOK, Seamless, RingHasNoHole, Next
  PROVE  RingHasNoHole'
<1>1. EngineOK /\ CallbackOK /\ RingOK
  BY TypeParts
<1> SUFFICES ASSUME NEW i \in 1..Len(ring') - 1
             PROVE  Follows(ring'[i], ring'[i + 1]) \/ ring'[i + 1][2] = 1
  BY DEF RingHasNoHole
<1>2. Len(ring) \in Nat
  BY <1>1, LenProperties DEF RingOK
<1>3. CASE ring' = ring
  BY <1>3 DEF RingHasNoHole
<1>4. CASE ring' = <<>>
  <2>1. Len(ring') = 0
    BY <1>4
  <2> QED BY <2>1
<1>5. CASE PullAudio /\ ring # <<>>
  <2>1. ring' = Tail(ring)
    BY <1>5 DEF PullAudio
  <2>2. Len(ring') = Len(ring) - 1 /\ \A j \in 1..Len(ring') : ring'[j] = ring[j + 1]
    BY <1>1, <1>5, <2>1, HeadTailProperties DEF RingOK
  <2>3. ring'[i] = ring[i + 1] /\ ring'[i + 1] = ring[(i + 1) + 1] /\ i + 1 \in 1..Len(ring) - 1
    BY <1>2, <2>2
  <2> QED BY <2>3 DEF RingHasNoHole
<1>6. CASE Send
  <2>1. /\ ring' = ring \o block /\ Len(ring') = Len(ring) + Len(block) /\ ~Muted
    BY <1>1, <1>6, Sent
  <2>2. Len(block) \in Nat /\ Len(block) >= 1 /\ block # <<>>
    BY <1>1, <1>6, AllOrNothing DEF Send
  <2>3. /\ next \in Nat /\ next > Len(block)
        /\ \A j \in 1..Len(block) : block[j] = <<track, next - Len(block) + j - 1>>
    BY <1>1, <2>2 DEF BlockOK, EngineOK
  <2>4. \A j \in 1..Len(ring') :
          ring'[j] = IF j <= Len(ring) THEN ring[j] ELSE block[j - Len(ring)]
    BY <1>1, <2>1, ConcatProperties DEF RingOK, CallbackOK
  <2>5. CASE i < Len(ring)
    <3>1. ring'[i] = ring[i] /\ ring'[i + 1] = ring[i + 1] /\ i \in 1..Len(ring) - 1
      BY <1>2, <2>2, <2>4, <2>5
    <3> QED BY <3>1 DEF RingHasNoHole
  <2>6. CASE i = Len(ring)
    <3>1. ring'[i] = ring[Len(ring)] /\ ring'[i + 1] = block[1]
      BY <1>2, <2>1, <2>2, <2>4, <2>6
    <3>2. block[1] = <<track, next - Len(block)>> /\ Upcoming = next - Len(block)
      <4>1. block[1] = <<track, next - Len(block) + 1 - 1>>
        BY <2>2, <2>3
      <4> QED BY <2>2, <2>3, <4>1 DEF Upcoming, Position
    <3>3. ring # <<>> /\ ~Dropped
      BY <1>6, <2>6 DEF Dropped, EngineFree, Send
    <3>4. Upcoming = 1 \/ ring[Len(ring)] = <<track, Upcoming - 1>>
      BY <2>1, <3>3, SeamlessMeans
    <3>5. CASE Upcoming = 1
      BY <3>1, <3>2, <3>5
    <3>6. CASE ring[Len(ring)] = <<track, Upcoming - 1>>
      BY <2>2, <2>3, <3>1, <3>2, <3>6 DEF Follows
    <3> QED BY <3>4, <3>5, <3>6
  <2>7. CASE i > Len(ring)
    <3> DEFINE j == i - Len(ring)
    <3>1. /\ j \in 1..Len(block) /\ j + 1 \in 1..Len(block)
          /\ ring'[i] = block[j] /\ ring'[i + 1] = block[j + 1]
      <4>1. i \in Int /\ i <= Len(ring) + Len(block) - 1 /\ Len(ring') = Len(ring) + Len(block)
        BY <1>2, <2>1, <2>2
      <4>2. i \in 1..Len(ring') /\ i + 1 \in 1..Len(ring') /\ ~(i <= Len(ring)) /\ ~(i + 1 <= Len(ring))
        BY <1>2, <2>2, <2>7, <4>1
      <4>3. ring'[i] = block[i - Len(ring)] /\ ring'[i + 1] = block[(i + 1) - Len(ring)]
        BY <2>4, <4>2, Zenon
      <4>4. (i + 1) - Len(ring) = j + 1 /\ j \in 1..Len(block) /\ j + 1 \in 1..Len(block)
        BY <1>2, <2>2, <2>7, <4>1
      <4> QED BY <4>3, <4>4, Zenon
    <3>2. /\ block[j] = <<track, next - Len(block) + j - 1>>
          /\ block[j + 1] = <<track, next - Len(block) + (j + 1) - 1>>
      BY <2>3, <3>1
    <3>3. next - Len(block) + (j + 1) - 1 = (next - Len(block) + j - 1) + 1
      BY <2>2, <2>3, <3>1
    <3> QED BY <3>1, <3>2, <3>3 DEF Follows
  <2> QED BY <1>2, <2>5, <2>6, <2>7
<1> QED BY <1>3, <1>4, <1>5, <1>6, RingFrame DEF PullAudio

-----------------------------------------------------------------------------
(* The type invariant. *)

\* How each flag changes.
LEMMA FlagsFrame ==
  ASSUME Next
  PROVE  /\ UNCHANGED m_shutdownRequested \/ m_shutdownRequested' = TRUE \/ m_shutdownRequested' = FALSE
         /\ UNCHANGED m_direttaReleased \/ m_direttaReleased' = TRUE \/ m_direttaReleased' = FALSE
         /\ UNCHANGED m_callbackRunning \/ m_callbackRunning' = TRUE \/ m_callbackRunning' = FALSE
         /\ UNCHANGED m_open \/ m_open' = TRUE \/ m_open' = FALSE
         /\ UNCHANGED m_playing \/ m_playing' = TRUE \/ m_playing' = FALSE
         /\ UNCHANGED m_paused \/ m_paused' = TRUE \/ m_paused' = FALSE
         /\ UNCHANGED m_draining \/ m_draining' = TRUE \/ m_draining' = FALSE \/ EndRelease \/ Release
         /\ UNCHANGED m_prefillComplete \/ m_prefillComplete' = TRUE \/ m_prefillComplete' = FALSE \/ Send
         /\ UNCHANGED m_postOnlineDelayDone \/ m_postOnlineDelayDone' = TRUE \/ m_postOnlineDelayDone' = FALSE
         /\ UNCHANGED m_rebuffering \/ m_rebuffering' = TRUE \/ m_rebuffering' = FALSE \/ PullAudio
         /\ UNCHANGED online \/ online' = TRUE \/ online' = FALSE
         /\ UNCHANGED sdkPlays \/ sdkPlays' = TRUE \/ sdkPlays' = FALSE
<1>1. /\ UNCHANGED m_shutdownRequested \/ m_shutdownRequested' = TRUE \/ m_shutdownRequested' = FALSE 
      /\ UNCHANGED m_direttaReleased \/ m_direttaReleased' = TRUE \/ m_direttaReleased' = FALSE
  BY DEF Next, Audio, Handler, Issue, ctl,
         Process, NextTrack, TrackEnd, CallbackCheck, CallbackBegin, ChangeStop,
         ChangeFlushed, OpenQuick, OpenLong, OpenEnds, Send, SendRetry, EndDrained, EndStop,
         EndFlushed, EndRelease, Disconnected, PullSilence, PullAudio, TargetDrops, Play,
         PlayNow, Pause, Stop, StopIgnored, EngineStop, Flag, Wait, Reopen, Replace, Cut,
         Silence, NothingOpen, Flushed, Release, PauseAsked, Hold, PlayOffline, Reconnect,
         PlayCheck, Resume, EnginePlay, Ready
<1>2. /\ UNCHANGED m_callbackRunning \/ m_callbackRunning' = TRUE \/ m_callbackRunning' = FALSE
  BY DEF Next, Audio, Handler, Issue, callback, Leaves, Fails,
         Process, NextTrack, TrackEnd, CallbackCheck, CallbackBegin, ChangeStop,
         ChangeFlushed, OpenQuick, OpenLong, OpenEnds, Send, SendRetry, EndDrained, EndStop,
         EndFlushed, EndRelease, Disconnected, PullSilence, PullAudio, TargetDrops, Play,
         PlayNow, Pause, Stop, StopIgnored, EngineStop, Flag, Wait, Reopen, Replace, Cut,
         Silence, NothingOpen, Flushed, Release, PauseAsked, Hold, PlayOffline, Reconnect,
         PlayCheck, Resume, EnginePlay, Ready
<1>3. /\ UNCHANGED m_open \/ m_open' = TRUE \/ m_open' = FALSE 
      /\ UNCHANGED m_playing \/ m_playing' = TRUE \/ m_playing' = FALSE 
      /\ UNCHANGED m_paused \/ m_paused' = TRUE \/ m_paused' = FALSE
  BY DEF Next, Audio, Handler, Issue, conn, SilenceAsked, Stopped, ResetFailed, Released,
         Process, NextTrack, TrackEnd, CallbackCheck, CallbackBegin, ChangeStop,
         ChangeFlushed, OpenQuick, OpenLong, OpenEnds, Send, SendRetry, EndDrained, EndStop,
         EndFlushed, EndRelease, Disconnected, PullSilence, PullAudio, TargetDrops, Play,
         PlayNow, Pause, Stop, StopIgnored, EngineStop, Flag, Wait, Reopen, Replace, Cut,
         Silence, NothingOpen, Flushed, Release, PauseAsked, Hold, PlayOffline, Reconnect,
         PlayCheck, Resume, EnginePlay, Ready
<1>4. /\ UNCHANGED m_draining \/ m_draining' = TRUE \/ m_draining' = FALSE \/ EndRelease \/ Release
  BY DEF Next, Audio, Handler, Issue, flow, SilenceAsked, RequestSilence, Unmuted, ResetFailed,
         Process, NextTrack, TrackEnd, CallbackCheck, CallbackBegin, ChangeStop,
         ChangeFlushed, OpenQuick, OpenLong, OpenEnds, Send, SendRetry, EndDrained, EndStop,
         EndFlushed, EndRelease, Disconnected, PullSilence, PullAudio, TargetDrops, Play,
         PlayNow, Pause, Stop, StopIgnored, EngineStop, Flag, Wait, Reopen, Replace, Cut,
         Silence, NothingOpen, Flushed, Release, PauseAsked, Hold, PlayOffline, Reconnect,
         PlayCheck, Resume, EnginePlay, Ready
<1>5. /\ UNCHANGED m_prefillComplete \/ m_prefillComplete' = TRUE \/ m_prefillComplete' = FALSE \/ Send
  BY DEF Next, Audio, Handler, Issue, flow, SilenceAsked, Emptied, ResetFailed, Released,
         Process, NextTrack, TrackEnd, CallbackCheck, CallbackBegin, ChangeStop,
         ChangeFlushed, OpenQuick, OpenLong, OpenEnds, Send, SendRetry, EndDrained, EndStop,
         EndFlushed, EndRelease, Disconnected, PullSilence, PullAudio, TargetDrops, Play,
         PlayNow, Pause, Stop, StopIgnored, EngineStop, Flag, Wait, Reopen, Replace, Cut,
         Silence, NothingOpen, Flushed, Release, PauseAsked, Hold, PlayOffline, Reconnect,
         PlayCheck, Resume, EnginePlay, Ready
<1>6. /\ UNCHANGED m_postOnlineDelayDone \/ m_postOnlineDelayDone' = TRUE \/ m_postOnlineDelayDone' = FALSE 
      /\ UNCHANGED m_rebuffering \/ m_rebuffering' = TRUE \/ m_rebuffering' = FALSE \/ PullAudio
  BY DEF Next, Audio, Handler, Issue, flow, SilenceAsked, ResetFailed, Released,
         Process, NextTrack, TrackEnd, CallbackCheck, CallbackBegin, ChangeStop,
         ChangeFlushed, OpenQuick, OpenLong, OpenEnds, Send, SendRetry, EndDrained, EndStop,
         EndFlushed, EndRelease, Disconnected, PullSilence, PullAudio, TargetDrops, Play,
         PlayNow, Pause, Stop, StopIgnored, EngineStop, Flag, Wait, Reopen, Replace, Cut,
         Silence, NothingOpen, Flushed, Release, PauseAsked, Hold, PlayOffline, Reconnect,
         PlayCheck, Resume, EnginePlay, Ready
<1>7. /\ UNCHANGED online \/ online' = TRUE \/ online' = FALSE 
      /\ UNCHANGED sdkPlays \/ sdkPlays' = TRUE \/ sdkPlays' = FALSE
  BY DEF Next, Audio, Handler, Issue, sdk, Stopped, ResetFailed, Released,
         Process, NextTrack, TrackEnd, CallbackCheck, CallbackBegin, ChangeStop,
         ChangeFlushed, OpenQuick, OpenLong, OpenEnds, Send, SendRetry, EndDrained, EndStop,
         EndFlushed, EndRelease, Disconnected, PullSilence, PullAudio, TargetDrops, Play,
         PlayNow, Pause, Stop, StopIgnored, EngineStop, Flag, Wait, Reopen, Replace, Cut,
         Silence, NothingOpen, Flushed, Release, PauseAsked, Hold, PlayOffline, Reconnect,
         PlayCheck, Resume, EnginePlay, Ready
<1> QED BY <1>1, <1>2, <1>3, <1>4, <1>5, <1>6, <1>7

LEMMA FlagsStep ==
  ASSUME FlagsOK, Next
  PROVE  FlagsOK'
<1>1. EndRelease \/ Release => m_draining' \in BOOLEAN
  BY Zenon DEF FlagsOK, EndRelease, Release, Released, ResetFailed, Unmuted
<1>2. Send => m_prefillComplete' \in BOOLEAN
  BY Zenon DEF FlagsOK, Send
<1>3. PullAudio => m_rebuffering' \in BOOLEAN
  BY Zenon DEF PullAudio
<1>4. \A flag, flag1 : flag \in BOOLEAN /\ (flag1 = flag \/ flag1 = TRUE \/ flag1 = FALSE)
                         => flag1 \in BOOLEAN
  OBVIOUS
<1>5. /\ m_shutdownRequested' \in BOOLEAN /\ m_direttaReleased' \in BOOLEAN
      /\ m_callbackRunning' \in BOOLEAN
  BY <1>4, FlagsFrame, Zenon DEF FlagsOK
<1>7. m_open' \in BOOLEAN /\ m_playing' \in BOOLEAN /\ m_paused' \in BOOLEAN
  BY <1>4, FlagsFrame, Zenon DEF FlagsOK
<1>8. m_postOnlineDelayDone' \in BOOLEAN /\ online' \in BOOLEAN /\ sdkPlays' \in BOOLEAN
  BY <1>4, FlagsFrame, Zenon DEF FlagsOK
<1>6. m_draining' \in BOOLEAN /\ m_prefillComplete' \in BOOLEAN /\ m_rebuffering' \in BOOLEAN
  BY <1>1, <1>2, <1>3, <1>4, FlagsFrame, Zenon DEF FlagsOK
<1> QED BY <1>5, <1>6, <1>7, <1>8, Zenon DEF FlagsOK

LEMMA SessionStep ==
  ASSUME SessionOK, EngineOK, StepsOK, Next
  PROVE  SessionOK'
<1>1. format' = format \/ format' = 0 \/ format' = FormatOf[track]
  BY DEF Next, Audio, Handler, Issue, conn, SilenceAsked, Stopped, ResetFailed, Released,
         Process, NextTrack, TrackEnd, CallbackCheck, CallbackBegin, ChangeStop,
         ChangeFlushed, OpenQuick, OpenLong, OpenEnds, Send, SendRetry, EndDrained, EndStop,
         EndFlushed, EndRelease, Disconnected, PullSilence, PullAudio, TargetDrops, Play,
         PlayNow, Pause, Stop, StopIgnored, EngineStop, Flag, Wait, Reopen, Replace, Cut,
         Silence, NothingOpen, Flushed, Release, PauseAsked, Hold, PlayOffline, Reconnect,
         PlayCheck, Resume, EnginePlay, Ready
<1>2. format' \in Nat
  <2>1. FormatOf[track] \in Nat
    BY Constants DEF EngineOK
  <2> QED BY <1>1, <2>1 DEF SessionOK
<1>3. \/ UNCHANGED m_silenceBuffersRemaining
      \/ m_silenceBuffersRemaining' \in {0, SilenceUnits}
      \/ /\ m_silenceBuffersRemaining > 0
         /\ m_silenceBuffersRemaining' = m_silenceBuffersRemaining - 1
  BY DEF Next, Audio, Handler, Issue, flow, SilenceAsked, RequestSilence, Unmuted, ResetFailed,
         Released,
         Process, NextTrack, TrackEnd, CallbackCheck, CallbackBegin, ChangeStop,
         ChangeFlushed, OpenQuick, OpenLong, OpenEnds, Send, SendRetry, EndDrained, EndStop,
         EndFlushed, EndRelease, Disconnected, PullSilence, PullAudio, TargetDrops, Play,
         PlayNow, Pause, Stop, StopIgnored, EngineStop, Flag, Wait, Reopen, Replace, Cut,
         Silence, NothingOpen, Flushed, Release, PauseAsked, Hold, PlayOffline, Reconnect,
         PlayCheck, Resume, EnginePlay, Ready
<1>4. m_silenceBuffersRemaining' \in 0..SilenceUnits
  BY <1>3, Constants DEF SessionOK
<1>5. lifecycle' \in {"free", "audio", "command"}
  BY DEF SessionOK, Next, Audio, Handler, Issue, SilenceAsked,
         Process, NextTrack, TrackEnd, CallbackCheck, CallbackBegin, ChangeStop,
         ChangeFlushed, OpenQuick, OpenLong, OpenEnds, Send, SendRetry, EndDrained, EndStop,
         EndFlushed, EndRelease, Disconnected, PullSilence, PullAudio, TargetDrops, Play,
         PlayNow, Pause, Stop, StopIgnored, EngineStop, Flag, Wait, Reopen, Replace, Cut,
         Silence, NothingOpen, Flushed, Release, PauseAsked, Hold, PlayOffline, Reconnect,
         PlayCheck, Resume, EnginePlay, Ready
<1>6. ASSUME audio' \in {"opening", "change.flush", "end.flush"}
      PROVE  lifecycle' = "audio"
  <2>1. CASE Audio
    BY <1>6, <2>1
       DEF SessionOK, Audio, callback, At, Leaves, Fails, SilenceAsked,
         Process, NextTrack, TrackEnd, CallbackCheck, CallbackBegin, ChangeStop,
         ChangeFlushed, OpenQuick, OpenLong, OpenEnds, Send, SendRetry, EndDrained, EndStop,
         EndFlushed, EndRelease, Disconnected
  <2>2. CASE ~Audio
    <3>1. /\ audio' = audio
          /\ UNCHANGED lifecycle \/ lifecycle = "free" \/ Doing("flush") \/ Doing("hold")
      BY <2>2
         DEF Next, Handler, Issue, SilenceAsked,
         PullSilence, PullAudio, TargetDrops, Play,
         PlayNow, Pause, Stop, StopIgnored, EngineStop, Flag, Wait, Reopen, Replace, Cut,
         Silence, NothingOpen, Flushed, Release, PauseAsked, Hold, PlayOffline, Reconnect,
         PlayCheck, Resume, EnginePlay, Ready
    <3> QED BY <1>6, <3>1 DEF SessionOK, StepsOK
  <2> QED BY <2>1, <2>2
<1> QED BY <1>2, <1>4, <1>5, <1>6 DEF SessionOK

LEMMA EngineStep ==
  ASSUME EngineOK, CallbackOK, Next
  PROVE  EngineOK'
<1>1. CASE Process
  <2>1. Position \in 1..Length /\ track \in 1..Tracks
    BY <1>1 DEF EngineOK, Position, Process
  <2>2. /\ Len(Decoded(Position)) \in 1..BlockUnits
        /\ Position + Len(Decoded(Position)) <= Length + 1
    BY <2>1, DecodedBlock
  <2>3. next' = Position + Len(Decoded(Position)) /\ UNCHANGED <<state, track>>
    BY <1>1 DEF Process
  <2>4. next' \in 0..Length + 1
    BY <2>1, <2>2, <2>3, Constants
  <2> QED BY <2>3, <2>4 DEF EngineOK
<1>2. CASE UNCHANGED engine
  BY <1>2 DEF EngineOK, engine
<1>3. CASE NextTrack
  BY <1>3, Constants DEF EngineOK, NextTrack
<1>4. CASE TrackEnd \/ CallbackCheck \/ OpenEnds \/ SendRetry \/ Pause
  BY <1>4 DEF EngineOK, engine, Fails, TrackEnd, CallbackCheck, OpenEnds, SendRetry, Pause
<1>5. CASE EngineStop \/ Reopen \/ Replace \/ EnginePlay
  BY <1>5, Constants DEF EngineOK, EngineStop, Reopen, Replace, EnginePlay
<1> QED BY <1>1, <1>2, <1>3, <1>4, <1>5, EngineFrame

LEMMA CallbackStep ==
  ASSUME EngineOK, CallbackOK, RingOK, BlockOK, Next
  PROVE  CallbackOK'
<1>1. <<>> \in Seq(Unit) /\ Len(<<>>) = 0
  OBVIOUS
<1>2. CASE Process
  <2>1. Position \in 1..Length /\ track \in 1..Tracks
    BY <1>2 DEF EngineOK, Position, Process
  <2>2. Decoded(Position) \in Seq(Unit) /\ Len(Decoded(Position)) <= BlockUnits
    BY <2>1, DecodedBlock, Constants
  <2> QED BY <1>2, <2>2 DEF Process, CallbackOK, At, AudioPc
<1>3. CASE CallbackBegin
  BY <1>3 DEF CallbackBegin, CallbackOK, At, AudioPc
<1>4. CASE Send
  <2>1. block' = <<>> /\ retryCount' = 0 /\ audio' = "loop"
    BY <1>4, Sent
  <2>2. Len(block') = 0 /\ block' \in Seq(Unit)
    BY <1>1, <2>1
  <2> QED BY <2>1, <2>2, Constants DEF CallbackOK, AudioPc
<1>5. CASE Leaves("failed")
  <2>1. block' = <<>> /\ retryCount' = 0 /\ audio' = "failed"
    BY <1>5 DEF Leaves, At
  <2>2. Len(block') = 0 /\ block' \in Seq(Unit)
    BY <1>1, <2>1
  <2> QED BY <2>1, <2>2, Constants DEF CallbackOK, AudioPc
<1>6. CASE SendRetry /\ UNCHANGED <<block, audio, m_callbackRunning>>
  BY <1>6, Constants DEF SendRetry, Fails, Leaves, At, CallbackOK
<1>7. CASE /\ UNCHANGED callback
           /\ audio' = audio \/ audio' \in Idle \/ audio' \in Busy
  BY <1>7, Labels DEF CallbackOK, callback
<1> QED BY <1>2, <1>3, <1>4, <1>5, <1>6, <1>7, CallbackFrame

LEMMA TypeStep ==
  ASSUME TypeOK, StepsOK, BlockOK, Next
  PROVE  TypeOK'
<1>1. FlagsOK /\ EngineOK /\ CallbackOK /\ SessionOK /\ RingOK /\ TodoOK
  BY TypeParts
<1>2. RingOK'
  <2>1. CASE Send
    BY <1>1, <2>1, Sent DEF RingOK
  <2>2. CASE ~Send
    <3>1. ring' \in Seq(Unit) /\ Len(ring') <= Len(ring)
      BY <1>1, <2>2, RingShrinks
    <3> QED BY <1>1, <3>1, Constants, LenProperties DEF RingOK
  <2> QED BY <2>1, <2>2
<1>3. TodoOK'
  <2>1. todo' \in Seq(Step)
    BY StepsStep, RestOf DEF StepsOK
  <2>2. command' \in Commands \cup {"none", "ignored", "failed"}
    BY <1>1, CommandFrame
       DEF TodoOK, Handler, ctl, Issue, Onward, Then, SilenceAsked,
         Play, PlayNow, Pause, Stop, StopIgnored,
         EngineStop, Flag, Wait, Reopen, Replace, Cut, Silence, NothingOpen, Flushed, Release,
         PauseAsked, Hold, PlayOffline, Reconnect, PlayCheck, Resume, EnginePlay, Ready
  <2> QED BY <2>1, <2>2 DEF TodoOK
<1> QED BY <1>1, <1>2, <1>3, FlagsStep, SessionStep, EngineStep, CallbackStep, TypeParts

-----------------------------------------------------------------------------
(* A stop that is carried out. *)

StopList == Ends(StopSteps) \cup Ends(<<"release">>)

\* AudioEngine is stopped and left alone: no other thread starts it.
\* AudioEngine is stopped and left alone: only play() starts it.
LEMMA StaysStopped ==
  ASSUME Next, state = "STOPPED", ~EnginePlay
  PROVE  state' = "STOPPED" /\ (EngineFree => EngineFree')
<1>1. state' = "STOPPED"
  BY EngineFrame
     DEF engine, Fails, Process, NextTrack, TrackEnd, CallbackCheck, OpenEnds, SendRetry,
         Pause, EngineStop, Reopen, Replace
<1>2. ASSUME EngineFree
      PROVE  EngineFree'
  <2>1. CASE Audio
    BY <1>2, <2>1
       DEF EngineFree, Audio, At,
         Process, NextTrack, TrackEnd, CallbackCheck, CallbackBegin, ChangeStop,
         ChangeFlushed, OpenQuick, OpenLong, OpenEnds, Send, SendRetry, EndDrained, EndStop,
         EndFlushed, EndRelease, Disconnected
  <2>2. CASE ~Audio
    <3>1. audio' = audio
      BY <2>2
         DEF Next, Handler, Issue, PullSilence, PullAudio, TargetDrops, Play,
         PlayNow, Pause, Stop, StopIgnored, EngineStop, Flag, Wait, Reopen, Replace, Cut,
         Silence, NothingOpen, Flushed, Release, PauseAsked, Hold, PlayOffline, Reconnect,
         PlayCheck, Resume, EnginePlay, Ready
    <3> QED BY <1>2, <3>1 DEF EngineFree
  <2> QED BY <2>1, <2>2
<1> QED BY <1>1, <1>2

LEMMA StopStep ==
  ASSUME TypeOK, StopUnderway, Next
  PROVE  StopUnderway'
<1> SUFFICES ASSUME command' = "stop"
             PROVE  /\ todo' \in StopList
                    /\ Len(todo') < 7 => state' = "STOPPED"
                    /\ Len(todo') < 4 => EngineFree'
                    /\ todo' = <<>> => ~m_open'
  BY DEF StopUnderway, StopList
<1>1. CASE Stop
  <2>1. todo' = StopSteps
    BY <1>1 DEF Stop, Issue, StopSteps
  <2>2. Len(todo') = 7 /\ todo' # <<>>
    BY <2>1, StopLists
  <2> QED BY <2>1, <2>2, StopLists DEF StopList
<1>2. CASE ~Stop
  <2>1. command = "stop"
    BY <1>2, CommandFrame
       DEF ctl, Handler, Issue, Onward, Then, SilenceAsked, Play, PlayNow, Pause, StopIgnored,
         EngineStop, Flag, Wait, Reopen, Replace, Cut,
         Silence, NothingOpen, Flushed, Release, PauseAsked, Hold, PlayOffline, Reconnect,
         PlayCheck, Resume, EnginePlay, Ready
  <2>2. /\ todo \in StopList
        /\ Len(todo) < 7 => state = "STOPPED"
        /\ Len(todo) < 4 => EngineFree
        /\ todo = <<>> => ~m_open
    BY <2>1 DEF StopUnderway, StopList
  <2>3. \/ todo = <<>>
        \/ /\ todo # <<>> /\ Len(todo) \in 1..7 /\ Len(Tail(todo)) = Len(todo) - 1
           /\ Tail(todo) \in StopList
           /\ Doing("engine.stop") => Len(todo) = 7
           /\ Doing("flag") => Len(todo) = 6
           /\ Doing("wait") => Len(todo) = 5
           /\ Doing("reopen") => Len(todo) = 4
           /\ Doing("silence") => Len(todo) = 3
           /\ Doing("flush") => Len(todo) = 2
           /\ Doing("release") => Len(todo) = 1
           /\ Head(todo) \in {"engine.stop", "flag", "wait", "reopen", "silence", "flush", "release"}
    BY <2>2, StopLists DEF StopList, Doing
  <2>4. ~EnginePlay
    BY <2>3 DEF EnginePlay, Doing
  <2>5. Len(<<>>) = 0
    OBVIOUS
  <2>6. CASE UNCHANGED ctl
    <3>1. todo = <<>> => ~m_open'
      <4>1. todo = <<>> => audio \in {"loop", "failed"} /\ ~m_open
        BY <2>2, <2>5 DEF EngineFree
      <4> QED BY <4>1, OnlineFrame DEF OpenEnds, TargetDrops, conn
    <3> QED BY <2>2, <2>4, <2>6, <3>1, StaysStopped DEF ctl
  <2>7. CASE todo # <<>> /\ todo' = Tail(todo) /\ (EngineStop \/ Flag \/ Wait \/ Flushed \/ Silence)
    <3>1. /\ Len(todo') = Len(todo) - 1 /\ todo' \in StopList /\ Len(todo) \in 1..7
          /\ Len(todo) # 4 /\ Len(todo) # 1
      <4>1. Len(todo) \in {7, 6, 5, 2, 3}
        BY <2>3, <2>7 DEF EngineStop, Flag, Wait, Flushed, Silence
      <4>2. Len(todo) # 4 /\ Len(todo) # 1
        BY ONLY <4>1
      <4> QED BY <2>3, <2>7, <4>2
    <3>2. todo' # <<>>
      BY <2>5, <3>1
    <3>3. state' = "STOPPED"
      <4>1. CASE EngineStop
        BY <4>1 DEF EngineStop
      <4>2. CASE ~EngineStop
        <5>1. Len(todo) \in {6, 5, 2, 3}
          BY <2>3, <2>7, <4>2 DEF Flag, Wait, Flushed, Silence
        <5>2. Len(todo) < 7
          <6>1. \A n \in {6, 5, 2, 3} : n < 7
            OBVIOUS
          <6> QED BY <5>1, <6>1, Zenon
        <5> QED BY <2>2, <2>4, <5>2, StaysStopped
      <4> QED BY <4>1, <4>2
    <3>4. Len(todo') < 4 => EngineFree'
      <4>1. Len(todo') < 4 => Len(todo) < 4
        BY <3>1
      <4> QED BY <2>2, <2>4, <3>1, <4>1, StaysStopped
    <3> QED BY <3>1, <3>2, <3>3, <3>4
  <2>8. CASE Reopen
    <3>1. /\ Len(todo') = 3 /\ todo' \in StopList /\ Len(todo) = 4
      BY <2>3, <2>8 DEF Reopen, Onward, Then, Doing
    <3>2. todo' # <<>>
      BY <2>5, <3>1
    <3>3. state' = "STOPPED" /\ EngineFree'
      BY <2>2, <2>4, <2>8, <3>1, StaysStopped DEF Reopen
    <3> QED BY <3>1, <3>2, <3>3
  <2>9. CASE Silence /\ todo' = <<"release">>
    <3>1. Len(todo) = 3
      BY <2>3, <2>9 DEF Silence, Doing
    <3>2. <<"release">> \in StopList
      <4>1. <<"release">> \in Seq(Step)
        BY DEF Step
      <4> QED BY <4>1, WholeList DEF StopList
    <3>3. <<"release">> # <<>>
      OBVIOUS
    <3>4. state' = "STOPPED" /\ EngineFree'
      BY <2>2, <2>4, <3>1, StaysStopped
    <3> QED BY <2>9, <3>2, <3>3, <3>4
  <2>10. CASE NothingOpen
    <3>1. Len(todo) = 3 /\ todo' = <<>> /\ ~m_open'
      BY <2>3, <2>10 DEF NothingOpen, Then, Doing, conn
    <3>2. <<>> \in StopList
      <4>1. <<"release">> \in Seq(Step)
        BY DEF Step
      <4> QED BY <4>1, WholeList DEF StopList
    <3>3. state' = "STOPPED" /\ EngineFree'
      BY <2>2, <2>4, <3>1, StaysStopped
    <3> QED BY <3>1, <3>2, <3>3
  <2>11. CASE Release
    <3>1. Len(todo) = 1 /\ todo' \in StopList /\ ~m_open'
      BY <2>3, <2>11 DEF Release, Onward, Then, Doing, Released, ResetFailed
    <3>2. state' = "STOPPED" /\ EngineFree'
      BY <2>2, <2>4, <3>1, StaysStopped
    <3> QED BY <3>1, <3>2
  <2>12. CASE Handler
    <3>1. \/ EngineStop \/ Flag \/ Wait \/ Reopen \/ Silence \/ NothingOpen \/ Flushed \/ Release
      BY <2>3, <2>12
         DEF Handler, Doing, Replace, Cut, PauseAsked, Hold, PlayOffline, Reconnect, PlayCheck,
             Resume, EnginePlay, Ready
    <3>2. todo # <<>>
      BY <3>1 DEF EngineStop, Flag, Wait, Reopen, Silence, NothingOpen, Flushed, Release, Doing
    <3>3. EngineStop \/ Flag \/ Wait \/ Flushed => todo' = Tail(todo)
      BY DEF EngineStop, Flag, Wait, Flushed, Onward, Then
    <3>4. Silence => todo' = Tail(todo) \/ todo' = <<"release">>
      BY DEF Silence, SilenceAsked, Onward, Then
    <3> QED BY <2>7, <2>8, <2>9, <2>10, <2>11, <3>1, <3>2, <3>3, <3>4
  <2> QED BY <1>2, <2>1, <2>6, <2>12, CommandFrame DEF Play, PlayNow, Pause, StopIgnored, Issue
<1> QED BY <1>1, <1>2

-----------------------------------------------------------------------------
(* The theorems. *)

LEMMA StutterStep ==
  ASSUME IInv, UNCHANGED vars
  PROVE  IInv'
BY DEF vars, engine, callback, conn, flow, sdk, ctl, IInv, TypeOK, StepsOK, Doing, BlockOK,
       ConnectionOK, Seamless, Muted, Dropped, EngineFree, Position, RingHasNoHole, StopUnderway

LEMMA Initially == Init => IInv
<1> SUFFICES ASSUME Init
             PROVE  IInv
  OBVIOUS
<1>1. TypeOK
  <2>1. <<>> \in Seq(Unit) /\ <<>> \in Seq(Step) /\ Len(<<>>) = 0 /\ FormatOf[1] \in Nat
    BY Constants
  <2>2. FlagsOK /\ EngineOK
    <3>1. FlagsOK
      BY Zenon DEF Init, FlagsOK
    <3> QED BY <3>1, Constants DEF Init, EngineOK
  <2>3. CallbackOK /\ SessionOK
    BY <2>1, Constants DEF Init, CallbackOK, SessionOK, AudioPc
  <2>4. RingOK /\ TodoOK
    BY <2>1, Constants DEF Init, RingOK, TodoOK
  <2> QED BY <2>2, <2>3, <2>4, TypeParts
<1>2. StepsOK
  BY Begins DEF Init, StepsOK, Doing, Begun
<1>3. BlockOK /\ ConnectionOK /\ Seamless /\ StopUnderway
  BY DEF Init, BlockOK, ConnectionOK, Seamless, StopUnderway
<1>4. RingHasNoHole
  <2>1. Len(ring) = 0
    BY DEF Init
  <2> QED BY <2>1 DEF RingHasNoHole
<1> QED BY <1>1, <1>2, <1>3, <1>4 DEF IInv

\* The invariant behind the others: what a command has still to do, where the block of the
\* output callback fits, and what comes next to the ring.
THEOREM Inductive == Spec => []IInv
<1>1. IInv /\ [Next]_vars => IInv'
  <2>1. ASSUME IInv, Next
        PROVE  IInv'
    BY <2>1, TypeStep, StepsStep, BlockStep, ConnectionStep, SeamlessStep, HoleStep, StopStep
       DEF IInv
  <2> QED BY <2>1, StutterStep
<1> QED BY <1>1, Initially, PTL DEF Spec

\* The state is typed: the ring never holds more than it has room for, and retries stay bounded.
THEOREM TypeCorrect == Spec => []TypeOK
<1>1. IInv => TypeOK
  BY DEF IInv
<1> QED BY <1>1, Inductive, PTL

\* No audio is skipped inside what is about to be heard, whatever is paused, stopped,
\* replaced or lost in the middle of a block.
THEOREM NoHole == Spec => []RingHasNoHole
<1>1. IInv => RingHasNoHole
  BY DEF IInv
<1> QED BY <1>1, Inductive, PTL

\* When a stop has been carried out the target is free, the engine is stopped, and the output
\* callback has been left.
THEOREM StopIsComplete == Spec => []StopReleases
<1>1. ASSUME IInv, command = "stop", todo = <<>>
      PROVE  ~m_open /\ ~online /\ state = "STOPPED" /\ ~m_callbackRunning
  <2>1. Len(todo) = 0
    BY <1>1
  <2>2. ~m_open /\ state = "STOPPED" /\ EngineFree
    BY <1>1, <2>1 DEF IInv, StopUnderway
  <2> QED BY <1>1, <2>2 DEF IInv, ConnectionOK, BlockOK, EngineFree
<1>2. IInv => StopReleases
  BY <1>1 DEF StopReleases
<1> QED BY <1>2, Inductive, PTL
=============================================================================

------------------------ MODULE SilencePrecheckProofs ------------------------
(***************************************************************************)
(* Proofs about SilencePrecheck for files of any length, any minimum       *)
(* duration and any tolerance below it: silence.py has 0.2 s and 0.05 s.   *)
(* A tolerance of the minimum duration or more would let a silence at the  *)
(* start of the file go unprinted, and one behind it pass for the whole    *)
(* file.                                                                   *)
(***************************************************************************)
EXTENDS SilencePrecheck, TLAPS

-----------------------------------------------------------------------------
(* Silent stretches.                                                       *)

\* What silencedetect reports: the stretches of the minimum duration.
Long(a) == {s \in Stretches(a) : s[2] - s[1] >= MinSilence}

\* Times are natural numbers and a stretch is silent throughout.
LEMMA StretchIsSilent ==
    ASSUME NEW a \in Seq(BOOLEAN), NEW s \in Stretches(a)
    PROVE  /\ s = <<s[1], s[2]>>
           /\ s[1] \in 0..Len(a) /\ s[2] \in 0..Len(a) /\ s[1] < s[2]
           /\ \A t \in s[1] + 1 .. s[2] : a[t]
BY DEF Stretches

\* Stretches are maximal: one that starts where another is silent or starts
\* is that other one.
LEMMA StretchesAreApart ==
    ASSUME NEW a \in Seq(BOOLEAN), NEW f \in Stretches(a), NEW g \in Stretches(a),
           f[1] <= g[1], g[1] <= f[2]
    PROVE  f = g
<1>0. /\ Len(a) \in Nat
      /\ f = <<f[1], f[2]>> /\ g = <<g[1], g[2]>>
      /\ f[1] \in 0..Len(a) /\ f[2] \in 0..Len(a) /\ f[1] < f[2]
      /\ g[1] \in 0..Len(a) /\ g[2] \in 0..Len(a) /\ g[1] < g[2]
  BY StretchIsSilent
<1>1. f[1] = g[1]
  <2> SUFFICES ASSUME f[1] < g[1]  PROVE FALSE
    BY <1>0
  <2>1. g[1] \in f[1] + 1 .. f[2] /\ g[1] > 0
    BY <1>0
  <2>2. a[g[1]]
    BY <2>1, StretchIsSilent
  <2>3. ~ a[g[1]]
    BY <2>1 DEF Stretches
  <2>. QED  BY <2>2, <2>3
<1>2. ASSUME NEW x \in Stretches(a), NEW y \in Stretches(a), x[1] = y[1], x[2] < y[2]
      PROVE  FALSE
  <2>0. /\ x[1] \in 0..Len(a) /\ x[2] \in 0..Len(a) /\ x[1] < x[2]
        /\ y[2] \in 0..Len(a)
    BY StretchIsSilent
  <2>1. x[2] + 1 \in y[1] + 1 .. y[2] /\ x[2] < Len(a)
    BY <1>0, <1>2, <2>0
  <2>2. a[x[2] + 1]
    BY <2>1, StretchIsSilent
  <2>3. ~ a[x[2] + 1]
    BY <2>1 DEF Stretches
  <2>. QED  BY <2>2, <2>3
<1>3. f[2] = g[2]
  BY <1>0, <1>1, <1>2
<1>. QED  BY <1>0, <1>1, <1>3

\* Marks that cover the file are those of one silence: no start can have been
\* left out, because a silence that starts the file is longer than the
\* tolerance.
LEMMA CoveredByOneSilence ==
    ASSUME Tolerance < MinSilence,
           NEW a \in Seq(BOOLEAN), NEW m \in Printed(a), CoversFile(Len(a), m)
    PROVE  \E s \in Stretches(a) : s[1] <= Tolerance /\ s[2] >= Len(a) - Tolerance
<1>0. MinSilence \in Nat /\ Tolerance \in Nat /\ Len(a) \in Nat
  BY PrecheckAssumption
<1>1. PICK start \in m.starts, end \in m.ends :
        start <= Tolerance /\ end >= Len(a) - Tolerance
  BY DEF CoversFile
<1>2. m.starts = {start} /\ m.ends = {end}
  BY <1>1 DEF CoversFile, Single
<1>3. /\ m.starts \in {{s[1] : s \in Long(a)}, {s[1] : s \in Long(a)} \ {0}}
      /\ m.ends \subseteq {s[2] : s \in Long(a)}
  BY DEF Printed, Detected, Long
<1>4. PICK s \in Long(a) : s[1] = start
  BY <1>2, <1>3
<1>5. /\ Long(a) \subseteq Stretches(a)
      /\ \A f \in Long(a) : /\ f[1] \in Nat /\ f[2] \in Nat
                            /\ f[2] - f[1] >= MinSilence
  BY <1>0, StretchIsSilent DEF Long
<1>6. ASSUME NEW f \in Long(a)  PROVE f = s
  <2>1. CASE f[1] = 0
    <3>1. f[1] <= s[1] /\ s[1] <= f[2]
      BY <1>0, <1>1, <1>4, <1>5, <2>1
    <3>. QED  BY <1>5, <3>1, StretchesAreApart
  <2>2. CASE f[1] # 0
    <3>0. f[1] \in {x[1] : x \in Long(a)} \ {0}
      BY <2>2
    <3>1. f[1] = s[1]
      BY <1>2, <1>3, <1>4, <3>0
    <3>2. f[1] <= s[1] /\ s[1] <= f[2]
      BY <1>0, <1>5, <3>1, StretchIsSilent
    <3>. QED  BY <1>5, <3>2, StretchesAreApart
  <2>. QED  BY <2>1, <2>2
<1>7. s[2] = end
  BY <1>2, <1>3, <1>6
<1>. QED  BY <1>1, <1>4, <1>5, <1>7

-----------------------------------------------------------------------------
(* The inductive invariant: what each phase knows, and that the verdict is *)
(* the one that the marks call for.                                        *)

PrecheckInv ==
    /\ audio \in Seq(BOOLEAN)
    /\ phase \in Phases
    /\ phase \in {"probe", "detect"} => marks = NoMarks /\ verdict = "none"
    /\ phase \in {"detect", "classify"} => duration = Len(audio)
    /\ phase = "classify" => marks \in Printed(audio) /\ verdict = "none"
    /\ phase = "done" =>
        \/ marks = NoMarks /\ verdict \in {"inconclusive", "raised"}
        \/ /\ marks \in Printed(audio)
           /\ verdict = IF CoversFile(Len(audio), marks) THEN "silence" ELSE "not_silence"

\* The verdict is that of marks ffmpeg may have printed for the file
\* (inspect_audio_silence).
THEOREM PrecheckInvariance == Spec => []PrecheckInv
<1>1. Init => PrecheckInv
  <2>1. ASSUME NEW n \in 1..MaxTicks, audio \in [1..n -> BOOLEAN]
        PROVE  audio \in Seq(BOOLEAN)
    BY <2>1, PrecheckAssumption
  <2>. QED  BY <2>1 DEF Init, PrecheckInv, Phases
<1>2. PrecheckInv /\ [Next]_vars => PrecheckInv'
  <2> SUFFICES ASSUME PrecheckInv, [Next]_vars  PROVE PrecheckInv'
    OBVIOUS
  <2> USE DEF PrecheckInv, Phases
  <2>1. CASE ProbeAudioDuration
    BY <2>1 DEF ProbeAudioDuration, Finish
  <2>2. CASE RunSilencedetect
    BY <2>2 DEF RunSilencedetect, Finish
  <2>3. CASE ClassifySilence
    BY <2>3 DEF ClassifySilence, Finish
  <2>4. CASE UNCHANGED vars
    BY <2>4 DEF vars
  <2>. QED  BY <2>1, <2>2, <2>3, <2>4 DEF Next
<1>. QED  BY <1>1, <1>2, PTL DEF Spec

-----------------------------------------------------------------------------
\* No speech is thrown away: a file that is completed without transcription
\* holds sound only within the tolerance of its edges, however long it is and
\* whatever ffmpeg leaves out (inspect_audio_silence).
THEOREM SpeechIsKept ==
    ASSUME Tolerance < MinSilence
    PROVE  Spec => []NoSpeechDiscarded
<1>1. PrecheckInv => NoSpeechDiscarded
  <2> SUFFICES ASSUME PrecheckInv, verdict = "silence",
                      NEW t \in DOMAIN audio, ~ audio[t]
               PROVE  t <= Tolerance \/ t > Len(audio) - Tolerance
    BY DEF NoSpeechDiscarded
  <2>1. audio \in Seq(BOOLEAN) /\ marks \in Printed(audio) /\ CoversFile(Len(audio), marks)
    BY DEF PrecheckInv, Phases
  <2>2. PICK s \in Stretches(audio) : s[1] <= Tolerance /\ s[2] >= Len(audio) - Tolerance
    BY <2>1, CoveredByOneSilence
  <2>3. /\ s[1] \in 0..Len(audio) /\ s[2] \in 0..Len(audio)
        /\ \A u \in s[1] + 1 .. s[2] : audio[u]
    BY <2>1, StretchIsSilent
  <2>4. t \in 1..Len(audio) /\ Len(audio) \in Nat /\ Tolerance \in Nat
    BY <2>1, PrecheckAssumption
  <2>5. t \notin s[1] + 1 .. s[2]
    BY <2>3
  <2>. QED  BY <2>2, <2>3, <2>4, <2>5
<1>. QED  BY <1>1, PrecheckInvariance, PTL

\* A file that is silent from edge to edge, its only silence printed in full,
\* is never transcribed (ARCHITECTURE.md).
THEOREM SilenceIsCaught == Spec => []RealSilenceIsCaught
<1>1. PrecheckInv => RealSilenceIsCaught
  <2> SUFFICES ASSUME PrecheckInv, phase = "done",
                      marks = [starts |-> {0}, ends |-> {Len(audio)}]
               PROVE  verdict = "silence"
    BY DEF RealSilenceIsCaught
  <2>1. marks.starts = {0} /\ marks.ends = {Len(audio)} /\ marks # NoMarks
    BY DEF NoMarks
  <2>2. Len(audio) \in Nat /\ Tolerance \in Nat
    BY PrecheckAssumption DEF PrecheckInv
  <2>3. CoversFile(Len(audio), marks)
    BY <2>1, <2>2 DEF CoversFile, Single
  <2>. QED  BY <2>1, <2>3 DEF PrecheckInv
<1>. QED  BY <1>1, PrecheckInvariance, PTL
=============================================================================

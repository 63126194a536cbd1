-------------------------- MODULE SilencePrecheck --------------------------
(***************************************************************************)
(* The silence precheck that decides whether a job is transcribed at all   *)
(* (src/app/worker/silence.py): ffprobe gives the duration, ffmpeg's       *)
(* silencedetect filter prints where silences start and end, and a file    *)
(* that is one silence from edge to edge is completed with an empty        *)
(* result.  A wrong "silence" throws speech away, and nothing retries it.  *)
(*                                                                         *)
(* Audio is a sequence of ticks of SILENCE_EDGE_TOLERANCE_SECONDS each,    *)
(* TRUE where it is silent.  What ffmpeg prints for it is external.        *)
(***************************************************************************)
EXTENDS Integers, Sequences

CONSTANTS
    MaxTicks,   \* longest file
    MinSilence, \* SILENCE_MIN_DURATION_SECONDS in ticks
    Tolerance   \* SILENCE_EDGE_TOLERANCE_SECONDS in ticks

ASSUME PrecheckAssumption ==
    /\ MaxTicks \in Nat \ {0}
    /\ MinSilence \in Nat \ {0}
    /\ Tolerance \in Nat

VARIABLES
    audio,      \* the input file
    phase,      \* what inspect_audio_silence does next
    duration,   \* what ffprobe reported
    marks,      \* what silencedetect printed and the patterns matched
    verdict     \* the classification, or "raised" for an escaping exception

vars == <<audio, phase, duration, marks, verdict>>

Phases == {"probe", "detect", "classify", "done"}
NoMarks == [starts |-> {}, ends |-> {}]

\* The maximal silent stretches of a file, as <<start, end>> times.
Stretches(a) ==
    {s \in (0..Len(a)) \X (0..Len(a)) :
        /\ s[1] < s[2]
        /\ \A t \in s[1] + 1 .. s[2] : a[t]
        /\ s[1] > 0 => ~ a[s[1]]
        /\ s[2] < Len(a) => ~ a[s[2] + 1]}

\* What silencedetect finds: stretches of the minimum duration.  Times are
\* distinct, so the lists that the code matches are sets here.
Detected(a) ==
    LET found == {s \in Stretches(a) : s[2] - s[1] >= MinSilence}
    IN  [starts |-> {s[1] : s \in found}, ends |-> {s[2] : s \in found}]

\* ... and what may come out of it: a start within the decoder's delay is
\* printed as a negative number, which the pattern does not match, and some
\* builds print no end for a silence that lasts until the end of the file.
Printed(a) ==
    LET found == Detected(a)
    IN  {[starts |-> s, ends |-> e] : s \in {found.starts, found.starts \ {0}},
                                      e \in {found.ends, found.ends \ {Len(a)}}}

Single(S) == \E x \in S : S = {x}

-----------------------------------------------------------------------------
(* Bugs that the properties below would catch.                             *)

\* The number of silences is not looked at: the first start and the last end
\* are taken for one silence.
CoversFile_AnyNumber(d, m) ==
    \E s \in m.starts, e \in m.ends :
        /\ \A x \in m.starts : s <= x
        /\ \A x \in m.ends : x <= e
        /\ s <= Tolerance /\ e >= d - Tolerance

\* The tolerance is applied in the wrong direction.
CoversFile_Strict(d, m) ==
    /\ Single(m.starts) /\ Single(m.ends)
    /\ \E s \in m.starts, e \in m.ends : s <= Tolerance /\ e >= d + Tolerance

-----------------------------------------------------------------------------
\* Exactly one silence, from one edge of the file to the other.
CoversFile(d, m) ==
    /\ Single(m.starts) /\ Single(m.ends)
    /\ \E s \in m.starts, e \in m.ends : s <= Tolerance /\ e >= d - Tolerance

Init ==
    /\ \E n \in 1..MaxTicks : audio \in [1..n -> BOOLEAN]
    /\ phase = "probe"
    /\ duration = 0
    /\ marks = NoMarks
    /\ verdict = "none"

Finish(v) ==
    /\ phase' = "done"
    /\ verdict' = v

\* _probe_audio_duration.  A failed, late or unusable answer is operational
\* uncertainty.
ProbeAudioDuration ==
    /\ phase = "probe"
    /\ \/ phase' = "detect" /\ duration' = Len(audio) /\ UNCHANGED verdict
       \/ Finish("inconclusive") /\ UNCHANGED duration
    /\ UNCHANGED <<audio, marks>>

\* _run_silencedetect.  ffmpeg's messages also quote the tags of the file:
\* bytes that are not valid text raise an exception that is none of those
\* inspect_audio_silence catches.
RunSilencedetect ==
    /\ phase = "detect"
    /\ \/ phase' = "classify" /\ marks' \in Printed(audio) /\ UNCHANGED verdict
       \/ Finish("inconclusive") /\ UNCHANGED marks
       \/ Finish("raised") /\ UNCHANGED marks
    /\ UNCHANGED <<audio, duration>>

ClassifySilence ==
    /\ phase = "classify"
    /\ Finish(IF CoversFile(duration, marks) THEN "silence" ELSE "not_silence")
    /\ UNCHANGED <<audio, duration, marks>>

Next == ProbeAudioDuration \/ RunSilencedetect \/ ClassifySilence

Spec == Init /\ [][Next]_vars

-----------------------------------------------------------------------------
\* A file whose job is completed without transcription holds sound only
\* within the tolerance of its edges, whatever ffmpeg leaves out of its
\* output (inspect_audio_silence).
NoSpeechDiscarded ==
    verdict = "silence" =>
        \A t \in DOMAIN audio :
            ~ audio[t] => t <= Tolerance \/ t > Len(audio) - Tolerance

\* A file that is silent from start to end, and whose only silence was printed
\* in full, is not transcribed (ARCHITECTURE.md: "when the input is
\* confidently classified as real silence").
RealSilenceIsCaught ==
    (phase = "done" /\ marks = [starts |-> {0}, ends |-> {Len(audio)}])
        => verdict = "silence"

=============================================================================

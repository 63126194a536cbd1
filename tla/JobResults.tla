----------------------------- MODULE JobResults -----------------------------
(***************************************************************************)
(* The content of one job's result: what process_claimed_job (src/app/     *)
(* worker/service.py) puts together from the outcomes of its stages and    *)
(* persists, and what GET /jobs/{id}/result (src/app/api/routes/jobs.py)   *)
(* makes of the persisted row, at any moment.  Who may write the row, and  *)
(* when, is the matter of JobLifecycle.                                    *)
(***************************************************************************)
EXTENDS Transcripts, SequencesExt

CONSTANTS
    RawSegments,    \* what the ASR engine may emit
    Infos,          \* languages it may detect, with their probability
    RawTurns,       \* what the diarization pipeline may emit
    LegacyTexts,    \* texts that earlier versions stored without segments
    MaxSegments,    \* the most segments of a transcript
    MaxTurns        \* the most speaker turns

ASSUME ResultsAssumption ==
    /\ MaxSegments \in Nat /\ MaxTurns \in Nat
    /\ \A x \in RawSegments :
        x.ok \in BOOLEAN /\ x.id \in Int /\ x.start \in Int /\ x.end \in Int
    /\ RawTurns \subseteq [ok : BOOLEAN, speaker : Nat, start : Int, end : Int]

VARIABLES
    stage,      \* what process_claimed_job does next
    raw,        \* the engine's output (history)
    turns,      \* the pipeline's output (history)
    asr,        \* what the ASR adapter returned
    draft,      \* the result to persist
    stored,     \* the row of job_results: none or one
    answer      \* the last answer of the result endpoint

vars == <<stage, raw, turns, asr, draft, stored, answer>>

Stages == {"inspect", "diarize", "persist", "completed", "failed"}

\* A flag of metadata_json, which rows of earlier versions may not have.
Flag(b) == IF b THEN "true" ELSE "false"

\* speaker_segments_json, and the segments of transcript_json, are a list, or
\* there is none.
Null == [given |-> FALSE, list |-> <<>>]
Given(s) == [given |-> TRUE, list |-> s]

-----------------------------------------------------------------------------
(* Bugs that the properties below would catch.                             *)

\* A degraded result looks like one in which nobody spoke.
DegradedSpeakers_Empty == Given(<<>>)

\* The fallback for missing metadata looks at the segments and not the text.
IsEmpty_BySegments(r) ==
    IF r.empty = "missing" THEN r.segments.list = <<>> ELSE r.empty = "true"

-----------------------------------------------------------------------------
(* Results, as process_claimed_job builds them.                            *)

SilenceResult ==
    [text |-> <<>>, segments |-> Given(<<>>), language |-> NoLanguage,
     detected |-> NoLanguage, speakers |-> Given(<<>>),
     empty |-> "true", attempted |-> "false", status |-> "missing"]

DegradedSpeakers == Null

DegradedResult(a) ==
    [text |-> a.text, segments |-> Given(a.segments), language |-> a.language,
     detected |-> a.language, speakers |-> DegradedSpeakers,
     empty |-> Flag(a.empty), attempted |-> "true", status |-> "failed"]

DiarizedResult(a, raws) ==
    [DegradedResult(a) EXCEPT !.speakers = Given(SpeakerTurns(raws)), !.status = "completed"]

\* A row of an earlier version: without the metadata, and with the language in
\* either of its two places or in none.
LegacyResult(text, segments, l, d) ==
    [text |-> text, segments |-> segments, language |-> l, detected |-> d,
     speakers |-> Null, empty |-> "missing", attempted |-> "missing",
     status |-> "missing"]

\* It has the segments of its text, or a text and no segments
\* (tests/test_jobs_api.py).
LegacyResults ==
    {LegacyResult(TranscriptText(Transcript(s)), Given(Transcript(s)), i.language, d) :
        s \in BoundedSeq(RawSegments, 1), i \in Infos, d \in {NoLanguage, "es"}}
    \cup {LegacyResult(text, Null, i.language, d) :
        text \in LegacyTexts, i \in Infos, d \in {NoLanguage, "es"}}

-----------------------------------------------------------------------------
(* The projection of the API.                                              *)

\* _normalize_language
Language(l) == IF l = Blank THEN NoLanguage ELSE l

\* _resolve_public_language
PublicLanguage(r) ==
    IF Language(r.detected) # NoLanguage THEN Language(r.detected)
    ELSE Language(r.language)

TranscriptLanguage(r, language) == language

IsEmpty(r) == IF r.empty = "missing" THEN r.text = <<>> ELSE r.empty = "true"

\* _build_public_transcript_json
PublicSegments(r) == IF r.segments.given THEN r.segments.list ELSE <<>>

\* _build_job_result_read
Public(r) ==
    [text |-> r.text,
     segments |-> PublicSegments(r),
     transcriptLanguage |-> TranscriptLanguage(r, PublicLanguage(r)),
     detectedLanguage |-> PublicLanguage(r),
     speakers |-> r.speakers,
     empty |-> IsEmpty(r),
     attempted |-> r.attempted = "true",
     status |-> IF r.status = "missing" THEN "none" ELSE r.status]

-----------------------------------------------------------------------------
Init ==
    /\ \/ stage = "inspect" /\ stored = {}
       \/ stage = "completed" /\ stored \in {{r} : r \in LegacyResults}
    /\ raw = <<>>
    /\ turns = <<>>
    /\ asr = AsrResult(<<>>, [language |-> NoLanguage, probability |-> "none"])
    /\ draft = SilenceResult
    /\ answer = [code |-> "none", body |-> {}]

\* inspect_audio_silence classified the input as silence.
ShortCircuitSilence ==
    /\ stage = "inspect"
    /\ stage' = "persist"
    /\ draft' = SilenceResult
    /\ UNCHANGED <<raw, turns, asr, stored, answer>>

TranscribeAudio ==
    /\ stage = "inspect"
    /\ \E s \in BoundedSeq(RawSegments, MaxSegments), i \in Infos :
        /\ raw' = s
        /\ asr' = AsrResult(s, i)
    /\ stage' = "diarize"
    /\ UNCHANGED <<turns, draft, stored, answer>>

DiarizeAudio ==
    /\ stage = "diarize"
    /\ \E t \in BoundedSeq(RawTurns, MaxTurns) :
        /\ turns' = t
        /\ draft' = DiarizedResult(asr, t)
    /\ stage' = "persist"
    /\ UNCHANGED <<raw, asr, stored, answer>>

\* DiarizationExecutionError: the transcript is kept.
DegradeDiarization ==
    /\ stage = "diarize"
    /\ stage' = "persist"
    /\ draft' = DegradedResult(asr)
    /\ UNCHANGED <<raw, turns, asr, stored, answer>>

\* Any other exception of a stage or of the commit.
FailJob ==
    /\ stage \in {"inspect", "diarize", "persist"}
    /\ stage' = "failed"
    /\ UNCHANGED <<raw, turns, asr, draft, stored, answer>>

PersistCompletedJob ==
    /\ stage = "persist"
    /\ stage' = "completed"
    /\ stored' = {draft}
    /\ UNCHANGED <<raw, turns, asr, draft, answer>>

\* GET /jobs/{id}/result of a job that exists.
GetJobResult ==
    /\ answer' = IF stored = {} THEN [code |-> "409", body |-> {}]
                 ELSE [code |-> "200", body |-> {Public(r) : r \in stored}]
    /\ UNCHANGED <<stage, raw, turns, asr, draft, stored>>

Next ==
    \/ ShortCircuitSilence \/ TranscribeAudio \/ DiarizeAudio
    \/ DegradeDiarization \/ FailJob \/ PersistCompletedJob \/ GetJobResult

Spec == Init /\ [][Next]_vars

-----------------------------------------------------------------------------
(* References: what the order of the adapters is to achieve.               *)

\* How often x occurs in s.
Count(s, x) == Cardinality({i \in DOMAIN s : s[i] = x})

\* No two elements of s that differ have the same key.
KeysTellApart(s, key(_)) ==
    \A i, j \in DOMAIN s : s[i] # s[j] => key(s[i]) # key(s[j])

Permuted(s) ==
    {[k \in DOMAIN s |-> s[p[k]]] :
        p \in {f \in [DOMAIN s -> DOMAIN s] : IsInjective(f)}}

-----------------------------------------------------------------------------
\* A persisted transcript consists of exactly the engine's well-formed
\* segments, each as often as it was emitted, whatever their ids
\* (_normalize_segment, _sort_segments of asr.py).
TranscriptIsComplete ==
    \A r \in stored : raw # <<>> =>
        \A x \in Range(r.segments.list) \cup Range(raw) :
            Count(r.segments.list, x) =
            IF x.ok /\ 0 <= x.start /\ x.start <= x.end THEN Count(raw, x) ELSE 0

\* Two runs of the engine that emit the same segments in another order give
\* transcripts with the same ids and times at every place, whether ids can be
\* trusted or not, so only the texts of segments that share all three may
\* change places ("a deterministically ordered list"; the sort key has no
\* text).  Speaker turns come out the same.
EmissionOrderShowsInTiesOnly ==
    /\ \A s \in Permuted(raw) :
        LET one == Transcript(raw)
            other == Transcript(s)
        IN  /\ DOMAIN other = DOMAIN one
            /\ \A k \in DOMAIN one : ById(other[k]) = ById(one[k])
            /\ KeysTellApart(raw, ById) => other = one
    /\ \A s \in Permuted(turns) : SpeakerTurns(s) = SpeakerTurns(turns)

\* Without ids that can be trusted the transcript follows the clock.
TranscriptFollowsTheClock ==
    \A r \in stored :
        LET list == r.segments.list
        IN  (\E i, j \in DOMAIN list :
                list[i].id < 0 \/ (i # j /\ list[i].id = list[j].id))
            => \A i, j \in DOMAIN list : i < j => list[i].start <= list[j].start

\* The parts of an answer agree: one language in both places, the flag of an
\* empty transcript, and a text that is that of the segments in their order
\* (_build_job_result_read for what the adapters and the builders of service.py
\* made).  The row of an earlier version may have a text and no segments.
AnswerIsCoherent ==
    \A a \in answer.body :
        /\ a.transcriptLanguage = a.detectedLanguage
        /\ a.empty <=> a.text = <<>>
        /\ (\A r \in stored : r.segments.given) => a.text = TranscriptText(a.segments)

\* A client can tell why an answer has no speakers: diarization was not needed
\* or found none (a list), or it failed (null), and only in the latter case,
\* and for rows of earlier versions, are there none to show.
SpeakersAreExplained ==
    \A a \in answer.body :
        /\ a.status = "failed" => a.attempted /\ ~ a.speakers.given
        /\ a.status = "completed" => a.attempted /\ a.speakers.given
        /\ ~ a.speakers.given => a.status = "failed" \/ (a.status = "none" /\ ~ a.attempted)

=============================================================================

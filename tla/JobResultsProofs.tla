-------------------------- MODULE JobResultsProofs --------------------------
(***************************************************************************)
(* Proofs about JobResults: whatever the engines emit, in whatever order,  *)
(* the persisted transcript is complete and in order, and every answer of  *)
(* the result endpoint is coherent, the rows of earlier versions included. *)
(***************************************************************************)
EXTENDS JobResults, TranscriptsProofs

-----------------------------------------------------------------------------
(* The inductive invariant.                                                *)

Lists(X) == UNION {[1..n -> X] : n \in Nat}

\* The flag, where there is one, agrees with the text.
FlagIsRight(r) ==
    /\ r.empty \in {"true", "false", "missing"}
    /\ r.empty = "true" => r.text = <<>>
    /\ r.empty = "false" => r.text # <<>>

SpeakersAreRight(r) ==
    \/ r.status = "failed" /\ r.attempted = "true" /\ ~ r.speakers.given
    \/ r.status = "completed" /\ r.attempted = "true" /\ r.speakers.given
    \/ r.status = "missing" /\ r.attempted # "true"

\* A transcript in the row, or none.
SegmentsAreRight(r) ==
    /\ r.segments.given \in BOOLEAN
    /\ r.segments.given => r.text = TranscriptText(r.segments.list)
    /\ \/ r.segments.list = <<>>
       \/ \E s \in Lists(RawSegments) : r.segments.list = Transcript(s)

\* A result that a builder of service.py made, of this or an earlier version.
Built(r) == SegmentsAreRight(r) /\ FlagIsRight(r) /\ SpeakersAreRight(r)

\* The transcript is that of what the engine emitted.
OfRaw(segments) == raw # <<>> => segments = Transcript(raw)

OutputsOK == raw \in Lists(RawSegments) /\ turns \in Lists(RawTurns)

StageOK ==
    /\ stage \in Stages
    /\ stage = "inspect" => raw = <<>>
    /\ stored # {} => stage \notin {"inspect", "diarize", "persist"}

AsrOK ==
    stage = "diarize" => \E i : asr = AsrResult(raw, i)

DraftOK == stage = "persist" => Built(draft) /\ OfRaw(draft.segments.list)

StoredOK == \A r \in stored : Built(r) /\ OfRaw(r.segments.list)

\* An answer shows the row, which nobody changes.
AnswerOK == \A a \in answer.body : \E r \in stored : a = Public(r)

ResultsInv == OutputsOK /\ StageOK /\ AsrOK /\ DraftOK /\ StoredOK /\ AnswerOK

-----------------------------------------------------------------------------
(* The builders.                                                           *)

\* The text of a transcript without segments is empty.
LEMMA EmptyText == TranscriptText(<<>>) = <<>>
<1>1. {i \in DOMAIN <<>> : <<>>[i].text # Blank} = {}
  OBVIOUS
<1>2. Kept(<<>>, {}) = <<>>
  BY NothingKept
<1>. QED  BY <1>1, <1>2 DEF TranscriptText

\* The bounds of the model are none of the proofs.
LEMMA BoundedSeqIsList ==
    \A X, m : m \in Nat => BoundedSeq(X, m) \subseteq Lists(X)
BY DEF BoundedSeq, SeqOf, Lists

\* The three builders of service.py make coherent results, and so did those
\* of earlier versions.
LEMMA SilenceIsBuilt == Built(SilenceResult) /\ SilenceResult.segments.list = <<>>
BY EmptyText
DEF Built, SilenceResult, SegmentsAreRight, FlagIsRight, SpeakersAreRight, Given

\* What AsrResult returns is coherent.
LEMMA AsrIsCoherent ==
    ASSUME NEW s, NEW i
    PROVE  /\ AsrResult(s, i).segments = Transcript(s)
           /\ AsrResult(s, i).text = TranscriptText(Transcript(s))
           /\ AsrResult(s, i).empty \in BOOLEAN
           /\ AsrResult(s, i).empty <=> AsrResult(s, i).text = <<>>
<1> DEFINE u == Transcript(s)
           nothing == ~ (u # <<>> /\ TranscriptText(u) # <<>>)
<1>1. AsrResult(s, i) = [segments |-> u, text |-> TranscriptText(u),
                         language |-> ReliableLanguage(i), empty |-> nothing]
  BY DEF AsrResult, Transcript
<1>2. nothing \in BOOLEAN /\ (nothing <=> TranscriptText(u) = <<>>)
  BY EmptyText
<1> HIDE DEF u, nothing
<1>3. AsrResult(s, i).segments = u /\ AsrResult(s, i).text = TranscriptText(u)
  BY <1>1
<1>4. AsrResult(s, i).empty = nothing
  BY <1>1
<1>. QED  BY <1>2, <1>3, <1>4 DEF u

\* The results of a degraded and of a complete job, which keep the transcript.
LEMMA TranscriptsAreBuilt ==
    ASSUME NEW s \in Lists(RawSegments), NEW i, NEW a, a = AsrResult(s, i)
    PROVE  /\ Built(DegradedResult(a)) /\ DegradedResult(a).segments.list = Transcript(s)
           /\ \A t : /\ Built(DiarizedResult(a, t))
                     /\ DiarizedResult(a, t).segments.list = Transcript(s)
<1>1. /\ a.segments = Transcript(s) /\ a.text = TranscriptText(a.segments)
      /\ a.empty \in BOOLEAN /\ (a.empty <=> a.text = <<>>)
  BY AsrIsCoherent
<1>2. Flag(a.empty) \in {"true", "false"} /\ (Flag(a.empty) = "true" <=> a.text = <<>>)
  BY <1>1 DEF Flag
<1>3. \E x \in Lists(RawSegments) : a.segments = Transcript(x)
  BY <1>1
<1>4. DegradedResult(a) =
        [text |-> a.text, segments |-> Given(a.segments), language |-> a.language,
         detected |-> a.language, speakers |-> Null,
         empty |-> Flag(a.empty), attempted |-> "true", status |-> "failed"]
  BY DEF DegradedResult, DegradedSpeakers
<1>5. ASSUME NEW t
      PROVE  LET r == DiarizedResult(a, t)
             IN  /\ r.text = a.text /\ r.segments = Given(a.segments)
                 /\ r.empty = Flag(a.empty)
                 /\ r.speakers = Given(SpeakerTurns(t))
                 /\ r.attempted = "true" /\ r.status = "completed"
  BY <1>4 DEF DiarizedResult
<1> HIDE DEF Flag
<1>6. ASSUME NEW r, r.text = a.text, r.segments = Given(a.segments),
             r.empty = Flag(a.empty), SpeakersAreRight(r)
      PROVE  Built(r) /\ r.segments.list = Transcript(s)
  <2>1. FlagIsRight(r)
    BY <1>1, <1>2, <1>6 DEF FlagIsRight
  <2>2. r.segments.given = TRUE /\ r.segments.list = a.segments
    BY <1>6 DEF Given
  <2>3. SegmentsAreRight(r)
    BY <1>1, <1>3, <1>6, <2>2 DEF SegmentsAreRight
  <2>. QED  BY <1>1, <1>6, <2>1, <2>2, <2>3 DEF Built
<1>7. SpeakersAreRight(DegradedResult(a))
  BY <1>4 DEF SpeakersAreRight, Null
<1>8. Built(DegradedResult(a)) /\ DegradedResult(a).segments.list = Transcript(s)
  BY <1>4, <1>6, <1>7
<1>9. ASSUME NEW t
      PROVE  Built(DiarizedResult(a, t)) /\ DiarizedResult(a, t).segments.list = Transcript(s)
  <2>1. SpeakersAreRight(DiarizedResult(a, t))
    <3>1. Given(SpeakerTurns(t)).given
      BY DEF Given
    <3> HIDE DEF Given
    <3>. QED  BY <1>5, <3>1 DEF SpeakersAreRight
  <2>. QED  BY <1>5, <1>6, <2>1
<1>. QED  BY <1>8, <1>9

\* The rows of earlier versions, with and without segments.
LEMMA LegacyIsBuilt == \A r \in LegacyResults : Built(r)
<1>1. ASSUME NEW text, NEW segments, NEW l, NEW d
      PROVE  LET r == LegacyResult(text, segments, l, d)
             IN  /\ FlagIsRight(r) /\ SpeakersAreRight(r)
                 /\ r.text = text /\ r.segments = segments
  BY DEF LegacyResult, FlagIsRight, SpeakersAreRight
<1>2. ASSUME NEW s \in BoundedSeq(RawSegments, 1), NEW l, NEW d
      PROVE  Built(LegacyResult(TranscriptText(Transcript(s)), Given(Transcript(s)), l, d))
  <2> DEFINE r == LegacyResult(TranscriptText(Transcript(s)), Given(Transcript(s)), l, d)
  <2>1. s \in Lists(RawSegments)
    BY BoundedSeqIsList
  <2>2. /\ FlagIsRight(r) /\ SpeakersAreRight(r)
        /\ r.text = TranscriptText(Transcript(s)) /\ r.segments = Given(Transcript(s))
    BY <1>1
  <2> HIDE DEF r
  <2>3. r.segments.given = TRUE /\ r.segments.list = Transcript(s)
    BY <2>2 DEF Given
  <2>4. SegmentsAreRight(r)
    BY <2>1, <2>2, <2>3 DEF SegmentsAreRight
  <2>5. Built(r)
    BY <2>2, <2>4 DEF Built
  <2>. QED  BY <2>5 DEF r
<1>3. ASSUME NEW text, NEW l, NEW d  PROVE Built(LegacyResult(text, Null, l, d))
  <2> DEFINE r == LegacyResult(text, Null, l, d)
  <2>1. FlagIsRight(r) /\ SpeakersAreRight(r) /\ r.segments = Null
    BY <1>1
  <2> HIDE DEF r
  <2>2. SegmentsAreRight(r)
    BY <2>1 DEF SegmentsAreRight, Null
  <2>3. Built(r)
    BY <2>1, <2>2 DEF Built
  <2>. QED  BY <2>3 DEF r
<1> DEFINE D == {NoLanguage, "es"}
           Made(s, i, d) ==
             LegacyResult(TranscriptText(Transcript(s)), Given(Transcript(s)), i.language, d)
           Plain(text, i, d) == LegacyResult(text, Null, i.language, d)
<1>4. LegacyResults = {Made(s, i, d) : s \in BoundedSeq(RawSegments, 1), i \in Infos, d \in D}
                      \cup {Plain(text, i, d) : text \in LegacyTexts, i \in Infos, d \in D}
  BY DEF LegacyResults
<1>5. \A s \in BoundedSeq(RawSegments, 1) : \A i, d : Built(Made(s, i, d))
  BY <1>2
<1>6. \A text, i, d : Built(Plain(text, i, d))
  BY <1>3
<1> HIDE DEF Made, Plain, D
<1>. QED  BY <1>4, <1>5, <1>6

-----------------------------------------------------------------------------
(* The invariant is inductive.                                             *)

\* It holds of an empty row and of one of an earlier version.
LEMMA InitIsBuilt == Init => ResultsInv
<1> SUFFICES ASSUME Init  PROVE ResultsInv
  OBVIOUS
<1>1. OutputsOK
  <2>1. <<>> \in [1..0 -> RawSegments] /\ <<>> \in [1..0 -> RawTurns]
    OBVIOUS
  <2>. QED  BY <2>1 DEF Init, OutputsOK, Lists
<1>2. StageOK
  BY DEF Init, StageOK, Stages
<1>3. AsrOK /\ DraftOK
  BY DEF Init, AsrOK, DraftOK
<1>4. StoredOK
  BY LegacyIsBuilt DEF Init, StoredOK, OfRaw
<1>5. AnswerOK
  BY DEF Init, AnswerOK
<1>. QED  BY <1>1, <1>2, <1>3, <1>4, <1>5 DEF ResultsInv

\* A step that leaves the rows and the answers alone keeps them right.
LEMMA RowsKept ==
    ASSUME ResultsInv, raw' = raw
    PROVE  /\ UNCHANGED stored => StoredOK'
           /\ UNCHANGED <<stored, answer>> => AnswerOK'
           /\ UNCHANGED <<turns>> => OutputsOK'
<1>1. \A segments : OfRaw(segments)' <=> OfRaw(segments)
  BY DEF OfRaw
<1>. QED  BY <1>1 DEF ResultsInv, StoredOK, AnswerOK, OutputsOK, OfRaw, Built

\* Every step keeps it.
LEMMA NextIsBuilt == ResultsInv /\ [Next]_vars => ResultsInv'
<1> SUFFICES ASSUME ResultsInv, [Next]_vars  PROVE ResultsInv'
  OBVIOUS
<1>1. CASE ShortCircuitSilence
  <2>1. UNCHANGED <<raw, turns, asr, stored, answer>> /\ draft' = SilenceResult
        /\ raw = <<>> /\ stage = "inspect" /\ stage' = "persist" /\ stored = {}
    BY <1>1 DEF ShortCircuitSilence, ResultsInv, StageOK
  <2>2. StageOK' /\ AsrOK'
    BY <2>1 DEF StageOK, AsrOK, Stages
  <2>3. DraftOK'
    BY <2>1, SilenceIsBuilt DEF DraftOK, OfRaw
  <2>. QED  BY <2>1, <2>2, <2>3, RowsKept DEF ResultsInv
<1>2. CASE TranscribeAudio
  <2>1. PICK s \in BoundedSeq(RawSegments, MaxSegments), i \in Infos :
          raw' = s /\ asr' = AsrResult(s, i)
    BY <1>2 DEF TranscribeAudio
  <2>2. stored = {} /\ stage' = "diarize" /\ UNCHANGED <<turns, draft, stored, answer>>
    BY <1>2 DEF TranscribeAudio, ResultsInv, StageOK
  <2>3. OutputsOK'
    BY <2>1, <2>2, BoundedSeqIsList, ResultsAssumption DEF ResultsInv, OutputsOK
  <2>4. StageOK' /\ DraftOK' /\ StoredOK'
    BY <2>2 DEF StageOK, DraftOK, StoredOK, Stages
  <2>5. AsrOK'
    BY <2>1 DEF AsrOK
  <2>6. AnswerOK'
    BY <2>2 DEF ResultsInv, AnswerOK
  <2>. QED  BY <2>3, <2>4, <2>5, <2>6 DEF ResultsInv
<1>3. CASE DiarizeAudio
  <2>1. PICK t \in BoundedSeq(RawTurns, MaxTurns) :
          turns' = t /\ draft' = DiarizedResult(asr, t)
    BY <1>3 DEF DiarizeAudio
  <2>2. stored = {} /\ stage = "diarize" /\ stage' = "persist"
        /\ UNCHANGED <<raw, asr, stored, answer>>
    BY <1>3 DEF DiarizeAudio, ResultsInv, StageOK
  <2>3. OutputsOK'
    BY <2>1, <2>2, BoundedSeqIsList, ResultsAssumption DEF ResultsInv, OutputsOK
  <2>4. StageOK' /\ AsrOK'
    BY <2>2 DEF StageOK, AsrOK, Stages
  <2>5. PICK i : asr = AsrResult(raw, i)
    BY <2>2 DEF ResultsInv, AsrOK
  <2>6. raw \in Lists(RawSegments)
    BY DEF ResultsInv, OutputsOK
  <2>7. Built(draft') /\ draft'.segments.list = Transcript(raw)
    BY <2>1, <2>5, <2>6, TranscriptsAreBuilt
  <2>8. DraftOK'
    BY <2>2, <2>7 DEF DraftOK, OfRaw
  <2>. QED  BY <2>2, <2>3, <2>4, <2>8, RowsKept DEF ResultsInv
<1>4. CASE DegradeDiarization
  <2>1. draft' = DegradedResult(asr) /\ stored = {} /\ stage = "diarize" /\ stage' = "persist"
        /\ UNCHANGED <<raw, turns, asr, stored, answer>>
    BY <1>4 DEF DegradeDiarization, ResultsInv, StageOK
  <2>2. StageOK' /\ AsrOK'
    BY <2>1 DEF StageOK, AsrOK, Stages
  <2>3. PICK i : asr = AsrResult(raw, i)
    BY <2>1 DEF ResultsInv, AsrOK
  <2>4. raw \in Lists(RawSegments)
    BY DEF ResultsInv, OutputsOK
  <2>5. Built(draft') /\ draft'.segments.list = Transcript(raw)
    BY <2>1, <2>3, <2>4, TranscriptsAreBuilt
  <2>6. DraftOK'
    BY <2>1, <2>5 DEF DraftOK, OfRaw
  <2>. QED  BY <2>1, <2>2, <2>6, RowsKept DEF ResultsInv
<1>5. CASE FailJob
  <2>1. stage' = "failed" /\ UNCHANGED <<raw, turns, asr, draft, stored, answer>>
    BY <1>5 DEF FailJob
  <2>2. StageOK' /\ AsrOK' /\ DraftOK'
    BY <2>1 DEF StageOK, AsrOK, DraftOK, Stages
  <2>. QED  BY <2>1, <2>2, RowsKept DEF ResultsInv
<1>6. CASE PersistCompletedJob
  <2>1. stage = "persist" /\ stage' = "completed" /\ stored' = {draft}
        /\ UNCHANGED <<raw, turns, asr, draft, answer>>
    BY <1>6 DEF PersistCompletedJob
  <2>2. StageOK' /\ AsrOK' /\ DraftOK'
    BY <2>1 DEF StageOK, AsrOK, DraftOK, Stages
  <2>3. Built(draft) /\ OfRaw(draft.segments.list)
    BY <2>1 DEF ResultsInv, DraftOK
  <2>4. StoredOK'
    BY <2>1, <2>3 DEF StoredOK, OfRaw
  <2>5. AnswerOK'
    <3>1. stored = {}
      BY <2>1 DEF ResultsInv, StageOK
    <3>. QED  BY <2>1, <3>1 DEF ResultsInv, AnswerOK
  <2>. QED  BY <2>1, <2>2, <2>4, <2>5, RowsKept DEF ResultsInv
<1>7. CASE GetJobResult
  <2>1. answer' = (IF stored = {} THEN [code |-> "409", body |-> {}]
                   ELSE [code |-> "200", body |-> {Public(r) : r \in stored}])
        /\ UNCHANGED <<stage, raw, turns, asr, draft, stored>>
    BY <1>7 DEF GetJobResult
  <2>2. answer'.body = {Public(r) : r \in stored}
    BY <2>1
  <2>3. AnswerOK'
    BY <2>1, <2>2 DEF AnswerOK
  <2>4. StageOK' /\ AsrOK' /\ DraftOK'
    BY <2>1 DEF ResultsInv, StageOK, AsrOK, DraftOK, OfRaw
  <2>. QED  BY <2>1, <2>3, <2>4, RowsKept DEF ResultsInv
<1>8. CASE UNCHANGED vars
  <2>1. UNCHANGED <<stage, raw, turns, asr, draft, stored, answer>>
    BY <1>8 DEF vars
  <2>2. StageOK' /\ AsrOK' /\ DraftOK'
    BY <2>1 DEF ResultsInv, StageOK, AsrOK, DraftOK, OfRaw
  <2>. QED  BY <2>1, <2>2, RowsKept DEF ResultsInv
<1>. QED
  BY <1>1, <1>2, <1>3, <1>4, <1>5, <1>6, <1>7, <1>8 DEF Next

\* Every result, in the making, persisted or answered, is one that a builder
\* of service.py made of the transcript of what the engine emitted.
THEOREM ResultsInvariance == Spec => []ResultsInv
<1>. QED  BY InitIsBuilt, NextIsBuilt, PTL DEF Spec

-----------------------------------------------------------------------------
(* Answers.                                                                *)

\* The parts of an answer (_build_job_result_read).
LEMMA AnswerParts ==
    ASSUME NEW r
    PROVE  /\ Public(r).text = r.text /\ Public(r).segments = PublicSegments(r)
           /\ Public(r).speakers = r.speakers
           /\ Public(r).transcriptLanguage = Public(r).detectedLanguage
           /\ Public(r).empty = IsEmpty(r)
           /\ Public(r).attempted = (r.attempted = "true")
           /\ Public(r).status = IF r.status = "missing" THEN "none" ELSE r.status
<1> DEFINE language == PublicLanguage(r)
           segments == PublicSegments(r)
           empty == IsEmpty(r)
           attempted == r.attempted = "true"
           status == IF r.status = "missing" THEN "none" ELSE r.status
<1>1. Public(r) =
        [text |-> r.text, segments |-> segments, transcriptLanguage |-> language,
         detectedLanguage |-> language, speakers |-> r.speakers, empty |-> empty,
         attempted |-> attempted, status |-> status]
  BY DEF Public, TranscriptLanguage
<1> HIDE DEF language, segments, empty, attempted, status
<1>2. /\ Public(r).text = r.text /\ Public(r).segments = segments
      /\ Public(r).speakers = r.speakers
      /\ Public(r).transcriptLanguage = Public(r).detectedLanguage
  BY <1>1
<1>3. Public(r).empty = empty
  BY <1>1
<1>4. Public(r).attempted = attempted
  BY <1>1
<1>5. Public(r).status = status
  BY <1>1
<1>. QED  BY <1>2, <1>3, <1>4, <1>5 DEF segments, empty, attempted, status

\* The flag of an empty transcript is right for rows with and without it.
LEMMA EmptyMeansNoText ==
    ASSUME NEW r, FlagIsRight(r)
    PROVE  IsEmpty(r) \in BOOLEAN /\ (IsEmpty(r) <=> r.text = <<>>)
<1>1. CASE r.empty = "missing"
  BY <1>1 DEF IsEmpty
<1>2. CASE r.empty # "missing"
  BY <1>2 DEF IsEmpty, FlagIsRight
<1>. QED  BY <1>1, <1>2

\* The parts of every answer of GET /jobs/{id}/result agree, whatever the
\* engines emitted and for rows of earlier versions, except that the text of a
\* row without segments stands alone.
THEOREM AnswersAreCoherent == Spec => []AnswerIsCoherent
<1>1. ResultsInv => AnswerIsCoherent
  <2> SUFFICES ASSUME ResultsInv, NEW a \in answer.body
               PROVE  /\ a.transcriptLanguage = a.detectedLanguage
                      /\ a.empty <=> a.text = <<>>
                      /\ (\A r \in stored : r.segments.given) =>
                            a.text = TranscriptText(a.segments)
    BY DEF AnswerIsCoherent
  <2>1. PICK r \in stored : Built(r) /\ a = Public(r)
    BY DEF ResultsInv, StoredOK, AnswerOK
  <2>2. IsEmpty(r) \in BOOLEAN /\ (IsEmpty(r) <=> r.text = <<>>)
    BY <2>1, EmptyMeansNoText DEF Built
  <2>3. a.empty = IsEmpty(r)
    BY <2>1, AnswerParts
  <2>4. a.empty <=> a.text = <<>>
    BY <2>1, <2>2, <2>3, AnswerParts
  <2>5. (\A x \in stored : x.segments.given) => a.text = TranscriptText(a.segments)
    BY <2>1, AnswerParts DEF Built, SegmentsAreRight, PublicSegments
  <2>. QED  BY <2>1, <2>4, <2>5, AnswerParts
<1>. QED  BY <1>1, ResultsInvariance, PTL

\* Every answer without speakers says why.
THEOREM MissingSpeakersAreExplained == Spec => []SpeakersAreExplained
<1>1. ResultsInv => SpeakersAreExplained
  <2> SUFFICES ASSUME ResultsInv, NEW a \in answer.body
               PROVE  /\ a.status = "failed" => a.attempted /\ ~ a.speakers.given
                      /\ a.status = "completed" => a.attempted /\ a.speakers.given
                      /\ ~ a.speakers.given => a.status = "failed"
                                                 \/ (a.status = "none" /\ ~ a.attempted)
    BY DEF SpeakersAreExplained
  <2>1. PICK r \in stored : Built(r) /\ a = Public(r)
    BY DEF ResultsInv, StoredOK, AnswerOK
  <2>2. SpeakersAreRight(r)
    BY <2>1 DEF Built
  <2>3. a.attempted = (r.attempted = "true")
    BY <2>1, AnswerParts
  <2>4. a.attempted <=> r.attempted = "true"
    BY <2>3
  <2>5. a.status = IF r.status = "missing" THEN "none" ELSE r.status
    BY <2>1, AnswerParts
  <2>6. a.speakers = r.speakers
    BY <2>1, AnswerParts
  <2>. QED  BY <2>2, <2>4, <2>5, <2>6 DEF SpeakersAreRight
<1>. QED  BY <1>1, ResultsInvariance, PTL

-----------------------------------------------------------------------------
(* Transcripts.                                                            *)

\* What the engines emit has numbers for times, ids and speakers.
LEMMA EngineTypes ==
    /\ Segments(RawSegments)
    /\ Turns(RawTurns)
    /\ TurnsToldApart(RawTurns)
<1>1. Segments(RawSegments)
  BY ResultsAssumption DEF Segments
<1>2. Turns(RawTurns)
  BY ResultsAssumption DEF Turns
<1>3. TurnsToldApart(RawTurns)
  <2> SUFFICES ASSUME NEW x \in RawTurns, NEW y \in RawTurns,
                      IsValidTurn(x), IsValidTurn(y), ByTurn(x) = ByTurn(y)
               PROVE  x = y
    BY DEF TurnsToldApart
  <2>1. x \in [ok : BOOLEAN, speaker : Nat, start : Int, end : Int]
        /\ y \in [ok : BOOLEAN, speaker : Nat, start : Int, end : Int]
    BY ResultsAssumption
  <2>2. x.ok = TRUE /\ y.ok = TRUE
    BY <2>1 DEF IsValidTurn
  <2>3. x.start = y.start /\ x.end = y.end /\ x.speaker = y.speaker
    BY DEF ByTurn
  <2>. QED  BY <2>1, <2>2, <2>3
<1>. QED  BY <1>1, <1>2, <1>3

\* A transcript without consistent ids follows the clock.
THEOREM TheClockIsFollowed == Spec => []TranscriptFollowsTheClock
<1>1. ResultsInv => TranscriptFollowsTheClock
  <2> SUFFICES ASSUME ResultsInv, NEW r \in stored, NEW list, list = r.segments.list,
                      NEW i \in DOMAIN list, NEW j \in DOMAIN list,
                      list[i].id < 0 \/ (i # j /\ list[i].id = list[j].id)
               PROVE  \A k, l \in DOMAIN list : k < l => list[k].start <= list[l].start
    BY DEF TranscriptFollowsTheClock
  <2>1. list # <<>>
    OBVIOUS
  <2>2. PICK s \in Lists(RawSegments) : list = Transcript(s)
    BY <2>1 DEF ResultsInv, StoredOK, Built, SegmentsAreRight
  <2>3. PICK n \in Nat : s \in [1..n -> RawSegments]
    BY DEF Lists
  <2> DEFINE u == Transcript(s)
  <2>4. PICK m \in Nat :
          /\ u \in [1..m -> RawSegments]
          /\ ~ ConsistentIds(u) => \A k, l \in 1..m : k < l => u[k].start <= u[l].start
    BY <2>3, EngineTypes, TranscriptOfSegments DEF Transcript
  <2> HIDE DEF u
  <2>5. u = list
    BY <2>2 DEF u
  <2>6. i \in 1..m /\ j \in 1..m /\ DOMAIN u = 1..m
    BY <2>4, <2>5
  <2>7. u[i] \in RawSegments
    BY <2>4, <2>6
  <2>8. ~ ConsistentIds(u)
    <3>1. u[i].id \in Int
      BY <2>7, EngineTypes DEF Segments
    <3>. QED  BY <2>5, <2>6, <3>1 DEF ConsistentIds
  <2>. QED  BY <2>4, <2>5, <2>6, <2>8
<1>. QED  BY <1>1, ResultsInvariance, PTL

\* The transcript of a list has each well-formed segment as often as the list,
\* and nothing else.
LEMMA CountsOfTranscript ==
    ASSUME NEW s \in Lists(RawSegments), NEW x \in RawSegments
    PROVE  Count(Transcript(s), x) =
             IF x.ok /\ 0 <= x.start /\ x.start <= x.end THEN Count(s, x) ELSE 0
<1>1. PICK n \in Nat : s \in [1..n -> RawSegments]
  BY DEF Lists
<1> DEFINE u == Transcript(s)
           P == At(s, 1..n, {y \in RawSegments : IsValidSegment(y)})
<1>2. PICK m \in Nat : u \in [1..m -> RawSegments] /\ Rearranged(u, 1..m, s, P)
  BY <1>1, EngineTypes, TranscriptOfSegments DEF Transcript
<1> HIDE DEF u
<1>3. Cardinality(At(u, 1..m, {x})) = Cardinality(At(s, P, {x}))
  BY <1>2, FS_Interval, SameCounts
<1>4. Count(u, x) = Cardinality(At(s, P, {x}))
  <2>1. {i \in DOMAIN u : u[i] = x} = At(u, 1..m, {x})
    BY <1>2 DEF At
  <2>. QED  BY <1>3, <2>1 DEF Count
<1>5. IsValidSegment(x) <=> x.ok /\ 0 <= x.start /\ x.start <= x.end
  BY ResultsAssumption DEF IsValidSegment
<1>6. CASE IsValidSegment(x)
  <2>1. At(s, P, {x}) = {i \in DOMAIN s : s[i] = x}
    BY <1>1, <1>6 DEF At
  <2>. QED  BY <1>4, <1>5, <1>6, <2>1 DEF Count, u
<1>7. CASE ~ IsValidSegment(x)
  <2>1. At(s, P, {x}) = {}
    BY <1>7 DEF At
  <2>. QED  BY <1>4, <1>5, <1>7, <2>1, FS_EmptySet DEF u
<1>. QED  BY <1>6, <1>7

\* A persisted transcript has exactly the well-formed segments, each as often
\* as the engine emitted it.
THEOREM NothingIsLostOrInvented == Spec => []TranscriptIsComplete
<1>1. ResultsInv => TranscriptIsComplete
  <2> SUFFICES ASSUME ResultsInv, NEW r \in stored, raw # <<>>,
                      NEW x \in Range(r.segments.list) \cup Range(raw)
               PROVE  Count(r.segments.list, x) =
                        IF x.ok /\ 0 <= x.start /\ x.start <= x.end
                        THEN Count(raw, x) ELSE 0
    BY DEF TranscriptIsComplete
  <2>1. raw \in Lists(RawSegments) /\ r.segments.list = Transcript(raw)
    BY DEF ResultsInv, OutputsOK, StoredOK, OfRaw
  <2>2. PICK n \in Nat : raw \in [1..n -> RawSegments]
    BY <2>1 DEF Lists
  <2>3. PICK m \in Nat : r.segments.list \in [1..m -> RawSegments]
    <3>1. \E m \in Nat : Transcript(raw) \in [1..m -> RawSegments]
      BY <2>2, EngineTypes, TranscriptOfSegments DEF Transcript
    <3>. QED  BY <2>1, <3>1
  <2>4. x \in RawSegments
    BY <2>2, <2>3 DEF Range
  <2>. QED  BY <2>1, <2>4, CountsOfTranscript
<1>. QED  BY <1>1, ResultsInvariance, PTL

\* A permuted list is a rearranged one.
LEMMA PermutedIsRearranged ==
    ASSUME NEW X, NEW n \in Nat, NEW s \in [1..n -> X], NEW t \in Permuted(s)
    PROVE  t \in [1..n -> X] /\ Rearranged(t, 1..n, s, 1..n)
<1>1. DOMAIN s = 1..n /\ IsFiniteSet(1..n)
  BY FS_Interval
<1>2. PICK p \in [1..n -> 1..n] : IsInjective(p) /\ t = [k \in 1..n |-> s[p[k]]]
  BY <1>1 DEF Permuted
<1>3. p \in Injection(1..n, 1..n)
  BY <1>2, Fun_IsInj DEF IsInjective
<1>4. p \in Surjection(1..n, 1..n)
  BY <1>1, <1>3, FS_Injection
<1>5. p \in Bijection(1..n, 1..n)
  BY <1>3, <1>4, Fun_IsBij
<1>6. t \in [1..n -> X]
  BY <1>2
<1>7. Rearranged(t, 1..n, s, 1..n)
  BY <1>2, <1>5 DEF Rearranged
<1>. QED  BY <1>6, <1>7

\* The order in which the engine emits segments does not show in the ids and
\* times of the transcript, and not at all if they tell the segments apart; the
\* order of turns never shows.
THEOREM EngineOrderShowsInTiesOnly == Spec => []EmissionOrderShowsInTiesOnly
<1>1. ASSUME OutputsOK, NEW t \in Permuted(raw)
      PROVE  LET one == Transcript(raw)
                 other == Transcript(t)
             IN  /\ DOMAIN other = DOMAIN one
                 /\ \A k \in DOMAIN one : ById(other[k]) = ById(one[k])
                 /\ KeysTellApart(raw, ById) => other = one
  <2>1. PICK n \in Nat : raw \in [1..n -> RawSegments]
    BY <1>1 DEF OutputsOK, Lists
  <2>2. t \in [1..n -> RawSegments] /\ Rearranged(t, 1..n, raw, 1..n)
    BY <2>1, PermutedIsRearranged
  <2>3. PICK m \in Nat :
          /\ Transcript(raw) \in [1..m -> RawSegments]
          /\ Transcript(t) \in [1..m -> RawSegments]
          /\ \A k \in 1..m : ById(Transcript(t)[k])
                               = ById(Transcript(raw)[k])
    BY <2>1, <2>2, EngineTypes, SameKeysInTranscript DEF Transcript
  <2>4. ASSUME KeysTellApart(raw, ById)
        PROVE  Transcript(t) = Transcript(raw)
    <3>1. \A i, j \in 1..n : ById(raw[i]) = ById(raw[j]) => raw[i] = raw[j]
      BY <2>1, <2>4 DEF KeysTellApart
    <3>. QED  BY <2>1, <2>2, <3>1, EngineTypes, SameTranscript DEF Transcript
  <2>. QED  BY <2>3, <2>4
<1>2. ASSUME OutputsOK, NEW t \in Permuted(turns)
      PROVE  SpeakerTurns(t) = SpeakerTurns(turns)
  <2>1. PICK n \in Nat : turns \in [1..n -> RawTurns]
    BY <1>2 DEF OutputsOK, Lists
  <2>2. t \in [1..n -> RawTurns] /\ Rearranged(t, 1..n, turns, 1..n)
    BY <2>1, PermutedIsRearranged
  <2>. QED  BY <2>1, <2>2, EngineTypes, SameTurns
<1>3. ResultsInv => EmissionOrderShowsInTiesOnly
  BY <1>1, <1>2 DEF ResultsInv, EmissionOrderShowsInTiesOnly
<1>. QED  BY <1>3, ResultsInvariance, PTL
=============================================================================

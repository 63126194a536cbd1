---------------------------- MODULE Transcripts ----------------------------
(***************************************************************************)
(* What the adapters make of the engines' raw output: the transcript of    *)
(* src/app/worker/asr.py and the speaker turns of src/app/worker/          *)
(* diarization.py, both normalized and sorted.                             *)
(*                                                                         *)
(* A raw segment whose attributes cannot be converted has ok = FALSE.      *)
(* Times are numbers: what the adapters do with times that are none (NaN   *)
(* passes their checks, which test for what is wrong) is not modelled.     *)
(* Texts are names, Blank for one that strips to nothing; a joined text is *)
(* the sequence of its parts.  Speakers are numbered in the order of their *)
(* names, 0 for one that strips to nothing.                                *)
(***************************************************************************)
EXTENDS Integers, Sequences, FiniteSets

Blank == "blank"
NoLanguage == "none"

-----------------------------------------------------------------------------
(* Python's lists: comprehensions, which keep the order, and sorted, which *)
(* is stable, by a key that is a tuple of numbers.                         *)

\* The elements of the finite set P, one after another in the order R.
Ordered(P, R) ==
    CHOOSE f \in [1..Cardinality(P) -> P] :
        \A m, n \in 1..Cardinality(P) : m < n => <<f[m], f[n]>> \in R

\* What s has at the positions of P.
Kept(s, P) ==
    LET order == Ordered(P, {p \in P \X P : p[1] < p[2]})
    IN  [k \in 1..Cardinality(P) |-> s[order[k]]]

LexLess(a, b) ==
    \E k \in DOMAIN a : a[k] < b[k] /\ \A m \in 1..k - 1 : a[m] = b[m]

\* The element at position i comes before that at position j.
Precedes(s, key(_), i, j) ==
    LexLess(key(s[i]), key(s[j])) \/ (key(s[i]) = key(s[j]) /\ i < j)

SortedBy(s, key(_)) ==
    LET before == {p \in (DOMAIN s) \X (DOMAIN s) : Precedes(s, key, p[1], p[2])}
        order == Ordered(DOMAIN s, before)
    IN  [k \in DOMAIN s |-> s[order[k]]]

-----------------------------------------------------------------------------
(* Bugs that the properties of JobResults would catch.                     *)

\* Ids are trusted although two segments may share one.
ConsistentIds_Any(s) == \A i \in DOMAIN s : s[i].id >= 0

\* A segment that ends before it starts is kept.
IsValidSegment_Reversed(x) == x.ok /\ x.start >= 0 /\ x.end >= 0

\* Ids are left out of the key: simultaneous segments keep engine order.
ByTime_NoId(x) == <<x.start, x.end>>

-----------------------------------------------------------------------------
(* Transcripts.                                                            *)

IsValidSegment(x) == x.ok /\ x.start >= 0 /\ x.end >= x.start

ValidSegments(raw) == Kept(raw, {i \in DOMAIN raw : IsValidSegment(raw[i])})

\* _segments_have_consistent_ids
ConsistentIds(s) ==
    /\ \A i \in DOMAIN s : s[i].id >= 0
    /\ \A i, j \in DOMAIN s : i # j => s[i].id # s[j].id

ById(x) == <<x.id, x.start, x.end>>
ByTime(x) == <<x.start, x.end, x.id>>

\* _sort_segments
SortSegments(s) ==
    IF ConsistentIds(s) THEN SortedBy(s, ById) ELSE SortedBy(s, ByTime)

\* _build_transcript_text
TranscriptText(s) ==
    LET spoken == Kept(s, {i \in DOMAIN s : s[i].text # Blank})
    IN  [k \in DOMAIN spoken |-> spoken[k].text]

\* _normalize_detected_language: unlikely guesses are dropped.
ReliableLanguage(info) ==
    IF info.probability = "low" THEN NoLanguage ELSE info.language

\* transcribe_audio
Transcript(raw) == SortSegments(ValidSegments(raw))

AsrResult(raw, info) ==
    LET segments == Transcript(raw)
        text == TranscriptText(segments)
    IN  [segments |-> segments,
         text |-> text,
         language |-> ReliableLanguage(info),
         empty |-> ~ (segments # <<>> /\ text # <<>>)]

-----------------------------------------------------------------------------
(* Speaker turns.                                                          *)

IsValidTurn(x) == x.ok /\ x.speaker # 0 /\ x.start >= 0 /\ x.end > x.start

ByTurn(x) == <<x.start, x.end, x.speaker>>

\* _sort_segments of diarization.py
SortTurns(s) == SortedBy(s, ByTurn)

\* diarize_audio
ValidTurns(raw) == Kept(raw, {i \in DOMAIN raw : IsValidTurn(raw[i])})

SpeakerTurns(raw) == SortTurns(ValidTurns(raw))

=============================================================================

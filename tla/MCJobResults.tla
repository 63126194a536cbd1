---------------------------- MODULE MCJobResults ----------------------------
(***************************************************************************)
(* Instances of JobResults for TLC.  The segments are few and chosen to    *)
(* collide: equal ids, equal times or both, reversed, negative and         *)
(* malformed ones.                                                         *)
(***************************************************************************)
EXTENDS JobResults

Segment(id, start, end, text) ==
    [ok |-> TRUE, id |-> id, start |-> start, end |-> end, text |-> text]

MCRawSegments ==
    {Segment(0, 1, 2, "hello"), Segment(0, 1, 2, "hallo"), Segment(1, 0, 1, "world"),
     Segment(1, 0, 2, Blank), Segment(0, 0, 1, "again"), Segment(-1, 0, 1, "early"),
     Segment(2, 2, 1, "reversed"), [Segment(0, 0, 0, "broken") EXCEPT !.ok = FALSE]}

MCInfos ==
    [language : {"en"}, probability : {"none", "low", "high"}]
    \cup [language : {Blank, NoLanguage}, probability : {"none"}]

Turn(speaker, start, end) ==
    [ok |-> TRUE, speaker |-> speaker, start |-> start, end |-> end]

MCLegacyTexts == {<<>>, <<"legacy transcript">>}

MCRawTurns ==
    {Turn(1, 0, 1), Turn(2, 0, 1), Turn(1, 1, 1), Turn(0, 0, 2)}

=============================================================================

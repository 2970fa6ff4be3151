------------------------------- MODULE MCSlots -------------------------------
(* Values of FeasibleSlots' constants for TLC.  A time unit is a quarter of *)
(* an hour; a day is cut down to ten of them.                               *)
EXTENDS FeasibleSlots

Stripped == [s \in Spellings |-> IF s = "  " THEN "" ELSE IF s = "Python " THEN "python" ELSE s]

Nine == [at |-> 1, text |-> 9]
NineSharp == [at |-> 1, text |-> 1]
Six == [at |-> 9, text |-> 3]
Midnight == [at |-> Unreadable, text |-> 4]

Person(skills, seniority, zone, from, until) ==
    [active |-> TRUE, types |-> {"TECHNICAL"}, skills |-> skills,
     seniority |-> seniority, zone |-> zone, from |-> from, until |-> until]

Expert == Person({"python", "go"}, "SENIOR", 0, NineSharp, Six)
Afar == Person({"Python "}, "STAFF", 3, NineSharp, Six)

People == {
    Expert,
    [Expert EXCEPT !.active = FALSE],
    [Expert EXCEPT !.until = Midnight],
    [Expert EXCEPT !.from = Nine]}

Teams == {<<Expert, Afar>>, <<Expert, Expert>>}

Round(panelists, duration, before, after) ==
    [type |-> "TECHNICAL_ROUND_1", skills |-> {"python", "  "}, seniority |-> "SENIOR",
     panelists |-> panelists, duration |-> duration, before |-> before, after |-> after]

Rounds == {Round(1, 2, 1, 1), Round(2, 2, 0, 1), Round(1, 3, 0, 4)}

Between(a, b) == [start |-> a, end |-> b]

Submissions == {
    {Between(1, 5)},
    {Between(2, 6), Between(5, 8)},
    {Between(3, 4)}}

Busy == {Between(4, 5), Between(5, 7)}
=============================================================================

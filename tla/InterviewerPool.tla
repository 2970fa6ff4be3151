--------------------------- MODULE InterviewerPool ---------------------------
(***************************************************************************)
(* Which interviewers a request may draw on: backend/app/scheduling/       *)
(* pool.py with the policy of config.py.  Recruiters never pick people,    *)
(* they state criteria; the whole directory is filtered by them.           *)
(***************************************************************************)
EXTENDS Integers, FiniteSets

CONSTANTS
    Spellings,    \* skills as people type them
    Skill,        \* [Spellings -> ...]: a spelling stripped and lower-cased
    Blank         \* what is left of a spelling that has only spaces

\* SENIORITY_ORDER.
SeniorityOrder ==
    [JUNIOR |-> 0, MID |-> 1, SENIOR |-> 2, STAFF |-> 3, PRINCIPAL |-> 4]

SeniorityLevels == DOMAIN SeniorityOrder

TechnicalRoundTypes == {"TECHNICAL_ROUND_1", "TECHNICAL_ROUND_2"}

\* PoolPolicy.  The ratio is a pair, numerator and denominator; the service
\* only ever uses the default policy.
PoolPolicy == [skillMatch : {"any", "all", "ratio"},
               ratio      : Nat \X (Nat \ {0}),
               seniority  : {"at_least", "exact"},
               activeOnly : BOOLEAN]

DefaultPolicy == [skillMatch |-> "all", ratio |-> <<1, 1>>,
                  seniority |-> "at_least", activeOnly |-> TRUE]

Skills(spellings) == {Skill[s] : s \in spellings}

\* _skill_ok: a request whose skills are all blank asks for none.
SkillOk(required, have, policy) ==
    LET wanted  == Skills(required) \ {Blank}
        covered == wanted \cap Skills(have)
    IN  \/ wanted = {}
        \/ policy.skillMatch = "any" /\ covered # {}
        \/ policy.skillMatch = "all" /\ covered = wanted
        \/ /\ policy.skillMatch = "ratio"
           /\ Cardinality(covered) * policy.ratio[2] >= Cardinality(wanted) * policy.ratio[1]

\* A broken match that forgets that TECHNICAL stands for both rounds.
TypeOkExact(requested, declared) == requested \in declared

\* _type_ok: an interviewer declared TECHNICAL takes either technical round.
TypeOk(requested, declared) ==
    \/ requested \in declared
    \/ requested \in TechnicalRoundTypes /\ "TECHNICAL" \in declared

\* _seniority_ok
SeniorityOk(requested, level, policy) ==
    IF policy.seniority = "exact"
    THEN SeniorityOrder[level] = SeniorityOrder[requested]
    ELSE SeniorityOrder[level] >= SeniorityOrder[requested]

\* Eligible for the request, by the profile as it is now.
Eligible(ask, profile, policy) ==
    /\ policy.activeOnly => profile.active
    /\ TypeOk(ask.type, profile.types)
    /\ SkillOk(ask.skills, profile.skills, policy)
    /\ SeniorityOk(ask.seniority, profile.seniority, policy)

\* resolve_interviewer_pool over the profiles that exist; too few people make
\* the result insufficient, never a silently short list.
Pool(ask, directory, policy) ==
    {i \in DOMAIN directory : Eligible(ask, directory[i], policy)}

Sufficient(ask, pool) == Cardinality(pool) >= ask.panelists
=============================================================================

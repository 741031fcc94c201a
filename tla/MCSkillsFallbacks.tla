------------------------- MODULE MCSkillsFallbacks -------------------------
\* SkillsFallbacks over every list of up to MaxRows rows of the kinds below.
EXTENDS SkillsFallbacks

CONSTANT MaxRows

Object(session, capabilities, skill, reads) ==
  [form |-> "object", session |-> session, capabilities |-> capabilities,
   skill |-> skill, reads |-> reads]
Own == {Object(s, <<"other", "fallback">>, i, TRUE) : s \in {"absent", "default"}, i \in 1..2}
         \cup {Object("", <<"fallback", "badescape">>, 3, TRUE)}
PassedOver ==
  {Object("other", <<"fallback">>, 1, FALSE), Object("null", <<"other">>, 2, FALSE),
   Object("other", <<"badescape">>, 2, TRUE), Object("number", <<"fallback">>, 4, TRUE),
   Object("null", <<"fallback">>, None, TRUE),
   [Object("absent", <<>>, 1, TRUE) EXCEPT !.form = "value"]}
Broken ==
  {Object("null", <<"other", "badescape">>, 1, TRUE), Object("absent", <<"fallback">>, 1, FALSE),
   [Object("absent", <<>>, 1, TRUE) EXCEPT !.form = "malformed"]}

MCReplies ==
  LET lists == UNION {[1..n -> Own \cup PassedOver \cup Broken] : n \in 0..MaxRows}
  IN [kind : {"skills"}, ok : {TRUE}, items : {TRUE}, rows : lists]
       \cup [kind : {"skills", "denied", "another"}, ok : BOOLEAN, items : BOOLEAN,
             rows : {<<>>, <<CHOOSE row \in Own : TRUE>>}]
=============================================================================

--------------------------- MODULE MCEvaluateTool ---------------------------
(***************************************************************************)
(* The tool over the calls of four questions: what is let through, what    *)
(* becomes of repeated keys and unknown ones, of many answers, and of odd  *)
(* ones.                                                                   *)
(***************************************************************************)
EXTENDS EvaluateTool

Text == Value("string", <<"text">>)

Ask(name, type, instructions, criteria) ==
    [name |-> name, type |-> type, instructions |-> instructions, criteria |-> criteria,
     others |-> <<>>]

Copy(items) == [recased |-> FALSE, kind |-> "array", items |-> items]
Args(state, questions, detail) ==
    [state |-> state, questions |-> questions, model |-> "", detail |-> detail,
     others |-> <<>>]

Situation(a, answers) == [args |-> a, answers |-> answers]

(* Every question, alone, over every kind of state. *)
CriteriaValues ==
    {Absent, Null, Text, Value("number", <<>>)}
        \cup {Value("object", keys) : keys \in
                {<<>>, <<"a">>, <<"a", "a">>, <<"a", "b">>, <<"a", "blank">>, <<"a", "b", "c">>,
                 <<"a", "b", "c", "d">>, <<"true">>, <<"true", "false">>}}
        \cup {Value("array", SubSeq(<<"a", "b", "c", "d">>, 1, n)) : n \in 0..4}
        \cup {Value("array", <<"a", "null">>)}

InstructionValues ==
    {Absent, Null, Value("number", <<>>)} \cup [kind : Unions, parts : {<<>>, <<"text">>}]

StateValues ==
    {Absent, Null, Value("number", <<>>), Value("string", <<>>)}
        \cup {Value("object", SubSeq(<<"a", "b", "c">>, 1, n)) : n \in 0..3}

Alone ==
    {Situation(Args(Text, <<Copy(<<Ask(name, type, instructions, criteria)>>)>>, ""), NoMap) :
        name \in {0, 1, 7, 8, 9}, type \in Primitives \cup {"other"},
        instructions \in InstructionValues, criteria \in CriteriaValues}
    \cup {Situation(Args(state, <<Copy(<<Ask(1, "noul", Text, Absent)>>)>>, detail), NoMap) :
        state \in StateValues, detail \in {"", "other"}}

(* Repeated questions: the earlier copies are of any kind. *)
Options == Value("object", <<"a", "b">>)
Levels == Value("array", <<"a", "b">>)

Items ==
    {<<Ask(1, "noul", Text, Absent)>>,
     <<Ask(2, "noul", Text, Value("object", <<"true">>))>>,
     <<Ask(1, "choice", Text, Options)>>,
     <<Ask(2, "score", Text, Levels), Ask(1, "noul", Text, Null)>>,
     <<Ask(1, "choice", Text, Absent)>>}

CopiesSent ==
    {Copy(items) : items \in Items \cup {<<>>}}
        \cup {[recased |-> FALSE, kind |-> kind, items |-> <<>>] : kind \in {"null", "string"}}
        \cup {[Copy(<<Ask(1, "choice", Text, Options)>>) EXCEPT !.recased = TRUE]}

Repeated ==
    {Situation(Args(Text, copies, "summary"), NoMap) :
        copies \in {<<>>} \cup UNION {[1..n -> CopiesSent] : n \in 1..3}}

(* Unknown keys and ones in another case, in a question and beside it. *)
Strays ==
    {<<>>} \cup UNION {[1..n -> [key : {"unknown", "state", "instructions", "criteria"},
                                value : {Text, Options, Null}]] : n \in 1..2}

OtherKeys ==
    {Situation([Args(Text, <<Copy(<<[Ask(1, "choice", Text, criteria) EXCEPT !.others = others]>>)>>,
                     "") EXCEPT !.others = beside], NoMap) :
        criteria \in {Options, Absent}, others \in Strays,
        beside \in {<<>>, <<[key |-> "unknown", value |-> Text]>>,
                   <<[key |-> "state", value |-> Options]>>}}

(* Up to three questions, of one name or several, and any answers. *)
Wire(kind, type, fields) == [kind |-> kind, type |-> type, fields |-> fields]
Plain == Wire("object", "noul", [NoFields EXCEPT !.noul = "good"])

ManyAnswers ==
    {Situation(Args(Text, <<Copy([i \in DOMAIN names |-> Ask(names[i], "noul", Text, Absent)])>>, ""),
               [name \in answered |-> Plain]) :
        names \in UNION {[1..n -> 1..3] : n \in 1..4}, answered \in SUBSET (1..5)}

(* One answer of every shape with up to two fields, beside a plain one. *)
FieldValues ==
    {[NoFields EXCEPT ![f] = shapes[1], ![g] = shapes[2]] :
        f, g \in Fields, shapes \in [1..2 -> {"good", "wrong", "huge"}]}

OddAnswers ==
    {Situation(Args(Text, <<Copy(<<Ask(1, "noul", Text, Absent), Ask(2, "score", Text, Levels)>>)>>,
                    detail),
               (2 :> Plain) @@ (1 :> Wire("object", type, fields))) :
        detail \in {"summary", "full"}, type \in Primitives \cup {"", "new", "illTyped"},
        fields \in FieldValues}
    \cup {Situation(Args(Text, <<Copy(<<Ask(1, "noul", Text, Absent)>>)>>, ""),
               (2 :> Plain) @@ (1 :> Wire("other", "", NoFields)))}

AllSituations == Alone \cup Repeated \cup OtherKeys \cup ManyAnswers \cup OddAnswers
=============================================================================

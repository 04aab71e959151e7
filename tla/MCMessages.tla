----------------------------- MODULE MCMessages -----------------------------
(***************************************************************************)
(* newAPIError over every text made of a few characters and stray bytes,   *)
(* and over every combination of fields, types and messages in a body.     *)
(***************************************************************************)
EXTENDS Messages

CONSTANT MaxChunks   \* bound: characters and stray bytes of a text

Chunks == {Encode(rune) : rune \in {"x", "s", "n", "L", "B", "F"}} \cup {<<"L">>, <<"c">>}
SmallTexts == {FlattenSeq(chunks) : chunks \in UNION {[1..n -> Chunks] : n \in 0..MaxChunks}}

Field(kind, type, text) == [kind |-> kind, type |-> type, text |-> text]
Body(fields, raw) == [fields |-> fields, raw |-> raw]

Long == [i \in 1..(maxMessageBytes + 1) |-> "x"]
Padded == [i \in 1..(maxMessageBytes + 1) |-> "s"] \o <<"x", "x">>
Said == {<<>>, <<"s", "n">>, <<"x", "x">>, Encode("L"), Long, Padded}
Types == {NoType, <<>>, Encode("B"), <<"x">>, <<"s", "x">>, Long, <<"L">>}

FieldValues ==
    {Field("absent", NoType, <<>>), Field("other", NoType, <<>>)}
        \cup {Field("string", NoType, text) : text \in Said}
        \cup {Field("object", type, text) : type \in Types, text \in Said}

FewFields ==
    {Field("absent", NoType, <<>>), Field("string", NoType, <<"s", "n">>),
     Field("string", NoType, <<"x", "x">>), Field("object", <<"x">>, Encode("L"))}

SmallBodies ==
    {Body(<<>>, text) : text \in SmallTexts}
        \cup {Body(<<first, second, third>>, <<"x", ":", "x">>) :
                first \in FieldValues, second, third \in FewFields}

NoIds == <<<<>>, <<>>, <<>>>>
IdValues == [1..3 -> {<<>>, <<"s">>, <<"x">>, <<"c">>, Encode("B")}]

SmallResponses ==
    {[body |-> b, ids |-> NoIds] : b \in SmallBodies}
        \cup {[body |-> Body(<<>>, <<"x">>), ids |-> three] : three \in IdValues}
=============================================================================

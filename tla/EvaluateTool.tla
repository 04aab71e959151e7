---------------------------- MODULE EvaluateTool ----------------------------
(***************************************************************************)
(* One call of the MCP tool jev_evaluate (internal/mcptools/tools.go):     *)
(* the SDK validates the arguments against evaluateInputSchema, the        *)
(* handler decodes them again as the client sent them, builds the request, *)
(* has the client evaluate it, and renders the response twice, as a        *)
(* structured result and as text.                                          *)
(*                                                                         *)
(* The arguments are [state, questions, model, detail].  A JSON object may *)
(* repeat a key, so questions is the sequence of its copies; encoding/json *)
(* decodes every copy, one after the other, while the SDK's map keeps the  *)
(* last.  To encoding/json a key in another case is the same key; to the   *)
(* SDK it is one it does not know.  "others" are the members of an object  *)
(* under such keys and unknown ones, and come after the documented ones.   *)
(* The client is what JevClient shows of it: an error, or a response that  *)
(* decoded.                                                                *)
(***************************************************************************)
EXTENDS Validation, Sorting, SequencesExt

CONSTANT Situations  \* the calls that are made, each with the answers the provider would give

(* The key is that of a field if it differs from it in case alone; which   *)
(* one is kept of the fields that may hold any JSON.                       *)
Others == Seq([key : {"unknown", "state", "instructions", "criteria"}, value : Values])

Asks == [name : Nat, type : STRING, instructions : Values, criteria : Values, others : Others]

Copies == [recased : BOOLEAN, kind : STRING, items : Seq(Asks)]

Arguments ==
    [state : Values, questions : Seq(Copies), model : STRING, detail : STRING, others : Others]

ASSUME SituationsAssumption ==
    \A s \in Situations :
        /\ s.args \in Arguments
        /\ DOMAIN s.answers \subseteq Nat /\ IsFiniteSet(DOMAIN s.answers)
        /\ \A name \in DOMAIN s.answers : s.answers[name] \in Wires

VARIABLES
    args,     \* the arguments, as sent
    wires,    \* the answers on the wire, by name
    pc,       \* "called", "decoded", "requested", "answered", "done"
    in,       \* rawInput
    req,      \* jev.Request
    sent,     \* the client accepted req and sent it
    res,      \* the response's answers
    out,      \* the structured result's answers
    text,     \* the summary text's answers
    err       \* why the call failed, "nil" so far

vars == <<args, wires, pc, in, req, sent, res, out, text, err>>

NoMap == [name \in {} |-> NoFields]
NoInput == [state |-> Absent, questions |-> <<>>, model |-> "", detail |-> ""]
NoRequest == [model |-> "", state |-> Absent, questions |-> NoMap]

Init ==
    /\ \E s \in Situations : args = s.args /\ wires = s.answers
    /\ pc = "called" /\ in = NoInput /\ req = NoRequest /\ sent = FALSE
    /\ res = NoMap /\ out = <<>> /\ text = <<>> /\ err = "nil"

Fail(why) == pc' = "done" /\ err' = why

-----------------------------------------------------------------------------
(***************************************************************************)
(* The SDK: the input schema.                                              *)
(***************************************************************************)
Unions == {"string", "object", "array"}
Details == {"", "summary", "full"}

(* Mutant: no null criteria, as the type of an omitted field would have it. *)
questionSchema_NoNull(q) ==
    /\ q.others = <<>>
    /\ q.name # 0 /\ q.name \notin LongNames
    /\ q.type \in Primitives
    /\ q.instructions.kind \in Unions
    /\ q.criteria.kind \in {"object", "array", "absent"}

(* Mutant: additional properties are allowed. *)
questionSchema_AnyKey(q) ==
    /\ q.name # 0 /\ q.name \notin LongNames
    /\ q.type \in Primitives
    /\ q.instructions.kind \in Unions
    /\ q.criteria.kind \in {"object", "array", "null", "absent"}

(* A struct's schema allows no additional properties.  A name is bounded   *)
(* in characters, which is looser than in bytes.                           *)
questionSchema(q) ==
    /\ q.others = <<>>
    /\ q.name # 0 /\ q.name \notin LongNames
    /\ q.type \in Primitives
    /\ q.instructions.kind \in Unions
    /\ q.criteria.kind \in {"object", "array", "null", "absent"}

evaluateInputSchema(a) ==
    /\ a.others = <<>>
    /\ \A copy \in Range(a.questions) : ~copy.recased
    /\ a.state.kind \in Unions
    /\ a.detail \in Details
    /\ a.questions # <<>>
    /\ Last(a.questions).kind = "array"
    /\ Len(Last(a.questions).items) \in 1..MaxQuestions
    /\ \A q \in Range(Last(a.questions).items) : questionSchema(q)

SchemaRejects ==
    /\ pc = "called" /\ ~evaluateInputSchema(args)
    /\ Fail("schema")
    /\ UNCHANGED <<args, wires, in, req, sent, res, out, text>>

-----------------------------------------------------------------------------
(***************************************************************************)
(* The handler, up to the client.                                          *)
(***************************************************************************)
(* Every copy of questions must be an array, or null. *)
decodesEnvelope(a) == \A i \in DOMAIN a.questions : a.questions[i].kind # "string"

(* What encoding/json decodes into a field: its last member, in any case. *)
Field(object, f) ==
    LET again == {i \in DOMAIN object.others : object.others[i].key = f}
    IN  IF again = {} THEN object[f] ELSE object.others[Max(again)].value

QuestionOf(q, criteria) ==
    [name |-> q.name, type |-> q.type, instructions |-> Field(q, "instructions"),
     criteria |-> criteria]

(* Mutant: questions are decoded in place, so what the last copy leaves    *)
(* out keeps the value of the copy before.                                 *)
decodeQuestion_InPlace(a, i) ==
    LET n == Len(a.questions)
        q == Last(a.questions).items[i]
        criteria == Field(q, "criteria")
        kept == IF n > 1 /\ i <= Len(a.questions[n - 1].items)
                  THEN a.questions[n - 1].items[i].criteria ELSE Absent
    IN  QuestionOf(q, IF criteria.kind = "null" THEN Absent
                      ELSE IF criteria = Absent THEN kept ELSE criteria)

(* Mutant: a null criteria is passed on. *)
decodeQuestion_KeepNull(a, i) ==
    LET q == Last(a.questions).items[i] IN QuestionOf(q, Field(q, "criteria"))

(* A question of the last copy, decoded into a fresh value; a null         *)
(* criteria is an absent one.                                              *)
decodeQuestion(a, i) ==
    LET q == Last(a.questions).items[i]
        criteria == Field(q, "criteria")
    IN  QuestionOf(q, IF criteria.kind = "null" THEN Absent ELSE criteria)

DecodeInput ==
    /\ pc = "called" /\ evaluateInputSchema(args)
    /\ \/ /\ decodesEnvelope(args)
          /\ in' = [state     |-> Field(args, "state"),
                    questions |-> [i \in DOMAIN Last(args.questions).items |->
                                      decodeQuestion(args, i)],
                    model     |-> args.model,
                    detail    |-> args.detail]
          /\ pc' = "decoded" /\ UNCHANGED err
       \/ ~decodesEnvelope(args) /\ Fail("invalidInput") /\ UNCHANGED in
    /\ UNCHANGED <<args, wires, req, sent, res, out, text>>

questionNames == [i \in DOMAIN in.questions |-> in.questions[i].name]

hasDuplicate == ~IsInjective(questionNames)

Question(q) == [type |-> q.type, instructions |-> q.instructions, criteria |-> q.criteria]

(* Later questions overwrite earlier ones of the same name in the map. *)
QuestionMap ==
    [name \in Range(questionNames) |->
        Question(in.questions[Max({i \in DOMAIN in.questions : in.questions[i].name = name})])]

ToRequest ==
    /\ pc = "decoded"
    /\ IF hasDuplicate \/ in.detail \notin Details
         THEN Fail("invalidInput") /\ UNCHANGED req
         ELSE /\ req' = [model     |-> IF in.model = "" THEN "default" ELSE in.model,
                         state     |-> in.state,
                         questions |-> QuestionMap]
              /\ pc' = "requested" /\ UNCHANGED err
    /\ UNCHANGED <<args, wires, in, sent, res, out, text>>

-----------------------------------------------------------------------------
(***************************************************************************)
(* The client.                                                             *)
(***************************************************************************)
ClientRejects ==
    /\ pc = "requested" /\ ~Validate(req)
    /\ Fail("validation")
    /\ UNCHANGED <<args, wires, in, req, sent, res, out, text>>

ClientFails ==
    /\ pc = "requested"
    /\ sent' \in (IF Validate(req) THEN BOOLEAN ELSE {FALSE})
    /\ Fail("client")
    /\ UNCHANGED <<args, wires, in, req, res, out, text>>

ClientAnswers ==
    /\ pc = "requested" /\ Validate(req)
    /\ sent' = TRUE
    /\ IF Malformed(wires)
         THEN Fail("malformedResponse") /\ UNCHANGED res
         ELSE res' = UnmarshalResponse(wires) /\ pc' = "answered" /\ UNCHANGED err
    /\ UNCHANGED <<args, wires, in, req, out, text>>

-----------------------------------------------------------------------------
(***************************************************************************)
(* The handler, after the client.                                          *)
(***************************************************************************)
(* The asked names that have an answer, in the order they were asked. *)
askedNames ==
    LET answered == Sorted({i \in DOMAIN questionNames : questionNames[i] \in DOMAIN res})
    IN  [k \in DOMAIN answered |-> questionNames[answered[k]]]

(* Mutant: an answer that was asked for is among the others again. *)
orderedAnswerNames_Unseen == askedNames \o Sorted(DOMAIN res)

(* The asked names that have an answer, then the others, sorted. *)
orderedAnswerNames == askedNames \o Sorted(DOMAIN res \ Range(questionNames))

(* The decision of its type is there. *)
readable(a) == a.type \in Primitives /\ a.fields[a.type] # "absent"

(* An any takes any JSON but a number beyond float64. *)
DecodesAny(wire) == "huge" \notin Range(wire.fields)

(* Mutant: every answer's confidence is reported. *)
Shown_Confidence(a) == [a.fields EXCEPT !.other = "absent"]

(* What toOutput copies of a readable answer. *)
Shown(a) ==
    IF a.type = "noul" THEN [a.fields EXCEPT !.confidence = "absent"] ELSE a.fields

answerOutput(name) ==
    [name |-> name, type |-> res[name].type, raw |-> ~readable(res[name]),
     fields |-> IF readable(res[name]) THEN Shown(res[name]) ELSE NoFields]

(* An unreadable answer is decoded into an any; of a readable one, only the *)
(* values of the legend are.                                               *)
toOutputFails(name) ==
    IF readable(res[name]) THEN res[name].fields.legend = "huge"
    ELSE ~DecodesAny(res[name].raw)

(* The decision and, but for a noul, its confidence. *)
summaryAnswer(name) ==
    LET a == res[name]
        told == IF a.type = "noul" THEN {"noul"} ELSE {a.type, "confidence"}
    IN  [name |-> name, raw |-> ~readable(a),
         fields |-> [f \in Fields |-> IF readable(a) /\ f \in told THEN a.fields[f] ELSE "absent"]]

toOutput == [i \in DOMAIN orderedAnswerNames |-> answerOutput(orderedAnswerNames[i])]
summaryText == [i \in DOMAIN orderedAnswerNames |-> summaryAnswer(orderedAnswerNames[i])]

(* With detail full the text mirrors the structured result. *)
Respond ==
    /\ pc = "answered"
    /\ IF \E name \in DOMAIN res : toOutputFails(name)
         THEN Fail("malformedResponse") /\ UNCHANGED <<out, text>>
         ELSE /\ out' = toOutput
              /\ text' = IF in.detail = "full" THEN out' ELSE summaryText
              /\ pc' = "done" /\ UNCHANGED err
    /\ UNCHANGED <<args, wires, in, req, sent, res>>

Next ==
    \/ SchemaRejects \/ DecodeInput \/ ToRequest
    \/ ClientRejects \/ ClientFails \/ ClientAnswers \/ Respond

Spec == Init /\ [][Next]_vars
-----------------------------------------------------------------------------
(***************************************************************************)
(* PROPERTIES                                                              *)
(***************************************************************************)
(* Types.  No null criteria is left once the arguments are decoded, and no *)
(* decoded answer holds a field the codec does not know.                   *)
TypeOK ==
    /\ pc \in {"called", "decoded", "requested", "answered", "done"}
    /\ err \in {"nil", "schema", "invalidInput", "validation", "client", "malformedResponse"}
    /\ sent \in BOOLEAN
    /\ \A q \in Range(in.questions) :
        q.type \in Primitives /\ q.instructions.kind \in Unions
            /\ q.criteria.kind \in {"absent", "object", "array"}
    /\ \A name \in DOMAIN res : res[name].fields \in [Fields -> {"absent", "good", "huge"}]
    /\ \A entry \in Range(out) \cup Range(text) :
        entry.raw \in BOOLEAN /\ entry.fields.other = "absent"

(* What is sent is what the SDK checked, however often the arguments       *)
(* repeat a key and in whatever case: the last copy's questions with their *)
(* own fields, a null criteria left out, and nothing of an earlier copy or *)
(* under a key the schema does not know (rawEnvelope).                     *)
SentIsWhatWasChecked ==
    sent =>
        LET checked == Last(args.questions).items IN
        /\ req.state = args.state
        /\ DOMAIN req.questions = {q.name : q \in Range(checked)}
        /\ \A q \in Range(checked) :
            req.questions[q.name] = [Question(q) EXCEPT !.criteria =
                                        IF @.kind = "null" THEN Absent ELSE @]

(* All keys are the documented ones, as they are documented. *)
DocumentedKeys(a) ==
    /\ a.others = <<>>
    /\ \A copy \in Range(a.questions) : ~copy.recased
    /\ \A q \in Range(Last(a.questions).items) : q.others = <<>>

(* But for keys, of which it alone takes none that it does not know, the   *)
(* schema is looser than Validate for every question: one that the schema  *)
(* turns away would have been turned away by the client as well            *)
(* (evaluateInputSchema's comment on bytes and characters).                *)
SchemaIsLooser ==
    err = "schema" /\ args.state.kind \in Unions /\ args.detail \in Details
        /\ args.questions # <<>> /\ Last(args.questions).kind = "array" /\ DocumentedKeys(args) =>
        LET items == Last(args.questions).items IN
        \/ Len(items) \notin 1..MaxQuestions
        \/ \E i \in DOMAIN items : ~validateQuestion(items[i].name, decodeQuestion(args, i))

(* A report names every answer of the response, each once: first those     *)
(* that were asked for, in the order of the questions, then the others,    *)
(* sorted, whatever order the response's map yields (orderedAnswerNames).  *)
AnswersInOrder ==
    pc = "done" /\ err = "nil" =>
        LET asked == Last(args.questions).items
            Place(name) == CHOOSE i \in DOMAIN asked : asked[i].name = name
            Asked(name) == \E i \in DOMAIN asked : asked[i].name = name
        IN  /\ {out[i].name : i \in DOMAIN out} = DOMAIN wires
            /\ Len(out) = Cardinality(DOMAIN wires)
            /\ \A i, j \in DOMAIN out : i < j =>
                LET a == out[i].name  b == out[j].name
                IN  IF Asked(b) THEN Asked(a) /\ Place(a) < Place(b) ELSE Asked(a) \/ a < b

(* The text and the structured result tell the same: the same names in the *)
(* same order, raw in both or in neither, with the same decision and the   *)
(* same confidence, or both without one (summaryText, toOutput).           *)
RenderingsAgree ==
    pc = "done" /\ err = "nil" =>
        /\ DOMAIN text = DOMAIN out
        /\ \A i \in DOMAIN out :
            /\ text[i].name = out[i].name /\ text[i].raw = out[i].raw
            /\ ~out[i].raw =>
                \A f \in {out[i].type, "confidence"} : text[i].fields[f] = out[i].fields[f]

(* An answer is shown as a decision only if every field of it decoded, and *)
(* one that is passed on as JSON shows no field that happened to decode    *)
(* (decodeAnswer, readable).                                               *)
DecisionsAreWhole ==
    \A entry \in Range(out) \cup Range(text) :
        IF entry.raw THEN entry.fields = NoFields
        ELSE /\ DecodesTyped(wires[entry.name])
             /\ wires[entry.name].fields[wires[entry.name].type] = "good"

(* An answer the codec cannot model fails neither the response nor the     *)
(* call: a call whose request was answered fails only if an answer is no   *)
(* object or holds a number beyond float64 (Response.UnmarshalJSON).       *)
UnmodelledAnswerPasses ==
    err = "malformedResponse" =>
        \E name \in DOMAIN wires :
            wires[name].kind # "object" \/ "huge" \in Range(wires[name].fields)

(* As the comments of Response.UnmarshalJSON and readable have it: an      *)
(* object answer that is not readable is passed through as JSON, and does  *)
(* not fail the rest.  What does is another kind of answer, or the legend  *)
(* of a readable one.                                                      *)
RawPassedThrough ==
    err = "malformedResponse" =>
        \E name \in DOMAIN wires :
            \/ wires[name].kind # "object"
            \/ readable(decodeAnswer(wires[name])) /\ wires[name].fields.legend = "huge"
=============================================================================

------------------------- MODULE EvaluateToolProofs -------------------------
(***************************************************************************)
(* What holds of a call of the tool for any arguments, any bounds and any  *)
(* answers of the provider.                                                *)
(***************************************************************************)
EXTENDS EvaluateTool, Lemmas

Checked == Last(args.questions).items

(* The fields of a question that are sent, a null criteria left out. *)
Sendable(q) == [Question(q) EXCEPT !.criteria = IF @.kind = "null" THEN Absent ELSE @]

(* The decoded questions are the checked ones, and the request is made of  *)
(* them; an answered response is what the wire held.                       *)
InputInv ==
    /\ args \in Arguments
    /\ pc = "called" => in = NoInput /\ err = "nil"
    /\ pc \in {"decoded", "requested"} => err = "nil" /\ evaluateInputSchema(args)
    /\ pc = "decoded" =>
        /\ in.state = args.state
        /\ in.questions = [i \in DOMAIN Checked |-> decodeQuestion(args, i)]
    /\ pc = "requested" \/ sent =>
        /\ req.state = args.state
        /\ DOMAIN req.questions = {q.name : q \in Range(Checked)}
        /\ \A q \in Range(Checked) : req.questions[q.name] = Sendable(q)
    /\ pc \in {"called", "decoded", "requested"} => ~sent

WireInv ==
    /\ DOMAIN wires \subseteq Nat /\ \A name \in DOMAIN wires : wires[name] \in Wires
    /\ pc = "answered" => res = UnmarshalResponse(wires)

SchemaInv ==
    /\ err = "schema" => ~evaluateInputSchema(args)
    /\ pc # "done" => err = "nil"

-----------------------------------------------------------------------------
(***************************************************************************)
(* What is decoded and sent.                                               *)
(***************************************************************************)
LEMMA LastItems ==
    ASSUME args \in Arguments, args.questions # <<>>
    PROVE  Checked \in Seq(Asks)
<1>1. args.questions \in Seq(Copies)
    BY DEF Arguments
<1>2. ASSUME NEW S, NEW s \in Seq(S), s # <<>> PROVE Last(s) \in S
    BY <1>2 DEF Last
<1>3. Last(args.questions) \in Copies
    BY <1>1, <1>2
<1> QED
    BY <1>3 DEF Checked, Copies

(* Without a member under another key, a field is what it is. *)
LEMMA OwnField ==
    ASSUME NEW object, object.others = <<>>, NEW f
    PROVE  Field(object, f) = object[f]
<1>1. {i \in DOMAIN object.others : object.others[i].key = f} = {}
    OBVIOUS
<1> QED
    BY <1>1 DEF Field

LEMMA SchemaFacts ==
    ASSUME args \in Arguments, evaluateInputSchema(args)
    PROVE  /\ args.questions # <<>> /\ args.others = <<>>
           /\ Field(args, "state") = args.state
           /\ \A i \in DOMAIN Checked : questionSchema(Checked[i]) /\ Checked[i].others = <<>>
<1>1. args.questions # <<>> /\ args.others = <<>>
    BY DEF evaluateInputSchema
<1>2. Field(args, "state") = args.state
    BY <1>1, OwnField
<1>3. \A q \in Range(Checked) : questionSchema(q)
    BY DEF evaluateInputSchema, Checked
<1> QED
    BY <1>1, <1>2, <1>3 DEF Range, questionSchema

LEMMA DecodedQuestion ==
    ASSUME args \in Arguments, args.questions # <<>>, NEW i \in DOMAIN Checked,
           Checked[i].others = <<>>
    PROVE  /\ decodeQuestion(args, i).name = Checked[i].name
           /\ decodeQuestion(args, i).type = Checked[i].type
           /\ decodeQuestion(args, i).instructions = Checked[i].instructions
           /\ decodeQuestion(args, i).criteria =
                IF Checked[i].criteria.kind = "null" THEN Absent ELSE Checked[i].criteria
           /\ Question(decodeQuestion(args, i)) = Sendable(Checked[i])
<1> DEFINE q == Checked[i]
           kept == IF q.criteria.kind = "null" THEN Absent ELSE q.criteria
<1>1. q \in Asks
    BY LastItems
<1>2. Field(q, "criteria") = q.criteria /\ Field(q, "instructions") = q.instructions
    BY OwnField
<1>3. decodeQuestion(args, i) =
        [name |-> q.name, type |-> q.type, instructions |-> q.instructions, criteria |-> kept]
    BY <1>2 DEF decodeQuestion, QuestionOf, Checked
<1>4. Sendable(q) = [type |-> q.type, instructions |-> q.instructions, criteria |-> kept]
    BY DEF Sendable, Question
<1> HIDE DEF q, kept
<1>5. Question(decodeQuestion(args, i)) = Sendable(q)
    BY <1>3, <1>4 DEF Question
<1> QED
    BY <1>3, <1>5 DEF q, kept

LEMMA SingleIsMax ==
    ASSUME NEW i \in Nat
    PROVE  Max({i}) = i
BY DEF Max

LEMMA RequestIsChecked ==
    ASSUME InputInv, pc = "decoded", ~hasDuplicate
    PROVE  /\ DOMAIN QuestionMap = {q.name : q \in Range(Checked)}
           /\ \A q \in Range(Checked) : QuestionMap[q.name] = Sendable(q)
<1>1. /\ in.questions = [i \in DOMAIN Checked |-> decodeQuestion(args, i)]
      /\ args \in Arguments /\ args.questions # <<>>
      /\ \A i \in DOMAIN Checked : Checked[i].others = <<>>
    BY SchemaFacts DEF InputInv
<1>2. Checked \in Seq(Asks) /\ DOMAIN Checked \subseteq Nat
    BY <1>1, LastItems
<1>3. /\ DOMAIN questionNames = DOMAIN Checked
      /\ \A i \in DOMAIN Checked : questionNames[i] = Checked[i].name
    BY <1>1, DecodedQuestion DEF questionNames
<1>4. Range(questionNames) = {q.name : q \in Range(Checked)}
    BY <1>3 DEF Range
<1>5. ASSUME NEW i \in DOMAIN Checked
      PROVE  QuestionMap[Checked[i].name] = Sendable(Checked[i])
    <2>1. {j \in DOMAIN in.questions : in.questions[j].name = Checked[i].name} = {i}
        BY <1>1, <1>3, DecodedQuestion DEF hasDuplicate, IsInjective, questionNames
    <2>2. Max({i}) = i
        BY <1>2, SingleIsMax
    <2>3. Checked[i].name \in Range(questionNames)
        BY <1>4 DEF Range
    <2>4. QuestionMap[Checked[i].name] = Question(in.questions[i])
        BY <2>1, <2>2, <2>3 DEF QuestionMap
    <2> QED
        BY <1>1, <2>4, DecodedQuestion
<1> QED
    BY <1>4, <1>5 DEF QuestionMap, Range

LEMMA InputStep == InputInv /\ [Next]_vars => InputInv'
<1> SUFFICES ASSUME InputInv, [Next]_vars PROVE InputInv'
    OBVIOUS
<1> USE DEF InputInv, Fail, Checked
<1>1. CASE SchemaRejects
    BY <1>1 DEF SchemaRejects
<1>2. CASE DecodeInput
    <2>1. evaluateInputSchema(args) /\ args' = args
        BY <1>2 DEF DecodeInput
    <2>2. pc' = "decoded" =>
            /\ in'.state = args.state
            /\ in'.questions = [i \in DOMAIN Last(args.questions).items |-> decodeQuestion(args, i)]
        BY <1>2, <2>1, SchemaFacts DEF DecodeInput
    <2>3. pc = "called" /\ UNCHANGED <<args, req, sent>> /\ pc' \in {"decoded", "done"}
          /\ (pc' = "decoded" => err' = err)
        BY <1>2 DEF DecodeInput
    <2> QED
        BY <2>1, <2>2, <2>3 DEF decodeQuestion, evaluateInputSchema, questionSchema
<1>3. CASE ToRequest
    <2>1. pc = "decoded" /\ UNCHANGED <<args, in, sent>> /\ pc' \in {"requested", "done"}
          /\ (pc' = "requested" => err' = err /\ ~hasDuplicate /\ req'.state = in.state
                                    /\ req'.questions = QuestionMap)
        <3>1. CASE hasDuplicate \/ in.detail \notin Details
            BY <1>3, <3>1 DEF ToRequest
        <3>2. CASE ~(hasDuplicate \/ in.detail \notin Details)
            <4>1. pc = "decoded" /\ UNCHANGED <<args, in, sent>> /\ pc' = "requested" /\ err' = err
                BY <1>3, <3>2 DEF ToRequest
            <4>2. req' = [model     |-> IF in.model = "" THEN "default" ELSE in.model,
                          state     |-> in.state,
                          questions |-> QuestionMap]
                BY <1>3, <3>2 DEF ToRequest
            <4> HIDE DEF InputInv
            <4> QED
                BY <3>2, <4>1, <4>2
        <3> QED
            BY <3>1, <3>2
    <2>2. pc' = "requested" =>
            /\ DOMAIN req'.questions = {q.name : q \in Range(Checked)}
            /\ \A q \in Range(Checked) : req'.questions[q.name] = Sendable(q)
        BY <2>1, RequestIsChecked
    <2> QED
        BY <2>1, <2>2 DEF Sendable
<1>4. CASE ClientRejects
    BY <1>4 DEF ClientRejects
<1>5. CASE ClientFails
    BY <1>5 DEF ClientFails, Sendable
<1>6. CASE ClientAnswers
    BY <1>6 DEF ClientAnswers, Sendable
<1>7. CASE Respond
    BY <1>7 DEF Respond, Sendable
<1>8. CASE UNCHANGED vars
    BY <1>8 DEF vars, Sendable, decodeQuestion
<1> QED
    BY <1>1, <1>2, <1>3, <1>4, <1>5, <1>6, <1>7, <1>8 DEF Next

LEMMA InputAlways == Spec => []InputInv
<1>1. Init => InputInv
    BY SituationsAssumption DEF Init, InputInv
<1> QED
    BY <1>1, InputStep, PTL DEF Spec

(* Whatever is repeated in the arguments, what is sent to the provider is  *)
(* the last copy that the SDK checked (rawEnvelope).                       *)
THEOREM SentIsChecked == Spec => []SentIsWhatWasChecked
<1>1. InputInv => SentIsWhatWasChecked
    BY DEF InputInv, SentIsWhatWasChecked, Checked, Sendable
<1> QED
    BY <1>1, InputAlways, PTL

-----------------------------------------------------------------------------
(***************************************************************************)
(* The schema.                                                             *)
(***************************************************************************)
LEMMA SchemaStep == SchemaInv /\ [Next]_vars => SchemaInv'
<1> SUFFICES ASSUME SchemaInv, [Next]_vars PROVE SchemaInv'
    OBVIOUS
<1>1. args' = args /\ (evaluateInputSchema(args)' <=> evaluateInputSchema(args))
    BY DEF Next, SchemaRejects, DecodeInput, ToRequest, ClientRejects, ClientFails, ClientAnswers,
           Respond, vars
<1>2. /\ err' = err \/ (err' = "schema" /\ ~evaluateInputSchema(args))
                    \/ (err' # "schema")
      /\ pc' # "done" => err' = err
    BY DEF Next, SchemaRejects, DecodeInput, ToRequest, ClientRejects, ClientFails, ClientAnswers,
           Respond, vars, Fail
<1>3. pc' # "done" => pc # "done"
    BY DEF Next, SchemaRejects, DecodeInput, ToRequest, ClientRejects, ClientFails, ClientAnswers,
           Respond, vars, Fail
<1> QED
    BY <1>1, <1>2, <1>3 DEF SchemaInv

(* A question of documented keys that the client would accept passes. *)
LEMMA ValidPassesSchema ==
    ASSUME args \in Arguments, args.questions # <<>>, NEW i \in DOMAIN Checked,
           Checked[i].others = <<>>,
           validateQuestion(Checked[i].name, decodeQuestion(args, i))
    PROVE  questionSchema(Checked[i])
<1> DEFINE q == Checked[i]
           d == decodeQuestion(args, i)
<1>1. d.type = q.type /\ d.instructions = q.instructions
      /\ (q.criteria.kind = "null" \/ d.criteria = q.criteria)
    BY DecodedQuestion
<1>2. q.name # 0 /\ q.name \notin LongNames
    BY DEF validateQuestion, validateQuestionName
<1>3. d.type \in Primitives /\ d.instructions.kind \in Unions
    BY DEF validateQuestion, validateInstructions, Primitives, Unions
<1>4. d.criteria.kind \in {"object", "array", "null", "absent"}
    BY DEF validateQuestion, validateChoiceCriteria, validateScoreCriteria, validateNoulCriteria
<1>5. q.others = <<>>
    OBVIOUS
<1> HIDE DEF q, d
<1>6. questionSchema(q)
    BY <1>1, <1>2, <1>3, <1>4, <1>5 DEF questionSchema
<1> QED
    BY <1>6 DEF q

(* Among the calls with documented keys alone, the schema turns away no    *)
(* question that Validate would accept (evaluateInputSchema).              *)
THEOREM SchemaNeverStricter == Spec => []SchemaIsLooser
<1>1. InputInv /\ SchemaInv => SchemaIsLooser
    <2> SUFFICES ASSUME InputInv, SchemaInv, err = "schema", args.state.kind \in Unions,
                        args.detail \in Details, args.questions # <<>>,
                        Last(args.questions).kind = "array", DocumentedKeys(args),
                        Len(Checked) \in 1..MaxQuestions
                 PROVE  \E i \in DOMAIN Checked :
                            ~validateQuestion(Checked[i].name, decodeQuestion(args, i))
        BY DEF SchemaIsLooser, Checked
    <2>1. PICK q \in Range(Checked) : ~questionSchema(q)
        BY DEF SchemaInv, evaluateInputSchema, Checked, DocumentedKeys
    <2>2. PICK i \in DOMAIN Checked : q = Checked[i]
        BY <2>1 DEF Range
    <2>3. Checked[i].others = <<>>
        BY <2>2 DEF DocumentedKeys, Checked, Range
    <2> QED
        BY <2>1, <2>2, <2>3, ValidPassesSchema DEF InputInv
<1>2. Init => SchemaInv
    BY DEF Init, SchemaInv
<1> QED
    BY <1>1, <1>2, SchemaStep, InputAlways, PTL DEF Spec

-----------------------------------------------------------------------------
(***************************************************************************)
(* The answers.                                                            *)
(***************************************************************************)
LEMMA WireStep == WireInv /\ [Next]_vars => WireInv'
BY DEF WireInv, Next, SchemaRejects, DecodeInput, ToRequest, ClientRejects, ClientFails,
       ClientAnswers, Respond, vars, Fail, UnmarshalResponse, decodeAnswer

LEMMA RawIsKept ==
    ASSUME NEW wire
    PROVE  decodeAnswer(wire).raw = wire
<1> DEFINE typed == IF wire.type = "illTyped" THEN "" ELSE wire.type
           fields == IF DecodesTyped(wire) THEN [wire.fields EXCEPT !.other = "absent"] ELSE NoFields
<1>1. decodeAnswer(wire) = [type |-> typed, fields |-> fields, raw |-> wire]
    BY DEF decodeAnswer
<1> HIDE DEF typed, fields
<1> QED
    BY <1>1

(* Only a number beyond float64 stops an answer from being reported. *)
LEMMA OnlyHugeFails ==
    ASSUME WireInv, pc = "answered", NEW name \in DOMAIN res, toOutputFails(name)
    PROVE  name \in DOMAIN wires /\ "huge" \in Range(wires[name].fields)
<1>1. name \in DOMAIN wires /\ res[name] = decodeAnswer(wires[name]) /\ wires[name] \in Wires
    BY DEF WireInv, UnmarshalResponse
<1> DEFINE w == wires[name]
<1>2. w.fields \in [Fields -> {"absent", "good", "wrong", "huge"}]
    BY <1>1 DEF Wires
<1>3. CASE readable(res[name])
    <2>1. decodeAnswer(w).fields.legend = "huge"
        BY <1>1, <1>3 DEF toOutputFails
    <2>2. w.fields["legend"] = "huge"
        BY <1>2, <2>1 DEF decodeAnswer, NoFields, Fields, TypedFields, Primitives
    <2> QED
        BY <1>1, <1>2, <2>2 DEF Range, Fields, TypedFields
<1>4. CASE ~readable(res[name])
    <2>1. ~DecodesAny(res[name].raw)
        BY <1>4 DEF toOutputFails
    <2>2. res[name].raw = w
        BY <1>1, RawIsKept
    <2>3. "huge" \in Range(res[name].raw.fields)
        BY <2>1 DEF DecodesAny
    <2> QED
        BY <1>1, <2>2, <2>3
<1> QED
    BY <1>3, <1>4

PassInv == err = "malformedResponse" =>
    \E name \in DOMAIN wires : wires[name].kind # "object" \/ "huge" \in Range(wires[name].fields)

LEMMA PassStep == PassInv /\ WireInv /\ [Next]_vars => PassInv'
<1> SUFFICES ASSUME PassInv, WireInv, [Next]_vars PROVE PassInv'
    OBVIOUS
<1>1. CASE SchemaRejects \/ DecodeInput \/ ToRequest \/ ClientRejects \/ ClientFails
    BY <1>1 DEF PassInv, SchemaRejects, DecodeInput, ToRequest, ClientRejects, ClientFails, Fail
<1>2. CASE ClientAnswers
    BY <1>2 DEF PassInv, ClientAnswers, Fail, Malformed
<1>3. CASE Respond
    <2>1. wires' = wires /\ (err' = "malformedResponse" =>
            err = "malformedResponse" \/ \E name \in DOMAIN res : toOutputFails(name))
        BY <1>3 DEF Respond, Fail
    <2> QED
        BY <1>3, <2>1, OnlyHugeFails DEF PassInv, Respond
<1>4. CASE UNCHANGED vars
    BY <1>4 DEF PassInv, vars
<1> QED
    BY <1>1, <1>2, <1>3, <1>4 DEF Next

(* An answered call fails over an answer only if that is no object, or     *)
(* holds a number beyond float64 (Response.UnmarshalJSON, toOutput).       *)
THEOREM UnmodelledPasses == Spec => []UnmodelledAnswerPasses
<1>1. Init => PassInv /\ WireInv
    BY SituationsAssumption DEF Init, PassInv, WireInv
<1>2. PassInv => UnmodelledAnswerPasses
    BY DEF PassInv, UnmodelledAnswerPasses
<1> QED
    BY <1>1, <1>2, PassStep, WireStep, PTL DEF Spec

-----------------------------------------------------------------------------
(***************************************************************************)
(* The report.                                                             *)
(***************************************************************************)
(* What a call keeps of its arguments and of the response, at every step:  *)
(* the decoded questions are the checked ones, no name is asked twice once *)
(* a request is made, and a report is made of these and of nothing else.   *)
Decoded ==
    /\ evaluateInputSchema(args)
    /\ in.detail = args.detail
    /\ in.questions = [i \in DOMAIN Checked |-> decodeQuestion(args, i)]

Reported == pc = "done" /\ err = "nil"

ReportInv ==
    /\ args \in Arguments
    /\ DOMAIN wires \subseteq Nat /\ IsFiniteSet(DOMAIN wires)
    /\ \A name \in DOMAIN wires : wires[name] \in Wires
    /\ in = NoInput \/ Decoded
    /\ pc = "called" => in = NoInput
    /\ pc \in {"decoded", "requested", "answered"} \/ Reported => Decoded
    /\ pc \in {"requested", "answered"} \/ Reported => ~hasDuplicate
    /\ res = NoMap \/ res = UnmarshalResponse(wires)
    /\ pc = "answered" \/ Reported => res = UnmarshalResponse(wires)
    /\ ~Reported => out = <<>> /\ text = <<>>
    /\ Reported => out = toOutput /\ text = (IF in.detail = "full" THEN toOutput ELSE summaryText)
    /\ pc # "done" => err = "nil"

LEMMA SameReport ==
    ASSUME UNCHANGED <<in, res>>
    PROVE  toOutput' = toOutput /\ summaryText' = summaryText
<1>1. orderedAnswerNames' = orderedAnswerNames
    BY DEF orderedAnswerNames, askedNames, questionNames
<1>2. /\ toOutput' = [i \in DOMAIN orderedAnswerNames |-> answerOutput(orderedAnswerNames[i])]
      /\ summaryText' = [i \in DOMAIN orderedAnswerNames |-> summaryAnswer(orderedAnswerNames[i])]
    BY <1>1 DEF toOutput, summaryText, answerOutput, summaryAnswer
<1> QED
    BY <1>2 DEF toOutput, summaryText

LEMMA ReportStep == ReportInv /\ [Next]_vars => ReportInv'
<1> SUFFICES ASSUME ReportInv, [Next]_vars PROVE ReportInv'
    OBVIOUS
<1>1. CASE SchemaRejects
    BY <1>1 DEF SchemaRejects, Fail, ReportInv, Reported, Decoded, Checked, decodeQuestion
<1>2. CASE DecodeInput
    <2>1. CASE decodesEnvelope(args)
        <3>1. in' = [state     |-> Field(args, "state"),
                     questions |-> [i \in DOMAIN Checked |-> decodeQuestion(args, i)],
                     model     |-> args.model,
                     detail    |-> args.detail]
            BY <1>2, <2>1 DEF DecodeInput, Checked
        <3>2. /\ in'.detail = args.detail
              /\ in'.questions = [i \in DOMAIN Checked |-> decodeQuestion(args, i)]
            BY <3>1
        <3>3. /\ pc' = "decoded" /\ err' = err /\ evaluateInputSchema(args) /\ pc = "called"
              /\ UNCHANGED <<args, wires, res, out, text>>
            BY <1>2, <2>1 DEF DecodeInput
        <3>4. Decoded'
            BY <3>2, <3>3 DEF Decoded, Checked, evaluateInputSchema, questionSchema, decodeQuestion
        <3> QED
            BY <3>3, <3>4 DEF ReportInv, Reported
    <2>2. CASE ~decodesEnvelope(args)
        BY <1>2, <2>2 DEF DecodeInput, Fail, ReportInv, Reported, Decoded, Checked, decodeQuestion
    <2> QED
        BY <2>1, <2>2
<1>3. CASE ToRequest
    <2>1. /\ pc = "decoded" /\ UNCHANGED <<args, wires, in, res, out, text>>
          /\ \/ pc' = "requested" /\ err' = err /\ ~hasDuplicate
             \/ pc' = "done" /\ err' = "invalidInput"
        BY <1>3 DEF ToRequest, Fail
    <2>2. hasDuplicate' = hasDuplicate /\ (Decoded => Decoded')
        BY <2>1 DEF hasDuplicate, questionNames, Decoded, Checked, decodeQuestion
    <2> QED
        BY <2>1, <2>2 DEF ReportInv, Reported
<1>4. CASE ClientRejects \/ ClientFails \/ ClientAnswers
    <2>1. /\ pc = "requested" /\ UNCHANGED <<args, wires, in, out, text>>
          /\ \/ pc' = "done" /\ err' \in {"validation", "client", "malformedResponse"} /\ res' = res
             \/ pc' = "answered" /\ err' = err /\ res' = UnmarshalResponse(wires)
        BY <1>4 DEF ClientRejects, ClientFails, ClientAnswers, Fail
    <2>2. hasDuplicate' = hasDuplicate /\ (Decoded => Decoded')
        BY <2>1 DEF hasDuplicate, questionNames, Decoded, Checked, decodeQuestion
    <2>3. (res = UnmarshalResponse(wires))' <=> res' = UnmarshalResponse(wires)
        BY <2>1 DEF UnmarshalResponse
    <2> QED
        BY <2>1, <2>2, <2>3 DEF ReportInv, Reported, NoMap
<1>5. CASE Respond
    <2>1. /\ pc = "answered" /\ UNCHANGED <<args, wires, in, res>>
          /\ \/ pc' = "done" /\ err' = "malformedResponse" /\ UNCHANGED <<out, text>>
             \/ /\ pc' = "done" /\ err' = err /\ out' = toOutput
                /\ text' = (IF in.detail = "full" THEN toOutput ELSE summaryText)
        BY <1>5 DEF Respond, Fail
    <2>2. hasDuplicate' = hasDuplicate /\ (Decoded => Decoded')
        BY <2>1 DEF hasDuplicate, questionNames, Decoded, Checked, decodeQuestion
    <2>3. toOutput' = toOutput /\ summaryText' = summaryText
        BY <2>1, SameReport
    <2>4. (res = UnmarshalResponse(wires))' <=> res = UnmarshalResponse(wires)
        BY <2>1 DEF UnmarshalResponse
    <2> QED
        BY <2>1, <2>2, <2>3, <2>4 DEF ReportInv, Reported, NoMap
<1>6. CASE UNCHANGED vars
    <2>1. toOutput' = toOutput /\ summaryText' = summaryText
        BY <1>6, SameReport DEF vars
    <2> QED
        BY <1>6, <2>1 DEF vars, hasDuplicate, questionNames, Decoded, Checked, decodeQuestion,
                          ReportInv, Reported, UnmarshalResponse
<1> QED
    BY <1>1, <1>2, <1>3, <1>4, <1>5, <1>6 DEF Next

LEMMA ReportAlways == Spec => []ReportInv
<1>1. Init => ReportInv
    BY SituationsAssumption DEF Init, ReportInv, Reported
<1> QED
    BY <1>1, ReportStep, PTL DEF Spec

(***************************************************************************)
(* The order of a report.                                                  *)
(***************************************************************************)
(* Of distinct names that are asked and others that are answered, a report *)
(* lists the answered ones in this order.                                  *)
LEMMA NamesInOrder ==
    ASSUME NEW n \in Nat, questionNames \in [1..n -> Nat], ~hasDuplicate,
           DOMAIN res \subseteq Nat, IsFiniteSet(DOMAIN res)
    PROVE  /\ Len(orderedAnswerNames) \in Nat
           /\ orderedAnswerNames \in [1..Len(orderedAnswerNames) -> DOMAIN res]
           /\ \A name \in DOMAIN res : \E i \in DOMAIN orderedAnswerNames : orderedAnswerNames[i] = name
           /\ \A i, j \in DOMAIN orderedAnswerNames : i < j =>
                LET a == orderedAnswerNames[i]
                    b == orderedAnswerNames[j]
                IN  \/ \E k, l \in 1..n : k < l /\ questionNames[k] = a /\ questionNames[l] = b
                    \/ b \notin Range(questionNames) /\ (a \in Range(questionNames) \/ a < b)
<1> DEFINE P == {i \in DOMAIN questionNames : questionNames[i] \in DOMAIN res}
           E == DOMAIN res \ Range(questionNames)
           p == Cardinality(P)
           e == Cardinality(E)
<1>1. P \in SUBSET Nat /\ IsFiniteSet(P) /\ P \subseteq 1..n
    <2>1. DOMAIN questionNames = 1..n
        OBVIOUS
    <2>2. P \in SUBSET (1..n) /\ IsFiniteSet(1..n) /\ 1..n \subseteq Nat
        BY <2>1, FS_Interval
    <2> HIDE DEF P
    <2>3. IsFiniteSet(P)
        BY <2>2, FS_Subset
    <2> QED
        BY <2>2, <2>3
<1>2. E \in SUBSET Nat /\ IsFiniteSet(E)
    <2>1. E \subseteq DOMAIN res
        OBVIOUS
    <2> HIDE DEF E
    <2> QED
        BY <2>1, FS_Subset
<1> HIDE DEF P, E
<1>3. /\ p \in Nat /\ Sorted(P) \in [1..p -> P]
      /\ \A i, j \in 1..p : i < j => Sorted(P)[i] < Sorted(P)[j]
      /\ \A x \in P : \E i \in 1..p : Sorted(P)[i] = x
    BY <1>1, SortedFacts
<1>4. /\ e \in Nat /\ Sorted(E) \in [1..e -> E]
      /\ \A i, j \in 1..e : i < j => Sorted(E)[i] < Sorted(E)[j]
      /\ \A x \in E : \E i \in 1..e : Sorted(E)[i] = x
    BY <1>2, SortedFacts
<1>5. askedNames = [k \in DOMAIN Sorted(P) |-> questionNames[Sorted(P)[k]]]
    BY DEF askedNames, P
<1>6. /\ askedNames \in [1..p -> DOMAIN res]
      /\ \A k \in 1..p : askedNames[k] = questionNames[Sorted(P)[k]]
    BY <1>3, <1>5 DEF P
<1>7. Sorted(E) \in [1..e -> DOMAIN res]
    BY <1>4 DEF E
<1>8. /\ askedNames \in Seq(DOMAIN res) /\ Len(askedNames) = p
      /\ Sorted(E) \in Seq(DOMAIN res) /\ Len(Sorted(E)) = e
    <2> HIDE DEF p, e
    <2>1. askedNames \in Seq(DOMAIN res) /\ Len(askedNames) = p
        BY <1>3, <1>6, FunctionIsSeq
    <2>2. Sorted(E) \in Seq(DOMAIN res) /\ Len(Sorted(E)) = e
        BY <1>4, <1>7, FunctionIsSeq
    <2> QED
        BY <2>1, <2>2
<1> DEFINE names == orderedAnswerNames
           m == Len(names)
<1>9. names = askedNames \o Sorted(E)
    BY DEF orderedAnswerNames, E
<1>10. /\ names \in Seq(DOMAIN res) /\ DOMAIN names = 1..(p + e) /\ m = p + e
       /\ \A i \in 1..p : names[i] = askedNames[i]
       /\ \A i \in (p + 1)..(p + e) : names[i] = Sorted(E)[i - p]
    <2> DEFINE both == askedNames \o Sorted(E)
    <2>1. /\ both \in Seq(DOMAIN res) /\ Len(both) = p + e /\ DOMAIN both = 1..(p + e)
          /\ \A i \in 1..p : both[i] = askedNames[i]
          /\ \A i \in (p + 1)..(p + e) : both[i] = Sorted(E)[i - p]
        <3> HIDE DEF p, e, E
        <3>1. /\ both \in Seq(DOMAIN res)
              /\ Len(both) = Len(askedNames) + Len(Sorted(E))
              /\ DOMAIN both = 1..(Len(askedNames) + Len(Sorted(E)))
              /\ \A i \in 1..Len(askedNames) : both[i] = askedNames[i]
              /\ \A i \in (Len(askedNames) + 1)..(Len(askedNames) + Len(Sorted(E))) :
                    both[i] = Sorted(E)[i - Len(askedNames)]
            BY <1>8, ConcatFacts, Zenon
        <3> HIDE DEF both
        <3>2. Len(askedNames) = p /\ Len(Sorted(E)) = e
            BY <1>8, Zenon
        <3> QED
            BY <3>1, <3>2, Zenon
    <2> HIDE DEF p, e, E, both, names
    <2>2. names = both /\ m = Len(names)
        BY <1>9 DEF both
    <2> HIDE DEF m
    <2> QED
        BY <2>1, <2>2
<1> HIDE DEF names, p, e
<1>11. \A i \in DOMAIN names : i \in 1..p \/ (i \in (p + 1)..(p + e) /\ i - p \in 1..e)
    BY <1>3, <1>4, <1>10
<1>12. m \in Nat /\ names \in [1..m -> DOMAIN res]
    BY <1>3, <1>4, <1>10
<1>13. ASSUME NEW name \in DOMAIN res PROVE \E i \in DOMAIN names : names[i] = name
    <2>1. CASE name \in Range(questionNames)
        <3>1. PICK x \in P : questionNames[x] = name
            BY <2>1 DEF Range, P
        <3>2. PICK i \in 1..p : Sorted(P)[i] = x
            BY <1>3, <3>1
        <3>3. names[i] = name
            BY <1>6, <1>10, <3>1, <3>2
        <3>4. i \in DOMAIN names
            BY <1>3, <1>4, <1>10
        <3> QED
            BY <3>3, <3>4
    <2>2. CASE name \notin Range(questionNames)
        <3>1. name \in E
            BY <2>2 DEF E
        <3>2. PICK i \in 1..e : Sorted(E)[i] = name
            BY <1>4, <3>1
        <3>3. p + i \in (p + 1)..(p + e) /\ (p + i) - p = i /\ p + i \in 1..(p + e)
            BY <1>3, <1>4
        <3>4. names[p + i] = name
            BY <1>10, <3>2, <3>3
        <3> QED
            BY <1>10, <3>3, <3>4
    <2> QED
        BY <2>1, <2>2
<1>14. ASSUME NEW i \in DOMAIN names, NEW j \in DOMAIN names, i < j
       PROVE  \/ \E k, l \in 1..n : k < l /\ questionNames[k] = names[i] /\ questionNames[l] = names[j]
              \/ /\ names[j] \notin Range(questionNames)
                 /\ names[i] \in Range(questionNames) \/ names[i] < names[j]
    <2>1. CASE j \in 1..p
        <3>1. i \in 1..p
            BY <1>3, <1>4, <1>10, <1>14, <2>1
        <3>2. Sorted(P)[i] \in P /\ Sorted(P)[j] \in P /\ Sorted(P)[i] < Sorted(P)[j]
            BY <1>3, <1>14, <2>1, <3>1
        <3>3. /\ names[i] = questionNames[Sorted(P)[i]]
              /\ names[j] = questionNames[Sorted(P)[j]]
            <4>1. names[i] = askedNames[i] /\ names[j] = askedNames[j]
                BY <1>10, <2>1, <3>1
            <4> QED
                BY <1>6, <2>1, <3>1, <4>1
        <3>4. P \subseteq 1..n
            BY <1>1
        <3> QED
            BY <3>2, <3>3, <3>4
    <2>2. CASE j \in (p + 1)..(p + e) /\ j - p \in 1..e
        <3>1. names[j] = Sorted(E)[j - p] /\ Sorted(E)[j - p] \in E
            BY <1>4, <1>10, <2>2
        <3>2. names[j] \notin Range(questionNames)
            BY <3>1 DEF E
        <3>3. CASE i \in 1..p
            <4>1. names[i] = questionNames[Sorted(P)[i]] /\ Sorted(P)[i] \in P
                BY <1>3, <1>6, <1>10, <3>3
            <4>2. names[i] \in Range(questionNames)
                BY <4>1 DEF P, Range
            <4> QED
                BY <3>2, <4>2
        <3>4. CASE i \in (p + 1)..(p + e) /\ i - p \in 1..e
            <4>1. i - p < j - p
                BY <1>3, <1>4, <1>14, <2>2, <3>4
            <4>2. names[i] = Sorted(E)[i - p] /\ Sorted(E)[i - p] < Sorted(E)[j - p]
                BY <1>4, <1>10, <2>2, <3>4, <4>1
            <4> QED
                BY <3>1, <3>2, <4>2
        <3> QED
            BY <1>11, <3>3, <3>4
    <2> QED
        BY <1>11, <2>1, <2>2
<1> QED
    BY <1>12, <1>13, <1>14 DEF names

(* The decoded questions have the checked names, and their answers keep    *)
(* the names of the wire.                                                  *)
LEMMA DecodedFacts ==
    ASSUME ReportInv, Decoded
    PROVE  /\ args.questions # <<>> /\ Checked \in Seq(Asks)
           /\ DOMAIN questionNames = DOMAIN Checked
           /\ \A i \in DOMAIN Checked : questionNames[i] = Checked[i].name
<1>1. args.questions # <<>> /\ args \in Arguments
    BY DEF ReportInv, Decoded, evaluateInputSchema
<1>2. Checked \in Seq(Asks)
    BY <1>1, LastItems
<1>3. in.questions = [i \in DOMAIN Checked |-> decodeQuestion(args, i)]
    BY DEF Decoded
<1>4. \A i \in DOMAIN Checked : Checked[i].others = <<>>
    BY <1>1, SchemaFacts DEF Decoded
<1> QED
    BY <1>1, <1>2, <1>3, <1>4, DecodedQuestion DEF questionNames

LEMMA ReportNames ==
    ASSUME ReportInv, Reported
    PROVE  /\ Checked \in Seq(Asks)
           /\ questionNames \in [1..Len(Checked) -> Nat]
           /\ \A i \in DOMAIN Checked : questionNames[i] = Checked[i].name
           /\ res = UnmarshalResponse(wires) /\ DOMAIN res = DOMAIN wires
           /\ Len(orderedAnswerNames) \in Nat
           /\ orderedAnswerNames \in [1..Len(orderedAnswerNames) -> DOMAIN res]
<1>1. /\ Checked \in Seq(Asks) /\ DOMAIN questionNames = DOMAIN Checked
      /\ \A i \in DOMAIN Checked : questionNames[i] = Checked[i].name
    BY DecodedFacts DEF ReportInv
<1>2. \A i \in DOMAIN Checked : Checked[i].name \in Nat
    <2> SUFFICES ASSUME NEW i \in DOMAIN Checked PROVE Checked[i].name \in Nat
        OBVIOUS
    <2>1. Checked[i] \in Asks
        BY <1>1
    <2> QED
        BY <2>1 DEF Asks
<1>3. questionNames \in [1..Len(Checked) -> Nat] /\ Len(Checked) \in Nat
    <2>1. DOMAIN Checked = 1..Len(Checked) /\ Len(Checked) \in Nat
        BY <1>1
    <2>2. questionNames = [i \in DOMAIN in.questions |-> in.questions[i].name]
        BY DEF questionNames
    <2>3. DOMAIN in.questions = DOMAIN questionNames
        BY <2>2
    <2> QED
        BY <1>1, <1>2, <2>1, <2>2, <2>3
<1>4. res = UnmarshalResponse(wires) /\ DOMAIN res = DOMAIN wires
    BY DEF ReportInv, UnmarshalResponse
<1>5. ~hasDuplicate /\ DOMAIN res \subseteq Nat /\ IsFiniteSet(DOMAIN res)
    BY <1>4 DEF ReportInv
<1> QED
    BY <1>1, <1>3, <1>4, <1>5, NamesInOrder

(* A report names every answer once: those asked for in the order of the   *)
(* questions, then the others, sorted, for any number of either and any    *)
(* order the map yields (orderedAnswerNames, slices.Sort).                 *)
THEOREM AnswersAreInOrder == Spec => []AnswersInOrder
<1>1. ASSUME ReportInv, Reported PROVE AnswersInOrder
    <2> DEFINE names == orderedAnswerNames
               n == Len(Checked)
               m == Len(names)
               Asked(name) == \E i \in DOMAIN Checked : Checked[i].name = name
               Place(name) == CHOOSE i \in DOMAIN Checked : Checked[i].name = name
    <2>1. /\ Checked \in Seq(Asks) /\ questionNames \in [1..n -> Nat]
          /\ \A i \in DOMAIN Checked : questionNames[i] = Checked[i].name
          /\ DOMAIN res = DOMAIN wires
          /\ m \in Nat /\ names \in [1..m -> DOMAIN wires]
        BY <1>1, ReportNames
    <2>2. n \in Nat /\ DOMAIN Checked = 1..n
        BY <2>1
    <2>3. ~hasDuplicate /\ DOMAIN wires \subseteq Nat /\ IsFiniteSet(DOMAIN wires)
        BY <1>1 DEF ReportInv
    <2>4. /\ \A name \in DOMAIN wires : \E i \in DOMAIN names : names[i] = name
          /\ \A i, j \in DOMAIN names : i < j =>
                LET a == names[i]
                    b == names[j]
                IN  \/ \E k, l \in 1..n : k < l /\ questionNames[k] = a /\ questionNames[l] = b
                    \/ b \notin Range(questionNames) /\ (a \in Range(questionNames) \/ a < b)
        BY <2>1, <2>2, <2>3, NamesInOrder
    <2>5. /\ out = [i \in DOMAIN names |-> answerOutput(names[i])]
          /\ \A i \in DOMAIN names : answerOutput(names[i]).name = names[i]
        BY <1>1 DEF ReportInv, toOutput, answerOutput
    <2>6. \A k, l \in 1..n : questionNames[k] = questionNames[l] => k = l
        BY <2>1, <2>3 DEF hasDuplicate, IsInjective
    <2>7. \A name : Asked(name) <=> name \in Range(questionNames)
        BY <2>1, <2>2 DEF Range
    <2>8. \A k \in 1..n : Asked(questionNames[k]) /\ Place(questionNames[k]) = k
        BY <2>1, <2>2, <2>6
    <2> HIDE DEF names, n, m
    <2>9. DOMAIN out = 1..m /\ \A i \in 1..m : out[i].name = names[i]
        BY <2>1, <2>5
    <2>10. {out[i].name : i \in DOMAIN out} = DOMAIN wires
        BY <2>1, <2>4, <2>9
    <2>11. \A i, j \in 1..m : names[i] = names[j] => i = j
        <3> SUFFICES ASSUME NEW i \in 1..m, NEW j \in 1..m, i < j, names[i] = names[j] PROVE FALSE
            <4>1. \A i, j \in 1..m : i = j \/ i < j \/ j < i
                OBVIOUS
            <4> QED
                BY <4>1
        <3>1. names[i] \in Nat /\ ~(names[i] < names[i])
            BY <2>1, <2>3
        <3>2. PICK k \in 1..n, l \in 1..n :
                    k < l /\ questionNames[k] = names[i] /\ questionNames[l] = names[j]
            BY <2>1, <2>4, <3>1
        <3> QED
            BY <2>6, <3>2
    <2>12. Len(out) = Cardinality(DOMAIN wires)
        <3>1. /\ names \in Injection(1..m, DOMAIN wires)
              /\ names \in Surjection(1..m, DOMAIN wires)
            BY <2>1, <2>4, <2>11 DEF Injection, IsInjective, Surjection
        <3>2. Cardinality(1..m) = Cardinality(DOMAIN wires)
            BY <2>3, <3>1, FS_Injection
        <3>3. Cardinality(1..m) = m
            BY <2>1, FS_Interval
        <3>4. Len(out) = m
            BY <2>1, <2>5, <2>9
        <3> QED
            BY <3>2, <3>3, <3>4
    <2> HIDE DEF Asked, Place
    <2>13. ASSUME NEW i \in DOMAIN out, NEW j \in DOMAIN out, i < j
           PROVE  IF Asked(names[j]) THEN Asked(names[i]) /\ Place(names[i]) < Place(names[j])
                  ELSE Asked(names[i]) \/ names[i] < names[j]
        <3>1. \/ \E k, l \in 1..n : k < l /\ questionNames[k] = names[i] /\ questionNames[l] = names[j]
              \/ /\ names[j] \notin Range(questionNames)
                 /\ names[i] \in Range(questionNames) \/ names[i] < names[j]
            BY <2>1, <2>4, <2>9, <2>13
        <3>2. CASE \E k, l \in 1..n : k < l /\ questionNames[k] = names[i] /\ questionNames[l] = names[j]
            BY <2>8, <3>2
        <3>3. CASE /\ names[j] \notin Range(questionNames)
                   /\ names[i] \in Range(questionNames) \/ names[i] < names[j]
            BY <2>7, <3>3
        <3> QED
            BY <3>1, <3>2, <3>3
    <2> QED
        BY <2>9, <2>10, <2>12, <2>13 DEF AnswersInOrder, Checked, Asked, Place
<1>2. ReportInv => AnswersInOrder
    BY <1>1 DEF AnswersInOrder, Reported
<1> QED
    BY <1>2, ReportAlways, PTL

(***************************************************************************)
(* What a report shows of an answer.                                       *)
(***************************************************************************)
LEMMA AnswerFacts ==
    ASSUME ReportInv, NEW name \in DOMAIN res
    PROVE  /\ name \in DOMAIN wires
           /\ res[name].fields \in [Fields -> {"absent", "good", "huge"}]
           /\ res[name].fields.other = "absent"
           /\ readable(res[name]) =>
                /\ res[name].type \in Primitives
                /\ DecodesTyped(wires[name])
                /\ wires[name].fields[wires[name].type] = "good"
<1>1. name \in DOMAIN wires /\ res[name] = decodeAnswer(wires[name]) /\ wires[name] \in Wires
    BY DEF ReportInv, UnmarshalResponse, NoMap
<1> DEFINE w == wires[name]
           a == res[name]
<1>2. w.fields \in [Fields -> {"absent", "good", "wrong", "huge"}]
    BY <1>1 DEF Wires
<1>3. /\ a.type = (IF w.type = "illTyped" THEN "" ELSE w.type)
      /\ a.fields = (IF DecodesTyped(w) THEN [w.fields EXCEPT !.other = "absent"] ELSE NoFields)
    <2> DEFINE typed == IF w.type = "illTyped" THEN "" ELSE w.type
               fields == IF DecodesTyped(w) THEN [w.fields EXCEPT !.other = "absent"] ELSE NoFields
    <2>1. a = [type |-> typed, fields |-> fields, raw |-> w]
        BY <1>1 DEF decodeAnswer
    <2>2. a.type = typed /\ a.fields = fields
        <3> HIDE DEF typed, fields, a
        <3> QED
            BY <2>1
    <2> QED
        BY <2>2
<1>4. CASE DecodesTyped(w)
    <2>1. /\ a.fields = [w.fields EXCEPT !["other"] = "absent"] /\ "other" \in Fields
          /\ \A f \in TypedFields : w.fields[f] # "wrong" /\ (w.fields[f] = "huge" => f = "legend")
          /\ \A f \in Fields : f = "other" \/ f \in TypedFields
        BY <1>3, <1>4 DEF DecodesTyped, Fields
    <2>2. a.fields["other"] = "absent" /\ \A f \in TypedFields : a.fields[f] = w.fields[f]
        BY <1>2, <2>1 DEF Fields, TypedFields, Primitives
    <2>3. a.fields \in [Fields -> {"absent", "good", "huge"}]
        BY <1>2, <2>1, <2>2 DEF Fields
    <2>4. ASSUME readable(a) PROVE a.type \in Primitives /\ w.fields[w.type] = "good"
        <3>1. a.type \in Primitives /\ a.fields[a.type] # "absent"
            BY <2>4 DEF readable
        <3>2. w.type = a.type /\ w.type \in TypedFields /\ w.type # "legend"
            BY <1>3, <3>1 DEF Primitives, TypedFields
        <3>3. w.fields[w.type] \in {"absent", "good", "wrong", "huge"}
            BY <1>2, <3>2 DEF Fields
        <3> QED
            BY <2>1, <2>2, <3>1, <3>2, <3>3
    <2> QED
        BY <1>1, <1>4, <2>2, <2>3, <2>4
<1>5. CASE ~DecodesTyped(w)
    <2>1. a.fields = NoFields
        BY <1>3, <1>5
    <2>2. ~readable(a)
        BY <2>1 DEF readable, NoFields, Fields, TypedFields
    <2> QED
        BY <1>1, <2>1, <2>2 DEF NoFields, Fields
<1> QED
    BY <1>4, <1>5

(* Both renderings of an answer, readable or not. *)
LEMMA EntryFacts ==
    ASSUME ReportInv, NEW name \in DOMAIN res,
           NEW entry \in {answerOutput(name), summaryAnswer(name)}
    PROVE  /\ entry.name = name /\ entry.raw = ~readable(res[name]) /\ entry.raw \in BOOLEAN
           /\ entry.raw => entry.fields = NoFields
           /\ entry.fields.other = "absent"
<1>1. /\ res[name].fields \in [Fields -> {"absent", "good", "huge"}]
      /\ res[name].fields["other"] = "absent" /\ "other" \in Fields
      /\ readable(res[name]) => res[name].type \in Primitives
    BY AnswerFacts DEF Fields
<1>2. NoFields.other = "absent"
    BY DEF NoFields, Fields
<1>3. CASE entry = answerOutput(name)
    <2>1. Shown(res[name])["other"] = "absent"
        BY <1>1 DEF Shown
    <2> QED
        BY <1>2, <1>3, <2>1 DEF answerOutput, readable
<1>4. CASE entry = summaryAnswer(name)
    <2> DEFINE told == IF res[name].type = "noul" THEN {"noul"} ELSE {res[name].type, "confidence"}
               fields == [f \in Fields |-> IF readable(res[name]) /\ f \in told
                                             THEN res[name].fields[f] ELSE "absent"]
    <2>1. entry = [name |-> name, raw |-> ~readable(res[name]), fields |-> fields]
        BY <1>4 DEF summaryAnswer
    <2>2. fields["other"] = "absent"
        BY <1>1
    <2>3. ~readable(res[name]) => fields = NoFields
        BY DEF NoFields
    <2> HIDE DEF fields
    <2> QED
        BY <2>1, <2>2, <2>3 DEF readable
<1> QED
    BY <1>3, <1>4

(* An entry of a report is one of the renderings of an answer. *)
LEMMA EntryIsRendering ==
    ASSUME ReportInv, NEW entry \in Range(out) \cup Range(text)
    PROVE  Reported /\ \E name \in DOMAIN res : entry \in {answerOutput(name), summaryAnswer(name)}
<1>1. Reported
    BY DEF ReportInv, Range
<1>2. /\ out = [i \in DOMAIN orderedAnswerNames |-> answerOutput(orderedAnswerNames[i])]
      /\ text = out \/ text = [i \in DOMAIN orderedAnswerNames |-> summaryAnswer(orderedAnswerNames[i])]
    BY <1>1 DEF ReportInv, toOutput, summaryText
<1>3. \A i \in DOMAIN orderedAnswerNames : orderedAnswerNames[i] \in DOMAIN res
    BY <1>1, ReportNames
<1>4. \E i \in DOMAIN orderedAnswerNames :
          entry \in {answerOutput(orderedAnswerNames[i]), summaryAnswer(orderedAnswerNames[i])}
    BY <1>2 DEF Range
<1> QED
    BY <1>1, <1>3, <1>4

(* No field of an answer that did not decode as a whole is ever shown, and *)
(* what is shown as a decision is one (decodeAnswer, readable).            *)
THEOREM DecisionsAreAlwaysWhole == Spec => []DecisionsAreWhole
<1>1. ReportInv => DecisionsAreWhole
    <2> SUFFICES ASSUME ReportInv, NEW entry \in Range(out) \cup Range(text)
                 PROVE  IF entry.raw THEN entry.fields = NoFields
                        ELSE /\ DecodesTyped(wires[entry.name])
                             /\ wires[entry.name].fields[wires[entry.name].type] = "good"
        BY DEF DecisionsAreWhole
    <2>1. PICK name \in DOMAIN res : entry \in {answerOutput(name), summaryAnswer(name)}
        BY EntryIsRendering
    <2>2. /\ entry.name = name /\ entry.raw = ~readable(res[name]) /\ entry.raw \in BOOLEAN
          /\ entry.raw => entry.fields = NoFields
        BY <2>1, EntryFacts
    <2> QED
        BY <2>2, AnswerFacts
<1> QED
    BY <1>1, ReportAlways, PTL

(* The text never tells another name, decision or confidence than the      *)
(* structured result (summaryText, toOutput), whatever the detail.         *)
THEOREM RenderingsAlwaysAgree == Spec => []RenderingsAgree
<1>1. ReportInv => RenderingsAgree
    <2> SUFFICES ASSUME ReportInv, Reported
                 PROVE  /\ DOMAIN text = DOMAIN out
                        /\ \A i \in DOMAIN out :
                            /\ text[i].name = out[i].name /\ text[i].raw = out[i].raw
                            /\ ~out[i].raw => \A f \in {out[i].type, "confidence"} :
                                                text[i].fields[f] = out[i].fields[f]
        BY DEF RenderingsAgree, Reported
    <2>1. /\ out = [i \in DOMAIN orderedAnswerNames |-> answerOutput(orderedAnswerNames[i])]
          /\ text = out \/ text = [i \in DOMAIN orderedAnswerNames |-> summaryAnswer(orderedAnswerNames[i])]
        BY DEF ReportInv, toOutput, summaryText
    <2>2. ASSUME NEW name \in DOMAIN res, readable(res[name]),
                 NEW f \in {answerOutput(name).type, "confidence"}
          PROVE  summaryAnswer(name).fields[f] = answerOutput(name).fields[f]
        <3> DEFINE a == res[name]
        <3>1. /\ a.fields \in [Fields -> {"absent", "good", "huge"}] /\ a.type \in Primitives
              /\ f \in {a.type, "confidence"} /\ f \in Fields
            BY <2>2, AnswerFacts DEF answerOutput, Fields, TypedFields
        <3>2. answerOutput(name).fields = Shown(a)
            BY <2>2 DEF answerOutput
        <3>3. summaryAnswer(name).fields[f] =
                IF f \in (IF a.type = "noul" THEN {"noul"} ELSE {a.type, "confidence"})
                  THEN a.fields[f] ELSE "absent"
            BY <2>2, <3>1 DEF summaryAnswer
        <3>4. CASE a.type = "noul"
            BY <3>1, <3>2, <3>3, <3>4 DEF Shown
        <3>5. CASE a.type # "noul"
            BY <3>1, <3>2, <3>3, <3>5 DEF Shown
        <3> QED
            BY <3>4, <3>5
    <2>3. \A i \in DOMAIN orderedAnswerNames : orderedAnswerNames[i] \in DOMAIN res
        BY ReportNames
    <2>4. ASSUME NEW i \in DOMAIN orderedAnswerNames
          PROVE  LET o == answerOutput(orderedAnswerNames[i])
                     s == summaryAnswer(orderedAnswerNames[i])
                 IN  /\ s.name = o.name /\ s.raw = o.raw
                     /\ ~o.raw => \A f \in {o.type, "confidence"} : s.fields[f] = o.fields[f]
        <3> DEFINE name == orderedAnswerNames[i]
        <3>1. /\ summaryAnswer(name).name = name /\ answerOutput(name).name = name
              /\ summaryAnswer(name).raw = ~readable(res[name])
              /\ answerOutput(name).raw = ~readable(res[name])
            BY <2>3, EntryFacts
        <3>2. ~answerOutput(name).raw => readable(res[name])
            BY <3>1 DEF readable
        <3> QED
            BY <2>2, <2>3, <3>1, <3>2
    <2> QED
        BY <2>1, <2>4
<1> QED
    BY <1>1, ReportAlways, PTL

-----------------------------------------------------------------------------
(***************************************************************************)
(* Types.                                                                  *)
(***************************************************************************)
ControlInv ==
    /\ pc \in {"called", "decoded", "requested", "answered", "done"}
    /\ err \in {"nil", "schema", "invalidInput", "validation", "client", "malformedResponse"}
    /\ sent \in BOOLEAN

LEMMA ControlStep == ControlInv /\ [Next]_vars => ControlInv'
<1> SUFFICES ASSUME ControlInv, [Next]_vars PROVE ControlInv'
    OBVIOUS
<1>1. sent' = sent \/ sent' \in BOOLEAN
    BY DEF Next, SchemaRejects, DecodeInput, ToRequest, ClientRejects, ClientFails, ClientAnswers,
           Respond, vars
<1> QED
    BY <1>1 DEF ControlInv, Next, SchemaRejects, DecodeInput, ToRequest, ClientRejects, ClientFails,
           ClientAnswers, Respond, vars, Fail

(* Every state is well typed: no null criteria is left once the arguments  *)
(* are decoded, and no field the codec does not know is in an answer or a  *)
(* report of it (decodeQuestion, Response.UnmarshalJSON).                  *)
THEOREM TypeCorrect == Spec => []TypeOK
<1>1. Init => ControlInv
    BY DEF Init, ControlInv
<1>2. ASSUME ReportInv, NEW q \in Range(in.questions)
      PROVE  /\ q.type \in Primitives /\ q.instructions.kind \in Unions
             /\ q.criteria.kind \in {"absent", "object", "array"}
    <2>1. Decoded
        <3>1. CASE in = NoInput
            <4>1. in.questions = <<>>
                BY <3>1 DEF NoInput
            <4>2. Range(<<>>) = {}
                BY DEF Range
            <4> QED
                BY <1>2, <4>1, <4>2
        <3> QED
            BY <1>2, <3>1 DEF ReportInv
    <2>2. PICK i \in DOMAIN Checked : q = decodeQuestion(args, i)
        BY <1>2, <2>1 DEF Decoded, Range
    <2>3. /\ Checked[i] \in Asks
          /\ questionSchema(Checked[i])
        BY <1>2, <2>1, DecodedFacts DEF Decoded, evaluateInputSchema, Range, Checked
    <2>4. args \in Arguments /\ args.questions # <<>> /\ Checked[i].others = <<>>
        BY <1>2, <2>1, <2>3, DecodedFacts DEF ReportInv, questionSchema
    <2>5. /\ q.type = Checked[i].type /\ q.instructions = Checked[i].instructions
          /\ q.criteria = IF Checked[i].criteria.kind = "null" THEN Absent ELSE Checked[i].criteria
        BY <2>2, <2>4, DecodedQuestion
    <2> QED
        BY <2>3, <2>5 DEF questionSchema, Absent, Value
<1>3. ASSUME ReportInv, NEW entry \in Range(out) \cup Range(text)
      PROVE  entry.raw \in BOOLEAN /\ entry.fields.other = "absent"
    BY <1>3, EntryIsRendering, EntryFacts
<1>4. ReportInv /\ ControlInv => TypeOK
    BY <1>2, <1>3, AnswerFacts DEF TypeOK, ControlInv
<1> QED
    BY <1>1, <1>4, ControlStep, ReportAlways, PTL DEF Spec
=============================================================================

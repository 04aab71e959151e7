----------------------------- MODULE Validation -----------------------------
(***************************************************************************)
(* internal/jev: what Validate demands of a request (validate.go), and how *)
(* a response is decoded answer by answer (types.go).                      *)
(*                                                                         *)
(* A JSON value is its kind and its parts: the keys of an object, a key    *)
(* named twice occurring twice; the elements of an array; what TrimSpace   *)
(* leaves of a string.  "absent" is a value that is not there.  Names are  *)
(* numbers in the order slices.Sort puts them, 0 the empty name.           *)
(***************************************************************************)
EXTENDS Naturals, Sequences, FiniteSets, Functions

CONSTANTS
    MaxStateBytes, MaxQuestions,
    MinChoiceOptions, MaxChoiceOptions,
    MinScoreLevels, MaxScoreLevels,
    LongNames,     \* names of more than MaxQuestionNameBytes characters
    WideNames,     \* names of more bytes than that, but not more characters
    ControlNames   \* names with a control character

Values == [kind : STRING, parts : Seq(STRING)]
Value(kind, parts) == [kind |-> kind, parts |-> parts]
Absent == Value("absent", <<>>)
Null == Value("null", <<>>)

Primitives == {"choice", "score", "noul"}

(***************************************************************************)
(* Validate.                                                               *)
(***************************************************************************)
validateState(state) ==
    /\ state.kind \notin {"absent", "null", "malformed"}
    /\ Len(state.parts) <= MaxStateBytes

validateQuestionName(name) == name # 0 /\ name \notin LongNames \cup WideNames \cup ControlNames

validateInstructions(v) == v.kind \in {"string", "object", "array"} /\ v.parts # <<>>

(* A null decodes into an empty map, and into an empty slice. *)
validateChoiceCriteria(v) ==
    /\ v.kind \in {"object", "null"}
    /\ Cardinality(Range(v.parts)) \in MinChoiceOptions..MaxChoiceOptions
    /\ "blank" \notin Range(v.parts)

validateScoreCriteria(v) ==
    /\ v.kind \in {"array", "null"}
    /\ Len(v.parts) \in MinScoreLevels..MaxScoreLevels
    /\ "null" \notin Range(v.parts)

validateNoulCriteria(v) ==
    \/ v.kind \in {"absent", "null"}
    \/ v.kind = "object" /\ Range(v.parts) \subseteq {"true", "false"}

validateQuestion(name, q) ==
    /\ validateQuestionName(name)
    /\ validateInstructions(q.instructions)
    /\ \/ q.type = "choice" /\ validateChoiceCriteria(q.criteria)
       \/ q.type = "score" /\ validateScoreCriteria(q.criteria)
       \/ q.type = "noul" /\ validateNoulCriteria(q.criteria)

Validate(req) ==
    /\ validateState(req.state)
    /\ Cardinality(DOMAIN req.questions) \in 1..MaxQuestions
    /\ \A name \in DOMAIN req.questions : validateQuestion(name, req.questions[name])

(***************************************************************************)
(* Response.UnmarshalJSON.  An answer on the wire has a kind, a type ("" is *)
(* absent, "illTyped" not a string), and for each of its fields "absent"   *)
(* (or null, or empty), "good", "wrong" (of another JSON type than the     *)
(* codec's), or "huge" (holding a number beyond float64).  "other" stands  *)
(* for the fields the codec does not know.                                 *)
(***************************************************************************)
TypedFields == Primitives \cup {"confidence", "probabilities", "legend"}
Fields == TypedFields \cup {"other"}
Wires == [kind : STRING, type : STRING, fields : [Fields -> {"absent", "good", "wrong", "huge"}]]
NoFields == [f \in Fields |-> "absent"]

(* The values of a legend stay raw, so their numbers are not read. *)
DecodesTyped(wire) ==
    /\ wire.type # "illTyped"
    /\ \A f \in TypedFields :
        wire.fields[f] # "wrong" /\ (wire.fields[f] = "huge" => f = "legend")

(* Mutant: an answer that does not decode keeps the fields that did. *)
decodeAnswer_KeepFields(wire) ==
    [type   |-> IF wire.type = "illTyped" THEN "" ELSE wire.type,
     fields |-> [f \in Fields |-> IF f = "other" \/ wire.fields[f] \in {"wrong", "huge"}
                                    THEN "absent" ELSE wire.fields[f]],
     raw    |-> wire]

(* Typed fields are all or nothing; the type and the raw form always stay. *)
decodeAnswer(wire) ==
    [type   |-> IF wire.type = "illTyped" THEN "" ELSE wire.type,
     fields |-> IF DecodesTyped(wire) THEN [wire.fields EXCEPT !.other = "absent"]
                ELSE NoFields,
     raw    |-> wire]

(* Mutant: an answer that does not decode fails the whole response. *)
Malformed_Untyped(wires) ==
    \E name \in DOMAIN wires : wires[name].kind # "object" \/ ~DecodesTyped(wires[name])

(* Only an answer that is no object fails the whole response. *)
Malformed(wires) == \E name \in DOMAIN wires : wires[name].kind # "object"

UnmarshalResponse(wires) == [name \in DOMAIN wires |-> decodeAnswer(wires[name])]
=============================================================================

------------------------------ MODULE Messages ------------------------------
(***************************************************************************)
(* What the client makes of text that comes from a provider, before it is  *)
(* put into an error (internal/jev/client.go: newAPIError, CleanText,      *)
(* extractMessage, requestID).                                             *)
(*                                                                         *)
(* A text is a sequence of bytes, of which only what the code tells apart  *)
(* is kept: "x" and ":" print, "s" is a space, "n" an ASCII control        *)
(* character, "c" a UTF-8 continuation byte, and "L", "B" and "F" begin a  *)
(* character of UTFMax bytes: one that prints, a bidirectional control,    *)
(* and U+FFFD.                                                             *)
(***************************************************************************)
EXTENDS Sorting, SequencesExt

CONSTANTS
    UTFMax,             \* bytes of the longest character
    maxMessageBytes,    \* the cap of a text
    maxErrorTypeBytes,  \* the cap of an error type kept as a prefix
    Responses           \* bodies and request ids of error responses

Leads == {"L", "B", "F"}
Bytes == {"x", ":", "s", "n", "c"} \cup Leads
Texts == Seq(Bytes)

(* A field of an error body is absent, a string, an object with an error   *)
(* type and a message (NoType is a type that is absent or no string), or   *)
(* anything else; a body that is not a JSON object has only its bytes.     *)
NoType == <<"none">>
ErrorFields ==
    [kind : {"absent", "string", "object", "other"}, type : Texts \cup {NoType}, text : Texts]
ErrorBodies == [fields : Seq(ErrorFields), raw : Texts]

ASSUME MessagesAssumption ==
    /\ UTFMax \in Nat \ {0}
    /\ maxErrorTypeBytes \in Nat
    /\ maxMessageBytes \in Nat /\ maxMessageBytes >= maxErrorTypeBytes + 2 + UTFMax
    /\ Responses \subseteq [body : ErrorBodies, ids : Seq(Texts)]

VARIABLES
    body,      \* of the response: its fields and its bytes
    ids,       \* two headers' request ids and the body's
    message,   \* APIError.Message
    id,        \* APIError.RequestID
    pc         \* "received", "reported"

vars == <<body, ids, message, id, pc>>

-----------------------------------------------------------------------------
(***************************************************************************)
(* UTF-8.  Decoding resumes at the next byte after one that begins no      *)
(* character, so where characters begin can be told from nearby bytes.     *)
(***************************************************************************)
Encode(rune) == IF rune \in Leads THEN [i \in 1..UTFMax |-> IF i = 1 THEN rune ELSE "c"]
                ELSE <<rune>>

Whole(t, i) ==
    /\ t[i] \in Leads /\ i + UTFMax - 1 <= Len(t)
    /\ \A j \in (i + 1)..(i + UTFMax - 1) : t[j] = "c"

Covered(t, i) == \E j \in DOMAIN t : j < i /\ i < j + UTFMax /\ Whole(t, j)

RuneAt(t, i) == IF t[i] = "c" \/ (t[i] \in Leads /\ ~Whole(t, i)) THEN "bad" ELSE t[i]

Starts(t) == {i \in DOMAIN t : ~Covered(t, i)}

Decode(t) == LET begin == Sorted(Starts(t))
             IN  [k \in DOMAIN begin |-> RuneAt(t, begin[k])]

isUnsafe(rune) == rune \in {"n", "B"}
isUnsafeOrSpace(rune) == rune = "s" \/ isUnsafe(rune)

-----------------------------------------------------------------------------
(***************************************************************************)
(* CleanText.                                                              *)
(***************************************************************************)
(* Mutant: the cut may fall inside a character. *)
truncateMessage_Anywhere(t) ==
    IF Len(t) <= maxMessageBytes THEN t ELSE SubSeq(t, 1, maxMessageBytes)

(* The longest cut within reach that ends where a character begins. *)
truncateMessage(t) ==
    IF Len(t) <= maxMessageBytes THEN t
    ELSE LET ends == {e \in (maxMessageBytes - UTFMax + 1)..maxMessageBytes : t[e + 1] # "c"}
         IN  SubSeq(t, 1, IF ends = {} THEN maxMessageBytes ELSE Max(ends))

(* Mutant: the text is cut before its padding is dropped. *)
TrimLeft_Never(t) == t

(* bytes.TrimLeftFunc with isUnsafeOrSpace. *)
TrimLeft(t) ==
    LET kept == {i \in Starts(t) : ~isUnsafeOrSpace(RuneAt(t, i))}
    IN  IF kept = {} THEN <<>> ELSE SubSeq(t, Min(kept), Len(t))

TrimSpace(t) ==
    LET kept == {i \in DOMAIN t : t[i] # "s"}
    IN  IF kept = {} THEN <<>> ELSE SubSeq(t, Min(kept), Max(kept))

(* strings.ToValidUTF8: a rune for each character, and one U+FFFD for each  *)
(* run of invalid bytes.                                                   *)
Bad(t, i) == i \in Starts(t) /\ RuneAt(t, i) = "bad"
Valid(t) == {i \in Starts(t) : ~(Bad(t, i) /\ Bad(t, i - 1))}

Runes(t, places) ==
    LET at == Sorted(places)
    IN  [k \in DOMAIN at |-> IF RuneAt(t, at[k]) = "bad" THEN "F" ELSE RuneAt(t, at[k])]

ToValidUTF8(t) == Runes(t, Valid(t))

Sanitize(runes) ==
    FlattenSeq([k \in DOMAIN runes |-> Encode(IF isUnsafe(runes[k]) THEN "s" ELSE runes[k])])

cleanBytes(t) ==
    TrimSpace(truncateMessage(Sanitize(ToValidUTF8(truncateMessage(TrimLeft(t))))))

CleanText(t) == cleanBytes(t)

-----------------------------------------------------------------------------
(***************************************************************************)
(* Error bodies.                                                           *)
(***************************************************************************)
(* Mutant: an error type of any length is kept. *)
Prefix_Any(type) == IF type = NoType THEN <<>> ELSE CleanText(type)

Prefix(type) ==
    IF type # NoType /\ Len(CleanText(type)) <= maxErrorTypeBytes THEN CleanText(type) ELSE <<>>

fieldMessage(field) ==
    CASE field.kind = "string" -> CleanText(field.text)
      [] field.kind = "object" ->
            LET msg == CleanText(field.text)
                t == Prefix(field.type)
            IN  IF msg = <<>> \/ t = <<>> THEN msg ELSE CleanText(t \o <<":", "s">> \o msg)
      [] OTHER -> <<>>

(* "error", "detail" and "message" in turn, and then the body as it is. *)
extractMessage(b) ==
    LET usable == {k \in DOMAIN b.fields : fieldMessage(b.fields[k]) # <<>>}
    IN  IF usable = {} THEN cleanBytes(b.raw) ELSE fieldMessage(b.fields[Min(usable)])

(* The first of two headers and the body's id that is not empty once       *)
(* cleaned.                                                                *)
requestID(candidates) ==
    LET usable == {k \in DOMAIN candidates : CleanText(candidates[k]) # <<>>}
    IN  IF usable = {} THEN <<>> ELSE CleanText(candidates[Min(usable)])

-----------------------------------------------------------------------------
Init ==
    /\ \E response \in Responses : body = response.body /\ ids = response.ids
    /\ message = <<>> /\ id = <<>> /\ pc = "received"

Report ==
    /\ pc = "received"
    /\ message' = extractMessage(body)
    /\ id' = requestID(ids)
    /\ pc' = "reported"
    /\ UNCHANGED <<body, ids>>

Spec == Init /\ [][Report]_vars

-----------------------------------------------------------------------------
(* What an error carries is safe to print: within the cap, valid UTF-8,    *)
(* without control and bidirectional characters and without padding, for   *)
(* any bytes whatever (CleanText).                                         *)
Safe(t) ==
    /\ Len(t) <= maxMessageBytes
    /\ \A rune \in Range(Decode(t)) : rune # "bad" /\ ~isUnsafe(rune)
    /\ t # <<>> => t[1] # "s" /\ Last(t) # "s"

CleanIsSafe == Safe(message) /\ Safe(id)

VisibleAt(t) == {i \in Valid(t) : ~isUnsafeOrSpace(RuneAt(t, i))}
Visible(t) == Runes(t, VisibleAt(t))

(* Cleaning loses no more than it has to: a body with a character to show  *)
(* shows one, however much padding comes before it, and the visible        *)
(* characters shown are the first of the body, in their order, with one    *)
(* U+FFFD for each run of invalid bytes (cleanBytes, truncateMessage).     *)
CleanKeepsText ==
    pc = "reported" /\ body.fields = <<>> =>
        /\ Visible(message) = <<>> <=> Visible(body.raw) = <<>>
        /\ IsPrefix(Visible(message), Visible(body.raw))

(* A provider's message is shown: of the first field that has one, at      *)
(* least its beginning, whatever the error type before it (fieldMessage,   *)
(* maxErrorTypeBytes).                                                     *)
MessageSurvives ==
    pc = "reported" =>
        \A k \in DOMAIN body.fields :
            LET Cleaned(j) == IF body.fields[j].kind \in {"string", "object"}
                                THEN CleanText(body.fields[j].text) ELSE <<>>
            IN  Cleaned(k) # <<>> /\ (\A j \in 1..(k - 1) : Cleaned(j) = <<>>) =>
                    \E n \in 0..Len(message) :
                        LET tail == SubSeq(message, n + 1, Len(message)) IN
                        /\ tail # <<>> /\ IsPrefix(tail, Cleaned(k))
                        /\ n # 0 => n > 2 /\ SubSeq(message, n - 1, n) = <<":", "s">>
=============================================================================

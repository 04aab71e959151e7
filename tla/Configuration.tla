--------------------------- MODULE Configuration ---------------------------
(***************************************************************************)
(* internal/config: what Resolve makes of the environment, what Select     *)
(* makes of the result, and how a secret is normalised.                    *)
(*                                                                         *)
(* A raw setting is a member of a small set that tells apart what parsing  *)
(* tells apart; "" is a variable that is unset or empty.                   *)
(*   provider  "auto", "typesafe", "openrouter", or "other"                *)
(*   timeout, retries  "good", "unparsable", or "outOfRange" (a timeout    *)
(*             that is not positive, a negative count)                     *)
(*   fallback  "true", "false", or "unparsable"                            *)
(*   secrets   see Secrets                                                 *)
(***************************************************************************)
EXTENDS Sequences

(***************************************************************************)
(* "padded" is "clean" between spaces, tabs or line breaks; "blank" is     *)
(* nothing else; "control" holds another ASCII control character; "odd" is *)
(* sendable but looks pasted (a quote, a non-breaking space at an end).    *)
(***************************************************************************)
Secrets == {"", "clean", "padded", "blank", "control", "odd"}

TrimString(v) == CASE v = "padded" -> "clean" [] v = "blank" -> "" [] OTHER -> v

(* Mutant: the value is checked but not trimmed. *)
normalizeSecret_KeepPadding(v) ==
    CASE v = "blank" -> [value |-> "", err |-> "blank"]
      [] v = "control" -> [value |-> "", err |-> "control"]
      [] OTHER -> [value |-> v, err |-> "nil"]

(* Mutant: a value that trims to nothing counts as unset. *)
normalizeSecret_BlankIsUnset(v) ==
    IF v = "control" THEN [value |-> "", err |-> "control"]
    ELSE [value |-> TrimString(v), err |-> "nil"]

(* normalizeSecret, and with it NormalizeAPIKey and NormalizeHTTPToken. *)
normalizeSecret(v) ==
    CASE TrimString(v) = "" /\ v # "" -> [value |-> "", err |-> "blank"]
      [] TrimString(v) = "control" -> [value |-> "", err |-> "control"]
      [] OTHER -> [value |-> TrimString(v), err |-> "nil"]

(***************************************************************************)
(* Resolve: every setting is filled in, with its default where the         *)
(* variable is unset or does not parse; a mode outside the three is kept.  *)
(***************************************************************************)
Modes == {"auto", "typesafe", "openrouter"}

Parses(env) ==
    /\ env.provider \in Modes \cup {""}
    /\ env.timeout \in {"", "good"} /\ env.retries \in {"", "good"}
    /\ env.fallback # "unparsable"

Resolve(env) ==
    [provider  |-> IF env.provider = "" THEN "auto" ELSE env.provider,
     fallback  |-> env.fallback # "false",
     key       |-> env.key,
     httpToken |-> env.httpToken,
     err       |-> IF Parses(env) THEN "nil" ELSE "parse"]

(***************************************************************************)
(* Select: the providers in the order they will be tried, each with the    *)
(* key it will send, or why there are none.                                *)
(***************************************************************************)
NoProviders(why) == [providers |-> <<>>, err |-> why]

(* build stops at the first provider whose key cannot be used. *)
build(cfg, names) ==
    LET key(i) == normalizeSecret(cfg.key[names[i]])
    IN  IF \E i \in DOMAIN names : key(i).err # "nil"
          THEN NoProviders("badKey")
          ELSE [providers |-> [i \in DOMAIN names |-> [name |-> names[i], key |-> key(i).value]],
                err |-> "nil"]

(* TypeSafe before OpenRouter, and OpenRouter second only with fallback. *)
inOrder(typesafe, openrouter, fallback) ==
    IF typesafe /\ openrouter /\ fallback THEN <<"typesafe", "openrouter">>
    ELSE IF typesafe THEN <<"typesafe">>
    ELSE IF openrouter THEN <<"openrouter">>
    ELSE <<>>

(* Mutant: auto mode looks at the normalised keys, and passes over a bad one. *)
inAuto_Usable(cfg) ==
    LET Usable(p) == normalizeSecret(cfg.key[p]).value # ""
    IN  inOrder(Usable("typesafe"), Usable("openrouter"), cfg.fallback)

(* In auto mode, the providers whose key variable is set. *)
inAuto(cfg) ==
    LET IsSet(p) == cfg.key[p] # ""
    IN  inOrder(IsSet("typesafe"), IsSet("openrouter"), cfg.fallback)

Select(cfg) ==
    CASE cfg.provider = "auto" ->
            IF inAuto(cfg) = <<>> THEN NoProviders("noKey") ELSE build(cfg, inAuto(cfg))
      [] cfg.provider \in {"typesafe", "openrouter"} ->
            IF cfg.key[cfg.provider] = "" THEN NoProviders("keyMissing")
            ELSE build(cfg, <<cfg.provider>>)
      [] OTHER -> NoProviders("invalidProvider")
=============================================================================

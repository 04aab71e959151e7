----------------------------- MODULE MCStartup -----------------------------
(***************************************************************************)
(* Startup over the settings of three questions: every configuration,      *)
(* every address and token, and the probes.                                *)
(***************************************************************************)
EXTENDS Startup

Together(envs, options) == [env : envs, opts : options]

Key(ts, or) == [typesafe |-> ts, openrouter |-> or]

Env(provider, timeout, retries, fallback, keys, tokens) ==
    [provider : provider, timeout : timeout, retries : retries, fallback : fallback,
     key : keys, httpToken : tokens]

Keys(kinds) == {Key(ts, or) : ts, or \in kinds}

Opts(hosts, ports, sets, tokens, probes) ==
    [host : hosts, port : ports, tokenSet : sets, token : tokens, probe : probes]

(* Every configuration, served over stdio and judged by doctor. *)
AllEnvironments ==
    Env({"", "auto", "typesafe", "openrouter", "other"}, {"", "good", "outOfRange"},
        {"", "unparsable"}, {"", "true", "false", "unparsable"}, Keys(Secrets), {""})

StdioOptions == Opts({"stdio"}, {TRUE}, {FALSE}, {""}, {FALSE})

(* Every address and every source of a token. *)
HTTPEnvironments == Env({""}, {""}, {""}, {""}, {Key("clean", "")}, Secrets)

HTTPOptions ==
    Opts(Hosts, BOOLEAN, {FALSE}, {""}, {FALSE}) \cup Opts(Hosts, BOOLEAN, {TRUE}, Secrets, {FALSE})

AllAnswers == SUBSET Addresses

(* One and two probes. *)
ProbeEnvironments ==
    Env({""}, {""}, {""}, {""}, {Key("clean", "padded"), Key("", "odd"), Key("clean", "blank")},
        {"", "control"})

ProbeOptions == Opts({"stdio"}, {TRUE}, {FALSE}, {""}, BOOLEAN)

AllSituations ==
    Together(AllEnvironments, StdioOptions) \cup Together(HTTPEnvironments, HTTPOptions)
        \cup Together(ProbeEnvironments, ProbeOptions)
=============================================================================

------------------------------ MODULE Startup ------------------------------
(***************************************************************************)
(* Two commands on one environment: "jev-mcp", up to the moment it serves  *)
(* (cmd/jev-mcp/serve.go serveCommand), and "jev-mcp doctor"               *)
(* (internal/doctor Run), with its concurrent probes and an interruption   *)
(* at any moment.  The resolver that names the HTTP host is external: its  *)
(* answer may change between the check of the address and the bind.        *)
(***************************************************************************)
EXTENDS Configuration, Integers

CONSTANTS
    Situations,    \* what the variables (env) and the command lines (opts) may hold together
    Answers        \* what the resolver may answer: sets of addresses; {} is none, or an error

Addresses == {"loopback", "routable"}
Hosts == Addresses \cup {"stdio", "none", "name"}
ProviderNames == {"typesafe", "openrouter"}

Environments ==
    [provider : Modes \cup {"", "other"}, timeout : {"", "good", "unparsable", "outOfRange"},
     retries : {"", "good", "unparsable", "outOfRange"},
     fallback : {"", "true", "false", "unparsable"},
     key : [ProviderNames -> Secrets], httpToken : Secrets]

Options ==
    [host : Hosts, port : BOOLEAN, tokenSet : BOOLEAN, token : Secrets, probe : BOOLEAN]

ASSUME StartupAssumption ==
    /\ Situations \subseteq [env : Environments, opts : Options]
    /\ Answers \subseteq SUBSET Addresses

VARIABLES
    env,         \* the environment, the same for both commands
    opts,        \* serveOptions, and doctor's -probe
    dns          \* what the resolver answers now

VARIABLES  \* serveCommand
    serve,       \* where it is: "start", "address", "token", "listen", "serving",
                 \* or the step that refused to start
    providers,   \* the client's providers
    token,       \* the bearer token; "" is no authentication
    resolved,    \* what the resolver answered to the check of the address
    bound        \* the address the server listens on

VARIABLES  \* doctor
    doctor,      \* where it is: "start", "probing", "reporting", "exiting", "exited"
    ctxDone,     \* its context is cancelled
    probe,       \* how far each provider's probe is
    checks,      \* the lines of the report, as <<name, status>>
    interrupted, \* its snapshot of the context
    exit         \* its exit code

serving == <<serve, providers, token, resolved, bound>>
doctoring == <<doctor, ctxDone, probe, checks, interrupted, exit>>
vars == <<env, opts, dns, serving, doctoring>>

NoExit == -1

Init ==
    /\ \E s \in Situations : env = s.env /\ opts = s.opts
    /\ dns \in (IF opts.host = "name" THEN Answers ELSE {{}})
    /\ serve = "start" /\ providers = <<>> /\ token = "" /\ resolved = {} /\ bound = "none"
    /\ doctor = "start" /\ ctxDone = FALSE
    /\ probe = [p \in ProviderNames |-> "none"]
    /\ checks = {} /\ interrupted = FALSE /\ exit = NoExit

(***************************************************************************)
(* serveCommand.                                                           *)
(***************************************************************************)
Refusals == {"badConfig", "badAddress", "badToken", "notListening"}
Refuse(why) == serve' = why

(* Resolve, Select and New; stdio needs nothing else. *)
Configure ==
    /\ serve = "start"
    /\ LET cfg == Resolve(env)
           sel == Select(cfg)
       IN  IF cfg.err # "nil" \/ sel.err # "nil"
             THEN Refuse("badConfig") /\ UNCHANGED providers
             ELSE /\ providers' = sel.providers
                  /\ serve' = IF opts.host = "stdio" THEN "serving" ELSE "address"
    /\ UNCHANGED <<env, opts, dns, token, resolved, bound, doctoring>>

(* Mutant: one loopback address among the answers is enough. *)
AllLoopback_Any(answer) == "loopback" \in answer

AllLoopback(answer) == answer # {} /\ \A a \in answer : a = "loopback"

(* checkLoopbackAddrResolved: a literal as it is, a name by its addresses. *)
CheckAddress ==
    /\ serve = "address"
    /\ resolved' = IF opts.host = "name" THEN dns ELSE {}
    /\ IF opts.host = "loopback" \/ (opts.host = "name" /\ AllLoopback(dns))
         THEN serve' = "token"
         ELSE Refuse("badAddress")
    /\ UNCHANGED <<env, opts, dns, providers, token, bound, doctoring>>

rawToken == IF opts.tokenSet THEN opts.token ELSE env.httpToken

TakeToken ==
    /\ serve = "token"
    /\ IF normalizeSecret(rawToken).err # "nil"
         THEN Refuse("badToken") /\ UNCHANGED token
         ELSE serve' = "listen" /\ token' = normalizeSecret(rawToken).value
    /\ UNCHANGED <<env, opts, dns, providers, resolved, bound, doctoring>>

(* ListenAndServe resolves a name again and binds one of its addresses; an *)
(* address without a port, or one that is taken, fails.                    *)
Listen ==
    /\ serve = "listen"
    /\ \/ /\ opts.port
          /\ bound' \in (IF opts.host = "name" THEN dns ELSE {opts.host})
          /\ serve' = "serving"
       \/ Refuse("notListening") /\ UNCHANGED bound
    /\ UNCHANGED <<env, opts, dns, providers, token, resolved, doctoring>>

Rename ==
    /\ opts.host = "name" /\ serve \notin {"serving"} \cup Refusals
    /\ dns' \in Answers \ {dns}
    /\ UNCHANGED <<env, opts, serving, doctoring>>

(***************************************************************************)
(* doctor's Run.                                                           *)
(***************************************************************************)
Verdict(ok) == IF ok THEN "PASS" ELSE "FAIL"
Warning(bad) == IF bad THEN "WARN" ELSE "PASS"

(* Any credential with paste damage, judged as it would be used. *)
credentialFormatCheck(cfg, tok) ==
    LET BadKey(p) == normalizeSecret(cfg.key[p]).err # "nil"
        OddKey(p) == normalizeSecret(cfg.key[p]).value = "odd"
    IN  <<"credential format",
          Warning(tok = "odd" \/ \E p \in ProviderNames : BadKey(p) \/ OddKey(p))>>

(* Mutant: only a blank token is warned of. *)
httpTokenCheck_BlankOnly(err) == <<"http token", Warning(err = "blank")>>

httpTokenCheck(err) == <<"http token", Warning(err # "nil")>>

(* Everything before the probes, and which probes begin. *)
Preflight ==
    /\ doctor = "start"
    /\ LET cfg == Resolve(env)
           sel == Select(cfg)
           tok == normalizeSecret(cfg.httpToken)
           ready == cfg.err = "nil" /\ sel.err = "nil"
       IN  /\ checks' = {<<"config", Verdict(cfg.err = "nil")>>,
                         <<"providers", Verdict(sel.err = "nil")>>,
                         credentialFormatCheck(cfg, tok.value), httpTokenCheck(tok.err)}
           /\ doctor' = IF opts.probe /\ ready THEN "probing" ELSE "reporting"
           /\ probe' = [p \in ProviderNames |->
                IF opts.probe /\ ready
                   /\ \E i \in DOMAIN sel.providers : sel.providers[i].name = p
                  THEN "asking" ELSE "none"]
    /\ UNCHANGED <<env, opts, dns, serving, ctxDone, interrupted, exit>>

(* The probe's Evaluate returns: an answer, the provider's failure, or the *)
(* context's error once that has ended.                                    *)
ProbeReturns(p) ==
    /\ probe[p] = "asking"
    /\ \E outcome \in {"answered", "failed"} \cup (IF ctxDone THEN {"cancelled"} ELSE {}) :
        probe' = [probe EXCEPT ![p] = outcome]
    /\ UNCHANGED <<env, opts, dns, serving, doctor, ctxDone, checks, interrupted, exit>>

(* Mutant: every failed probe is the provider's fault. *)
probeStatus_Blame(outcome) == IF outcome = "answered" THEN "PASS" ELSE "FAIL"

(* A failed probe reads the context after Evaluate has returned. *)
probeStatus(outcome) ==
    IF outcome = "answered" THEN "PASS" ELSE IF ctxDone THEN "SKIP" ELSE "FAIL"

ProbeRecords(p) ==
    /\ probe[p] \in {"answered", "failed", "cancelled"}
    /\ checks' = checks \cup {<<p, probeStatus(probe[p])>>}
    /\ probe' = [probe EXCEPT ![p] = "recorded"]
    /\ UNCHANGED <<env, opts, dns, serving, doctor, ctxDone, interrupted, exit>>

(* wg.Wait. *)
ProbesDone ==
    /\ doctor = "probing"
    /\ \A p \in ProviderNames : probe[p] \in {"none", "recorded"}
    /\ doctor' = "reporting"
    /\ UNCHANGED <<env, opts, dns, serving, ctxDone, probe, checks, interrupted, exit>>

(* One snapshot of the context decides the extra line and the exit code. *)
Snapshot ==
    /\ doctor = "reporting"
    /\ interrupted' = ctxDone
    /\ checks' = checks \cup (IF ctxDone THEN {<<"run", "SKIP">>} ELSE {})
    /\ doctor' = "exiting"
    /\ UNCHANGED <<env, opts, dns, serving, ctxDone, probe, exit>>

(* Mutant: a warning fails the report. *)
report_WarnFails(lines) == IF \E c \in lines : c[2] \in {"FAIL", "WARN"} THEN 1 ELSE 0

report(lines) == IF \E c \in lines : c[2] = "FAIL" THEN 1 ELSE 0

(* Mutant: the exit code reads the context again. *)
exitCode_Reread == IF ctxDone THEN 1 ELSE report(checks)

exitCode == IF interrupted THEN 1 ELSE report(checks)

Exit ==
    /\ doctor = "exiting"
    /\ exit' = exitCode
    /\ doctor' = "exited"
    /\ UNCHANGED <<env, opts, dns, serving, ctxDone, probe, checks, interrupted>>

Interrupt ==
    /\ doctor # "exited" /\ ~ctxDone
    /\ ctxDone' = TRUE
    /\ UNCHANGED <<env, opts, dns, serving, doctor, probe, checks, interrupted, exit>>

ServeStep == Configure \/ CheckAddress \/ TakeToken \/ Listen \/ Rename
DoctorStep ==
    \/ Preflight \/ ProbesDone \/ Snapshot \/ Exit \/ Interrupt
    \/ \E p \in ProviderNames : ProbeReturns(p) \/ ProbeRecords(p)

Next == ServeStep \/ DoctorStep

Spec == Init /\ [][Next]_vars

(***************************************************************************)
(* PROPERTIES                                                              *)
(***************************************************************************)
(* Types.  A key or a token the server holds has been normalised: no       *)
(* padding is left, and nothing that cannot travel in a header.            *)
TypeOK ==
    /\ [env |-> env, opts |-> opts] \in Situations
    /\ dns \in Answers \cup {{}} /\ resolved \in Answers \cup {{}}
    /\ serve \in {"start", "address", "token", "listen", "serving"} \cup Refusals
    /\ providers \in Seq([name : ProviderNames, key : {"clean", "odd"}])
    /\ token \in {"", "clean", "odd"}
    /\ bound \in Addresses \cup {"none"}
    /\ doctor \in {"start", "probing", "reporting", "exiting", "exited"}
    /\ ctxDone \in BOOLEAN /\ interrupted \in BOOLEAN
    /\ probe \in [ProviderNames ->
                    {"none", "asking", "answered", "failed", "cancelled", "recorded"}]
    /\ checks \subseteq ({"config", "providers", "credential format", "http token", "run"}
                            \cup ProviderNames) \X {"PASS", "WARN", "FAIL", "SKIP"}
    /\ exit \in {NoExit, 0, 1}

(* In auto mode a key variable that is set decides: with both set TypeSafe *)
(* serves first, and no provider whose variable is set and which the mode  *)
(* would use is passed over because its key is blank or damaged.           *)
SetKeyDecides ==
    serve = "serving" /\ env.provider \in {"", "auto"} =>
        LET Wanted(p) == env.key[p] # "" IN
        /\ Wanted(providers[1].name)
        /\ Wanted("typesafe") => providers[1].name = "typesafe"
        /\ env.fallback # "false" =>
            {providers[i].name : i \in DOMAIN providers} = {p \in ProviderNames : Wanted(p)}

(* Over HTTP the server asks for the token of the one source that counts:  *)
(* the flag if it was given, even an empty one, and else the environment.  *)
(* It is open only if that source is empty; a blank or damaged token is    *)
(* refused, never taken for none, and one of the other source stops        *)
(* nothing (serveCommand's httpTokenSet, NormalizeHTTPToken).              *)
TokenHonoured ==
    LET given == IF opts.tokenSet THEN opts.token ELSE env.httpToken IN
    /\ serve = "serving" /\ opts.host # "stdio" =>
        token = TrimString(given) /\ (token = "" => given = "")
    /\ serve = "badToken" => given \in {"blank", "control"}

(* The server listens on a routable address only if the host is a name     *)
(* whose addresses were all loopback when they were checked and are not    *)
(* any more: a literal is never resolved, and a name that resolves to both *)
(* kinds is refused.                                                       *)
BindsLoopback ==
    bound = "routable" => opts.host = "name" /\ resolved = {"loopback"} /\ dns # resolved

(* Doctor, neither probing nor interrupted, exits with 0 exactly when the  *)
(* stdio server starts: a warning never fails, and nothing serve refuses   *)
(* is a mere warning.                                                      *)
DoctorAgrees ==
    doctor = "exited" /\ ~interrupted /\ ~opts.probe
        /\ opts.host = "stdio" /\ serve # "start"
        => (exit = 0 <=> serve = "serving")

(* Where HTTP mode takes its token from the environment, doctor warns of   *)
(* that token exactly when the server refuses to start with it.            *)
TokenWarned ==
    doctor = "exited" /\ ~opts.tokenSet /\ opts.host # "stdio" =>
        /\ serve = "badToken" => <<"http token", "WARN">> \in checks
        /\ serve \in {"listen", "serving"} => <<"http token", "PASS">> \in checks

(* A non-zero exit is explained by a line that is not PASS or WARN, and a  *)
(* SKIP line never comes with a zero exit.                                 *)
ExitExplained ==
    /\ exit = 1 => \E c \in checks : c[2] \in {"FAIL", "SKIP"}
    /\ exit = 0 => \A c \in checks : c[2] \in {"PASS", "WARN"}

(* An interruption is never reported as the failure of a provider: a probe *)
(* that ended because the run was cancelled is a SKIP, whatever happens    *)
(* between the end of the call and the report of it.                       *)
InterruptionNotBlamed ==
    [][\A p \in ProviderNames :
          probe[p] = "cancelled" => <<p, "FAIL">> \notin checks']_vars
=============================================================================

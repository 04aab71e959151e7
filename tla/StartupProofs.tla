--------------------------- MODULE StartupProofs ---------------------------
(***************************************************************************)
(* What holds of both commands for every environment, every command line   *)
(* and every resolver.                                                     *)
(***************************************************************************)
EXTENDS Startup, TLAPS

(* A value that normalises to nothing without an error is an unset one. *)
LEMMA EmptyIsUnset ==
    ASSUME NEW v, normalizeSecret(v).err = "nil", normalizeSecret(v).value = ""
    PROVE  v = ""
BY DEF normalizeSecret, TrimString

(* A value that is accepted has lost its padding and nothing else. *)
LEMMA AcceptedIsTrimmed ==
    ASSUME NEW v, normalizeSecret(v).err = "nil"
    PROVE  normalizeSecret(v).value = TrimString(v)
BY DEF normalizeSecret

LEMMA RefusedIsDamaged ==
    ASSUME NEW v, normalizeSecret(v).err # "nil"
    PROVE  v \in {"blank", "control"}
BY DEF normalizeSecret, TrimString

-----------------------------------------------------------------------------
(***************************************************************************)
(* The token.                                                              *)
(***************************************************************************)
TokenInv ==
    /\ serve = "listen" \/ (serve = "serving" /\ opts.host # "stdio") =>
        normalizeSecret(rawToken).err = "nil" /\ token = normalizeSecret(rawToken).value
    /\ serve = "badToken" => normalizeSecret(rawToken).err # "nil"

LEMMA TokenStep == TokenInv /\ [Next]_vars => TokenInv'
<1> SUFFICES ASSUME TokenInv, [Next]_vars PROVE TokenInv'
    OBVIOUS
<1> USE DEF TokenInv, rawToken, Refuse
<1>1. CASE Configure
    BY <1>1 DEF Configure
<1>2. CASE CheckAddress
    BY <1>2 DEF CheckAddress
<1>3. CASE TakeToken
    BY <1>3 DEF TakeToken
<1>4. CASE Listen
    BY <1>4 DEF Listen
<1>5. CASE Rename
    BY <1>5 DEF Rename, serving
<1>6. CASE DoctorStep
    BY <1>6 DEF DoctorStep, Preflight, ProbesDone, Snapshot, Exit, Interrupt,
                ProbeReturns, ProbeRecords, serving
<1>7. CASE UNCHANGED vars
    BY <1>7 DEF vars, serving
<1> QED
    BY <1>1, <1>2, <1>3, <1>4, <1>5, <1>6, <1>7 DEF Next, ServeStep

LEMMA TokenAlways == Spec => []TokenInv
<1>1. Init => TokenInv
    BY DEF Init, TokenInv
<1> QED
    BY <1>1, TokenStep, PTL DEF Spec

(* Whatever the environment and the flags hold, the token of an HTTP       *)
(* server is the normalised value of the source that counts, and a server  *)
(* without one was asked for (serveCommand, NormalizeHTTPToken).           *)
THEOREM TokenIsHonoured == Spec => []TokenHonoured
<1>1. TokenInv => TokenHonoured
  <2> SUFFICES ASSUME TokenInv
               PROVE  /\ serve = "serving" /\ opts.host # "stdio" =>
                            token = TrimString(rawToken) /\ (token = "" => rawToken = "")
                      /\ serve = "badToken" => rawToken \in {"blank", "control"}
    BY DEF TokenHonoured, rawToken
  <2> QED
    BY EmptyIsUnset, AcceptedIsTrimmed, RefusedIsDamaged DEF TokenInv
<1> QED
    BY <1>1, TokenAlways, PTL

-----------------------------------------------------------------------------
(***************************************************************************)
(* The address.                                                            *)
(***************************************************************************)
AddressInv ==
    /\ bound # "none" => serve = "serving"
    /\ serve \in {"token", "listen"} =>
        opts.host = "loopback" \/ (opts.host = "name" /\ resolved = {"loopback"})
    /\ BindsLoopback

LEMMA AllLoopbackIsLoopback ==
    ASSUME NEW answer, AllLoopback(answer)
    PROVE  answer = {"loopback"}
BY DEF AllLoopback

LEMMA AddressStep == AddressInv /\ [Next]_vars => AddressInv'
<1> SUFFICES ASSUME AddressInv, [Next]_vars PROVE AddressInv'
    OBVIOUS
<1> USE DEF AddressInv, BindsLoopback, Refuse
<1>1. CASE Configure
    BY <1>1 DEF Configure
<1>2. CASE CheckAddress
    BY <1>2, AllLoopbackIsLoopback DEF CheckAddress
<1>3. CASE TakeToken
    BY <1>3 DEF TakeToken
<1>4. CASE Listen
    BY <1>4 DEF Listen
<1>5. CASE Rename
    BY <1>5 DEF Rename, serving
<1>6. CASE DoctorStep
    BY <1>6 DEF DoctorStep, Preflight, ProbesDone, Snapshot, Exit, Interrupt,
                ProbeReturns, ProbeRecords, serving
<1>7. CASE UNCHANGED vars
    BY <1>7 DEF vars, serving
<1> QED
    BY <1>1, <1>2, <1>3, <1>4, <1>5, <1>6, <1>7 DEF Next, ServeStep

(* However often the resolver changes its mind, a routable address is      *)
(* bound only for a name that was checked while it was loopback alone      *)
(* (checkLoopbackAddrResolved).                                            *)
THEOREM BindIsLoopback == Spec => []BindsLoopback
<1>1. Init => AddressInv
    BY DEF Init, AddressInv, BindsLoopback
<1>2. AddressInv => BindsLoopback
    BY DEF AddressInv
<1> QED
    BY <1>1, <1>2, AddressStep, PTL DEF Spec

-----------------------------------------------------------------------------
(***************************************************************************)
(* Doctor's report.                                                        *)
(***************************************************************************)
Status(s) == \E c \in checks : c[2] = s

ReportInv ==
    /\ probe \in [ProviderNames ->
                    {"none", "asking", "answered", "failed", "cancelled", "recorded"}]
    /\ doctor # "probing" => \A p \in ProviderNames : probe[p] \in {"none", "recorded"}
    /\ doctor = "start" => checks = {}
    /\ \A c \in checks : c[2] \in {"PASS", "WARN", "FAIL", "SKIP"}
    /\ doctor \in {"start", "probing", "reporting"} => (Status("SKIP") => ctxDone)
    /\ doctor \in {"exiting", "exited"} => (Status("SKIP") <=> interrupted)
    /\ doctor # "exited" => exit = NoExit
    /\ doctor = "exited" => exit = (IF interrupted \/ Status("FAIL") THEN 1 ELSE 0)

(* Nothing is skipped, and no provider's probe reported, before the probes. *)
LEMMA PreflightLines ==
    ASSUME Preflight
    PROVE  \A c \in checks' : /\ c[2] \in {"PASS", "WARN", "FAIL"}
                              /\ c[1] \notin ProviderNames
<1> DEFINE cfg == Resolve(env)
           tok == normalizeSecret(cfg.httpToken)
           lines == {<<"config", Verdict(cfg.err = "nil")>>,
                     <<"providers", Verdict(Select(cfg).err = "nil")>>,
                     credentialFormatCheck(cfg, tok.value), httpTokenCheck(tok.err)}
           Fine(c) == c[2] \in {"PASS", "WARN", "FAIL"} /\ c[1] \notin ProviderNames
<1>1. checks' = lines
    BY DEF Preflight
<1>2. \A ok : Verdict(ok) \in {"PASS", "FAIL"} /\ Warning(ok) \in {"PASS", "WARN"}
    BY DEF Verdict, Warning
<1>3. Fine(credentialFormatCheck(cfg, tok.value)) /\ Fine(httpTokenCheck(tok.err))
    BY <1>2 DEF credentialFormatCheck, httpTokenCheck, ProviderNames
<1>4. \A ok : Fine(<<"config", Verdict(ok)>>) /\ Fine(<<"providers", Verdict(ok)>>)
    BY <1>2 DEF ProviderNames
<1> HIDE DEF Fine, cfg, tok
<1>5. \A c \in lines : Fine(c)
    BY <1>3, <1>4
<1> QED
    BY <1>1, <1>5 DEF Fine

LEMMA ReportStep == ReportInv /\ [Next]_vars => ReportInv'
<1> SUFFICES ASSUME ReportInv, [Next]_vars PROVE ReportInv'
    OBVIOUS
<1> USE DEF ReportInv, Status
<1>1. CASE ServeStep
    BY <1>1 DEF ServeStep, Configure, CheckAddress, TakeToken, Listen, Rename, doctoring
<1>2. CASE Preflight
  <2>1. /\ doctor = "start" /\ doctor' \in {"probing", "reporting"}
        /\ UNCHANGED <<ctxDone, interrupted, exit>>
    BY <1>2 DEF Preflight
  <2>2. /\ probe' \in [ProviderNames -> {"none", "asking"}]
        /\ doctor' # "probing" => \A p \in ProviderNames : probe'[p] = "none"
    BY <1>2 DEF Preflight
  <2>3. \A c \in checks' : c[2] \in {"PASS", "WARN", "FAIL"}
    BY <1>2, PreflightLines
  <2>4. probe' \in [ProviderNames ->
                       {"none", "asking", "answered", "failed", "cancelled", "recorded"}]
    BY <2>2
  <2> QED
    BY <2>1, <2>2, <2>3, <2>4
<1>3. ASSUME NEW p \in ProviderNames, ProbeReturns(p) PROVE ReportInv'
    BY <1>3 DEF ProbeReturns
<1>4. ASSUME NEW p \in ProviderNames, ProbeRecords(p) PROVE ReportInv'
    BY <1>4 DEF ProbeRecords, probeStatus
<1>5. CASE ProbesDone
    BY <1>5 DEF ProbesDone
<1>6. CASE Snapshot
  <2>1. /\ doctor = "reporting" /\ doctor' = "exiting" /\ interrupted' = ctxDone
        /\ UNCHANGED <<ctxDone, probe, exit>>
        /\ checks' = checks \cup (IF ctxDone THEN {<<"run", "SKIP">>} ELSE {})
    BY <1>6 DEF Snapshot
  <2>2. Status("SKIP")' <=> ctxDone
    <3>1. CASE ctxDone
      <4>1. <<"run", "SKIP">> \in checks' /\ <<"run", "SKIP">>[2] = "SKIP"
        BY <2>1, <3>1
      <4> QED
        BY <3>1, <4>1
    <3>2. CASE ~ctxDone
      BY <2>1, <3>2
    <3> QED
      BY <3>1, <3>2
  <2>3. \A c \in checks' : c[2] \in {"PASS", "WARN", "FAIL", "SKIP"}
    BY <2>1
  <2> QED
    BY <2>1, <2>2, <2>3
<1>7. CASE Exit
    BY <1>7 DEF Exit, exitCode, report
<1>8. CASE Interrupt
    BY <1>8 DEF Interrupt
<1>9. CASE UNCHANGED vars
    BY <1>9 DEF vars, doctoring
<1> QED
    BY <1>1, <1>2, <1>3, <1>4, <1>5, <1>6, <1>7, <1>8, <1>9 DEF Next, DoctorStep

LEMMA ReportAlways == Spec => []ReportInv
<1>1. Init => ReportInv
    BY DEF Init, ReportInv, Status
<1> QED
    BY <1>1, ReportStep, PTL DEF Spec

(* Doctor's exit code and its report agree, wherever the interruption      *)
(* falls (Run's single snapshot of the context).                           *)
THEOREM ExitIsExplained == Spec => []ExitExplained
<1>1. ReportInv => ExitExplained
    BY DEF ReportInv, ExitExplained, Status, NoExit
<1> QED
    BY <1>1, ReportAlways, PTL

(***************************************************************************)
(* The report of a probe.                                                  *)
(***************************************************************************)
BlameInv ==
    \A p \in ProviderNames :
        /\ probe[p] # "recorded" => <<p, "FAIL">> \notin checks
        /\ probe[p] = "cancelled" => ctxDone

LEMMA BlameStep == BlameInv /\ ReportInv /\ [Next]_vars => BlameInv'
<1> SUFFICES ASSUME BlameInv, ReportInv, [Next]_vars PROVE BlameInv'
    OBVIOUS
<1> USE DEF BlameInv
<1>1. CASE ServeStep
  <2>1. UNCHANGED <<probe, checks, ctxDone>>
    BY <1>1 DEF ServeStep, Configure, CheckAddress, TakeToken, Listen, Rename, doctoring
  <2> QED
    BY <2>1
<1>2. CASE Preflight
  <2>1. probe' \in [ProviderNames -> {"none", "asking"}]
    BY <1>2 DEF Preflight
  <2>2. \A p \in ProviderNames : <<p, "FAIL">> \notin checks'
    BY <1>2, PreflightLines
  <2> QED
    BY <2>1, <2>2
<1>3. ASSUME NEW q \in ProviderNames, ProbeReturns(q) PROVE BlameInv'
    BY <1>3 DEF ProbeReturns, ReportInv
<1>4. ASSUME NEW q \in ProviderNames, ProbeRecords(q) PROVE BlameInv'
    BY <1>4 DEF ProbeRecords, ReportInv
<1>5. CASE ProbesDone \/ Exit \/ Interrupt
  <2>1. UNCHANGED <<probe, checks>> /\ (ctxDone => ctxDone')
    BY <1>5 DEF ProbesDone, Exit, Interrupt
  <2> QED
    BY <2>1
<1>6. CASE Snapshot
    BY <1>6 DEF Snapshot
<1>7. CASE UNCHANGED vars
    BY <1>7 DEF vars, doctoring
<1> QED
    BY <1>1, <1>2, <1>3, <1>4, <1>5, <1>6, <1>7 DEF Next, DoctorStep

LEMMA CancelledIsSkipped ==
    BlameInv /\ ReportInv /\ [Next]_vars =>
        [\A p \in ProviderNames :
            probe[p] = "cancelled" => <<p, "FAIL">> \notin checks']_vars
<1> SUFFICES ASSUME BlameInv, ReportInv, [Next]_vars,
                    NEW p \in ProviderNames, probe[p] = "cancelled"
             PROVE  <<p, "FAIL">> \notin checks'
    OBVIOUS
<1>1. CASE probe'[p] # "recorded"
    BY <1>1, BlameStep DEF BlameInv
<1>2. CASE probe'[p] = "recorded"
  <2>1. ProbeRecords(p)
    BY <1>2 DEF Next, ServeStep, DoctorStep, Configure, CheckAddress, TakeToken, Listen, Rename,
                Preflight, ProbeReturns, ProbeRecords, ProbesDone, Snapshot, Exit, Interrupt,
                ReportInv, vars, doctoring
  <2> QED
    BY <2>1 DEF ProbeRecords, probeStatus, BlameInv
<1> QED
    BY <1>1, <1>2

(* A cancelled probe is never the provider's failure, however long its     *)
(* goroutine takes to report (probes reads the context after the call, and *)
(* a context that has ended stays so).                                     *)
THEOREM InterruptionIsNotBlamed == Spec => InterruptionNotBlamed
<1>1. Init => BlameInv
    BY DEF Init, BlameInv
<1> QED
    BY <1>1, BlameStep, CancelledIsSkipped, ReportAlways, PTL DEF Spec, InterruptionNotBlamed

-----------------------------------------------------------------------------
(***************************************************************************)
(* What doctor tells of serve.                                             *)
(***************************************************************************)
Ready == Resolve(env).err = "nil" /\ Select(Resolve(env)).err = "nil"

LinesInv ==
    /\ doctor # "start" => httpTokenCheck(normalizeSecret(env.httpToken).err) \in checks
    /\ doctor = "start" => checks = {} /\ \A p \in ProviderNames : probe[p] = "none"
    /\ ~opts.probe =>
        /\ \A p \in ProviderNames : probe[p] = "none"
        /\ doctor # "start" => (Status("FAIL") <=> ~Ready)

StdioInv == opts.host = "stdio" => serve \in {"start"} \cup (IF Ready THEN {"serving"} ELSE {"badConfig"})

(* The lines before the probes fail exactly when serve has no client. *)
LEMMA PreflightFails ==
    ASSUME Preflight
    PROVE  /\ Status("FAIL")' <=> ~Ready
           /\ httpTokenCheck(normalizeSecret(env.httpToken).err) \in checks'
<1> DEFINE cfg == Resolve(env)
           tok == normalizeSecret(cfg.httpToken)
           format == credentialFormatCheck(cfg, tok.value)
           http == httpTokenCheck(tok.err)
<1>1. checks' = {<<"config", Verdict(cfg.err = "nil")>>,
                 <<"providers", Verdict(Select(cfg).err = "nil")>>, format, http}
    BY DEF Preflight
<1>2. format[2] # "FAIL" /\ http[2] # "FAIL"
    BY DEF credentialFormatCheck, httpTokenCheck, Warning
<1>3. cfg.httpToken = env.httpToken
    BY DEF Resolve
<1>4. \A ok \in BOOLEAN : Verdict(ok) = "FAIL" <=> ~ok
    BY DEF Verdict
<1>5. Ready <=> cfg.err = "nil" /\ Select(cfg).err = "nil"
    BY DEF Ready
<1> HIDE DEF cfg, format, http
<1>6. Status("FAIL")' <=> Verdict(cfg.err = "nil") = "FAIL" \/ Verdict(Select(cfg).err = "nil") = "FAIL"
  <2>1. Status("FAIL")' <=> \E c \in checks' : c[2] = "FAIL"
    BY DEF Status
  <2> QED
    BY <1>1, <1>2, <2>1
<1>7. http \in checks' /\ http = httpTokenCheck(normalizeSecret(env.httpToken).err)
    BY <1>1, <1>3 DEF http
<1> QED
    BY <1>4, <1>5, <1>6, <1>7

LEMMA LinesStep == LinesInv /\ [Next]_vars => LinesInv'
<1> SUFFICES ASSUME LinesInv, [Next]_vars PROVE LinesInv'
    OBVIOUS
<1>e. UNCHANGED <<env, opts>> /\ (Ready' <=> Ready)
    BY DEF Next, ServeStep, DoctorStep, Configure, CheckAddress, TakeToken, Listen, Rename,
           Preflight, ProbeReturns, ProbeRecords, ProbesDone, Snapshot, Exit, Interrupt, vars, Ready
<1> USE DEF LinesInv, Status
<1>1. CASE ServeStep \/ UNCHANGED vars
  <2>1. UNCHANGED <<doctor, probe, checks>>
    BY <1>1 DEF ServeStep, Configure, CheckAddress, TakeToken, Listen, Rename, doctoring, vars
  <2> QED
    BY <1>e, <2>1
<1>2. CASE Preflight
  <2>1. doctor' # "start" /\ (~opts.probe => \A p \in ProviderNames : probe'[p] = "none")
    BY <1>2 DEF Preflight
  <2> QED
    BY <1>2, <1>e, <2>1, PreflightFails
<1>3. ASSUME NEW p \in ProviderNames, ProbeReturns(p) \/ ProbeRecords(p) PROVE LinesInv'
  <2>1. opts.probe /\ doctor # "start" /\ doctor' = doctor /\ checks \subseteq checks'
    BY <1>3 DEF ProbeReturns, ProbeRecords
  <2> QED
    BY <1>e, <2>1
<1>4. CASE ProbesDone \/ Exit \/ Interrupt
  <2>1. UNCHANGED <<probe, checks>> /\ (doctor' = "start" <=> doctor = "start")
    BY <1>4 DEF ProbesDone, Exit, Interrupt
  <2> QED
    BY <1>e, <2>1
<1>5. CASE Snapshot
  <2>1. UNCHANGED probe /\ doctor # "start" /\ doctor' # "start" /\ checks \subseteq checks'
    BY <1>5 DEF Snapshot
  <2>2. \A c \in checks' : c[2] = "FAIL" => c \in checks
    BY <1>5 DEF Snapshot
  <2> QED
    BY <1>e, <2>1, <2>2
<1> QED
    BY <1>1, <1>2, <1>3, <1>4, <1>5 DEF Next, DoctorStep

LEMMA StdioStep == StdioInv /\ [Next]_vars => StdioInv'
<1> SUFFICES ASSUME StdioInv, [Next]_vars PROVE StdioInv'
    OBVIOUS
<1>e. UNCHANGED <<env, opts>> /\ (Ready' <=> Ready)
    BY DEF Next, ServeStep, DoctorStep, Configure, CheckAddress, TakeToken, Listen, Rename,
           Preflight, ProbeReturns, ProbeRecords, ProbesDone, Snapshot, Exit, Interrupt, vars, Ready
<1>1. CASE Configure
    BY <1>1, <1>e DEF Configure, StdioInv, Ready, Refuse
<1>2. CASE CheckAddress \/ TakeToken \/ Listen
    BY <1>2, <1>e DEF CheckAddress, TakeToken, Listen, StdioInv
<1>3. CASE Rename \/ DoctorStep \/ UNCHANGED vars
  <2>1. serve' = serve
    BY <1>3 DEF Rename, DoctorStep, Preflight, ProbeReturns, ProbeRecords, ProbesDone, Snapshot,
                Exit, Interrupt, serving, vars
  <2> QED
    BY <1>e, <2>1 DEF StdioInv
<1> QED
    BY <1>1, <1>2, <1>3 DEF Next, ServeStep

LEMMA TellsAlways == Spec => [](LinesInv /\ StdioInv)
<1>1. Init => LinesInv /\ StdioInv
    BY DEF Init, LinesInv, StdioInv
<1> QED
    BY <1>1, LinesStep, StdioStep, PTL DEF Spec

(* Doctor exits with 0, for any environment, exactly when the server over  *)
(* stdio has what it needs (Run and serveCommand resolve and select alike, *)
(* and no warning fails).                                                  *)
THEOREM DoctorTellsServe == Spec => []DoctorAgrees
<1>1. LinesInv /\ StdioInv /\ ReportInv => DoctorAgrees
    BY DEF LinesInv, StdioInv, ReportInv, DoctorAgrees, Status
<1> QED
    BY <1>1, TellsAlways, ReportAlways, PTL

(* Doctor warns of a token exactly when the server refuses it, for any     *)
(* environment and whatever else doctor finds (NormalizeHTTPToken).        *)
THEOREM TokenIsWarned == Spec => []TokenWarned
<1>1. LinesInv /\ TokenInv => TokenWarned
    BY DEF LinesInv, TokenInv, TokenWarned, httpTokenCheck, Warning, rawToken
<1> QED
    BY <1>1, TellsAlways, TokenAlways, PTL

-----------------------------------------------------------------------------
(***************************************************************************)
(* The providers.                                                          *)
(***************************************************************************)
Providers == Seq([name : ProviderNames, key : {"clean", "odd"}])

LEMMA SettingTypes ==
    ASSUME [env |-> env, opts |-> opts] \in Situations
    PROVE  env \in Environments /\ opts \in Options
<1>1. [env |-> env, opts |-> opts] \in [env : Environments, opts : Options]
    BY StartupAssumption
<1> QED
    BY <1>1

LEMMA SecretTypes ==
    ASSUME NEW v \in Secrets, normalizeSecret(v).err = "nil"
    PROVE  /\ normalizeSecret(v).value \in {"", "clean", "odd"}
           /\ v # "" => normalizeSecret(v).value # ""
<1>1. TrimString(v) \in {"", "clean", "control", "odd"}
    BY DEF TrimString, Secrets
<1>2. TrimString(v) # "control" /\ (v # "" => TrimString(v) # "")
    BY DEF normalizeSecret, TrimString, Secrets
<1> QED
    BY <1>1, <1>2, AcceptedIsTrimmed

(* The providers whose key variable is set. *)
WithKey(key) == {p \in ProviderNames : key[p] # ""}

LEMMA SeqElement ==
    ASSUME NEW S, NEW s \in Seq(S), NEW i \in DOMAIN s
    PROVE  s[i] \in S
OBVIOUS

LEMMA Singleton ==
    ASSUME NEW S, NEW x \in S
    PROVE  /\ <<x>> \in Seq(S) /\ 1 \in DOMAIN <<x>> /\ <<x>>[1] = x
           /\ {<<x>>[i] : i \in DOMAIN <<x>>} = {x}
OBVIOUS

LEMMA EmptySeq ==
    ASSUME NEW S
    PROVE  <<>> \in Seq(S) /\ {<<>>[i] : i \in DOMAIN <<>>} = {}
OBVIOUS

(* build makes the providers it was asked for, in that order. *)
LEMMA BuildFacts ==
    ASSUME NEW cfg, NEW key \in [ProviderNames -> Secrets], cfg.key = key,
           NEW names \in Seq(WithKey(key)),
           build(cfg, names).err = "nil"
    PROVE  /\ build(cfg, names).providers \in Providers
           /\ DOMAIN build(cfg, names).providers = DOMAIN names
           /\ \A i \in DOMAIN names : build(cfg, names).providers[i].name = names[i]
<1> DEFINE send(i) == normalizeSecret(key[names[i]])
           made == [i \in DOMAIN names |-> [name |-> names[i], key |-> send(i).value]]
<1>1. /\ DOMAIN names = 1..Len(names) /\ Len(names) \in Nat
      /\ \A i \in 1..Len(names) : names[i] \in WithKey(key)
    OBVIOUS
<1>2. \A i \in DOMAIN names : send(i).err = "nil"
    BY DEF build, NoProviders
<1>3. build(cfg, names).providers = made
    BY <1>2 DEF build
<1>4. ASSUME NEW i \in 1..Len(names)
      PROVE  [name |-> names[i], key |-> send(i).value] \in [name : ProviderNames, key : {"clean", "odd"}]
  <2>1. names[i] \in ProviderNames /\ key[names[i]] \in Secrets /\ key[names[i]] # ""
    BY <1>1 DEF WithKey
  <2>2. send(i).value \in {"clean", "odd"}
    BY <1>1, <1>2, <2>1, SecretTypes
  <2> QED
    BY <2>1, <2>2
<1>5. made \in Providers
    BY <1>1, <1>4 DEF Providers
<1>6. DOMAIN made = DOMAIN names /\ \A i \in DOMAIN names : made[i].name = names[i]
    OBVIOUS
<1> QED
    BY <1>3, <1>5, <1>6

LEMMA InAutoFacts ==
    ASSUME NEW cfg, NEW key \in [ProviderNames -> Secrets], cfg.key = key
    PROVE  /\ inAuto(cfg) \in Seq(WithKey(key))
           /\ inAuto(cfg) # <<>> => 1 \in DOMAIN inAuto(cfg)
           /\ key["typesafe"] # "" => inAuto(cfg)[1] = "typesafe"
           /\ cfg.fallback => {inAuto(cfg)[i] : i \in DOMAIN inAuto(cfg)} = WithKey(key)
<1> DEFINE ts == key["typesafe"] # ""
           or == key["openrouter"] # ""
<1>1. inAuto(cfg) = IF ts /\ or /\ cfg.fallback THEN <<"typesafe", "openrouter">>
                    ELSE IF ts THEN <<"typesafe">> ELSE IF or THEN <<"openrouter">> ELSE <<>>
    BY DEF inAuto, inOrder
<1>2. CASE ts /\ or /\ cfg.fallback
  <2>1. WithKey(key) = {"typesafe", "openrouter"} /\ inAuto(cfg) = <<"typesafe", "openrouter">>
    BY <1>1, <1>2 DEF WithKey, ProviderNames
  <2> HIDE DEF ts, or
  <2> QED
    BY <2>1
<1>3. CASE ts /\ ~(or /\ cfg.fallback)
  <2>1. /\ "typesafe" \in WithKey(key) /\ inAuto(cfg) = <<"typesafe">>
        /\ cfg.fallback => WithKey(key) = {"typesafe"}
    BY <1>1, <1>3 DEF WithKey, ProviderNames
  <2> HIDE DEF ts, or
  <2> QED
    BY <2>1
<1>4. CASE ~ts /\ or
  <2>1. /\ inAuto(cfg) = <<"openrouter">> /\ WithKey(key) = {"openrouter"}
        /\ key["typesafe"] = "" /\ "openrouter" \in WithKey(key)
    BY <1>1, <1>4 DEF WithKey, ProviderNames
  <2>2. /\ <<"openrouter">> \in Seq(WithKey(key)) /\ 1 \in DOMAIN <<"openrouter">>
        /\ {<<"openrouter">>[i] : i \in DOMAIN <<"openrouter">>} = {"openrouter"}
    BY <2>1, Singleton
  <2> HIDE DEF ts, or
  <2> QED
    BY <2>1, <2>2, Zenon
<1>5. CASE ~ts /\ ~or
  <2>1. inAuto(cfg) = <<>> /\ WithKey(key) = {} /\ key["typesafe"] = ""
    BY <1>1, <1>5 DEF WithKey, ProviderNames
  <2> HIDE DEF ts, or
  <2> QED
    BY <2>1, EmptySeq, Zenon
<1> QED
    BY <1>2, <1>3, <1>4, <1>5

(* What Select makes of an environment, where it makes anything. *)
LEMMA SelectFacts ==
    ASSUME NEW e \in Environments, Select(Resolve(e)).err = "nil"
    PROVE  LET made == Select(Resolve(e)).providers IN
           /\ made \in Providers
           /\ e.provider \in {"", "auto"} =>
                /\ made[1].name \in WithKey(e.key)
                /\ e.key["typesafe"] # "" => made[1].name = "typesafe"
                /\ e.fallback # "false" =>
                    {made[i].name : i \in DOMAIN made} = WithKey(e.key)
<1> DEFINE cfg == Resolve(e)
           made == Select(cfg).providers
<1>1. /\ cfg.key = e.key /\ cfg.fallback = (e.fallback # "false")
      /\ cfg.provider = (IF e.provider = "" THEN "auto" ELSE e.provider)
      /\ e.key \in [ProviderNames -> Secrets]
    BY DEF Resolve, Environments
<1>2. CASE cfg.provider = "auto"
  <2>1. /\ made = build(cfg, inAuto(cfg)).providers /\ build(cfg, inAuto(cfg)).err = "nil"
        /\ inAuto(cfg) # <<>>
    BY <1>2 DEF Select, NoProviders
  <2> HIDE DEF cfg, made
  <2>2. /\ inAuto(cfg) \in Seq(WithKey(e.key)) /\ 1 \in DOMAIN inAuto(cfg)
        /\ e.key["typesafe"] # "" => inAuto(cfg)[1] = "typesafe"
        /\ cfg.fallback => {inAuto(cfg)[i] : i \in DOMAIN inAuto(cfg)} = WithKey(e.key)
    BY <1>1, <2>1, InAutoFacts
  <2>3. /\ made \in Providers /\ DOMAIN made = DOMAIN inAuto(cfg)
        /\ \A i \in DOMAIN inAuto(cfg) : made[i].name = inAuto(cfg)[i]
    <3> DEFINE built == build(cfg, inAuto(cfg)).providers
    <3>1. /\ built \in Providers /\ DOMAIN built = DOMAIN inAuto(cfg)
          /\ \A i \in DOMAIN inAuto(cfg) : built[i].name = inAuto(cfg)[i]
        BY <1>1, <2>1, <2>2, BuildFacts, Zenon
    <3> HIDE DEF built
    <3>2. made = built
        BY <2>1 DEF built
    <3> QED
        BY <3>1, <3>2
  <2>4. {made[i].name : i \in DOMAIN made} = {inAuto(cfg)[i] : i \in DOMAIN inAuto(cfg)}
    BY <2>3
  <2>5. inAuto(cfg)[1] \in WithKey(e.key)
    BY <2>2, SeqElement, Zenon
  <2> QED
    BY <1>1, <2>2, <2>3, <2>4, <2>5 DEF made, cfg
<1>3. CASE cfg.provider # "auto"
  <2>1. /\ cfg.provider \in WithKey(e.key)
        /\ Select(cfg) = build(cfg, <<cfg.provider>>)
    BY <1>1, <1>3 DEF Select, NoProviders, ProviderNames, WithKey
  <2>2. \A p \in WithKey(e.key) : <<p>> \in Seq(WithKey(e.key))
    OBVIOUS
  <2>3. made \in Providers
    <3> DEFINE name == cfg.provider
    <3>1. /\ <<name>> \in Seq(WithKey(e.key)) /\ made = build(cfg, <<name>>).providers
          /\ build(cfg, <<name>>).err = "nil" /\ cfg.key = e.key
      BY <1>1, <2>1, <2>2
    <3> HIDE DEF cfg, made, name
    <3>2. build(cfg, <<name>>).providers \in Providers
      BY <1>1, <3>1, BuildFacts, Zenon
    <3> QED
      BY <3>1, <3>2
  <2> QED
    BY <1>1, <1>3, <2>3
<1> QED
    BY <1>2, <1>3

(* The server's providers are the ones Select made of the environment. *)
ProvidersInv ==
    /\ [env |-> env, opts |-> opts] \in Situations
    /\ serve = "start" => providers = <<>>
    /\ serve \notin {"start", "badConfig"} =>
        Select(Resolve(env)).err = "nil" /\ providers = Select(Resolve(env)).providers
    /\ serve = "badConfig" => providers = <<>>

LEMMA ProvidersStep == ProvidersInv /\ [Next]_vars => ProvidersInv'
<1> SUFFICES ASSUME ProvidersInv, [Next]_vars PROVE ProvidersInv'
    OBVIOUS
<1> USE DEF ProvidersInv
<1>e. UNCHANGED <<env, opts>>
    BY DEF Next, ServeStep, DoctorStep, Configure, CheckAddress, TakeToken, Listen, Rename,
           Preflight, ProbeReturns, ProbeRecords, ProbesDone, Snapshot, Exit, Interrupt, vars
<1>1. CASE Configure
    BY <1>1, <1>e DEF Configure, Refuse
<1>2. CASE CheckAddress \/ TakeToken \/ Listen
  <2>1. /\ providers' = providers
        /\ serve \notin {"start", "badConfig"} /\ serve' \notin {"start", "badConfig"}
    BY <1>2 DEF CheckAddress, TakeToken, Listen, Refuse
  <2> QED
    BY <1>e, <2>1
<1>3. CASE Rename \/ DoctorStep \/ UNCHANGED vars
  <2>1. serve' = serve /\ providers' = providers
    BY <1>3 DEF Rename, DoctorStep, Preflight, ProbeReturns, ProbeRecords, ProbesDone, Snapshot,
                Exit, Interrupt, serving, vars
  <2> QED
    BY <1>e, <2>1
<1> QED
    BY <1>1, <1>2, <1>3 DEF Next, ServeStep

LEMMA ProvidersAlways == Spec => []ProvidersInv
<1>1. Init => ProvidersInv
  <2> SUFFICES ASSUME Init PROVE ProvidersInv
    OBVIOUS
  <2>1. PICK s \in Situations : env = s.env /\ opts = s.opts
    BY DEF Init
  <2>2. s = [env |-> s.env, opts |-> s.opts]
    BY StartupAssumption
  <2> QED
    BY <2>1, <2>2 DEF Init, ProvidersInv
<1> QED
    BY <1>1, ProvidersStep, PTL DEF Spec

(* In auto mode the key variables decide, for every environment: TypeSafe  *)
(* first if its key is set, every provider with a key if fallback is on,   *)
(* and never another one for a key that is blank or damaged (Select).      *)
THEOREM SetKeyAlwaysDecides == Spec => []SetKeyDecides
<1>1. ProvidersInv => SetKeyDecides
  <2> SUFFICES ASSUME ProvidersInv, serve = "serving", env.provider \in {"", "auto"}
               PROVE  /\ env.key[providers[1].name] # ""
                      /\ env.key["typesafe"] # "" => providers[1].name = "typesafe"
                      /\ env.fallback # "false" =>
                            {providers[i].name : i \in DOMAIN providers}
                                = {p \in ProviderNames : env.key[p] # ""}
    BY DEF SetKeyDecides
  <2> QED
    BY SelectFacts, SettingTypes DEF ProvidersInv, WithKey
<1> QED
    BY <1>1, ProvidersAlways, PTL

-----------------------------------------------------------------------------
(***************************************************************************)
(* Types.                                                                  *)
(***************************************************************************)
ServeTypes ==
    /\ dns \in Answers \cup {{}} /\ resolved \in Answers \cup {{}}
    /\ serve \in {"start", "address", "token", "listen", "serving"} \cup Refusals
    /\ bound \in Addresses \cup {"none"}
    /\ token \in {"", "clean", "odd"}

Lines ==
    ({"config", "providers", "credential format", "http token", "run"} \cup ProviderNames)
        \X {"PASS", "WARN", "FAIL", "SKIP"}

DoctorTypes ==
    /\ doctor \in {"start", "probing", "reporting", "exiting", "exited"}
    /\ ctxDone \in BOOLEAN /\ interrupted \in BOOLEAN
    /\ checks \subseteq Lines
    /\ exit \in {NoExit, 0, 1}

LEMMA ServeTypesStep == ServeTypes /\ AddressInv /\ ProvidersInv /\ [Next]_vars => ServeTypes'
<1> SUFFICES ASSUME ServeTypes, AddressInv, ProvidersInv, [Next]_vars PROVE ServeTypes'
    OBVIOUS
<1> USE DEF ServeTypes, Refusals, Refuse
<1>1. CASE Configure
    BY <1>1 DEF Configure
<1>2. CASE CheckAddress
    BY <1>2 DEF CheckAddress
<1>3. CASE TakeToken
  <2>1. rawToken \in Secrets
    BY SettingTypes DEF rawToken, ProvidersInv, Environments, Options
  <2> QED
    BY <1>3, <2>1, SecretTypes DEF TakeToken
<1>4. CASE Listen
  <2>1. bound' \in Addresses \cup {"none"}
    BY <1>4, StartupAssumption DEF Listen, AddressInv, Addresses
  <2> QED
    BY <1>4, <2>1 DEF Listen
<1>5. CASE Rename
    BY <1>5 DEF Rename, serving
<1>6. CASE DoctorStep \/ UNCHANGED vars
    BY <1>6 DEF DoctorStep, Preflight, ProbeReturns, ProbeRecords, ProbesDone, Snapshot,
                Exit, Interrupt, serving, vars
<1> QED
    BY <1>1, <1>2, <1>3, <1>4, <1>5, <1>6 DEF Next, ServeStep

LEMMA PreflightTypes ==
    ASSUME Preflight
    PROVE  checks' \subseteq {"config", "providers", "credential format", "http token"}
                                \X {"PASS", "WARN", "FAIL"}
<1> DEFINE cfg == Resolve(env)
           tok == normalizeSecret(cfg.httpToken)
           Fine(c) == c \in {"config", "providers", "credential format", "http token"}
                                \X {"PASS", "WARN", "FAIL"}
<1>1. checks' = {<<"config", Verdict(cfg.err = "nil")>>,
                 <<"providers", Verdict(Select(cfg).err = "nil")>>,
                 credentialFormatCheck(cfg, tok.value), httpTokenCheck(tok.err)}
    BY DEF Preflight
<1>2. \A ok : Verdict(ok) \in {"PASS", "FAIL"} /\ Warning(ok) \in {"PASS", "WARN"}
    BY DEF Verdict, Warning
<1>3. Fine(credentialFormatCheck(cfg, tok.value)) /\ Fine(httpTokenCheck(tok.err))
    BY <1>2 DEF credentialFormatCheck, httpTokenCheck
<1>4. \A ok : Fine(<<"config", Verdict(ok)>>) /\ Fine(<<"providers", Verdict(ok)>>)
    BY <1>2
<1> HIDE DEF Fine, cfg, tok
<1>5. \A c \in checks' : Fine(c)
    BY <1>1, <1>3, <1>4
<1> QED
    BY <1>5 DEF Fine

LEMMA DoctorTypesStep == DoctorTypes /\ [Next]_vars => DoctorTypes'
<1> SUFFICES ASSUME DoctorTypes, [Next]_vars PROVE DoctorTypes'
    OBVIOUS
<1> USE DEF DoctorTypes
<1>1. CASE ServeStep \/ UNCHANGED vars
    BY <1>1 DEF ServeStep, Configure, CheckAddress, TakeToken, Listen, Rename, doctoring, vars
<1>2. CASE Preflight
    BY <1>2, PreflightTypes DEF Preflight, Lines
<1>3. ASSUME NEW p \in ProviderNames, ProbeReturns(p) \/ ProbeRecords(p) PROVE DoctorTypes'
  <2>1. checks' = checks \/ checks' = checks \cup {<<p, probeStatus(probe[p])>>}
    BY <1>3 DEF ProbeReturns, ProbeRecords
  <2>2. probeStatus(probe[p]) \in {"PASS", "WARN", "FAIL", "SKIP"}
    BY DEF probeStatus
  <2>3. <<p, probeStatus(probe[p])>> \in Lines
    BY <2>2 DEF Lines
  <2>4. checks' \subseteq Lines
    BY <2>1, <2>3
  <2> QED
    BY <1>3, <2>4 DEF ProbeReturns, ProbeRecords
<1>4. CASE ProbesDone \/ Interrupt
    BY <1>4 DEF ProbesDone, Interrupt
<1>6. CASE Snapshot
  <2>1. checks' = checks \/ checks' = checks \cup {<<"run", "SKIP">>}
    BY <1>6 DEF Snapshot
  <2>2. <<"run", "SKIP">> \in Lines
    BY DEF Lines
  <2>3. checks' \subseteq Lines
    BY <2>1, <2>2
  <2> QED
    BY <1>6, <2>3 DEF Snapshot
<1>5. CASE Exit
    BY <1>5 DEF Exit, exitCode, report
<1> QED
    BY <1>1, <1>2, <1>3, <1>4, <1>5, <1>6 DEF Next, DoctorStep

(* Every state is well typed, and what the server holds as a key or token  *)
(* is normalised: trimmed, and free of what a header cannot carry          *)
(* (normalizeSecret), for every environment and command line.              *)
THEOREM TypeCorrect == Spec => []TypeOK
<1>1. Init => ServeTypes /\ DoctorTypes /\ AddressInv
    BY DEF Init, ServeTypes, DoctorTypes, AddressInv, BindsLoopback, Refusals
<1>2. ProvidersInv => providers \in Providers
  <2>1. <<>> \in Providers
    BY DEF Providers
  <2> QED
    BY <2>1, SelectFacts, SettingTypes DEF ProvidersInv
<1>3. ServeTypes /\ DoctorTypes /\ ProvidersInv /\ ReportInv => TypeOK
    BY <1>2 DEF TypeOK, ServeTypes, DoctorTypes, ProvidersInv, ReportInv, Providers, Lines
<1> QED
    BY <1>1, <1>3, ServeTypesStep, DoctorTypesStep, AddressStep, ProvidersAlways, ReportAlways,
       PTL DEF Spec
=============================================================================

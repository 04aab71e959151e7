# A verification development of jev-mcp

jev-mcp is an MCP server with one tool, `jev_evaluate`, that forwards questions
to the Jev decision API over one of two providers (TypeSafe, OpenRouter). This
directory holds TLA+ models of its core, TLC configurations that model-check
them, and TLAPS proofs of the properties that matter most. Paths below are
relative to the repository's root (`src/` here).

## The system

| Component | State | Operations | Talks to |
| --- | --- | --- | --- |
| `Client.Evaluate` (`internal/jev/client.go`) | none between calls; per call: provider index, attempt, Retry-After, last error, attempts so far, errors, budget context | one call: provider loop, retry loop, HTTP attempt, backoff sleep | providers over HTTP; the caller through a context |
| Retry policy (`internal/jev/retry.go`) | none | `delay`, `exponential`, `parseRetryAfter`, `scaleDuration` | the retry loop |
| Validation and decoding (`internal/jev/validate.go`, `types.go`) | none | `Validate`, `Response.UnmarshalJSON` | `Evaluate` |
| MCP tool (`internal/mcptools/tools.go`) | none | decode the arguments, build the request, render the result twice (structured, text) | the SDK, `Evaluate` |
| Serving (`internal/mcptools/serve.go`) | serve context, shutdown goroutine, connections, one cancellation hook per evaluation | `ServeHTTP`, `ServeStdio`, `withStop` | net/http, the SDK, `Evaluate` |
| Configuration (`internal/config`) | none | `Resolve`, `Select`, `Normalize*` | serve command, doctor |
| Serve command (`cmd/jev-mcp/serve.go`) | none | resolve, select, choose a transport, check the address, normalise the token | configuration, serving |
| Doctor (`internal/doctor`) | a slot per probe | checks, concurrent probes, exit code | configuration, `Evaluate` |
| Release scripts (`scripts/`) | version.go, index, commit, tag | the steps of a release and the restore trap | git |

`Client` holds no mutable state, so concurrent calls of `Evaluate` do not
interact and one call is the unit that is modelled. What is hard in this code is
time and cancellation in the client (a budget over attempts over waits, each with
a deadline that ends in the same error), arithmetic on untrusted headers, and the
order of listen, stop, drain and close in `ServeHTTP`. What makes each part correct:

- client: attempts counted once, fallback exactly for the documented errors, a
  context error only when the context ended, the budget never exceeded, an end to
  every call, the documented error contract;
- retry policy: a wait that is bounded whatever a server sends, and the server's own
  wait where it asked for one;
- serving: it returns after every stop and every failure, with nothing left open
  and the right error, and evaluations in flight end with it;
- validation and decoding: nothing half-decoded counts as a decision, and an answer
  the codec does not know does not fail the others;
- tool: what is sent is what was checked, answers in the order asked, text and
  structured result in agreement;
- error text: within its cap, safe to print, and with the provider's message in it;
- configuration: a key or token that is set is used or refused, never ignored;
  doctor agrees with serve;
- release: whatever step fails, the tree is restored, a tag names the version it
  holds, and a rerun gets the release done.

## Modules

| Module | Models | Composed with |
| --- | --- | --- |
| `RetryPolicy` | `retry.go` as pure operators on wrapping durations | extended by all of the client's modules |
| `MCRetryPolicy` | the retry policy applied to every failure of a small world | extends `RetryPolicy` |
| `EvaluateContract` | abstract: what `Evaluate` promises (comment at `client.go:170-175`) | implemented by `JevClient` |
| `JevClient` | one call of `Evaluate`, with time, servers and caller | extends `RetryPolicy`, instantiates `EvaluateContract` |
| `MCJevClient` | instances of `JevClient` | |
| `ServeHTTP` | `ServeHTTP`, its shutdown goroutine, connections, handlers, `withStop` | abstracts `Evaluate` to what `JevClient` shows of it |
| `MCServeHTTP` | instances of `ServeHTTP` | |
| `Configuration` | `config.Resolve`, `config.Select` and the normalisation of secrets, over classes of values | extended by `Startup` |
| `Sorting` | external: `slices.Sort` of a finite set of numbers | extended by `EvaluateTool` and `Messages` |
| `Startup` | `serveCommand` up to the moment it serves, and doctor's `Run`, on one environment | extends `Configuration` |
| `MCStartup` | instances of `Startup` | |
| `Validation` | `Validate` and the decoding of answers, over shapes of JSON values | extended by `EvaluateTool` |
| `EvaluateTool` | one call of `jev_evaluate`, from its arguments to both renderings | extends `Validation` and `Sorting`, abstracts `Evaluate` to what `JevClient` shows of it |
| `MCEvaluateTool` | instances of `EvaluateTool` | |
| `Messages` | `newAPIError`, with `CleanText`, `extractMessage` and `requestID`: what an error takes from one response | extends `Sorting` |
| `MCMessages` | the responses: every small text, and every combination of a few fields | extends `Messages` |
| `Release` | `release.sh` with its trap, `verify-version.sh` as a verdict, git, the maintainer and others | |
| `MCRelease` | instances of `Release` | |
| `Lemmas` | facts about numbers, finite sets, sorting and sequences | extends `Sorting` |
| `RetryPolicyProofs` | theorems about every wait | extends `MCRetryPolicy`, `Lemmas` |
| `JevClientProofs` | theorems about the client | extends `JevClient` |
| `StartupProofs` | theorems about both commands | extends `Startup` |
| `ServeHTTPProofs` | theorems about the server | extends `ServeHTTP` |
| `EvaluateToolProofs` | theorems about the tool | extends `EvaluateTool`, `Lemmas` |
| `MessagesProofs` | theorems about what an error shows | extends `Messages`, `Lemmas` |
| `ReleaseProofs` | theorems about the release script | extends `Release` |

Definitions named `X_Y` after a definition `X` and introduced by "Mutant" are
faulty variants of `X`, used to make sure each property can fail.

### RetryPolicy

A duration is an integer of the width `MaxDuration` stands for; `WrapDuration` is
int64 arithmetic. A header is a record of what `strconv.Atoi` and
`http.ParseTime` make of it. Jitter, a float in the code, is every integer
between the ends of its interval. `RetryPolicy` assumes of the policy only what
`defaultRetryPolicy` fixes: `BaseDelay <= MaxDelay`, and `4 * MaxDelay` does not
overflow.

### JevClient

`pc` is where the goroutine is (`entry`, `provider`, `requesting`, `failed`,
`sleeping`, `done`, `panicked`); `provider`, `attempt`, `retryAfter`, `lastErr`,
`start`, `total`, `errs` are the locals of `Evaluate` and `callProvider` under
their own names. `requests`, `sent`, `said` and `failedAt` record what the servers
saw and said, and no step of the client reads them.

| Action | Code |
| --- | --- |
| `AlreadyCancelled`, `FailsValidation`, `BeginEvaluate` | `Evaluate`, lines 177-189 |
| `EndpointInvalid`, `BeginProvider` | `callProvider` up to the first attempt |
| `AnswerAccepted`, `AnswerRejected`, `ConnectionFails`, `AttemptEnds` | the ways `doRequest` returns |
| `StopsRetrying`, `NotRetryable`, `BacksOff`, `Exhausted` | the retry loop after a failure |
| `Wakes`, `SleepCutShort` | `sleepCtx` and what follows it |
| `ProviderFails` (in four of them) | `Evaluate` after `callProvider` returned |
| `Cancel`, `Expire`, `Tick` | the caller, the budget, time |

Client steps take no time: `Tick` is enabled only while the client waits, and never
past a timer or a budget that is due. So "the call never outlives its budget" means
up to the delay of the scheduler. An answer that is there when the context ends may
still be read (`net/http` races the two), so a success may be returned after a
cancellation; `select` in `sleepCtx` may take either ready channel. The caller's own
deadline, which behaves as an earlier budget, is not modelled; `json.Marshal` cannot
fail after `Validate`, and `http.NewRequestWithContext` cannot fail on a URL that
`Endpoint` joined, so neither error has an action.

### ServeHTTP

`main` is the goroutine that listens, cancels and joins; `shutdown` the one that
waits for the derived context, drains and closes; `conn` and `handler` are
net/http's connection states and where each connection's handler is; `hook` and
`callDone` are `withStop`'s `AfterFunc` and the context it cancels. net/http is
external: `Track` is `Serve`'s check of `inShutdown` when it registers a listener,
`Poll` one turn of `Shutdown`'s loop, `Close` closes connections and waits for no
handler. The drain times out only if there is a wait that can outlast five seconds
(`MayOutlastDrain`), but any other handler may then be in the middle of its course.
A request that arrives in the drain's last moments, and would alone make it time
out, is not modelled. Signals, the bearer check and the SDK's sessions are abstracted
to `Stop` and to the three kinds of request.

### Configuration and Startup

A raw setting is a member of a small set that tells apart what parsing tells
apart: a secret, for example, is unset, clean, padded, blank, damaged by a control
character, or sendable but odd (`Secrets`). `Startup` runs the serve command
(`serve`, `providers`, `token`, `bound`) and doctor (`doctor`, `probe`, `checks`,
`interrupted`, `exit`) on the same environment, so that properties can relate the
two. `dns` is what the resolver answers now, and may change until the address is
bound.

| Action | Code |
| --- | --- |
| `Configure` | `serveCommand`, lines 45-75 |
| `CheckAddress`, `Rename` | `checkLoopbackAddrResolved`, and the resolver |
| `TakeToken` | `serveCommand`, lines 81-98 |
| `Listen` | `ServeHTTP` as far as the bind; what follows is the module `ServeHTTP` |
| `Preflight` | doctor's `Run` up to the probes |
| `ProbeReturns`, `ProbeRecords`, `ProbesDone` | `probeCheck` up to the call's return, the rest of it, `wg.Wait` |
| `Snapshot`, `Exit` | the rest of `Run`, on both sides of the write of the report |
| `Interrupt` | the signal that cancels `main`'s context |

### Validation and EvaluateTool

A JSON value is its kind and its parts: the keys of an object, the elements of an
array, what trimming leaves of a string. An answer on the wire has a kind, a type,
and for each field whether it is absent, good, of another type than the codec's, or
holding a number beyond float64. Names are numbers in the order `slices.Sort` puts
them, and sets say which names are too long, too long in bytes alone, or hold a
control character. `args.questions` is the sequence of the copies of that key in
the arguments: the SDK checks the last copy, `decodeRawInput` decodes all of them.
The two also disagree on which key is which: the derived schema allows no
additional properties, so a key that is unknown or in another case is turned away,
while encoding/json ignores the one and takes the other for the field. Such members
of the arguments and of a question are their `others`; a copy of `questions` under
such a key is `recased`.

| Action | Code |
| --- | --- |
| `SchemaRejects` | the SDK's validation against `evaluateInputSchema` |
| `DecodeInput` | `decodeRawInput` |
| `ToRequest` | `toRequest`: duplicate names, the detail, the request |
| `ClientRejects`, `ClientFails`, `ClientAnswers` | `Evaluate`: `Validate`, an error, a response decoded by `Response.UnmarshalJSON` |
| `Respond` | `toOutput`, `summaryText` and the choice between them |

Not modelled of the tool: a documented key repeated as it stands inside one
question, repeated copies of `state`, `model` and `detail`, the keys `name`, `type`,
`model` and `detail` in another case (they are turned away like unknown ones, which
stand for them), rounding (`roundPtr`), usage figures, layout and
logging.

### Messages

A text is a sequence of bytes, of which only what the code tells apart is kept:
bytes that print, spaces, control bytes, UTF-8 continuation bytes, and the first
bytes of characters of `UTFMax` bytes that print, that are bidirectional controls,
or that are U+FFFD. `Decode` and `Encode` are UTF-8; the standard library's
functions are modelled as `cleanBytes` uses them. `strings.ToValidUTF8` is stated
on the bytes: a rune for each place where a character begins, but for one that does
not decode and follows another (`Valid`), and U+FFFD for what does not decode.
`maxMessageBytes` and `maxErrorTypeBytes` are constants, so that a cap is reached by
short texts. A body is its fields, of every shape that `fieldMessage` tells apart,
and its bytes. `body` and `ids` are those of one of the `Responses`; `Report` is
`newAPIError`, which sets `message` and `id`, the `Message` and `RequestID` of the
error.

### Release

A commit is what version.go holds in it, and who made it; a branch or a tag is the
history that leads to it. `pc` is the line the script is at. The actions from
`CheckBranch` to `TagIt` are its lines in order; `Exit` is the EXIT trap, which runs
when a check after it fails, when the guard is not convinced (`Verify`), and when any
step fails or is interrupted (`StepFails`). `Killed` is an end without a trap. Between
two runs the maintainer edits, discards, pulls, pushes, gives an overtaken bump up,
or deletes a tag that was never published. `Others` commit to version.go in every
form, and release versions of their own. Assumed: the maintainer edits between runs
only (so an edit made after the script's check that the tree is clean, before its trap
is set, is not covered), and pushes only while the script's advice stands. `MaxMishaps` bounds failures,
kills, stray edits, absences from main and acts of others together.

## Runs

| Run | Bounds | Shows |
| --- | --- | --- |
| `retry_waits` | 8-bit durations, retries 0..7, 10 numbers and 5 instants per header | `WaitBounded`, `ServerWaitHonoured`, `BackoffDoubles`. The product of a number and the unit overflows, meets the cap exactly and exceeds it; backoff passes the cap and would wrap at retry 5. |
| `client_timing` | 2 providers, 2 retries, budget 10, attempt timeout 3, statuses 200/401/429, waits none, below (4) and over (9) the cap of `4 * MaxDelay = 8` | all interleavings of cancellation, budget, hung attempts, waits and answers; the budget ends in every state a call can wait in, and every sequence of failures that ask for a wait and that do not occurs. |
| `client_answers` | 3 providers, the second without a URL, eight statuses, four bodies | `FallbackTried`: every class of status and every fate of a body, with each combination over the providers. |
| `client_maxint` | 3-bit ints, `MaxRetries = MaxInt` | violated: see Findings. |
| `client_defaults` | ticks of 250 ms, the code's own defaults | violated: see Findings. |
| `serve_http` | 2 connections | two handlers can be at different places of the drain; more add no new interaction, connections only meet in "all are closed". |
| `serve_outlives` | 1 connection | violated: see Findings. |
| `startup` | three sets of situations. Over stdio: every mode, both keys of every class, fallback unset, true, false and unparsable, timeout and retries good or bad. Over HTTP: every kind of host, with and without a port, every set of answers, which may change, and both sources of a token of every class. Probing: one and two probes, damaged and odd credentials, an interruption at every step | the classes are all that `Resolve`, `Select` and the checks tell apart, so the run is exhaustive over them; the three sets are apart because host, keys and probes do not meet in the code. |
| `tool` | every question alone (5 names, 4 types, 9 instructions, 19 criteria), every state; up to three copies of the questions; a key that is unknown or in another case, in the arguments and in a question; up to four questions with names out of three and any answers out of five; answers with every pair of fields of every shape | limits are 2 and 3, so that each is met, missed by one, and exceeded. Two fields are enough for one that decodes beside one that does not. |
| `tool_raw` | the odd answers of `tool` | violated: see Findings. |
| `messages` | texts of up to five characters (U+FFFD among them) or stray bytes, characters of three bytes, caps of six and one bytes; every first field of a body with every second and third of four | a text reaches twice the cap and more, with the cut at each place of a character, before and after replacement makes it longer. |
| `release` | versions 1 and 2, of which the maintainer releases 1, three mishaps | three mishaps let a failure, an act of others and a second failure of the rerun meet. |

`CHECK_DEADLOCK FALSE` is set where a call, a server or a command ends; that they do
not get stuck before is what `Ends` and `Returns` say of the client and the server.
`Release` too may come to rest, when everything is published.

### Fairness

`JevClient`: weak fairness of the client's own steps, of the budget timer and of
time. No server need answer and no caller need cancel. `ServeHTTP`: the two
goroutines and started hooks run; a stream ends with its context; an evaluation
whose context is cancelled returns (this is `Ends` of the client);
a response that is not blocked is written. Clients owe nothing, and neither does an
evaluation that no one cancelled, nor `Accept`, a bind or an accept failure.
`Startup` and `EvaluateTool` have safety properties only and no fairness: either may
stop anywhere. `Release`: a script that runs goes on (weak fairness), and the
maintainer wants the release: whatever the script's messages tell them to do, and
running it again, is done if it is possible again and again (strong fairness).
Mishaps are bounded, so from some moment on there are none; `RerunReleases` further
asks that version.go stays in the form that sed finds.

### Findings

1. `client_maxint`, `NeverPanics` (`client.go:234`): with `JEV_MCP_MAX_RETRIES` at
   the largest int, `MaxRetries + 1` wraps, the loop makes no attempt,
   `callProvider` returns a nil result with a nil error, and `Evaluate` dereferences
   it.
2. `client_defaults`, `FallbackPromised` (`client.go:184`): with the defaults a primary
   that hangs uses up the budget within its own three attempts, and the fallback is
   never asked, while the README and `Evaluate`'s comment say transport failures
   move on to it.
3. `serve_outlives`, `NoHandlerOutlives` (`mcptools/serve.go:164`): `Close` does not
   wait for handlers, so `ServeHTTP` can return with one still running, which the
   comment beside it says it avoids.
4. `tool_raw`, `RawPassedThrough` (`mcptools/tools.go:426`): an answer that the codec
   keeps raw because a typed field holds a number beyond float64 cannot be decoded
   into the structured result either, and fails the whole call, while the comments
   of `Response.UnmarshalJSON` and `readable` say such an answer is passed through.

`FallbackTried`, which holds, is what finding 2 leaves of the documented fallback: it
exempts a call whose context has ended, by its budget or its caller, where
`FallbackPromised` exempts the caller's cancellation alone.

## Proofs

Every invariant that a passing run checks is a theorem, and so are
`BackoffHonoured`, `DrainSparesEvaluations`, `InterruptionNotBlamed` and
`NeverDiscardsWork`, which speak of
steps. A theorem holds for every value of the constants that satisfies the named
assumptions of its module, which TLC evaluates in the runs.

Facts about what a definition by recursion computes take induction over data, which
the library states for a predicate and no prover here can instantiate. `Lemmas`
states it for sets instead: every set of natural numbers has a least member
(`LeastNatural`), and one that holds 0 and with a number the next one is all of them
(`SetInduction`). From there the proofs reach `FlattenSeq` of the community modules,
powers of two and the loop of `exponential`. Where a definition by recursion could
be avoided it is: `Sorted` gives the element of each rank (`SortedFacts`:
increasing, and exactly the set; `SortedUnique`: nothing else is), and `inOrder` the
providers case by case.

### Retry policy and client

`PolicyAssumption`, `WorldAssumption` and `ClientAssumption` follow from the code's
constants and from the guards of its options.

- `WaitIsBounded`: `WaitInv` says that a wait is what `delay` makes of the response's
  headers, one of the `delay(attempt, ...)` that jitter allows. A parsed wait is a natural number (`ScaleDurationExact`,
  `HeaderNumber`), and `delay` cuts it, or the jittered backoff, to `4 * MaxDelay`
  (`ExponentialBounded`, `JitteredBounded`, `DelayBounded`).
- `ServerWaitIsHonoured`: `ScaleDurationExact` says that the scaled number is the
  product, or `MaxDuration` where the product does not fit, and `ParsedAsWanted` that
  the header with precedence decides.
- `BackoffKeepsDoubling`: `ExponentialDoubles` says that leaving the loop at the first
  product that reaches the cap or wraps is the same as doubling without a width and
  cutting to the cap: no product wraps before the cap (`NoWrapBelowCap`, from
  `4 * MaxDelay <= MaxDuration`), and powers of two double (`PowerDoubles`).
- `TypeCorrect`: `TypeOK` is inductive; that a sleep is a natural number is
  `DelayNatural`.
- `BudgetIsHeld`: `BudgetInv` adds to `BudgetHolds` that the clock stands at zero
  until the call has begun, where `Tick` is not yet held back by the budget.
- `AttemptsAreAccounted`: `AttemptInv` relates `total`, `attempt` and `requests` at
  each `pc`; a failure found after the context ended is exempt, for its attempt was
  perhaps never sent and is never reported.
- `StopsOnlyIfTold`: `StopInv` adds that no error collected so far is a context
  error, and that the last attempt's error is none while the context is live.
- `StopIsNotHidden`: from `StopInv` too. Where the call ends with a failure, its last
  look at the context was `callProvider`'s after that failure, or `sleepCtx`'s.
- `FallbackIsJustified`: `FallbackInv` adds how many attempts the current provider
  has had at each `pc`, and that the class of `lastErr` is the class of what the
  provider did.
- `BackoffIsHonoured`: `BackoffInv` says that a sleep began at the failure it
  follows and has one of the lengths `delay` allows for what the provider asked,
  and that no time passes between a failure and the next provider's turn.
- `FallbackIsTried`: `TriedInv` says that where a call ends with its context alive at
  a provider that is not the last, that provider did not fail in a documented way.
- `ContractIsKept`: the initial state maps to the contract's, and every step to a
  step of it or to none. `ContractInv` says that one error has been collected of each
  provider given up on; `StopInv` tells a context's error from a provider's, and
  `BudgetInv` that the budget is not over before the call has begun. This is the
  safety part of `KeepsContract` (`Allowed`); that the call ends is left to TLC.

### Startup and serving

`ServeHTTP` assumes nothing of its constants, and `StartupAssumption` gives only the
types of environments, command lines and answers.

- `SetKeyAlwaysDecides`: `ProvidersInv` says that once the configuration is accepted
  the providers are those `Resolve` and `Select` give for the environment, which does
  not change. `InAutoFacts` and `BuildFacts` say what these are for every
  combination of keys and fallback.
- `TypeCorrect`: the same two lemmas, with `AddressInv`, give the types of what the
  server and doctor hold; in particular each key is a normalised one.
- `TokenIsHonoured`: `TokenInv` says that from the moment the token is taken it is
  the normalised flag or variable, and that a refusal means normalisation failed;
  what that makes of each class is `EmptyIsUnset`, `AcceptedIsTrimmed` and
  `RefusedIsDamaged`.
- `BindIsLoopback`: `AddressInv` adds to `BindsLoopback` what the check left behind,
  a loopback literal or a name whose answer was loopback alone, and that no
  answer changes after the bind.
- `ExitIsExplained`: `ReportInv` says that a skipped line before the snapshot means
  an ended context, and after it exactly that the snapshot saw one.
- `InterruptionIsNotBlamed`: `BlameInv` says that an unrecorded probe has no line
  yet and that a cancelled one means an ended context, which stays ended.
- `DoctorTellsServe`, `TokenIsWarned`: `LinesInv` says that the lines written before
  the probes fail exactly when `Resolve` and `Select` leave no client (`Ready`), and
  `StdioInv` that the stdio server starts exactly then.
- `NothingIsLeftOpen`, `ErrorsAreFailures`, `EvaluationsAreSpared`: one inductive
  invariant, whose parts say where the listener is by where the serving goroutine is
  (`ListenerInv`), why each goroutine is where it is (`ReasonInv`), that no connection
  comes back once `Shutdown` or `Close` is through (`GoneInv`), and that an evaluation
  no one cancelled has its hook set, or started if the context is done (`HookInv`).
  By the last part, an evaluation that the drain's timeout cuts off has been told to
  stop, and the timeout has another cause.

### Tool

`SituationsAssumption` says of the calls of `EvaluateTool` only that they are
arguments, and answers with finitely many names.

- `SentIsChecked`: `InputInv` follows the last copy of the questions from the
  arguments through the decoded input to the request; `SchemaFacts` and `OwnField`,
  that no member under another key has a say in them; that no name occurs twice makes
  the map hold each question's own fields.
- `SchemaNeverStricter`: `SchemaInv` records that a call the schema turned away has
  arguments it rejects; each conjunct of `questionSchema` about a documented key is
  then implied by `validateQuestion`. Of other keys the schema is the stricter of the
  two, so the property is about calls without any.
- `UnmodelledPasses`: `WireInv` says that the response is what decoding made of the
  wire; an answer that does not decode into an any holds a huge number, and so does a
  readable one whose legend fails.
- `AnswersAreInOrder`: `ReportInv` says that the response is the decoded wire, that a
  report exists only of a response, and that it is `toOutput` of it, with the text
  made of the same. `NamesInOrder` then says of the order of names that every answer
  has one place, that the names asked for come first in the order of the questions
  (`askedNames`, which counts those before), and that the others are `Sorted`.
- `DecisionsAreAlwaysWhole`, `RenderingsAlwaysAgree`: from the same invariant,
  `AnswerFacts` says what decoding leaves of an answer (all fields of one that is
  readable, none of a raw one), and `EntryIsRendering` that each entry of either
  rendering is made of one answer.
- `TypeCorrect`: `ControlInv` and `ReportInv`; that no null criteria is left is what
  `decodeQuestion` does to the checked copy.

### Messages

`MessagesAssumption` gives the types of the responses, and asks that the cap has room
for an error type, the colon and one character: `ShowsMessage` needs it, and so does
the code, whose constants are 512, 64 and 4.

- `ReportsAreSafe`: a text is `Good` if it is made of safe characters, each of them
  whole. Encoded runes are good (`EncodedIsGood`), joining keeps it (`JoinedIsGood`,
  carried over `FlattenSeq` by `FlattenInSet`), and so do the cut and the trim, which
  never part a character (`TruncateIsGood`, `TrimIsGood`); what is good decodes to
  safe runes (`GoodDecodes`). `MessagesInv` is then inductive.
- `MessagesSurvive`: `ReportedInv` says that the message is `extractMessage` of the
  body. A good text is read back as it was written (`GoodIsReadBack`), so cleaning it
  again only cuts and trims its end (`CleanAgain`), and the cut falls after the first
  character of the message (`CleanKeepsStart`).
- `TextIsKept`: each step of `cleanBytes` leaves the visible characters or the first
  of them: dropping what precedes the first one (`RestShows`), cutting and trimming
  between characters (`BeginningShows`), and replacing runes (`SanitizedShows`, from
  `JoinedSpells`: the characters of joined runes are those runes, in their order).
  The first character stays visible throughout, so the message is not empty.

### Release

`ReleaseAssumption` says that versions are positive and that forms are of the known
ones; the number of mishaps is any natural number.

- `TypesHold`: the type invariant of the script, its files and the histories.
- `TreeIsRestored`, `TagsNameVersions`, `WorkIsKept`: one inductive invariant.
  `TreeInv` says that from the check of the tree to the edit version.go is the
  committed one, and that the flag `committed` tells the trap on which side of the
  commit the script is; `VersionInv` that from the guard on the file, and after the
  commit HEAD, holds the argument's version, so the tag names it.

### Only model-checked

Liveness under fairness, which TLAPS does not reach: `Ends` and the end of the call
in `KeepsContract`, `Returns` and `EvaluationsStop` of the server, and
`RerunReleases`.

## Plan

1. An abstract specification of `ServeHTTP` (serve, stop, drain, return) and the
   proof that it is implemented.
2. Configuration: the base URLs with the endpoints made of them, the model ids of the
   providers, and the sources that doctor prints.
3. `Stdio`: the end of a stdio session with an evaluation in flight.

## Not modelled

Lint rules (`rules/`, patterns no program here runs), packaging and workflows,
logging, the version string, and the wording of messages but for what an error takes
from a provider: no behaviour depends on them. Of the serve command and doctor, flag
parsing and usage errors, base URLs and model names, the printout of the settings and
the check of the default model's form are left out: they change nothing the two
commands decide. `ServeStdio` hands its session to the SDK; what it adds is
`withStop`, which `ServeHTTP` models. Of the client, the joining of a provider's URL
is only whether it fails, and concurrent calls share nothing. What is left out of the
tool, and assumed of a release, is said with their modules.

# A model of the local model endpoint (LIP)

This directory holds TLA+ specifications of the backend in
`src/apps/backend`, instances of them that TLC checks, and theorems about them
that TLAPS proves. `PROJECT.json` maps every definition to the lines of source
it models.

File names in the following are short for paths in `src/apps/backend/app`:
MAIN `main.py`, LR `api/lifespan_resources.py`, DEPS `api/deps.py`,
MW `api/request_id_middleware.py`, EH `api/exception_handler_registry.py`,
OC `features/inference/repository/ollama_client.py`,
OT `features/inference/model/ollama_translation.py`; and GEN is
`packages/error-contracts/scripts/generate.py`, SYNC and AM the workflows
`.github/workflows/dependabot-lockfile-sync.yml` and
`dependabot-automerge.yml`, from the root of the repository.

## The system

LIP is a FastAPI process on one Mac, in front of one Ollama daemon. The code
that exists today is the frame of the service: start and stop, the client of
the daemon, the way of a request through the middleware stack, and the
handlers that turn errors into problem+json. Semaphore, model registry,
watchdog and the inference endpoint itself are described in `docs/` and
`graphs/` and have no code yet. Beside the backend the repository holds a
generator for the error classes and two workflows that keep Dependabot's lock
files right.

| Component | State it keeps | Operations | Interacts with | What is hard | What makes it correct |
|---|---|---|---|---|---|
| Lifespan (MAIN, LR) | `app.state.context`, the exit stack, `entered_yield`, `shutdown_reason`, the propagating exception, the events logged | startup, yield, announced shutdown, withdrawal of the context, unwinding, verdict, completion line | client (enter, exit), requests (through the context), server (signals) | nested `finally`s, each of whose lines can raise; worker threads reading between two effects | context withdrawn before the client closes; errors keep their identity; startup and shutdown lines bracket each other; it terminates |
| Dependencies (DEPS) | none of their own | `get_app_state`, `get_ollama_client` | lifespan | run in a worker thread | a client is handed out only while it is offered |
| Request id middleware (MW) | contextvars, `scope["state"]`, `captured_status`, `unhandled_exc` | clear, bind, size guard, send wrapper, access line | handlers, route, server's `send` | exceptions at each point of a response; a context that outlives a request | one id per request; the access line says what the consumer saw |
| Exception handlers (EH) | bind into the contextvars | domain, validation, HTTP and catch-all handler | middleware | the catch-all runs outside the middleware; building a body may raise | every error answered, with one code and one id |
| Ollama client (OC) | the httpx pool of one connection, open or closed | `chat`, `_request`, `close`, enter and exit | lifespan, requests, Ollama | timeouts, cancellations and a close while others wait | one call on the wire; nobody keeps a place; one terminal line per call, with the right category; calls end |
| Translation (OT) | none | `translate_message`, `translate_params`, `build_chat_result` | client | defaults for missing fields; three checks in a row | a call returns on a whole answer and on no other, and blames the right thing for it |
| Settings (`core/config.py`) | frozen | validated once | - | two escape hatches over bind and daemon address | public binds only when asked for |
| Error contract generator (`packages/error-contracts`) | some forty files | load, validate, write | the backend's imports | files written one by one; derived names collide | files and registry agree |
| Dependabot workflows (SYNC, AM) | a branch, its lockfiles, the runs of each concurrency group, the armed merge | checkout, loop guard, lock, push under a lease, arm | Dependabot, maintainers, CI, GitHub's merge | a rebase under a running job; a push that triggers the next run; a run cancelled by a later one; a switch flipped after arming | never overwrite someone's push, skip no needed run, merge only what is in step, and merge in the end |
| Schemas, envelope, logging, routers, health, CI, launchd, Taskfile | none that changes | - | - | - | not modelled, see below |

## The modules

    ResourceScope       what a resource of the process promises its users  (abstract)
       ^ implements
    Lifespan            MAIN, LR, DEPS, OC enter/exit  <- MCLifespan,        LifespanProofs
    RequestPipeline     MW, EH                         <- MCRequestPipeline, RequestPipelineProofs
    OllamaTranslation   OT, the decoding in OC
       ^ composed into
    OllamaChat          OC chat, pool, close           <- MCOllamaChat,      OllamaChatProofs
       v implements
    InFlightSlot        what the client promises its callers             (abstract)
    ErrorContracts      GEN                            <- MCErrorContracts,  ErrorContractsProofs
    LockfileSync        SYNC, AM                       <- MCLockfileSync,    LockfileSyncProofs

### ResourceScope and Lifespan

`ResourceScope` is the promise: a resource is offered, withdrawn, released, in
this order and once each; a user gets a handle only while it is offered and a
refusal only while it is not; one that has a handle may keep it past the
withdrawal.

`Lifespan` is the coroutine `lifespan()` with `lifespan_resources()` and
`OllamaClient.__aenter__`/`__aexit__` inlined, and the requests that use the
client. `pc` is the place in the coroutine:

| `pc` | code |
|---|---|
| `init`, `constructing` | MAIN 165-205, up to the end of `__aenter__` |
| `serving` | the `yield` |
| `leaving`, `dropping` | the inner `finally`: `app_shutdown_started`, then the `delattr` |
| `exiting`, `closing` | leaving the `async with`: `__aexit__`, suspended in `aclose()` |
| `unwinding` | the outer `except` arms |
| `finally`, `done` | the outer `finally`; the generator is over |

`context` is the presence of `app.state.context`, `client` the state of the
httpx client (`orphaned`: entered, but the exit stack does not know it),
`raised` the propagating exception, `emitted` the set of lifecycle events,
`body` the history of how the yield ended. The requests are in `req`:
`arrived`, `resolved` (`get_app_state` returned a context), `inflight`, or
finished in one of five ways. `get_app_state` is a plain `def` dependency, so FastAPI runs it in a
thread: `Resolve` interleaves with every step of the coroutine, while the steps
of the coroutine that no `await` separates are atomic for what runs on the loop
(`LoopFree`).

`HostDrains` says that the ASGI host completes requests before it resumes the
generator, as uvicorn does; FALSE is the bare host that lifespan tests use.
`LogFaults` lets any log call raise: the code itself guards two of them with
`contextlib.suppress`, so it counts with it.

### RequestPipeline

One request at a time through ServerErrorMiddleware, RequestIdMiddleware,
ExceptionMiddleware and a route, and the next one in the same contextvars
context. `ctx` is that context, `state_id` is `scope["state"]["request_id"]`,
`captured` and `unhandled` are the locals of `__call__`, `wire` is what the
consumer got and `access` is the access line. Each handler is an action
(`HandleDomainError`, `HandleValidationError`, `HandleHttpException`,
`CatchAll`); what they share (`_resolve_request_id`, `_build_problem_payload`,
binding the code, stamping the header) is in `Handle` and `Payload`. Every
send can fail or be cancelled, a route can raise before and after its response
started, be cancelled, overwrite `request.state.request_id` with garbage or with another
id (a UUID, which `_resolve_request_id` takes for the request's own), or set an
`X-Request-ID` header of its own; and the app may lack RequestIdMiddleware,
the case the handlers' id fallback is written for. `OPTIONS *` is the path
without leading slash, which `ProblemDetails.instance` rejects.

### OllamaTranslation and OllamaChat

Consumers call `chat()` on one client. The pool (httpx, httpcore: external) is
modelled from what the client builds it with, `DEFAULT_LIMITS` and
`DEFAULT_TIMEOUT`: one connection, waiters in order, a timeout on every stage
but the sending of the body. `Chat` is the call up to its first suspension,
`Answer` all that follows the response, `Raise` the `except Exception` arm,
`ExceptCancelled` the `except CancelledError` arm. `holders` have a connection,
`severed` are those whose connection `aclose()` closed under them; the pool
does not count these. `cause` is why a call raised and `Instance` the classes
of that exception, so that `Category` can be the `isinstance` chain of the
code. `reply` is what Ollama answered, `events` are the lines of the call.
`DaemonReads` = FALSE is the daemon that accepts a connection and stops
reading.

`OllamaTranslation` has the pure functions on either side of the wire.
`Unsupported` says which messages `translate_message` refuses: a part with only
a URL, media in a system message. `Verdict` is the three checks of `chat()` in
their order: `raise_for_status`, `_decode_ollama_json`, `build_chat_result`
with the bounds of `OllamaChatResult`. A field of `Reply` ranges over the
shapes some check tells apart: `done` over absent, true, false and null (for
every other falsy value), a token count over absent, in range, out of range and
not an integer (a null included). `Chat` takes any message of `Prompts` and
`Answer` any reply of `Replies`.

### InFlightSlot

`InFlightSlot` is what the one-connection pool amounts to for those who call
the client: a semaphore with a queue. One call is inside; a call that finds the
slot taken, or others waiting, waits behind them; the slot goes to the first in
the queue and to nobody else, and anyone in it may give up; after the close no
new call comes in, while those that wait are still admitted. It knows nothing
of stages, timeouts, causes or answers.

`OllamaChat` implements it under `open <- ~closed`, `waiting <- queue` and
`inside <- holders \ severed`: a call whose connection the close cut is not
inside any more, though it has not noticed yet. `Close` then empties the slot
and the call's own end is a stutter.

### ErrorContracts

The generator reads `errors.yaml`, refuses it as a whole or rewrites the
package `_generated` in place: for each code its params module and its error
module, then `__init__.py` and `_registry.py`, then the removal of orphans.
`dir` is the package: each file is absent, empty (truncated and not yet
filled), or whole, and then known by the entries it was rendered from, or a
module somebody wrote: one that starts as they like (`Written`), one that
starts like a generated one (`Marked`, a copy they edited) or a file that cannot
be read as text (`Garbled`). `before` is the package as the run found it. `at` is
the place in the loop over the entries: `Parts` are the files written for an
entry, in order, and after the last entry the package and the registry;
`Target` is the file `at` is at, and `Source` what it is rendered from. `Open`
and `Fill` are the two effects of `write_text`, `Clean` removes one orphan or
ends the run, `Crash` is a kill or an OSError between any two effects; a
`Generate` may follow with any other `errors.yaml` that `Accepted`
(`load_and_validate`) lets through. `WriteByHand` puts somebody's module at any
file of `ByHand`, between two runs: a name that a code gives, that it does not
give any more, or that none gives (`Other`). `Sentinel` is the test of the first
line: what starts like a generated module is removed, whoever wrote it, and
what is empty, starts otherwise or cannot be read is not.

An entry has one param at most, its status is reduced to its class, and the
checks on its wording (code shape, required fields, caps, characters) are the
flag `sound`. `suffixed` is the one thing about a code's letters that matters:
FOO and FOO_ERROR derive the same names.

### LockfileSync

One Dependabot pull request that bumps a manifest. `commits` is every commit
ever pushed to its branch, the last one being the head; a commit knows who
pushed it and who is its author, which main it contains (`base`), whether its lockfiles agree with its
manifests (`inStep`), the commit it was made on (`onto`, none if a force push
replaced the branch), and whether CI passed it (`green`). Every push is an
event; `Trigger` is its delivery, which starts a run of each workflow and
cancels the one before it in the same group:

| State | Code |
|---|---|
| `sync[g]` | the lockfile-sync run of the group of event action `g` (SYNC 129-131): the `head` of its event, the `tip` it checked out by branch name, and its place |
| `ci` | the CI run of the pull request; a later event cancels it |
| `auto`, `armed` | the latest auto-merge run, and GitHub's memory of `gh pr merge --auto` |
| `mergeOn`, `switched` | `DEPENDABOT_AUTOMERGE_ENABLED`, and how often it was set to false |

`Checkout` is a run up to `uv lock`: the loop guard, and the test that base and
head of the event were fetched; `NothingToCommit` and `CommitAndPush` are the
rest, with the lease. The environment is Dependabot (`Rebase`: its bump again
on the current main, force-pushed, with or without the lockfiles), the
maintainers (`UpdateBranch`, by a merge of main or by a rebase, which replays
the commits on main and keeps their authors; `SwitchOff` and `SwitchOn`, which
set the variable and push nothing; `Rearm`, the empty commit AM 49-52 asks for,
which they may or may not push), `MainMoves`, and GitHub's `Merge` by the
ruleset `docs/automerge.md` sets.

What is assumed: events arrive in the order of the pushes, hashes do not come
back, the sync variable and the PAT are set, `uv lock`, the network and the
other checks of CI do not fail, and a merge deletes the branch, which ends what
still runs. An event's base is any main GitHub may have seen for that head: more than
can happen. Closing, reopening and drafts are left out.

## What is checked

| Run | Instance | Question |
|---|---|---|
| `lifespan_drained` | 2 requests, draining host, working logs | eight properties, from the refinement of ResourceScope to termination |
| `lifespan_faulty` | 2 requests, bare host, log calls may raise | no leak, no misrouted verdict |
| `pipeline` | 3 ids | ids, statuses, codes agree between wire and log; errors are answered |
| `ollama_chat` | 3 consumers, 3 prompts, 12 answers, reading daemon | the slot and its order (the refinement of InFlightSlot), the lines, the categories, the judgement of answers, the ends of calls |
| `contracts` | `errors.yaml` of up to 2 of 12 entries, over 2 words, one file written by hand | crashes and reruns leave a package that imports and agrees with its registry, and modules of others alone; the drift check is exact |
| `lockfile` | main moves once, Dependabot pushes twice, one flip of the switch | nothing overwritten; no needed run skipped, nobody waiting in vain and everything merged in step, but for two ways to be stranded |
| `lifespan_completed`, `pipeline_error_code`, `pipeline_oversize`, `ollama_wedged`, `contracts_self`, `lockfile_killswitch` | as above, or smaller | each refutes one statement of a comment or docstring |

The properties of the passing runs:

- Lifespan: `NoTornDownContext` (no request is handed a client that is closing),
  `GracefulStopIsInvisible`, `BodyErrorPreserved` (E1 survives E2),
  `ShutdownBracketed`, `NoManagedLeak`, `VerdictIsRight` (the line operators
  page on names the phase and the exception), `ScopeContract` (the refinement),
  `StopCompletes`, `RequestsFinish` (both but for a call that never ends).
- RequestPipeline: `OneRequestId` (with an exception for a route that overwrites
  the id: then one header, and a line by one of the two ids), `AccessTellsWire`, `NoStaleErrorCode`,
  `CodeIsCorrelated`, `NoSilentRequest`, `CancelIsNotServerError`,
  `EveryErrorIsAnswered`.
- OllamaChat: `OneInFlight`, `PoolIsExact`, `OneTerminalLine`,
  `CategoryTellsCause`, `AnswerIsJudged` (a call returns exactly on a whole
  answer, stated over the answer's fields and not over the checks; its line
  blames an answer exactly when it got a bad one, by its status first),
  `SlotContract` (the refinement: nobody is overtaken, nobody new joins after
  the close), `EveryCallEnds`, `CloseDrains`.
- ErrorContracts: `NoDanglingImport` (at every moment), `RegistryTellsTruth`
  (a whole run repairs what crashes left), `HandwrittenSurvives` (somebody's
  module is as they left it, unless its name is wanted or it starts like a
  generated one), `DriftCheckIsExact` (`task check:errors`, which generates and
  asks git for a difference, fails exactly when the checked-in package is not
  what `errors.yaml` gives).
- LockfileSync: `MergedInStep` (never a head whose lockfile commit is still to
  come, nor the verdict of another head or an older main), `HeadIsAttended`
  (whatever was cancelled, skipped or refused, there is or was a run for the
  head), `SkipIsSafe` (the loop guard skips no needed run, but for a lockfile
  commit that an update by rebase replayed), `NeverStranded` (an open pull
  request always has an event, a run, a merge or a maintainer's move ahead of
  it, but in the two ways below), `NoClobber` (a lockfile commit lands only on the commit it was
  locked for), `EventuallyMerged` (unless stranded in one of them for good).

The two ways a pull request is stranded: the branch was updated by rebase after
the lockfile commit, the replayed lockfile is wrong on the new main, and the
guard, which goes by the author of the last commit, skips the run
(`StaleReplay`); or the switch was set to true again and nobody pushed the
commit that would arm the pull request (`Unarmed`). The properties say that
there is no third.

Each has a mutant in the module, a plausible slip named after the definition
it replaces ("Seeded bugs"), with which the run must fail.

### Bounds, and why they are enough

Requests of `Lifespan` do not see each other: they interact through the
coroutine only, which asks at most whether any is active. Two show every pair
of positions around a teardown; the theorems cover any number. `Ids` needs
three: the id of this request, the one a handler falls back to, and the one
that was left bound; symmetric, since ids are only compared. Requests through
the pipeline need no bound, since what is kept of the past is one context.
Three consumers: one on the wire, and two that wait, so that queue
order and a departure from the middle matter; the theorems cover any number. No state constraint is used.
For the generator, 3 sound entries give every change of a code between two
runs (new, gone, with or without params, the colliding name) and 9 refused ones
one reason to refuse each; two at a time show one module's fate while another
is written. `MaxErrors` is that bound. `MaxByHand` is how many files may be
written by hand at a time: one, at the name of a params module that one of the
entries gives and the others do not (`ByHand`), so that it is overwritten in
some runs, in nobody's way in others, and an orphan in between; the generator
treats its files one by one, and the theorems cover any files and any number.
The names of params that break what is generated are in `contracts_self` only.
For the lockfiles, one move of main makes the branch fall behind once, two
pushes by Dependabot a rebase under any run, and one flip all there is to a
switch; runs, lockfile commits and updates then are bounded by themselves, so
that no bound cuts them off. The theorems cover any bounds. The answers of
`ollama_chat` are the usual one, those that differ from it in one place, and
some that two of the checks could claim; the theorem covers all 18,432 shapes.
Deadlock is checked in every run but the two of `LockfileSync`, where a merged
pull request stops; `Terminated` in `Lifespan` stutters when the
process is over and nothing else is.

### Fairness, and why the code justifies it

- Lifespan: weak fairness of the coroutine's own steps (the event loop resumes
  what can run, `aclose()` ends one way or another), of the host's resumption
  after a drained graceful stop, and of each request's steps up to its call.
  None for arrivals, signals or cancellations, and none for the end of a call:
  sending has no timeout (`write=None`, OC 47), and `__main__.py` gives uvicorn
  no limit to its graceful shutdown, so that a call which Ollama does not read
  holds up the stop for ever. `StopCompletes` and `RequestsFinish` except just
  that (`HangsInCall`); `ollama_wedged` is the run that shows such a call.
- OllamaChat: weak fairness of the pool's grant and of each timeout that
  `DEFAULT_TIMEOUT` sets (pool, connect, read), of noticing a closed
  connection, and, only if `DaemonReads`, of the end of the sending of the body.
  None for answers: `EveryCallEnds` holds with an Ollama that never
  answers. The read timeout is per read; that it bounds the answer rests on
  Ollama sending its one-object answer in one go.
- LockfileSync: weak fairness of what GitHub Actions do by themselves
  (delivering events, the steps of a run, CI), of GitHub's merge, and of the
  maintainer that follows the runbook: a branch that is behind is updated, in
  either way, and a switch that is off is switched on again. None for `Rearm`:
  the runbook stops at the variable (`docs/automerge.md` 228). None for rebases,
  moves of main and flips, of which there are finitely many; with main moving
  for ever no branch is ever up to date.
- RequestPipeline and ErrorContracts have safety properties only.

## What is proved

The following hold for every value of the constants, under the assumptions
named in the modules that declare them.

| Theorem | Property | Assumes |
|---|---|---|
| `TypeCorrect` | Lifespan `TypeOK` | |
| `ClientNeverLeaks` | `NoManagedLeak` | |
| `VerdictNeverMisleads` | `VerdictIsRight` | |
| `DrainHidesTeardown` | `GracefulStopIsInvisible` | |
| `ContextDropsFirst` | `NoTornDownContext` | `~LogFaults` |
| `ShutdownIsBracketed` | `ShutdownBracketed` | `~LogFaults` |
| `BodyErrorSurvivesClose` | `BodyErrorPreserved` | `~LogFaults` |
| `LifespanKeepsScope` | `ScopeContract` | `~LogFaults` |
| `AnnouncedStopDropsFirst` | `NoTornDownContext`, once the shutdown was announced | |
| `OnlyAFailedCloseBelies` | `CompletedMeansClean`, if the close did not fail | `~LogFaults` |
| `QuietExitIsClean` | a lifespan that ends without an exception took every step of the teardown | |
| `PipeInvariant` | (the inductive invariant) | |
| `PipeTypes` | RequestPipeline `TypeOK` | |
| `OneIdPerRequest` | `OneRequestId`, with its exception for an overwritten id | |
| `AccessLineTellsWire` | `AccessTellsWire` | |
| `CodesAreFresh` | `NoStaleErrorCode` | |
| `CodesAreCorrelated` | `CodeIsCorrelated` | |
| `RequestsAreLogged` | `NoSilentRequest` | |
| `CancelsAreNotErrors` | `CancelIsNotServerError` | |
| `ErrorsAreAnswered` | `EveryErrorIsAnswered` | |
| `OnlyOversizeStarIsMisfiled` | `RaisedBeforeStartIs5xx`, but for an oversize `OPTIONS *` | |
| `OnlyTheCatchAllIsLate` | `ErrorCodeOnAccessLine`, but for what only the catch-all took | |
| `ChatInvariant` | (the inductive invariant) | `Calls` finite |
| `ChatTypes` | OllamaChat `TypeOK` | `Calls` finite |
| `OneCallOnTheWire` | `OneInFlight` | `Calls` finite |
| `PoolStaysExact` | `PoolIsExact` | `Calls` finite |
| `EveryCallIsAccounted` | `OneTerminalLine` | `Calls` finite |
| `CategoryIsTelling` | `CategoryTellsCause` | `Calls` finite |
| `AnswersAreJudged` | `AnswerIsJudged` | `Calls` finite |
| `ClientKeepsSlot` | OllamaChat `SlotContract` | `Calls` finite |
| `ClosedPoolOnlyDrains` | after a close, what moves the pool empties it | `Calls` finite |
| `GenInvariant` | (the inductive invariant) | |
| `GenTypes` | ErrorContracts `TypeOK` | |
| `ImportsNeverDangle` | `NoDanglingImport` | |
| `WholeRunsRepair` | `RegistryTellsTruth` | |
| `HandwrittenIsSpared` | `HandwrittenSurvives` | |
| `DriftChecksAreExact` | `DriftCheckIsExact` | |
| `GeneratingIsReproducible` | the modules a whole run leaves are a function of `errors.yaml`; the rest is as the run found it | |
| `SyncInvariant` | (the inductive invariant) | |
| `SyncTypes` | LockfileSync `TypeOK` | |
| `MergesAreInStep` | `MergedInStep` | |
| `SkipsAreSafe` | `SkipIsSafe`, with its exception for a replayed commit | |
| `HeadStaysAttended` | `HeadIsAttended` | |
| `NobodyWaitsInVain` | `NeverStranded`, with its two exceptions | |
| `WorkflowNeverAnswersItself` | a lockfile commit answers a commit of somebody else's | |
| `LeasePreventsClobber` | `NoClobber` | |

`~LogFaults` is needed: the log call that announces the shutdown (MAIN 275) is
not suppressed, and one that raises skips the withdrawal of the context. It is
the only one to do so: once the announcement is logged, no log call that raises
can leave a torn-down context up (`AnnouncedStopDropsFirst`).

The argument for Lifespan: none of the properties is inductive, because the
code keeps its place in the program counter and its facts in locals that agree
with it. `LifespanInv` says how `client`, `context` and `entered_yield` go with
the place (`ClientPlace`, `ContextPlace`, `YieldPlace`); over it,
`VerdictPlace`, `BracketPlace` and `RaisedPlace` are inductive for what is
logged and what propagates, and `DrainedPlace` for what requests see.
`AnnouncedPlace` and `QuietPlace` need no assumption on log calls: the
announcement goes with the drop of the context, and no step of the teardown
loses an exception. `CleanPlace` says that only the close can make an exception
of a clean yield. The
refinement maps each step to a step of `ResourceScope` or a stutter, from the
invariant in both states.

The argument for OllamaChat: `SlotInv` makes the holders the calls on the wire
and says that at most one of their connections is alive. It is kept because
with room in the pool every holder is severed (`RoomMeansFree`). `QueueInv`
makes the queue the waiting calls, each once; the lemmas about `RemoveAt`,
`Tail` and `Append` on sequences without repetitions carry it. `LogInv` ties a
call's lines to its place and cause.

`SlotContract` is proved step by step over these: a step of `Chat` is an
`Arrive` that gets the slot exactly when it is free and nobody waits
(`RoomIsTheFreeSlot`; the call is new, so it is not among the severed), `Grant`
is an `Admit`, a call leaving the pool is a `GiveUp`, a `Finish` or, if its
connection was cut, a stutter. `ClosedPoolOnlyDrains` is what a proof of
`CloseDrains` would rest on: with `Load` twice the length of the queue plus the
number of holders, every step after a close that changes the pool lowers it,
since a grant moves one call from the queue to the holders and `Chat` is shut.
That some such step happens is fairness, and stays with TLC.

`ReplyInv` ties a call's reply to its end and its cause. Only `Answer` sets a
reply, and a call under way has none (`UnansweredStep`); that `Verdict` accepts
exactly the whole answers is `VerdictIsWholeness`.

The argument for RequestPipeline: what the access line may say is settled in
the `finally` of the middleware, from `captured_status`, the exception and the
context, while the response may still change after it. `StageInv` says what
these hold at each place, `IdInv` whose id scope and context carry,
`ResponseInv` what a handler has built, `WireInv` what the consumer has got of
it, and `LineInv` what the line was written from. The one case in which line
and wire part, the oversize `OPTIONS *`, is a disjunct of `StageInv` of its own.
Two more invariants over these bound what departs from the comments: an
exception under the middleware is not over before the catch-all has tried to
answer it (`ApologyTried`), and a code bound before the line is written is on it
(`CodedInv`).

The argument for ErrorContracts: that package and registry may be written, and
that orphans may go, rests on how far the run has come. `WritingInv` says that
the modules of all entries before `at` are there as rendered, and the params
before the error that imports them; `RepairedInv` that all are once the run
cleans up. A write keeps what was written before it because the entries'
classes differ (`FilesDiffer`), and while a run is under way the old package
and registry lose none of their modules, since nothing is removed before both
are rewritten. `BeforeInv` compares the package with what the run found: every
write is to a file the run keeps (`TargetIsKept`), so that of the others it has
at most removed some, and only such as start like its own; when it is done none
of these is left. `HandwrittenIsSpared` follows from the first half,
`DriftChecksAreExact` from both and from what `RepairedInv` says of the files
that are kept (`KeptIsGenerated`). `GeneratingIsReproducible` says what else can
be there after a whole run: files the run found which do not start like its own,
somebody's modules or the empty ones of a crash.

The argument for LockfileSync: `EventsSound` says that the last event under way
is that of the head, and with none under way the head's has been handled;
`RunsSound` that a run that may push has checked out a commit no older than its
event's head. A lease that holds then makes event, checkout and branch one
commit (`LeaseMeansHead`). `CommitsSound` says that a green commit that
contains the current main is in step: CI checks the commit itself then, and
else a merge that may come out either way.

`NeverStranded` is not inductive: that a pull request at rest can be merged
rests on what was settled when its last event was handled. `Settled` has the
three parts: auto-merge is armed or about to be, if the switch is on
(`ArmingSettled`); CI runs for the head or has passed a head in step that has
main's history (`ChecksSettled`); and a run for the head that is over found it
in step, or gave up on a branch behind main (`RunsSettled`). A push reopens all
three at once, since it is an event. With no event left there is a run for the
head (`EventsSound`), and the three leave nothing to wait for
(`SettledMeansMoving`), unless the switch was set on an unarmed pull request or
the run for the head was skipped on a replayed lockfile that is wrong. It is the
fairness-free part of `EventuallyMerged`.

`WorkflowNeverAnswersItself` is the loop guard seen from its effect: what the
workflow pushed is in step (`CommitsSound`), so no run commits on top of it,
whichever run of whichever group gets there.

Checked by TLC only: liveness (`StopCompletes`, `RequestsFinish`,
`EveryCallEnds`, `CloseDrains`, `EventuallyMerged`), which is beyond TLAPS
here; of the last two the part that needs no fairness is proved
(`ClosedPoolOnlyDrains`, `NobodyWaitsInVain`).

## Where the code and its words part

Each is a violation run; `PROJECT.json` quotes the lines. For 1 (with working
logs), 2 and 3 a theorem says that what is described here is the only exception,
and that the words hold of every other behaviour (`OnlyAFailedCloseBelies`,
`OnlyTheCatchAllIsLate`, `OnlyOversizeStarIsMisfiled`).

1. `lifespan_completed`: `app_shutdown_completed` with reason `clean` is logged
   also when closing the client failed (MAIN 209-219 against 387).
2. `pipeline_error_code`: the access line of an unhandled exception has no
   `error_code`: the catch-all binds it after the line (EH 3-8 against 1003).
3. `pipeline_oversize`: an oversize `OPTIONS *` is answered 500 and logged 413
   (MW 111-114 against 421).
4. `ollama_wedged`: `write=None` lets a daemon that stops reading hold the slot
   for ever (OC 35-37 against 47).
5. `contracts_self`: a param named `self` passes the check that is there to
   keep the generated `__init__` valid (GEN 341-343 against 360), and so does
   `__debug__`, which Python lets nobody bind. `super` passes and hides the
   builtin that `__init__` calls (GEN 678-690); `model_config` and `_leading`
   pass and are no fields to pydantic. These five are in the run; other
   attributes of `BaseModel` are not told apart from them.
6. `lockfile_killswitch`: the emergency disable is said to hold from the next
   event on, and that pull requests then sit open (AM 12, `docs/automerge.md`
   226); a pull request armed before it is merged all the same (AM 116), since
   a skipped job disarms nothing.

Seen on the way, and without a run of their own. In the backend:

- The one log call in the shutdown path that is not suppressed (MAIN 275) skips
  the `delattr` if it raises, and a stray request gets the torn-down state that
  MAIN 287-291 rules out.
- A graceful stop waits for the calls in flight without a limit (`__main__.py`),
  and sending one has none (OC 47).
- With `request.state.request_id` overwritten under a present middleware, by
  garbage or by another UUID (which EH 180 accepts), the body of an error carries
  another id than its header, which EH 246-248 speaks of keeping correlated.
  `OneRequestId` has this as its exception.
- The access line of a 413 has no `error_code`; a 404 on `OPTIONS *` is answered
  500 while its `error_code` is `NOT_FOUND`, because building the body falls
  back.
- A call still queued when the client is closed may dial a new connection that
  nobody closes, which ends with the process.
- `core/logging.py` 85-87 calls `ascii_safe` stricter than it is.

In the generator:

- A module that a crash left truncated has no sentinel, so once its code is
  removed no run cleans it up, though GEN 805-806 says orphans are; the drift
  check would report it as untracked, and once it is checked in no longer.
- A module written by hand is overwritten if a code wants its name, and removed
  if it starts like a generated one; the guard (GEN 945-955) knows no more of it
  than its first line.
- A code DOMAIN or DOMAIN_ERROR would derive the name of the base class, whose
  import in `_registry.py` then shadows it.
- `docs/bootstrap-decisions.md` 83-84 has the `git diff` of `check:errors`
  compare with `HEAD`; without an argument it compares with the index.

In the workflows:

- A head updated by rebase (`docs/automerge.md` 164 and 240 speak of it) keeps
  the lockfile commit last on a new base, and the loop guard then skips a run
  that may be needed, against SYNC 22-32: CI stays red and the pull request
  waits (`StaleReplay`).
- To re-enable auto-merge the runbook has the variable set and nothing else
  (`docs/automerge.md` 228, AM 15-17); the workflow's own comment (AM 49-56)
  knows that open pull requests then need a commit each. Without it they wait
  (`Unarmed`).
- SYNC 10-13 and 264-266 and `docs/automerge.md` 269 say that a stale lockfile
  does not break CI and can land on main; since CI runs `task check:lockfile`
  (`ci.yml` 108-110) it fails there.
- On a branch that is merely behind main the sync run fails, since the event's
  base is not in what was fetched. The check meant to say so (SYNC 211-214) does
  not: `git rev-parse --verify` accepts any full hash, and it is `git diff` that
  fails, with the same outcome.
- A pull request that touches only lockfiles, and whose lockfiles a merge with
  main puts out of step, is not repaired, since no manifest of it changed
  (SYNC 243-245).

## What is not modelled, and why

Field validation, redaction, previews, header hygiene, the wording and capping
of `validation_errors`, the renaming of parameters, the finish reason and the
tool-call warnings: pure data functions whose outcome no control depends on. A
body nested so deep that `json` raises RecursionError is left out. Settings are
validated once, field by field, before anything runs; logging and the routers
are set up once. The other steps of CI, launchd and the Taskfile configure
external programs. The planned features have no code. KeyboardInterrupt and
SystemExit inside `chat()` are left out: the process is dying and the code
promises no line for them. Times are abstract: a timeout strikes at any moment
of its stage.

## Plan

Done, in this order: ResourceScope, Lifespan and its proofs; RequestPipeline;
OllamaChat and its proofs; ErrorContracts; LockfileSync and its proofs;
OllamaTranslation, composed into OllamaChat; the proofs of RequestPipeline and
of ErrorContracts; InFlightSlot and the proof that OllamaChat implements it;
`NeverStranded`, and the safety parts of two of the liveness properties. What would come next:

1. `Service`: Lifespan and OllamaChat composed, so that a request's call holds
   the real slot during a teardown. Today `Lifespan` abstracts the pool to "the
   call ends or is aborted", which is what `OllamaChat` shows of a close.
2. `LockfileSync` with closing and reopening, and with `uv lock` failing.
3. The semaphore, queue and endpoint, once they have code.

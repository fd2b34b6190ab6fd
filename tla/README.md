# Verification of Invokta

TLA+ models of the Invokta runtime (`src/packages/*`), the TLC configurations
that model-check them on small instances, and TLAPS proofs of what matters most
for every instance.

Invokta turns a map of *capabilities* (a schema-checked input and output, an
access rule, a `run` handler) into an *engine*. Every adapter (CLI, MCP over
stdio and HTTP, plain HTTP, a direct call) reaches a capability through
`engine.invoke`. Around the engine, the repository ships an installer that
writes MCP client configuration files, an OpenTelemetry event handler, a JWT
authenticator, a devtools server, and code generators.

## 1. Inventory

| Part | State it keeps | Operations | Hard behaviour |
| --- | --- | --- | --- |
| core: `engine.invoke` (`packages/core/src/engine.ts`) | per call: stage, signal wrapper, timer, listeners, progress reporter; per engine: deprecations already logged | invoke, reportProgress, abort, timeout, emit | abort and timer against every await; detached handlers; one terminal event |
| core: middleware (`middleware.ts`) | per layer: `started`, `settled` | dispatch, next | re-entrant and late `next()`; detached layers; abort |
| core: domain errors (`capability-error.ts`) | declarations, raised errors | resolveDomainError | details validation raced with cancellation |
| core: composition (`composition.ts`) | provenance marks | importCapability, composeCapabilities | collisions, all-or-nothing |
| installer: locks (`installer-lock.ts`) | a lock file per resource | acquire, retry, release | several processes; crash between two locks; partial acquisition |
| installer: mutation (`mutation-coordinator.ts`) | a configuration file per target, one state file | install, enable, disable, remove | two-file commit, rollback, crash, foreign edits |
| installer: ownership (`ownership-planner.ts`, `installer-state-transition.ts`) | managed entries | inspect, plan, apply | drift, conflicts, upgrades |
| installer: paths (`path-identity.ts`, `node-file-system.ts`) | none (file identities) | capture, recapture, atomicReplace | changes between check and use |
| otel (`packages/otel/src/event-handler.ts`) | pending and detached spans, both bounded | onStarted, onTerminal, contextFor | reused request IDs, eviction |
| mcp: progress forwarding (`packages/mcp/src/progress.ts`) | one held report, one write, a timer | report, retry, finish, close | slow reader; finish against a write |
| mcp: HTTP boundary (`http-protocol.ts`, `http.ts`, `web.ts`) | per request: signals, protocol server, relay of one chunk | dispatch, relay, settle, close | a reader that stalls or goes away at any await; two aborts for one call |
| mcp: client (`client.ts`) | a remote session | connect, call, close | transport failures |
| auth-jwt (`authenticator.ts`) | cached key set, failure cooldown | authenticate | key rotation, unavailable provider |
| http (`packages/http/src/handler.ts`) | none | handle | order of checks |
| devtools: attached session (`attached-session.ts`) | one slot, OAuth state, activity log | connect, call, disconnect, close | two ways to clear the slot |
| devtools: watch mode (`watch.ts`) | child process, build cycle | schedule, runCycle, close | edits during a build; crash of the child |
| devtools: trace store (`trace-store.ts`) | ring buffer | append, list | wrap-around |
| tooling: contract diff (`packages/tooling/src/contract-diff.ts`, `contract.ts`) | none; the baseline file is its history | diffContractSnapshots, exit code | keywords that interact; spellings of null; releases that add up |
| cli, tooling (the rest), deploy, create-* | none that outlives a command | commands, generators | pure transformations and I/O |

How they interact: an adapter calls `engine.invoke` with a signal, a principal
and a progress callback; the engine calls back into user code (validators,
access rules, `run`, `onEvent`, `onProgress`) and awaits what it returns. A
middleware chain is the `run` of a wrapped capability. The MCP server passes
`ProgressForwarder.report` as `onProgress`; the OpenTelemetry handler is an
`onEvent` hook and learns of an invocation only through its request ID. The
installer is a separate program: any number of its processes share state files
and client configurations through the file system, with lock files between
them and none between them and the clients.

What makes each part correct:

- *Pipeline*: no handler runs without access; one outcome, with a cause; an
  abort decides every race that starts after it; every timer and listener is
  released on every exit; an abort or a deadline settles a call whose handler
  never does.
- *Middleware*: a layer runs at most once, inside the layer that started it, and
  no answer is published while one runs, unless the call was cancelled.
- *Installer*: what another program wrote is not overwritten; record and
  definition agree except after an edit, a crash or a failed rollback; no update
  is lost between processes; every acquisition of a lock ends.
- *Event handler*: bounded memory, and no invocation gets another one's outcome,
  span or source.
- *Progress and its HTTP boundary*: bounded rate and backlog, whatever the client
  does; the newest report arrives before the result; nothing of a request
  outlives its connection.
- *Contract diff*: what the command lets through breaks no caller and no consumer,
  by the meaning of JSON Schema and not by the code's own.
- *Attached session*: one slot, that no late answer enters, that a peer that never
  answers cannot keep, and whose two ways of closing do not disturb the next
  attempt.
- *Watch mode*: one host at a time, no change missed, a running host kept until a
  build has succeeded, nothing started after `close()`.

## 2. Modules

```
InvocationContract <== Invocation ==+== MCInvocation
                                    |
MiddlewareChain =========== ChainedInvocation ==+== MCChainedInvocation
                                                +== InvocationProofs

OwnershipPlanner ==+== ManagedInstallation ==+== MCManagedInstallation
   |                            |            +== ManagedInstallationProofs
   |                            |                       |
InstallerLock =====+== InstallerTransaction ==+== InstallerTransactionProofs
   +== MCInstallerLock                        +== MCInstallerTransaction

ProgressForwarder == McpRequest == McpRequestProofs

ContractKeywords == ContractDiff == ContractMeaning
         <== ContractRelease ==+== MCContractRelease
                               +== ContractReleaseProofs

OtelHandler ==+== MCOtelHandler     WatchMode == WatchModeProofs
              +== OtelHandlerProofs     AttachedSession == AttachedSessionProofs
```

**`Invocation`** is `engine.invoke`. JavaScript runs one piece of code at a time,
so a step is the code between two awaits; `pc` is the await a call is suspended
at. At an await a validator, an access rule or the handler may settle, the
caller may abort, the timer may fire, work the handler left behind may report
progress, and the microtask that carries a settled promise to its await may run.
`race` is the promise of `raceWithCancellation`, `handler` the promise of `run`,
`armed` the timer and the listeners `cleanup` has to release, `controller` the
timeout wrapper's signal, `active` the progress reporter. Calls with faulty
options, principals and signals are among the `Requests`. Inputs, errors and
reports are reduced to valid or invalid, a code, a number.
**`InvocationContract`** is what callers and hooks may rely on (checked,
perhaps executed, settled once); `Invocation` implements it
(`ImplementsContract`).

**`MiddlewareChain`** is `createChain` of `middleware.ts`: `layer[k]` says how
far layer `k` is, `claimed`, `refused` and `result` are its `started` flag, the
`next()` the signal refused, and what it settled with. Middleware code may call
`next()` at any time, any number of times, and settle before or after the layer
below. **`ChainedInvocation`** makes the chain the `run` of an invocation: the
chain's promise is the handler's promise, and `aborted`, the `context.signal` of the
layers, follows the signal of the pipeline; every other step of the pipeline
interleaves with the chain.

**`OwnershipPlanner`** holds the pure decisions of `ownership-planner.ts` and
`installer-state-transition.ts`: `Status` classifies a record against the
definition found, `Blocked`, `Unchanged` and `Writes` are the plan,
`PostDefinition` and `PostRecord` what it leads to. A definition is absent or a
text with a toggle; the strategy is `"native"` (the client has a toggle) or
`"detached"` (a disabled definition is kept in the record only).
**`ManagedInstallation`** performs them atomically for one entry while the
client rewrites its file at will: it is the abstract specification of a
transaction.

**`InstallerLock`** is `acquireInstallerLocks` and `release`: one action per file
operation, with every failure, the waits of the retry loop, cancellation, death
of a process and the operator who removes what it left. `stage[p]` is the place
in the code. **`InstallerTransaction`** extends it with `mutateTarget` between
the locks: load the state, read the configuration, plan, replace the
configuration, replace the state, or roll back. `tx[p]` are the local variables;
`tx[p].fresh` says whether the file that was captured is still the file at that
path, which is what `path-identity.ts` compares. Clients edit in place (the
identity stays) or by a rename (it changes). `disturbed` is a history variable:
the definitions an edit, a crash between the renames or a failed rollback
touched. `Errors` are the codes the work may end with.

**`OtelHandler`** is `createOpenTelemetryEventHandler`: `pending` and `detached`
are its two insertion-ordered maps, each event one step. `span`, `measured` and
`dropped` are history variables: how a span ended, the source put on metrics,
and the request IDs whose count was given up.

**`ProgressForwarder`** is `createProgressForwarder` as the `tools/call` handler
uses it. Time is counted in ticks; `since` and `timer` are the age of
`lastSentAt` and the delay of the timer that is set. It serves any reader.
**`McpRequest`** extends it with the reader it has in the product: one `tools/call`
over HTTP, from the connection to the end of the response, for the Node listener
and for a Fetch runtime. `stage` is the await the request is suspended at,
`source` and `chunks` are the SDK's event stream (which queues without limit),
`relay` and `settled` the stream of `relayProgressStream`, `aborted` the signal
the call runs under, `written` what the client's response has taken. What the
network, the clock and the authenticator do finds the microtasks of the event
before it done (`Quiet`); the capability may go on between them.

**`ContractKeywords`** and **`ContractDiff`** are the comparison of two contract
snapshots: a schema is a function from its keywords to their values, a change a
code and a severity. A schema may hold schemas; what the comparison says of those
is the constant `Compared`, which the model sets to `CompareSchema` itself, so
that one level of the comparison can be reasoned about without RECURSIVE
operators. **`ContractMeaning`** gives schemas the meaning JSON Schema gives them
(`Accepts`, written from the standard's meaning of the keywords and not from the
code) and says what callers are taken to send (`Sends`); `Accepted` and `Sent` are
to these what `Compared` is to `CompareSchema`. **`ContractRelease`** lets an
engine release one contract after another through `contract diff
--fail-on-potentially-breaking`. Its `ContractAssumption` says what a family of
contracts has to be: schemas of the JSON Schema vocabulary (`WellFormed`), nested
finitely deep (`Height`), closed under what is inside them and under taking null out
of them (`Kinds`), none of them equal to the marks `Undefined` and `Invalid`, with
the three constants meaning what their operators do (`RecursionAssumption`). TLC
evaluates it on every family of the run.

**`AttachedSession`** is `createAttachedSessionController`. Events (requests of a
browser, answers of the peer, timers, the end of a close) each put continuations
into `jobs`, the microtask queue, and `RunJob` runs them in order; `waiters` are
the awaits on a close that is under way, in their order, because which
of two closers clears the slot first is what the properties are about.
`slot[s]` is the `ActiveSlot` of the attempt `s`.

**`WatchMode`** is `startWatchMode`. `cycle` is what `runCycle` awaits, `dirty` its
request for another round, `host[h]` a child process with the signal it was sent
and the report the parent has or has not read. `events` holds the classes of files
that `handleWatchEvent` tells apart: heeded, ignored, beside the module, and an
event with no file name, which is always heeded. The developer and a build may
both cause any event that is heeded. `pending` and `fresh` are history
variables: a change no build has begun after, a build no host has been started
after.

`PROJECT.json` maps each definition to the lines it translates. Definitions
whose comment begins with "Mutant of" are not part of the model: each is a
plausible bug in the definition that follows it, and TLC finds the property named
beside it in `PROJECT.json` violated when it takes that definition's place.

## 3. Runs

| Run | Instance | Question |
| --- | --- | --- |
| `invocation_one` | one call; every request; three capabilities (public, authenticated, function rule), two with a timeout | Does the pipeline keep its promises to callers, whatever settles, fails, aborts or expires at each await? |
| `chain_nesting` | three middleware and the handler | Do layers nest, start once, and never wait for ever? |
| `wrapped_call` | two middleware in an invocation, with and without timeout | Is anything answered while a layer runs? Does the invocation disturb the chain? |
| `lifecycle` | one entry, two versions, two names, detached strategy | What may any order of actions and client edits do to definition and record? |
| `lock_contention` | three processes, two state files, one configuration, budget of two waits | Exclusion, no leaks, cancellation, and an end to every acquisition |
| `transaction_entries` | two processes, one state file, two configurations of one client, two entries | Lost updates of the state; is a transaction one step of `ManagedInstallation`? |
| `transaction_homes` | two processes with state files of their own, one configuration, one client edit | Lost updates of the configuration; agreement of the files; rollback |
| `otel_spans` | four invocations, three request IDs, two sources, one entry per map | Attribution, counts and bounds of the event handler |
| `mcp_request` | one call with or without a token, under either host; four reports, an interval of two ticks | What piles up, what arrives and in which order, and whether a client that stalls or leaves leaves something behind |
| `contract_releases` | eight families of schemas as input and as output, error details, other fields, engines; nearly sixty JSON values | Is every chain of releases the command lets through compatible for callers and consumers? Does a respelled null change a contract? |
| `attached_session` | two browser sessions, two attempts | Late answers, leaks, two closes of one slot, a peer that never answers |
| `watch_mode` | two process identifiers, three source changes, any number of build outputs | One host, no missed change, when the watcher comes to rest, a failed build, `close()` at any point |

Where a document and the code disagree, the properties say what the code does,
and the difference is recorded here:

- `docs/architecture.md:156-158` and `core.mdx:668` say that no layer outlives the
  invocation. A cancelled or timed-out call settles at once, and layers that
  ignore the signal run on (ADR 0051 states the exception). `CompletesAfterChain`
  is about the calls that were not cut short.
- `installer.mdx:247-248` says that an entry changed outside the installer is never
  overwritten automatically. An edit made in place between the read and the rename
  is: only the identity of the file is compared (`FilesAgree` excepts entries in
  `disturbed`).
- `installer.mdx:248` says that a different server using the same name is a
  conflict. With a client that has no toggle, a second entry installs under the
  name of a suspended one, which is drifted from then on.
- `contract-evolution.mdx:202` says that a change that cannot be decided is never
  guessed compatible. In an open output object that requires a property without
  naming it, naming that property as optional drops the guarantee, and the
  comparison reports no breaking change: an added property is not told whether it
  was required before (`contract-diff.ts:732`). Zod names what it requires, and the
  families of `contract_releases` do too. The command also takes callers not to
  have sent a property that was not named before (`contract-evolution.mdx:219`),
  which `Sends` states of the objects inside a value as well.
- The comment at `attached-session.ts:654-655` says that the newest records survive
  the slot, so that the idle state can show what happened before a disconnect or a
  failure. A disconnect while the close of a failed call is pending clears the slot
  twice, and the second clear replaces the records kept for the owner by the
  disconnect alone; after an expiry they are dropped, and after `rejectOAuth` the
  last validation failure is. `OnlyTheLastSpeaks` is what holds: no clear touches
  another attempt.
- The comment at `watch.ts:106-109` says that ignoring the module's own file covers
  the two cases in which the files beside it are not ignored: a module at the
  root of the working directory, and one outside it. It covers that file only.
  There, any other output of a build that no pattern excludes schedules a cycle
  (`watch.ts:353-361`), as does an output anywhere else that nothing excludes, and an
  event without a file name (`:332`), whatever caused it. Each build can then set
  off the next one for ever. `CatchesUp` says what holds: no change is missed even
  then, and the watcher comes to rest if from some time on builds write ignored
  files only.

Two smaller disagreements, both a few microtasks wide, show when the models are
read: the progress reporter is closed when the await on the race continues, not
when `run` settles as ADR 0043 says, and a middleware counts as settled when its
`finally` block runs, not when its promise settles as `core.mdx` says. A report
or a `next()` from a microtask in between is still accepted. `OrderedProgress`
and `NestedLifetimes` hold all the same.

### Bounds, and why they are enough

- *One call in `invocation_one`.* Calls share only the engine's set of
  deprecations already logged and the caller's signal; an abort is an action of
  the environment. The proofs (section 5) are for any number of calls.
- *Two or three middleware.* A layer sees the layer above and the layer below; a
  layer with both needs three. The proofs are for any number.
- *Three processes, two state files, one configuration.* All three conflicts
  between two processes occur: the same state file, the same configuration under
  different state files, and both, with a third process to take what is
  released. `Budget = 2` with waits of 1 and 2 gives retries, a wait cut to what
  is left, and a last attempt after the budget is gone. In the transaction runs
  the budget is 0: how long a process waits for a lock has no bearing on what it
  does between its locks, which `FollowsTheLocks` makes precise.
- *Two entries in two configurations* allow duplicates, identity mismatches and
  an entry that moves. *One edit* suffices to break an identity or a definition;
  `edits` bounds them in the guard of `Edit` (`MaxEdits`).
- *One entry per map, three request IDs* let the event handler evict a span, then
  the count it left behind; four invocations overlap under one ID after that.
- *Four reports, two ticks* cover a report on its way before there is a relay, one
  queued, one in the relay, one held and one that replaces it, timers shorter
  than the interval, and a second round. The proofs are for any number of both.
- *The families of schemas* each take the keywords that one piece of the
  comparison looks at together, with values on both sides of every bound; numbers
  go in halves, so that `exclusiveMinimum` differs from `minimum` and an integer
  from a number. Releases stay in a family: keywords of different families are
  compared independently of each other, but for the types and the null that
  `Enumerations`, `Nullables` and `Counted` combine. `Deep` nests objects in objects,
  arrays and nullable anyOfs. The proofs are for schemas of any depth.
- *Two attempts of two owners*: a slot has at most one successor before it is
  clear, and what is retained has one owner at a time. One catalog page.
- *Two process identifiers, three changes*: a host that is replaced and its
  successor; a change during the build, one during the restart, and one after.
  What a build writes is not bounded. `ModuleDirectoryInsideCwd` is `FALSE`: files
  beside the module are heeded then, and were it `TRUE` they would only be ignored
  files of another name. The proofs are for both.
- `MaxReports`, `MaxProgress`, `MaxEdits`, `MaxSlots`, `MaxChanges` and `Budget` are
  all the bounds on counters there are, each in the guard of the action it stops.

`transaction_entries` and `transaction_homes` identify states by the view
`Relevant`, which leaves out `target`, `failure` and `committed` of an idle
process: `Begin` sets all three before anything reads them, and no property
speaks of them for an idle process. `transaction_entries` and `otel_spans` use
symmetry under which every constant and property is invariant, and check no
liveness. `CHECK_DEADLOCK FALSE` stands where the system really stops: a settled
invocation or chain, a request that is over, all invocations terminated, a
contract nothing follows, attempts used up, a closed watcher.

## 4. Fairness

- `Invocation`: microtasks run and an armed timer fires. Nothing makes a
  validator, a rule or a handler settle, and nothing makes a caller abort.
- `MiddlewareChain`: continuations run, and the code of each layer settles
  (`ChainSettles` asks whether the chain adds a deadlock of its own).
- `InstallerLock`: a living process takes its next step and the work between the
  locks ends. A failing file operation is never counted on (`Proceeds`), nor is
  the operator.
- `McpRequest`: microtasks and due timers run, time passes, a call that is aborted
  fails (which is `CallsSettle` of `Invocation`), and a client that has to read
  before more is written reads or goes away. Nothing makes an authenticator, a
  body or a capability end, and nothing makes a client stay.
- `AttachedSession`: microtasks and timers run, a call that was begun ends or its
  deadline passes, and the `close()` of a client settles, well or not. The peer
  never has to answer.
- `WatchMode`: timers fire, each file event is delivered, a build ends, a host that
  loads reports or exits, and `SIGKILL` ends a process. The code has no deadline
  for a build or for a host that loads: if either hangs, watching does.
- A held report goes out (`HeldGoesOut`) because of that client and those timers:
  nothing is assumed of `canSend`. A timer is taken to fire no earlier than its
  delay.

## 5. Proofs

Every theorem holds for all values of the constants under the named assumptions
of the modules (which TLC evaluates in the runs).

- `InvocationProofs`: types, `AuthorizedBeforeExecution`, `AbortDecidesRace`,
  `ResourcesBelongToStage`, `OutcomeHasCause`, `OrderedProgress` and the
  refinement of `InvocationContract`. The inductive invariant is `TypeOK` and
  `Good(i)` for each call: what the stage of a call says about its request,
  verdict, handler, race, resources and outcome. The single properties are not
  inductive: that a resumption may publish `"completed"` depends on what the race
  settled to two steps before.
  The same module proves `ChainedInvocation`: every step of a wrapped call is a
  step of `MiddlewareChain` or leaves the chain alone (`ChainRefinement`), and
  `CompletesAfterChain` and `StartsWithinInvocation` follow from both invariants
  once it is known that the handler's promise is the chain's and the signal of the
  layers the one the pipeline obeys (`SignalIsShared`).
  Of `MiddlewareChain` alone: types, `NestedLifetimes` and `OrderlyStarts`. The
  invariant adds that only `next()` starts a layer and that nothing lies below an
  idle one.
- `ManagedInstallationProofs`: the planner's lemmas by case analysis over statuses
  and actions, for both strategies, and from them all properties of the
  `lifecycle` run. `InstallerTransactionProofs` cites the lemmas through an instance
  (`Planner`).
- `InstallerTransactionProofs`: `LockInv`, that each process owns exactly the locks
  of its stage, from which exclusion follows: a lock file has one owner.
  `FollowsTheLocks` shows that transactions behave as the locks do when everything
  else is hidden, so exclusion carries over. `TxInv` then says of each process
  what its step remembers of the two files; a step of another process cannot
  disturb it because a rename needs the lock. It gives types, `StateIsCurrent`,
  `ConfigIsCurrent` and `FailureUndoes`.

  `FilesAgree` and `AtomicTransactions` compare a record with a definition while
  other processes are at work, so the proof first says what is to be seen of a
  definition (`Seen`): what the file shows, or what a process between its renames
  has read. `Remembering` is what such a process still finds there although clients
  edit, and from it every step but a commit leaves what is seen as it is, unless it
  adds to `disturbed`. `RecordsAgree` says that a kept record is true to the
  definition seen, was asked for by a job, and is the only one of its name.
  `TransactionsAreAtomic` maps a commit to the action it performs, a crash or a
  failed rollback between the renames to an edit by the client, and every other
  step to a stutter. Its hypothesis is `[](edits = 0)`, because a real edit between
  a read and a rename is lost (section 3).

  `FilesAgreeAlways` is proved for clients with a toggle, and for clients without
  one if a name belongs to one entry and there is one state file (`NamesApart`).
  Without it the property is false: the definition of a suspended entry is absent,
  and another entry may be installed under its name (section 3) or the same
  one from another state file (section 6).
- `McpRequestProofs`: `RequestImplementsForwarder`, that the boundary lets its
  forwarder do nothing that a forwarder with some reader would not, so that what
  is proved of the forwarder holds of requests; `BuffersBounded` and
  `NewestArrives`. The latter follows from an invariant of `Flow`, the chunks
  written, in the relay and queued, one after the other (`Rising`, `Known`, `Whole`),
  which a step leaves alone, appends to, or cuts back to what was written. The relay's
  gate looks only at the relay, not at the SDK's queue before it, so the bound
  rests on time: `Fresh` says that a chunk that has not reached the relay was sent
  in the current tick, and the forwarder sends once in an interval.
  Of the forwarder itself: types with the bound on the backlog, `LatestKept` and
  `SpacedSends`. The key is that a timer that is set never fires before an
  interval has passed since the last notification (`Throttled`): `retry` does not
  look at the clock.
- `OtelHandlerProofs`: the five properties of the handler that speak of its memory,
  by one invariant. The properties speak of request IDs, the code moves entries
  between two maps; in between stands what is known of each ID (`Tracks`): that its
  entry, pending or detached, counts the invocations that run under it, names
  the span of one of them, and is ambiguous if a second one has started. With
  it are inductive that the maps have one entry per ID and never grow beyond their
  capacity (`Shape`), and that an outcome and a source are the invocation's own
  (`OutcomeIsOwn`, `SourceIsOwn`). IDs that a full map dropped are exempt, and of
  them it is known only that nothing is counted too high.
- `WatchModeProofs`: `OneHost`, `KeepsServing`, and that nothing is started after
  `close()` while all that runs has been told to end, which is the safety half of
  `CloseIsFinal`. One host is not inductive: a host is started by the end of a
  build or of another host, and the invariant has to know that by then nothing is
  left of any other process, neither running nor unread (`OthersGone`), that what
  awaits a host awaits one that runs (`Awaited`), and what it has said (`Heard`).
- `AttachedSessionProofs`: types, `NothingLeaks`, `OnlyTheLastSpeaks` and
  `NeverReturns`. The first two speak of the moments between events and are not
  inductive. What is: after each microtask there is, for the last attempt, either one
  answer of the peer on its way, or one end of a call, or the continuations of one
  close, of which one is sure to clear the slot whatever its state is by then
  (`ClearedBy`); every attempt that is not active is `Over`, with nothing owed to the peer or
  to a caller (`OneAtATime`). So a slot cleared twice is cleared for the same
  attempt, since no event comes between the two.
- `ContractReleaseProofs`: `CallersKeepWorking`, `ConsumersKeepWorking` and
  `SpellingIsFree`, for contracts whose schemas are nested to any depth. The center
  is `ComparisonSound`: if `compareSchema` raises no alarm, the wider of the two
  schemas accepts what the narrower one does, which for an input is the next schema
  and for an output the previous one. The scalar keywords are taken one by one
  (`ScalarsKept`: types, values, bounds, counts, multiples, patterns, formats).
  Objects, arrays and nullable views follow if the comparison is sound for the
  schemas inside them; there one has to find, for each property of a value, the
  schemas that govern it before and after, and a comparison that was made between
  them. `Height` then rules out a least deep pair for which it fails. That a
  property a schema requires is one it names is an assumption (`WellFormed`), and the
  code is not sound without it (section 3).

  Consumers are served after any number of releases because promises add up: what
  the last contract returns was accepted by each one before it. Callers are served
  from one release to the next only: what a caller may send is restricted anew with
  every property that is newly named. `SpellingIsFree` needs no induction: both
  spellings have views with the same schema inside, and the comparison of a schema
  with itself reports nothing.

Some theorems state properties that no run repeats: the types of every module,
`OutcomeHasCause` of an invocation, `NoLockAfterCancel` of a lock, `UpdatesKeepToggle`
and `RepeatIsUnchanged` of the planner, `StateIsCurrent` and `ConfigIsCurrent` of a
transaction, `LatestKept` and `SpacedSends` of the forwarder, `NothingStarts` and
`AllTold` of watch mode.

Only model-checked: every liveness property (`CallsSettle`, `ChainSettles`,
`AcquisitionEnds`, `HeldGoesOut`, `RequestSettles`, `SessionsSettle`, `CatchesUp`, and
that hosts end after `CloseIsFinal`), which the provers cannot treat. Every safety
property and action property of a run is stated by a theorem, `CloseIsFinal` by the
two that are its safety half.

## 6. Not modelled, and limits

- Parsing, formatting, schemas, file formats and HTTP are data; the parts that
  consist of them are listed in `PROJECT.json` with the reason.
- `adopt` is an action of the planner that no command reaches: it is left out of
  `Job`. The lock functions accept a signal; the commands pass none.
- Temporary files, owners and modes are left out of a rename. A failing release
  after a commit can report a committed target as failed (`STATE_LOCKED`,
  `CONFIG_LOCKED`): `FilesAgree` speaks of the files, not of the report.
- With two state files and a client that has no toggle, a definition deleted by
  the client can be installed again under another state file, so that two
  records own it. The code cannot know of the other state file.
- Beyond `maxPendingSpans` the event handler gives up counts, and ADR 0050 gives
  up attribution for their IDs; `CountsAreExact` shows that no span is left open
  even then.
- Event handler, forwarder and HTTP boundary are checked without the engine: what
  they receive (a start before an end, increasing reports, the end of a call that
  is aborted) is what `Invocation` promises.
- `McpRequest` answers the checks before the call with one refusal, and leaves to
  Node what becomes of a request whose body was not read. A body and an
  authenticator have no deadline of their own: a request whose client neither
  sends nor leaves stays. The SDK's stream is taken to accept a notification
  within microtasks.
- When the signal has fired by the time `raceWithCancellation` begins
  (`engine.ts:537`), nothing observes the work it was given any more. If that work
  rejects, the process sees an unhandled rejection; the call has settled all the
  same, which is what the model says of it.
- A release of a lock that fails after the commit (`mutation-coordinator.ts:678`) is
  the report spoken of above. A client that moved its configuration is served by
  two transactions (`:378`), between which a crash leaves the entry removed from
  the old file and not yet in the new one.
- When both maps are full the event handler forgets a count
  (`event-handler.ts:292`), and a later start under that ID looks unambiguous.
- `attached-session.ts:652` is the second clear described in section 3. A `close()`
  keeps what is retained when the client's own close fails.
- `WatchMode`: edits between the initial load and the start of the watchers are
  missed, changes that never pause keep the debounce from ending (`watch.ts:311`), the view of a host that failed to start stays that of the one before
  it, a child process that cannot be spawned at all (its `error` event) is not
  modelled, and a build that runs when `close()` is called runs to its end.
- `ContractKeywords` keeps two of the seven documentation keywords (`title` and
  `description`): the comparison treats all seven alike and reports none as breaking.
  `CompareItems` takes `items: null`, which is no schema, as undecidable; the code
  takes it as absent (`contract-diff.ts:865`).
- The larger part of the repository's lines are user interfaces, generators,
  templates, parsers and format adapters: they have no state over which an order
  of steps could go wrong, and no module here.

## 7. Plan

1. `JwksKeySource` (`authenticator.ts:382`): one key set for concurrent requests,
   with a cooldown after a failed fetch and a cache that outlives it.
2. `TraceStore`, the attached CLI sessions, and `Composition` as operators against a
   reference definition.

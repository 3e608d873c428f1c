# Token Saver: TLA+ models and proofs

This directory holds the formal models of the Token Saver plugin for
CLIProxyAPI and of the two updaters that deploy it. TLC checks the models on
small instances; TLAPS proves for every instance the safety properties of all of
them, except those about what a stage makes of the texts of a body.
`PROJECT.json` lists components, runs, the source lines behind every definition,
the hazards the properties are aimed at and the findings.

    tlc -workers 2 -config Generations.cfg Generations
    tlapm GenerationsProofs.tla

(for each configuration `X.cfg` the module is the one of its run in
`PROJECT.json`; each `*Proofs.tla`, and `ProofLemmas.tla`, is checked by itself).

## The system

The plugin is a shared library inside the host process. The host calls it from
many threads; every request body passes through it before it goes to a
provider. Beside it stands deployment tooling that replaces host and plugin
together.

| Component | State | Operations | Interacts with | What is hard |
|---|---|---|---|---|
| `internal/saver/pipeline.go`, service | current generation, pins, retired clients | Reconfigure, acquire/release, HeadroomStatus, HeadroomSnapshot, Close | metrics under its lock, Headroom clients outside it | closing a client once and after its last user while the configuration changes |
| `internal/metrics` | current and previous generation, in-flight map, stage counters | PublishGeneration, Begin and its hook, Record, Snapshot | called by service and management | counts published in other lock sections than the pins |
| `internal/saver/dedupe.go` | table of entries, byte count, sequence | Do | the stages run inside it | single flight, expiry and budgets across two lock sections |
| `internal/headroom/client.go` | breaker, semaphore, last outcome, probe cache | Compress, Probe, CircuitState, LastOutcome | Headroom over loopback HTTP | four locks, none covering two of the fields |
| `internal/abi/envelope.go`, `main.go` | call count, stop flag, lifecycle lock, configuration store | Call, register, reconfigure, management.handle, Shutdown | host threads, service, management | admission against shutdown, two-step publication |
| `internal/abi/buffer.go`, `main.go` | live response pointers | Allocate, Free, the C entry points | host frees late | addresses used again, limits set in three places |
| `internal/saver/pipeline.go`, Normalize | none of its own | the four stages, fail open | dedupe, client, metrics | original body on every error, results shared between requests, accounting |
| `internal/management` | last check, in-flight mark, last self-test | status, check, self-test | runtime lock, service, client | answers put together from several reads |
| `internal/config` | immutable store | Parse, NewStore, Snapshot | runtime, client | safe-off fallback, two validations of one URL |
| `internal/protocol`, `internal/rtk`, `internal/headroom/adapter.go`, `internal/prompt` | none | rewriting of bodies | called by stages | every text back into its place, conversions that lose bytes, idempotence |
| `deploy/vps-reconciler.py`, `deploy/rebuild/*-release.sh` | deployment directories, active, previous and next link, lock file, service | reconcile, stage, activate, rollback | systemd, GitHub | kills at any step, retention, an unlocked operator |
| `deploy/update-wrapper.sh` | lock directory, failed fingerprint, quarantine, timer, alerts | one update run | host's updater, verifier, probe, systemd | a rollback that fails half way, who is blamed, what `set -e` ends and what it does not, kills and signals |
| `tools/update-verifier` | none | ordered checks, a verdict | wrapper, management over HTTP | blocking against blaming |
| `tools/compat-probe`, `panel/`, `scripts/`, bundle assembly | none | build and verification tools | - | I/O |

## Modules

| Module | Models | Status |
|---|---|---|
| `Generations` | generations of the service and the registry's in-flight counts | checked, proved |
| `ClientLease` | abstract: what the service promises about its clients | refined by `Generations` |
| `Memo` | abstract: what the dedupe cache promises the pipeline | refined by `Dedupe`, used by `Pipeline` |
| `Dedupe` | the bounded single-flight cache | checked, proved |
| `HeadroomClient` | breaker, semaphore, last outcome, probe cache | checked, proved |
| `Payload` | provider bodies, their text slots, RTK | through `Pipeline` |
| `Adapter` | projection for Headroom, check of its reply, write-back | through `Pipeline` |
| `Prompt` | injection of the two prompts | through `Pipeline` |
| `Metrics` | outcome counters and byte totals per stage and route | through `Pipeline`, proved there |
| `Pipeline` | Normalize under a pinned configuration; composes the five above and `Memo` | checked, control and counts proved |
| `PluginRuntime` | admission, dispatch, lifecycle calls, shutdown | checked, proved |
| `Config` | Parse, NewStore, what the Headroom client accepts | through `Plugin` |
| `Management` | lifecycle methods and the management handler behind `lifecycleMu` | through `Plugin` |
| `Host` | external: the host's threads and the lengths of its messages | through `Plugin` |
| `NativeABI` | C entry points and the buffer pool | through `Plugin` |
| `Plugin` | composition of `NativeABI` and `Management` as the host sees it | checked, proved |
| `Reconciler` | updater processes, operator scripts, service, kills | checked, proved |
| `UpdateVerifier` | the verifier's checks and verdicts | through `UpdateWrapper` |
| `UpdateWrapper` | the update script, the host's updater, the timer, kills and signals | checked, proved |
| `ProofLemmas` | induction, recursive functions, sums and cardinalities, for all proofs | proved |
| `GenerationsProofs`, `DedupeProofs`, `HeadroomClientProofs`, `PipelineProofs`, `PluginProofs`, `ReconcilerProofs`, `UpdateWrapperProofs` | inductive invariant, theorems and refinement of the module in the name; `PluginProofs` also those of `PluginRuntime`, as the instance `Runtime` | proved |

The `MC*` modules give constant values and symmetry sets to TLC; a
module whose constants are plain sets is run as it is.
Definitions whose comment begins "Mutated form" are deliberate slips: replacing
the definition below by one of them must break a property (`PROJECT.json`,
"mutants"), which shows that the property depends on that piece of code.

### Generations

One action is one critical section of `service.mu` (or `registry.mu`) or one
call made outside of it. `ReconfigureStart`, `FactoryReturns`, `FactoryFails`,
`Publish`, `PublishRefused` and `Discard` are the parts of `Reconfigure` before,
in and after its lock section. `Acquire`, `Release` and `EndMetric` are
`acquire` and the two halves of its release hook; `CallCloser` runs a closer
that one of `Publish`, `Release`, `StatusRelease` or `CloseService` took.
`StatusAcquire` stands for both status calls. Configuration is reduced to
whether it has a Headroom client.

`ClientLease` says the same without counters and hooks: clients succeed each
other, only the newest is lent out, and each is closed once, after it was
replaced and after its last user. The mapping reads a client's phase from
`closeCalls`, `retired` and `next`, and its users from the goroutines.

### Dedupe

`Arrive` reads the clock, before the lock. `Join`, `Lead` and `RunUncached` are
the three ends of the first lock section of `Do`, expiry and `makeRoomLocked`
included. `Complete` is the second one, with the byte budget; `Receive` is the
end of the wait on `done`. Entries are numbered by `cache.sequence`; because
eviction always takes the least number, the loops are written as the first cut
that satisfies their exit condition. A result is its length and whether it
failed. `FreshReuse` is about the real clock and not about `expiresAt`, which
`Join` compares with a time read before the lock: the history variable `doneAt`
has the time at which an entry's work was done, and a caller about to be handed
the result finds it younger than the TTL and the time the caller has itself
spent, on the lock or waiting. `Rest` stands for a cache nobody calls any more, when the bound on
sequence numbers is used up.

`Memo` is what callers may rely on: per key one caller works, callers that find
it working get exactly its result, a success may be reused until it is
forgotten, a failure never is. `ImplementsMemo` maps an entry to a running,
finished or failed result under its key; expiry, eviction and budgets become
`Memo`'s forgetting. What a caller may take from the table is written in three
disjoint cases: the entry it leads, waits for, or finds. `Pipeline` is built on `Memo` instead of `Dedupe`, so what
is checked of it holds whatever the cache's limits are.

### HeadroomClient

The steps of `Compress` are cut where it goes from one lock to another: clock,
`begin`, `select`, the HTTP exchange, `finish`, the deferred release of the slot
and, last, the deferred `recordOutcome`. `Probe` runs the same steps while it
holds `probeMu`. The answer of Headroom, with everything that can fail on the
way, is a choice between "applied" and "failed". `Recent` is the loop
of `breaker.finish` that keeps the failures in the window, as a recursive function over
positions. Local variables are reset after
their last use, which changes no behaviour and keeps the state space small.

### Payload, Adapter, Prompt, Metrics, Pipeline

A request body is what the code reads of it: how the bytes parse, the
instruction fields, the array of items with their roles, types, ids, flags and
contents, and padding. A text is a sequence of atoms and is kept as it is
written in JSON: reading (`Decode`, for gjson; `Unmarshal`, for encoding/json)
and writing (`Encode`) are operators of their own because they are not inverse
to each other for `<` and for bytes that are not UTF-8. A tool result
`{"output": ...}` is a text that holds a literal again: `CompressText` decodes
it, lets the filter work on what it stands for (`Filtered`), and encodes the
result, whose escapes are escaped once more in the body. The length is compared
before that, so the text can grow (Findings); `RTKSound` says that what a
filter works on gets shorter. What an RTK filter does
to a text is a property of an atom: cut down, grown, emptied or panicking.

`Payload` has the slots of the four protocol families, `Rewrite`, the filters'
acceptance rule and the two shape checks of the pipeline. `Adapter` has the four
projections with their refusals, the masking of what Headroom may not see
changed, the validation of a reply and the write-back; `Replies` is Headroom
(external): the same messages with any of the declared texts replaced, or with
one undeclared change. `Prompt` has both stages with markers, targets and
insertion order. `Metrics` is a record of counters.

`Pipeline` pins a generation on `Enter`, refuses, bypasses or looks up the
shared result, runs RTK and Headroom as leader, uncached or alone, then the two
prompt stages and the final shape check. A stage's outcome is recorded in the
same step as its result, as in the code. `Reconfigure` publishes a new
configuration at any time; requests keep theirs. A dedupe key is the tuple the
digest is computed from.

### PluginRuntime

`Acquire` and `Release` are `r.acquire` and `r.release`; `DispatchTo` routes;
`SaverReconfigure` and `StoreConfig` are the two publications of `register` and
`reconfigure` under `lifecycleMu`. `Shutdown` is one pass through its loop,
first or after a wake-up, `CloseSaver` what follows. The saver is reduced to the
configuration of its current generation; `Generations` has its inside.

### Config, Management, NativeABI, Plugin

A configuration document is a list of entries with typed nodes; `Parse` goes
through them as the code does, `NewStore` falls back to defaults with everything
off, `ClientAccepts` (with `FixedEndpoint` for the URL alone) is the separate
validation in `headroom.NewClient`. `IsDocument` says what the nodes of a document
can be; URLs are records of the parts the code tells apart.
`Management` has the lifecycle calls in their two publications and the handler's
status, active check (in-flight mark, cooldown, probe, record) and self-test
(two attempts, generation compared twice), each read of shared state a step of
its own. `NativeABI` copies a response into an address the allocator chose,
enters it into the pool, and on the way back removes it and then frees it; an
address may be given out again between any two of these steps. `Plugin` puts the
C functions around `Management`, with the real byte limits and bodies on both
sides of each.

`MaxRequest <= MaxResponse` (`PluginAssumption`) is what `abi/buffer.go` has:
both are 16 MiB. Two assumptions are about the host. It gives back each address once (the pool
cannot tell a second free from the first free of the next response at that
address). And the bytes around a body in its request are at least as many as
those around it in the response (`HostAssumption`), which is what makes a body
that came in fit on the way out.

### Reconciler

Every point at which a kill leaves a different disk is a step: staging, removal
of an older directory of the same name, rename, previous link, active link,
restart, probe, rollback, cleanup. `flock` releases the lock of a killed
process. The lock is indexed by the bundle whose `state/` it lies in, because
`state_dir` is resolved through the active link; `LockOpened` creates that
directory again when it is gone. `StageBundle`, `ActivateBundle` and
`RollbackBundle` are the operator's scripts, each as one step; only bundles carry
the `approved-artifacts.json` that `rollback-release.sh` demands, and only
reconciled deployments carry the manifest that
`inspect_current_deployment` reads. `ServiceStarts` is systemd. Content and
manifests are model values; `newer` is what cleanup reads from the mtimes: for
every directory, the ones made or changed after it; validation and downloads either pass or fail.
Left-over staging directories of killed runs (`.tmp-stage.*`) are not modelled:
nothing reads them, and nothing removes them either.

### UpdateVerifier, UpdateWrapper

`Checks` lists what the verifier looks at, in order, each with its code and
whether it blocks or blames; `Verify` finds the first that fails, which decides.
Whether a check fails
comes from the wrapper's state (hashes, plugin file, approval schema), from
defects a candidate has, or from a disturbance. The disturbances of the runs
are a configuration that changes meanwhile, which blocks, and a status that
cannot be had, which looks like a fault of the plugin.

The wrapper's script is cut where a kill leaves a different disk and where
another process can come in between: reading the approval, the lock, the skip,
the download, preflight, probe, the host's updater (external, in three steps
that may fail), the search for the backup, postinstall verification, then
acceptance, rollback file by file with restart and verification, or the security
override. `Exit` is the trap, `Kill` does without it, `Signal` is the trap on
HUP, INT or TERM, after which the shell goes on with the script;
`LoseDirectory` takes only the temporary directory away. Every command may fail.
Where `set -e` holds, that is `Die`: the trap frees the lock and nothing else
happens, as when the quarantine cannot be made (`Isolate`). Inside a condition
or before `||` it does not hold, so the function goes on: `Recordings` has the
record that was written in part (`Garbled`) and is moved into place, on which
every later run ends (`Skip`). `CallOperator` is `disable_timer`, whose failure
is swallowed, with the alert after it; the timer and the alert are therefore two
variables, and what the code can promise it promises up to an alert. A release
stands for its binary, version text and unit file. `evidence` is a history
variable: candidates something was seen to be wrong with; a failing command in download,
probe or updater counts as that.

## Runs

| Run | Shows | Bounds |
|---|---|---|
| `generations` | no client leaked, exact counts, bounded registry, a retired client does close, refinement of `ClientLease` (closed once, never under a user) | 3 goroutines, 4 generations: a request, a probe and a reconfiguration or close can all overlap over two retirements |
| `generations_drain` | finding 1 | 2 goroutines |
| `dedupe` | waiters have a leader, exact bytes within both budgets, no result beyond its age, refinement of `Memo` | 3 callers, 3 keys, 2 entries, 2 bytes, TTL 1, results of 1 to 3 bytes, so that every limit is hit and exceeded |
| `headroom` | probe mark owned, slot exact, closed circuit below thresholds, every call returns | 2 goroutines, thresholds 2 and 3 for 3 and 5, a clock of 2 instants that calls read early and use late |
| `runtime` | exact count and quiet after shutdown, calls and shutdowns return | 3 threads, a good, a bad and no configuration |
| `pipeline` | compression keeps structure and protected texts, write-back inverts projection, RTK sound, prompts once and in order | 1 request, some 700 bodies of one and two items over all protocol families, 4 configurations, all replies |
| `pipeline_shared` | every request ends with a body it could have had alone under its own configuration, one count per stage and matching bytes, every request returns | 2 threads, 2 requests, equal, different or refused, 2 generations |
| `plugin` | buffers exact, no response lost, store and saver agree, management undisturbed, probes spaced | 2 threads, 2 addresses, 16 documents, 7 lengths around the limits, 2 reconfigurations, 3 instants |
| `reconciler` | active complete, fallback intact, forward generations, smoke gate, cleanup, every run ends | 2 processes and an operator, 2 generations, one of them approved twice, 1 kill, 1 failing restart, retention 0 |
| `reconciler_state`, `reconciler_crash` | findings 2 and 3 | 1 process, 2 updates, 1 kill in the second |
| `wrapper` | host whole between runs or somebody called, blame justified, one run at a time, security release kept, schema mismatch installs nothing | 2 runs, 2 candidates (one with an override) with a core, a plugin or no defect, 2 disturbances, a failure of any command, and two events: approvals, reinstallation, kills; or one interruption (signal, lost directory), after which the run is followed until somebody is called |

Two actors and two successive versions are what each race in these components
needs; the third thread or generation is there to have a bystander. Counters are
capped in the guards by named constants (`MaxGeneration`, `MaxSequence`,
`MaxClock`, `MaxRequests`, `MaxGenerations`, `MaxCrashes`, `MaxBadRestarts`,
`MaxEvents`). Retention is 0 instead of 5,
which only shortens the sequence of updates until cleanup removes something.
Deadlock is checked in every run.

**Fairness.** Weak fairness of the steps of a goroutine inside a call: the Go
scheduler runs it, and its longest work is bounded by the Headroom timeout (100
to 1500 ms). Strong fairness where several goroutines queue for a
`sync.Mutex` (`probeMu`, `lifecycleMu`), whose starvation mode hands the lock to
a waiter. `Pipeline` states it of `pc` alone (`Moves`): every step of a request
moves its `pc`, and only a wait for a shared result holds it up. An updater process is weakly fair because downloads, `systemctl` and
the probe have time limits. New calls, time, kills and operators are never fair.

**Assumption of the reconciler runs.** `OperatorsWait`: the scripts run while no
updater process exists. Nothing in the code enforces it.

## Proofs

Each theorem holds for every value of the constants that the module's assumption
admits: any number of processes, goroutines, keys, documents, manifests, bundles
or candidates, and any value of the bounds. The shape is always the same. The
properties are not inductive alone; `IInv` (`Inv` in `GenerationsProofs`) is the
conjunction that is. One lemma per action, or per kind of step, shows that it
keeps `IInv`; a theorem `...Invariant` concludes `Spec => []IInv`; and the properties
of the runs follow from it. Every `IInv` was checked by TLC on the instance of its
run before it was proved.

| Theorem | Property | Hypotheses beyond the constants' types |
|---|---|---|
| `TypeCorrect`, `NothingLeftOpen`, `CountsExact`, `RegistryBounded`, `Refinement` | `TypeOK`, `NoClientLeaked`, `RequestsCounted`, `MetricsBounded`, `LeaseRefined` | finitely many goroutines |
| `ClosedAfterUse`, `SingleClose`, `NoLeak` | proved only: consequences of the refinement and of `RetiredClientCloses` | the same |
| `NobodyWaitsInVain`, `BytesAreExact`, `ReuseIsFresh`, `CacheImplementsMemo` | `WaitersHaveLeader`, `BytesExact`, `FreshReuse`, `ImplementsMemo` | finitely many goroutines, room for one entry |
| `SlotIsExact`, `ProbeIsOwned`, `ClosedIsBelowThresholds` | `SlotExact`, `ProbeOwned`, `ClosedBelowThresholds` | thresholds are positive |
| `OwnResults`, `AllCounted` | `OwnResult`, `EveryRequestCounted` | finitely many threads; every request has a size |
| `OneStageAlone` | proved only: with one stage on, a request ends as its own body or as that stage's result for it | the same |
| `CacheUsed` | proved only: every step of the pipeline is a step of `Memo` or leaves the cache alone | the same |
| `ShutdownIsQuiet` | `QuietAfterShutdown` | finitely many threads (`RuntimeNames`, which says what `RuntimeAssumption` does) |
| `ConfigsStayTogether` | proved only: saver and store agree while `lifecycleMu` is free | the same |
| `BuffersAreExact`, `ResponsesArrive` | `BuffersExact`, `NoResponseLost` | `PluginAssumption`, `HostAssumption` |
| `ConfigurationsAgree`, `RequestsAreIsolated`, `ProbesAreSpaced` | `ConfigAgreement`, `HandlerIsolated`, `ProbesSpaced` | documents are documents (`IsDocument`) |
| `ActiveStaysComplete`, `FallbackStaysIntact`, `SmokedWhileIdle`, `GenerationsGoForward`, `CleanupProtectsLinks` | `ActiveComplete`, `FallbackIntact`, `SmokedBetweenRuns`, `GenerationsForward`, `CleanupKeepsLinks` | `OperatorsWait`; a directory's name determines its generation |
| `LockIsExact`, `BlameIsJustified`, `SkewStopsUpdates`, `SecurityReleaseStays`, `HostIsSettled` | `LockExact`, `BlameJustified`, `SkewInstallsNothing`, `SecurityKept`, `Settled` | defects and disturbances are sets of known checks |

**Generations.** That a client is not closed under its
user, for example, needs that the pin counter is the number of holders, which
needs that nobody holds a generation that was not published. `Inv` adds:

- `Chain`: generations are published in order, all before the current one are
  retired, the current one exactly if the service is closed, later ones blank;
- `Pinned`: the pin counter is the number of holders;
- `ShutExact`: the closer has been handed out exactly when the generation is
  retired, has a client and is unpinned;
- `Once`: runs of the closer and goroutines about to run it add up to that;
- `Accounted`: every open client belongs to a generation or to a
  `Reconfigure` under way; `RefPublished`, `Room` and `Requests` bound
  references, reconfigurations and registry counts.

`Refinement` maps each action to one step of the lease or to a stutter.

**Dedupe.** A waiter has a result to come because its entry, while it is
unfinished, stays in the table under its key with its one leader: expiry and
eviction take finished entries only (`LeadersHold`, `OneLeader`, `Led`, `Seated`,
`KeysUnique`). `totalBytes` is a sum over the finished entries. Sums are
recursive over finite sets, so `ProofLemmas` proves first that there is one
function that satisfies their equation (`SumExists`, `SumUnique`) and that the sum
changes by a member's weight when the member enters or leaves (`WeighMember`,
`WeighSplit`); eviction of any prefix then keeps the account exact. The refinement
of `Memo` needs `Flights` for its join and receive steps. `ReuseIsFresh` needs that an entry
expires a TTL after its work was done and that nobody joins one that had expired
when the caller read the clock (`Times`): the age is then bounded by the TTL and
the caller's own time, whether it found the entry finished or waited for it.

**HeadroomClient.** `SlotExact` and `ProbeOwned` follow from where the goroutines
are. A closed circuit is below its thresholds because the failure that reaches one
opens it in the same step, also when that failure is late; for this the time a call
carries must be a time (`Timed`), and what `Recent` leaves a sequence of times. The
loop is a recursive function, so `ProofLemmas` gives its existence (`Recursion`)
and the type of its values (`StaysIn`).

**Pipeline.** Two requests share a result when the generation and all that
the stages read of the request agree in their key, but the cache does not say where a result came from, and the
configuration of the generation in a key may be gone. `Shared` therefore
supposes a history: a function from generations to configurations that explains
the active configuration, what every request pinned, and every entry of the
cache (`History`, `Holds`); `Reconfigure` extends it by one generation. `Works`
says of each label what the work of a request can be: the request's own body, or what
the stages so far make of it under the pinned configuration (`Stands`). A hit
takes what another thread computed, and since the key tells generation and
request apart (`KeyIsInjective`), that is something the request could have
computed itself (`HitSafe`). `OwnResult` is `Works` at the last label.
A stage that is off passes on what it gets (`AfterStages`), so for a generation
with one stage on `OwnResult` narrows to that stage's result (`OneStageAlone`): the
part of `OnlyPinnedStages` that does not depend on what texts look like.

`EveryRequestCounted` speaks of moments without requests under way. `Reported`
makes it inductive for counts: a stage has counted the finished requests and
those at a label behind it (`Past`); `Bytes` for lengths: what one stage
gave and the next did not yet receive is the sum of the sizes that the requests
between the two carry (`Due`, `Where`, `Load`); `MetricsOK` has the routes, as sums over the
finite set of them. `Counting` does the arithmetic once for every step: it asks
of an action only which stages report (`Reports`) and from where to where the
request goes (`Goes`). `Tallies` gives the sums and cardinalities that follow.

`CacheUsed` shows that the pipeline's use of `Memo` is one that `Memo` allows
(`M!Next`), and `CacheImplementsMemo` that the bounded cache provides it.

**PluginRuntime.** `r.active` is the number of threads in dispatch (`ActiveCounted`);
a shutdown past its gate has closed it, so the number only falls (`GateShut`), and one that
closes the saver has seen zero (`Quiet`). `Excludes` gives `lifecycleMu` its one
holder, and `SameConfig` with `Publishing` says what that holder is about to do
when saver and store differ.

**Plugin.** The management half (`MInv`) says that what a handler has read is
still so while it holds `lifecycleMu` (`Fresh`), hence the codes for a disturbed
request are never given (`Answered`); the native half (`NInv`) is `BuffersExact`
with the lengths in hand; `Entered` ties them. `ConfigurationsAgree` has to show
of every document that a URL which `normalizeHeadroomURL` keeps is one that
`NewClient` accepts (`KeptURL`), and that `Parse` leaves any other default alone.

**Reconciler.** There is one lock only as long as every process looks for it in the
same bundle. `AtHome` says so: each process that is not idle resolved `state_dir`
to what the active link leads to now. It holds because a switch goes to a directory whose
`state/` was linked to the run's own (`OnCourse`), and because no script moves the
link meanwhile, which is where `OperatorsWait` is used. With it a run is alone
(`Alone`), and `Fallback` and `OnCourse` can speak of shared links: from the
downloads to the verdict the directory the run started from is complete, is not
the target's (its generation is lower, and the name embeds the generation, `Named`), and is never what
`Clear` and `Cleanup` remove. `Smoked` follows the service through the restart to the probe.

**UpdateWrapper.** Without interrupted runs at most one run holds the lock
(`Locked`), so the host between two of its steps is as the steps before left it
(`WholeBefore`: whole, as long as it has not touched it; `WholeBackup`: a backup
that is whole, and the candidate once the updater is done; `Restored`: the files
put back so far). `BackupKept` and `BackupBeside` say which steps can disturb
that. `Blamed` keeps the evidence against a candidate from the failure to the
record. `OldIsGone` is what an isolated security release leaves. `Ends` lists how
a run can be over: without an alert only where it has touched nothing yet, where
the verdict was good, where the backup is back and running, or at a release with
an override (`isolating`, where `set -e` may end it, and `isolated`). That list is
`HostIsSettled`: no hypothesis about disturbances or about the timer is left.

**Left to TLC.** Liveness, which needs fairness and ENABLED: `RetiredClientCloses`,
`EveryCallReturns`, `CallsReturn`, `RunsEnd`, `EveryRequestReturns`.
What the stages' operators make of a body (`Payload`, `Adapter`, `Prompt`):
`CompressionInPlace`, `WriteBackInverse`, `RTKSound` and `PromptsOnce` say what
folds over the items of a body and the atoms of its texts compute, that is,
induction over the body. `OnlyPinnedStages` needs besides that no text of a
request or a reply looks like one that a stage has made, which the
instance's texts satisfy and nothing in the code ensures; what it says of control,
that no stage of another configuration had a part in a result, is `OwnResult`.
The theorems take those operators as they are: `OwnResults` holds whatever they
compute. What the wrapper's properties say of the lock and of the host is said
for runs that are not interrupted (`interruptions = 0`), in the runs and in the
theorems.

## Findings

1. `metrics.Snapshot` shows the in-flight counts of two generations; a request
   of an older one is invisible to the drain that `docs/vps-rollout.md` asks
   for.
2. The state directory lives in the first bundle and is removed with it by
   `cleanup_old_deployments` (with retention 5, after seven successful updates).
3. A run killed between switch and smoke verdict makes later runs report the
   unprobed deployment as up to date.

Two neighbours of these have no run of their own. With `MaxCrashes = 0` and
`MaxBadRestarts = 1`, `ReportedIsSmoked` is violated by a failing restart: its
result is ignored and the old service answers the smoke probe of the new
deployment. With `OperatorsWait = FALSE` and two bundles, a bundle activated
during a run admits a second run, because the lock file moves with the active
bundle.

In four more places the documentation promises more than the code does. TLC shows
each with an invariant that is not among the runs:

| Invariant | Of | Text | Code |
|---|---|---|---|
| in `RTKSound`, `Length(TextAt(out, p)) < Length(TextAt(b, p))` for every changed text | `Pipeline` | `rtk/filter.go:18`: "Every rejection path returns body byte-for-byte: ... and non-shrinking output" | `rtk/filter.go:48` compares the length of a tool's output before it is encoded again: `{"output": "<log> <<"}` comes back with escapes and may be longer |
| `failed \in Candidates => failed \in evidence` | `UpdateWrapper` | `docs/compatibility.md:37`, blocked: "Stop without blaming or fingerprinting the candidate" | `update-wrapper.sh:184` records the candidate when a rollback fails, whatever the verdict was |
| `alerted => ~timer` | `UpdateWrapper` | `docs/compatibility.md:59`: "the timer is disabled and a priority-alert message is emitted" | `update-wrapper.sh:128` swallows the failure of `systemctl --user disable`, and the alert says all the same that the timer is disabled |
| `Quiet /\ ~alerted /\ ~lock /\ defects[files["cli"]] # {} => files["cli"] \in quarantine` | `UpdateWrapper` | `docs/compatibility.md:61`: "Token Saver is moved to the root-only quarantine" | `update-wrapper.sh:271` runs under `set -e`: when the directory cannot be made the run ends with the incompatible pair installed, no record and no alert |

The properties of the runs therefore say what the code does keep: `BlameJustified`
and `Settled` hold up to an alert, `Settled` counts a security release as one that
may stay, and `RTKSound` compares the text that the filter works on.

Noticed while modelling, in the plugin and the reconciler: `LastOutcome` may
return the result of an earlier compression than the last completed one, because
outcomes are recorded after the slot was given back; after a failed smoke probe
the previous link equals the active one; the reconciler deploys again what an
operator rolled back; `next` is not protected from cleanup (the activation script
checks it); between `begin` and the semaphore a half-open probe can lose its mark
to a late ordinary failure, and then only the semaphore keeps probes apart; a
plain tool result with bytes that are not UTF-8 makes the RTK stage fail open, since
its rewritten text reads back differently.

Noticed in the update wrapper:

- It demands an approval of schema 1, while `ParseApproval` in
  `tools/update-verifier` accepts schema 2 alone. With this repository's verifier
  every preflight is blocked (`SkewInstallsNothing`: nothing is installed).
- The trap on HUP, INT and TERM cleans up and does not exit. The script goes on
  without lock and temporary directory: it may blame the candidate, leave an
  installation unverified, run beside the next one and take that one's lock away.
  `Settled`, `LockExact` and `SecurityKept` except such runs
  (`interruptions = 0`).
- A temporary directory that can no longer be written has the same effect where
  the list of backups is begun: the shell ends at a failed redirection of `:`,
  with the candidate installed and not judged (`LoseDirectory`, `Resolve`).
- A record of a failed candidate that could not be written completely is moved
  into place all the same where the caller says `||`, and every later run then
  ends at `failed_fingerprint_invalid` without an alert.
- `failed-candidate.json` holds one fingerprint: when A and then B fail, A is
  tried again.
- An approval replaced during a run makes the hash comparison blame the candidate
  just installed.
- After a security override the plugin is gone and later runs end at
  `artifact_untrusted` until it is put back; after a kill the lock directory
  stops every run until it is removed by hand.

## Plan

Done: every module of the table above; the safety properties of every component
as theorems, except the five about texts in bodies (Left to TLC), and both
refinements.

Open: what single operators of `Payload` and `Prompt` guarantee of any item, as
far as it needs no induction over texts; the two hazards without a property
(`PROJECT.json`, "hazards"): the lock's identity depends on the active link
and the operator's scripts take no lock, and a failed update leaves the previous
link equal to the active one, so that the fallback from before is lost.

Not modelled: which lines the text filters of `internal/rtk` drop, the wording
of the prompts, saved bytes and latencies on the dashboard, the HTML page, HTTP
and JSON plumbing, digests (taken as injective), file trust checks, bundle
assembly and validation, the compatibility probe (its verdict is free in
`UpdateWrapper`), panel patching and release scripts: string and file processing
without state that outlives a call.

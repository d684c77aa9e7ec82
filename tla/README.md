# Pitot in TLA+

A specification of the parts of Pitot that are concurrent, stateful or
crash-prone, written from the source (paths below are relative to the
repository, line numbers to the commit this directory is kept with), checked
with TLC on small instances and proved with TLAPS for every instance where that
is possible. `PROJECT.json` lists the components, the runs, the correspondence
of every definition to its source lines, the hazards, the findings and the
theorems.

## 1. The system

Pitot is a local runtime that stands between coding-agent hosts and two kinds
of role processes. A host's hook (or an explicit `pitot request`) becomes one
event or control request. *Consumers* observe events; at most one *Controller*
per request kind answers `allow` or `deny`; declared defaults answer for a
controller that is late or gone.

| Component | Source | State | Operations | What is hard |
|---|---|---|---|---|
| Router | `bridge/bridge.go` | registration per kind, bounded memory of resolved actions | Register, Resolve, TimeoutResponse | bounded memory against duplicates |
| Controller worker | `runtime/runtime.go:267-512` | pending map, slot, start error, worker context, responses and done channels, remembered actions, two pipes | resolveMode, readResponses, remember, close | three goroutines and the callers, deadlines, stalled writes, late replies, exits, shutdown |
| Consumer worker | `runtime/runtime.go:184-251, 514-686` | bounded queue, dead flag, pipe | offer, deliver, stop, close | queue full, death in three places, quiet shutdown |
| Manager | `runtime/runtime.go:25-182, 253-265` | workers, observer, kinds already noticed | Start, Close, DeliverEvent, DeliverControlledEvent, Request | explicit against defaulted delivery |
| Runtime transport | `runtime/transport.go`, `ownership*.go`, `descriptor_*.go` | descriptor file, lock file, listener, token | Serve, authorise, handlers, client | several starters, crashes, port reuse, unrelated time limits |
| Configuration | `config/config.go` | files of one tree | FindRoot, Discover, merge, validate | collisions between fragments |
| Hydration, shim, upgrade | `hydrate/`, `cmd/pitot/shim.go`, `upgrade.go` | cache slot, lock directory, pin | Ensure, WritePin, shim, upgrade | concurrent hydrations, crashed lock holders, order of pin and slot |
| Wiring, install | `wiring/`, `cmd/pitot/wire.go`, `install.go` | host configuration, fragment witness, `.npmrc` | Merge, Check, wire, unwire, upsert, revert | partial failure, foreign entries, drift |
| Host gates | `internal/devinacp`, `internal/deepseekacp`, `integrations/`, `cmd/pitot/main.go` | cached commands, child process, timers | permission requests, tool calls, hook | a cancelled or uncorrelated call must not become an allow |
| Adapters, sensor, schema, protocol, projection | the packages of those names | none | decode, validate, frame, project | sizes and nesting at their limits |
| Workbench, doctor | `cmd/pitot/workbench.go`, `doctor_*.go` | dev session | init, dev, doctor | readiness, clean-up order |
| SDK runners | `sdk/` | none | one request, one reply | they are the controller's child process |
| Supervisory-control example | `examples/supervisory-control/` | state, revision, epoch, reservations | admit, execute, observe tests, invalidate | reservations that outlive their reason |

How they meet: a hook process is an HTTP client of the runtime, found through
the descriptor file. The transport calls the Manager. The Manager offers the
event to every Consumer without waiting and then asks the Controller worker of
its kind. The worker talks to its child over two pipes and asks the Router for
the one terminal answer. Manager and workers share one context; its end, and
only its end, stops them.

What makes each correct, in a sentence: an action is resolved once and for a
reason (worker, router); no observation disappears without a word and none
holds up a host (consumers); one runtime per path and a live one can be found
(ownership); a pin never names a binary that was not verified (hydration);
foreign configuration survives (wiring); only a correlated explicit answer
opens a gate (host gates); a release needs a current test (supervisor).

## 2. Modules

| Module | Models | Rests on |
|---|---|---|
| `Window` | the bounded memory of finished actions, used by router and worker | |
| `Bridge` | what the router answers: defaults, correlation, outcomes | `Window` |
| `Router` | `bridge.Router` on its own | `Bridge` |
| `Resolution` | the abstract promise: one terminal resolution per action | |
| `ControllerWorker` | one controller worker with callers, goroutines and child | `Bridge`; implements `Resolution` |
| `ConsumerDelivery` | the observation path | |
| `RuntimeOwnership` | starts, stops and crashes on one descriptor path | |
| `Supervisor` | the supervisory-control example: one delivery session | |
| `HydrateSlot` | upgrades, shims and inits on the cache slots and the pin | |
| `Wiring` | entries of a host's hook configuration: `Merge`, `Check` | |
| `Tenancy` | fragments of one `conf.d`: what merges, who finds it | |
| `Repository` | the commands that write a repository's files, write by write | `Wiring`, `Tenancy` |
| `Exchange` | one action from the Manager's result to what each client makes of it | |
| `Gates` | a `pitot dev` session, or `pitot run` alone: server, agent, its client, every gate | `Exchange` |
| `MC...` | constants for TLC | the module of the same name |
| `RouterProofs`, `ControllerWorkerProofs`, `ConsumerDeliveryProofs`, `RuntimeOwnershipProofs`, `SupervisorProofs`, `HydrateSlotProofs`, `RepositoryProofs`, `GatesProofs` | theorems | the module of the same name |

A definition named `X_Fault` stands directly before `X` and is `X` with a
plausible mistake (a dropped check, an off-by-one, a swapped default). No
behaviour uses it. It documents what each property would catch: put in the
place of `X` it must make the property fail, and does.

### Router

A call of `Resolve` or `TimeoutResponse` holds the router's mutex throughout,
so it is one step. Calls that end in an error and no resolution leave the state
alone and are no step. `log` is a history of the resolutions given. `Push`
deletes the oldest *entry of the queue* from the set, as `markResolved` does,
even if the same ID stands further down.

### Controller worker

Each call of `resolveMode` is a process with a program counter:

| `pc` | Source lines of `runtime/runtime.go` | Actions that leave it |
|---|---|---|
| `idle` | before admission | `Admit` 355-370 |
| `admitted` | 375-380 | `Enter` |
| `waiting` | 381-391 | `Wait` |
| `holding` | 392-407 | `Dispatch` |
| `starting` | 408-411 | `StartWrite` |
| `writing` | 418-437 | `Written`, `Interrupt` |
| `join...` | 415-416 | `Join` |
| `looping` | 438-447 | `Loop` |
| `selecting` | 448-490 | `Receive`, `Exited`, `StopWaiting` |
| `done` | returned | |

A `select` is a disjunction over its ready cases, without preference. The
deferred calls (free the slot, delete the pending entry) happen in `Finish`
together with the router's answer. What another goroutine can do between these
steps it can do after them, with the same result: a call that waits for the
slot takes it once it is free, and a call for the same action is refused
whether it still meets the pending entry or already the router's memory.
The writer goroutine (`WriteFrame`, `WriteFail`), the reader (`ReadResponse`,
`ReaderQuits`, `ReaderEnds`) and the goroutine in `cmd.Wait` (`WaitReturns`)
are processes of their own. `cmd.Wait` closes the read end of the output pipe,
so what was not read is lost and the reader may see an error: `os/exec`
documents both. A line the reader has scanned and not yet sent (between 328 and
337-341) counts as still in the pipe: `WaitReturns` may leave any number of the
first lines there, those the scanner has already read. The child is external: it reads,
writes any frame of its alphabet, closes its input (`ChildCloses`, after which a
write fails with `EPIPE`) and exits whenever it likes. Between the check of the
context in `Dispatch` and the start of the writer in `StartWrite` anybody may
step, `Close` included: a frame may begin after the shutdown, as in the code.
`torn` is the history of a write that failed or was cut off. `expired` and `cancelled` are the call's
timer and context.

`requireReply` only adds an error to a result; `Granted` says what a call made
that way returns, so one run covers both kinds of call.

### Resolution

The abstract module knows calls, their actions, and a status per call: new,
pending, resolved or refused. A call is refused only if another call for the
same action is pending or resolved. `ControllerWorker!Promise` maps the worker
onto it: in flight is pending, returned with an outcome is resolved, returned
without is refused.

### Consumer delivery

Each event is one call of `offerConsumers`, at a position in the declared
order. The deliver goroutine has a place for every point between which another
goroutine may act: taking the frame, the two checks, the write, and the reading
of `ctx.Err()` after a failure, which is separate from the `stop` it decides.
The wait goroutine reads `ctx.Err()` and stops in two steps for the same
reason. The projection cache computes what `projectEvent` gives and is modelled
by it. `accepted`, `written`, `reported` and `broken` are history.

### Runtime ownership

A process runs through `Serve`: lock, probe, remove a stale descriptor, listen,
publish, serve, and the deferred calls in reverse. Error returns before the
descriptor is published are `GiveUp`. A failure after the rename leaves the
file behind with the lock released. A crash may happen anywhere; the operating
system drops the lock and the port. The clean-up reads and removes in two
steps, `CheckOwn` and `RemoveOwn`. A probe's outcome is a refusal, an answer
(of anybody), or nothing; only a refusal, and only when nobody listens, shows
the owner dead.

### Supervisor

Each method of `supervisor.py` that holds the lock throughout is one action;
`execute` is one action per outcome, and every outcome consumes the
reservation. `test_artifact` runs in a thread of its own for each build and lets
go of the lock between its three steps: `Read`, `Observe`, `Withdraw`. Files are
the bytes they hold and a digest is the bytes behind it. `Edit` is anybody who
edits the project directory; `BuildFails` and `ReleaseFails` are the writes that
raise. A reservation carries, beside the source's epoch, the facts it was
granted on (`basis`), and `passed` is the history of the tester's verdicts; no
guard reads either.

### Hydrate slot

Any process is one of three roles. An upgrade runs `Ensure` and then
`validateTenantsFor` and the pin (`validate`, `truncate`, `write`); a shim runs
its own copy of the same steps and ends in the binary (`exec`); an init writes a
pin where there is none. The program counter names the steps of both: `check`,
`lock`, `slept`, `recheck`, `fetch`, `verify`, `publish`, `unlock`. The shim's
departures from `Ensure` are in the actions they concern: it leaves the wait
once the slot is filled (`Wake`), its `mktemp` may fail before the trap is set
(`Recheck`), it removes whatever lock is there (`RemoveLock`), and the
Windows one takes no lock (`Lockless`). A removal may fail, and nobody looks
(`RemoveFails`). Writing the pin is two steps, since
`os.WriteFile` empties first. `Crash` is a killed process, `UnlockByHand` the
user the error message addresses, `AddTenant` another tool's fragment. `writes`,
`vouched`, `pinner`, `stuck`, `calls` and `exit` are history.

### Repository, Wiring, Tenancy

A process is one command line (`job`): `init --host` and `doctor --fix` (which
is the same with `--force`), the DeepSeek variant, `init`, `install` and
`install --revert`. Its steps are the reads and writes of the command in their
order, each write of a file two steps, so that `Stop` (a process that ends
anywhere, or a step that fails) leaves an empty file behind where the source
does. The pin and the shim, too, are written in two steps each, under the
working directory (`Substrate`), and a file that is there is kept whatever it
holds (`Ensure`); the commands are those of a released build, which writes a
pin. `Save` is the user or the host. A configuration is its entries under the
event Pitot owns, an entry Pitot's or a foreign one, as `encoding/json` reads it; `.npmrc` is a sequence of
lines. `Without`, a sequence without the members of a set, is what every loop over
entries or lines in `Merge`, `upsertNPMRC` and `revertNPM` computes. Directories
are numbered outwards, and `RootOf` is `FindRoot`. `last`,
`users` and `overtaken` are history: the properties use them to say which
writes somebody else's write came between.

### Exchange and Gates

`Exchange` has no state: a result is a response or none, with or without an
error, and the operators follow it through `deliverEvent`, the HTTP handler and
its status code, the client, and the decision of each door: the hook command,
the request command, the Devin client, the DeepSeek hook.

`Gates` is one session of `pitot dev`, or one `pitot run` (`dev = "alone"`): a
runtime whose hosts are not its children, which may demand a
Controller (`--strict`), and which ends with its server (`Return`):

| Variable | Stands for |
|---|---|
| `dev` | where `runDev` is: waiting for the descriptor, running the agent, stopping, cleaning up; or the command runs alone |
| `server` | where `Server.Serve` is (`RuntimeOwnership` is its detail) |
| `phase` | the agent and its ACP client: start, readiness, the four calls, closing |
| `held` | a descendant of Devin holds the output Devin's client reads |
| `pc`, `door`, `answer`, `verdict` | one tool call: its exchange, the door it takes, what its client received, what it was told |
| `told`, `pipe`, `cache`, `busy` | Devin's messages in order, the client's `commands`, the permission it is answering |
| `plug` | the DeepSeek plugin's `invoke`: child, flags, settlement |

The worker is the set of results it may give (`Resolutions`); that these are
all is what `worker_safety` and its proofs say. The Devin client reads nothing
while it answers a permission, which is why a permission is judged on the latest
command announced before it. The plugin's timers, its abort listener, the
child's exit and the closing of its pipes are separate actions in any order;
JavaScript runs each to its end. A hook, a Controller and an agent may stay
silent for ever.

## 3. Runs

| Run | Shows | Bounds | Why they are enough |
|---|---|---|---|
| `router` | the window is exactly the latest resolutions; no early duplicate; every resolution is the registered controller's | 2 kinds, 2 registrations with opposite defaults, 3 actions, window 2, history of 4 | an entry is evicted twice and an action resolved again after its eviction |
| `worker_safety` | slot, writer join, pending, one terminal resolution, grants, defaults, no frame after a torn one, late replies, implementation of `Resolution` | 2 calls, same action or different ones, alphabet of 3 frames (right reply, another name, malformed), windows 2, channel and pipe of 1 | every select has every case ready somewhere; a pipe of 1 makes both sides block |
| `worker_liveness` | an admitted call returns | 2 calls with an action each, one reply that is stale for one of them | the child may stop reading, or repeat the stale reply for ever |
| `reply_before_exit` | finding 1 (a counterexample is expected) | as `worker_safety`, without symmetry | |
| `consumer` | order, projection, diagnosis of every drop, quiet shutdown, exit reported, offers complete | 1 consumer, 5 events (full twice, omitted, absent, unsubscribed), queue and pipe of 1 | the third frame finds the queue full; consumers share nothing but the walk over them |
| `ownership` | one owner, a live runtime is published, clean-up and damaged files | 3 processes, 2 ports, 3 starts | a third starter meets the left-overs of two; a port passes to a stranger |
| `slot` | a slot holds one verified release, written once; who left a lock behind; a moved pin is backed | 3 processes of any role, 2 versions with 2 protocols, either platform, late tenants | a holder, a waiter that leaves early, and a third that meets what they left |
| `shim_retry` | finding 2 (a counterexample is expected) | as `slot` | |
| `repository` | foreign content survives, done is found, registrations merge | 2 processes out of 11 command lines, 12 starting repositories, 1 save of 2, 2 directories | a command meets another's half-written file, a save falls between a read and a write |
| `wiring_shim` | finding 3 (a counterexample is expected) | as `repository`, the commands `init --host` and `doctor --fix` only, no saves | one command in a subdirectory is enough |
| `gates` | nothing passes without a grant, every call is decided, the session cleans up | 2 calls for Devin with 2 announcements and a pipe of 2, 1 call for a shell agent, for a host of `pitot run` and for DeepSeek | only calls of one Devin client share anything; a second announcement may overtake a permission or follow it |
| `supervisor` | verdicts, reservations and releases are current; a release is final | 3 builds, 2 file contents | the results of two builds can be late for a third; only the first is withdrawn |

The largest have 5.1 million distinct states (`slot`), 2.5 (`repository`), 2.1
(`worker_safety`) and 0.8 (`gates`, whose liveness takes the time); each takes
two to three minutes with two TLC workers.

Symmetry is used for safety only: over the calls in `worker_safety` (the set of
workloads is closed under it), over kinds in `router`, over processes and ports
in `ownership`, over processes in `slot` and `repository`. `router` switches the
deadlock check off, because the router is passive and its history is bounded,
and `slot`, `repository` and `gates` do because their commands and sessions end.
Typing is proved for every component but `Repository` (section 4) and checked by
a run for the worker and the supervisor only; `worker_*` and `consumer` end in an explicit
`Quiescent` step, so that any other stop is a deadlock.

### Fairness

`worker_liveness` assumes weak fairness of each admitted call (Go runs a
goroutine that can run), of its timer, and of the write failing once its pipe
is closed (`os.File.Close` wakes a blocked write). It assumes nothing of the
child, of the caller's context, of `Close`, or between the cases of a select.
`consumer` assumes that an offer in progress goes on and that the wait
goroutine runs; nothing of the child, and not even that the deliver goroutine
makes progress. `gates` assumes that the program's own goroutines run (`Serve`,
`Drain`, `ServerEnds`, `Start...`, `Stop`, `Remove`, `Rule`, `Decide`), that its timers fire
(the 30 and 35 seconds of an exchange in `GiveUp`, the plugin's 35 seconds in
`StopChild` and 1.5 in `DrainTimer`, the grace period of an agent in
`AgentEnds`, `runDev`'s 5 in `Ready \/ NotReady`), and that a cancelled
context ends the agent's client, because `exec.CommandContext` kills the agent -
but for Devin only while nothing else holds the agent's output:
`client.call` (`internal/devinacp/client.go:213`) reads until that output ends
and does not look at its context, and `waitForChild` comes after it. A
descendant that inherits the output (`Inherit`) need never let it go (`LetGo`
has no fairness), and then `runDev` never returns and its session directory
stays; the shell agent has `devWaitDelay` against this
(`cmd/pitot/workbench.go:950-952`), and DeepSeek's client selects on
`ctx.Done()` (`internal/deepseekacp/client.go:199`). `SessionEnds` therefore says:
if from some moment on nobody holds the output, a session that is interrupted or
over is cleaned up. Without that premise it is false of the code, and of the model.
Nothing is assumed of the Controller, of a hook process and its descendants, or
of an agent that is left alone. The safety runs assume nothing.

## 4. Proofs

All theorems hold for every value of the constants that satisfies the named
assumption of the component. These assumptions are typing, disjointness of model
values, positive capacities, and: no consumer is walked twice
(`DeliveryAssumption`; `Start` makes one worker per declared consumer), and at
first a directory's registrations merge, each with its project
(`RepositoryAssumption`). TLC evaluates all of them on every run.

Every safety property a passing run checks is stated by a theorem; section 3
says on which instance TLC looked at it first. In each module the theorem is
`Spec => []Property`, from an invariant that is shown to hold at first and to
survive every action.

* `RouterProofs` - `RouterTyping`, `LatestAreRemembered`, `NoEarlyDuplicate`,
  `BoundForGood`. The first lemmas say what `Push` does: it keeps the type, slides,
  keeps entries apart and keeps the latest ones. That duplicates are a window
  apart is not inductive alone: it needs that the window is exactly the tail of
  the history, and the two are proved together. A resolution stays declared
  because no step changes the registration of a kind that has one.
* `ControllerWorkerProofs` - `Typing`, `MutualExclusion`, `WriterIsJoined`,
  `OneCallPerAction`. The inductive invariant ties the slot to the program
  counters (whoever is in the critical section holds it), the writer to the
  slot, and `pending` to the calls in flight; the writer's part needs the
  slot's, since two calls in the critical section could each start one.
  `GrantsAreReplies` and `DefaultsHaveReasons`: every frame under way, in the
  pipe, in the reader's hand or in the channel, was emitted by the child
  (`ReasonInv`), and a reason, once there, lasts (`Lasting`), so an answer is
  earned when the call returns and ever after. `NoFrameAfterTorn`: once a write
  has failed or been cut off, no writer starts again. It is not the guard of
  the start, which says nothing of the transport: the invariant (`TornInv`)
  follows the call that tore the frame through the join and the retirement of
  the transport to the release of the slot, so that whoever takes the slot next
  meets a retired transport, and it needs `MutualExclusion`'s invariant for it.
  `OneResolutionPerAction` and `WorkerKeepsPromise`, the refinement of
  `Resolution`, under `WindowSuffices`: there are no more actions than the
  router's window holds. Without it an evicted action may be resolved again,
  which is what the source says of its window (`bridge/bridge.go:50-54`). The
  inductive step shows that the window, all of whose entries are distinct, never
  has to evict: a queue of distinct IDs is no longer than their number.
  `LateRepliesAreHarmless`, under `MemorySuffices`: no more calls than the worker
  remembers actions. The queue holds at most one entry for each call that
  returned (`MemoryInv`), so every finished action is still in it. Beyond either
  number the properties are false of the code, so the two conditions are part of
  the theorems.
* `ConsumerDeliveryProofs` - `DeliveryTyping`, `DeliveryKeepsOrder`,
  `ProjectionKept`, `OffersAccounted`, `ShutdownIsQuiet`. Order is inductive
  once it says where the missing frames are: what was written, the frame in the
  deliver goroutine's hand and the queue are together what was accepted
  (`InOrder`). Frames and faults come only from offers that were made, and no
  consumer is offered an event twice (`OffersInv`). Whoever is about to stop a
  consumer aloud has seen it broken before the shutdown (`Quiet`), although
  `ctx.Err()` is read one step before the stop.
* `RuntimeOwnershipProofs` - `OwnershipTyping`, `OneOwner`, `LiveIsPublished`,
  `CleanupIsOwn`, `DamagedStays`. The invariant adds to the owner and the
  published descriptor what each process on its way knows about the file
  (clear: absent; disowning: its own; a damaged file: nobody is past the
  probe). The clean-up in two steps is safe *because* the lock is released
  last, which the proof uses and the variant `StopServing_Unlocks` breaks.
* `SupervisorProofs` - `SupervisorTyping`, `ReservationsAreCurrent`,
  `VerdictsAreCurrent`, `OnlyTestedIsReleased`, `ReleasesAreFinal`. That a
  reservation of the current epoch is current needs that none is from the
  future (`GrantsArePast`), and that every step which touches the facts moves
  the epoch (`FactsMoveTheEpoch`). A release is justified by the verdict that
  stands when it is made, so `OnlyTestedIsReleased` rests on
  `VerdictsAreCurrent`.
* `HydrateSlotProofs` - `SlotTyping`, `WrittenOnce`, `LockAccounted`,
  `PinReady`. The lock alone does not make a slot written once, because a shim
  that leaves the wait removes a lock that is not its own. The invariant has two
  phases: while the slot is empty nobody has a reason to leave, so whoever may
  still write holds the lock; once it is filled nobody is on the way to write,
  and the lock no longer matters (`OnceInv`). A lock left behind is accounted
  for by a crash, a failed `mktemp` or a failed removal (`stuck`).
* `RepositoryProofs` - `RegistrationsMerge`, `ForeignStays`, `DoneIsDone`.
  `init` judges a registration three steps before it writes it, so the invariant
  says that a judged fragment still fits (`Fitting`) as long as no two
  registrations met. The configuration a wiring read and the file itself have
  the same foreign entries, as have the lines of `.npmrc` (`EntriesKept`,
  `LinesKept`); what a wiring is about to write has one marked entry
  (`OneMarked`), so that even another wiring's late write leaves the file FOUND
  (`WiredSoFar`). `DoneIsDone` speaks of configuration and witness, which is what
  `Check` reads; that the entry also leads to a shim is false (finding 3). All
  this rests on what `Without` leaves (`WithoutAppend`, `WithoutTwice`,
  `WithoutType`), and these on an induction over sequences: `SequencesReached` is
  stated for a set instead of a predicate, and proved from the least member of
  its complement (`WFMin`).
* `GatesProofs` - `GatesTyping`, `PassesAreGranted`, `AbortedBlocked`,
  `JudgedRight`. What its door lets pass is a grant, for every answer a client
  can hold (`AnswerInv`), through the server's status codes and the client's
  reading of them. That a permission is judged on the right command follows from
  the order of the pipe (`PipeInv`): between a question and the announcement it
  is about stand only other calls' messages, and once that announcement is read,
  the cache holds it or has been cleared.

Only model-checked: `AdmittedReturns`, `ExitReported`, `OffersComplete`,
`EverySettles` and `SessionEnds`, which are liveness under fairness and beyond
this prover. The three findings are counterexamples and have nothing to prove.

## 5. Findings

1. *A reply before an exit can be lost.* A controller that writes its one reply
   and exits, as the reference program of `docs/runtime.md:283` does, races
   `cmd.Wait` (`runtime/runtime.go:322`) and `done` (469): the call may get
   `on_unavailable` although the correlated reply was written in time.
2. *The shim does not retry.* Under `set -eu` (`cmd/pitot/shim.go:29`) the shell
   ends at the first failing `"$slot" "$@"` (127); the loop the comment at
   123-124 describes never comes round.
3. *A wiring may point at no shim.* `wiring/wiring.go:12-13` says that every
   entry and bridge references `.pitot/bin/...`, "so the pin laws hold end to
   end", but `runWireHost` writes pin and shims under the working directory
   (`cmd/pitot/wire.go:39`, `shim.go:236, 249`) and everything else under the root
   it found (34-37). `WiringRunsTheShim` asks for a whole shim with its pin under
   the root of a wiring that is done, and for no half bridge. TLC shows
   `init --host` in a subdirectory. In the root it fails too, in two more ways:
   a pin or shim that a cut-off command left empty is kept by the next one
   (`shim.go:237, 256`; `Ensure`), and so is a bridge, unless `--force` is given
   (`wire.go:58`; `Kept`), while `Check` says FOUND.

Read in the source while modelling, and part of the models, but without a run
of their own:

* The error for an unreadable fragment witness advises `--force`
  (`wiring/wiring.go:252`), but `runWireHost` returns that error under `--force`
  too (`cmd/pitot/wire.go:45-49`; `Passes`).
* Refused duplicates reach the decision observer: the comment at
  `runtime/runtime.go:52` promises a callback per resolved decision; lines 180
  and 263 also report the empty response of `ErrDuplicate`.
* An interrupted Devin session whose agent left a descendant holding its output
  never ends (`internal/devinacp/client.go:213`; `held`, section 3).
* The PowerShell shim takes no lock (`shim.go:137-173`); `PublishedOnce` bounds
  the writes of a slot on POSIX only, and claims a verified release everywhere.
* A Devin update of another tool under a known call ID leaves the cached exec
  command in place (`internal/devinacp/client.go:284`). `JudgedAsAsked` therefore
  speaks of the latest *exec* command announced for the call.

## 6. Not modelled, and why

* *Decoding and validation* (schema, adapters, sensor, `ReadFrames`): functions
  of one record that keep nothing; the models start from what they yield, an
  event, a frame or a fault. Projection is modelled by the mode it leaves.
* *Tokens, file permissions, body limits, and the Windows variants* of the lock
  and of the descriptor: the properties are about who owns, publishes and
  answers. Instance IDs and tokens are unique by construction, as 16 random
  bytes are in practice. A stranger that listens on a dead runtime's port is in
  `RuntimeOwnership`, not in `Gates`, where the descriptor is a session's own.
* *Configuration files* beyond what the merge of fragments compares: paths,
  commands, digests.
* *The JSON round trip*: wiring reads a host's configuration into `map[string]any`
  and renders it anew (`wire.go:70-86`). An entry is modelled as what that
  reading gives; layout, and numbers a float64 does not hold, are not. Of what
  lies outside the event Pitot owns the models know only whether a marked entry
  is there.
* *Archives, URLs and the platform's cache path*: a download is a release,
  damaged, or nothing.
* *A hook without a runtime path* only records and exits 0; `pitot dev` always
  sets one. Messages in a decision and output of the agent are left out.
* *Diagnostics* are modelled only where a property is about them (the drop of an
  observation, the end of a consumer).
* *The doctor* only reads, apart from `--fix`, which is in `Repository`. *The
  SDK runners* are the Controller of `ControllerWorker`, which assumes nothing of
  them; the host scripts launch the hook command. Tests, conformance fixtures
  and release scripts are not part of the program.

Three hazards have no property: a reply later than the 1024 actions the worker
remembers (`runtime/runtime.go:497`; `LateReplyHarmless` states the harm with
that escape), a stranger on the port of a crashed runtime, which makes every
start refuse (`runtime/transport.go:472`), as intended, and a record at the size
limit (`protocol/framing.go:54`), which one sequential loop over bytes handles.

## 7. Plan

The order is by what a failure would cost and how hard it is to test.

1. Done: `Window`, `Bridge`, `Router`, `Resolution`, `ControllerWorker`,
   `ConsumerDelivery`, `RuntimeOwnership`, `Supervisor`, their runs and first
   theorems.
2. Done: `HydrateSlot`; `Wiring`, `Tenancy` and `Repository`; `Exchange` and
   `Gates`, with their runs.
3. Done: a theorem for every safety and action property of the passing runs.
4. Next: abstract specifications that more of the modules implement, as
   `Resolution` is for the worker - a write-once register for `HydrateSlot`, a
   lossy queue that ends once for `ConsumerDelivery` - with the mapping proved
   step by step.
5. Next: `Router` and the worker's window joined in one statement, so that
   `WindowSuffices` becomes a bound on the actions between two uses of an ID
   instead of on all of them.

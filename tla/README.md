# Verification of the agent-team plugin

This directory holds the TLA+ models of the Harness plugin in `src/`: what its
host part (`src/src`, TypeScript, one Node process, one event loop) does with
runs, members, messages and definitions, and what its client does with what the
host tells it; the TLC configurations that check them on small instances, and the
TLAPS proofs of what holds for every instance.
Paths below are relative to the repository unless they start with `ES`, `DS`:
`ES` is `src/tools/application/execution-service.ts`, `DS` is
`src/tools/application/definition-service.ts`.

## The system

A *squad* is a list of agents with an execution policy. A user message, a model
tool call or a Run Center button *dispatches* a task to a squad; the dispatch
plans an acyclic graph of assignments, runs the members as child agents, may
review and repair the result, and keeps everything it does in one durable *run
row*. All state is either in a process (lost in a crash) or in one of eight
key-value tables whose single-key writes are atomic and durable. The event loop
interleaves coroutines at every `await`; that is where all the concurrency is.

| Part | State | Operations | What makes it correct |
| --- | --- | --- | --- |
| `WriteCoordinator` (`infrastructure/write-coordinator.ts`) | promise chain `tail`, `revision` | `run`, `read`, `readVersioned`, abort | one section at a time, in order, no lost ticket, exact revision |
| Run lifecycle (`ES` dispatch, background, cancel; `index.ts` init) | run rows, `activeRunControllers`, `pendingBackgroundRuns`, signals | dispatch, accept background, cancel, clear, crash, recover | every active row is owned and settles, statuses agree, a cancel counts |
| Member scheduler (`ES` wave loop, `runMember*`, `diagnoseRetry`) | member rows, batch, results, budget | waves, batches, attempts, retry, halt, verdict | limits, dependencies, policies, budget, no lost result |
| Admission (`index.ts` hook, `DS` modes and receipts, `ES` tool) | session mode, one-shot, receipts, `lastGuaranteedMessage` | hook, tool call, user choices, prune | a message starts at most one squad; choices are honoured once |
| Continuation (`ES` `continueFromTool`, `continuation.ts`) | `continuationCalls`, `continuationReceipt`, chain | admit, duplicate, crash, clear | one successor per chain, duplicates share it, no cycle |
| Plan algorithms (`orchestration.ts`, `continuation.ts`) | none | validate, waves, affected closure | topological order, ready waves, no stale success reused |
| Quality loop (`ES` `runQualityLoop`) | rounds, consumed usage, progress in the row | review, repair | bounded rounds, budget, usage accounted once |
| Definitions (`DS`, `storage-transaction.ts`) | agents, squads, versions, defaults | create, update, delete, import, restore | references stay valid, all or nothing, versions linear |
| Run history (`run-history.ts`) | run table | reconcile, retention, clear, list, insights | active rows are kept |
| Usage meter (`infrastructure/official-usage-meter.ts`) | pending publications | track, stop | the last sample is not lost, no write after stop |
| Background dedupe, retry (`ES`) | `backgroundAcceptances` | accept, join, retry | one active row per request, nothing left of a refused one |
| Handoff chain (`handoff-chain.ts`) | none | bound the handoffs | within the budget, fairly |
| Run Center (`client/run-store.ts`, `RunCenter.tsx`) | snapshots, timers, generation, the open card | load, poll, open, act, timeout | one chain of polls, no acknowledged action taken back, the view catches up |
| Catalog (`client/controller.ts`) | snapshot, `pending`, `queued`, reconnect loop | load, mutate, disconnect, reconnect | a forced load holds every earlier write |
| Composer control (`ComposerControl.tsx`) | mode shown, request and retry ids, busy | read, retry, act | what rests on the screen is what the host will do; never locked |
| Settings page (`SettingsPage.tsx`, `RecipesWorkspace.tsx`) | drafts, conflict marks, previews, dialogs | edit, save, restore, import | no text lost, nothing overwritten unasked, applied as shown |
| RPC, recipes, delegation policy, schemas, rendering | none of their own | | see "Not modelled" |

How they interact: the hook (`index.ts`) and the tool claim a message through
the tables guarded by `WriteCoordinator` and then call `dispatch`; dispatch
reads a frozen definition snapshot (again under `WriteCoordinator`), registers
an `AbortController`, writes the row and runs the scheduler, whose members write
into the same row; Run Center cancels through the controller map and clears or
retries through the table; a continuation leaves its receipt in the row of the
run it continues and calls dispatch again. The client asks over RPC, which may
time out, be lost with the connection or be answered late: a request that the
client has given up may still run at the host.

The hard behaviours: interleavings at every await (two dispatches, a cancel, a
clear and a retention pass over one table), aborts between a decision and the
write that records it, one rejected member among running siblings, a storage
write that commits and then reports an error, and a process that dies anywhere
and must recover from the tables alone. `PROJECT.json` lists each one with its
line under "hazards".

## Modules

An action is what one coroutine does between two `await`s; a table write is one
atomic, durable step, and what follows its `await` is a later step. Names follow
the source where TLA+ allows it. Operators that start with the comment "Fault:"
are plausible bugs; no specification uses them, they show that the properties
can fail.

| Module | Models | State and actions |
| --- | --- | --- |
| `FifoLock` | what `WriteCoordinator` promises | a queue of calls that join, are served in order, quit or depart |
| `WriteCoordinator` | `infrastructure/write-coordinator.ts` | `tail` and `released` are the promise chain; `Acquire`, `PredecessorDone`, `Resume`, `Confirm` are the code before and after each await of `acquire`, `Enter`, `Succeed`, `Fail` those of `run` and `readVersioned`, `Abort` a signal at any moment, `ReleaseOrphan` the hand-over of an abandoned ticket |
| `RunLifecycle` | `ES` dispatch, `acceptBackgroundDispatch`, `cancelRun`, `recoverRunHistory`; `run-history.ts` reconcile, retention, clear; `index.ts` init | the durable `row` and `member` status, the coroutine `pc`, `map` (`activeRunControllers`), signals `inner` and `outer`, `pending`, writes that nobody awaits (`unawaited`); one action per await of the dispatch and of its background job, the user's `CancelRun`, `AbortOuter`, `Clear`, the host's `Crash`, `Restart`, `Reconcile` |
| `MemberScheduler` | the wave loop of `dispatch`, `runMember`, `runMemberWithPolicy`, `diagnoseRetry` | the dispatch coroutine (`stage`, `left`, `batch`, `halt`) and one coroutine per member (`phase`, `outcome`), the row they share, the budget; `RunLifecycle` has one representative member instead |
| `Admission` | the pre-step hook, `dispatchFromTool`, modes, one-shots, receipts, start-up pruning | the tables `next`, `claims`, `rows`, memory `last`, one `pc` per hook or tool call; each section under `WriteCoordinator` is one step, because that module shows that sections do not overlap. A start is `Restart`, `PruneReceipt`, `FindClaimed`, `PruneChoice`, `Ready`, one delete a step; RPC is served from `Restart` on, hook and tool from `Ready` on |
| `DefinitionGraph` | the six definition tables and the helpers on them | operators only: validity, snapshots, pruning, `Closed`, `HistoryCurrent` |
| `AtomicDefinitions` | what `DS` promises | one action per operation, on all tables at once |
| `Definitions` | `DS` over `storage-transaction.ts` | `db`, the open unit of work `tx` as a list of storage calls, previews; `Step`, `StepFails`, `AbortOperation`, `Refuse`, then `RestoreTable`, `RestoreFails`, and `Crash`; refines `AtomicDefinitions` |
| `Continuation` | `continueFromTool`, `admitContinuation` | `rows` with receipts, `flight` (`continuationCalls`), calls; `Ask`, `ReadTeam`, `CommitReceipt`, `CommitFails`, `Launch`, `Settle`, `Delete`, `Crash` |
| `RunRequests` | `startBackgroundDispatch`, `acceptBackgroundDispatch`, `retryRun`, composed with `Continuation` | `acceptance` (`backgroundAcceptances`), the runs that are carried out (`live`); `AskForRun`, `ReadSquad`, `Put`, `PutFails`, `Withdraw`, `Restart` |
| `PlanGraph` | `validateExecutionPlan`, `executionWaves` | the sort as a machine: `StartSort`, `Place`, `FinishSort`, `Refuse` |
| `ContinuationPlan` | `prepareContinuation`, composed with `PlanGraph` | the two fixpoints `ExpandEditable` and `GrowAffected`, `CheckRequest`, `CheckEditable`, `Resubmit`, `Revalidate`, then the steps of `PlanGraph` |
| `HandoffChain` | `boundedHandoffChain` over the lengths of rows | `Measure`, `Select`, `Share`, `FillComplete`, `BeginSearch`, `Narrow`, `FillCut`, `Encode`: the statements of the function, so that its account can be proved |
| `UsageMeter` | `OfficialUsageMeter.track`, `trackAuxiliaryUsage`, `withoutLiveUsage` | the child's projection, publications under way, the live channels of the row |
| `QualityLoop` | the automatic planner (`ES:985`-`1100`) with its fallback and skip, `runQualityLoop`, `runQualityReview`, the settling writes, `runMeteringCoverage`, composed with `UsageMeter` | the loop's locals, the row, what was really spent (history); one action per awaited write |
| `RunPolling` | the client: `RunPollStore`, the Run Center component, `withRpcTimeout` | the host's rows as versions, `polls` in flight with the answer they carry, `timer`, what is shown (`runs`, `detailed`), `detailId`, the open card, the user's action; one action per callback |
| `TeamCatalog` | `AgentTeamController.load`, `mutate`, `refreshAgentTeamsOnReconnect` | the host's `log` of definition writes, `status`, `seen`, the request in flight (`load`) and the one after it (`queued`), the connection and the reconnect loop |
| `Composer` | the mode control, composed with `TeamCatalog`; `rpc.ts` `mode/*` | the host's `mode`, what is `shown`, the `read` with its retry chain, `acts` of the user at any stage; `ReadMode`, `ReadTimer`, `Act`, `ActExecuted`, `ActDelivered`, `ActFails`, `MessageSent`, `SessionLoaded` |
| `TeamEditor`, `ImportDialogs` | the draft with its conflict mark; the dialogs with file, preview and choice | operators: the state of one editor or one dialog after each event |
| `SettingsPage` | the page, composed of `TeamCatalog`, `TeamEditor`, `ImportDialogs` | tabs, `calls` in flight at any stage, `busy`; the user's steps, the host's (`Execute`, `HostPreviews`), the answers (`Acknowledged`, `Refused`, `LookArrives`, `CallFails`), other clients |
| `DefinitionProofs` (of `AtomicDefinitions`, `Definitions` and `WriteCoordinator`), `AtomicityProofs` (that `Definitions` refines `AtomicDefinitions`), `RunProofs` (of `RunLifecycle`, `ContinuationPlan` and `HandoffChain`), `MemberSchedulerProofs`, `RunRequestsProofs`, `QualityLoopProofs`, `PageProofs` (of `RunPolling` and `SettingsPage`), `ModeProofs` (of `Admission` and `Composer`) | | theorems |
| `MC*` | | values of the constants |

## Runs

Every passing run checks its liveness under the fair specification together with
its safety properties, where the module has both.
The type invariant is the first conjunct of the run's main invariant
(`ServedInOrder`, `ActiveRowIsOwned`, `StatusMatchesMembers`, `ChoicesHonoured`,
`GraphIsClosed`, `OneSuccessor`, `PlansAreExact`, `CompletedIsApproved`,
`OnePollChain`). A property that has several named parts is listed by its own
name; the parts are defined just above it.

| Run | Bounds | What it shows |
| --- | --- | --- |
| `write_coordinator` | three writers, one reader, three of them abortable | The sections run in order of arrival and never overlap (`ServedInOrder`), a versioned read sees no commit (`ReadsAreStable`), an abort at any await loses no ticket (`EveryCallReturns`), and all of it refines `FifoLock`. Four calls are enough for an aborted waiter with live calls on both sides and another abort behind it. |
| `run_lifecycle` | one foreground, one background run, retention of one row, one crash; once with an age limit and a refused job, once with failing settling writes | An active row always has somebody to settle it (`ActiveRowIsOwned`), result, row, member and whoever cancelled agree on the end (`StatusesAgree`, for background runs too), a settled row is never revived, what a foreground run settled with is final unless the settling write reported an error after it had taken effect (`RowsMoveForward`), retention and clear spare active rows, start-up marks only dead runs, and every run settles. Two runs are enough for one run's retention and start-up pass to meet the other's row. |
| `member_scheduler` | three members, all 8 dependency graphs, limits 1-3, three policies, budget none, 1 or 2 | Members start within the concurrency limit, with all handoffs, not after "stop" or a cancel, and completed work is kept (`StartsAreAllowed`), the verdict agrees with the member rows (`StatusMatchesMembers`), the overshoot of the soft budget is bounded, the dispatch settles. Three members make a wave with a batch left over, and a chain next to an independent member. |
| `admission` | one hook call at a time, a tool call, three messages, two one-shot choices, two crashes, every trigger; start-up keeps two receipts | A message starts at most one squad across hook, tool and restart, a choice is taken once, a Solo receipt binds the tool (`ChoicesHonoured`), neither a late clear nor a start takes a choice that nobody took, except one made after the snapshot of the start's pass (`UnclaimedChoiceKept`). The second crash can come in the middle of that pass. Two messages make "late" possible, the third makes start-up prune a receipt (2000 are kept in the code): of the two newest, one may be that of a late call for an older message. With a single one kept, fewer than the open calls, the property fails: the theorem assumes that many. |
| `definitions` | two clients, two operations of fifteen, one mishap (storage fault or crash) anywhere, aborts anywhere; two squads sharing agents, versions 2 and 3 of a pruned history | Each operation takes effect at once or not at all (`ImplementsAtomicDefinitions`), nothing dangles even half way (`GraphIsClosed`), the newest version is what the squad is, no version changes, what is applied is what was previewed. One operation interrupts the other's preview or validation; a third only repeats that. |
| `run_requests` | three calls, two plans or requests, a chain of runs, two writes that report an error or refused jobs, one crash, rows deleted at any time | At most one successor per plan, under a receipt written before it (`OneSuccessor`), one run per background request however often it is repeated, and duplicates share the answer (`OneRunPerRequest`), a refused request leaves no row that a repetition would be answered with (`RefusalLeavesNothing`), no replay after deletion, every call returns. `MaxContinuations` is the code's literal 1, the third run is the one that must not be. |
| `plan_algorithms` | three members, a stranger, every graph and order; every accepted source plan, completed set and request; chains of up to three handoffs of every length, of widths 0-3 | What is accepted is acyclic and keeps the planner's order; a continuation reuses only work that rests on reused work, restarts nothing independent, and its plan always validates (`PlansAreExact`). Beside them, a bounded chain keeps its budget (`ChainFits`), and leaves out and cuts no more than is fair (`ChainIsFair`), also when a narrower cut is longer than a wider one. |
| `quality_loop` | a planner that plans, fails, skips or is absent, up to two repairs, two tokens per child, fresh or inherited session, first run or continuation, budget none or tight, one failing write, a cancel | Usage is exact when the run settles and not overcounted while it runs, and metering coverage is honest (`UsageIsHonest`); no child on a spent budget, completed means approved, the run settles. |
| `run_polling` | two runs of two versions each that anyone may delete, two polls in flight; either one request that rejects and one click, or two clicks | There is always exactly one current poll or its timer (`OnePollChain`), no poll takes back what an acknowledged action did, nor misses the run it made (`PollsShowWhatWasDone`), an open view ends up with the host's rows and the open card's outputs and a closed view falls silent (`ViewCatchesUp`). Two polls in flight are a current and a superseded one; two cards let a late answer of one meet the other. |
| `composer` | a cold host with a project default and a warm one with a one-shot; two choices of the user of four kinds, one definition write, one lost connection or rejected request | A forced load holds every write before it (`RefreshIsFresh`), what rests on the screen is the mode the host will apply (`RestShowsTheMode`), the control never stays locked (`ComposerSettles`) and finds out the mode of a session that is loaded late (`ModeIsFoundOut`). Two choices are one that is given up and the one after it. |
| `settings` | four scopes: the editor beside another client, either dialog beside one, a call given up and repeated, an import under the edits of the editor | No text the user typed is lost (`TypedIsKept`), no newer record is overwritten unasked (`OverwriteIsAsked`), what is restored or imported is what the preview showed, once (`AppliedAsShown`). Each scope has two calls or one call and one write of another client: what one of them does to the other. |
One run expects a violation: it checks a statement of the repository that the
code does not keep; `PROJECT.json` quotes it under "findings".

| Run | Statement | What happens |
| --- | --- | --- |
| `admission_solo_lost` | a one-shot is crash-safe, consumed exactly once | the host dies after taking a Solo one-shot and before writing its receipt; start-up prunes the taken one-shot (`DS:676`) and the message goes to the team |

Divergences seen while modelling that no run checks, because the models state the
property for the part where it holds:

- A cancel of a background dispatch that then throws is recorded by `dispatch`
  as cancelled and overwritten with failed by its starter (`ES:1807`), which
  looks at its own signal only. `CancelHonoured` allows "failed" to background
  runs for this reason.
- A member whose tool scope is refused rejects `Promise.all` (`ES:1541`): the run
  settles while its siblings run on without a controller (`ES:1640`), although a
  long-running action is to be cancellable (`docs/v0.5-product-spec.md:12`).
  `StatusMatchesMembers` demands it of all other members.
- The hook, the tool and `resolveSquadId` read the tables outside the section
  (`index.ts:104`) and may see a compensation half done; `README.md:243` says that
  readers see the previous or the committed graph. `GraphIsClosed` holds in the
  middle of operations, compensations excepted.
- A background request that is repeated while the row of a job that was refused
  is being settled, or after that write failed too, is told "queued" for a run
  that nobody carries out; the comment at `ES:1769` means to exclude it.
  `RefusalLeavesNothing` leaves out two faults. Whoever joins an acceptance
  inherits the abort of the first caller.
- When the write that settles a run (`ES:1608`, or `ES:1440` for a skipped one) takes
  effect and rejects all the same, the catch block (`ES:1622`) writes "failed" or
  "cancelled" over the row, also over a completed one, and the dispatch throws;
  elsewhere the code reads back before it trusts a write that rejected (`ES:332`,
  `ES:1769`). `RowsMoveForward` allows a foreground row this one change.
- The pass of a start deletes the one-shots that were claimed when it took its
  snapshot (`DS:679`), one after the other and outside of the section, while RPC is
  served (`index.ts:49`, `index.ts:55`). A choice that the user makes meanwhile in
  place of a claimed one is deleted with it, though no message took it.
  `UnclaimedChoiceKept` leaves out choices made after the snapshot in place of a
  claimed one.
- `dispatch` reads its settled row back (`ES:1621`); when another run's
  retention pass or a clear removed it, the dispatch throws although the run
  completed. `StatusesAgree` speaks of results that were returned.
- A continuation's quality loop starts from what the chain spent before
  (`ES:1582`) and writes that sum into its own row at every review and repair
  (`ES:1246`); it stays there when the run fails in the loop.
  `docs/execution-chains.md:92` says that each run stores only its newly incurred
  usage. `UsageIsHonest` bounds the row of a chain's first run on the way, and
  every row at its normal end.
- A planner that failed, inherited its route and left no sample is not counted as
  an unmetered child (`run-history.ts:27`-`37`), because the fallback plan names
  no route. `UsageIsHonest` leaves this case out.
- A poll whose card was deleted resets `detailId` even when another card was
  opened meanwhile (`run-store.ts:71`), and a card's late null answer closes
  whichever card is open (`RunCenter.tsx:77`). The next render or click repairs
  the view; `ViewCatchesUp` promises the outputs of an open card only while no
  run was deleted.
- A card's own answer may put an older row over what a poll has shown since
  (`replaceRun`); the next poll corrects it. `PollsShowWhatWasDone` is about polls.
- The revision starts from 0 in every process (`write-coordinator.ts:8`), so a
  preview shown before a restart may be accepted after it. `AppliedAsPreviewed`
  is about one process.
- Tokens leave the live channel in one write and reach the row's usage in a later
  one (`ES:1258`), so the sum shown may drop for one poll.
  `UsageIsHonest` bounds it from above only.
- In the composer control, an action that was superseded and runs at the host
  later is not noticed, a consumed one-shot is shown until the next read, and a
  failed action ends the retry chain while the panel says "Reconnecting…"
  (`i18n.ts:95`). An `inherit` answered before the session is loaded is not read
  again. A refresh that fails after a write leaves the catalog in error.
  `RestShowsTheMode` leaves out what happened behind the control's back,
  `ModeIsFoundOut` speaks of the time before the user acts.
- A preview of a restore that arrives after another team was selected is shown,
  and applied, as that team's (`README.md:238`: "Restore is preview-first").
  `AppliedAsShown` marks such calls.
- Leaving the tab with a marked draft and coming back drops the mark, and a later
  save overwrites the newer record without a question (`i18n.ts:111`);
  `squad/update` itself compares no revision. Text typed while a save is on its
  way is replaced when it is acknowledged. `OverwriteIsAsked` and `TypedIsKept`
  name both exceptions.
- A forced load takes the tabs off the screen, with recipes that were pasted and
  dialogs that were open. A preview that fails after a newer import leaves
  `previewBusy` set until the next one. A recipe chosen under another policy must
  be previewed again before it can be applied.
- A serial dispatch follows waves, which with four members is not always the
  planner's `memberOrder` (`ES:1525`). `AcceptedPlanIsSound` is about the plan.

## Fairness

Weak fairness is assumed of what the event loop, the timers and storage do: a
ready continuation runs, a storage call answers, a child ends, a request of the
client is answered or rejects, a stopped host is started again. That a child
ends is the provider's part: the code adds a time-out for members, reviews and
repairs when the squad sets `memberTimeoutMs`, and none for a planner (`ES:1052`).
The client bounds every request (`withRpcTimeout`), so in `RunPolling` one that
is not answered rejects; in `Composer` also, where moreover timers fire, a lost
connection comes back and the host loads the session it was asked about.
`SettingsPage` has safety properties only. Nothing is
assumed of users, models, clients, aborts, faults and crashes. In
`WriteCoordinator` the body of a section ends because it consists of storage
calls; in `Continuation` and `RunRequests` a dispatch settles, which `RunLifecycle` and
`MemberScheduler` show. Strong fairness is used nowhere: no action competes with
another one for being enabled.

## Proofs

TLAPS proves, for every value of the constants that satisfies the modules'
assumptions:

`DefinitionProofs`, the lock (any set of writers and readers, any of them abortable;
`RevisionExact` also needs finitely many writers). `TypeCorrect` is inductive by
itself. The order of the sections is not: nothing in `ServedInOrder` says why a
call that resumes has no call before it. `ChainCorrect` proves the strengthening
`ChainInv`: types (`TypeOK`), tickets are bounded by `tail` and unique
(`TicketsBounded`, `TicketsUnique`), a live call's ticket is unreleased
(`LiveUnreleased`), and so is an orphan, an abandoned ticket that nobody holds
(`OrphansUnreleased`); who is past its predecessor has it released
(`PastPredecessor`), and tickets are released in order (`ReleasedInOrder`). A
call that is past its predecessor therefore has every earlier ticket released,
and their holders gone. From it
follow `FifoOrder`, `MutualExclusion`, `ChainNeverOvertaken`, `StableReads`, and
`RefinesFifoLock`, the step simulation of the abstract lock.

`DefinitionProofs`, the graph (any agents, squads, sessions, projects, records and
documents, any retention). `AtomicClosed`: no sequence of operations leaves a
dangling reference. The invariant is `IsGraph(graph) /\ Closed(graph)`: that the
graph is a record of the six tables is what lets an `EXCEPT` on one table say
something of the other five. Each operation has its lemma; they rest on three
facts, that recording versions of closed squads is closed (`RecordedClosed`),
that laying valid rows over a table keeps it closed (`PutAgents`, `PutSquads`,
`OverlaidClosed`), and that removing squads removes what names them
(`WithoutSquadsClosed`). `StartAssumption` says that the plugin starts from a
closed graph.

`DefinitionProofs`, the unit of work (any tables, clients and operations; faults,
aborts and crashes at any storage call; any number of them). `TablesStayClosed`
(`GraphIsClosed`): nothing dangles after any single storage call, unless a
replacement or a compensation was cut short. `GraphIsClosed` speaks of the tables
alone, and says nothing of the calls that are still to come. `DInv` does. The
calls that are left of an operation (`References`) put squads whose members are there
or are put earlier in the list, point only to squads that are, delete agents
that no squad and no later call names and squads that nothing points to any more;
each of these is stated of the list, for every call that may be the next, and kept by
any call that shortens it (`ReferencesAfter`). A replacing import leaves references
open half way, so of its list it is said what the tables will be when it is through
(`Replacing`, `ReplacedIsClosed`). Every plan of the service starts such a list
(`RunReady`). Beside it: the tables that an operation may change are captured
(`CallsLeft`), those that are not are as they were (`OutsideKept`), and a table that is
being put back holds rows of the snapshot only (`RowsRestored`), so that a compensation
ends with the snapshot, which is closed. That rows keep their types
(`TablesOK`) needs the finiteness of the tables: the versions to prune are the oldest
of finitely many. `PreviewsOfTablesApplied` (`AppliedAsPreviewed`) says of every
preview and validation under way that the tables are those it saw, or the revision
has moved since (`CallOK`); commits, compensations, crashes with a new revision
counter, and a damaged graph are the cases.

`HistoryStaysRight` (`HistoryIsRight`): between operations the newest version of every
squad is the squad and its members as they are, and no step changes a recorded version.
The invariant is `HistoryInv`, beside `DInv`. Half way through an operation the history
is behind, so of the list of calls it is said what they owe (`HistoryKept`): a squad that
differs from its newest version is still to be recorded or deleted (`Settled`); squads
are recorded after they are put, in the same list; agents are put before any squad and
before any recording, with one content each, and the squads of a changed agent are
recorded or go; an agent that is deleted is in no squad by then; and a version that is
pruned is not the newest. Each of these survives a call (`HistoryAfter`), and every plan
starts with all of them (`RunHistory`) unless it ends in a refusal and is compensated
(`Doomed`). After a failure or an abort the tables are the snapshot, whose history was right.
Versions never change because a new one takes the number after the newest (`NewestVersion`)
and a compensation puts back only rows that are missing (`VersionsOfRestore`). A crash half
way through an operation may leave a squad ahead of its history (`damage = "history"`).

`AtomicityProofs`, `ServiceIsAtomic` (`ImplementsAtomicDefinitions`): what the others see of the service,
the tables or, while an operation is under way, its snapshot (`Committed`), takes steps
of `AtomicDefinitions`, until an operation was cut short. `OnlyCommits` is its first
half: the others see a change at the last call of an operation that nobody aborted, and
at no other step; by `DInv` every compensation ends with the snapshot. The second half
is that the change is one that `AtomicDefinitions` allows. `Makes` says what each
operation makes of a graph, in the words of the abstract action, and `MakesAtomic` that
this is that action. Half way, the tables are no graph of the abstract service, so again
the list of calls carries the argument: `Leads` says that it leads from the tables of
now to one given graph, whatever the order in which the rows of each call are put,
dropped or recorded, and `CallLeads` that a single storage call keeps this. Every plan
either ends in a refusal or leads from the snapshot to what its operation makes
(`RunLeads`); deletions of an agent, imports, restores and replacements are the long cases,
since a version recorded for one squad must not depend on when those of the others are
recorded (`RecordedApart`). The invariant is `WayInv`, beside `DInv`: the calls that
are left lead to what was asked for. At the commit no call is left, so the
tables are what it makes (`CommitMakes`).

Assumed for these five: names, retention and start graph as above, the start graph typed
(`StartAssumption`) with a history that is right (`HistoryAssumption`: an empty store, or
one whose last process was not cut short), operations are those of the service
(`OperationsAssumption`), with squad records and documents that a user may write
(`ChoicesAssumption`, needed by `ServiceIsAtomic` only), the bounds are numbers.

`RunProofs`, the end of a run (any foreground and background runs, any number of crashes, any
history limit, storage that fails, refused jobs). `LifeInv` is an invariant of each
run by itself (`RunInv`), next to the types: where the controllers are while the
coroutine is at each await (`Controlled`), what its row is there (`Staged`), who
owns an active row (`Owned`), what result and member tell (`Told`) and what a
cancel decided (`Honoured`). A run's own steps keep it by cases on `pc`; the
other runs are touched only by clear, retention and start-up, which remove or mark
rows that were settled, or dead, when they were looked at. This is what `Owned`
says of `doomed`: between the look of retention and its deletion a row stays
settled, since a run that wrote its settled row writes no fresh one (`Over`).
`ActiveRowsAreOwned`, `RunsEndAlike` and `RowsOnlyMoveForward` follow. A settling write
may land and reject, so at the catch block the row of a run may be settled already;
`Staged` allows it there, and `RowsOnlyMoveForward` that the catch block replaces it.

`MemberSchedulerProofs` (any number of members, any acyclic dependencies, limits,
policies, budgets, failures and cancels). A member's number is larger than those of
its dependencies, so the recursion for its wave ends (`WavesExist`,
`WavesOrdered`); batches are within the limit (`BatchesAreBounded`) and hold
members whose dependencies are in earlier waves (`BatchesAreReady`).
`SchedulerInv` says where every member stands in the order of waves (`Placed`),
what its row, its coroutine and its result are at each phase (`MemberInv`), what
holds at each await of the wave loop (`StageInv`), and it charges an attempt to the
budget when it begins (`Budgeted`): what was spent plus what is under way exceeds
the budget by less than the limit. `TheVerdictIsTrue`,
`TheBudgetIsNearlyKept` and `MembersStartWhenTheyMay` follow.

`RunRequestsProofs` (any calls, plans, requests and runs, any limit of the chain,
any faults, crashes and deletions). `PlanContinuedOnce`: a run has one successor at
most, under the receipt that names it. `OneSuccessor` alone does not say why a
launch finds no earlier one: the source's row, and its receipt with it, may be
gone. `PlanInv` adds that an identity that waits for its row is used by nothing
else (`NamesAreUnused`) and held once across continuations and acceptances
(`NamesAreDistinct`), so that no new row replaces a receipt, and that what is
admitted has no successor and is launched under its receipt (`AdmittedOnce`).
`DeletedStaysDeleted` (`NeverReplayed`) follows from the same invariant: a row
that appears has an unused identity. `OneRunForARequest` and `RefusalsLeaveNothing`
need what an acceptance, its callers and its run know of each other
(`RequestInv`): whoever waits or was answered asked for that plan or request
(`CallsInv`), an identity that waits for its row was never asked for, and two runs
that are carried out serve two requests (`AskedInv`), a receipt leads to a
successor that was launched or that only its own continuation can launch
(`ReceiptsLead`), and a row is withdrawn only after a fault, so that a withdrawal
that fails is the second one (`WithdrawnInv`). `NothingAssumption` says that null
is neither a receipt nor a run.

`QualityLoopProofs` (any tokens a child may spend or inherit, any budget, any
usage of earlier runs and members, at most two repairs, which is what a squad may
ask for, any cancel and any number of failing writes). Four parties count the same
tokens and agree only now and then: the children, the meter of the child under
way, the loop and the row. `IInv` says for every stage who already knows of what:
the samples on their way and the live channel cover no more than the child used,
and nobody else's channel shows anything (`Meters`); the row is behind the list of
the loop by exactly what its stage says (`Listing`, `Following`); the loop's count
lacks what the child under way holds (`Counting`) and is the sum over its rounds
(`Adding`), so that the sum `dispatch` forms from the rounds at the end is what was
spent; a child that ended without a sample is a zero that the row shows or that the
loop is about to record (`Silence`). `UsageIsAlwaysHonest`,
`CompletedRunsAreApproved` and `ChildrenStartWithinBudget` follow.

`RunProofs`, the plans (any squad, any proposal, any request, any failures;
strangers, repeats, loops and circles included). `PlansAreAlwaysExact`: the sort places
the planner's order, member by member (`SortInv`: what is placed is the head of that
order, the queue holds exactly those who wait for nobody else, and an in-degree counts
who is waited for), since in a well-formed plan the next of the order is always ready
and first (`FirstIsNext`), and such an order leaves no circle (`NoCircle`). The waves
of a plan in that order end with every member (`WavesDoEnd`), and of whatever waves end
the concatenation is a valid order (`FlatOrders`): this is why the plan that
`prepareContinuation` makes passes the validation. `ContinueInv` says that the sets
hold the failures and no more than every set that is closed under what rests on a
failure (`FailuresAreIn`). A new dependency leads nowhere else because only editable
tasks may be changed (`NewDepsLeadNowhere`), and a pass that adds nothing has seen a
closed set (`PassIs`). `SourcesAssumption` says that a run that is continued had an
accepted plan.

`RunProofs`, the handoffs (any budget, any deliveries, any lengths of cut texts, any
frame that fits by itself and gets one character longer at most when one more row
is omitted, as the decimal in it does). `ChainKeepsBudget`: what
`boundedHandoffChain` returns is within the budget. The invariant `Account` says
that what is used and the shares of the rows still to be filled never exceed the
budget: a selected identity is paid for (`Selecting`), the shares of all rows fit
into the rest (`SharesFit`), a filled row takes its own share only (`FillAccount`),
since the search goes on from widths that were tried (`Searching`). Nothing is
assumed of the order of lengths. `ChainIsAlwaysFair`: nobody is left out who would
fit, and everybody else gets the same share. The difficult part is that a row left
out early is compared with a chain that became longer since, and whose number of
omitted rows became shorter; `FairInv` carries that comparison along
(`LeftOut`, `KeptMakesLonger`) and the share that the filled rows respected
(`WithinShare`). That the length of the chain is the sum of its rows rests on four
lemmas on sums (`TotalsAre` to `JoinedExcept`).

`PageProofs`, the Run Center (any runs, polls in flight, failures and clicks).
`PollsAreOneChain`: besides the chain itself (`Chain`, without counting) the
invariant needs that nothing was sent before the component is there
(`NothingSent`), so that no late answer finds a mounted store without its poll,
and that outputs are asked for of a run (`WantsARun`). `PollsShowNothingUndone`
(`PollsShowWhatWasDone`): the host's rows only get newer, so what they were at the
last acknowledgement is a lower bound (`FloorIsPast`); a current poll carries
nothing older (`FreshPoll`), because an acknowledgement starts a poll that has read
nothing and makes every other one stale (`RefreshedPollIsFresh`).

`PageProofs`, the settings page (any teams, texts, documents and dialogs, any number
of calls, writes by others and faults). `PageInv` has a part for each property and
two that they share: a tab keeps something only while the catalog is ready, so what
arrives for a tab that is gone finds nothing to change (`TabInv`), and a draft is the
record it started from or what the user typed (`EditorInv`). `TypedTextIsKept`
(`TypedIsKept`): a save that was executed has put the user's text into the log, and
who asks for a restore has given it up, so the load that ends the call may replace the
draft (`TypedInv`). `OverwritesAreAsked` (`OverwriteIsAsked`): the record an unmarked
draft started from is the catalog's (`BaseInv`), which no later write changes
(`RecordStays`). `PreviewsAreApplied` (`AppliedAsShown`): the guard of the backup
dialog compares the mode only; that the preview is of the document in the dialog holds
because whoever changes the one drops or asks again for the other (`Agrees`), and a
preview of a version is of the selected team or known to be late (`ShownInv`).

`ModeProofs`, admission (any number of hook and tool calls, messages, choices and
crashes). `ChoicesAreHonoured` (`ChoicesHonoured`): a message is claimed by one call
before it is started, and what was started keeps its receipt or is not asked for any
more (`ServedInv`, `Gone`). The difficult part is pruning. A call for an older message
may write its receipt after that of the latest one and so push it out; `ReceiptsInv`
says that behind the latest message's receipt there is room for those of all calls
that are late (`Behind`), so it is among the newest that start-up keeps. This rests
on `AdmissionAssumption`: start-up keeps as many receipts as calls may be open at
once. The code keeps 2000 of all conversations together and the model has one of
them, so the assumption is that the others leave it that many; nothing in the code
enforces it. `UnclaimedChoicesStay` (`UnclaimedChoiceKept`) follows from the same
invariant: a clear is for a message that was sent, which an unclaimed choice does
not name. Of a start it needs `PassInv`: the choice that the pass found claimed is
an older one than any unclaimed choice that is stored later.

`ModeProofs`, the composer control (any number of writes, choices and faults). `ForcedLoadIsFresh`:
nothing the client holds or waits for is newer than the host's log (`CatalogOK`),
so what a request brings when it is answered holds every write there was when
it was asked for. `RestIsTrue` (`RestShowsTheMode`): of all the requests on
their way one is heard at most, a read or the newest action (`OneIsHeard`), a
project that an answer names is that of a loaded session (`KeysAreKnown`), and the
answer that is heard is the mode the host has, as long as nothing happened behind
the control's back, which the property leaves out (`AnswersHold`).

Recursive functions are taken apart by least counterexamples: the set of the inputs
for which a statement fails has a least element (`Least`, from the well-founded
order of the naturals), and that one is refuted. `UpTo` says it for a set of indices and
`Iterates` for a recursion whose steps are functions: with the second, passes, waves and
kept nodes exist and are what their definitions say. The library's induction theorems
cannot be used, since they have an operator as a parameter.

Only model-checked: liveness (fairness and ENABLED are out of the prover's reach).

## Not modelled

Texts, prompts, wording and layout; parsing, remapping and credential checks of
recipes (`recipes.ts`); stateless predicates (`delegation-policy.ts`,
`retry-diagnosis.ts`, whose outcomes are choices of `MemberScheduler`); shapes
and validation of RPC; `list`, `exportRun` and `insights`, which only read.
Storage, child sessions, the job starter and the session
log belong to the host and appear as they are used: a call that answers, rejects,
or rejects after it took effect (in `Admission` storage does not reject, and a start
whose pass fails is a crash). Legacy records and member order are left out of
the definitions, the four token buckets are one number, and project defaults and
inheritance are folded into the session mode of `Admission` (`Composer` has them).
A crash inside a replacing import or a compensation may lose rows; the model
allows it, as nothing is promised there.

Of the client: React is taken to render at once. `Composer` has one team and one
session. `SettingsPage` leaves out the members' tab, which works like the teams'
one, creating, cloning and deleting a team, the plan preview and the diagnosis;
its user says yes to every question. The insights panel and the dock are left out.
Members' own usage meters are not composed with `MemberScheduler`; `QualityLoop`
has the same meter around planners, reviews and repairs.

## Plan

Done, in this order: `WriteCoordinator`, `RunLifecycle`, `MemberScheduler`,
`Admission`, `Definitions`, `Continuation`, `PlanGraph`, `ContinuationPlan`,
`QualityLoop` with the planner, `RunPolling`, then `RunRequests`, `TeamCatalog`,
`Composer`, `SettingsPage`, `HandoffChain`; the abstract specifications `FifoLock`
and `AtomicDefinitions`; the proofs above.

What is left of the model: metering of members beside `UsageMeter` and
`MemberScheduler`, the remapping of recipes, the members' tab.

What is left of the proofs: liveness stays with TLC; the invariants, action properties
and refinements of the runs are proved.

# Formal models of public-dynasty-app

The application grades dynasty fantasy leagues and publishes paid, machine-written prose and narrated videos about
them. Grading is pure computation. What is hard is the rest: several processes spend real money on provider calls,
on behalf of owners who pause, cancel and correct work, over a database that must survive crashes and restores
without ever buying the same text twice. These TLA+ modules model that part, TLC checks them on small instances, and
TLAPS proves the main theorems for every value of the constants.

Paths are relative to the repository; `gen/` stands for `api/app/services/generation/` and `recap/` for
`api/app/services/recap_video/`.

## The system

| Component | State | Operations | Hard behaviour | What makes it correct |
|---|---|---|---|---|
| Generation ledger (`gen/commands, gateway, worker, artifacts, administration, provider_control`) | `GenerationOperation` (state, generation = fence, lease, calls, expected artifact), `ProviderAttempt` (one per job and stage), `ArtifactHead`, `GenerationControl` (hold, breakers, epoch), `ProviderAccountControl` | authorize, claim, invoke a stage, record and reconcile receipts, publish, cancel, resume, resolve an attempt, pause, reset | several workers, lapsed leases of live workers, crashes between any two transactions, answers that come late, owner decisions while work runs | no stage is sent twice; one owner; one request in flight; uncertain work is not replaced; published work is paid; ends are final |
| Budget (`gen/recap_budget, accounting`) | `RecapBudgetPlan`, `RecapBudgetAllocation`, caps per episode, league, month, app | reserve a plan, bind, settle, release, reconcile, accept, save caps | reservations carried over month ends, allowances replaced by their calls, overruns, unknown prices | a limit is passed only by lowering it or by an overcharge, and then nothing is added |
| Import queue (`gen/commands, worker`, `refresh_service` around it) | refresh operations, submissions under idempotency keys, cooldowns | submit, claim, heartbeat, throttle, defer, cancel, resume | retries, cooldowns shared by leagues, lapsed leases, reconnected accounts | one import of a league and kind; one owner; no request while Yahoo asked for a pause |
| Planning and admission (`gen/planner, worker.admit_automatic, administration`, `recap/readiness`) | `GenerationCandidate`, `GenerationPolicy`, `RecapEpisode` | observe, admit, collect, verify the grant, authorize, pause, resume, change mode | facts, grants and settings that change between the transactions | what is bought on its own is settled, current, verified and new |
| Restore (`gen/recovery`, `scripts/recap_maintenance`) | backup, deployment configuration, evidence, epochs, reports | back up, quarantine, export, restore, reconcile, reopen, activate | sends and decisions made after the backup are not in it; an emptied hold or an old report survives | a restored system shows, sends and executes nothing that contradicts what happened after the backup |
| Outbox (`gen/publication`) | `GenerationOutbox`, files | drain, project, retry | a file is written and its acknowledgement fails; items are superseded during a pass | no stale revision overwrites a newer one; every item settles |
| Media stages (`recap/workflow, recovery, corrections, admin_actions, narration_budget`, `routes/media_worker`) | `RecapStage`, `RecapProviderAttempt`, leases, envelopes | claim, heartbeat, dispatch, receipts, complete, retry, recover, adopt, replace, skip | external worker over HTTP, lapsed leases of paid stages, late receipts, corrections under way | each chunk is bought once; results rest on saved work; late answers only charge |
| Publication (`recap/publication, analyst, article_resume, editorial_revision`) | article revisions and files, `RecapPublication` (authority, projected and share revisions), approvals, shares | revise, approve, select, project, share, permit, withdraw, read | revisions, facts and permissions that move between selection, projection and read | readers see only the reviewed, current, permitted edition |
| Retention and backups (`recap/retention, storage`, `gen/backup_state`) | objects, assets, deletion claims, recovery points, backup bucket | upload, register, list, claim, unlink; dump, pin, copy, complete, expire | cleanup and backup interleave outside the lock and either dies | nothing in use, published or named by a backup is removed |
| Media machine (`media/controller/*.mjs`, `media/worker.py`) | phase file, cloud VM | reconcile, watchdog | crashes between saving a phase and calling the cloud | at most one machine; launches limited; destroyed in the end |
| Yahoo connection (`api/app/services/yahoo_connection, yahoo_discovery, platform_client`) | consent under way, tokens, generation, league grants | start, complete, renew, list, ensure a grant, disconnect | the lock on the user is given up around renewals and the exchange of a code | only the newest consent connects; a league is opened on a fresh listing to the account that is connected |
| Recap monitor (`api/app/services/recap_monitor`) | lease, observations, alerts | claim, collect, recover, finish, deliver | several replicas with old clock readings, lost answers, outages of the sources | a blocker is mailed once; held work is resumed twice at most |
| League cache, HTTP routes and pages | files | read, fetch | retries of idempotent reads | outside the models, see below |
| Grading engine, writers' prompts, media processing | none | pure functions | none that is concurrent | unit tests |

**How they interact.** A route or the scheduler inserts a job. A worker process (`worker_loop`) ticks: it settles
receipts a crash left behind, drains the outbox, advances media, claims one job (an import or a paid text), and runs
it in a thread. An import observes weeks and collects candidates; `admit_automatic` turns the eligible ones into paid
jobs. The writer asks `Gateway.invoke` for stage 1, 2, ...; each call reserves and binds its share of the budget, is
admitted in one transaction, sent without a transaction, and its receipt recorded in two more; a third checks
ownership again before the text is used. `save_artifact` publishes and enqueues the projection that the outbox writes
to files. The published script opens the media stages, whose worker runs on the media machine and talks to the API
over HTTP; the finished film is selected and projected for readers. The cleanup and the backup work on the stored
media beside all this. Owners act on all of these rows at any time. Every transaction first locks the one
`generation_control` row (`gen/store.py:50`), so transactions are serial and the models take each one as a step; what
interleaves is transactions, and everything a process remembers from one to the next.

## Modules

| Module | What it is |
|---|---|
| `PaidWriting` | The abstract promise about money: calls bought once while work is open, prices final, delivery only of charged work |
| `GenerationLedger` | The ledger: one action per transaction or outside event; its properties; the refinement to `PaidWriting` |
| `GenerationLedgerInvariant`, `GenerationLedgerProofs` | Its inductive invariant, and the proofs: types first, then everything else |
| `MediaPipeline` | What the media checkpoints promise of a run of a script: stages in order, each narration bought once |
| `MediaStages` | The media checkpoints, the workers on them, recoveries and operators; the refinement to `MediaPipeline` |
| `MediaStagesInvariant`, `MediaStagesProofs` | Its inductive invariant, and the proofs of its safety properties and of the refinement |
| `Publication` | One edition: article revisions and files, outbox and drain, reviews, selection, sharing decisions, what readers are served |
| `PublicationInvariant`, `PublicationProofs` | Its inductive invariant, and the proofs of its safety properties |
| `RecapBudget` | The limits of a series and of the app over two calendars, with the invariant |
| `RefreshQueue` | The queue of imports, with the invariant |
| `AutomaticPlanning` | From observed weeks and trades to automatic purchases, with the invariant |
| `GenerationRestore`, `GenerationRestoreProofs` | Backup, quarantine, restore, reconciliation and reopening, with the invariant; its theorems |
| `MediaRetention`, `MediaRetentionProofs` | Stored media, its cleanup and its backups, with the invariant; its theorems |
| `YahooConnection`, `YahooConnectionProofs` | The Yahoo account of a user, and the leagues opened on it, with the invariant; its theorems |
| `RecapMonitor` | The replicas that watch the recaps, resume held work and mail the owner, with the invariant |
| `MediaController`, `MediaControllerInvariant`, `MediaControllerProofs` | The cron service that creates, bootstraps, drains and destroys the media machine, with the worker on it and the cloud provider as partners; its invariant and theorems |
| `RecapWatchdog` | The watchdog that mails the owner about a sick recap monitor, with the invariant |
| `MCGenerationLedger`, `MCMediaController`, `MCMediaStages`, `MCPublication`, `MCAutomaticPlanning` | Instances of one module each for TLC |
| `MCRecovery` | The ledger and the media stages under fairness, one of them in a behaviour |
| `MCOperations` | Instances of `RecapWatchdog`, `RecapBudget`, `RefreshQueue`, `AutomaticPlanning`, `GenerationRestore`, `MediaRetention`, `YahooConnection` and `RecapMonitor`, one of them in a behaviour. Their constants are constants here, so that what is proved is proved for all of their values; where a module has proofs of its own, the instance is of these |
| `OperationsProofs` | The theorems about `RecapWatchdog`, `RecapBudget`, `RefreshQueue`, `AutomaticPlanning` and `RecapMonitor`, and about the composition |

What a module leaves to another is named in its header. The modules share no variables: each keeps of its neighbours
what its own guards read, and takes their changes as steps of its environment. `AutomaticPlanning` has the state of a
job that decides its admission and leaves its calls to `GenerationLedger`; `GenerationLedger` and `MediaStages` take a
refused reservation as a gate that may refuse, and `RecapBudget` takes their dispatches in any order.

### GenerationLedger and the code

| Model | Code |
|---|---|
| `job[j]`: `state`, `fence`, `calls`, `reason`, `expected` | `GenerationOperation.state`, `.generation`, `.calls`, `.reason`, `.expected_artifact` |
| `job[j].live` | `lease_until > now`; a heartbeat keeps it, `LeaseLapses` ends it, also under a live worker |
| `attempt[j][s]` | the `ProviderAttempt` row unique for (operation, stage) |
| `alloc[j][s]` | the `RecapBudgetAllocation` of that stage: none, reserved with the plan, bound at dispatch; `actual` = `actual_microusd` |
| `head[u]` | `ArtifactHead.artifact_id` |
| `hold`, `account`, `failures` | `GenerationControl.hold`, `ProviderAccountControl`, the breaker of the one feature |
| `worker[w]` | local variables of `Worker.tick`, `Gateway.invoke` and `reconcile_receipts`; lost by `Crash` |
| `sends` | history only: how often a stage's request went to the provider |
| `BeginTick`, `ReconcileReceipt`, `ReconcileConflict` | `Gateway.reconcile_receipts`: the read, one transaction per receipt, and the exception that ends the tick |
| `Claim` | `claim_operation`, giving up every lapsed lease first |
| `Replay`, `Refuse`, `Dispatch` | the first transaction of `Gateway.invoke`: saved checkpoint, a gate, or admission |
| `Answer`, `SendFails` | `transport.send` |
| `SaveReceipt`, `SettleReceipt`, `ReceiptNotRecorded`, `UseReceipt` | `record_receipt`'s two transactions and the ownership check behind them |
| `GenerateFails`, `Publish`, `PublishRefused`, `HandleFailure`, `LoseOwnership` | `Worker.tick` after the writer |
| `Shutdown`, `Crash` | cancellation of the tick, whose writer thread runs on; death of the process |
| `Authorize`, `Cancel`, `ResumeJob`, `ResolveAttempt`, `ReconcileAllocation`, `Pause`, `ResumeControl`, `ResumePolicy`, `ResetBreaker`, `ResetProvider`, `ImportArtifact` | the owner's and scheduler's transactions of the same names |

Abstractions, each of which lets the model do at least what the code does unless stated:

- Gates that read policy, grants, actors, capabilities, budget caps or the request itself may refuse at any time, so
  `Refuse` and `PublishRefused` do not look at the ledger. Admission and publication themselves keep every ledger
  guard of the code.
- `claim_operation` takes the oldest eligible job and at most 50 lapsed leases; the model takes any job and all
  lapsed leases.
- Answers are of six kinds: priced text, a proven unbilled rejection (400), success without a provable price
  (`response_invalid` and `pricing_unknown` together), refused credentials (401, 403), throttled (429 and other
  4xx), and a server error. The account holds `provider_auth_failed` and `accounting_attention` are one value.
- One series, one provider account, one feature, both concurrency limits one, as at launch
  (`docs/superpowers/specs/2026-09-30-admin-process-hardening-design.md`).
- The plan of all stages is reserved with the first call, as recap features do; other features reserve per stage,
  which is the same for jobs of one stage. The retained narration envelope is left out.
- A replay sends the same request, so `checkpoint_request_changed` does not occur.
- `resolve_attempt` demands that the owner attests the sending worker stopped. The model takes this as true
  (`SenderStopped`), and lets the owner be wrong about everything else, above all about `not_sent`.
- The reviewed exception that lets one repair job follow a lost review call, the requeue of a recap correction
  whose source is unavailable and the operator's repricing of a settled receipt are not modelled.
- Fences are bounded by `MaxFence` in the guards of `Claim`, `Cancel` and `ResolveAttempt`, the only unbounded
  counter that is bounded; the theorems hold for every bound.

### MediaController and the code

| Model | Code (`media/controller/`) |
|---|---|
| `disk` | the state file of `store.mjs`: `phase`, `nonce`, `id`, `createdAt`, `lastDemand`, `launches` |
| `mem`, `at`, `needed` | locals of `reconcile`: the state read and changed, the clock and the demand read; lost by `Exit` |
| `pc` | the next call or save of `reconcile`; `down` between cron runs, `loop` between two rounds of `main.mjs` |
| `requests`, `vm` | external: the create requests the provider was sent, its machines, and the worker's container on each |
| `Resume`, `StayIdle`, `Reserve` | the reads at the head of `reconcile`, the return when there is nothing to do, and the launch that is counted and saved before the provider is asked |
| `Create`, `CreateAnswers` | `cloud.create`: the request, and the answer with the machine's identity |
| `Adopt`, `CreationPending`, `CreationExpires` | phase `creating`: `cloud.find` by nonce; wait; give up after the creation wait |
| `ConfirmDestroyed`, `DestroyAgain`, `Expire`, `Starting`, `AskDrain`, `Serve` | what follows `cloud.status` |
| `Start`, `Drain`, `Acknowledged`, `Destroy` | `cloud.bootstrap`, the drain command and its answer, `cloud.destroy` |
| `Claim`, `EndTick`, `Park`, `Die`, `Restart` | `serve` in `media/worker.py`: a tick with work, its end, the drain it acknowledges; the container's death and its restart policy |
| `Provision`, `Boots`, `Fails`, `Finish`, `Reap` | external: the provider |

- `Exit` is a crash, an exception, a lost answer or the deadline of the loop. A call takes effect in its own step, so
  a call whose answer is lost is that step followed by `Exit`, and a call that never arrived is `Exit` instead of it.
- A create request is carried out late, up to `Copies` times, or never. The provider may stop any machine at any
  time. `find` runs a command on each machine, and passes over one whose command fails: so it may miss a bearer
  of the nonce; two bearers are an exception.
- `launches` in the file is a list of times; the model keeps the nonce beside each time, so that two launches at one
  time are two. The window is about the times at which launches were reserved, as in the code.
- The clock advances between any two steps; the four durations keep their order (see the bounds).
- Only `serve` of the worker is modelled, and of it what the controller sees: idle, in a tick, parked, and the two
  files of the drain, which die with the container.

### RecapWatchdog and the code

| Model | Code (`media/controller/watchdog.mjs`) |
|---|---|
| `file`: `checkedAt`, `incident` with `id`, `since`, `sent`, `firstSendAt`, `payload` | the watchdog's state file |
| `mem`, `at`, `pc` | its locals; lost by `Stop` |
| `Check`, `Healthy`, `Unhealthy` | the due check, the probe, and what is saved before an alert is considered |
| `Envelope`, `Send`, `Accepted` | the envelope saved before it is sent, the request, and the mark behind it |
| `Configure` | a new deployment with another `to` |
| `sends`, `delivered` | external: the mail provider, which takes a second message with a key it knows for the first |

A payload is its reason and its recipient. `Timeout` bounds the time between the clock read and the request: the
probe and the request have timeouts of their own. The assumption that `SendWindow + Timeout <= ProviderWindow` is
what the code's 23 hours against the provider's 24 are for.

### MediaStages and the code

| Model | Code (`recap/` unless a path is given) |
|---|---|
| `stage[c]`: `state`, `gen`, `live`, `owner`, `failures` | the `RecapStage` row of an episode, an execution revision and a position: the narrations of the chunks, then speech check, render, film check |
| `attempt[c]`: `state`, `cost`, `receipt`, `settled`, `recovered`, `adopted` | the `RecapProviderAttempt` of a narration |
| `alloc[c]`, `envelope[e]`, `waived` | its budget allocation; the narration envelope of the script; the lost calls the owner accepted |
| `lookup[c]` | the `RecapRecoveryRequest` |
| `worker[w]` | locals of `run_claim` and `recover_narration` in `media/worker.py`; `Forget` is a crash, a lost answer or a refusal |
| `sends` | history only: requests the provider was sent |
| `Claim`, `Lapse`, `CompleteFree`, `CompleteNarration` | `claim_stage` with `_expire` and `_retry_free`, time, `complete_stage` |
| `Authorize`, `Send`, `SaveIdentity`, `SaveReceipt`, `SettleReceipt`, `Upload` | `authorize_dispatch`, the transport's request, `persist_identity`, the two transactions of the receipt route, the upload |
| `ReconcileSaved`, `ReconcileConflict` | `reconcile_media_receipts` |
| `ClaimLookup`, `FetchHistory`, `SaveRecovered`, `SettleRecovered`, `FinishLookup`, `Adopt` | the history recovery and the audited adoption of what it found |
| `SkipVideo`, `ResumeFree`, `Replace`, `ReconcileRequest`, `Invoice`, `ResetProvider` | the operator's actions of `admin_actions`, `corrections` and `gen/` |
| `RenewPreflight`, `DependencyChanged`, `FactsChanged` | what the week's facts and dependencies do to a film under way |

Gates on state kept elsewhere may refuse at any time and then change nothing. One provider account, one script for
each episode; back-offs are always over. The preflight stage only gates and is not a position of its own.

### Publication and the code

| Model | Code (`recap/` unless a path is given) |
|---|---|
| `artifacts`, `head`, `archive`, `outbox`, `pass` | article revisions of the ledger, the head, the file of each revision, `GenerationOutbox`, and the items a running `drain` still has to visit |
| `edition`, `pointer`, `share`, `future`, `approvals` | `RecapPublication`, its projected pointer, the sharing decisions, the recorded reviews |
| `episode`, `settings`, `serving` | the observed period, the revision of policy and control, the serving gate |
| `history` | how the edition came to be shared and whether a video awaits its resumption (history only), and which articles were resumed, the audit record that `Resumed` reads for the API's own reviews |
| `SaveArticle`, `Revise` | `save_artifact` of the weekly writer; `editorial_revision.revise`, whose file is written before its transaction commits |
| `StartDrain`, `ProjectArticle`, `ProjectSelection`, `DrainDies` | `gen/publication.drain`: the list, one transaction per item with the file inside, the process's death between file and commit |
| `Approve`, `Select`, `ChangeShare`, `SetFuture`, the helper `Withdrawn` and the bootstrap inside the projection | `publication.py`, functions of the same meaning |
| `ObserveSame`, `ObserveIncomplete`, `ObserveChange` | `readiness.observe_period`, with the withdrawal, the retirement of unprojected articles and the holds it calls |
| `ResumeVideo`, `FinishFilm`, `RetryProjection` | `article_resume.resume_video`, the end of the last media stage, `retry_projection` |
| `PublicView`, `MemberView` | `authorize_public_read`, `authorize_member_read` |

### The services of MCOperations

| Module | State and actions | Code |
|---|---|---|
| `RecapBudget` | `allocations`, `plans`, `caps`, `appCap`, `holds`, a clock over two calendars; `Reserve`, `Dispatch`, `Receive`, `Invoice`, `Accept`, `Release`, `SaveCaps`, `SaveAppCap`, `ClearHold`, `Tick` | `gen/recap_budget.py`; the recap month is local, the app's is UTC; a caller in `Early` read the clock before it waited for the lock |
| `RefreshQueue` | `jobs`, `answers` (idempotency keys), `running` (what a worker holds), `accounts`, `memberships`; `Submit`, `Claim`, `Heartbeat`, `Finish`, `Fail`, `Throttled`, `NotReady`, `NotPermitted`, `Lost`, `Shutdown`, `Crash`, `Cancel`, `Resume`, `Reconnect`, `Disconnect`, `Leave` | `gen/commands.py`, `gen/worker.py`, `gen/yahoo_backoff.py`, `gen/readiness.py`, `gen/administration.py` |
| `AutomaticPlanning` | `episode`, `candidate`, `job`, `series`, `mode`, `paused`, `renewed`; `Observe`, `CollectWeeks`, `Collect`, `Renew`, `RenewFails`, `Admit`, `Take`, `Work`, `Approve`, `Pause`, `Resume`, `SaveMode` and the owner's job actions | `recap/readiness.py`, `gen/planner.py`, `gen/worker.py`, `gen/yahoo_authorization.py`, `gen/administration.py`; `seen` and `backlog` are history |
| `GenerationRestore` | `config`, `evidence`, two databases, `active`, `backup`; `Backup`, `Enter`, `Export`, `Restore`, `Reconcile`, `Reopen`, `Activate`, `Serve`, and what members, owners and workers do before and after | `gen/recovery.py`, `scripts/recap_maintenance.py`; `truth` and `sent` are history |
| `MediaRetention` | takes, objects, assets, deletion claims, recovery points, the backup bucket; `Start`, `Store`, `Register`, `Finish`, `Publish`, `List`, `Claim`, `Unlink`, `Unlinked`, `BeginSnapshot`, `Dump`, `Pin`, `Copy`, `Own`, `Complete`, `Fail`, `Abandon`, `Expire`, `Retire` | `recap/retention.py`, `routes/media_worker.py`, `backup_service.py` |
| `YahooConnection` | `pending`, `connection`, `grants`, `lock` (the row of the user), `requests`; `Start`, `Consume`, `Exchange`, `Disconnect`, `Ask`, `Look`, `LookAgain`, `Take`, `Renew`, `Reload`, `Discover`, `DiscoverFails`, `HandOver` | `yahoo_connection.py`, `yahoo_discovery.py`, `platform_client.py`, `auth/deps.py`, `routes/me.py`; `membership` is Yahoo's; `heard` and `opened` are history |
| `RecapMonitor` | `row`, `alerts`, `replicas` (the locals of a wake-up); `Wake`, `Look`, `Recover`, `Report`, `Fail`, `Claim`, `Send`, `Record`, `Sleep` | `recap_monitor/state.py`, `runner.py`, `recovery.py`, `collect.py`, `mail.py`; `work` and `owner` are the surroundings, `accepted` the mail provider's memory; `resumed` and `mailed` are history |

Their simplifications are in the headers of the modules. Four are worth a reader's attention. A restore's operator
exports the evidence from the database the services use now; `export_restore_authority` does not refuse another
source. An operator who abandons an upload is right that the uploader has stopped. Facts of a week are a version that
may return to an earlier value in `AutomaticPlanning` and may not in `Publication`. A wake-up of the monitor lasts
`Stall` at most, so that `Window + Stall <= ProviderWindow`: the code sends with the time it read when it woke up, and
nothing but its timeouts keeps a slow replica inside the hour between its 23 and the provider's 24.

## What TLC checks

No run but `one_machine`, `machine_ends` and `drain_forgotten` checks for deadlock: with every job ended, every bound
reached and nothing left to ask for, the other systems rightly stop.

| Run | Instance | Properties | States |
|---|---|---|---|
| `one_job` | 1 job, 2 stages, 2 workers, all answers, prices 1 and 2 against a ceiling of 1, an invoice, imports, fence up to 3 | `TypeOK`, `ExclusiveOwner`, `MoneySound`, `TerminalIsFinal`, `ImplementsPromise` | 644,085 |
| `two_jobs` | any 2 of 3 jobs, two of them for one subject, 1 stage, 2 workers, imports | `NoBlindReplacement`, `OnlyImportOvertakes`, `OneInFlight` | 741,860 |
| `recovery` | the ledger with 1 job and 2 workers, or the media of 1 chunk, under fairness | `LapsedWorkRecovers`, `SavedReceiptIsCharged`, `ReceiptsSettle`, `OutcomesDecided` | 63,797 |
| `late_receipt` | 1 job, 1 stage, 2 workers | `LateReceiptSettles`, violated | |
| `media` | 2 chunks, 2 execution revisions, 2 workers, five scenarios | `TypeOK`, `PurchasesSound`, `MoneySound`, `ResultsSound`, `LateAnswersOnlyCharge`, `PipelineSpec` | 298,874 |
| `publication` | 1 edition, up to 3 revisions, five scenarios, fairness of the drain | `TypeOK`, `ReadersServed`, `ArchiveSound`, `ProjectionsOnlyAdvance`, `OnlyReviewReopens`, `ItemsSettle` | 176,020 |
| `hold_forgotten` | 1 edition, 2 revisions, 5 observations | `ResumeIsExplicit`, violated | |
| `operations` | one of twelve parts in a behaviour | `TypesOK`, `MailedOnce`, `ToTheOwner`, `LimitsKept`, `ImportsInTurn`, `OnlyNewsIsBought`, `RestoreForgetsNothing`, `MediaIsKept`, `ConnectionFollowsConsent`, `MonitorAsksOnce` | 988,097 |
| `backlog_bought` | 1 week, 2 commands, 3 observations | `ResumeNeverBuys`, violated | |
| `one_machine` | 3 machines, 3 nonces, doubled creations, clock up to 3, containers do not die | `TypeOK`, `OneCredentialedMachine`, `LaunchLimit`, `NoBlindCreate`, `IdlenessNeverInterrupts` | 935,631 |
| `machine_ends` | 1 machine, 2 nonces, containers die, fairness | `MachinesEnd` (`LifetimeEnds`, `CreationHoldEnds`) | 55,144 |
| `drain_forgotten` | 1 machine, containers die | `IdlenessNeverInterrupts`, violated | |

**What the properties say.** Of the ledger: one worker owns a job, money agrees between attempts and allocations and
nothing published is unpaid (`MoneySound`), ends stay, a job overtaken by an import never publishes, and the promise of
`PaidWriting` is kept. Of the media: a chunk is bought once and only with money set aside for it, a result rests on
saved work all the way down, a late answer charges and does no more, and the abstract pipeline is implemented. Of the
edition: what a reader is served was reviewed for that reader, is permitted and is the newest the archive was given
(`ReadersServed`); files and pointers only advance, and what was projected stays so under sharing decisions; a withdrawn
edition comes back by a new review only, which is never the API's own: those add a first video, after a correction that
of the resumed article and for the members only (`OnlyReviewReopens`). Of the services: see the comment of each property
in `MCOperations` and in the module it names.

**Bounds.** Two ledger workers are enough for one to lose its job to the other while its answer is open, and for a third
claim to follow, as a crashed worker comes back. Two stages distinguish a replayed checkpoint from a new call and a
reserved allocation from a bound one. A fence of 3 allows two claims with a lapse between them and a claim after
an owner action; the theorems have no bound. Price 2 over ceiling 1 is an overrun, price 1 is not. Worker symmetry
(with the symmetry of two jobs for one subject) is used for safety only.

Where everything at once is too much, a run has *scenarios* or *parts*: a variable, chosen in the initial state and
never changed, says which answers, decisions or services occur together. `MCMediaStages` has five (crashes of two
workers; adoption and skipping; replacement and invoices; corrections under late answers; failures of the free stages),
`MCPublication` five (sharing, permissions, corrections, resumption of a corrected video, projections). A pair of events
that no scenario puts together is not examined. `MCRecovery` and `MCOperations` compose modules the same way. In
`MCOperations`:

- the watchdog has 2 keys, reasons and addresses and a clock up to 8, so that an incident outlives its sending window
  and the provider's memory of its key, and another opens;
- the budget has a script with its allowance and the film that replaces it, a retake, an article of another episode
  and managed work, three days over a local and a UTC month of different ends, and one lowering of the limits;
- the queue has two Yahoo leagues, two workers, two delays; scheduled and requested imports are separate parts;
- planning has one week whose facts change, or one trade and a connection that change, and two owner commands;
- the restore has one job and one edition, three epochs and two restores one after the other;
- retention has a picture and a video made from it, one backup run, and a clock of 3 against waits of 1, 2 and 2;
- the Yahoo user has two accounts, two consents and two requests at a time, and a grant that lasts one tick;
- the monitor has two replicas and two parts: one mails about blocked work, while the owner moves, a release changes the
  wording and keys are forgotten, in wake-ups of one tick; one resumes work that fails again and sees the
  sources fail, in wake-ups that may outlast their lease, and sends nothing. The clock goes up to 5, a wake-up lasts 2 at
  most and the provider remembers a key for 4. `Helps` and `Heals` say which steps each leaves out; the second replica of
  the first part only mails.

`Few` is a constraint of that run on the week part (after a command, no second change of facts and few observations)
and on the second restore (which comes after sharing was revoked and little else); its comment says what it leaves out.

The controller's times keep their order, the two shortest alike: an idle wait of 1 (300 s), a creation wait of 1
(1,200 s), a life of 2 (3,600 s) and a day of 3 (86,400 s). One tick is enough for any wait to pass between two
steps, and three nonces exceed the daily limit of two. `Copies = 2` is a doubled creation; with three machines one
more creation can follow it. `machine_ends` has one machine, because a liveness property speaks of one. Times in the
watchdog's part keep the only relation the code relies on, that a retried alert arrives while the provider knows its
key.

**Mutants.** For each property a module holds a definition named `Faulty...`: a mapped definition with a plausible
mistake (a gate that forgets unknown calls, a reservation kept by a cancelled job, a fence that is not compared, a
month taken from a clock read before the lock). Replacing the true definition by it makes TLC find the property
violated.

**Fairness.** *Ledger* (`FairSpec`): a worker that can take a step takes one: the loop of `worker_loop` never ends
while the process lives, and the platform restarts a process that exits. A worker may crash again and again, but not
for ever at the same place: strong fairness of `ReconcileReceipt` and of `Claim`, as a tick needs seconds and crashes
are rarer. Owners, time and the provider are not fair: nobody has to answer, resume or resolve anything. Both
liveness properties of the ledger assume that no saved receipt contradicts its allocation, which is what
`late_receipt` breaks. *Media* (`Fairness` of `MediaStages`): a worker polls and goes on or is cut off; a lease nobody
renews lapses, as time passes; the API's loop settles what was saved. `MCRecovery` restates both, each only while its
part runs. *Publication*: the projector keeps ticking (weak), and does not die before the same item, nor find the
archive busy, every time it comes to it (strong per item). *Controller*: it takes a step if it can, as its calls have
timeouts and cron starts it every five minutes; `Begin`, `Seek`, `Judge` and `Destroy` are strongly fair, as a call
that is tried every thirty seconds does not fail every time; and the provider completes a destruction it was asked
for. The demand, the creation of machines and the worker are not fair: a machine may stay in creation, fail to
bootstrap, or never acknowledge a drain, and its lifetime still ends it.

## Disagreements with the code's own words

`late_receipt` shows that a call declared `not_sent` (`gen/administration.py:270`) or reconciled to another amount
(`gen/recap_budget.py:532`, today called by tests only) can receive an answer afterwards that can no longer be
settled: `settle_allocation` raises `Conflict` because zero is already final. The receipt stays unsettled, and since
`reconcile_receipts` does not catch the exception (its media twin at `recap/workflow.py:680` does), every later
tick of every worker ends before it claims a job. `gen/gateway.py:187` says "A late response settles accounting
regardless of worker ownership." and the hardening design, line 218, "Late response after lease loss or
cancellation: accept its receipt and usage idempotently". The trace needs no false attestation about the sender: the
raw receipt was saved and only its settlement failed.

`drain_forgotten` shows a machine destroyed for idleness, within its lifetime, in the middle of a tick. The drain
request and its acknowledgement are files in `/scratch`, a tmpfs of a container that restarts by itself
(`media/controller/bootstrap.py:31`, `:34`). If the container dies after the acknowledgement and before the destroy
call arrives, it comes back with neither file and claims again, while the saved phase is `destroying` and nothing
asks once more. `media/worker.py:214` says "Once acknowledged, never claim again, even if demand changes before VM
shutdown." and `media/controller/README.md:34` that the worker "never claims again afterward". As long as containers
do not die the property holds, which is proved.

`hold_forgotten` shows a video made again after a correction although nobody resumed it. A correction leaves the hold
`recap_facts_changed` on its episode, and `article_resume.py:80` says "Operator text-only repairs require the explicit
resume action". An observation that is not complete replaces that hold by its own (`recap/readiness.py:214`), and the
next two steady observations lift it.

`backlog_bought` shows a week bought without the owner after a resume. `hold_backlog` holds only candidates whose hold
is empty (`gen/administration.py:65`). One that was collected during the pause carries the hold `paused` and is passed
over; the next collection lifts it, and `admit_automatic` buys the week. `docs/GENERATION_ROLLOUT.md:24` says that a
resume "holds accumulated candidates; it never authorizes a backlog". `OnlyNewsIsBought` says what does hold: this can
happen only to a week that was admitted before.

**Observations without a run.**

- An exception of the watchdog ends the controller's process before it reconciles (`media/controller/main.mjs:17`,
  `:36`); while an incident is due and the mail provider refuses, or after the recipient was changed, that happens at
  every cron run, and a machine lives longer than its lifetime. The fairness of `machine_ends` assumes it does not
  happen for ever.
- A held job whose charge exceeded its reservation can be resumed after a provider reset while it has calls left, and
  buys them, although it can never be published (`gen/administration.py:257`). If the sender was not stopped after
  all, a failing send turns a resolved attempt back into `unknown` with a cost of zero, which `resolve_attempt` then
  refuses to touch (`gen/gateway.py:156`).
- A change of share, policy or control between selection and projection leaves the selection obsolete, or pending
  under a pause; a routine observation in between errors it; a members-only selection leaves the edition not enabled
  when sharing is enabled afterwards. The file of a `revise` that died before its commit makes the next managed
  revision conflict for good, and an item that errored makes its successor fail with `archive_predecessor_changed`.
- Skipping a film while a narration is dispatching leaves the attempt `dispatching` (`recap/workflow.py:440`): if its
  worker died, no decision reaches it and the account stays blocked. `OutcomesDecided` therefore excepts it.
- `reserve_plan` may use a stale clock only because `bind_dispatch_allocation` reads the clock again under the lock;
  an invoice charges but leaves the outcome open; `save_caps` does not look at the app's limit.
- A candidate that was eligible at no time has `eligible_at` 0 after a resume and is neither bought nor listed for
  review; a series activated again, or switched to automatic by `set_series`, holds no backlog.
- Cancelling a throttled import forgets the cooldown its leagues share, and `replace_cancelled` lets a member go to
  Yahoo at once; each throttle restarts the wait for incomplete results, as `defer_refresh` overwrites
  `progress_json`; a throttle told to a worker that lost its lease is not recorded.
- `export_restore_authority` does not refuse a source that is itself an unreconciled restore, and evidence of an
  earlier quarantine is excluded only by procedure. In the retention the guard on pending deletions and the pins of an
  abandoned snapshot are defence in depth: without either `MediaIsKept` still holds.

- The monitor asks for help with `job_authority_or_state_changed` when the owner resumed a job himself while the monitor
  looked at it (`recap_monitor/recovery.py:66`). An alert that is taken up again after it was cancelled keeps the digest
  of the address it was first meant for (`recap_monitor/state.py:95`), and is quarantined if the owner has another by
  then. A connected account is listed as a whole: a read of one league replaces the grants of all others.

## What is proved

`GenerationLedgerProofs` proves, for every set of jobs, workers and subjects, every number of stages and every bound,
from `ConstantsAssumption` and `ReceiptAssumption` only:

| Theorem | Statement |
|---|---|
| `LedgerIsSound` | `Spec => []LedgerInvariant` |
| `LedgerIsTyped`, `NeverResent`, `OwnerIsExclusive`, `OnlyOneInFlight`, `NeverReplacedBlindly`, `PublishedPaid`, `MoneyAgrees`, `NothingStranded`, `MoneyIsSound` | `Spec => []P` for `TypeOK`, `NoResend`, `ExclusiveOwner`, `OneInFlight`, `NoBlindReplacement`, `PublishedIsPaidInFull`, `LedgerAgrees`, `NoStrandedReserve`, `MoneySound` (these last three together) |
| `ChargesAreFinal`, `EndsAreFinal`, `SlotIsKept` | `Spec => MoneyIsFinal`, `Spec => TerminalIsFinal`, `Spec => OnlyImportOvertakes` |
| `KeepsThePromise` | `Spec => Promise!Spec`, which is `ImplementsPromise` |

`MediaControllerProofs`, from `MediaControllerAssumption`, for any machines, nonces, waits and any number of copies of
a creation:

| Theorem | Statement |
|---|---|
| `ControllerInvariance`, `ControllerTypes` | `Spec => [](TypeOK /\ ControllerInvariant)`, `Spec => []TypeOK` |
| `OneMachine`, `LaunchesAreLimited` | `Spec => []OneCredentialedMachine`, `Spec => []LaunchLimit` |
| `CreationsAreNotRepeated` | `Spec => NoBlindCreate` |
| `IdlenessSparesWork` | `~WorkerDies => (Spec => IdlenessNeverInterrupts)` |

`MediaStagesProofs`, from `ConstantsAssumption` of `MediaStages`, for any number of chunks, replacements and workers, any
price, any invoices, and any set of answers and decisions:

| Theorem | Statement |
|---|---|
| `MediaInvariantHolds` | `Spec => []MediaInvariant` |
| `MediaTypes`, `PurchasesAreSound`, `MoneyIsSound`, `ResultsAreSound` | `Spec => []P` for `TypeOK`, `PurchasesSound`, `MoneySound`, `ResultsSound` |
| `LateAnswersHold` | `Spec => LateAnswersOnlyCharge` |
| `PipelineIsKept` | `Spec => PipelineSpec`: the media checkpoints implement `MediaPipeline` |

`PublicationProofs`, from `PublicationAssumption`, for any bounds, audiences and answers of the serving gate:

| Theorem | Statement |
|---|---|
| `PublicationInvariantHolds` | `Spec => []PublicationInvariant` |
| `PublicationTypes`, `ArchiveIsSound`, `ReadersAreServed` | `Spec => []P` for `TypeOK`, `ArchiveSound`, `ReadersServed` |
| `ProjectionsAdvance`, `ReviewReopens` | `Spec => ProjectionsOnlyAdvance`, `Spec => OnlyReviewReopens` |

The next three modules state their assumption as a hypothesis of each theorem, as `MCOperations` instantiates them;
`InstancesAssumption` checks it for the instance.

| Module | Theorems |
|---|---|
| `MediaRetentionProofs`, for any takes, backups and waits | `RetentionIsSound` (`Spec => []RetentionInvariant`), `RetentionTypes`, `NothingNeededIsRemoved` (`Spec => []MediaIsKept`) |
| `YahooConnectionProofs`, for any requests, leagues, accounts and lifetime of a grant | `ConsentIsSound` (`Spec => []ConsentInvariant`), `ConnectionTypes`, `ConsentIsFollowed` (`Spec => ConnectionFollowsConsent`) |
| `GenerationRestoreProofs`, for any jobs, epochs, revisions and number of restores | `RestoreIsSound` (`Spec => []RestoreInvariant`), `RestoreTypes`, `NothingIsForgotten` (`Spec => []RestoreForgetsNothing`) |

`OperationsProofs`, from `RecapWatchdogAssumption` and `InstancesAssumption`, for all values of the constants that satisfy
them:

| Theorem | Statement |
|---|---|
| `WatchdogInvariance`, `IncidentIsMailedOnce`, `MailGoesToTheOwner` | `Spec => [](TypeOK /\ WatchdogInvariant)`, `Spec => []MailedOnce`, `Spec => ToTheOwner`, of the watchdog |
| `BudgetKeepsLimits`, `QueueTakesTurns`, `PlanningBuysNews`, `MonitorBehaves` | `Budget!Spec => Budget!LimitsKept`, and the same of the queue, the planning and the monitor: every behaviour of the module, not only those of the scenarios |
| `BudgetingIsSound`, `ImportingIsSound`, `CollectingIsSound`, `RestoringIsSound`, `StoringIsSound`, `ConnectingIsSound`, `MonitoringIsSound` | `PartSpec => [](` while the part runs, its inductive invariant holds `)` |
| `LimitsAreKept`, `ImportsTakeTurns`, `NewsAloneIsBought`, `RestoresForgetNothing`, `StoredMediaIsKept`, `ConnectionsFollowConsent`, `OwnerIsAskedOnce`, `TypesAreKept` | the properties of the run `operations`, of `PartSpec` |

The theorems of the composition rest on `PartSteps`: a step of `PartNext` is a step of the module whose part was chosen,
and of no other. With the lemma of the module that its steps keep its invariant, that is all there is to prove.
`PartsWatch` (`PartSpec => Spec`) does the same for the theorems about the watchdog. A constraint is no part of
`PartSpec`: `Few` limits what TLC visits and not what is proved.

**The argument.** None of the safety properties is inductive. That nothing is sent twice needs `CallsSound` (an
attempt exists exactly when its stage was submitted, once) and `CallsCounted` (attempts are the first `calls`
stages). That a late answer does no harm needs `WorkersSound` (a worker that waits for an answer waits for a call
still unresolved and unanswered in the database) and `WorkersApart` (workers of one job have different fences, and
never wait for the same stage), because only then is a receipt written at most once. `NoBlindReplacement` needs to
know which unsettled receipts can still change an attempt's fate, the last conjuncts of `CallSound`. `LedgerInvariant`
is the conjunction of these with `TypeOK`, `PublishedIsPaidInFull`, `NoStrandedReserve` and `NoBlindReplacement`, and
each conjunct has a lemma that every step preserves it.

The proofs are in layers, so that a theorem about one part does not expand every action. Lemmas named `...Steps`
sort the actions by what they do to one variable; lemmas named `...Effects` say what an arbitrary step may do to one
attempt, job, allocation or worker; the preservation lemmas use only those. `OneInFlight` is proved with the fact
that a dispatch finds no unresolved call and a waiting worker is one. `SlotIsKept` has its own small induction over
`NoBlindReplacement`: nothing but an import changes the slot of a job that stays active (`ActiveSlotKept`), so an
overtaken job stays overtaken, and publication refuses it.

The controller's properties rest on five facts. `Tracked`: only the machine the file names can have a worker.
`Remembered`: the process and the file agree on that machine. `Counted`: a list of launches misses only requests that
are a day old, at the clock for the file's and at the process's own time for the one in memory; a bound on the
requests of a day follows, because the list is checked before each request and the window is a subset of it.
`Answered`: a request that is young and whose machine is not confirmed destroyed is the one the file is about, so
none is sent beside it. `Drained`: a machine on its way to destruction has a parked worker, is no longer running or
is past its lifetime; it needs that containers do not die, and `drain_forgotten` shows why.

Of the media checkpoints, `PurchasesSound`, `MoneySound` and `ResultsSound` together are not inductive. That a request
is sent once needs `OnlySender`: a worker that was given authority holds a begun, unsent call, and is alone with it;
and `NoTrace`, that a call leaves nothing before its authority, so that a claim finds it unsent. That only the newest
revision buys needs `ReplacedClosed` and `RunsWhole`: a replacement closes all stages of the run before it, also those
that a renewed preflight would return to the queue (`AgedWaits` says that these were never begun), and makes all stages
of its own. `Funded` survives such a return by `AgedFunded`, and a swap of the envelope by `BoughtInOrder` and
`BegunInRun`. `SelectedAudio` needs `CleanIsComplete`, as completing a narration looks at the state of its call and not
at the receipt. The proof sorts the actions by what they do to a stage (`Moves`) and to a call (`CallMoves`); each
conjunct is then preserved by the moves and not by the actions. That a script has a newest run at all (`LatestStep`)
is a well-founded argument over the revisions (`LeastNatural`). For the refinement, the stages of the newest run map
to the run of `MediaPipeline`; `Prefix` says that the finished ones are a prefix of it, which is where `ChainInOrder`
and `BoughtInOrder` enter.

Of the edition, what is hard is that the drain works from a list it read before. `OneItem` says that a revision has one
item, so that a retry is a retry of the same delivery, and `PassOpen` that what is listed was delivered by nobody else.
`ArchiveSound` and the freshness of what is served then rest on order: `RevisionsInOrder` (each revision follows an
older one and its facts are not of the future), `SkippedOvertaken` (a revision that its successors do not follow was
overtaken by a correction before it was delivered) and `RetiredOvertaken` (only overtaken articles are superseded).
Together they make the newest acknowledged article the one whose facts are current (`CurrentIsFresh`), although a dead
projector leaves files without acknowledgements and `revise` leaves files without revisions (`FilesSaved` tells these
apart). That a reader sees what was reviewed for him needs that a review is bound to an authority the edition has had,
that the API's own reviews only add a first video to an edition that stands, and after a correction only where the audit
has the article resumed (`ReviewsSound`, with `StandingSound`), that the edition shows what its consumed review was of
(`EditionReviewed`), that the pointer shows the edition or something older (`PointerBehind`), and that sharing was
somebody's decision (`ShareDecided`).

For the retention, the heart is that nothing pinned is claimed between the moments at which a backup reads and
protects: `SnapshotWaits` (no deletion is under way while a recovery point has not pinned its objects), `PinnedStays`
(what is pinned is there and is not claimed), and `UploaderOwns` and `ManifestBelongs`, which tie a running backup and
a manifest in the bucket to a recovery point that still pins. `WorkOnRegistered` carries the chain of takes through
`Start` and `Finish`, and `ClaimedUnregistered` keeps a claimed object from being registered. `Grace`, `FailedAge` and
`Expiry` are not used: the ages only spare uploads that are not registered yet, which is liveness of their workers.

For the Yahoo account, `HolderCurrent` says that a request with a token holds the row of the user, so that a listing is
granted to the connection it was made with; an import takes its token after its grant, and not always under the same
lock, which is why `HandOver` must look at the grant again. `PendingNewest` says that a consent under way is later than
the last disconnect and the connection there is, and `GrantsHeard` that a grant is what Yahoo listed. That the life of a
grant is positive is used, in `Discover`.

The watchdog's invariant says that what was sent under the key of the saved incident is what its saved envelope says,
from a time no earlier than `firstSendAt`: a retry is therefore the same message, and reaches the provider within
`SendWindow + Timeout` of any earlier one.

For the restore, the property speaks of one database, but the invariant has to speak of four places at once: the
database in use (`CurrentAgrees`), the evidence exported in a quarantine (`EvidenceAgrees`), the restored database that
waits (`RestoredAgrees`) and the backup. Each either agrees with what was decided and sent last (`Agrees`) or is held,
and the hold is taken away only under a report in force. A backup carries the reports of earlier epochs, and a restored
database may be put into use too early: `NeverItsOwnEvidence` says that then there is no evidence yet, and that a
report always names some, so that no old report is in force by accident. `JobsAreSentOnce` makes what a worker takes
from a queue unsent and not cancelled in truth, although that queue may have been restored.

For the budget, what is said of one call (`Accounted`: reserved in full until it is charged, then reserved no longer,
and never at a time to come) has to be turned into what is said of a sum over any set of calls. `TotalGrows` does it:
a sum of smaller amounts is smaller, as a least set of calls without that would have a smaller one. An allocation that
is `Lighter` than before (from the same time, reserving no more, and costing no more than known and reserved before)
weighs no more in this month or in any later one (`InMonthShrinks`); that needs calendars in which months only
advance, and that no call counts from the future. A step then either makes nothing heavier (`LighterKeeps`), or admits
a plan that fits where it adds and adds nothing elsewhere (`AdmittedKeeps`), or is an overrun or a change of limits. The
second check of `Dispatch`, at the time under the lock, is where the turn of a month enters.

For the queue, a worker may still believe in a job that was taken from it. `Fenced` says that its generation is then
older than the job's, and that no two workers hold one generation of a job; `OneRuns`, that the claim takes one job
only when none runs. `LeftAlone` follows a pause from the worker who was told of it to the job that waits it out:
`Quiet` looks at the jobs, not at what Yahoo said, and agrees with it unless the owner cancelled the job. The claim and
the pauses take least and greatest numbers of sets, which exist by well-foundedness (`LeastIsIn`, `GreatestIsIn`).

For the planning, `Observed` says that what is kept of a week is what was seen last, since the first observation of an
unbroken row of them; only so is `e.since` old enough for `Settled`, which speaks of all observations. `WeekCollected`
and `TradeCollected` carry this to the candidate, which may be collected long before it is bought. `Waits` says why the
backlog stays: each subject that had been collected at the last activation is older than it, or was admitted before, and
none has a job of the scheduler in the queue.

For the monitor, `Counted` says that recoveries are counted where they are seen, `Enveloped` that from its first
sending on an alert keeps its envelope and that the provider took nothing else, and `ReplicaSound` that a replica that
is about to send holds that envelope, with a time inside the window that is no older than `Stall`. Together with
`Window + Stall <= ProviderWindow` a second message is one the provider still knows.

**Only model-checked.** The liveness properties (`LapsedWorkRecovers`, `SavedReceiptIsCharged`, `ReceiptsSettle`,
`OutcomesDecided`, `ItemsSettle`, `MachinesEnd`): TLAPS here has no rules for fairness and ENABLED. Every other property
that a passing run checks is proved. There are no recursive definitions in these modules, and no induction over data:
where a sum, a least number or a sequence needs one, the proof takes a least counterexample.

## Not modelled, and why

- *Grading engine, platform clients, writers' prompts, text checks, media processing, page rendering*: sequential
  computation or input and output over large data, where the interesting cases are those of the data.
- *Reading routes*: they report and decide nothing about jobs.
- *Recap monitor*: which games, rows and settings make a period ready, blocked or complete; what it may resume is the
  owner's action of the same name in the ledger and in the queue.
- *League cache and refresh*: what an import collects and writes. Its queue is `RefreshQueue`.
- *Reviewed repair of a lost review call*, *correction proposals*, *contents of policies*, *catch-up lists*: the
  operations they end in are modelled, the exceptions they grant are not.
- *Outbox items of the other writers*: each overwrites one entry of a league cache.

## Plan

Done: all modules above, model-checked, with proofs of all properties but the liveness ones. Next, by what a failure
costs:

1. `RecapCron`: `MediaController` and `RecapWatchdog` composed as `main.mjs` composes them, to show when a watchdog that
   fails keeps a machine alive.
2. The historical backfill, a small state machine.

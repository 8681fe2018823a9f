# TRUSTNOW AI worker stack: verification project

TLA+ models of the protocols of this repository, TLC configurations that
check them on small instances, and TLAPS proofs of their main results. File
references are to `services/...`; `py` abbreviates `services/ai-pipeline`.

## 1. The system

A caller's call is answered by FreeSWITCH. `platform-api` (NestJS) hears of it
over ESL and asks `ai-pipeline` (FastAPI, asyncio) to serve it: speech to text,
an LLM, text to speech, tools. Calls that need several specialist (SME) tasks
go to a *Master Worker*, which runs them as a saga, with a supervisor's approval
(HITL) and payments in between. A call may be handed to a human on the *agent
desktop* (`frontend`). Redis holds the session of a call, PostgreSQL what
outlives it, Kafka carries events.

| Component | State | Operations | Interacts with |
|---|---|---|---|
| Saga orchestrator `py/saga_orchestrator.py` | Redis: `sme_results` per domain, `saga_completed_steps`; memory of each run | `run_saga`, `_execute_step`, `_compensate`, `_rollback_completed`, save/load/mark | called by the master worker; other runs of the same CID through Redis |
| Master worker `py/master_worker.py` | the run's context | intent, auth, eligibility, dues, payment, delegation, consolidation, delivery | saga, SME worker, HITL, payment, progress tracker, handoff |
| HITL approval `py/hitl_service.py`, `autonomous/hitl.controller.ts` | Redis: `hitl_pending`, `hitl_decision`, both named by the CID alone | request, poll, time out, list, decide, resolve internally | a saga step waits for it; supervisors decide |
| Payment gateway `py/payment_gateway.py` | Redis: `payment_status`, `payment_link`, by CID | send link, poll, time out, cancel; provider's callback | a saga step waits for it; provider calls back |
| Silence watchdog `py/silence_watchdog.py` | one asyncio task per call, `_watchdog_tasks`, `silence_tier` in Redis | start, reset, cancel, prompt by tier, end the call | turn loop, session start, `end_call` tool |
| Turn loop `py/turn_loop.py` | transcript, session hash | STT, LLM with tool calls, TTS, barge-in, handoff | watchdog, tools, session manager, handoff |
| Session manager, session API `py/session_manager.py`, `py/main.py` | session hash | start, append turn, flush, end; starts masters | everything |
| Progress tracker `py/progress_tracker.py` | one task per call, progress state, hold music | start hold, stop hold, update | master worker |
| Tool executor, SME worker | circuit state per tool, result cache | execute, retry, cache, open circuit | turn loop, SME worker |
| Auth policy `py/auth_policy.py` | OTP keys | authenticate by the configured methods | master worker |
| Handoff and agent desktop | queue and context in Redis; store of each browser | queue a call, list, accept, call controls, disposition | turn loop, tools, master worker; web socket |
| Telephony `telephony/esl.service.ts` | sockets to FreeSWITCH, timers, one flag | connect, reconnect, authenticate, send commands | FreeSWITCH, session API, handoff |
| Agent builder `agents/agents.service.ts`, `workflow/` | the agent's configuration row, numbered versions, branches, workflow graph | save a column, translate, publish, branch, merge, delete | admin frontend; knowledge base, security and phone numbers write columns of the same row |
| Media and jobs `stt/`, `tts/`, `tests/`, `analysis/`, `scheduler/` | rows, objects in MinIO, Bull queues | upload, work, retry, stall, re-evaluate, delete, purge | MinIO, Bull, the LLM |
| Workspace records `tools/`, `settings/`, `phone-numbers/`, `env-vars/`, `tests/`, `batch-calls/`, `widget/`, `whatsapp/` | rows with second copies: a list, a file, parts, a subscription | create, update, attach, delete, each in several statements | agents, FreeSWITCH's gateway files, Meta |
| Agent page `frontend/src/app/agents/[id]/page.tsx` | draft over a fetched configuration, per browser | edit on a tab, save, fetch | the agent's configuration |
| Kafka `py/kafka_*.py`, CID service `py/cid_service.py` | topics; session, conversation row | produce, consume; allocate and end a CID | Redis, PostgreSQL |
| Other modules of `platform-api` | PostgreSQL rows | CRUD of single rows, queries | frontend |

What is hard here:

- *Interleaving.* The pipeline is one event loop of many tasks; every `await` is
  a point where others run. Keys are named by the CID, so everything a call does
  twice at once (two masters, two parallel steps, two turns) shares its keys.
- *Crash and resume.* A saga survives its process through two Redis keys that
  are written one after the other.
- *Timeouts and late answers.* Approvals, payments and watchdogs poll; the
  answer may come before, between or after the polls, or for an earlier request.
- *Retries.* A step that raises is attempted again, whatever it did before.
- *Two stores, several statements.* Few handlers of `platform-api` use a
  transaction. A row and its object, its list entry, its file, its parts or its
  subscription are written one after the other, and the handler may stop between.
- *Late answers in a browser.* A page applies an answer to whatever it shows by then.
- *Cancellation.* `task.cancel()` is a request; the task dies later, at an await.

`PROJECT.json` lists the hazards line by line with the properties about them.

## 2. The modules

| Module | Models |
|---|---|
| `SagaOrchestrator` | `run_saga` and what it calls, for any number of calls of it for one CID |
| `SagaInvariant` | the inductive invariants of `SagaOrchestrator`, in three layers |
| `ResumableWorkflow` | abstract: what crash-resume promises |
| `HitlApproval` | `request_hitl_approval` and its poll, the two controllers, a supervisor's screen |
| `PaymentGateway` | `request_payment_link`, its poll, the payment gate of a step, the provider |
| `SilenceWatchdog` | the watchdog functions and the tasks that drive them |
| `HandoffDesk` | option B of `handoff.service.ts`, `acceptCall`, the gateway's notices, and the desks: store, socket and queue panel |
| `MasterWorker` | `run_autonomous_session`, for several runs of one CID, with the verdict of `auth_policy.py` |
| `ProgressTracker` | the hold: registry, progress task and music; extended by `MasterWorker` |
| `DeskCall` | the page of an agent at a call, with its requests, dialogs and socket rooms, and a supervisor's view of the team |
| `EslLink` | `esl.service.ts`, the controllers that send over it, option A of the handoff |
| `AgentBuilder` | one agent configured by several requests at once: columns, versions, branches, workflow |
| `MediaJobs` | what has a row and an object and is worked on by Bull jobs |
| `WorkspaceServer` | how requests of the workspace overlap, statement by statement; extended by the next four |
| `WorkspaceRegistry` | tools with their agent's list, connections, documents, phone numbers with gateway files |
| `TenantRecords` | environment variables, tests and folders, batch calls |
| `AgentChannels` | widget settings, WhatsApp accounts |
| `AgentConsole` | the agent page of the admin frontend at two admins |
| `Workspace` | composes the four: `kind` says what the requests of a behaviour are about |
| `MC...` | small instances for TLC |
| `...Proofs` | theorems |

**Grain.** A step of the pipeline's models is the code between two awaits that
touch shared state. A `pc` names the await at which a task stands. Redis
commands are atomic; a read and a write across an await are two steps
(`MarkGet`, `MarkSet`; `Validate`, `WriteDecision`; `Take`, `Consume`).
Components whose proofs share a module have names of their own (`LinkInit`, `PageNext`,
`PaymentSpec`). Variables marked *history* are not in the code: they remember what a property
needs (which runs executed a step, which request a decision was meant for).

**SagaOrchestrator.** `Runs` are calls of `run_saga` for one CID. `marks` and
`results` are Redis; all else is the memory of a run, lost in `Die`. The first
loop over a batch is `Resume`/`Queue`, the `gather` is `Gather`,
`AttemptReturns`, `AttemptRaises`, `Gathered`, the second loop is
`SaveCompleted`, `MarkGet`, `MarkSet`, `SaveSkipped`, `SaveHalting`. A step alone
goes the same way as a batch of one, which the code spells out twice.
`OneAtATime` says whether runs exclude each other: the code does not see to it
(`main.py` l.532 starts a master per request); it is what a caller of the API has
to guarantee for resume to mean anything. `OutlivesTTL` lets the keys expire at
any time. `DistinctDomains` is an assumption of the resume theorems: results are
keyed by domain and the intent's domains are not deduplicated.

**HitlApproval.** `Gated` are steps that ask, `Attempts` how often
`_execute_step` tries them. A decision carries, as history, the request that was
on the screen and the requests open when it was written. `Show` models
`GET /hitl/pending`; note that no page of the frontend calls it, and the event
that would push a request to the desktops is not published (`main.py` sets no
producer for `hitl_service`, `main.py` l.144-153), so that as the code is wired
a supervisor sees nothing. `ResolveDirectly` is the pair of endpoints that do
not look at the pending key. An approved step may still raise, at its payment or at a
status failed, and then asks again.

**PaymentGateway.** `Payers` are steps that require a payment. The provider is
external: it reports at any time on a link it has made, also on one whose request timed
out, whatever it likes, `Callbacks` times in all. Nothing in the code ties a report to
a payment or to its sender: `Webhook` takes a status it does not know for failed,
`PostStatus` takes a report without one for completed, and the model has no more. What
the properties can say is *when* a status was written, the history `during`. `failed`
and `cancelled` are one status to the step. `cancel_payment` has no caller. An agent
without a `webhook_url` sends no link and is left out.

**SilenceWatchdog.** The watchdog tasks are numbered in the order of their
creation; `registry` is `_watchdog_tasks[cid]`. `AdaptersWork = TRUE` allows the
speech adapters to succeed or fail; as wired they always raise (`tts_adapter` has
no `synthesise_full`, and `transcribe_batch` and `synthesise_streaming` are called
with keyword names they do not have), which the callers catch. The actions that
need them are therefore what the code does once the names agree. A turn may begin while
the session start or an earlier turn is still at its awaits: nothing in the code keeps
them apart. A hangup may fail and is then forgotten, and a watchdog, a turn or an ender
may raise at any await (`WatchdogRaises`, `Raises`); `failed` remembers a failed hangup or
a watchdog that raised, `overlaps` counts the calls of a watchdog function that began
inside another.

**HandoffDesk.** A request to hand a call off is `Execute` to `Publish`, one step
per Redis command, and may fail between any two (`ExecuteFails`); `MaxHandoffs`
requests may be made for one call (the turn loop, the `transfer_to_agent` tool and
the master worker do not know of each other). A click on Accept is a process of
its own: `Click` in the browser, `Remove`, `Assign`, `Announce` in
`acceptCall`, `Reply` and `Open` in the browser again. `inbox` is what the gateway
has emitted to a socket and is lost with it (`Disconnect`). The queue is a count
per call and the cards a set, since no property depends on their order. As wired
a handoff by the pipeline never reaches the queue: `handoff_service.py` l.67 posts
to `/api/handoff/execute`, a prefix the API does not have, with a token that
nobody sets. `Execute` is the endpoint itself.

**MasterWorker and ProgressTracker.** `Masters` are runs of
`run_autonomous_session`; a progress task has the name of the run whose
`start_hold` created it, since a run holds once. `ProgressTracker` has the state of
the tracker and what its functions do between awaits, as conjuncts of the
actions of `MasterWorker`, and the steps of the progress task (`LoopStep`).
`cancelled` holds the tasks whose `cancel()` was called and that have not resumed
since: such a task does nothing but end (`Cancelled`), and the request it was
awaiting may be carried out or not, now or later (`GoesAstray`, `LateRequest`). The
saga is in less detail than in `SagaOrchestrator`: all steps are one batch or none
is, the marks are read at once, a result and its mark are written in one step, and
whether a failed step is skipped or halts the saga is left open. A step shows
what `_execute_sme_with_hitl` does to the progress state; its gates pass or raise.
Intents are lists of domains, and steps are marked by their number in the list, as
in the code. `owed` is the caller's balance at the webhook. `Expire` lets
the saved intent, or the marks, expire. As wired, no music is played:
`/api/telephony/moh_start` and `moh_stop` do not exist in `platform-api`, and
`play_audio` takes audio bytes and headers that the pipeline's JSON request has not; the
policy of `auth_policy.py` l.461 is requested from an endpoint that does not
exist either, so that everybody passes; OTP, PIN and KBA always count as failed,
`verify_otp`, `verify_pin` and `verify_kba` having no caller. The models say what
the code does when the endpoints answer.

**DeskCall.** A click is a request that is served (`Serve`) and answered, or lost, in
any order; `SetActiveCall`, `EndAnswered`, `TransferAnswered`, `DispositionAnswered`
and `SwitchAnswered` are the code behind the `await` of each click. `up` is what the
page's socket has sent and the gateway has not handled (`HandleCallJoin`,
`HandleCallLeave`). `duty` is chosen at the start: which controls a behaviour uses
besides opening and closing calls (a bound: all at once is out of reach). What a call
gets from FreeSWITCH is not seen here, since the commands are published to
`trustnow:esl:command`, which nothing subscribes to.

**EslLink.** `sock`, `authed`, `greeted` are per socket; `client` is the one
`this.client` names and `connected` the flag they share. An error and the close that
follows it each start a timer, as l.54 and l.60 do. Bytes that two sockets append to
the shared buffer (l.47) are not mixed in the model.

**AgentBuilder.** The values of a column are version counters. `calls` says what each
request has read and still has to write; a transaction takes effect in one step. Some
committed SQL lacks columns that the code uses; the model follows the code. A
translation is of the additional languages as listed, which stay the same: one that was
taken off the list keeps its old translation in the row, and no property speaks of it.

**MediaJobs.** `kind` is what the item is; `request`, `job`, `worker`, `deleter` are
the four parties. `Take`, `StallOfDead`, `Returns` and `Throws` are Bull, external,
modelled from the options in the code; a job that lost its worker is given to another
while the first may still be at work (`zombie`). A worker may die before or after its
last write (`WritesLast`): Bull is not told in either case, and the job is run again. A
delete that deletes nothing of MinIO is one branch of `DeleteObject` (`kept`), whether
MinIO fails or is asked for another key than the object's: the purge takes the path of
the URL for the key, and a bucket in the path makes it another one, without an error.

**Workspace.** In each module `calls[h]` names the statements a request has left. A
`...Fail` stops a request anywhere; what it had done stays done. Ids that a request is
about are those the database has given out. `Workspace` runs the modules side by side
under one `Next`; a behaviour is about one kind of record, since the kinds share no
state. In `AgentConsole` the server behind the configuration route is external, and
columns stand for the controls of each tab: a plain one and, where the tab has it, a
list.

## 3. What is checked

Bounds are small because the hazards need few actors: two runs (a crash and its
resume, or an overlap), two gated steps, two payers, two desks that race for a
call, one turn against the session start, an ender and the watchdogs they spawn,
a master and the one that resumes its work with another intent.

| Run | Instance | Shows |
|---|---|---|
| `saga_resume` | 4 steps (skip, parallel pair with rollback and halt, halt), two attempts, 2 runs one after the other with crashes | a mark is backed by a success; a crash costs at most the batch in progress; every run ends; refinement of `ResumableWorkflow` |
| `saga_concurrent` | 3 steps (parallel pair first), 2 overlapping runs, expiring keys | batches in order, completed means all |
| `hitl` | 2 steps in sequence, 2 attempts, one desktop, one post, unchecked endpoints, crash | an answer is younger than its question; every request returns |
| `pay` | 2 overlapping payers, 2 attempts, 1 dispatch, 2 reports | what a request is told was reported after it was made; every step ends |
| `wd` | session start, 1 turn, 1 ender, 3 watchdogs | a watchdog that a reset cannot find is paid for by two calls at once; one alone and in step with the tier ends a silent call unless the hangup fails or it raises |
| `handoff` | 1 call handed off twice, 2 desks, 2 clicks | no interleaving loses a waiting call; a desk that stays online shows it until it is taken |
| `master` | 2 runs one after the other, 3 intents (none, one or two domains, in which the same number stands for different domains), a parallel batch, 2 attempts, 1 request astray, expiring keys | updates and the answer are heard over silence; a completed saga served this intent |
| `desk` | 2 calls, 3 requests, 1 loss of the socket, 2 fetches, 2 statuses | the page is in the room of its call; it shows hold and mute as commanded; dispositions and history are of the call shown; the supervisor's view catches up |
| `builder` | 3 requests at a time, 4 in all, 4 columns, 4 versions | published rows stay; the agent runs on the newest; a save undoes no other; translations and graphs are of one save |
| `jobs` | 1 item of each kind, 1 job, 2 workers, 2 deleters, 2 edits of the criteria | no row without object, no object left behind by a deletion; an unsettled row is worked on; evaluations go forward; jobs end |
| `workspace` | 2 requests at a time, 6 in all, 2 records, 2 users, 2 addresses or folders; 2 admins, 2 columns, 4 clicks | second copies agree; what is referred to is kept; a variable resolves to its own value; parts follow; channels agree; edits survive; others' list members are kept |
| `esl` | 1 call, 2 failures, 1 request | a settled link is usable; a transfer carries its CID; the link comes back |

Every bound: `NSteps`, `RetryCount`, `Runs`; `Attempts`, `MaxPosts`, `Desks`;
`PayerAttempts`, `Dispatches`, `Callbacks`; `MaxHandoffs`, `Accepts`; `Masters`, `MaxAstray`; `Turns`,
`Enders`, `MaxDogs` (one turn and the session start create at most three watchdogs, so
the bound cuts nothing off); `MaxActs`, `MaxDrops`, `Fetches`, `duty`; `Handlers`,
`MaxCalls`, `MaxVersions`, `MaxClicks`, `InUse` (which two columns the admins work on,
every column with one of the lists); `Jobs`, `Workers`, `Deleters`, `MaxEdits`;
`MaxFaults`, `MaxRequests`. Two overlapping requests are enough for a lost update and
for a check that is stale when used, a third for what an interrupted one leaves to
others, and six in all create two records, refer to one and delete it while the other is
in use. `workspace` also passed with three handlers and five requests, `esl` with two
requests. Runs set `CHECK_DEADLOCK FALSE` because a call, a request or a job ends.

The type invariants, and the inductive invariants of the proofs, were checked with the
same instances; where a theorem states them they are not checked again in every run.
`workspace`, `builder`, `handoff` and `master` use symmetry and check no liveness.

**Fairness.** Weak fairness of each task's steps and of nothing else in the pipeline: the
event loop resumes a task whose await is over, and every await of the tasks is bounded
(Redis calls, HTTP calls with a timeout, sleeps, polls with a deadline). No
fairness for starting a run, for a caller, a supervisor, a provider, a crash or
the expiry of a key. `FairSpec` of `MediaJobs`: workers go on, Bull hands out waiting
jobs and notices dead workers; deaths are bounded by the stalls Bull allows. Of
`EslLink`: timers fire, sockets report, FreeSWITCH serves what was written; failures are
bounded by `MaxFaults`, after which it is up. Of `DeskCall`: status requests are served,
notices delivered, and the supervisor's interval goes on asking; a fetch may be lost,
but not every time (strong fairness of `GetTeam` and `SetTeam`). `MasterWorker`,
`HandoffDesk`, `AgentBuilder` and the workspace modules state no liveness and have no
fairness.

## 4. What fails

What the code does not do, met while modelling. The first six are definitions of the
modules, marked "Does not hold"; adding one as the only property of a configuration
shows its counterexample:

- `NoResultLost` (as `saga_resume` with 3 steps that all halt): the `break` of
  `saga_orchestrator.py` l.217 drops the results of a parallel group behind the step
  that halts, though those steps have run; l.8 says that each step result is persisted.
- `RejectedStaysRejected` (`FairSpec` of `HitlApproval`, 1 gated step, 2 attempts): a
  rejected step raises, is retried, asks again, and an approval then lets it through;
  `hitl_service.py` l.18 has the caller informed instead.
- `OwnPayment` (1 payer, 2 attempts, 1 report): the key is the call's, and a late report
  on the first link completes the second request; `payment_gateway.py` l.91 has the
  request await the completion of its own link.
- `SilenceEndsTheCall` (`FairSpec` of `SilenceWatchdog`, the instance of `wd`): a
  watchdog started at tier k > 0 expects tier 2k at its first look (l.164) and exits as
  if the user had spoken; l.9 promises the farewell and the end of the call. A hangup that
  fails, or an exception in the loop, leaves the silent caller on the line as well.
- `OneWatchdog` (the instance of `wd`): a turn that awaits Redis in a reset while the
  session start starts its watchdog starts a second one over it, which no reset finds any
  more; `silence_watchdog.py` l.100 cancels any existing one first. `LostByOverlap` says
  how many of these there can be.
- `ServedOwesNothing` (the instance of `master`): when the dues webhook fails, or the
  message after its answer cannot be formatted, the caller is served as if nothing were
  owed; and a payment request is completed by a report about any link of the call.
  `master_worker.py` l.11 awaits the clearance.
- `OneAgentPerCall` (1 handoff, 2 desks, 2 clicks): `acceptCall` ignores how many
  entries `lrem` removed (`desktop.controller.ts` l.106), and two agents are told that
  they have the call.
- `ToldWhatCompleted` (1 run, steps in sequence, 1 attempt): `update_progress` is called
  before approval, payment and the failed status are looked at (`master_worker.py`
  l.545); `progress_tracker.py` l.174 says that it references what has been completed.

In the pipeline and its desks:

- A crash between `execute_fn` and the mark repeats the step; the idempotency
  token that is to make this harmless (`saga_orchestrator.py` l.15) only reaches
  a prompt and the log. `OneBatchAtRisk` says how much may be repeated.
- `_rollback_completed` calls no `rollback_fn` and leaves the marks (l.345).
- Two steps of one domain: the failure of the second is reported as the completed
  first by a resumed run (hence `DistinctDomains`).
- Parallel gated steps overwrite each other's pending request, and a click made on
  one card is taken by the next request of the call.
- `POST /session/{cid}/payment-status` takes a report without a status for completed
  (`main.py` l.604), and neither receiver checks who reports. A status that arrives
  between the last poll and the deadline is ignored; a step that fails after its payment
  is retried and sends a second link.
- No watchdog is started without a `first_message` or when its synthesis fails;
  two overlapping turns start two watchdogs, each of which prompts and moves the tier
  under the other; a watchdog can hang up while the
  caller's words are transcribed; a write after `POST /session/{cid}/end` brings
  the session key back.
- `agent-desktop/page.tsx` l.43 stores the object `{queue, count}` as the list of
  cards: the queue panel throws when it maps it, and the page is unmounted, whenever
  `GET /desktop/queue` succeeds (`QueueFetched`; the properties exempt such pages).
- An accept that fails after `lrem` leaves the call in no list of the server: only
  the desk that failed still shows it, until it is reloaded. A second handoff leaves
  an entry and a card for a call that has an agent, and nobody removes a call whose
  caller has hung up. A desk does not fetch the queue again when its socket is back.
- Two masters at once share the tracker, and the properties of `master` fail:
  `stop_hold` awaits the cancelled task and then deletes whatever the registry holds
  by then (l.160), so that the second run's task is forgotten and plays updates and
  music for the rest of the call; or nothing is there, `del` raises `KeyError`, and a
  saga that completed ends in an apology and a handoff. One run's music starts over
  the other's update, and marks of one run's intent are read as the other's.
- An intent whose save fails is served all the same, and its marks remain for an
  intent that a later run captures; `SAGA_STATE_TTL` runs from the one save of an intent
  but anew with every mark, so that an intent may also expire before its marks (`Expire`).
  `CompletedMeansServed` excepts such calls. An
  exception in `get_saga_state` (l.143, before the `try`) ends the run without a word.
- `start_hold` may raise behind `on_hold = 1`: the `finally` that calls `stop_hold`
  comes later (l.490), and the caller is handed off while recorded as on hold. When
  Redis fails in `stop_hold`, likewise.
- The opening message is played over the music, which has been started before it;
  the comment says the opposite (`progress_tracker.py` l.124). After 120 s the task
  escalates once and is brief again, where the table at l.211 has it escalate
  every 20 s.
- Parallel steps lose each other's entries of `completed_tasks` (l.178), and a
  retried step adds its entry again.
- `turn_loop.py` l.643 records `handoff_complete` before the handoff is attempted.

On the agent's page (`DeskCall`; the properties name what they except):

- The disposition form survives a change of call under the open dialog, a late answer to
  End opens the wrap-up over another call, and turns still in flight for the call just
  left are appended to the next one's transcript.
- `saveDisposition` answers `saved: true` when no conversation row matches: what
  `CompletedIsSaved` says is of calls that have a row. The agent's own status is shown before
  it is stored.
- Barge-in and whisper look up `current_cid`, which nothing sets; the knowledge search's
  answer is an object that the panel maps, and the page throws (`PageThrows`).

In the link to FreeSWITCH: the API does not start to listen while FreeSWITCH is down at
boot (l.35 awaits a promise that only a connection resolves); each failure starts two
timers, so attempts multiply and two subscribed sockets see every event twice; a
command is dropped without a word while the link is down, and answered as done.
`stopMoh` and the recording commands have no caller, the call events no listener.

In the builder: `BranchesService`'s routes are shadowed by those of `AgentsController`, so
that `agent_branches` stays empty and a workflow saved without a branch id goes to a
fresh random one; a publish overtaken by a branch may put an older number back
(`CurrentIsNewest`); `updateBranchTraffic` checks no sum; the webhook routes of the
security controller are shadowed. Columns and tables missing from the committed
SQL: `test_runs.started_by`, `agent_test_attachments.tenant_id` and `attached_by`,
`workspace_secrets.vault_path`, `agent_tests.conversation_json`,
`api_keys.updated_at`, `auth_policies`.

In media and jobs: a request that stops before its job is added leaves a row pending for
good; nothing removes `temp_files`; no job ends the status `indexing` of a document;
`deliverWebhookEvent` and `enqueuePostCallJobs` have no caller.

In the workspace:

- `jsonb_set` on the column's default `[]` is an error, so that a tool of such an agent is
  not listed; `patchAgentSystemTools` writes the whole column over changes made since it
  read it; `deleteMcpServer` leaves the id attached; `updateAgentSystemTools` has no route.
- A cleared outbound address leaves the gateway file. `POST phone-numbers/:id/gateway`
  passes two ids to a function that takes a row.
- A connection or document referred to between the count and the deletion loses it.
- An interrupted creation of a variable leaves part of its values, and a second one is
  refused; until the values are all there a name resolves to production's.
- An interrupted deletion of a test leaves it detached everywhere; a refused deletion of
  a folder leaves its tests unfiled; an interrupted cancellation leaves recipients
  pending and cannot be repeated. Overrides parsed from a batch's CSV are not inserted.
- Two default widget rows may be made, and `getWidget` return the default one; an avatar
  uploaded before there is a row is answered and shown by none (`unplaced`). A
  disconnection that Meta refuses, or that overtakes the connection, leaves the phone
  subscribed with no account (`misheard`). `ChannelsAgree` excepts these two. It says
  nothing of a connected account that gets no messages: two accounts of one
  phone share one subscription, and disconnecting one silences the other; an update
  revives a disconnected account without subscribing.
- On the agent page, edits made while a save is in flight are dropped by its answer, and
  list edits made over a blank or old list take out the members it did not show. As
  wired, no save succeeds: the routes `lib/api.ts` asks for (`/agents/:id/config`) do not
  exist. The workflow tab never shows the saved graph (`onSuccess` of a v5 query), so that
  its Save replaces it; it is not modelled.

## 5. What is proved

For every value of the constants that satisfies the modules' assumptions:

- **`SagaProofs`**: `TypeOK`; `OrderInv`, and from it `BatchesInOrder` and
  `CompletedMeansAll`, for any number of overlapping runs and expiring keys.
  `OrderInv` adds to the types where the cursor and the loops stand
  (`CursorInv`), that every mark, loaded index, snapshot or completed task rests
  on a success (`EvidenceInv`), and what lies behind the cursor is done or skipped
  (`ProgressInv`): the property alone is not inductive, since a run learns from
  marks that others wrote.
  Assuming `OneAtATime` and `DistinctDomains`: `ResumeInv`, hence `MarkedIsBacked`
  and the action property `NeverRunsMarked`. The key is `MarkInv`: whatever is marked
  the run in progress either loaded at its start or completed itself, so it is never
  queued and its result never overwritten. Assuming in addition that keys do not
  expire: `RefinementInv`, `OneBatchAtRisk`, and that `SagaOrchestrator` implements
  `ResumableWorkflow` with marks for durable items and skips for waived ones; and
  `HaltStopsTheSaga` without any of these assumptions.
- **`GateProofs`**, on the two gates of a step: `TypeOK`, `DecidedAfterAsked`,
  `ListedIsWaiting` of the approvals, overlapping steps included (which the run leaves
  out); of the payments `TypeOK` and `ReportedAfterAsked`, for which every status
  in Redis must be known to have been written while all that may take it were open.
- **`TelephonyProofs`**, on the watchdog of a call and the ESL link: for any turns,
  enders and watchdogs, overlapping in any way, with any failures, `LostByOverlap`.
  `Debts` is what makes it inductive: every call of a watchdog function that began
  inside another has paid for one watchdog that may get lost. Those in progress, all but
  one, still have that to spend, and a watchdog that is registered while a call that will
  not look again goes on is as good as lost; whoever ends and pops the entry of another
  watchdog was lost itself. For any sockets, commands and
  faults, `SettledIsUsable` and `TransferCarriesCid`. `Paid` weighs timers, failed and
  closing sockets against the faults that caused them, so that a socket is always left
  for a timer to open; `ClientInv` says what is still under way when the client's
  socket is not usable; `HeaderInv` that a transfer is written behind its header on the
  same socket, of which FreeSWITCH executes both or refuses both.
- **`HandoffProofs`**: `HandoffInv`, hence `TypeOK`, `UnclaimedIsOnOffer`,
  `WaitingIsShown`, `TakenLeavesQueue`, `OpenedWithContext`, for any calls, desks,
  clicks and handoffs. `HeardInv` says that whoever hears of a call hears of one
  that was pushed; `TakenInv` that a card is taken off only after the call is
  assigned; `CardInv` that the card of an accept in progress stays; `QueueInv`
  counts entries against pushes, so that a taken call has one entry less.
  Of the agent's page, for any calls, requests and losses of the socket: `PageTypeOK`,
  `RoomIsCall`, `SwitchIsShown`, `PageIsOfTheCall`. `RoomInv` plays out the messages the
  socket has not delivered yet (`InRoom`): they take it into `ref`'s room and out of every
  other. `FlagInv` follows a switch whose last command is on its way or answered, and
  nothing else in doubt: at most one command is under way, and it is what the page will
  show if answered. `DialogInv` ties the disposition in the dialog, and those under way,
  to the call they were chosen for; `HistoryInv` says that the newest lookup is of the
  caller shown.
- **`MasterProofs`**: `TypeOK` and `AwaitedIsCancelled` for
  runs that overlap in any way; assuming `OneAtATime`, `TaskHasHold`,
  `UpdateOverSilence`, `AnsweredOffHold`, `CompletedMeansServed` and
  `ProgressIsCurrent`, for any intents, batches, attempts and requests astray. The core is
  `TaskOfHold`: a task that is alive is in the registry, and its own run is in its
  hold or awaits the task's end, so that a run meets no task but its own. With it a
  step of a run can only touch what `RunAndTasks`, `RunAndMusic` and
  `RunAndProgress` say it touches. `CompletedMeansServed` needs that the marks are of
  the saved intent (`MarksOfIntent`) and that the run serves that one (`RunServes`).

- **`BuilderProofs`**, for any requests at a time, columns and versions:
  `PublishedKept`, `CurrentIsNewest`, the action property `SavesSurvive` and
  `SavedIsWhole`. `NumberInv` says that ids are given out once: a version has the id of
  the request that made it, and no deletion or save is aimed at an id before its row is
  inserted (`OneId`). `DeletesSpare` carries the check of a deletion over to its last
  statement: the row it found was not published, and publishing makes only new rows.
  `CurrentIsNewest` needs `Gapless`: a request takes the number after the largest it
  read and inserts it later, so that what it holds must be known to have nothing free
  below it. `GraphInv` records which saves of the workflow were under way together.
- **`JobsProofs`**, for any items, jobs, workers and deletions: `RowsAndObjectsAgree`,
  `UnsettledIsWorkedOn` and the action property `EvaluationsGoForward`. `TypeInv` adds
  to the types who holds a job: a worker that is busy owns its job or had it taken by a
  stall while running (`Held`), and a job that has not ended has an attempt left
  (`Bounded`), without which the last attempt could fail unreported. `Deleting` says
  which object a deletion has removed before it comes to the row; `EvaluationInv` that
  a worker stores results of criteria no older than those it replaces.
- **`WorkspaceProofs`**, for any requests at a time, records, users, columns and pages:
  `SecondCopyAgrees`, `ReferencedIsKept`, `ResolvedIsOwn`, `PartsFollow`,
  `ChannelsAgree`, `EditsSurvive` and the action property `OthersAreKept`. Each speaks
  of the rows alone; the invariants add what the statements still to come rely on: that
  a tool not in the list has no statement coming that adds it (`ToolsInv`), that what
  was referred to in time is in no deletion that passed its count (`CheckedInv`), that a
  gateway is removed only for a number archived for good (`NumbersInv`), that a value
  seen when a name was looked up goes only with its variable (`VariablesInv`), that one
  of the connected accounts is not about to be disconnected (`AccountsInv`), and what
  the draft and the patch in flight hold of each list (`PagesInv`). `StepOfKind`
  reduces a step to the module of its kind.

Only model-checked: everything that says "eventually" (`RunEnds`,
`RequestReturns`, `StepEnds`, `InStepEndsTheCall`, `JobsEnd`, `SupervisorCatchesUp`,
`LinkComesBack`), which the prover does not do under fairness.

## 6. Not modelled, and the plan

Not to be modelled: the speech adapters and the voice service (streams through
external services), evaluation (one LLM request), single-row CRUD of the platform
API (API keys, users, tenants, webhook endpoints, voices), read-only analytics, the
list pages of the admin frontend, configuration. Left out of modelled components: the
transcript and the LLM's tool loop of a turn, circuit breaker and cache of the tool
executor, wording everywhere.

Every invariant and action property of the runs is a theorem. Still to be proved are
those of the modules planned.

Modules planned: `CallRecord` (the CID service, the transcript as read-modify-write,
flush, end and the Kafka consumers: one conversation across Redis, PostgreSQL and
Kafka) and `ToolCalls` (circuit breaker with its window, retries with an idempotency
key, cached results).

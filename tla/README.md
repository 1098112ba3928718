# Cerbibot, modelled

TLA+ modules of the parts of Cerbibot (the multi-model orchestrator under
`src/backend`) whose behaviour depends on order: who acts between a check and
its use, what a crash leaves behind, what two workers do to one table. TLC
checks each module on a small instance; TLAPS proves the most important
properties for every value of the constants. `PROJECT.json` lists the
components, runs, mutants, hazards, theorems, and for every definition the
source lines it stands for.

Paths below are relative to `src/backend/orchestrator/` unless they begin with
`src/`.

## 1. The system

A FastAPI server (`server.py`, one asyncio thread) fronts an `Orchestrator`
(`router.py`) that answers a query in one of several modes by calling the
adapters of model providers. The dashboard (`src/dashboard`) and other clients
talk HTTP; `mmctl` (`src/backend/mmctl/__main__.py`) builds an orchestrator of
its own per command and shares only files with the server; a delegation daemon
runs jobs in threads. A handler is atomic between two `await`s; almost
everything that goes wrong goes wrong at the one `await` of the orchestrator in
the middle of a handler, or between processes that share a file.

| Component | State | Operations | Interaction | What makes it correct |
|---|---|---|---|---|
| Run ledger (`server.py`) | `runs`, `runs.json` | ask, chat, resume, heartbeat, dependencies, delete, clear, load/save | awaits the orchestrator; triggers call `chat` | dependencies first; one call per run; no run is active for ever |
| Run triggers (`server.py`) | `ui_settings["runTriggers"]` and its file | sweep (scheduler, manual), webhook, PUT of the table or of all settings, rotate secret | runs `chat`; copies the table before and writes it back after; clients send it back whole | edits and runs stay until older rows replace them; an interval is served once; a due trigger runs |
| Run events (`server.py`) | a queue of 256 per subscriber | emit, stream | every change of the ledger | a client that has read its queue shows the ledger |
| Chat sessions (`server.py`, `session.py`) | messages, project of a session, file | chat, trim, delete, save, load | chat awaits in between | sessions and projects do not mix; answers are lost only with the whole file; deletes stay |
| Budget tracker (`budgets.py`) | usage file, per-process session spend | check, record, read, rollover, construction | every provider call of server and `mmctl` | totals are the charges; caps hold, or are passed by a bounded amount |
| Tool approvals (`server.py`, `router.py`) | approval records in memory | create, approve, deny, consume; tool step of a request | request, human and provider fallback interleave | one run per approval, of the call shown, never after a denial |
| Admin password, token, remote access (`server.py`, `security/admin_auth.py`) | attempts, lockout, token and its file, plan in the settings | verify, recover, rotate, set, configure, revoke, save settings | guards each other; dashboards keep copies | bounded failures per lockout; a rotation stands; the plan is as last decided |
| Provider settings (`router.py`, `server.py`) | enablement, role routes, keys, two files | PUT providers, PUT roles, set/delete/test key, restart | every question picks its providers here | roles name enabled providers; the runtime is the settings; restarts keep them |
| Orchestrator modes, collaboration, retrieval (`router.py`, `collaboration/`, `retrieval/`) | weights | ask, ask_stream | adapters, budget, limiter, tools | ends; a bounded number of calls; within the budget; answers say something and report their cost |
| mmctl batch (`src/backend/mmctl/__main__.py`) | job file, results file | run, resume, report | asks the orchestrator job by job; the budget stops it | every job gets its row; what is answered is not paid for again |
| Rate limiter (`rate_limiter.py`) | sliding windows | acquire | adapters | never more than rpm and tpm in a window; bounded wait |
| Adapters (`providers/`) | what an adapter learned of its model | complete, stream, retries | limiter before, vendor after | every call comes back |
| Delegation (`delegation/`) | job directories, workspaces, threads | submit, follow, apply, delete | unix socket, threads, commands, git | a job ends; a follower ends and misses no event but perhaps the last; what is completed has its patch |
| Skills (`skills/`) | `registry.json`, files, signatures | install, discover, enable, delete, draft, run, test | CLI and server share the file | what is marked verified was signed; changes stick; runs do what was agreed to |
| Capability broker, human gate (`security/`) | calls per request id | request, execute | inside tool steps | no run without grant |
| Memory (`memory/`) | SQLite rows | add, list, delete, retention | chat context | isolation of projects, retention |
| Guardian, encryption, observability, tools, dashboard, scripts | little or none | I/O and text | called by the above | outside these models, see section 7 |

Hard behaviour, in the order the models take it up: requests that interleave at
the orchestrator call (resume, delete, heartbeat, second submission of a run
id); crashes with calls in flight; the whole-table write-back of the triggers;
check-await-record of the budget across tasks and processes; approvals used,
reused and denied around fallback and retry; jobs deleted under their workers;
two processes rewriting one registry; bounded queues that drop; settings changed
in memory, on file and put back; and repairs, rescues and fallbacks that add up.

## 2. Modules

Each component module is a plain TLA+ specification: one action per handler or
per piece of a handler between two awaits. `MC*` modules name the members of
the small instances, `*Proofs` modules hold theorems. Operators marked
`mutant` in a comment are plausible bugs of the definition that follows; they
are used only to see that each property can fail.

| Composition | How |
|---|---|
| `ChatSessions` EXTENDS `RunEvents` | a turn's steps emit the events of its run into the subscribers' queues, in one action each |
| `BudgetLedger` implements `Meter` | `Promise == INSTANCE Meter WITH ...`, checked as `IsAMeter` and proved |
| `Batch` EXTENDS `AskModes` | each job of a batch is a question, asked when the one before has its row; a question by itself is the other way to begin |
| `AskModes` and `BudgetLedger` | the first bounds the calls of one question against a budget that others have used; the second what questions and processes do to one budget at the same time |
| `AskModes` and `RateLimits` | a failed call of the first is a refusal or failure of the second, which always comes back |
| `RunTriggers` and `RunLedger` | a chat run of the first is a `Submit` of the second |

### RunLedger

`runs[r]` is the row of run `r`, `disk` what a restart would load, `exec[s]` an
orchestrator call in flight. A row keeps its status, endpoint, dependencies,
whether an explicit blocker is open (`held`), the same two of the checkpointed
request (`reqDeps`, `reqHeld`: what a resume replays), and the age of
`last_heartbeat_at` or else `updated_at` (`beaten`, `quiet`).

| Action | Code |
|---|---|
| `Submit` (through `Begin`) | `/v1/ask` and `/v1/chat` up to the await: `_start_run`, `_require_run_ready`, `_ensure_session_project` |
| `Resume` | `resume_run`, which replays the request through the same handlers |
| `Answer`, `Fail`, `Retry`, `StreamDropped` | what follows the await: completion, mapped error, strict-profile second call, a stream whose client left |
| `Heartbeat`, `UpdateDependencies`, `DeleteRun`, `ClearRuns` | the handlers of those names |
| `Tick` | the clock `_run_stale_info` reads |
| `Crash`, `CrashTornFile`, `CrashInResume` | a restart: with the file, with an unreadable file, between the save of "resuming" and the replay |

`Requests` says which handlers the clients of an instance use, so that a run
can ask a question of plain clients and another run of all of them.
`everDone`, `orphaned` and `late` are history.

### RunTriggers

`table` is the saved table; `proc[w]` is a sweep or a webhook in flight with the
copy of the table it made when it began, the due rows it has left and the row
whose chat run it awaits. `SweepBegin` is `_sweep_due_run_triggers` up to its
first await; `HookBegin`/`HookBody` are `fire_run_trigger` around
`await request.body()`; `RunCompleted` and `RunFailed` are the rest of
`_execute_run_trigger` and either the next due row (`NextDue`) or the write-back
(`PutBack`). The chat run is an await that completes or fails; what it does to
the ledger is RunLedger's `Submit`.

`view` is the copy that a client has loaded (`LoadTriggers`). A PUT of the
triggers sends a whole table, `next_run_at` and `last_run_id` included, made from
the table as it is or from an older view (`PutTriggers`, `PutTime`,
`PutNewTrigger`, `PutWithout`); `PutUiSettings` puts the view back with all the
other settings, for which no password is asked; `RotateSecret` is its handler.
`Crash` keeps the table, `CrashTornFile` is a save that was cut: the settings
load as none, and the triggers are gone. A copy, and the table, carry as history
whether they were read before the administrator's last change (`undone`) and
which triggers have completed a run they do not have (`behind`): the properties
speak of what the table holds where it is neither.

### RunEvents and ChatSessions

`queue[c]` is the bounded queue of a subscriber of `/v1/runs/events`, `view[c]`
what the events it has been sent show, `since[c][r]` how many events of other
runs followed the last one of `r`. `Put` is `put_nowait` with the drop of the
oldest event, `Emit` one handler's events in order, `Subscribe`, `Send` and
`Unsubscribe` the stream's loop and its `finally`. The real capacity of 256 is
the constant `Capacity`.

In ChatSessions a turn finds or makes the session object, appends its question
and trims (`ChatBegin`), and after the await appends its answer to the object it
has held since, saves all sessions and completes its run (`ChatAnswer`);
`ChatConflict` and `ChatFail` are the early ends, `DeleteSession` the handler,
`Crash` a restart from the file, which a save that was cut leaves unreadable
(`FilesLeft`), and which then loads as no sessions. An object is named after the turn that made
it, so that an object that left the dictionary is told from the one that took its place.
Messages are trimmed by tokens as `SessionManager.trim` does.

### BudgetLedger and Meter

`usage` is the file, `session[p]` the in-memory spend of process `p`, `task[t]`
a provider call between its check and its record. A locked operation
(`_sync_and_get_usage`, `record_cost`) is one action, because `flock` makes it
so; the constructor is two, `StartLoads` and `StartSaves`, because it does not
lock. `Call` is `check_would_fit` and the start of the await, `Answer` the end
with `record_cost`, `AskAgain` a repair of `_call_structured_with_retry`,
`Abandon` a stream closed at a yield, `Error` a provider that raises. The
totals of past days and the split by provider are left out: no decision reads
them. `billed` is what the providers have charged this month.

`Meter` is the abstract specification: two totals and a bill, an answer charged
once to both totals, missed or not, the totals overwritten by no more than was
charged, and a new day or month. Files, processes and locks are not in it.

### ToolApprovals

`status[a]` and `shown[a]` are the record of approval `a`; `req[q]` is a request
that awaits a tool proposal or its answer. `ProposeForApproval`,
`ProposeUnapproved`, `ProposeApproved`, `ProposeSafe` and `ProposeNothing` are
the paths through `_maybe_run_tools`; the broker's decision is a choice inside
them. `FallBack` is the loop of `_ask_single`, `StrictRetry` the second call of
the handlers, `End` every way out. `Approve` and `Deny` are the endpoints, which
look at no status. `Crash` empties the store.

### Access

The handlers run to their end without an await, so each is one action.
`RecordResult` is `_record_admin_verify_result`, shared by the password,
recovery and remote access endpoints; `RotateToken`, `RecoverToken`,
`SetPassword`, `ConfigureRemote`, `RevokeRemote`, `LoadSettings` and
`SaveSettings` are the endpoints and the dashboard's copy of the settings, which
it sends back whole, or with a plan of its own; `Restart` reads the files and
forgets the counter. Every file is rewritten in place, so every write has its
failure beside it, which leaves the old contents, nothing or a part
(`TokenNotWritten`, `SavePlan`, `SetPassword`); a crash in a write is its failure
and a restart. The token may also be in the environment, which the code asks
after the file (`LoadedToken`). `fails`, `since`, `decided`, `lost` and the
`current` flag of a copy of the plan are history.

### ProviderRoutes

A `PUT /v1/providers` is two actions, because it writes two files: `Apply`
(the new enablement, and routes reconciled and saved) and then `Accept` or
`Refuse`, which puts everything back. `PutRoutes` is the roles endpoint,
`PutRoutesElsewhere` the same from `mmctl`, `SetKey`, `DeleteKey` and
`TestProvider` the keys, `SetKeyElsewhere` is `mmctl secret set`, `Crash` a death
that may cut the file being written, `Reload` what a start loads. `Rebuild` builds
the adapters; the constructor of a `Fragile` one may raise, which refuses a PUT
and otherwise leaves the provider out (`RebuildLenient`). `astray` and `unbuilt` are
history: the routing file was last written by a change that did not finish, or by
another process; an adapter raised at the last build, or its key was stored by
another process since.

### AskModes

One question from `Ask` to its outcome. `stage` is the stage whose call comes
next; `Reply(s)` is a call that is checked against the budget, answered and
billed, `Repair` an answer that does not parse and is asked for again, `Trouble`
a call that the budget, the limiter or the provider refuses. Each workflow has
its stages with what it does on success and on failure (`Draft` .. `Rescue`,
`OpenA` .. `Resynthesize`, `Specialist`, `Combine`, `Poll` .. `Adjudicate`), `FallBack`
gives a workflow up for a single answer, `Single` and `SingleFails` are
the provider loop of `_ask_single`, with a tool proposal before each answer where
the question has tools (`Propose`, `ProposeFails`; the tool itself is in
ToolApprovals), retrieval tries its sources in the order of
the code, and a checked answer goes through the fact check. A text is reduced to
how the quality gates class it, a call costs one unit.

### Batch

`mmctl batch` asks the questions of a file and appends a row per job to a results
file. `at` is the job whose question AskModes is working on, `todo` the jobs that
have not begun, `rows[j]` the statuses on file of job `j`. `Begins` takes the
semaphore and calls `ask`, `Goes` is a step of the question in hand, `Ends` writes
its row. All coroutines start at once, but each only runs when another waits:
`Enters` is the moment when the job in hand first waits, when all others pass the
look at `stop_on_budget` and those without a question get their row. `Skips` is
what that look does if it comes late enough. `Crash` kills the command, perhaps in
the middle of a row (`torn`), and `Resume` is `batch resume`, with the budget as
other questions and days have left it. `answered` is history. `Batch` models
`--parallel 1`, the default; a question by itself (`batch = "lone"`) is one that the
server or `mmctl ask` asks, in any mode, streamed or checked.

### RateLimits

`events[g]` is what limiter `g` remembers, `recent[g]` the admissions of the
last window whatever it remembers. `Pass` is one turn of the loop in `acquire`
under its lock; a waiter sleeps outside it (`nap`) and looks again (`Wake`).
`Answered`, `Fails` and `Rejected` are the attempts of the adapter after
admission, per adapter (`OpenAI` .. `Local`), of which Google's has no timeout on
its client (`Hanging`); `NewLimiter` is a rebuilt runtime.
Time is counted in ages; the tokens of a window are a set of units, so that their
sum is a cardinality.

### Delegation

`pc[j]` is the next step of the thread that works on job `j`: `Record`, `Load`,
`WriteRunning`, `MakeWorkspace`, `RunExecutor`, `CaptureDiff`, `RunChecks`,
`WriteArtifacts`, and `ReadStatus`, `WriteStatus`, `TellStatus`, `Cleanup` for
the two halves of `_set_job_status` and what follows it; `Raise` is the handler.
`record`, `events`, `artifacts` and `dir` are files that a delete (`DeleteBegin`,
`DeleteRead`, `DeleteRemove`) takes away between any two of these steps.
`Follow`, `FollowEvents` and `FollowStatus` are a follower's polls, which nothing
synchronises with the worker, `ApplyPatch` the
patch on the target repository, `CommandEnds` and `DaemonEnds` the end of the
process with its threads.

### Skills

An operation is read-change-write over `registry.json` without a lock, so it is
one action per read and per write: `Install`, `Checksum`, `Verify`, `Load`,
`Truncate`, `Write`; `SetEnabled`, `SaveDraft`, `Discover`; `Delete`. A run
(`RunResolve`, `RunDraft`, `RunBegin`) goes through its steps: `ModelCall` is
paid for before its total is compared with the cap, `ToolStep` passes the risk
score, the shadow run, the approval policy and the broker, and `NextRun` goes on
to the adversarial cases of a test. `wanted`, `overlapped` and `intruders` are
history.

## 3. Runs

Every run passes, and for each of its properties `PROJECT.json` names a mutant,
a plausible bug of one definition, under which the same run fails.
`CHECK_DEADLOCK FALSE` stands where the bounds let everything stop (all calls
made, all days passed, all operations done); RunLedger and ProviderRoutes
never stop. State counts are distinct states.

| Run | States | Properties | What it shows |
|---|---|---|---|
| `run_ledger_safety` | 399,371 | `DependenciesDone`, `BareOnlyAfterRemoval`, `StalledMeansSilent` | all requests on two runs, with heartbeats, time and a crash |
| `run_ledger_live` | 271,764 | `SingleCallWhilePrompt`, `ActiveRunEndsOrStalls` | plain clients with time passing: one call per run, and no run active for ever |
| `run_triggers` | 536,673 | `TriggersOK`, `RunsAreRecorded`, `OncePerInterval`, `DueIsAttempted` | scheduler, webhook, an edit, a save of old settings, a crash that may cut the file |
| `budget_safety` | 1,159,422 | `OverrunBounded`, `CapsHoldInOrder`, `LedgerMatchesBill`, `IsAMeter` | two processes, two pending calls, three days |
| `approvals_safety` | 1,108,465 | `UsesWithinGrants`, `ExecutedAsShown`, `DenialStands` | two requests that share two approvals, fallback, retry, decisions, a crash |
| `delegation_jobs` | 1,315,756 | `JobsOK`, `OrphansAreExplained`, `WorkspaceIsRemoved`, `DoneMissesOnlyTheLast`, `FollowEnds` | a worker, a follower and a deleter on a job, applies, the end of its process |
| `skills_registry` | 1,042,601 | `RegistryOK`, `SerialChangesStick`, `RunOverspendsOneCall` | two processes, two skills, three files, runs of two steps |
| `chat_sessions` | 206,602 | `DrainedViewIsRecent`, `SessionsOK`, `CrashesKeepAnswers`, `DeletedStaysDeleted` | two turns, two sessions, two projects, a subscriber, two crashes that may cut the file |
| `access_safety` | 2,038,416 | `FailuresAreBounded`, `RotationsStick`, `DecisionsStick` | two clients over all endpoints, time, a restart, a save of any settings, a write that fails |
| `ask_modes` | 502,859 | `SpendingIsBounded`, `AnswersOK`, `BatchOK`, `AskedIsEnded` | any question by itself, with or without tools, with every outcome of every call, and a batch of three jobs with a kill and two resumes |
| `provider_routes` | 595,765 | `SettingsOK`, `RestartKeepsSettings` | three providers, two roles, refused changes, an adapter that may not be built, crashes, another process |
| `rate_limits` | 317,898 | `LimiterOK`, `CallsReturn` | two calls, five adapters, a rebuilt runtime |

`TriggersOK`, `JobsOK`, `RegistryOK`, `SessionsOK`, `SettingsOK`, `AnswersOK`,
`BatchOK` and `LimiterOK` are conjunctions of the module's type invariant and of
named invariants, each with a comment of its own; `SpendingIsBounded` is the
bound on the calls of a question and the bound on what is recorded.

### Bounds

* RunLedger: two runs, two slots, dependency sets `{}` and `{r1}` (so a run can
  wait for the other and for itself). A violation of any of its properties
  relates one run to its calls or to one dependency. `StaleAfter` is 1 where
  every request is allowed and 2 where the age of a call matters; three and four
  requests are enough to submit, disturb, resume and disturb again, and one
  restart to find a run with nothing behind it.
* RunTriggers: two triggers, one that the scheduler runs and one for the webhook,
  and intervals that let a trigger fire, rest and fire again; a scheduler and a
  webhook, since two workers and two rows are what an overlap needs. A manual
  sweep runs the scheduler's code and would only be a second scheduler. One edit
  and one save of all the settings, each from the table or an older view, under
  workers in flight or not: what a second edit could add is one more row that
  stays or is replaced. One restart, with the file whole or cut.
* BudgetLedger: a server and a command, two pending calls, two days of one month
  and one of the next, amounts 0 and 1 against caps 1, 1 and 2: at these caps
  every check is at its limit, and two calls that overlap pass it. Four calls
  and two starts let every process start, call and be restarted once.
* ToolApprovals: two approvals, two requests, one call without risk and two
  risky ones that differ in their arguments, two providers, three asks, three
  decisions, one crash.
* Delegation: one job, one follower, one deleter that may come twice. Jobs share
  nothing but the target repository; two workers differ from one only in the
  order of their files.
* Skills: two names, two processes, three operations, one death. Two overlapping
  operations lose an update; the third shows what is left behind. Two steps
  let a model call pass the cap and a tool follow a tool; a test runs its skill
  and one adversarial case.
* ChatSessions: two turns, which can share a session, follow a delete in it, or
  meet in different projects; token sizes 2 and 1 against a limit of 4, so that
  trimming happens; a queue of 3 for the runs of two turns, so that it overflows.
  Two crashes: one that cuts the file, and one after what was said since.
* Access: two failures lock for two ticks, in three: a lockout and what is left
  over. Two tokens, one of which may be in the environment, a restart, a save, and
  one write of any of the three files that fails.
* AskModes: two providers (fallback, and agreement of a consensus), a cap of 13
  with 0, 11, 12 or 13 already used: from plenty for every repair to nothing, so
  that the budget can refuse at every stage.
* Batch: a checked critique with an id, a single question without, and a job that
  asks nothing: a workflow that can be killed between any two of its calls, a job
  that every resume asks again, and one that fails without waiting. One kill and
  two resumes: of a batch that was killed, and of one that was resumed.
* ProviderRoutes: three providers, of which one has its key in the environment,
  one an adapter that may not be built, a required and an optional role, any number
  of changes and crashes.
* RateLimits: two calls, two requests and three tokens per window, sizes 1 and 2:
  each of the two limits can be the one that refuses.

Symmetry is used only in runs without liveness, over sets whose members no
definition tells apart.

### Fairness

Every adapter wraps a call that is not streamed in `asyncio.wait_for`. A stream
relies on the timeout of the vendor's client, which four of the five adapters set;
`genai.Client` is built without one (`providers/google_adapter.py:28`), and
`for chunk in stream` (line 90) is read on the event loop, so that a Google stream
that falls silent holds up the whole process. No fairness is assumed while one may.

* RunLedger, `FairSpec`: time passes, and a call in flight ends (`Answer` or
  `Fail`), of a provider whose streams have a timeout. Nothing is assumed of
  clients: no resume, no heartbeat, no retry.
* RunTriggers, `FairSpec`: the scheduler loops every 30 seconds and swallows
  every exception (`server.py:216-222`), time passes, and a chat run ends: it is
  not streamed (`server.py:315`), so it has its timeout. The webhook's body is not
  assumed to arrive.
* Delegation, `FairSpec`: a thread that lives goes on (its commands and checks
  run under a timeout), and a follower polls. Git commands have no timeout
  (`delegation/gateway.py:506-512`); that a local git ends is an assumption.
* Batch, `FairBatchSpec`: a question that can go on does, since a call has a
  timeout and a wait for the limiter a limit, and the loop over the jobs goes on
  when a question has ended; but not while an answer is streamed (`Streaming`), which
  may be Google's, so `AskedIsEnded` says that a question ends or comes to a
  stream. A kill ends a batch at any time, and no resume is assumed.
* RateLimits: time passes; unless a stream without a timeout is open (`Hanging`), a
  sleeper whose nap is over wakes and an attempt ends. `CallsReturn` says that a call
  comes back or meets such a stream. No fairness between waiters: it needs none,
  because who cannot be served in time is refused.

## 4. Theorems

All are proved for every value of the constants, from the named assumptions of
the modules, which say no more than that the sets are what they are called, that
bounds are natural numbers and that markers such as `Idle` are not members of
the sets they mark the absence of.

**RunLedgerProofs.** `TypeCorrect` first; every other proof uses it. That the file is
as the memory (`OnFile`) is a part of the two invariants that follow, because a crash
brings the rows of the file back. `DependenciesFirst` (`DependencyInv`): that a call's
dependencies have completed is inductive only together with the fact that every
run whose row says "completed" is in the history `everDone`, which is what a
start relies on. `BareRowsAreOrphans` (`BareInv`): every run is accounted for,
by a row with a request, by a removal under a call in flight, or by having
neither a row nor a call; without the last case an answer might create a bare
row for a run nobody removed.

`StalledRunsAreSilent` is for all requests, and about the runs that were never sent a
heartbeat: `SilentInv` says that the row of such a run is at most as old as each of its
calls. For a run with a heartbeat it is false, because no start refreshes one.
`PlainClientsHaveOneCall` speaks of some clients only, as its run does: its hypothesis is
about `Requests`, and leaves out clients that send heartbeats, name a run anew or set its
dependencies. `PromptInv`: as long as no answer is late, a call in flight is
the only one of its run, younger than the threshold, and its row is active (or was
removed under it, and nobody can resume what has no endpoint), so that whoever
would resume it is refused.

**LimitsProofs**, on BudgetLedger and RateLimits. `BudgetTypes`, `DayIsPartOfMonth` and `LedgerIsExact`
rest on an invariant over both copies of the figures, the file and what a
starting process has loaded, since a constructor will save the latter.
`OverrunIsBounded` strengthens the bound to a sum: what has been spent exceeds a
cap by at most `MaxAmount` times the number of calls *not* pending, so that a
check adds a pending call where there was room, and an answer trades a pending
call for its charge. The lemmas on cardinalities say that making a task pending
or idle changes the count by one. `CapsHoldOneAtATime` rests on three facts: at most
one call is pending (`Alone`), and its estimate still has room in its session
(`SessionHasRoom`) and in the file (`FiguresHaveRoom`), because nothing else can
be charged between its check and its record and a new day only makes room.
`LedgerIsAMeter` is the refinement: the initial state is the meter's, and each
action is shown to be one of the meter's steps or to change nothing a reader
sees, from the invariants above; a constructor's save is an `Overwrite` because
the figures it loaded are no more than the bill.

`LimitsHold` rests on `WindowInv`: what a limiter remembers is exactly the window of its
admissions, oldest first, so that what is refused for want of room is refused rightly
and what is admitted fits. A pass forgets nothing, because time already takes away
what has left the window. `CallInv` is about one call: a nap is planned within its limit
and only gets shorter, and a call that goes without a temperature was told by its
adapter. Tokens are counted as a set of units (`Units`), so that what a
sum does when an entry joins or the oldest leave follows from lemmas on cardinality.

**ToolApprovalsProofs.** `ApprovalTypes` bounds the tools a request has run by
two per provider (its first round and its strict retry). `ApprovalsAreSpent`:
`uses <= grants` is not inductive, `uses + 1 <= grants` for an approved record
is what makes the next use safe. `RunsAreAsShown` needs that what a record shows
never changes once it is set, `DenialsStand` that an approved record's latest
decision is an approval.

**SettingsProofs**, on Access, ProviderRoutes and Skills. `RotationsAreKept` needs
what a restart would load: while no write of the token file has failed, the file holds
the last token issued, or none was issued and the environment's is in force
(`TokenInv`). `DecisionsAreKept` (`PlanInv`) says of the plan in memory, of the one on
file and of every copy a client holds that, if it is marked as current, it is what was
last decided, and enabled only under a password; a copy without a plan is harmless,
because a save of it keeps the plan in force.
`FailuresBounded` is arithmetic over time. `LocksSoFar(b)` says that b lockouts
have begun, each after the one before was over, that all failures but the
current `attempts` were spent on them (`fails = MaxFailed * b + attempts`), and
that those attempts were checked after the last lockout ended.

Of ProviderRoutes: `RestartFindsSettings` speaks of the settings after a
change that was begun: `SettledEnabled` and `SettledRoutes` are what is in use, or
what a refusal will return to while a change is pending. `FilesInv` says that both
files hold the settled values, and that the routes loaded are those a restart
would load, except where `astray`; a crash between the two writes is a case of
it. `SettingsStayOK` needs that the settled routes name enabled providers
(`SettledFit`), since they are what a refusal puts back; that a required role always
finds a first enabled provider follows from `<` being well founded on the naturals.
That the shipped routes fit the shipped enablement is an assumption on the constants
(`ShippedFit`), because `validate_config` refuses any other configuration
(`config.py:382-385`).

Of Skills: `OpOK` is about one operation. Before every call a run is within its cap
(`CapOf`), which gives `RunsOverspendOneCall`; a risky tool ran only with the shadow run
confirmed and somebody's approval, the second half of `RegistryIsSound`. Processes that take turns
are `SerialInv` and `StickInv`: one at most is in an operation, what it has read is still
so (its rows are the registry's, its record is of the file that is there, or is none and
the file is gone), and a file without a row is one whose row is being made or whose
install was refused. Each step is proved from the view of the process whose turn it is
(`Neat`, `Tidy`), and `TurnIn` and `TurnOut` go from the invariant to that view and back. A signature
is only ever there for a file that was signed (`SignedOK`), which is why an old
signature beside a new file proves nothing.

**ChatSessionsProofs.** `DrainedViewsAreRecent` is about RunEvents: `Follows` says that the
last event of a run, if it is still due, stands in a subscriber's queue with as many
places behind it as events have come since, or has been sent, so that an empty queue
means a recent view unless as many events as the queue holds have pushed it out.
`SessionsAreApart` rests on `ApartInv`: an object made for a session belongs to one session
and project, and each of its messages is of a turn that holds this object. The trimmed
history is a suffix, so what it keeps was said there too; it is the longest that fits,
which needs the least element of a set of naturals. `Tokens`, the estimate, is a
constant operator of which it is only assumed that no messages are no tokens. `AnswersSurvive`
rests on `SavedInv`, which relates the dictionary to the file: a crash that leaves the file
brings every answer back, and a session that was saved within its limit is not trimmed
again. `DeletesStand` is inductive with it.

**RunTriggersProofs.** One invariant, `TriggersInv`, says the same of the table, of the
client's view and of every worker's copy (`CopyOK`): unless it is marked as undone it agrees
with the administrator's last version in the parts that are the administrator's, and for
the triggers it is not behind on it has the last run and the time that follows from it.
Whatever replaces the table is one of these copies, with one row changed, so a write-back,
a PUT from an old view and a save of all the settings are one case of the proof. `TriggersAreKept`
and `RunsStayRecorded` follow at once; `SweepsKeepIntervals` also needs `FlightOK`, that the
rows a sweep has yet to run were due when it began.

**DelegationProofs.** Worker, follower and delete take no lock, so each part of the
invariant relates what one of them has read to where the worker is. `JobInv`: a
terminal status means that the worker is in its last steps, and an active one that it
has neither ended nor begun its end, unless the policy could not be read;
`OrphansAreExplained` and `WorkspaceIsRemoved` follow at once. `WholeInv` is about the
artifacts and events of a job whose files nobody took away. `DeleteInv`: once an unforced delete
has read a status that is not active, the worker is past its last active status, so what
the delete has read stays true until it acts. `FollowInv`: a follower is never ahead of
the events, and one that has met a terminal status has, at its next look at the events,
been sent all but what the worker writes after it, which is the last.

**BatchProofs.** One invariant over AskModes, `QuestionInv`, and one over the batch
around it. `PlaceInv` says which stages belong to which mode. The bound on calls is a
rank: `Room(s, ...)` is the number of calls that may still follow from a stage,
every repair, second refinement, fact check and fallback counted, and `CallInv` says
that calls sent and room left stay within the mode's limit; `CallStep` shows for each
action that its calls come out of the room. `BillInv`, `TextInv` and `SourceInv` are what
`AnswersReportTheirBill` (which counts the one proposal that a first answer with tools
records and does not report), `PlainAnswersSpeak` and `AnswersAreGrounded` need of the stages
before the end. Around a question, `PassInv` says where each job is in a pass (to do,
in hand, with a row, or skipped), and `CountInv` how often it has been answered: a job
still to be asked at most once per resume, one with an id and no "ok" row at most once
per kill, since a resume leaves out the others. `BudgetHolds` needs `ModeInv`, that only
a job of the batch makes it a poll. The order of the jobs needs the first of a
set of naturals, which is well-foundedness of `<`.

Every invariant and action property of the runs is stated by one of these theorems.
Only model-checked is liveness (`ActiveRunEndsOrStalls`, `DueIsAttempted`, `FollowEnds`,
`AskedIsEnded`, `CallsReturn`), which needs fairness and ENABLED.

## 5. Observations

The conditions of the passing properties, and the choices in the models, name
what else the code does. None of it is a promise broken in so many words, or the
run that would show it would ask a question that a condition below already
answers; a maintainer may want to know nevertheless.

Runs and triggers

* A resume refreshes no heartbeat, so a run with an old heartbeat is stalled
  again the moment its new call begins (`server.py:374`; `StalledMeansSilent` is
  about runs that were sent none).
* A resume replays the blockers of the stored request and forgets an open
  blocker recorded since (`server.py:549`).
* A dependency recorded for an executing run makes it "blocked", which a resume
  does not take for active: a second call begins beside the first
  (`server.py:2405`, `2431`; `run_ledger_live` has clients that record none).
* The answer to a call whose run was deleted creates the row again without its
  request (`server.py:566`; `BareOnlyAfterRemoval` says it is the only way to
  such a row).
* A sweep or a webhook writes back the table it copied before its runs, so an
  edit or a rotation made meanwhile is undone (`server.py:358`; `undone` in
  `TriggersOK`). So does a dashboard that saves a table, or any other setting, from
  what it loaded earlier (`server.py:2466-2476`, `872-903`).
* Of two workers that run triggers at once, the one that began earlier and ends
  later overwrites the run the other has recorded (`server.py:2521`; `behind` in
  `RunsAreRecorded`), and a PUT of older rows brings back an older `next_run_at`, so
  that an interval is served again (`OncePerInterval`).
* The settings file is rewritten in place; a save of any setting that is cut takes
  the triggers and the remote access plan with it (`server.py:3976`, `3942-3948`). The
  same is true of the sessions (`server.py:4145`, `4074-4077`).
* A follower that polls twice between the worker's last status and its last event
  ends without that event (`delegation/daemon.py:86-93`; `DoneMissesOnlyTheLast`).
* `str(False)` counts as a request for tools, so a trigger without tools is
  refused in every mode but single (`server.py:1965`, `router.py:770`).

Budget, questions, tools

* Calls that are checked before either is recorded pass a cap together
  (`router.py:1047`; `OverrunBounded` says by how much, `CapsHoldInOrder` that
  nothing else does, for calls that cost no more than their estimate).
* A process that starts saves the usage file as it loaded it, over a cost
  recorded in between (`budgets.py:42`; `clobbered` in `LedgerMatchesBill`).
* Of a structured call that is asked again only the last asking is recorded, and
  a stream closed at a yield is not recorded at all
  (`collaboration/draft_critique_refine.py:220`, `router.py:2362`; `dropped`).
* The cost of a tool proposal is recorded (`router.py:3284`) and not reported
  (`router.py:1113`): `AnswersReportTheirBill` counts it apart. It is asked for again
  with every provider, up to three times (`router.py:3274-3283`), which is most of the
  limit on the calls of a single question.
* An answer after a fallback reports the cost of the single answer only; a blank
  answer is billed, and recorded as a success and then as a failure of its
  provider; the fact check asks no budget; a streamed critique can return an
  empty text; the strict second refinement is unreachable, because the circuit
  breaker ahead of it opens on the same condition.
* `max_calls_per_request` counts per provider and per retry, because each has a
  broker and a request id of its own (`router.py:3359`, `security/broker.py:90`).
* An approved tool that is also a high-impact one still asks the console
  (`security/broker.py:122`), and the console blocks the server's event loop for
  up to a minute (`security/human_gate.py:35`).

* In a batch, whether to stop on the budget is looked at before the semaphore, by
  all jobs at once: after the first call none is skipped, and each meets the
  exhausted budget by itself (`src/backend/mmctl/__main__.py:2129`; `JobsAreAccounted`
  holds because a refused job gets a row).
* A job without an id gets a random one in its row, so every resume asks it again
  (`src/backend/mmctl/__main__.py:2132`, `2217`; `NamedJobsAreAnsweredOnce` is about
  the others). A kill in the middle of a row leaves a file that no resume reads,
  and a kill before it an answer that is paid for twice.

Providers

* The attempts of an adapter pass on one admission, so a provider can see up to
  `attempts * rpm` requests in a window; a rebuilt runtime starts with empty
  windows beside the calls of the old one.
* A temperature that is rejected on the last attempt is not tried again without,
  and the error then reports no last error (`providers/openai_adapter.py:163`).
* A PUT of the providers gives a role that was deliberately left blank the
  first enabled provider. Routes that fail validation at a start are dropped but
  stay on file, and come back when a later start finds them valid, and a key deleted
  in the dashboard returns at a restart when the user's environment holds it. Routes
  changed and keys stored by `mmctl` are not seen by a running server
  (`src/backend/mmctl/__main__.py:3127-3150`).
* An adapter whose constructor raises is left out without an error, except at a PUT
  of the providers (`router.py:592-637`; `unbuilt` in `RuntimeMatches`).
* A Google stream has no timeout and is read on the event loop
  (`providers/google_adapter.py:28`, `90`): a silent one stops the server.
* Saving the learned weights keeps the rows of enabled providers only, and a
  weights file that was cut off prevents a start (`router_weights.py:61`).

Access, skills, delegation

* A dashboard that saves settings it loaded earlier re-enables a revoked remote
  plan, and a client may save any plan of its own, without a password and where none
  was ever set (`server.py:872-903`; `DecisionsStick` holds until a client does).
* A write of the token file that fails leaves the token in force as it was, and
  another, or none, for the next start (`server.py:3426`; `lost` in `RotationsStick`).
* A refused install leaves the new file in place, where discovery finds it and,
  without a row, enables it (`skills/registry.py:260-290`; `intruders`).
* Two processes that change the registry together lose an update, or leave a
  file that does not parse (`skills/registry.py:79`; `overlapped`).
* An elevated workflow is refused even when its skill is certified, because
  discovery never carries `signature_verified` for a file that is there
  (`skills/workflow.py:412-429`, `skills/registry.py:104-113`), although the refusal
  asks for a certified skill (`skills/workflow.py:53-57`) and a test expects one to
  run, on a registry it writes by hand
  (`src/backend/tests/test_skill_workflow.py:340`). No property rests on it.
* `--budget-cap` does not override the cap in the file (`skills/workflow.py:59`),
  later cases of a skill test ask again neither whether the skill is enabled nor
  what the others spent (`skills/testing.py:50-72`), and the manifest's
  `kill_switch`, `rate_limits` and `budgets.usd_cap` are required but not enforced.
* A job submitted by `mmctl delegate submit --async-run` ends with its command
  (`src/backend/mmctl/__main__.py:2939`); a check-only apply switches the branch
  (`delegation/gateway.py:372`); a check that edits files of the diff, or stages
  others, adds to the patch after it was held against the scope
  (`delegation/gateway.py:212-226`).
* Memory: retrieval does not expire records, and cannot match statements that
  are stored encrypted.

## 6. Plan

1. A theorem under a weaker hypothesis: what of `SerialChangesStick` survives an
   overlap that touches other skills, as `TriggersOK` says it of triggers.
2. An abstract `RunLifecycle` (absent, waiting, executing, ended) that RunLedger
   implements for plain clients, as BudgetLedger implements Meter; an abstract
   `Job` for Delegation.
3. The learned weights with their file; argument patterns of the broker; memory
   retention against chat context.

## 7. Not modelled

Searching, fetching and parsing of retrieval, requests and answers of the
vendors' clients, tools and sandbox are I/O: the models see an answer, a charge
or a failure. Guardian, scanners, taint, intent drift and privacy are pattern
matching over text; the models take their rejection as a choice. Encryption
wraps whole files. Observability is append-only and read by people. Memory is
SQLite rows that one process changes by one statement at a time: no order of
steps exists that a model could permute. The catalog and the governance report
of skills are computed from files. The configuration is read once; what changes
at run time is in ProviderRoutes and Access. Evaluation, integrations and
operations scripts are outside the running system. Inside the modelled parts,
wording, redaction, limits on text lengths, result summaries, checkpoint stages,
the scoring of texts and the learned weights are left out, and so are the
listing endpoints, which only read.

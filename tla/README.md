# AutoPostule backend: a verification project in TLA+

AutoPostule applies for jobs on a user's behalf. A *job search* scrapes the boards the user switched on
(APEC, HelloWork, Welcome to the Jungle), has a language model write a cover letter per offer, lets a PREMIUM
user review the letters, and sends the applications through a browser. The code is asynchronous Python: an
API process (FastAPI), one worker process per started or resumed search (a LangGraph graph driven by
`MasterAgent`), a daily messaging job, PostgreSQL, a LangGraph checkpoint store, Redis for progress frames,
Stripe for payments.

This directory holds the models, the TLC runs and the TLAPS proofs. Paths below are relative to
`auto_apply_app/` unless they start with `src/`. Sections: 1 inventory, 2 modules, 3 runs, 4 fairness,
5 proofs, 6 disagreements between code and comments, 7 what is only model-checked, 8 what is not modelled,
9 plan.

## 1. Inventory

| Component | State it keeps | Operations | Talks to | What is hard | What makes it correct | Module |
|---|---|---|---|---|---|---|
| Agent requests (`agent_use_cases.py`, `agent_state_use_cases.py`, routers) | none of its own | start, resume, kill, shutdown, approve, discard, rewrite a letter | rows, dispatcher | reads, checks, and writes later; resume looks at neither status nor kill switch | consent before sending; nothing but a stale write of the user's takes a recorded application back | `SearchRun` |
| Master graph (`master_agent.py`, `state.py`, `runner.py`) | `JobApplicationState`, checkpoint | routers, nodes, interrupt, notifications | workers, rows | nodes of one superstep side by side, channels that append, state inherited over resumes, a failure at any call | every execution ends; a confirmed application is recorded; the limit of the day | `SearchRun` |
| Board workers: scraping | list, cards handled, offers found | open, skip, keep, go back, turn pages | the board, kill switch | pages rebuilt under the loop, cards seen twice, a browser stranded elsewhere | each offer once, all or nothing, finds survive, it ends | `Scrape` |
| Board workers: submitting | place in the queue, what was sent | open a form, fill, click, confirm, pause | the board, kill switch | nothing undoes a click, a confirmation may be missed | one click per offer, what was sent is handed over | `Submit` |
| Board workers: browser and sign-in | browser, page, persona, cookie jars | launch, load jar, sign in, save, clean up | disk, session store | one worker object per process holds whatever booted last; parts that do not close | a jar is never worn by another user or device; browsers close | `Session` |
| Board workers: the search (`search_jobs`, `_apply_filters`) | the board's form; on Welcome to the Jungle the account's | type, tick, choose, send, retry | the board | fields that fail silently, half-filled fields of a failed attempt, a reload in the middle, a form kept from an earlier search | the list was asked for with this search | `SearchForm` |
| Kill switch and heartbeat (`agent_state`) | `is_shutdown`, `last_heartbeat` | set, read, beat | all nodes | a beat races the kill; a failed read says "not killed" | a stopped worker stops | `SearchRun`, `Scrape`, `Submit` |
| Job offers, search status, usage | rows | save all, clean up, pause, complete, cancel, count | graph, API | crash between send and save; cleanup against review; writers that do not look at each other | SUBMITTED means sent and is final; usage once per run | `SearchRun` |
| AI credits, subscriptions, Stripe webhooks | plan, period, balance, ledger | checkout, payment, failure, update, deletion; upgrade, downgrade, cancel; gate and debit | Stripe, runs | events repeated, late and out of order; whole-entity merges against a one-statement debit | balance within the plan, agent stops with the payments | `Billing` |
| Progress relay (runner, brokers, SSE route) | channels, queues, callbacks | publish, subscribe, stream, sentinel | graph, browser | frames before the subscription, late sentinel, callbacks shared in one process | a reader that was in time misses nothing; one sentinel | `ProgressRelay` |
| Browser personas | device rows, pins | resolve, generate, rotate, retire, purge | worker boot | upserts on slots, mode switched, two resolutions at once | one stable device per board | `Personas` |
| Accounts, authentication | three rows with an e-mail address, code, tries | register, login, verify, reset, change address, opt out, delete | e-mail, Stripe, rate limiter | requests overlap and save whole rows as they read them; one code field for two purposes | addresses agree but where a stale save brought one back, the address was proved, only stale saves undo another's work | `Accounts` |
| Messaging job | `message_log` | select a cohort, check, send, log | e-mail | launched again, killed between send and log; users come and go meanwhile | repeated only by a lapse; nobody missed by a clean run | `Messaging` |
| Process start and dispatch | job execution | dispatch, boot, SIGTERM | API, runner | a dispatch that fails is ignored | - | `SearchRun`, `ProgressRelay` |
| Displays and input backends (`pacing.py`, `human_behavior.py`, `input/`) | displays of a process, backend of a page, stray windows, focus | open and close displays, mount and verify the X backend, click, type | X presses reach the top window and keys the focus; a session may fail at any await; a click may open a window | one pointer per display, displays come back, a send is pressed once unless the pressing itself raised, keys reach the page | `Input` |
| Pacing (`pacing.py`, the loops of the workers) | clock and token of a worker, its heartbeat | start the clock, pause, read, scan, break | workers, kill switch and heartbeat | one worker per process, so runs follow and overlap on one clock; waits longer than a heartbeat may be | no budget inherited, a pause ends with its budget, a worker that rests reads as alive | `Pacing` |
| Free search (`free_search_use_cases.py`, the scrapers without an account) | usage row of user and day; the browser and place of a scrape | check, scrape one board, record | board, rows | lookups and recordings of several requests; a list that moves between two accesses to a card; closes that raise | the row counts what was recorded; a link belongs to its title; nothing stays open | `FreeSearch` |
| Announcements, page views, tracker, preferences, analytics, admin; their two stores (PostgreSQL, `memory.py`) | one row each, in tables and in dictionaries | save, dismiss, record a visit, draft and move offers, toggle answers, devices, ledger, log, accounts; figures | API | two implementations of every query; a unit that fails half way; visits and months at their boundaries; cascades | both stores hold the same rows and answer alike what they filter alike; a dismissed notice stays away; visits add up | `Stores` |
| HTTP surface, presenters, configuration; times and shapes; variants | | | | | | section 8 |

`PROJECT.json` lists the hazards of this code one by one, at their lines, with the properties that would
catch each, and maps every definition to the lines it models.

## 2. Modules

| Module | What it is |
|---|---|
| `SearchRun`, `MCSearchRun`, `SearchRunProofs` | one search of one user: requests, executions of the graph, rows, checkpoint |
| `Wallet`, `Billing`, `MCBilling`, `BillingProofs` | abstract wallet; the subscription row under webhooks, requests and debits |
| `Harvest`, `Scrape`, `MCScrape`, `ScrapeProofs` | abstract scrape; the scraping loops of the three boards |
| `Outbox`, `Submit`, `MCSubmit`, `RecordsProofs` | abstract submission; the submission loops of the three boards |
| `Session`, `SearchForm`, `MCSession`, `SessionProofs` | boot, sign-in and cleanup of a board's worker; its search node in detail; one run for both |
| `ProgressRelay`, `MCProgressRelay`, `DeliveryProofs` | callbacks, bar, channel, stream |
| `Accounts`, `Personas`, `MCAccounts`, `AccountsProofs` | account requests; resolution of devices; one run for both |
| `Messaging`, `MCMessaging`, `DeliveryProofs` | the daily messaging job |
| `Input`, `Pacing`, `InputProofs`, `MCInput` | displays, input backends, clicks and texts of one process; the waits of one board's worker, its rest budget and its heartbeat; one run for both |
| `FreeSearch`, `Stores`, `MCDesk`, `DeliveryProofs` (of `FreeSearch`), `RecordsProofs` (of `Stores`) | free searches; the database and its in-memory double under the same units of work; one run for both |

How they compose. `SearchRun` sees a worker as a list of offers with a loop; `Scrape` and `Submit` are the two
loops in detail, and `Harvest` and `Outbox` say what `SearchRun` relies on: a harvest is handed over whole or
not at all, an outbox hands over everything it reported whatever stopped it. `SearchRun` sees the wallet as
a guarded debit and a balance that others may lower; `Billing` is that wallet with everybody who writes it,
and `Wallet` is the promise between them. `Session` is what surrounds the loops in the worker's process;
`SearchForm` is its node `search`; `Personas` supplies the devices it wears, and
`Input` the clicks the two loops count as one step (`NoRepeat` is what `Submit` takes of it: a send is pressed
once, unless the pressing itself raised with the press out, which `Submit` does not count); `Pacing` is the time between them, and shares nothing with `Input` but the worker (`MCInput`).
`ProgressRelay` takes executions as black boxes that publish, return, raise or die. `FreeSearch` and `Stores` share nothing with each other or the rest but tables; `MCDesk` lets
each behaviour move one of the two, as `MCAccounts` does with `Accounts` and `Personas`, and so does `MCSession` with `Session` and `SearchForm`, whose nodes take turns in a graph
and share only the page.

### SearchRun

| Variables | Code |
|---|---|
| `plan`, `searchStatus`, `row`, `credits`, `usage` | rows of subscription, job search, job offers, agent usage; `"none"` is "no row" |
| `shutdown`, `alive` | the `agent_states` row: `is_shutdown`, and whether `last_heartbeat` is set and younger than the stale threshold |
| `elsewhere` | what the user's other searches recorded today |
| `ckpt` | the checkpoint of thread `search_<id>` |
| `pc`, `todo`, `succ`, `g`, `nxt` | per execution: its life, the nodes of the superstep still running, the nodes chosen for the next one, the state the superstep started from, that state with the superstep's writes |
| `snap`, `an`, `fin`, `wk` | local variables of a node between its awaits: the balance loaded at boot, the loop of `analyze`, `is_killed` in `finalize`, the submit loop of each worker |
| `edit`, `picked` | a review request, and an "apply all" of each resume, between its read of the drafts and its write |
| `faults`, `edits` | bounds used up |
| `applies`, `entries`, `confirmed`, `consent`, `charged`, `saved`, `missed`, `overwritten` | history, read by properties only |

Execution `1` is the start; executions `2..MaxRuns` are resumes and may overlap it and one another. A node is
split where it awaits something another actor can change.

| Actions | Code |
|---|---|
| `StartPrepare`, `ResumeRead` and `ResumePrepare`, `Kill`, `RequestShutdown` | `prepare` of start and of resume, which with "apply all" selects the drafts, and upserts them whole as approved later, `KillJobSearchUseCase`, `RequestAgentShutdownUseCase` |
| `EditRead`, `EditWrite` | approve, discard and letter update: select and check, then upsert of the whole row |
| `BootStart`, `BootResume`, `Crash` | worker process up, `run_job_search`, `resume_job_search` with `aupdate_state(as_node="human_review")`; process death, failed dispatch, or an exception that leaves the graph |
| `DispatchScrape`, `WorkerScrape` | START router, scraping worker with `worker_return_router` |
| `AnalyzeStart` ... `AnalyzeRoute` | `analyze_and_generate`: gate, loop, cut and debit, save, PAUSED; then `route_review` |
| `PrepareSubmit`, `DispatchSubmit` | `prepare_submit` with the checks of its router; daily count and shares |
| `WorkerBoot`, `WorkerCheck`, `WorkerSend` | session and circuit breaker, top of the submit loop, one form |
| `FinalizeStart`, `FinalizeSave`, `FinalizeCleanup`; the notifications | `finalize_batch`, `route_end`, the terminal nodes |
| `NextSuperstep` | LangGraph's barrier: reducers, checkpoint, interrupt before `human_review` |
| `HeartbeatGoesStale`, `ElsewhereApplies`, `ElsewhereBills` | clock; the user's other searches |

LangGraph is outside `src/`; what is used of it: a superstep's nodes read the state it started from; their
writes are merged at its end by the channel reducers of `state.py`; a router runs after its node on the state
with that node's writes; `interrupt_before` stops the graph before the superstep that holds the node;
`aupdate_state(as_node=X)` writes as if X had returned; a worker subgraph hands back its whole state, so
`processed_offers` (`operator.add`) appends the list it was given.

Abstractions: copies of an offer in `processed_offers` are counted to 2; found offers are a set; `alive` merges
"heartbeat cleared" with "stale"; every recorded application counts as today's; gates that only refuse a
request are left out; letters, ranks and pages are not modelled (a letter parses or not, a form is skipped,
sent and confirmed, or sent without confirmation); a failing database call, a crash and an uncaught exception
each use up one fault. `UpdateJobSearch`, `CompleteJobSearch`, `DeleteJobSearch` and `DeleteJobOffer` are reached
by no route.

### Billing

`stripe` and `events` are Stripe (external): subscriptions, and every event it emitted; `acked` those answered
with success. `row` is the `user_subscriptions` row, `ledger` the two sums of `credit_transactions` that a claim
in the code is about, `tx` the open transaction of each handler: `Deliver` reads the row and computes the whole
new entity (`After...` are the four webhooks and the methods of `UserSubscription` they call), `Merge` writes the
entity back, `Record` appends to the ledger, `Commit` makes it permanent or `Abort` drops it. `Consume` is the
debit of a running search, one guarded UPDATE. `EmailChange` is the account request that saves the whole row.
`SignUp`, `Renew`, `RenewalFails`, `Portal`, `Delete` are Stripe's side, `Tick` the clock. `calm` is history: no
event so far was late, repeated or handled beside another.

### Scrape and Submit

`Scrape` is `get_matched_jobs` of one board. `list`, `place` are what the site shows and where the browser is
(environment); `todo`, `cur`, `seen`, `hovers`, `streak`, `page` the loop's variables, `found` the offers kept,
`result` what the node returned. The boards differ and each has its own actions: APEC visits cards in a shuffled
order (`PlanCardVisitOrder`) and remembers hashes; HelloWork walks by index and remembers nothing; WTTJ takes the
first card it has not handled, since an opened card leaves its list, and hovers over a card that does not
open at most `MaxHovers` times.

`Submit` is `submit_applications`. `turn`, `tries` are the offer and the attempt, `clicks` how often each offer's
send button was pressed, `answer` what the board made of it, `successful` what the worker counts,
`result`/`outcome` what it returned and how. `ApecConfirm`, `HelloWorkConfirm`, `WttjConfirm` differ in what they take
for a confirmation. A form is filled, or raises, as one step. The send click is one click. `human_click` answers any exception of
it with a `locator.click()` of its own: where the first raised before it was delivered that is the one click, and where
the pressing itself raised with the press out it is a second one, which `Submit` leaves to `Input`
(`PressRaises`, section 6).

### Session

`browser`, `page`, `fp` are the fields of the worker object of each process, `up`, `open`, `cookies` the browsers
that really run and what they are signed in as, `local`, `stored` the jars on disk and in the bucket.

| Actions | Code |
|---|---|
| `Begin`, `StartSession`, `StartSessionWithAuth` | the boot of either track: record the persona, launch, (load the jar,) open the context, arrive |
| `GoToJobBoard`, `Gate` | the homepage; `_is_session_valid` and what follows from it |
| `ApecRequestLogin`, `ApecAutoLogin`, `ApecManualSignIn`, and the same of `Hw...` and `Wttj...` | `request_login`, `_perform_auto_login`, the 90 seconds of semi-automation. `LoginStages` are the three loops of each (open the form, type and submit, confirm); the boards differ in when they wait for the site, and in what they take for a proof |
| `Save`, `Search`, `WarmUp`, `Work`, `Stopped` | `_save_auth_state`, the nodes between sign-in and cleanup, `route_node_exit` |
| `Cleanup` with `ApecClose`, `HwClose`, `WttjClose`; `Crash` | `cleanup` and `force_cleanup`; a process dies |

A site may end a session, or be slow to show it, at the gate, and may sign in on an attempt that the worker takes for
failed. A click on a login form that is not shown is a failed stage.

### SearchForm

`form` is what the fields of the page hold, `kept` what the account's form does, `asked` the form that was last sent,
`shown` the one whose list is on the page, `slips` the fields that could not be set while the search went on. Two
searches are made one after the other, each in a browser of its own.

| Actions | Code |
|---|---|
| `ApecKeywords`, `ApecRender`, `ApecFilters`, `ApecSend` | APEC's advanced form, reloaded while its slider is missing |
| `HwQuery`, `HwFilters`, `HwSend` | HelloWork's query in three attempts, and the panel over its results |
| `WttjOpen`, `WttjRole`, `WttjLocation`, `WttjContract`, `WttjSend` | the account's preferences, section by section |
| `NextSearch`, `HwListArrives` | the next run; the site |

Loops that only wait (a link, a panel) are one step that succeeds or fails. Of the site it is assumed that Welcome to
the Jungle shows the account's form again, hidden contract boxes included (why else would the code untick and
expand), and that the other forms open empty; the first suggestion for a place is taken for that place. Remote work and
visas are constants set like the levels and left out. The warm-up of a submission fills the same forms once, and its
outcome is not used.

### ProgressRelay

`callback` is the run a worker object reports for, `counts` the `(done, total)` kept per band and board, `published`
the frames, `boxes`/`current` the queues of the memory broker (a Redis subscription is a box of its own), `client`
and `box` a request's stream, `seen` what it relayed. Deployments: `cloud` (Redis, one process per run), `local`
(Redis, runs share a process), `memory` (one process, in-memory broker).

### Personas, Accounts, Messaging

`Personas`: `rows` by slot, one resolution is `Begin` (active rows), `ReadAll`, `Commit` or `Fail`; its decision is
`PerRun` or `Pooled`. `Age`, `SwitchMode` are the environment.

`Accounts`: `auth`, `users`, `subs` are the three tables with an address, `stripe` the customer's address at Stripe,
`session` who holds a token. A request reads and decides (`Register`, `Login`, `VerifyCode`, ...) and commits later
(`CommitRegister`, `CommitOther`); a commit writes the whole row as the request read it and changed it (`Merge`), over
whatever was committed in between, and inserts it again when it was deleted: no repository keeps the row it read, so
`session.merge` selects it afresh and every column that differs is written. `UploadResume` and `SaveSubscription` are
such saves of the other two tables. `restored` and `undone` are history: in whose rows a save brought an old address
back, and whose verification a save took back, or who was deleted (a deletion ends what is known of the account, and a save may
revive it). `Expire` is time. Left out: the profile update, which sets its own columns by an UPDATE and carries no address; a commit between the select and the flush of one merge; the
length of a cooldown, whose key may be there or gone once its request is over. An account has a customer at Stripe
from the start.

`Messaging`: `job` is an execution (cohort, member, step), `log` the `message_log` table, `got`, `mailed`, `lapses`,
`clean` history. `Launch` takes the first cohort, `SecondCohort` the second; `Check`, `Send`, `Record` are one member;
`Sigterm`, `Kill` end an execution.

### Input

One process. `backend`, `hasScreen` are its setting. `display` is a worker's `_x_display`, `browser` where its
browser's window is, `mounted` whether its page has the X backend; `servers` the Xvfb servers that run, `orphans`
those of a dead process; `borrowed`, `startedOwn`, `connected` are `_borrowed_by`, `_started_own_display` and the
kinds of server python-xlib has met. `listening`, `strays`, `watched` are the stray-page listener. `hand` is the
click or text under way, `onTop` and `focus` the window system's side (environment), `belated` and `blind` history.

| Actions | Code |
|---|---|
| `NoScreen`, `Borrow`, `StartServer`, `Launch` | `_browser_launch_kwargs` with `open_display`, then the launch |
| `OpenPage`, `NotCalibrated`, `Mount`, `Verify` | `_mount_input`: connect, calibrate, attach and listen, verify or fall back |
| `SessionFails`, `CloseDisplay`, `CloseBrowser`, `Crash` | an exception of `start_session`, `_close_display`, the rest of `force_cleanup`, process death |
| `BeginClick`, `Aim`, `Press`, `PressRaises`, `Check`, `Retry` | `human_click` around `human_hover_and_click`; `PressRaises` is an exception of the press, the dwell or the release, before or after the press is out, and the click that answers it |
| `BeginText`, `FocusWindow`, `LookFirst`, `LookAgain`, `Key` | `human_type`, `_ensure_keys_land_on`; the recovery click is a click as above |
| `WindowOpens`, `FocusLeaves` | the page, the browser's own controls, the user |

### Pacing

`clock`, `token` are the fields `_run_started_at` and `_pacing_run_token` of one board's worker in one process, `now` is
`time.monotonic()`, in units of 30 seconds; `place`, `left`, `silence` say for each execution (a search and a track) where
it is, how long it stays there and how long it has not beaten. `booted` is history: when each run first came up in this
process. `StartPacing` is `_start_pacing`; `Boot`, `Land`, `Page`, `Card`, `Read`, `Rest`, `Turn`, `Leave` are the nodes
and loops of a worker seen from their waits: what is drawn by `_pause` ends early or is skipped with the budget and beats
after each slice (`human_long_pause`), and what is drawn by `human_scan_list` and `human_read_page` does neither. `Pass`
lets time pass for every wait at once, `Review` for the user between the two tracks, `NewProcess` makes a later execution
one of another process. A wait is rounded to whole units; the pause that follows an arrival stands for its one to
three glances; a wait of no unit neither takes time nor beats. A resume may come with its run's token or with a fresh one.

### FreeSearch

`usage` is `free_search_usage` by user and day, `held` the row a recording has read and not merged yet, `phase` where
each request is. Every request builds its scraper and its browser, so scrapes share nothing and one is followed at a
time: `step`, `resultsPage`, `count`, `nth`, `title`, `snippets`, `jks` are its variables, `shown` and `spot` the site
(environment), `parts` and `screen` what of browser and display is open.

| Actions | Code |
|---|---|
| `CheckUsage`, `ReadUsage`, `RecordUsage`, `UsageFails` | `FreeSearchUseCase.execute`: the look-up, whose refusal is commented out; the recording in a unit of its own |
| `HwBrowser` ... `IndeedBrowser`, `HwClose` ... `IndeedClose` | launch and the `finally` of each scraper's `scrape` |
| `HwHome`, `ApecMenu`, `IndeedDirect`, ... | home page, search form, first results |
| `HwTitle`, `HwOpen`, `HwOffer`, `WttjLink`, `IndeedDecoy`, `IndeedData`, ... | one card |
| `HwPagination`, ... | the next page |
| `ListMoves`, `Midnight` | the site, the clock |

### Stores

`sql` and `mem` hold the same tables twice; `unit` is the unit of work that is open, with what it wrote, the copy it
took of the dictionaries, and whether it raised. `Commit` and `Rollback` end it, and units are serial. Each `Sql...`
operator is a repository of PostgreSQL, each `Mem...` its counterpart in `memory.py`, each action the use case that
calls both (`SaveNotice`, `Dismiss`, `RecordPageView`, `DraftOffer`, `MoveOffer`, `SaveSearch`, `Consume`, ...). The
tracker's query is `SqlApplications` and `MemApplications` with all filters of the request: company and titles are looked for as words in
both, a place as a part of the name in one (ILIKE) and as the whole of it in the other, a board by its name in one and
in any spelling in the other, the top titles by the cleaned title in one and by the offer's own in the other. `Listing` says what the offers of the instance are called. Which page of the list is
asked for, the order of equal counts and the figures by place are left out. An update skips a None only in
`memory.py:113`; the DTOs never pass one (`user_dtos.py:82-118`). A
behaviour keeps to one group of tables (`area`). `MonthBounds`, `SqlOverview` and `MemOverview` are the administrator's
figures.

## 3. Runs

All bounds are constants named in the module that uses them and sit in guards. `CHECK_DEADLOCK FALSE` is set
because every one of these systems may stop: searches end, a scrape is over, a bound is used up.

| Run (cfg) | Instance | Shows |
|---|---|---|
| `boards` (`SearchRunBoards`) | 1 start, 3 offers on 2 boards, both plans, limit 2, 3 credits, 1 fault, 2 applications or debits elsewhere | `ChargedForDrafts`: debits are for drafts that were saved, or the save failed. `UsageCountedOncePerRun`. `OvershootIsOnePerBoard`: the shares of the boards exceed what is left of the day by at most one each. `KillStopsWorkers` |
| `resumes` (`SearchRunResumes`) | a start and a resume, 1 offer, PREMIUM, 1 fault, 1 review, under `FairSpec` | `ConsentBeforeSending`, `RecordedWasSent`; `EveryRunEnds`, `ConfirmedIsRecorded` |
| `overlaps` (`SearchRunOverlaps`) | a start and two resumes, 1 offer, PREMIUM, no fault, no review | `SubmittedIsFinal`: two "apply all" may overlap, and the later write of the one takes back what the other's execution recorded; nothing else does |
| `billing` (`Billing`) | 1 subscription, 2 handlers open at once, at most 4 events, 5 units of time, 1 upset, period, horizon and window 1 | `BalanceWithinPlan`, `SettledMatchesStripe`, `AgentStopsWithPayments`, `DowngradeSticks`, and the refinement `WalletSpec` |
| `relay` (`ProgressRelay`) | 2 runs of a search, 2 boards, 2 jobs, deployments cloud and memory | `SentinelOnceAndLast`, `ReaderMissesNothing` |
| `scrape` (`Scrape`) | 3 boards, 3 postings of 2 keys (a repost), limit 3, hard cap 2, 2 pages, 2 hovers, 1 missed kill read | the refinement `HarvestSpec`, `ScrapeEnds` |
| `submit` (`Submit`) | 3 boards, 3 offers, limit 2, 3 tries, 1 missed kill read | `OneClickPerOffer`, the refinement `OutboxSpec` |
| `session` (`Session`) | 3 boards' workers, 2 processes, 2 runs in turn, 2 users, 2 personas; forms: 3 boards, 2 searches in a row out of 3, 3 attempts | `JarNeverReplayed`, `SubmitsAsItsUser`, `NoJarLeftBehind`; `FiltersFollowTheSearch`: each field that did not slip holds what this search wants, whatever an earlier attempt or search left |
| `accounts` (`Accounts`) | 1 user, 2 addresses, 1 password, 2 requests open at once, 1 try, 2 codes; devices: 2 boards, 1 resolution at a time, 4 in all, pool of 2, 3 sessions a device, 1 retired row kept | `EmailsAgree`, `AddressIsProven`, `OnlyStaleSavesUndo`; `DeviceStable` |
| `messaging` (`Messaging`) | 2 users, 1 execution at a time, 3 days, 2 launches a day | `OnlyALapseRepeats`, `CleanRunMissesNobody` |
| `input` (`Input`) | 2 boards, clicks and texts of one, 2 display numbers (symmetric), 3 sessions, 1 process death, 2 stray windows, texts of 2 characters; waits: APEC or HelloWork, 2 searches (symmetric) with 2 tracks each, pace 2, budget, ceiling and stale heartbeat of 4 units, a site that takes 0 or 3, long descriptions, 6 units of time | `OnePointerPerDisplay`, `ScreensAreReturned`, `NoRepeat` (once, or twice if allowed, and one more where the pressing raised), `InputReachesThePage`; `PacedByItsOwnBudget`; `SeemsAlive`, of HelloWork's worker |
| `desk` (`Desk`) | free search: 2 requests of one user, 4 scrapers, 2 offers (1 decoy), 2 pages of at most 2 cards, 2 tries, 2 days; stores: 2 users, 2 keys, 2 boards, 2 offers that differ in all they say, 10 filters of the tracker, a clock of 3 for visits and searches and 1 elsewhere, days and months of 2 | `CountedOnce`, `LinksFollowTitles`, `StoresAgree` (the rows, and the answers both stores give by the same rule), `SessionsAddUp` |

Why the bounds are enough for what the properties tell apart. `SearchRun`: 3 offers on 2 boards with a limit of 2
are the least for the ranking to cut, for one board to hold two offers and for the division among the boards to
leave a remainder; a start and a resume are the least for an overlap, an inherited checkpoint and an offer queued
twice, and two resumes for a stale "apply all" (with faults and a review this does not end in time, and the theorem covers them); one fault separates the outcomes a database failure, a crash and an exception can have. `Billing`: two
handlers are the least for a stale merge, four events cover checkout, renewal, failure and late payment in every
order. `Scrape`: three postings with one repost are the least for a card that comes back under another number on a
second page. `Submit`: three offers and a limit of two are the least for an offer skipped and the limit reached
behind it. `Session`: two runs of two users are the least for a jar of somebody else. `SearchForm`: two searches that differ in every
field are the least for a leftover; one wants nothing but a title. `Personas`: three sessions
retire a device and four resolutions fill, retire and refill a pool of two. `Accounts`: two requests are the least
for a lost update, and of those two overlap, in any number one after the other (`Long = FALSE`: longer chains of overlaps take the run
beyond its time). One try is spent by one wrong code; with two, by hand, the same holds. The
theorems of section 5 are about any number of requests, users, addresses, passwords and tries. `Messaging`: three days are the least for the check-in, a lapsed day and the reminder. `Input`:
three sessions are two side by side and one after; two windows are one per press of a repeated click. `Pacing`: a site
of three units and a pause of two are together longer than a heartbeat may be old, and six units outlast the budget
(the code has 180 seconds, pauses of at most 150 and a budget of 6300); two searches are one clock replaced by another;
Welcome to the Jungle, which scans as HelloWork and reads as APEC with a wider band, was run by hand. `FreeSearch`: two
requests are the least for a count lost between two recordings; two cards on two pages let a list move, an offer come
back and the target be reached or missed. `Stores`: two users and two keys let a row be replaced, removed or taken by
the other user; a clock of three ticks crosses a day and a month (the clock starts in December, so the year too).

The abstract specifications are properties of the runs: `Scrape` implements `Harvest`, `Submit` implements `Outbox`,
`Billing` implements `Wallet`, each by an INSTANCE with a refinement mapping in the detailed module.

Type invariants: `TypeOK` of every module (in the modules proved about together `PersonasTypeOK`, `RelayTypeOK`) is left out of the runs. Those of `SearchRun`, `Billing`, `Scrape`, `Submit`,
`Session`, `SearchForm`, `Messaging` and `Accounts` are proved (section 5), and the others hold in the instances above.
Proved as well are `KillStopsScrape` and `KillStopsSubmissions` (after a kill a board's own loop goes on at most once per failed read),
`ReportedWasTaken` (APEC and Welcome to the Jungle report only what the site took) and `FindsSurviveCards` (no card
makes HelloWork or Welcome to the Jungle lose what they found; APEC can, section 6).

Checked by hand in the same way, and true: `NoRetry`, `NoLostApplication`, `DailyLimitPerExecution` and, under `FairSpec`,
`AliveEnds` (`SearchRunResumes.cfg`); `BarCountsEveryBoard` (`ProgressRelay.cfg`);
`BrowsersClose` (`Session.cfg`); `BoardKeepsItsPersona` and `TableBounded` (`Accounts.cfg`); `NotBothOnOneDay` (`Messaging.cfg`); `DismissedStaysAway`
(`Desk.cfg`), which is proved, as `NothingLeftOpen` of `FreeSearch` is.

## 4. Fairness

- `SearchRun`: weak fairness of each execution's own steps and of the heartbeat's clock. Every wait of a node has a
  timeout (page loads, selectors, the model's calls), so an execution that can step does. Users, crashes, failing
  calls and other searches of the user are never required to happen.
- `Scrape`: weak fairness of the node, for `ScrapeEnds`; the site may do what it likes within the bounds that name
  how many pages and cards a search has.
- `Submit`: weak fairness of the node, whose every wait has a timeout; its checked properties are safety.
- `ProgressRelay`: weak fairness of executions and streams (the event loops run); its checked properties are safety.
- Everything else is safety only: a request, a webhook, a job or a session need not be finished by anybody.

## 5. Proofs

Checked by TLAPS for every value of the constants. The assumptions are the named ASSUMEs of the modules, and a
hypothesis where a theorem states one: it is then a mode of deployment or of the environment, the property is false
without it, and section 6 has the counterexample (or the text below says why).

Each proof has the three steps Init, [Next]_vars, conclusion, one lemma per action or group of actions that touches
the invariant's variables, and PTL at the end. An invariant was checked by TLC on the run of its module before it was
proved. Liveness and ENABLED are out of the prover's reach and stay with TLC.

**`SearchRunProofs`.**

| Theorem | Argument |
|---|---|
| `TypeCorrect` | `TypeOK` is inductive as it stands: balance and counters stay naturals since every debit is guarded by the balance in the same statement |
| `KillStops` (`KillStopsWorkers`) | `KillInv` adds, for each worker of each execution, what it may still send: the form it is in, and one for each failed read of the kill switch since. No other step raises that sum |
| `ConsentGiven` (`ConsentBeforeSending`) | `ConsentInv` follows an offer that needs consent through every place a copy may be: checkpoint, state of a superstep, its writes, a worker's queue. A copy marked APPROVED comes from a review or from a BASIC plan |
| `RecordedSent` (`RecordedWasSent`) | `SentInv`: whatever stands in a list of submitted offers - a worker's, a superstep's, a checkpoint's, the list being saved - is in the history of applications |
| `DraftedOnce` (`DraftInv`) | `Control` says where an execution may be given its nodes and its state: a resume enters behind the review and never reaches `analyze`. So nobody but the start drafts, and before it does no row exists, no review is open, nothing is charged |
| `ChargedForWhatIsSaved` (`ChargedForDrafts`) | `Billed`, a part of `DraftInv`: what was charged and not yet saved is what the analysis holds, and the cut was made with the balance of the boot |
| `RecordedIsFinal` (`SubmittedIsFinal`, an action property) | from `DraftInv`: the writers of a row are the analysis, which meets no row; a review and an "apply all", which write what they read and which the property names; and the save of the submitted offers |
| `CountedOncePerRun` (`UsageCountedOncePerRun`) | `UsageInv`: `completion` and `finalize` are reached over different routes, and where no call failed a superstep with the completion holds nothing else, so one execution does not count twice |

**`RecordsProofs`** holds two proofs that share no state.

`Submit`. `SInv` adds to the types: what lies ahead of `turn` is not clicked, what lies behind was clicked once
at most, what is reported was clicked, and the offer in hand is not reported before its confirmation. `turn` moves past
an offer on every path from its click, and this is why a form that is opened again is never one that was sent.

| Theorem | Says |
|---|---|
| `SubmissionTypes` | the types |
| `NoSecondClick` | `OneClickPerOffer`, for any queue without repetition, any limit and number of attempts |
| `RefinesOutbox` | `Spec => OutboxSpec`: a click that reports is one step of the outbox, the return another, all else stutters |
| `KillStopsTheNode` | `KillStopsSubmissions`, by `KillInv`: clicks since the kill, and the form in hand, against failed reads |
| `ReportsAreTrue` | `ReportedWasTaken` |

`Stores`. `StoreInv`: the copy an open unit took of the dictionaries mirrors the database as it was before the unit; unless it
raised, its session mirrors the dictionaries as they are; between units the database mirrors the dictionaries. *Mirrors*
is: the same rows, offers but for their dates, logins but for those of deleted users. *Sound* is what the proofs that the
answers agree need of the rows: keys are unique, times are integers, tables finite, no two searches of one time. One lemma per
operation says that its two writes keep the rows twins; `Commit` and `Rollback` then follow for all of them at once.

A query that sorts on one side and ranks on the other agrees because the first `k` of a sorted list are those that fewer
than `k` come before: sorted lists exist (`CanBeSorted`: the rank of a row is the number of those ahead of it), and a row's place
is its rank. Grouped counts agree by bijections; earliest dates because a finite set of integers has a least one.

| Theorem | Says |
|---|---|
| `StoresMirror` | `StoresAgree`, for any people, keys, boards, offers, filters, clock and bounds, whichever units failed. `SameAnswers` is the list of the queries it is about; those that the two stores answer by different rules are not on it (section 6) |
| `VisitsAddUp` | `SessionsAddUp`: views that start a visit in one of two adjoining windows start one in the whole, and no other does; the two sets are disjoint |
| `DismissedForGood` | `DismissedStaysAway`: a dismissal that was committed is a row, that of an open unit is in its session, until the announcement is deleted |

**`ScrapeProofs`.** `ScrapeInv`: what was kept is remembered (APEC's hashes, Welcome to the Jungle's postings) and the card in hand
is not among it; a card is opened only while there is room; a page whose number was checked is an allowed one; nothing
is returned before the end; after a kill, what was kept since and the offer in hand are paid for by the kill reads that
failed. HelloWork remembers nothing and may keep a posting twice, so its offers count by their place.

| Theorem | Says |
|---|---|
| `ScrapeTypes` | the types |
| `RefinesHarvest` | `Spec => HarvestSpec`: an offer kept is one step of the abstract harvest, the return another, all else stutters; for any pages, lists, limits and failures |
| `KillStopsTheWalk` | `KillStopsScrape` |
| `FindsAreKept` | `FindsSurviveCards`, an action property: HelloWork and Welcome to the Jungle fail as a whole on a page, never on a card |

**`SessionProofs`**, under `~Overlap`: a process has one run at a time, as a Cloud Run job has (`LocalDispatcher` may overlap
them, and `SessionShared.cfg` shows the jar of one saved under the persona of the other). `SessionInv`: the persona the
worker object wears is that of the active run; a node on the page is on a page of its own; a context is signed in as its
own run or not at all; a jar fits its key; with a store, jars on a disk are those of the run under way. The fourth is
inductive only with the fifth (a jar is loaded into a context) and the other way round (a context is saved as a jar).

`FormInv`, about `SearchForm`, needs no such hypothesis. Behind the step that sets it, a field that did not slip is as this
search wants; before that step, a form that opens empty holds nothing where a later step leaves the field alone or only
adds to it. That second part is why the leftovers of a failed attempt do not survive the next one. HelloWork's filters
may never be sent, and then the list on the page is the query's.

| Theorem | Says |
|---|---|
| `SessionTypes` | the types |
| `NoJarUnderAnotherDevice`, `SubmitsSignedIn`, `DisksAreCleared` | `JarNeverReplayed`, `SubmitsAsItsUser`, `NoJarLeftBehind`, for any users, personas, processes, failures and crashes |
| `FormTypes` | the types of the forms |
| `AskedAsWanted` | `FiltersFollowTheSearch`, for any fields, searches in a row and attempts |

**`DeliveryProofs`** holds three proofs that share no state: `Messaging`, `FreeSearch`, `ProgressRelay`.

`Messaging`: `SentInv` counts copies against lapses, with a message sent and about to be logged as one accounted
for. `CohortInv` says for each day that a recipient of its cohorts is in the log or still to come, unless the
execution met a failure, and that cohorts of a past day no longer change.

| Theorem | Says |
|---|---|
| `MessagingTypes` | the types |
| `OneCopyButForLapses` | `OnlyALapseRepeats`, under `~Overlap`: two executions at once send twice without a lapse (section 6) |
| `CleanDaysAreComplete` | `CleanRunMissesNobody`, under `Anchor > 0`, executions that overlap included. With an anchor of no days the window is today, and users join the cohort behind the execution's query; the code's default is 3 days (`messaging_main.py:48`) |

`FreeSearch`: `SearchInv` has three parts. `UsageInv`: a row that a recording has read holds no more than was recorded on it,
and as much unless another recording has read it as well, so a merge that loses a count comes only after two reads.
`LinkInv`: the title in hand and every snippet belong to the posting of that place in the list, unless the list moved since.
`OpenInv`: only Indeed's scraper takes a screen, and when nobody has the turn, what is open is what raised when closed.

| Theorem | Says |
|---|---|
| `SearchesAreCounted`, `LinksAreTrue` | `CountedOnce`, `LinksFollowTitles`, for any requests, days, pages and limits |
| `ScrapesClose` | `NothingLeftOpen` |

`ProgressRelay`: `SentinelInv` says who may still publish for a run: a worker holds a run's callback only while that run is
at work in its process (or is dead with it), a frame on its way to Redis belongs to a run at work, and a channel that has its
sentinel has nothing behind it. It needs that processes are not shared over Redis, as the property does: in `local`
a frame of one run may be on its way under the name of another that ends meanwhile. `QueueInv` says which queue a
stream reads - one of its own over Redis, the search's with the memory broker - and that what a stream in time has
read, with what waits for it, carries its run's frames: they are there in order, each once, between whatever other runs
published. `Carries` says so by counting: as many of them are there as were published, and the one with k of them up to
it is the k-th published. So each of the three ways a queue changes (a frame is pushed, one is read, a stream begins)
has a lemma about cardinalities, and no induction is needed.

| Theorem | Says |
|---|---|
| `SentinelsClose` | `SentinelOnceAndLast`, for any runs, boards and bands, crashes and preemptions |
| `NothingIsMissed` | `ReaderMissesNothing`, for any number of streams that come and go |

**`AccountsProofs`.** Every save writes a row that may be old, so nothing can be said of a row from the row before it. What
can be said is what a request will save, from what it has read and its kind, and that stays true however old the row has become:
`TypeInv` has the types, `Shaped` (a change of address writes one address to all tables, any other request keeps the one it read,
and what it changes is its own columns), `RegisterApart` (a registration is alone with its account) and `Paying` (who is about to
speak to Stripe). It is inductive for any number of requests. On top of it `Proved`: a row to sign in with, stored or about to be
saved, is verified only with a proved address, and until it is verified has no change pending and a code for its own address,
unless its account is in `undone`. `EmailsAgree` is inductive beside `TypeInv` as it stands.

| Theorem | Says |
|---|---|
| `RequestsAreShaped`, `AccountTypes` | `TypeInv`, and the types with the keys between the tables |
| `AddressesAgree` | `EmailsAgree`: the tables, and Stripe, but for accounts in which a save brought an old address back |
| `VerifiedIsProven` | `AddressIsProven`, but for accounts whose verification a save took back, or which it revived |
| `StaleSavesAlone` | `OnlyStaleSavesUndo`, an action property: from `Shaped`, a save that has the row as it is writes its own columns |

All for any accounts, addresses, codes, tries and any number of overlapping requests.

The module's second part is about `Personas`, which shares no state with `Accounts`. `PersonasInv`, under `~Concurrent` (no two
runs of a user resolve at once; with two, both mint for one slot, section 6): an id is the name of its device
and no two rows have the same; ids are of resolutions past; and the run that resolves has read the table as it is. So
every save falls on the row it was read from or on a slot that is free, and what is minted has an id no row ever had.
`NextSlot` is a maximum and `LeastRecent` a minimum over rows; that a finite set of integers has them is
proved once, from the library's theorem that inclusion is well founded on the finite subsets of a set, which takes no
operator as a parameter and so is within reach.

| Theorem | Says |
|---|---|
| `DevicesAreStable` | `DeviceStable`, an action property, in both modes, for any pool, boards, ages, failures and changes of mode |

**`BillingProofs`.** One inductive invariant, `BillingInv`, by `Invariance`; its parts say what the row, the entity each
open handler has computed and the events Stripe emitted have in common: an amount never exceeds the allocation
of the plan beside it, a paid period never reaches further than what Stripe was paid for, a downgrade commits the
free plan with no balance. From it:

| Theorem | Says |
|---|---|
| `BillingTypes` | the types |
| `WithinPlan` | `BalanceWithinPlan`: stale merges included |
| `StopsWithPayments` | `AgentStopsWithPayments`: period, delivery window and days of grace after the last payment, the agent is stopped |
| `DowngradesStick` | `DowngradeSticks`, an action property |
| `SettledRows` | `SettledMatchesStripe`. `CalmInv`: while events were handled alone, once and in order, the first so many were handled and the row is what the last of them left; Stripe emits an update only behind a payment; what it said last is what it knows. For the only subscription ever taken out, as the property supposes: with two, their events interleave in one row |
| `RefinesWallet` | `Spec => WalletSpec`: each commit is a refill, a spending or a removal of the abstract wallet, or a stutter |

**`InputProofs`.** Five invariants, two about displays and windows, two about waits, one about clicks.

| Theorem | Argument |
|---|---|
| `PointersApart` (`OnePointerPerDisplay`), `DisplaysComeBack` (`ScreensAreReturned`) | `DisplayInv`: a display has the one worker that opened it until that worker's cleanup; a server that runs is a worker's or a dead process's; a browser is on its worker's display from the launch on |
| `PressedOnce` (`NoRepeat`) | `HandInv` says how often the button was pressed at each step of a click, exactly: a press that raises may be out or not, and `human_click`'s own follows in either case |
| `InputArrives` (`InputReachesThePage`, an action property) | `ReachInv`, under `~Recycled`: a page steered with the pointer reports its windows, so a window in front is one the click is about to see, or came when no click looked. With recycled ids a page may report nothing (section 6) |
| `OwnBudget` (`PacedByItsOwnBudget`) | `PInv`: the clock is never ahead of the time; if the worker has a token, the clock is no older than the first boot of that token's run; each execution on its way has a clock no older than its run; each pause under way ends within the budget of the present clock. The second part is why the third is inductive: a track that finds its own token keeps the clock. A later clock only postpones the end of the budget, so the fourth survives another run's boot |
| `RestsAlive` (`SeemsAlive`) | `SilenceInv`, under `Attended`: the site answers within the cutoff and HelloWork's page is looked over within it, which the code takes for granted. What else holds a worker of HelloWork is a pause, and that beats after each slice |

What the proofs changed in the models: in `ProgressRelay` what a reader has is stated by counting (`Carries`),
where it was a selection from a sequence; in `Personas` saving a pool is one function over the slots, where it was a
fold of single saves; `FreeSearch` has a request that is none (`NoRequest`) as a constant of its own. Further,
`LoginStages` of `Session` had a conjunction that bound tighter than meant and is
written out; Welcome to the Jungle's next card is chosen by its place in the list, as the code's loop does it, and its
list loses the card that was opened at that place; and three things that the models took for granted are now assumptions on
constants (the queue of `Submit` is a sequence, `NoRun` is no run, the names of displays are not numbers).

In `Stores` the proofs changed how a thing is said, where a fold or a sort of the library could not be reasoned about: a query
that sorts takes the enumeration of its rows in order (`SortedBy`); the credentials of a request and the debit with its ledger
entry are one update of their tables each; the look-back counts pairs of a visitor and a view; `Never` lies behind the clock of
the area; and keys are naturals (`StoresAssumption`), since slots are keys that are compared.

## 6. Where the code and its comments disagree

Each is shown by the configuration named (a check by hand: it stops with a counterexample); "in `X.cfg`" is the
instance of that run with the property in place of its own.

| Configuration, property | The code | What it says |
|---|---|---|
| in `Submit.cfg`, `ApplicationsArePaced` | `wttj_worker.py:2012` names `jobs_to_submit`, which does not exist; the NameError comes after the offer was counted, is taken for a missing confirmation, and `continue` skips the pause | comment at 2027-2032: the pause is "now the ONLY thing pacing this loop" |
| `SearchRunKilledAlive`, `KilledNotAlive` | `agent_state_repo_db.py:37`: a beat issued before the kill and written after it sets the heartbeat again | 47-51: after shutdown the agent must not read as alive |
| `SearchRunKilledCompleted`, `CancelledNotCompleted` | `agent_usage_use_cases.py:39` saves the search as completed although it was cancelled since the kill read of `finalize` | 15-16, 37, 42: not for kills; a cancelled search keeps its status |
| `SearchRunDraftsSurvive`, `CompletedLeavesNoDrafts` | `job_offer_use_cases.py:143` removes APPROVED offers only | `agent_use_cases.py:582-585`: "COMPLETED implies no GENERATED/APPROVED jobs survive" |
| `SearchRunQuota`, `DispatchWithinQuota` | `master_agent.py:855-871` gives every board at least one, and the remainder on top | the frame at 859-862: "Dispatching up to {remaining_quota} submissions" |
| `SearchRunStuck`, `SearchingEnds` | `master_agent.py:611`: an execution that ends at a router, after a kill read there, leaves the search SEARCHING | `agent_usage_use_cases.py:19-20`: "fixes the bug where searches were stuck in SEARCHING" |
| `BillingDunning`, `PaidCycleHasCredits` | a failed renewal handled after the days of grace downgrades; the payment that follows refills the free plan's allocation, which is nothing | `user_subscription.py:154`: "fresh credits" for a paid cycle |
| `BillingLedger`, `LedgerReconciles` | a deletion or a downgrade takes the balance away without a ledger entry | `credit_transaction.py:19-20`: the ledger can be reconciled with the balance |
| in `ProgressRelay.cfg`, `NoLostFrames` | `broker.stream` is a generator that subscribes when it is first read, after the dispatch | `api/routers/agent.py:127`: "SUBSCRIBE BEFORE DISPATCH - no lost frames" |
| `ProgressRelaySubmitBar`, `SubmitBarIsRunWide` | in the submit band each board's total is its own queue, and the bar takes the largest | `runner.py:99-102`: "Every worker reports the same run-wide denominator" |
| in `ProgressRelay.cfg`, `FailuresNeverSilent` | `_execute_with_progress` catches the graph's exception, and the stream ends with no error frame | `runner.py:18-19`: "so failures are never silent" |
| in `Scrape.cfg` with `Boards = {"apec"}`, `FailedClickOnlySkips` | a card whose click failed three times after it left the list is skipped with no way back; the next card is read on the wrong page, that raises, and the scrape ends without what it found | `apec_worker.py:1306`: "Skipping." |
| `SessionShared`, `JarNeverReplayed` | two runs of one process at once share the worker object: a jar is saved under the persona of the other | `apec_worker.py:128-129`: a jar "can never be replayed under a different device" |
| in `Session.cfg`, `KeywordsSearched` | `apec_worker.py:523` reloads the form, and what line 497 typed is gone; Enter then sends a search without keywords | 549-555: Enter as by "someone who just typed the keywords" |
| in `Session.cfg`, `NoContractLeftOver` | `wttj_worker.py:609` reveals the hidden contracts only when one is wanted; one that an earlier search ticked stays ticked and widens this one | 485-493, 623-628: every box is set to whether it is wanted |
| in `Session.cfg`, `ListIsTheFilteredOne` | `hw_worker.py:389-390` wait for a loaded page and a visible card, which the list before the filters has too | the message at 392: "filters applied -> results refreshed" |
| `PersonasConcurrent`, `DeviceStable` | two resolutions at once mint two devices for one slot; the upsert keeps the first row's id for the second device | `user_fingerprint_repo_db.py:77-79`: never "renumber a device" |
| in `Accounts.cfg` with `"hellowork"` among its `Boards`, `BoardKeepsItsPersona` | with more boards than personas in the pool, a board's pin is taken over | `user_fingerprint.py:76-77`: a board "always sees the same machine" |
| in `SearchRunOverlaps.cfg`, `SubmittedIsFinal` without its second exception | `agent_use_cases.py:356-366` selects the drafts and upserts them whole as APPROVED after awaits: an "apply all" that overlaps another takes back what that one's execution recorded, and the offer is back in a queue | the guard of `ResumeJobApplicationUseCase` is that drafts are left (361-364) |
| in `Accounts.cfg`, `AddressesMirror` | a webhook (`subscription_repo_db.py:71-87`) or a résumé (`user_repo_db.py:51-68`) that read its row before a change of address saves the old address in its table alone; `EmailsAgree` exempts it by name (`restored`) | `user_use_cases.py:762-763`: "always mirrors them" |
| in `Accounts.cfg`, `StatesExclude` | a resend, a wrong code or a new password that read the row before its verification saves it as unverified, while its holder has a token and asks for another address (`auth_repo_db.py:48`) | `auth_user.py:115-117`: "the two states are mutually exclusive" |
| in `Accounts.cfg`, `OnlyStaleSavesUndo` without its last disjunct | every save writes every column as it was read: a login that overlaps a password change or an unsubscription undoes it | `auth_repo_db.py:44-45` and 31-33 know the hazard, for a column that is left out only |
| in `Input.cfg`, `SingleAttempt` | `human_behavior.py:603-605` and 641-643 press, wait and release outside any `try`; `human_click` (708-711) answers an exception there with a `locator.click()`, `retry_on_popup=False` or not | 626-628: "sending an application twice is not recoverable"; `pacing.py:492-497`: "for actions that must not happen twice" |
| in `Messaging.cfg` without SYMMETRY, `OneFailureStopsNothing` | the look-ups of a cohort's members are outside the guarded part: one that raises, as for an account deleted meanwhile, aborts the execution | docstring of `messaging_main.py`, point 3 |
| in `Messaging.cfg` with `Jobs = {j1, j2}` and `Overlap = TRUE`, `OnlyALapseRepeats` | two executions at once both find no log entry and both send; the UNIQUE refuses only the second entry | docstring of `messaging_main.py`, point 2: "an accidental double trigger ... sends nothing" |
| in `Input.cfg` with `Recycled = TRUE`, `StraysAreSeen` | `human_behavior.py:418-432` keeps the `id()` of contexts that are closed; a new context with a recycled id gets no listener | 421-429: one listener per context; the remark at 1081-1082 on recycled ids |
| in `Input.cfg`, `PointerNotLost` | a process that borrowed the screen and then started a server cannot connect to the second kind, now or later | `display.py:370-375`: it stops borrowing so that the next connection works |
| in `Input.cfg`, `ReaderSeemsAlive` | `human_read_page` beats no heartbeat: up to 150 seconds of reading on APEC and 180 on Welcome to the Jungle come on top of what the page took to load | `agent_state_use_cases.py:12-15`: the cutoff exceeds the longest gap, "~120s"; `pacing.py:326-327`: every pause goes through `_pause` |
| in `Input.cfg`, `ReadingKeepsToTheBudget` | an offer is read in full after the budget is spent | `pacing.py:302-304`: "every deliberate pause collapses to a no-op" |
| in `Input.cfg`, `OneBudgetPerRun` | a run that comes up between the two tracks of another, or a resume without its token, restarts the clock | `pacing.py:291-293`: both tracks "share a token", and a resume "continues on the same budget" |
| in `Input.cfg` without SYMMETRY, `ResumesArePaced` | the user's review counts against the budget, and a resume in the same process may have none left | 284-287: no run finds itself over budget and "silently" unpaced |
| in `Desk.cfg`, `WithinDailyLimit(1)` | `free_search_use_cases.py:46-54`: the answer of `can_run` is read, its refusal is commented out | `routers/free_search.py:34`: "Limited to 10 searches per user per day" |
| in `Desk.cfg`, `DatedAnswersAgree` | the dictionaries never stamp `application_date` or `submitted_at`, their recent hashes ignore the user, and a user's deletion removes nothing else | `memory.py`: "Mirrors the DB adapter" |
| in `Desk.cfg`, `ListingsAgree` | the tracker finds a place by a part of its name (`job_offer_repo_db.py:259`) or by all of it (`memory.py:279`), a board by its name (261) or in any spelling (282), and counts titles cleaned (277) or as they are (300) | `memory.py:118-120`: the double "for testing and local development", of the same interface |
| in `Desk.cfg`, `SeenOnEachDay` | a visit over midnight counts on the day it began only | `page_view_repo_db.py:22-23`: visits "that straddle midnight still count once in each day" |

Met on the way, without a configuration: `messaging_main.py:229-232` says SIGTERM stops between recipients; it is read
only between the two cohorts (244). A borrowed screen is given back before its browser closes, so `OneBrowserPerDisplay`
(the header of `display.py`) is not true during a cleanup. `per_run` mode mints the device anew on a resume,
although `_recover_run_token` promises the same one. In production a resume is a process of its own, and
its rest budget a new one. `tests/test_pacing.py` takes the job's timeout for 9000 seconds; `deploy-browser.yml:73` says 7200.
`free_search_use_cases.py:28` says failed scrapes do not count; the scrapers swallow their failures, so they do.
The use case that prunes page views has no endpoint. A save that read an
account before its deletion inserts its row again. Two changes of address may reach Stripe in the other order (`refused` of
`Accounts`). When the list of a free search moves while a card is read, the snippet has the title of one offer and the link of
another: `LinksFollowTitles` says that nothing else mixes them. In memory mode
two units of work at once would undo each other's commits when one rolls back; `Stores` keeps units serial. A search
without results never reaches the "no new jobs" answer of `search_jobs`: each board has waited for a card before it and
raised. HelloWork adds INDEPENDENT to the search's own list of contracts (353-354). APEC takes a minimum salary below
1000 for thousands (541) and searches for freelance work without a contract (504-510). HelloWork's `_is_session_valid`
documents the logged-out marker and waits for the logout link (508-518). `_perform_auto_login` says "Full-automation
only" and asks for credentials only. A page too slow for the gate is taken for an expired session; the renewal then
finds no login form, and the run ends with the jar dropped.

## 7. Only model-checked

Of safety: `OvershootIsOnePerBoard` of `SearchRun` (the shares add up by a fold over the boards, and a proof would be an induction over
them). All liveness: `EveryRunEnds` and `ConfirmedIsRecorded` of `SearchRun`, `ScrapeEnds` of `Scrape`. Outside their
hypotheses, the theorems of section 5 are false or unknown, and the runs say nothing beyond their bounds.

## 8. Not modelled

- Times and shapes: sub-second delays, how likely a break is, pointer paths, scrolling, typing rhythm, calibration's arithmetic.
- Browser automation text: selectors, cookie banners, fields of application forms, prompts: a step has the
  outcomes the code tells apart.
- HTTP surface, presenters, DTOs, controllers, the container, migrations, the schema's columns.
- `basic_agent`, `teaser`, `hw_worker_v1`, `job_search_use_cases`: unused by the deployed graph.
- Overlapping units of work of the in-memory repositories (a single-user development mode).

The map names about three tenths of the implementation's lines. The rest is the list above; a definition that
claimed it would stand for code without state or decisions.

## 9. Plan

What is left to prove: the types of `FreeSearch`, `ProgressRelay`, `Personas` and `Stores` as theorems of their own (the parts the
proofs needed are in their invariants), and of what was checked by hand (section 3) `BrowsersClose`, `BoardKeepsItsPersona`,
`NoRetry` and `DailyLimitPerExecution`. `OvershootIsOnePerBoard` is a sum over boards and would be an induction.

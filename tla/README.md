# A TLA+ model of the VPN control plane

The program under `src/vpn_control_plane` is one Python process (FastAPI, an
aiogram Telegram bot and a few background tasks on one asyncio event loop) that
puts clients on the 3x-UI panels of several nodes, remembers them in a JSON
file, serves their subscription feeds, and watches the nodes. This directory
holds TLA+ modules of its core, the TLC configurations that check them on small
instances, and proofs of their safety properties for TLAPS. Paths and line
numbers below are relative to the repository, and `.py` paths to
`src/vpn_control_plane`.

Contents: [inventory](#1-inventory), [plan](#2-plan),
[the modules](#3-the-modules), [runs and bounds](#4-runs-and-bounds),
[fairness](#5-fairness), [proofs](#6-proofs),
[where code and documents disagree](#7-where-code-and-documents-disagree),
[what is not modelled](#8-what-is-not-modelled), [running it](#9-running-it).

## 1. Inventory

### How the parts interact

```
Telegram ──update──▶ telegram/bot ──▶ provisioning ──HTTP──▶ 3x-UI panels
                          │                │  ▲                   ▲  ▲
                          │        save_clients│load_state        │  │
                          ▼                ▼  │                   │  │
                     data/store ═════▶ data.json ◀── operator     │  │
                          ▲                ▲                      │  │
HTTP ──▶ http/routes ──▶ subscription ─────┼──────────HTTP────────┘  │
                          ▲                └── make sync (process) ──┘
                          │
              resolved entries cache ◀── external_subscriptions ◀── feeds
crons/base (loop) ──▶ monitoring, external_subscriptions, geofiles, report
```

* Every Telegram update is handled in an asyncio task of its own, so two
  requests interleave at each `await`, and only there.
* Everything persistent is in two files: `data.json` (`data/store.py`) and the
  cache of resolved external entries (`external_subscriptions/cache.py`).
  Both are replaced with a temporary file and `os.replace`. A lock guards
  `data.json` within the process only; `make sync`, the backup commands and the
  operator's editor are other processes.
* The panels are shared with `make sync` and with whoever uses their web
  interface.

### Components

**Provisioning** (`provisioning.py`). *State:* one `asyncio.Lock` per client id,
created on demand. *Operations:* `ensure_telegram_user` (`/start`, `/abroad`),
`issue_manual_client` (`/issue`), both `_ensure_client_locked`: load the state,
choose the subscription id, for each node list the inbounds, look the client
up, add or attach it, then write the record. *Hard:* six awaits between the load
and the save; partial failure over several nodes; a timeout after which the
panel carries the write out all the same; a crash in between; the save writes
the whole client list that was loaded. *Correct when:* one request per client at
a time; an answer means the client is attached everywhere it should be; ids are
issued once, are unique and keep resolving; a save does not undo what it is not
about; no request waits for ever.

**Data store** (`data/store.py`). *State:* `data.json`, an `RLock`. *Operations:*
`load_state` (with environment templates resolved), `save_clients`,
`save_subscription`, `verify_ready`, `_write_json_atomic`. *Hard:* crash or power
loss between two system calls, an error of any of them, readers in other
processes, an operator who edits the file while the app runs. *Correct when:*
every reader finds a whole file; a save that returned is durable; what a save is
not about comes through unchanged.

**Data models** (`data/models.py`). Stateless: validation of `data.json`, the
`subId`/`legacySubId` of a record, which inbound tags a client uses.

**3x-UI client** (`xui/client.py`) and the **panels**. One HTTP client per node
and request, 30 s timeout; a panel keeps, per client, a `subId` and the inbounds
it is attached to. *Hard:* `get_client` cannot tell an absent client from a
panel that reports an error; a timed-out call may still take effect.

**Telegram bot** (`telegram/bot.py`). Handlers of the commands; `/announce` and
`/unannounce` load and save `data.json` without an await in between. *Hard:* only
as a source of concurrent requests.

**Monitoring** (`monitoring/`). *State:* in memory, per node and category,
`first_seen_at` and `last_alert_sent_at`. *Operations:* `poll_once` (all nodes
concurrently), `update`, `mark_alert_sent`, `send_alert` (admins in turn).
*Hard:* polls that take time or are cancelled, `now` read before the polls,
conditions that come and go, nodes opted out and in, a send that fails halfway
through the admins. *Correct when:* an alert is about a condition that has lasted;
it is not repeated within its cooldown; it reaches every admin in the end.

**Background loop and cron** (`crons/base.py`). *State:* none but its place in the
loop. *Operations:* `run_iterations_forever` (delay, iterate under a timeout, log
and go on), `CronSchedule` (next minute that matches, at most a year ahead),
`start_cron_tasks`, `stop_cron_tasks`. *Hard:* errors of the schedule itself,
cancellation, one failed task at shutdown. *Correct when:* an error of one
iteration never ends the loop; the delay leads to the first matching minute.

**Scheduled jobs** (`crons/geofiles.py`, `crons/telegram_report.py`,
`reports/telegram.py`). Sequential loops over nodes and over admins. *Correct
when:* one that fails does not keep the others from their turn.

**External subscriptions** (`external_subscriptions/`). *State:* the cache file, an
`RLock`. *Operations:* refresh the feeds that are due, parse, give each entry a
slug, replace the entries of a feed. *Hard:* the cache is loaded before the
fetches and saved after; a manual run is another process; slugs are numbered by
the order of colliding entries. *Correct when:* a feed that fails keeps its old
entries; no feed's entries are lost; a reference keeps meaning the same entry.

**Subscription service** (`subscription/service.py`). Stateless, per request: find
the client of a token, ask the panels of its nodes for links and traffic, put
the links in tag order, add the external ones. *Hard:* panels that fail, time out
or report nothing; links that are matched to inbounds by a title the operator can
change; clients that are provisioned meanwhile. *Correct when:* the URL a user was
answered with finds that user; one node that fails does not take the other nodes'
links along; a link is the client's and of the inbound it is labelled for, in the
order of the tags; a request ends.

**Client sync** (`sync/`). Another process: reads `data.json` and the panels once,
then adds, updates and attaches for every client. *Hard:* runs next to the bot
without a common lock; nodes and clients fail one by one, and writes may land
late. *Correct when:* a client without an error is on its nodes as `data.json` has
it, a second run has nothing to do for it, and nothing else is touched.

**HTTP routes** (`http/routes.py`). Stateless: the subscription routes, in two modes,
redirect to the public URL or name it when another one was asked for. *Correct
when:* the redirect leads to the same client's feed, and an answered URL is not
redirected.

**Backups** (`backup/`), **configuration** (`config.py`),
**rendering** (`subscription/assets`, messages). Stateless.

**Application lifecycle** (`app.py`). Starts the bot, monitoring, external
subscriptions and cron tasks; cancels and awaits them in turn. *Hard:* a task
that had already failed raises at shutdown.

**Deployment** (`docker-compose.yml`, `Makefile`, `nginx/`). The process restarts
when it dies; `data.json` is edited, restored and backed up from outside.

The hazards these give rise to, each at its line and with the properties that
cover it, are the `hazards` of `PROJECT.json`.

## 2. Plan

In order; the rows that are marked checked exist, the others are to come.

| # | Module | About | Composes | State |
|---|---|---|---|---|
| 1 | `Provisioning` | requests, locks, panels, records | – | checked; eight theorems |
| 2 | `ClientRegistry` | abstract: ids are issued once and kept | implemented by 1 | checked and proved |
| 3 | `DataFile` | one save, system call by system call | – | checked; six theorems |
| 3a | `AtomicFile` | abstract: an atomic, durable change of one section of a file | implemented by 3 | checked and proved |
| 4 | `Monitoring` | polls, ages, alerts, admins | – | checked; three theorems |
| 5 | `ExternalSubscriptions` | refresh in two processes, due feeds, slugs | – | checked; four theorems |
| 6 | `BackgroundTasks` | `run_iterations_forever`, the cron search, start and stop of all tasks (`app.py`) | the loop that 4 and 5 assume | checked; five theorems |
| 7 | `ClientSync` | the sync process on the panels and the file of 1 | extends 1 | checked; seven theorems |
| 8 | `SubscriptionFeed` | a GET of a subscription URL: the token, the fetches, the feed | extends 1 | checked; four theorems |

Abstract specifications: the registry of ids, and the atomic file, which
justifies by refinement that `Provisioning` treats a load and a save as atomic.
One more would be worth stating: a *job runner* that promises each job its next
turn whatever the others do, for `BackgroundTasks`, of which `IterationsRecur` is
the core.

Every safety property that a run checks is a theorem by now (section 6); what is
left to TLC is liveness. Worth proving next: that `PanelsAgreeWithRecord` holds
beside syncs, which needs the sync to have no outdated update on its way, and that
`AnsweredMeansServed` holds beside them, for which `Provisioning`, `ClientSync` and
`SubscriptionFeed` would be composed in one module.

## 3. The modules

### Provisioning

An action is the code between two awaits, together with the panel's answer to
the call that was awaited: on one event loop nothing else can run in between,
and nothing else of the process can tell when within the call the panel acted.

| Variable | In the code |
|---|---|
| `file` | `data.json`: the records and the announcement |
| `panel`, `live` | what each panel stores of each client; the inbounds that exist |
| `queue` | `_client_locks`: per client the holder and the waiters, in order |
| `pc`, `who`, `snapshot`, `sub`, `plan`, `done`, `missing` | the locals of a request in `_ensure_client_locked`: client, `state`, `final_sub_id`, tags, position in `node_inbounds`, `missing_inbound_ids` |
| `wire` | writes whose caller has given up, that may still reach a panel |

| Action | In the code |
|---|---|
| `EnsureTelegramUser`, `IssueManualClient` | the entry points, up to `async with` |
| `Load` | the load, the choice of the id, the first call |
| `ProvisionNowhere` | the same for a client of external inbounds only: no await |
| `ListInbounds`, `InboundNotFound` | the list of a node, and the check of its tags |
| `GetClientNone`, `GetClientFound` | the lookup, and what is missing |
| `AddClient`, `AttachClient` | the write, and the end of the node's turn |
| `Persist` | `_persist_client_record` and `save_clients`, which returns or raises after its rename (`SaveEnds`) |
| `Fail`, `GiveUp` | an error of any call; a timeout of a write |
| `LateWrite`, `Crash`, `Announce` | what the rest of the world does |

A record is four fields: `sub`, `legacy`, and the tags for the two modes
(`own`, `abroad`), each possibly absent. The random id a request draws is named
by the request, for two draws are never equal. `EffectiveSubId`, `TokenWith`,
`LegacyIds` and `TokensWith` are the lookups of `subscription/service.py`, for a
service with a token salt and one without (`PublicToken` and `Tokens` are those of
this service); a keyed hash is a tagged value, so that it equals no id and no
other hash. `NextRecord` is the record that is written, legacy id included. An
error of the save comes before the rename (`Fail`), and the file is as it was; or
after it, when the sync of the directory fails, and the record is written although
the user is told of an error (`SaveEnds`). History variables are read by the
properties only: `announced`, what a command last put into the file, `rolledBack`
and `disturbed`, the clients a stale save has struck, and those with a request
that ended in an error.

What it promises: `OneRequestPerClient`, `AnsweredMeansAttached`,
`DeliveredUrlResolves`, `PanelsAgreeWithRecord`, `AnnouncementKept`, `UrlsKept`,
`EveryRequestEnds`, and `ImplementsRegistry`: mapped to the ids issued, every
step is a step of **ClientRegistry**, where an id is issued to a client that has
none and is free, and stays, unless the record is lost. `rolledBack` is where
the code's own lost update (section 7) shows; the properties exclude exactly the
clients it has struck, and `Lose` is its place in the registry.

`UrlsKept` is about the tokens with a salt and without: a record with a `subId`
keeps all it has; one without keeps those of its legacy ids. What it does not
require, because the code does not do it, are the hashed token of a record without
`subId`, and the client id of such a record that also has a `legacySubId` (7.3).

Left out: e-mails, comments, flows and `telegramId`. (The checklist,
`docs/smoke-checklist.md:22`, says the panel's e-mail is
`<xuiInboundId>_<telegram_user_id>`; `client_email`, `provisioning.py:35`, returns
the client id.)

### DataFile

`_write_json_atomic` as the system calls it makes. `pc` is the place in the
function, `base` what was loaded, `want` the section to save, `temp` the
temporary file, and `file` the three contents `data.json` can have: the one
readers find (`read`), the one a power loss leaves (`disk`), and the one on the
way to disk (`next`).

| Action | In the code |
|---|---|
| `Reload` | `load_state` in `save_clients` and `save_subscription` |
| `WriteTemp`, `FsyncTemp`, `Replace`, `FsyncDirectory` | the four steps of the write |
| `DirectoryNotOpened` | the last one left out: no `O_DIRECTORY`, or the directory cannot be opened; the save returns all the same |
| `ReplaceFails`, `WriteInPlace` | the fallback, which truncates and fills the file |
| `Error` | an `OSError` anywhere else; `finally` unlinks the temporary file |
| `WriteBack`, `Kill`, `PowerLoss`, `OperatorReplaces` | the system, and the operator |

A content is the section a save is for and the rest. The rest may contain
templates: `Resolved` says what it reads as, and a rest outside its domain names
a variable that is not set, which fails the load. Two assumptions: the value of
a variable is not itself a template, and the file an operator moves into place
is on disk at once.

`NeverTorn`, `AckedIsDurable`, `EditsKept` and `NoTempLeft` say what survives
what. Their exceptions are history: `fell` (the fallback ran, which can leave
half a file, and forgets its temporary one), `raced` (the operator replaced the
file between a save's load and its rename: that edit is lost, and the store has
no means to notice), `landed` (a save was cut short after its rename, so that
its content may or may not be the one), and `stale` (a save returned although the
directory could not be opened, `store.py:148-153`: until its rename reaches the
disk, or a later save returns synced, a power loss brings back the section that
was on disk when it returned).

**AtomicFile** is what the rest of the models take a save to be: one step that
changes its section of the file as it is then, lost or kept whole in a power loss
until it returns, and kept from then on if it returned settled; a save may also
return unsettled, and then a power loss may undo it until it is settled after all
(`sure`). `ImplementsAtomicFile` says that
`DataFile` is that, with what is read, what a power loss may leave, and the section
last acknowledged as the mapping; after `fell` or `raced` nothing is promised, in
the case of `raced` until the operator next puts a file in place.

### Monitoring

Time is kept as ages in ticks. An age is capped where no comparison of the code
can tell it from a greater one: at the duration or cooldown plus the longest
iteration.

| Action | In the code |
|---|---|
| `StartPoll`, `SkipPoll` | an iteration begins: `now` is read, and the nodes are loaded |
| `Observe` | `get_status` answers or fails; `update` and its candidates |
| `SendMessage`, `SendFails` | one `send_message` of `send_alert`; `mark_alert_sent` after the last |
| `EndPoll`, `CancelPoll` | `gather` returns, or `wait_for` cancels |
| `Tick`, `SetMonitoring` | time; the operator's `data.json` |

`Observable` is what a poll may find: that the panel does not answer, or any of
the conditions of an answer. The alerts of a poll are told in the order in which
`detect_status_conditions` lists conditions: the candidates are a set, of which
`Current` is the one that nothing `Precedes`. `elapsed` is the time since the iteration's
`now`; a condition first seen late in an iteration is back-dated by it, as in
the code.

`ActiveAsLongAsSaid` and `RepeatsWaitForCooldown` state what the alert text and
the settings promise, by the true time that has passed, and grant the code the
slack it has and no more: a condition is back-dated by the time the poll that
first found it took to answer, and an alert by the time its telling took, both
counted from the iteration's `now`. The two histories are counters that start
at the promised time less that slack and run down with every tick: `stillToSee`,
what is left until the condition has lasted, begun anew when a poll does not find
it; `quietFor`, what is left of the cooldown since every admin was told.
An alert is only a candidate at 0. `Gap` marks a condition over whose node a poll
has passed (opted out, or cancelled before the answer): the code counts the gap as
active.

### ExternalSubscriptions

Two processes refresh the resolved file, the loop of the app and
`python -m vpn_control_plane.external_subscriptions`, without a common lock. An
action is again the code between two awaits; the fetches are one action each.

| Variable | In the code |
|---|---|
| `subscribed` | the feeds `data.json` declares |
| `served` | outside: what each url answers |
| `resolved` | the resolved file: per feed its inbounds, and their age (`updatedAt`) |
| `run` | per process the locals of `_refresh`: `subscriptions`, `to_refresh`, `resolved` as loaded, the urls left and the bodies so far, and the age of `now_dt` |

| Action | In the code |
|---|---|
| `RefreshDue`, `RefreshAll` | the two entry points, up to the first fetch |
| `FetchAnswers`, `FetchFails` | one turn of `_fetch_bodies` |
| `Save`, `NothingChanged` | the rest of `_refresh` |
| `Stop` | a timeout, a death or a failed save, anywhere in between |
| `Tick`, `FeedChanges`, `OperatorDeclares` | time, the feeds, the operator |

A body is a sequence of entries, an entry a link and a label. `Built` is what
becomes of it: filtered, sorted, and given slugs. A slug is the sequence of the
words of a label, so that the number `assign_slugs` appends can collide with a
label that ends in that number, as it can in the code.

`SlugsRefer` and `SlugsStable` say that references are good for anything.
`KnownUntilAnswered` is what a failed feed may count on; it excepts refreshes in
`misled`, whose copy of the file was not the file: it could not be read, which
`ResolvedInboundsStore.load` takes for empty, or the other process has saved
since. Both lose what the file knew of a feed that fails in that very refresh,
and `FeedsArrive` says that the feed is back once it answers. Ages are capped at
the longest interval. Left out: the encodings of a body, regular expressions
(`Resolve` takes the set of slugs one matches), and the system calls of the save,
which are those of `DataFile`.

### BackgroundTasks

The tasks of the event loop: the cron jobs, the monitoring and external loops,
and the bot. What an iteration does is the other modules' matter; here it
returns, raises, or hangs until its timeout.

| Variable | In the code |
|---|---|
| `enabled` | the tasks the settings ask for |
| `schedule` | of each cron job, the set of minutes its expression matches |
| `clock` | the wall clock, in ticks; the calendar is a cycle of minutes |
| `at`, `timer` | where each task is; what is left of its sleep or timeout |
| `cancelled` | tasks whose `cancel()` was called |
| `serving`, `left` | the `yield` of `lifespan`; the tasks its `finally` has yet to stop, a set, in `StopOrder` |

| Action | In the code |
|---|---|
| `StartLoop`, `StartBot`, `StartFails` | a task's first step; `Bot(token)` may raise |
| `Begin` | the sleep is over, the iteration begins |
| `End`, `Expire`, `Unwound` | it returns or raises; its timeout cancels it; it has cleaned up |
| `BotEnds` | polling returns or raises |
| `Shutdown`, `Stopped` | the first task is cancelled; the awaited one is over, the next is cancelled |
| `Tick` | time |

`Delay` is `delay_until_next_run`, `Matches` the search of `next_cron_time`: the
minutes after the current one, at most `Year` of them, `Year` being shorter than
the calendar as it is in the code (one year, where a 29th of February is four
apart). An error of the search leaves the loop, whose `try` begins after it.

`RunsBySchedule` and `NoRunMissed` relate the sleeps to the wall clock.
`LoopsOnlyStopWhenTold`, `IterationsRecur` and `ShutdownEnds` are what the loop
is for; the first excepts schedules the search can fail for. `NothingLeftRunning`
says what a shutdown leaves: awaiting a task that had already failed raises its
error in the middle of the stopping, which skips the cron jobs registered before
it, or, if it was monitoring, the bot. What is skipped ends with the process.

Assumed: the event loop is never late by a tick; wall clock and sleeps run
alike; the clean-up of a cancelled iteration (closing its clients) does not
raise. Who asks for a shutdown is left open, and with it aiogram's own signal
handlers: the bot may end at any time, and the shutdown may never come.

### ClientSync

`make sync` on the panels and the file of `Provisioning`, whose `Next` it
interleaves with its own steps.

| Variable | In the code |
|---|---|
| `sync` | the locals of the process: the loaded clients, the plans it has not finished, `existing` of the current node and its targets, the clients with an error in the report |
| `syncs` | how often it was run |
| `agreed`, `overtaken` | history: clients a sync reported no error of; clients an update of an older sync reached late |

| Action | In the code |
|---|---|
| `SyncBegin` | `load_state` and `_build_node_plans`, with or without `--dry-run` |
| `ListNode`, `NodeFails` | the two lists of a node, or its error |
| `InboundsMissing`, `NothingToDo` | `_reconcile_client` without a call |
| `CreateClient`, `UpdateClient`, `AttachMissing` | its calls; an update may be followed by an attach |
| `WriteFails`, `LateUpdate` | a call raises, and the panel may carry it out later (adds and attaches: `LateWrite`) |
| `SyncEnd`, `SyncDies` | the report; a death at any call |

The order of nodes, and of clients on a node, is left open. A panel takes an
update as far as the subId: attachments have calls of their own. Comment and
`tgId` travel in the same calls and are left out.

`agreed` holds a client from the end of a sync without an error of it, whose
record is still the one that was loaded, until its record changes.
`SyncedMeansAgreed` and `SyncedOnceIsEnough` say what that is worth, with the bot
and late writes at work on the same panels. Excepted are a client
whose record changed during the sync, since the sync pushes what it loaded, and
one that an update of an older sync reached late, or still may: nothing orders
the two. `SyncTouchesOnlyItsOwn` is the promise of the class's docstring, and
`AnsweredMeansAttached` has to hold with the sync running, too.

### SubscriptionFeed

A GET of a subscription URL, `respond` with `SubscriptionService.build`, beside
the steps of `Provisioning`, whose `Next` it interleaves with its own: the bot and
the routes share one process, `data.json` and the panels. An action is again the
code between two awaits; the nodes of a feed are asked at the same time.

| Variable | In the code |
|---|---|
| `feed` | the locals of `build`: the token, the client and its public URL, `requested_tags`, the external tags that resolve, and per node where `_fetch_node_data` is, `remark_by_inbound` and `link_by_remark` |
| `title` | outside: what each inbound is called on its panel |
| `renames` | how often the operator has retitled one |

| Action | In the code |
|---|---|
| `FeedBegin` | the load, `_find_client`, and the start of the fetches |
| `ListTitles`, `GetLinks`, `GetNoLinks` | `list_inbounds`, `get_client_links` |
| `GetFallbackLinks`, `GetNoFallbackLinks` | the same for the fallback client |
| `GetTraffic`, `NodeFails`, `FetchTimesOut` | the last call; an error; the timeout |
| `FeedDeliver`, `FeedDone` | the rest of `build`; the answer, which is a redirect if `Moved` |
| `Rename`, `Elsewhere` | the operator; the rest of the process |

A panel hands out the links of a client without saying which inbound each is of;
`build` goes by the title in the link, and of two links with one title keeps the
first, in an order that is the panel's (`LinksByTitle`). A link is the inbound it
is of and the panel client it belongs to, and in a feed also the tag it is
labelled and placed for. `get_client_links` cannot tell a client without links
from a panel that reports an error, so `GetNoLinks` is always possible. History
in `feed`: `promised`, the tags a request for this client had answered with when
the GET began, and per node `exact`: the panel told the truth, and its titles told
its inbounds apart, from the list to the links.

`AnsweredMeansServed` ties the bot's answer to the feed: the URL it gave finds
that client and no other, without a redirect; a later GET has the client's own
link for every inbound of it, as far as nodes are `exact`, whatever the others
do; and where a redirect leads, the same client is found. It excepts the clients
of finding 7.1 and redirects to the URL of 7.3. `LinksBelong` is about each
link: its order, whose it is, and which inbound it is of. `FeedTypeOK` adds to the
types that only the nodes of the tags are asked and that a failed one has no part
in the feed.

`AnnouncementKept` is checked here too: the run has the announcement.

An unknown token is a 404 and changes nothing, so there is no action for it; the
order of the records in the file, which decides between two clients of one
token, is left open. External tags resolve or not, as `ExternalSubscriptions`
leaves it.

## 4. Runs and bounds

| Run | Shows | Bounds | States |
|---|---|---|---|
| `provisioning` | safety, refinement and liveness of `Provisioning` | 3 requests, 2 clients, 2 nodes, 3 inbounds and an external one, 1 crash, salt set, six initial files | 242 k |
| `provisioning_lost_update` | *violation* (7.1) | 3 requests, 2 clients, nobody registered | |
| `provisioning_partial_failure` | *violation* (7.2) | 2 requests, 1 client | |
| `provisioning_public_url` | *violation* (7.3) | 1 request, 1 migrated client, salt set | |
| `data_file` | safety and refinement of `DataFile` | 2 sections, 4 rests, unbounded saves, errors, kills and losses | 81 k |
| `data_file_templates` | *violation* (7.4) | the same | |
| `monitoring` | safety and liveness of `Monitoring` | 1 node, 3 categories, 2 admins, interval 1, duration 1, cooldown 2, timeout 2 | 29 k |
| `external_subscriptions` | safety and liveness of `ExternalSubscriptions` | 2 feeds, 2 urls, 4 bodies, interval 1, 2 events | 271 k |
| `background_tasks` | safety and liveness of `BackgroundTasks` | 2 cron jobs and 1 loop, or 2 loops and the bot; 3 schedules, calendar of 2 years of 2 minutes, 2 ticks a minute, interval 2, timeout 3 | 140 k |
| `client_sync` | safety of `ClientSync` | 2 syncs, 1 request, 2 clients, 2 nodes, 3 initial files | 269 k |
| `subscription_feed` | safety and liveness of `SubscriptionFeed` | GETs one after the other without bound, 1 request, 2 clients (Telegram, manual), 2 nodes, 3 inbounds and an external one, 1 fallback client, 3 titles, 1 retitling, 1 announcement, 1 crash, salt set, 3 initial files | 381 k |
| `subscription_feed_fallback` | *violation* (7.5) | the same, without announcement, crash and retitling | |

Why these are enough to be interesting. Three requests for two clients are the
least in which a record is lost and its owner comes back, and in which two
requests for one client run against a third. Two nodes are the least for a
request that fails halfway; one of them has two inbounds, so that a client can
be present and still lack one; the default tags repeat nothing and mix an
external inbound in. The initial files are the kinds the migrations left behind:
no record, a record with a `subId`, one with neither, one with a legacy id, one
with external inbounds only, and one whose inbound is gone from its panel. The
salt makes hash and id differ, which is the harder case; `UrlsKept` is about the
tokens without a salt as well. Each request is made
once, so that a run ends when all have: deadlock is not checked in the
provisioning runs, and `EveryRequestEnds` is checked instead.

`DataFile` has no bound but its values: two sections tell old from new, and the
rests are a plain one, an edited one, one with a template that resolves to the
plain one, and one whose variable is not set.

In `Monitoring` nodes share only the iteration's clock, so the run has one node.
The times stand to each other as in the program (30 s, 60 s, 3600 s and a timeout
of 3600 s): the timeout exceeds the failure duration and equals the cooldown, so
that one slow iteration can take as long as either, which is where the slack could
hide an error. The duration is not 0, so that an alert needs a second poll, and the
cooldown exceeds the interval, so that polls fit between two alerts. A panel that
does not answer hides the other two conditions, so that there are polls with none,
one and two candidates.

In `ExternalSubscriptions` one feed has two entries of one label and one whose
label is a numbered slug, in two orders and with the first one gone; the other
feed has a filter and another order. Events (manual runs, failed reads, changes
of a feed, declarations, stops) are two altogether, while fetches may fail and
time may pass without bound: two suffice for a manual run and a change, a stop
or a withdrawal within it.

In `BackgroundTasks` two ticks a minute are the least in which an iteration can
end within the minute it began, and a timeout of three ticks outlasts a minute,
so that runs are also slept and worked through. A calendar of two years is the
least in which a schedule can match in one year and not in the next, and
the shortest years that tell "every minute" from "once a year" have two minutes.
Two cron jobs and one loop show what a failed job skips; the two loops and the
bot, what a failed loop does. The process starts at every time of the calendar.

In `ClientSync` the initial files have a client that needs an update and an
inbound at once, a client that only the panel knows, a client that is on no
panel, one with a legacy id, and inbounds that are gone. Two syncs are needed for
"nothing to do"; one request, to have the bot write between any two steps of
both. Two clients can be created, updated and fail apart from each other, on two
nodes.

In `SubscriptionFeed` one GET runs at a time, since GETs share nothing; there is no
bound on how many come one after the other, with any token, before, during and
after the request, which draws its id and may be cut off by the crash. One node
has two inbounds, with a fallback client that is attached to one of them; its
inbounds have different titles until the operator retitles one, which may make
them equal or leave one empty, and an inbound of the other node has the title of
one of them from the start. The initial files have a client on one of its two
inbounds, a migrated client without `subId`, and nobody.

## 5. Fairness

* `Provisioning`: `WF_vars(Work(r))` for each request. A task that can run does,
  and an HTTP call ends, with an answer or with the client's timeout
  (`xui/client.py`). No fairness for any outcome: a request may always fail.
  Nothing is assumed of crashes, late writes and announcements.
* `Monitoring`: time passes (`Tick`), the loop starts and ends its polls
  (`StartPoll`, `EndPoll`/`CancelPoll`), a panel asked again and again in the end
  answers within the timeout (`Observe`, strong, because a cancellation can get
  in the way every time), and so does Telegram, whatever the admin
  (`SendMessage`, strong, for each admin). Starting a poll is strong
  because an operator may turn the monitoring off and on. The assumption on
  Telegram matters: behind an admin who has blocked the bot for good, the admins
  after that one hear of nothing, and those before it hear at every poll, for the
  alert is never marked as sent.
* `ExternalSubscriptions`: time passes, the app's loop starts a refresh when a
  feed is due and finishes what it started (`RefreshDue`, `Save`/`NothingChanged`),
  every fetch ends (`_http_fetch` has a timeout), and a url that serves something
  is not refused for ever (`FetchAnswers`, strong, per url). Nothing is assumed of
  the manual process, nor that stops, failed reads and changes ever happen.
* `BackgroundTasks`: time passes; the event loop runs what is ready (`Ready`, per
  task), which is the start of a task, of an iteration whose sleep is over, of
  its timeout, and the end of its clean-up; and a shutdown goes on when the task
  it awaits is over (`Stopped`). All weak: nothing disables these but the
  shutdown. `End` is not fair, for an iteration may hang; nor is `Shutdown`.
* `SubscriptionFeed`: the timeout of a fetch runs out if nothing else ends it
  (`FetchTimesOut`, per node), and what is gathered is delivered (`FeedDeliver`).
  That a panel ever answers is not assumed.
* `DataFile` and `ClientSync` state no liveness.

## 6. Proofs

`ProvisioningProofs`, `ClientSyncProofs`, `SubscriptionFeedProofs`, `DataFileProofs`,
`MonitoringProofs`, `BackgroundTasksProofs` and `ExternalSubscriptionsProofs` hold for
every value of the constants that satisfies the named assumptions of the modules
(types of the constants; the names for "nothing" are not values; the ids in the
data the service starts from, subId or legacy, were drawn or given earlier, each
for one client; a label has words; the assumptions on templates above). TLC
evaluates these assumptions for the constants of its runs.

`LoopLemmas` is what the proofs about loops over a list share. Such a loop is
written as a function of the number of elements it has gone through. That there is
such a function (`LoopExists`), and that what holds at first and is kept by each
turn holds at the end (`UpTo`), come from the order of the natural numbers being
well-founded: the library's induction theorems take an operator as a parameter,
which the provers cannot instantiate, so the property is given as a set instead.

**Provisioning.** `TypeCorrect` and `LockExcludes` come from one inductive
invariant, `TypeInv`: the types; that a request that has been made has a client
(`Started`); and that a request past the lock is the head of its client's queue
and has a snapshot (`InsideHolds`). The last is what makes the exclusion
inductive: two requests past the lock of one client would both be the head of
its queue. `AnswerMeansAttached` needs `LoopInv`: on the nodes a request has
finished with, its client is attached to the tags of its plan; while it is
adding or attaching, what it is about to write is what is missing; when it is
closing, all planned nodes are done; and once it has answered, its client is
attached on all of them (it has forgotten which it went through). No step takes an entry or an inbound off a
panel (`PanelGrows`), so that other requests and late writes cannot undo it.
`AnnouncementSafe` is inductive as it stands.

**Subscription ids.** `IdInv` adds three facts to `TypeInv`. `InStep`: the copy of
a record that a request holds is the record as it is now, unless another client's
save rolled it back, and the id the request works with is the one that copy
yields; it is inductive because of the lock. `Recorded`: a request that is done
has its id in its client's record. `DrawnOnce`: an id that a request draws is in no
record, nor in any copy of one, before that request has ended, for its save may
have written it and then raised. `DeliveredResolves`
is `Recorded`; `UrlsStay` compares the record a save writes with the one it
replaces, for both kinds of token and with the exceptions of `UrlsKept`;
`KeepsRegistry` is the step simulation of `ClientRegistry`, in which a
save gives an id or loses some, and every other step stutters, and needs
`DrawnOnce` for the ids to be free. `PanelsAgree` adds `Agrees`: a panel has the
record's subId, or, of a client without a record, the one a request under way is
about to record; late writes are all of clients with a request that failed. It has
a hypothesis, `AgreedAtStart`: the panels agree with `data.json` at the start,
which is so in `MCInitialData`.

**ClientSync.** The sync shares panels and wire with the bot, so its steps and the
bot's are shown to preserve one invariant, `SyncInv`. Its base is `Keeps`: no step
takes a client off a panel or an inbound, and only an update gives it another
subId. So what the sync listed on a node is still so when it acts (`AsListed`),
what it pushed is so when it ends (`AsPushed`), and what it agreed on stays so
until a request touches the client (`StillAgreed`, which includes that no update of
it is still on its way: such a write outlives its sync and would undo the
agreement of a later one). `SyncAgrees` and `SecondSyncIdle` follow; `SyncMindsItsOwn` is about single steps. `AnswerStands`
carries `LoopInv` of the bot over to the composition, and `RegistryBesideSyncs` and
`UrlsStayBesideSyncs` carry `IdInv` over: a step is one of the service's own, or
leaves all it has but the panels as it was (`BotOrSync`).

**DataFile.** `TypeCorrect` and `TempCleaned` come from the types with what a save
has in hand at each step (`InHand`). `FileParses`, `SavesAreDurable` and
`OperatorEditsKept` come from `Kept`, which says of each of the three contents
of the file where it can come from: on disk and pending contents too, because
either becomes what is read after a power loss. The exceptions `fell` and
`raced` guard it as they guard the properties; `stale` is one more place a content
may come from. `ImplementsAtomic` is the step
simulation of `AtomicFile`: the rename is the atomic change, the sync of the
directory its return, which is unsettled if the directory was not opened, a
write-back settles it, and every other step of a save is
a stutter. It needs `Fresh` besides: until the rename, what the save loaded is
what the file still is, and what is pending for the disk is what is read.

**Monitoring.** The service knows only its own two ages, counted from an
iteration's `now`; the properties speak of true ones, less what the first answer or
the telling really took. `Aligned` relates them: as long as a condition has still
to be observed, or an alert to be held back, the age the service keeps and that
rest together are no more than the duration the age is compared with. They are
when the age starts, however late in its iteration (`LessTime`), and as time passes
the one grows by what the other shrinks; so when the age has reached the duration,
there is no rest. No relation between timeout, duration and cooldown is assumed.
A candidate is then `Justified`, and stays so while its turn to be sent comes, for
the rests only shrink and a node that is still sending is not polled anew.
`AlertsAreOld` and `AlertsAreRare` are `Justified`.

**BackgroundTasks.** For the schedules, the invariant is `OnTime`: a job that sleeps
does so until a whole number `k` of minutes from the one that has begun, that
minute is in the schedule and none between is (`Until`); and one that has run in
this minute has time left to sleep. It holds of the delay the search yields
(`DelayType`), and a tick keeps it, since the next tick is in the same minute or
at the start of the next (`NextSecond`, `NextMinute`), the calendar wrapping
included. A job whose timer is over is then in minute `k = 0` (`OnSchedule`), and a
minute of the schedule that begins is the one slept for (`NoneMissed`). A calendar
of a single minute is excluded by assumption: there "the minute changes" would mean
nothing. For the shutdown, `Stopping` says that of the tasks still to stop only the
one that is awaited was told, and `Settled` that all others are over or skipped;
`AllStopped` is `Settled` when none is left. The order of stopping enters through
`OneIsNext`: there is never more than one task whose turn it is.

**ExternalSubscriptions.** `FailedFeedsKeepEntries`, with the exceptions of
`KnownUntilAnswered` (feeds dropped from `data.json`, and refreshes in `misled`),
needs `Copies`: a process that
is fetching and was not misled has the file, as it is now, as its copy. It is
inductive because a save makes the other process misled if it is fetching, and
because time passes for file and copies alike. `TypeCorrect`, `SlugsFindTheirEntries`
and `SlugsSurviveRefreshes` come from `Known`: what the file has of a feed is what
`assign_slugs` makes of some sequence of entries in order. By its loop, each slug is
one no earlier entry has; one is always left, because there are more numbers
than slugs in use (`Crowded`). So a slug finds its entry; and if no other label
begins its own, no earlier slug can be equal to it. For the last theorem, a body is
sorted before its slugs are given, and two sequences in order with the same entries
are equal, repeated entries included (`OneOrder`). That a sorted sequence exists at
all is proved as well (`CanBeSorted`).

**SubscriptionFeed.** The GETs are shown first to change nothing of the service
(`FeedKeepsService`), so that all that is proved of `Provisioning` holds beside them,
`AnnouncementSafeInFeeds` for one. What they hold is `FeedInv`, over `IdInv` and
`LoopInv` of the service:

* `Fetched`, per node, says what each await has left in the locals of a fetch:
  nothing before the list and after a failure; titles of this node's inbounds; links
  that are of inbounds their client is attached to. If the node is `exact`, its titles
  tell inbounds apart, each link has the title of its inbound, and every promised
  inbound has its link, or none is promised. It stays so because panels only
  gain (`NextGrows`), and because what is compared later is the titles the fetch has,
  not those of the panel.
* `PromisedInv`: what was promised when the GET began, the client is attached to, and
  the inbound exists (`LiveInv`: a request reaches its writes only past
  `list_inbounds`).
* `Selected`: the feed has a link for each tag with one, in their order. It is
  proved of the loop over the tags by its turns (`SelectedOneMore`).
* `RecordIds` says whose an id is: the client's that had it at the start, or for which
  a request drew it. No record, nor any copy of one, has an id of another client,
  so that a token finds one client (`OneOwner`, `FoundIsClient`).
* `TokenInv`: the client's record has the id of the public URL the GET has computed,
  or has been given its first subId since; and an id the GET was made with is that id,
  or a legacy one, which no record takes for its subId.

`FeedTypeCorrect` and `LinksAreTheClients` follow from the first three,
`AnswersAreServed` from all, with the exceptions of `AnsweredMeansServed`: records
another client's save lost, and redirects of a client that is given its subId while
the GET runs. They hold with and without a token salt, and for any fallback
clients and retitlings.

**Model-checked only.** `EveryRequestEnds`, `EveryAdminTold`, `FeedsArrive`,
`ShutdownEnds`, `IterationsRecur` and `FeedEnds`, which need reasoning about fairness
and ENABLED, out of the prover's reach.

## 7. Where code and documents disagree

Each is a run whose one property TLC violates; the trace is the evidence.

1. *Lost records* (`provisioning.py:275`). The lock is per client, the save is of
   all clients as loaded before the awaits. Two users provisioned at once: the
   later save removes the earlier record, and that user's next `/start` answers
   with another URL. The checklist (line 29) expects the same.
2. *Ids after a partial failure* (`provisioning.py:166`). The record is written
   last; a request that fails after its first node leaves an id on that panel
   that is in no record, and the retry draws another and keeps the panel's. The
   checklist (line 22) expects panel and record to agree.
3. *Hashed URLs of migrated clients* (`provisioning.py:281`). With a token salt,
   the URL of a client without `subId` is the hash of its id. The next `/start`
   stores that id as legacy id, and legacy ids are compared in plain only. The
   README (line 63) says public URLs are preserved. Without a salt the same happens
   to a client without `subId` whose record has a `legacySubId` that is not its id:
   its URL is its id, which the next `/start` puts nowhere.
4. *Templates* (`data/store.py:99`). A save writes back the state that was loaded
   with its templates resolved, secrets included. The README (line 169) and the
   checklist (line 61) have them stay out of `data.json`.
5. *One missing inbound* (`subscription/service.py:251`). The fallback client is
   asked for only if the node has no link at all for the client, and it is the one
   of the node's first requested inbound. A client that is missing from one of
   two inbounds of a node gets no link for it. The README (line 117) promises the
   fallback per inbound.

## 8. What is not modelled

* Restarts in `Monitoring`: its state is in memory and a restart is `Init`.
* Replies to Telegram users; permissions; `/status`, `/backup`; the routing string
  that `/set-routing` saves (the save itself is an `Announce` that leaves the
  announcement as it is).
* Messages, names, formats, rendering, logging: no property is about them.
* `backup/`, `config.py`, and of `http/` all but the subscription routes: stateless;
  what they read of `data.json` while it is replaced is `NeverTorn`.
* Of a feed, what is output only: how a link is rewritten and labelled, traffic
  sums, metadata, the three renderings.
* What the scheduled jobs do in an iteration: they go through nodes and admins in
  turn and write nothing that another part reads.
* The syntax of cron expressions, and adjustments of the wall clock.
* Where other modules need the loop (`Monitoring`, `ExternalSubscriptions`) they
  assume that it goes on, as `IterationsRecur` says; they are not composed with
  `BackgroundTasks`, whose shutdown would only stop them.
* Fields of a panel's client other than `subId` and inbounds: what an update of a
  sync writes back of an operator's edits.
* In `ExternalSubscriptions`, when the loop wakes: a refresh may begin at any time
  that a feed is due.
* Two nodes of `data.json` with one id: the models take ids as distinct.

## 9. Running it

In this directory, with TLC and the community modules on the path:

```
tlc -workers 2 -config Provisioning.cfg MCProvisioning.tla
tlc -workers 2 -config DataFile.cfg MCDataFile.tla
tlc -workers 2 -config Monitoring.cfg MCMonitoring.tla
tlc -workers 2 -config ExternalSubscriptions.cfg MCExternalSubscriptions.tla
tlc -workers 2 -config BackgroundTasks.cfg MCBackgroundTasks.tla
tlc -workers 2 -config ClientSync.cfg MCClientSync.tla
tlc -workers 2 -config SubscriptionFeed.cfg MCSubscriptionFeed.tla
tlapm ProvisioningProofs.tla
tlapm LoopLemmas.tla
tlapm ClientSyncProofs.tla
tlapm SubscriptionFeedProofs.tla
tlapm DataFileProofs.tla
tlapm MonitoringProofs.tla
tlapm BackgroundTasksProofs.tla
tlapm ExternalSubscriptionsProofs.tla
```

The configurations named after a finding (`ProvisioningLostUpdate`,
`ProvisioningPartialFailure`, `ProvisioningLegacyUrl`, `DataFileTemplates`,
`SubscriptionFeedFallback`) end with a counterexample. Operators that carry a
suffix and are marked "Mutant" in the modules are plausible bugs of the
definition they follow; each is what one of the properties would catch.

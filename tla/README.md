# Cookiebot in TLA+

A verification development for the Cookiebot monorepo: TLA+ modules of its
stateful parts, TLC runs over small instances, and TLAPS proofs of the results
that should hold for every instance. Paths below are relative to
`src/packages/` unless they start with `src/`.

## 1. The system

Three services over one Postgres (Citus) and one Valkey:

* **cb-gateway** (aiogram behind a FastAPI webhook, N stateless replicas)
  receives Telegram updates of every configured bot ("skin"), runs middlewares
  and handlers, answers in the chat, and enqueues slow work;
* **cb-worker** (arq, ten jobs at once, 300 s per job) runs those jobs and the
  cron jobs; a job that a worker's shutdown cut short is run again, one that
  raised or timed out is not. Its command lines import v1 and move to v2;
* **cb-api** (FastAPI) serves the Mini App: sessions, group configuration,
  analytics, the operator's console.

`cb-core` is the library they share. They interact through Postgres rows,
Valkey keys, one Valkey pub/sub channel (`cb:invalidate`), the arq queue, and
messages and buttons in Telegram chats. Apart from the migrations' advisory
lock, the transaction that rewrites a chat's admins, the nightly rollup and the
event recorder's lock, nothing spans two statements, so every `await` of a
handler is a point where the others run, in the same process or in another.

| Component | State | Operations | What makes it hard | What makes it correct |
|---|---|---|---|---|
| Mini App sessions (`cb-api/.../sessions.py`, `routers/oauth.py`) | rows of `refresh_tokens`: family, used, revoked, expiry | grant, refresh (read, mark, insert), replay, logout | three statements of a refresh interleave with replays and logouts | one spendable token per session, each spent once, an ended session stays ended |
| Signing keys (`cb-api/.../keys.py`) | `signing_keys`; the key each process resolved | read, insert-or-nothing, read again, sign | cold starts race; rolling restart into a new kid | all processes sign with the stored key; it is never replaced |
| API authn and authz (`security.py`, `routers/login.py`, `oauth.py`, `cb-core/.../tenancy.py`) | tokens with scopes and ages; each process's copy of the tenant's owners | login, grant, refresh, ask | proofs, sessions and access tokens age apart; registry cached per process | nobody learns or does what is not theirs; a stranger cannot tell groups apart |
| API resources, audit trail (`cb-api/.../routers/`, `audit.py`, `analytics.py`) | audit rows, pages over them, statistics tables | patch, put, list, sum | a write and its audit row are two statements; rows come and go under a cursor | trail is evidence, a walk is complete, screens agree with each other |
| Join captcha (`cb-gateway/.../handlers/groupguardian.py`, worker cron) | `captcha_challenges`, messages in the chat, a sleeping unban task | join, answer, press, approve, wrong attempt, kick, unban, sweep | rows read long before they are written; rejoin; restart | attempts capped, one verdict, buttons there while pending, challenge and ban end |
| Giveaways (`handlers/giveaway.py`, `giveaways.py`, `pending_giveaways.py`) | prize under a Valkey key, `giveaways`, `giveaway_participants`, chat messages | ask, count, enter, draw, draw more, delete | raffle found by message id, repointed while others press | closed stays closed, no shared message, entries survive, never stranded |
| Publisher network (`handlers/publisher.py`, `postgetter.py`, `deletereposts.py`; `jobs/publisher.py`; `scheduled_posts.py`, `pending_posts.py`) | pending post in Valkey, `scheduled_posts`, prompts, jobs, delivery ticks | submit, approve, deny, fan out, trim, deliver, repost, cancel, opt out | jobs and ticks overlap and rerun, ticks die, rows change under a tick | at most one forward per granted day (and per day spent twice), refusal final, one campaign per channel, cap, drains |
| Group configuration (`group_config.py`, `cache.py`) | `group_configs`, L2 in Valkey, L1 in each process, subscriptions | get, set, invalidate, deliver | fill races write; lost messages; processes that do not listen | a write reaches every cache, returns itself, staleness bounded |
| Configuration menu and language (`config_menu.py`, `rules.py`, `setlang.py`) | the row of settings; prompts are messages in the chat | reply, patch, import, forget | four surfaces write what six readers parse | what is stored is what was said, and every reader can read it |
| Update ingestion (`cb-gateway/.../main.py`, `ingest.py`, `middlewares.py`, `dedupe.py`) | ring of recent ids per replica, claims in Valkey, pollers | deliver, claim, handle, reply; start, stop | redelivery to another replica, Valkey down, replica death, late handlers at a stop | each update handled once, none lost but to another bot's id; nothing used before it is up or after it is down |
| Command handlers (`cb-gateway/.../handlers/`) | the chain of routers, in the order of registration | filter, claim, skip, answer | 65 handlers whose filters overlap; configuration read anew by each | an update has one fate, a command its handler, a silence is marked |
| Job queue clients (`queue.py`, `jobs.py`) | the arq pool of a gateway; names on the wire | open, enqueue, close | first calls meet, or meet a close; names are looked up elsewhere | every open pool is accounted for; a job sent is a job known |
| Worker scheduling (`cb-worker/.../main.py`) | arq's queue and result keys | take, finish, rerun after shutdown, cron | a tick that dies; rerun of a half-done job | reruns counted, given up only after the tries |
| Media and search jobs (`cb-worker/.../jobs/`) | a worker's jobs at work, the distortion semaphore | download, ask engines, compose, send | a send that raised after delivery, a kill, a timeout that leaves a thread | everybody asked for is told, and no more often than runs explain |
| Birthday sweep, broadcasts (`jobs/birthday.py`, `broadcast.py`, `birthdays.py`) | queued jobs, pins, marks of the day | sweep, post, pin, follow up, broadcast | rerun after shutdown, midnight, 29 February | nobody forgotten, nobody greeted twice |
| Members, groups, admins (`members.py`, `groups.py`, `admins.py`) | memo per process, rows, two caches and a table | see, join, leave, refresh, fall back | memo stale after another replica's write; refreshes overlap | a demotion bites within the expiries; only newcomers restricted |
| Media store and sweep (`storage/`) | blob rows, object rows, bucket objects | put, forget, sweep, backfill | sweep lists, then deletes object and row, while a put adopts the blob | a row names an object that exists; every object can be collected |
| LLM router, breaker, budget (`llm/`, `breaker.py`) | month-to-date spend, daily rollup, breaker | spend, refresh, roll up, forget | stale cache at the end of day and month; half-open stampede | the total is money spent, and all of it; a breaker opens only when earned |
| Event recorder (`events.py`) | buffer, flush task | record, flush, stop | shutdown during a flush | every event written, counted dropped, or cut off by the end |
| Cooldowns and quotas (`cooldowns.py`, `cache.incr_window`) | per-key windows, buckets, ledgers | hit | window edges, midnight, keys that share a store | never more than the limit, never less than promised |
| Schema migrations (`migrations.py`) | schema revision, advisory lock, a thread | start, upgrade, cancel, crash | several services start at once; the thread outlives its caller | nobody serves on an older schema than its code |
| v1 cutover, importer, backfill, bucket export (`cutover/`, `importer/`, `backfill/`, `bucket_export/`) | progress marks, target rows, manifest, a cloud policy | run, resume, provision, revoke | stopped anywhere and run again, beside a live v1 and v2 | what is reported as moved is there; what v2 owns survives |
| Tenancy, skins, settings, locales, telemetry | read at start | | | parts in `Access`, `Dispatch`, `Lifecycle`; the rest out of scope (see 7) |

## 2. Plan

In the order of importance, and what exists of it:

1. `Sessions` refining `SessionChain`. **done, proved**
2. `CaptchaGate`, `Giveaway`, `Publisher`: the three protocols that users see
   and that live across awaits, jobs and restarts. **done; safety proved**
3. `SigningKeys`. **done, proved**
4. `ConfigCache`, `Ingest`: what every handler stands on. **done, safety proved**
5. `MediaStore`, with the backfill that writes through it; the cutover, the
   importer and the exports around it. **done, proved**
6. `LlmRouter` and `Breaker`. **done, proved**
7. `EventRecorder`, `Members`, `AdminList`, `Statistics`. **done, proved**
8. `FanOut`, `BirthdayCalendar`, `AnswerJobs`, `JobQueue`: the workers.
   `Migrations`, `Lifecycle`: start and stop. **done, proved**
9. `Cooldowns`, `Console`, `Paging`, `GroupSettings`, `Access`. **done, proved**
10. `Commands`, `Dispatch`: the chain of handlers. **done, proved**

Modules are written to be proved about: no RECURSIVE operator, constants with
named assumptions, one action per statement or call, invariants as named parts.

## 3. The modules

In every module a request, handler, job or tick is a record (or a function to
one) with a program counter and **the copies it has read**. A step ends where
the code awaits something another actor can see: one SQL statement, one Valkey
command, one Telegram call. What happens between two awaits of one coroutine is
one step, because nothing else runs there. A call that can fail has a step or a
disjunct for it, and a step for the death of the process. Variables marked
*ghost* are history the properties speak of; no guard reads them. A module is
coarser where another one tells the rest, and says so at its head.

### Sessions, keys, access

**SessionChain** is the promise: a session family is unborn, live (it has one
token to spend), renewing, or dead, and never leaves dead. **Sessions** is the
code: `Grant` (`_telegram_grant`), `Present`, `Load`, `AfterLoad` (the checks of
`redeem` on the row read), `MarkUsed` / `MarkNothing` (the conditional UPDATE and
its count), `RevokeFamily`, `Rotate` (the successor's INSERT, a statement of its
own), `Revoke`, `Expire`, `Fail`. The refinement mapping is `FamilyStatus`.

**SigningKeys**: `Read`, `Write` (INSERT ON CONFLICT DO NOTHING), `Reread`,
`Sign`, `Restart`, `Retire`. A PEM is a model value, so "the same key" is "=".

**Access**: a token is the record of its claims; `Vouch` and `Login` are the two
proofs of who one is, `Grant` and `Refresh` mint scopes from them, `Ask` sends
what a token entitles to. Each API process has its own copy of the tenant's
owners. Time is told in ticks, lifetimes are constants.

### What the gateway does with an update

**Ingest**: `Post` (webhook and ring lookup, which do not await), `Claim`
(SET NX), `ClaimFails`, `Handle`, `Reply` (a 200 that may get lost), `Crash`,
`ExpireClaim`. The ring is the code's: an array of slots, a head and a set.
A replica serves every bot, whose counters are their own: the claim's key has the
bot, the ring's has not. Ghosts: what each ring recorded, how often handlers ran,
`unclaimed` updates (the claim failed, or its ten minutes ended before Telegram was
done), `dropped` updates (a replica died before their handlers ran), `met` (what a
ring has let past) and `mistaken` (what a ring took for a repeat that it had not).

**Dispatch** takes one update through the trace and tenant middlewares and the
chain of routers; `Chain` is their order. **Commands** says for each handler what
may come of a message: an operator of the message and of the configuration the
handler reads, its value the set of outcomes (what is said, done, enqueued, and
how the trace is marked). What a table or Telegram answers is the choice of an
outcome. The configuration may change between two handlers.

**Lifecycle**: the steps of each service's start and stop, in the code's order;
what a step needs, what each leaves open, pollers, handlers that outlive the
ingest, and events recorded late.

### Protocols in a chat

**CaptchaGate**: `Join` to `Arm` is a join (ask in the chat, then upsert the
row), `Answer`, `Press`, `Approve` read the row, `Judge` and what follows act on
that copy; `Ban`, `ScheduleUnban`, `Unban`, `LoseUnban` are the kick and the
in-process sleep; `Sweep` is the worker's cron. A nonce stands for a challenge.
`expired` is the clock. `BanRefused` is a ban that raises: Telegram refused it, or
applied it and its answer was lost. Ghost `raced`: challenges some part of which two
handlers worked on at once; `stuck`: users a ban of whom nobody is left to lift,
because the unban failed or died with its process or was never scheduled.

**Giveaway**: `Ask`/`ForgetPrize` (the prompt and the TTL of the prize),
`PressCount`, `DropPrize`, `Announce`, `Create` (a raffle comes to be),
`PressEnter`/`Enter`, `PressEnd`, `Draw`, `FollowUp`, `Repoint`, `DeleteRow`,
`Clean`, `PressDelete`, `Abort`. Which raffle a press is about is what
`ByMessage` finds. Ghost `raced`: prompts and raffles that met two presses.

**Publisher**: the gateway's presses and commands; `Fetch` to `LoopEnds`, an
approve job over its groups (drop old rows, count, trim, insert); the delivery
ticks (`TickStarts`, `SpendDay`, `CheckConsent`, `Forwarded` and its failures), any
number of them at once, since arq starts one every five minutes and lets one that is
late or run again go on beside the next; deaths and reruns of both; `ComeDue`, which
waits until no tick holds the row, a day being far longer than a tick. A forward that
fails or is cut short may have gone out. Which groups a post is for is an arbitrary
choice at `Render`. Ghosts: days granted and forwards sent per row, `again` (days that
a tick spent after another had), rows ended, keys lost, `crowded` groups that two jobs
filled at once.

### What the handlers stand on

**ConfigCache**: a configuration is a version number. `LookupL1`, `ReadL2`,
`ReadRow`, `FillL1`, `FillL2` are `get_config`; `Save`, `DropL1`, `ClearL2`,
`Publish` and the read after them `set_config`; `Deliver` the pump. Ghosts:
`calm` (no failure so far, no change has met another task), `misread`.

**GroupSettings** is what that version contains: the fifteen columns, what the
menu, the API, a join and the import accept for them, the defaults of the SQL
and of the tenant, and what each reader makes of the value stored.
**Console** is who changes it: a request reads the row, writes, reads back and
records, each step of its own. A reply to a prompt is taken by the text it answers,
whoever sends it and whenever, because the handler that takes it makes no check of its
own. A read may give any version a cache can hold, `ConfigCache` telling how old, and
each read may fail, which for some requests is the end and for others is not; what a
request read wrongly is its `doubt`, of one side or the other. **Paging** is
the keyset walk over audit rows and over the directory of groups while rows come
and go.

**AdminList**: two caches and a table before Telegram; a list is its version.
**Members**: replicas with a memo of what they have written, joins, leaves,
`/everyone`'s pruning, the media restriction of newcomers. **Cooldowns**: the
bucket, the sliding window, the ledger and the window in Valkey, each against
the history of its calls. **EventRecorder**: `record`, the timer and full
buffers starting flushes that take turns on a lock, `stop` and a kill.
**Statistics**: events, the nightly rollup (two statements, each with its own
snapshot), erasure, and what the screens draw from it. A screen with a limit shows the
busiest rows, `Busiest`: of rows that tie at the limit the queries take the lesser id,
the model any, so what it says of a screen it says of each answer there is.

### Workers

**JobQueue**: `GetPool` to `Hand` is `enqueue()`; `Take`, `Finish`, `WorkerEnds`
arq; a name sent meets the functions' names. **FanOut**: the birthday sweep, the
jobs it queues, `/birthday`, a broadcast and its deliveries, with worker kills
and reruns. **BirthdayCalendar**: the same day by day, with dates and the
forecast; a sweep leaves out groups with fun off and groups whose job cannot be queued,
and a collage that raises is over (`CollageFails`). **AnswerJobs**: seven kinds of jobs
that answer a command, as they would run if each were found (section 6); the admins a
call is for are any set, as `admins.py` may know an old list or none. **LlmRouter**: the budget check, the
refresh of the cached total (two queries), accounting, midnight, the rollup and
/leave. **Breaker**: the object all calls of a process share. **MediaStore**:
`put`'s five awaits, `forget`, the sweep's four, the backfill.

### Moving from v1

**Cutover** is the plan, its steps' prerequisites, statuses and exit code.
**Importer** copies collections batch by batch while v1 and v2 are written;
**BucketExport** is a run with its manifest, killed and resumed anywhere, and the
catalogs; **ExportAccount** the service account in a policy other teams edit, with
revocations run under the account's project or another (`elsewhere` records those that
were told of a missing account that is there);
**Migrations** the schema upgrade under its lock.

### Composites

Components that share no state are checked in two instances. In `MCServices` and
`MCTools` a behaviour is one `scene`: the component that runs, chosen at the
start. The pool `v1`, `v2`, ... stands for that component's variables, in the
order it declares them. Six modules (`SigningKeys`, `Paging`, `Breaker`,
`EventRecorder`, `Access`, `Members`) are extended, by `MCServices` and by
`ServicesProofs`, so that the run and the theorem name the same definitions; their common names therefore carry
the module's (`AccessInit`, `MembersNext`). Each invariant of a composite is a conjunction of
implications from a scene, and says nothing across scenes: the union of the
components' own runs, no more. The other `MCx` modules give one component's
constants their structure and symmetry. `PROJECT.json` maps each definition to
its lines.

### Provisos

Several promises hold only while two handlers do not meet, and the code does
not prevent them from meeting. The models allow every meeting and record it in
a ghost; the property then speaks of everything the ghost does not name, in
all behaviours, including those in which *other* challenges, raffles or groups
met. The gap that the proviso leaves is listed in section 6.

## 4. The runs

| Run | Instance | Shows |
|---|---|---|
| `Sessions` | 3 tokens, 2 families, 2 requests | `OneLivePerFamily`, `SingleUse`, `RevokedNeverSpent`, `ImplementsChain` |
| `ReplayKillsFamily` | the same | refuted: a successor inserted after the kill lives |
| `CaptchaGate` | 1 newcomer, 2 challenges, 2 handlers, cap 2 | `RowsSound` (buttons while pending, attempts capped and the challenge's own), `OneVerdict`, `NoResurrection`; `PendingEnds`, `BanLifted` |
| `Giveaway` | 1 prompt, 2 raffles, 4 messages, 2 members, 2 presses | `ClosedForGood`, `RafflesSound` (one raffle per message, a message per live raffle, one giveaway per prompt), `EntriesSurvive` |
| `PublisherDelivery` | 2 rows of one group, for no day or two, under 2 ticks at once | `DaysBudget`, `RefusalIsFinal`; `Drains` |
| `ConfigCache` | a gateway, an API, 2 tasks, 1 write | `WriteIsSeen` (a change reaches every listener, `set_config` returns what it wrote); `Coherent` |
| `Ingest` | 2 replicas, 3 updates of one bot and 1 of another that shares an id, 4 deliveries, ring of 2 | `HandledOnce`, `NoLoss`, `RecordedWindow` |
| `LeaverIsMarked` | 1 member, 1 admin, 2 handlers on 2 replicas | refuted: a leave by oneself is unmarked again |
| `CommandKept` | a group's command, /transcribe or another, naming the bot or not | refuted: /transcribe@Bot goes to the assistant |
| `JobNames` | a job the worker knows and one it does not | refuted: a constant of `jobs.py` is no function's name |
| `Services` | 18 scenes, below | `Typed` and one invariant per kind of promise; `ClockKept` |
| `Tools` | 10 scenes, below | `ExportsHold`, `MovesHold`, `MediaHolds`, `ApprovalsHold`, `CampaignsHold`, `RollupsHold`; `ExportIsKept` |

The scenes of `Services` and what holds in them:

| Scene | Instance | Holds |
|---|---|---|
| `keys` | 3 processes, 2 kids, 4 keys | `TokensVerify` |
| `breaker` | 3 calls, threshold 2, cooldown 2, 5 ticks | `Earned`: open only after the threshold's failures with no success between |
| `recorder` | batches of 2, 4 events, 2 flushes, the timer's, the last | `EventsAddUp` |
| `paging` | 5 ids, pages of 2 | `WalkComplete` |
| `admins` | 2 callers on 2 replicas, TTLs of 1, 1 change, 3 ticks | `DemotionBites`: a demotion counts within both expiries and one call |
| `members` | 1 user, 1 admin, 2 replicas, 3 updates, 1 tick (the window) | `OnlyNewcomersRestricted`; `ClockStands` |
| `fanout`, `sweep` | 2 groups, 2 workers, 1 kill | `PostedOnce` but for kills, `NobodyForgotten` but for what the log names |
| `calendar` | births on 29 February and 1 January; 3 nights over the end of a year and of two Februaries | `NobodyMissed`, `OnTheDay` |
| `queue` | 2 calls, a job known or unknown, 1 at a time, 2 tries, 2 kills | every open pool and every run accounted for |
| `answers` | 2 jobs of any of 7 kinds, 1 permit, 1 kill | `ShownOnce`, `NobodyIgnored`, `BoundKept`, `FacesAsked` |
| `llm` | 1 call and the refresher, cap 1, months of 2 days | `NeverOverstated`, `NothingUncounted` |
| `console` | 1 person, 2 requests, 2 writes | `TrailIsEvidence` |
| `settings` | a tenant with or without defaults, numbers at the edges, 2 writes | `OnlyNamedMoves`, `BoundsKept`, `ReadersAgree`, `NoSentinel` |
| `cooldowns` | limit 1, window 2, 2 keys, 5 calls in 4 ticks | `LimitsHold`, against the history of calls |
| `access` | a user and the configured owner, 1 group and an unknown one, 2 changes, 3 ticks | `StrangersLearnNothing`, `FleetServesOwners`, `ScopeIsEarned`, `LegacyOnlyReads`, `OwnerGetsIn` |
| `dispatch` | each command in its shapes, texts, media, joins, presses; 1 change of the configuration | `DispatchHolds`: off is off, admins only, one fate, answered once, an honest trace, and four more |
| `life` | 2 bots, 2 handlers, 3 events, each service | `NeedsMet`, `StoppedClean`, `ServedWhole` |

The scenes of `Tools`:

| Scene | Instance | Holds |
|---|---|---|
| `account` | 2 operators, 2 accounts, another team, 1 edit by hand | `NothingDropped`, `ReadyIsUsable`, `RevokedIsGone` |
| `bucket` | 2 prefixes, 2 paths, 3 contents of 2 sizes, 1 edit by v1 | `NothingPromisedIsMissing`, `ExitZeroIsExported`; `KeptOrTried` |
| `import` | 2 groups, 3 collections, batches of 1, 1 edit, 2 runs | `ReportedIsThere`, `V2OwnedSurvives`, `StubsSuffice` |
| `schema` | an old process, 2 new ones, a job by hand | `ServesAtHead`, `OneLockedUpgrade` |
| `cutover` | 7 environments, 3 selections, 2 runs | `ExitZeroMeansMoved` |
| `media`, `pool` | a clip in 2 groups with the backfill; 2 gateways, a clip and a picture, sweeps | `RowServed`, `Accounted` |
| `approvals`, `reruns` | 2 channels by /publish, cap 1; 2 jobs at once, or one that dies and runs again | `CapRespected`, `RerunFindsPost`, `CampaignsSound` |
| `rollups` | 2 groups, 1 member, 2 commands, 2 events, 2 nights, limits of 1 and 2 | `NotAhead`, `NightCounts`, `CommandsFollow`, `ScreensAgree` |

Why the bounds are enough for the cases the properties are about:

* *Sessions*: a race needs two requests; a replay after a rotation needs two
  tokens in a family, a replay of a rotated token that is itself rotated three;
  the second family shows that a kill stays in its family.
* *CaptchaGate*: two challenges of one user are what a rejoin makes; two
  handlers race; a cap of two has a last attempt and one before it.
  `MaxAnswers` bounds how many updates are judged.
* *Giveaway*: a repoint moves a raffle over a message the other raffle could
  have; four messages are a prompt, two announcements and a follow-up.
* *Publisher*: with a cap of 1 every approval of the second channel trims the
  first's row; two days have a day that is counted down and the last one, which
  deletes, and a row for none (/repost 0) has the last one alone; `MaxRows` 2 is the
  campaign's row and a rerun's or /repost's. Two ticks are one that is late and the
  next. Two rows never exceed `TickLimit` (the query's 500), so a tick that reads only
  some of the due rows is left to the proof. `MaxReposts`, `MaxRows` and
  `MaxSubmitted` end a behaviour's growth, nothing else.
* *SigningKeys*: two processes race while a third has moved to the next kid.
* *ConfigCache*: one listener and one process that is not; a reader and a writer
  in the same process or not. `MaxWrites` 1: a copy is old or current.
* *Ingest*: three ids overflow a ring of two and wrap its head, and the fourth
  delivery is of an id the ring has forgotten, of the other bot's update with a known
  id, or a redelivery elsewhere.
* *Statistics*: a limit of 1 cuts a board of two groups and a list of two commands, one
  of 2 cuts neither. `ScreensAgree` is looked at between the nights and with nothing
  buffered: screens read the rollups alone, so the states left out show nothing else.
* *Members, AdminList, MediaStore, LlmRouter*: each hazard is between two actors
  with copies (two replicas, a refresh and a call, a put and a sweep), so two
  suffice; clocks run just past the sum of the lifetimes at stake, months and
  windows are the two days or ticks that have an edge between them.
* *FanOut, JobQueue, AnswerJobs*: one kill more than a job's tries allow, or two
  workers with one; the second group shows that one's trouble is not another's.
* *Console, GroupSettings, Importer, BucketExport, Cutover*: two writes or runs,
  because a promise is broken by the second; values at both ends of a form's
  bounds and one past each; contents that a listing by size tells apart and
  contents it does not.
* *Dispatch*: one update and at most one change of the group's configuration on
  its way, with each setting on and off. Updates are the combinations that some
  filter tells apart; a shape no filter looks at is left out.

`SYMMETRY` is used only where no liveness property is checked and where the
module orders no member of the set. Runs set `CHECK_DEADLOCK FALSE` because the
bounded counters bring every instance to a stop, and in `Cutover`, `Dispatch`,
`AnswerJobs` and `Lifecycle` because a command, an update, a job or a process has
an end.

### Fairness

* `CaptchaGate`: every handler that can go on does (the event loop runs what it
  holds; a handler may still `Abort`), sleepers wake, the clock passes
  `expires_at`, the cron sweeps. Nobody has to answer, leave or press.
* `Publisher`: jobs and ticks are not required to succeed; each tick that can go on
  does, or dies. The strong fairness is on reaching a row (`Reach`): a tick may die
  anywhere, but not every tick for ever before the same row, as the cron fires every
  five minutes and takes the due rows in order. Days come (`ComeDue`). No forward has to
  succeed.
* `ConfigCache`: each await ends in an answer or an exception, a live
  subscription is pumped, the TTLs run out. `Publish` may still be lost, and
  pumps die.

Everything else is checked for safety only.

## 5. The proofs

TLC checks small instances; the theorems below hold for every value of the
constants that their assumptions allow. Each invariant was checked by TLC before
it was proved. Where a property is not inductive, the proof strengthens it, and
the strengthening is the argument why the code is right. In one sentence each:

| Module | Theorem | States |
|---|---|---|
| `SessionsProofs` | `OneLive`, `RedeemedOnce`, `RevokedStaysUnspent`, `Refinement` | all properties of run `Sessions` |
| | `TypeCorrect`, `EndedStaysEnded` | types; an ended family stays ended |
| `CaptchaGateProofs` | `Rows`, `Verdicts`, `GoneForGood` | `RowsSound`, `OneVerdict`, `NoResurrection` |
| `GiveawayProofs` | `ClosedStaysClosed`, `Raffles1to1`, `PoolKept` | all properties of run `Giveaway` |
| `PublisherProofs` | `OneCampaignEach`, `BudgetKept`, `RefusedForGood`, `RerunsFindPosts`, `CapKept` | `CampaignsSound`, `DaysBudget`, `RefusalIsFinal`, `RerunFindsPost`, `CapRespected` |
| `ConfigCacheProofs` | `WritesAreSeen` | `WriteIsSeen` |
| `IngestProofs` | `RunOnce`, `NothingLost`, `RingIsWindow` | all properties of run `Ingest` |
| | `UpdatesHaveOneFate` | `DispatchHolds` |
| `ServicesProofs` | `EveryTokenVerifies`, `BreakerEarned`, `WalkSound`, `NothingVanishes`, `NobodyOverreaches`, `OnlyNewcomersSuffer`, `DatesStand` | `TokensVerify`, `Earned`, `WalkComplete`, `EventsAddUp`, `AccessHolds`, `OnlyNewcomersRestricted`, `ClockKept` |
| | `BudgetIsTrue` | `NeverOverstated` and `NothingUncounted` |
| | `NobodyForgotten` | `CalendarHolds` |
| | `RollupsCount`, `ScreensDrawAlike` | `NotAhead`, `NightCounts` and `CommandsFollow`; `ScreensAgree` |
| | `LimitsStand` | `LimitsHold` |
| | `KeyTypes`, `OneKey`, `KeyStays`, `BreakerTyped`, `BreakerNotAhead` | types; one key per kid, never replaced; no cooldown longer than configured |
| `ComponentProofs` | `DemotionsBite`, `PostsAreCounted`, `NoGroupForgotten`, `SchemaConverges`, `QueueAccounts` | `DemotionBites`, `PostedOnce`, `NobodyForgotten`, `ServesAtHead` and `OneLockedUpgrade`, `QueueHolds` |
| | `LivesWhole`, `TrailQuotesTruth` | `LifecycleHolds`, `TrailIsEvidence` |
| | `SuccessMeansMoved`, `AccountsAreSafe` | `ExitZeroMeansMoved`; `NothingDropped`, `ReadyIsUsable` and `RevokedIsGone` |
| | `ExportsSound`, `ExportsKept` | `NothingPromisedIsMissing` and `ExitZeroIsExported`; `ExportIsKept` |
| | `RowsServed` | `RowServed` and `Accounted` |
| | `ImportsKeepTheirWord` | `ReportedIsThere`, `V2OwnedSurvives` and `StubsSuffice` |
| | `SettingsAgree` | `SettingsHold` |
| | `CommandsAnswered` | `JobsHold` |

`ComponentProofs`, `ServicesProofs` for its last five theorems and `IngestProofs` for
its last instantiate their modules, as the composites do, so their theorems are about
the same definitions for every value of the constants, but a composite names them only
inside a larger invariant.

**Sessions.** That no family has two spendable tokens depends on who is about to
insert one. `Inv` adds `MarksHaveRows`, `HeldIssued` (marks and held tokens are of
rows that exist), `RenewalIsSpent` (a request about to insert holds a token that
is spent and has no successor), `ParentIsSpent`, and `OneRenewalPerFamily` with
`RenewalExcludesLive` (one such request per family, and no spendable token of it
meanwhile). The conditional UPDATE carries it: `MarkUsed` requires the row to be
unused *and* unrevoked at that moment, so the request becomes the family's only
renewal in the step in which its only spendable token ceases to be one.

**Captcha.** A handler acts on a copy of a row, so what holds of rows depends on
what every copy says. `MeetingsRaced` puts the challenges of two handlers of one
user into `raced`; `RowReplaced` follows, that a row which took the place of the
one a handler knows is raced for; then `CountsAgree` and `NoVerdictYet` can say of
every row and every copy that was not raced that it counts exactly its own wrong
answers, and has had no verdict while one is on its way. `TasksSound` says from
which steps on the row a copy was made of is gone.

**Giveaway.** `NewMessages`: a message that was sent and has no row yet is its
sender's alone, and only somebody who raced the sender can press it.
`PressedMessages`: the message a press is on is its own raffle's or nobody's; so
what `Clean` deletes is no live raffle's. `PromptsOnce`: the prize of a prompt that
was not raced for is counted once, by whoever holds it.

**Publisher.** For any number of ticks at once: `RowsPaid` and `TickPaid` say that a
row's days, the forwards made of it and those that ticks may be about to make are
together no more than its `Allowance`, what was granted and what was spent twice. The
day is spent before the send, so a tick that dies loses a forward and never repeats
one; a tick that owes a row another tick owes, or that is no longer due, has spent the
day again. `SnapSound` extends this to the rows a tick has read and not yet come to,
which is where /repost, cancellations, trims and other ticks change rows under it, and
`RefusedGone` says of those that were refused who may still hold a copy.
`CampaignsApart`: a job between deleting a group's old campaign and inserting
its own finds none there, unless another fills that group. `Headroom`, for the cap:
of a job that is alone in a group, the rows it counted and the one to come are no
more than the cap, the /reposts made meanwhile and what it is about to trim;
`LeastDropped` says that the trim then removes as many as it was to.

**Configuration.** As long as nothing failed and no change met another task
(`calm`), `AllFresh`: a change runs alone, nobody holds an old copy to put into a
cache, and an old copy is in L2 only while the change that clears it, in L1 only
while its message, is on the way. `Counted` bounds the messages by the writes, a
cardinality of tasks, which is why `TasksAreFinite` is assumed.

**Ingest.** `Once`: at most one delivery of an update stands before its handlers,
and from the claim on until Telegram is done with the update, the claim is held.
The rings play no part in it. `Known`, for `NothingLost`: behind a claim there is
a handler that ran or is about to; behind a repeat being answered or a 200, at least a
delivery in hand, or another update of that id; or a replica died with it. It needs no
assumption on ids: `RingsMet` says that a ring knows the ids of updates it has let past
and no others, so an id it knows and whose update it never met is another bot's.
`Window`, for `RingIsWindow`: the places hold the ids recorded last in order,
oldest at the head once the ring is full, no two alike; the lemma `WindowMoves` is
the correctness of `RecentIds.seen`.

**Dispatch.** `Does` and `Delegates` are tables of which handler does what, `Fits` what
every outcome of every handler respects (`EverybodyFits`): a handler that passes an
update on has at most noted the sender, a join, a picture or a streak, and has said
nothing unless it answers stickers. `OnWay` adds how far an update must have come, and
what it must be, for each of these to have happened; so whoever keeps it finds the
little that its property allows (`CommandsBring`, `SaidBefore`), and `RestrictedFirst`
that before the restriction nobody but the register takes what it removes.

**Keys.** What a process holds after its re-read (`WarmIsStored`) and what a token
was signed with are the key stored under that kid. It rests on the guard of
`Retire`: an operator deletes a kid's row only when no process is configured with
it, and its tokens with it.

**Breaker, Paging, EventRecorder.** The count of failures never exceeds those since
the last success, half-open included, and the time the breaker is open from is
not in the future, though calls report the time they began. What lies behind the
cursor and was there all along has been shown, nothing that lies before it has. A
recorded event is in one of five places.

**LlmRouter.** `Peak`: the books of a group and day come to the greater of its live
rows and its rollup, because /leave takes the live rows and a late night's pass does
not lower a rollup; `DaysPaid`: over all groups that is no more than was spent that
day, which is what bounds every partial sum a reader holds (`SumPaid`), whatever
happens between its two queries. `Closed`: no live row of a closed day exceeds its
rollup any more. That a sum over a set exists and is the same in every order, and is
monotone, are lemmas of their own, by induction over subsets.

**BirthdayCalendar.** `CalInv`: once the sweep is over, each group has a collage
waiting or everyone it awaits has been greeted, or it is excused, because its query or
its post failed or the sweep left it out; and so they have where today is pinned; no
pin is of a later day. Dates are ordered by `Stamp`, and `DaysGoOn`
says that the next day comes after, over the end of any month or year, so that a pin
made on an earlier day is never taken for today's.

**Statistics.** `Drawn`: the row of a group and a day is the tally of some set of its
events, its commands by name those of the same and perhaps later ones. `Must`: what
a finished night owes, and what the night at its second day found of the first, is
among them. The two statements of a rollup see different events, which is why
there are two sets; the night's later pass replaces both.

The screens (`ScreensDrawAlike`) need of that only that the rows hold naturals
(`RowsAreTyped`): the operator's totals add the cells of a window by day and the
groups' own by group, and sums by part come to the same, whatever the parts
(`TotalsByPart`, by induction over the subsets of a finite set). `FleetSum` is that for
a column, `CommandSum` for the invocations of a command, `FleetIsBusier` for the peak.
That is `WindowAgrees`, of rows nobody has cut; `CutOff` says what a limit leaves out of
any screen, rows nowhere busier than those it shows, and `BoardIsCut` and `NamesAreCut`
draw from it how far a leaderboard and a list of commands may fall short of the totals.

**Cooldowns.** `LimInv` tells what a limiter has in memory by the calls it has
answered. A bucket's level, and what it granted since any time, are together no more
than its capacity and the inflow since then; the ledger has at least the grants of
the day; the key in Valkey was set by a call that passed, and since then, as in
the last window before it, no more than the limit did; the stamps are the times of
the last calls, and every call before them is too old, or the cap is reached.

**Access.** `OwnersAreKnown`: what a process has cached of the tenant are owners
since the process started, and owners or former ones. `Sound(t)` of every token
and session: an admin scope is a present or former owner's or `CB_OWNER_ID`'s, who
has it always.

**Members.** `DatesWitnessed`: a date in the register is one at which an arrival
was handled, and `TasksFit` that only a join's handler gets to where one is
written; memos are not needed, they only leave writes out.

**AdminList.** `EntryDated` and `CallDated` bound the age of a list by where it is:
an answer being resolved by when its call began, an entry of L2 by its expiry, of
L1 by its own on top, since it may be a copy of an L2 entry about to expire. The
bound in `DemotionBites` is the sum of the three.

**FanOut.** What is still `Due` to a group is counted by the queue's jobs and the
workers at one; a step moves the count from one to another, posts it or excuses it,
and only a kill adds to it (`KeptFor`). Both properties read it off.

**Migrations.** Whose upgrade has not gone `astray` holds the lock while it runs;
revisions only grow.

**JobQueue.** `PoolsInv`: while a call still opens a pool, one that is there
already met it, and is recorded as such. `Fare`: what a job's fate says about its
runs, ends and tries.

**Lifecycle.** `OpenInv`: what is open is exactly what the plan in force has started
and not stopped. `PlanSound` says once, of the code's two plans, that everything
stands before what works with it and is stopped after it.

**Console.** `GrownTo`: the history of a group's settings only grows, so what a
request has read, what it wrote and what was quoted of it stays where it was found.
A first read that failed, or a second that did not see the request's own write, puts its
side into `doubt`, and nothing is said of that side.

**Cutover.** `ReportSound`: a step that reported success had its part moved, or had
none to move, at that moment, and nothing moved is taken back. The order of the
plan is not needed; each step looks for itself.

**ExportAccount.** An etag stands for one policy (`CommandsSound`), so a write that
is not refused replaces the policy that was read. `Exclusive`: no account is provisioned
and revoked at once, which is what keeps `ReadySound` and `RevokedSound`. What the
operator was told of an account that is gone holds but for those that were looked for
under another project (`elsewhere`).

**BucketExport.** `LineSound`: a line that says "landed" is about an object that is
there at the size it names. `ExportSound`: a run has left a line for every blob it is
done with, and the others are on its list at v1's size, or v1 wrote them meanwhile.

**MediaStore.** `PutSound`: a put that has seen or written its bytes finds them there
until it returns; `SweepSound`: what a sweep holds is referenced by nobody, and what it
deleted has not come back. Each speaks of hashes outside `raced`; the steps that break
them are exactly those that record a hash there.

**Importer.** `PendingTrue`: what was read and is not written yet is what v1 still says,
of every cell that nobody touched since; so a batch never puts an old value over what
an earlier run settled. `CurrentComing` and `DoneBrought` follow the current collection
and those before it. `StubsSuffice` rests on the order of the tables: between two
batches of one table it stays the first with rows left (`FirstStays`). That there is a
first of a sequence at all is `LeastOf`, by the well-foundedness of the naturals.

**GroupSettings.** `Good`: a value is one that the form sends back, both renderings
agree on and no sentinel, unless it is of a column named in `free`. Every default is
(`DefaultsAreGood`), every value the form lets through is, and `ChangeIsNamed` says of
all writes at once what moves beside the columns they name.

**AnswerJobs.** `ShownFits`: whoever a run has still to show something (`Spared`) has
seen nothing that no kill or unsure send accounts for, the others at most one answer.
`AdminsCalled`: those tried are of the list that the call was given, which may be old or
empty, and at its end they are all of it. `OrderSound`: the
order in which faces are asked for, a fold over the names and the roster, has each
person once and the named first; it is told of every beginning of the fold by counting
up (`OrderUpTo`), once there is such a fold at all (`AsksExists`). `AskedOne`: a run
goes down the rest of that order, and nobody in it has a face yet.

### Assumptions

Each is a named `ASSUME` that TLC evaluates in a run, or a hypothesis of the
theorem that the composite's `ASSUME` evaluates. They are that a sentinel is none of
the values it stands beside (`NoPemIsNone`, `NothingIsNothing`, ...), that counts and
lifetimes are naturals, and:

* `AccessAssumption`: `admin:read` is among the admin scopes and not among
  everybody's, as in `settings.py:264-273`, and access tokens live for a while;
* `BoundsAreCounts`, `IngestAssumptions`, `QueueAssumption`: the cap on attempts, the
  ring, the tries and the worker's places are not zero;
* `Kept` of `DemotionsBite`: the first-level cache keeps an entry at all
  (`settings.py:59`);
* `TasksAreFinite`, `TicksAreFinite`, `IsFiniteSet(Workers)`, `JobsAssumption`: what a
  count counts is finite, a tick's query takes some row (`TickLimit`), and the names and the roster of a meme are sequences;
* `SubmissionsAreRecords`, `ChannelsAreNoGroups`, `MigrationAssumption`,
  `FanOutAssumption`, `LifecycleAssumption`, `ConsoleAssumption`, `CutoverAssumption`,
  `BucketAssumption`, `MediaAssumption`, `ImportAssumption`: the shape of the data;
  `MediaAssumption` adds that a sweep's LIMIT is not zero, `ImportAssumption` that no
  table is written by two mappers (`mappers.py:400`);
* `LlmAssumption`: the refresher is no call, and the groups to sum over are finitely
  many; `CalendarAssumption`: birthdays are a month and a day, and a behaviour starts on
  a day that exists; `StatisticsAssumption`: exactly commands have a command's name,
  `/analysis` looks at a day at least, the groups to sum over are finitely many, and a
  rate that is not defined is no pair of counts; `CooldownAssumption`: a limit and a window
  are not zero;
* `DispatchAssumption`: a command's name comes with a text of the kind "command", and
  a text with a body that is one, since `parse_command` is given `message.text` and never
  a caption (`middlewares.py`);
* `SettingsAssumption`: the deployment's default language is no alias of "pt".
  `settings.py` takes any word there; with "pt-br" the bot would speak Portuguese to a
  new group and the fan-out post it the English rendering.

None bounds how many processes, users, messages, crashes or retries there are.

### What stays with TLC

* Liveness (`PendingEnds`, `BanLifted`, `Drains`, `Coherent`): the provers have no
  rule for fairness and `ENABLED`.
* `Typed`, and the `TypeOK` conjuncts of `ExportsHold`, `MovesHold`, `MediaHolds` and
  `RollupsHold`, which a proof replaces by the types it needs (`AnswerTyped`,
  `RowsTyped`, ...).

Every other invariant of the passing runs is proved of its component, as the table
says. The composites' own invariants (`WorkersHold`, `ConsoleHolds`, those of `Tools`,
...) are those of their components, one for each scene.

## 6. Where the code departs from its words

Shown by a run:

* `ReplayKillsFamily`: `sessions.py:13` says a replay kills the family; a
  refresh between its two statements still inserts a live successor.
* `LeaverIsMarked`: `handlers/members.py:13` has a left_chat_member stamp
  `left_at`; the same handler then upserts the sender (`:69`), who is the leaver
  when they left by themselves, and that clears it.
* `CommandKept`: `handlers/__init__.py:199-202` says of the transcribe router that its
  order relative to the assistant and the command triggers is irrelevant; the assistant,
  which comes first, takes /transcribe@Bot for a message to itself.
* `JobNames`: `jobs.py:7-10` says the constants keep the name enqueued and the
  name registered together; arq registers the functions of
  `cb-worker/.../main.py:214` under their own names, and no function is called
  `youtube_search`, `reverse_search`, `birthday_collage` or `broadcast_deliver`.
  So /youtube, /searchsource, birthday collages and broadcast deliveries are
  taken off the queue and failed unrun. `FanOut`, `BirthdayCalendar` and
  `AnswerJobs` tell what those jobs do when found.

Seen while modelling, and visible in a proviso, a ghost or a choice of a module:

*Sessions and access*
* a logout during a refresh revokes the spent token; the successor lives
  (`routers/oauth.py:394`);
* a demoted owner's session keeps its admin scope through every refresh
  (`routers/oauth.py:323-359`), which the words of `settings.py:271-272` and
  `oauth.py:312-314` exclude; what stops them is the owner check of each route,
  on a copy of the tenant that a process keeps until its restart:
  `TenantRegistry.invalidate` has no caller, `_CACHE_TTL` no reader
  (`tenancy.py:79-83`), and a lookup that failed once is kept as well.

*Captcha and giveaways*
* `moderation.mdx:19` says the member is removed when the timer runs out; the
  cron deletes the row and removes nobody (`cb-worker/.../main.py:155`);
* two wrong answers handled at once count once (`groupguardian.py:447`); one
  that belongs to an earlier challenge can be counted against a fresh one
  (`:454`); a right answer after the timeout and before the sweep is accepted
  (`:406`); an unban that sleeps when its process ends is lost (`:509`, admitted
  in the comment above it), and a ban that Telegram applied before its answer was lost
  is taken for refused, and nobody lifts it (`:468-479`), although a failed captcha
  means no lasting ban (`moderation.mdx:20-21`);
* two presses of a prompt can make two raffles (`pending_giveaways.py:72`); two
  draws of one raffle can leave it attached to a deleted message
  (`giveaway.py:427`).

*Publisher*
* ticks that overlap read the same due rows, without a lock (`cb-worker/.../main.py:251-256`,
  `jobs/publisher.py:541`): each forwards the row and spends a day of it, so that a campaign
  goes out twice in a day and may do so more often than it was granted;
* a row is deleted when its group's `publisher_post` "is off"
  (`src/.specs/features/util_postforwarder/design.md:220-221`); the defaults that a failed read answers have it off
  (`group_config.py:234`, `jobs/publisher.py:548`), so a database error deletes
  rows of a group that never opted out;
* two approve jobs of one channel can leave two rows (`jobs/publisher.py:319`);
  /repost does not trim (`handlers/publisher.py:442`); a row cancelled while a
  tick holds it is forwarded once more (`:541`); a failed forward waits for the
  next day rather than the next tick (`:545`, against `:55`); a Telegram 5xx is
  not retried by arq, whatever the comment says; rows of two channels with one
  title replace each other.

*Configuration and its trail*
* the handler of a reply to the menu's prompt writes without asking whether the sender is
  an admin (`config_menu.py:551-567`), whom only the prompt's addressee was; /newrules
  quotes "None" as the old rules when it could not read them (`rules.py:168-170`);
* a read that overlaps a write puts the old configuration back until the TTL
  (`group_config.py:237`); the worker and the API do not subscribe (`main.py:67`
  is the only caller); a change compared with such a stale read can be taken for
  none and leave no audit row (`config_menu.py:423`), against "every write
  leaves a row" (`routers/groups.py:22`);
* the first write of a group without a row replaces the tenant's defaults and
  the deployment's language by the columns' own, although "absent fields are left
  alone" (`routers/groups.py:355-357`); the menu accepts numbers the API's bounds
  refuse; `thread_posts` can be set but never unset; the fan-out's query ignores
  a tenant's defaults and takes only "pt" for Portuguese; the table of defaults
  in `src/docs/contracts/group-config.md` is older than the migration.

*Ingestion and commands*
* the ring's key lacks the skin that the claim's key has: with two bots whose
  counters meet, the second one's update is dropped as a repeat
  (`middlewares.py:139`, `:158`; `mistaken` in `NoLoss`);
* the ring is by first sight, not least recently used (`dedupe.py:41`, against
  `:6`); a duplicate answered with 200 while the first delivery is still before
  its handlers is not redelivered if that replica then dies;
* a command typed as a reply to the configuration's prompt is taken as the
  value; a disabled /everyone still runs by its text trigger, and the buttons of
  a disabled command stay live; of several joiners one is handled; "²" passes
  `isnumeric` and raises in `int`; a relay that failed says "sent"; an image
  search refused by the user's quota is charged to the chat's day;
* the lifespan's `finally` is one block, so an unsubscribe that fails skips the
  recorder's last flush and the pools (`main.py:89-97`); events of handlers that
  outlive the ingest are lost; aiogram polls one skin at a time, against "one
  long-poll task per skin" (`ingest.py:77`).

*Workers*
* `enqueue()` may return False for a job the broker has (`queue.py:47`); two
  first calls leak a pool, and one that meets `close()` opens one nobody closes;
* a killed sweep starts again and repeats the posts it had queued
  (`jobs/birthday.py:95` speaks only of groups that are lost); a collage
  deferred past midnight misses its day; a birthday on 29 February is not
  celebrated in other years; a failed read of birthdays reads as nobody's;
* a call for the admins whose list could not be read, or is old, ends well having told
  nobody, or only those on the old list (`admins.py:245-258`, `calladms.py:134-151`);
* a collage whose post raises is not tried again (`birthday.py:244`);
* an image search whose send raised after delivery sends a second picture; a
  timeout gives the semaphore back while its thread carves on.

*Registries, media, spend, events*
* "a refresh from any replica fixes every replica" (`admins.py:8-9`) holds only
  after the first-level expiry; another replica's memo keeps a rejoin unwritten;
* `backfill_pointer` "never raises", but its `put` can; a blob that cannot be
  deleted keeps the sweep's batch before it for ever; bytes put while a sweep
  holds them lose their object (`media.py:267`); a put that ended between its
  two writes leaves an object nobody collects;
* /leave erases a group's usage from the month's total; an older refresh may
  overwrite a newer one; a total of last month counts until it is stale
  (`budget.py:92`); a half-open breaker lets every caller through
  (`breaker.py:36`);
* `stop()` cancels a flush that holds its batch (`events.py:70`), against "one
  flush interval"; no code writes an event's tokens or cost, so that the
  overview's `spent_usd` is always 0 (`routers/admin.py:135-148`; what is spent is
  in `llm_daily_cost`); a missed night leaves a day with its first minutes.

*Migrations and the move from v1*
* an upgrade's thread outlives a lost lock, and a migration run by hand takes
  none: two upgrades can run at once (`OneUpgrade`, stated and not claimed);
* a dry run of the random-media step fails without Postgres, against its
  docstring (`backfill/random_media.py:139` before `:145`); steps after a failed
  preflight still run; the storage check leaves the random step out;
* a second import reverts columns that came from v1 and were edited in v2, and
  recreates the rows of a group that left; what v1 deleted stays;
* the bucket export does not see a change that keeps the size; a prefix that
  cannot be listed does not fail the run (`ExitZeroIsComplete`, stated and not
  claimed); a manifest line torn by a kill stops later runs until repaired; the
  cutover's preflight checks one store's address and the step writes another's;
* a revocation run under another project finds no account there, says "already gone" and
  exits 0 (`gcp_auth.py:786-790`, `gcp_auth_cli.py:505-514`);
* a service account whose creation was answered by a lost reply, or whose key
  failed, is left without being named to the operator.

## 7. Not modelled

* Inside the modelled parts: wording, languages, captions, pages of menus,
  collages, prices and the publisher's eligibility rules (choices), the picture
  of a captcha, which entrant wins, numbers drawn at random; who may press a
  button beyond what the properties need.
* Postgres' statements and Valkey's commands are atomic. `/publish` reads the
  group's configuration through `ConfigCache`; in `Publisher` that read is
  current or fails.
* Telegram is external: it delivers until it has a 200, a ban ends by the unban
  call, messages can be deleted by anybody's handler. So are arq (takes a job by
  its name, reruns what a shutdown cut short), aiogram's polling, the object
  stores (a set of keys), LLM providers (an answer that costs one, or a failure),
  search engines, downloads, and Google's policies.
* Pixels, sound and text of the media jobs (`jobs/`, the Mojo kernels and their
  benchmarks), prompts and providers' wire formats, price conversion.
* Signatures of tokens and of Telegram's login data; health endpoints; settings,
  locales, telemetry, metrics and error reporting: configuration read at start,
  constant tables and observability.
* The scripts and QA harnesses under `src/scripts`: they drive a deployment and
  keep no state another component reads.
* Across the scenes of a composite, nothing interacts; where two of those
  components do share rows, the module that reads them takes any value the other
  can leave.

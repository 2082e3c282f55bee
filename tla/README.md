# Verification of the pironman control plane

TLA+ modules for the parts of pironman (a single-host PaaS on a Raspberry Pi:
FastAPI control plane, Coolify, Traefik, Sablier, PostgreSQL) whose correctness
depends on order, failure or time. Paths are relative to `src/`.

## 1. Inventory

The control plane (`app/`) is one asyncio process. Requests and three background
loops interleave at every `await`; docker, Coolify, PostgreSQL, GitHub and
Telegram are called from all of them. Beside it run two scripts from the host's
crontab (`paas-watchdog`, `paas-cron-dispatch`), the command `pdb`, which the control
plane runs on the host, and two more services (`rag/`, `web/`).

| part | code | state it keeps | operations | what is hard | what makes it correct |
|---|---|---|---|---|---|
| deploy path | `app/autoupdate.py`, `app/routers/refresh.py`, `update_code` in `app/routers/apps.py`, `app/deploys.py` | `apps.image`, `watch_tag`, `deployed_digest`, `deploys` rows; Coolify's configured tag and job; the containers | refresh, code update, hourly sweep, verification, settle | Coolify drops and rolls back silently; three deployers of one app; a push at any moment; a restart in the middle | success is only recorded for the build that was asked for; the digest never runs ahead; every request is answered; a failed deploy heals |
| locks and pool | `app/locks.py`, `app/db.py`, `app/events.py` | per-app locks, `ROUTING_LOCK`, five connections | every handler that nests them | nothing has a timeout; connections are taken inside locks and locks inside connections | no circular wait; every call ends |
| alerts | `app/alerts.py`, `app/probe.py`, `app/notify.py` | `alert_state` | a check every 150 s | latches read at the start and written at the end of a check that is minutes long, days that change, docker that does not answer | alarms debounced, edge-triggered, none lost; the proxy healed, not in a loop |
| routing and labels | `app/routing.py`, `app/sablier.py` | Coolify's labels, `sablier_enrolled` | sync of the static host's routers, backend labels, enrolment, reconcile | read-modify-write of labels over HTTP; two deploys that must be ordered | no hostname dark, no lost label, enrolment repaired |
| app life | `app/routers/apps.py`, `app/provision.py`, `pdb` | `apps`, keys, jobs, databases and their logins, Coolify applications | create (with a staging sister), delete, attach and detach a database, first deploy, new key | partial failure between four systems and no transaction; two requests on one id | an app that was answered keeps what it has; one that failed leaves nothing; no row names a database that is gone |
| frontend bundles, static host | `app/frontends.py`, `app/routers/frontend.py`, `web/` | bundle directories and the manifest in them, on a volume two processes share | upload, settings, the sweep's rewrite; serving, waking, retrying | directories renamed and files rewritten under a running server; a request sent again | a request sees one whole bundle; no bundle is lost; a write is carried out once; the manifest settles |
| environment | `app/envs.py`, `app/routers/env.py` | `shared_env`, `app_env`, Coolify's variables | set, delete, push to every app | partial push, stale row | what Coolify has is what the rows say |
| domains, redirects | `app/routers/domains.py`, `app/routers/redirects.py` | `apps.custom_domains`, `apps.redirects` | add, remove, set | check, then write | one owner per hostname |
| loops and heartbeat | `app/main.py`, `app/heartbeat.py` | `task_heartbeat` | the three loops, their sleeps and beats | restarts that start every sleep anew; a good beat written over a failure | restarts starve no loop; a loop that stops is seen |
| host watchdog | `paas-watchdog` | a state file | look, start, tell, write | containers and flags that move under a run; dry runs, lost messages, a file that cannot be written | what lasts is told; no container is started over and over |
| cron dispatcher | `paas-cron-dispatch`, `app/cronmatch.py`, `app/routers/crons.py` | `crons` | a pass a minute | passes overlap; a job outlives its minute | a due job runs once |
| RAG service | `rag/` | documents, chunks, an in-memory queue | ingest, index, delete, search | restart with a full queue, delete while indexing | every accepted document ends ready or failed |
| analytics | `app/analytics.py` | rollups, the ingest cursor | ingest, read | lines that arrive late | a request counts once |
| statistics, queries | `app/stats.py`, `app/routers/{stats,host,query}.py`, `app/hostexec.py` | none | reads | none | -- |
| scaffolding, GitHub | `app/routers/{scaffold,ghsecrets}.py`, `app/github_api.py` | none here | text and API calls | none | -- |
| HTTP surface, configuration, clients | `app/auth.py`, `app/cors.py`, `app/cdn.py`, `app/config.py`, `app/cli.py`, `tools/`, `dashboard/` | none | plumbing | none | -- |

They meet in few places: refresh, code update and sweep all go through
`autoupdate` and `coolify.deploy`; a verified deploy may enrol the app
(`_maybe_enroll_sablier`), which goes through `routing` and redeploys both the
app and the static host; uploads, domains and redirects go through
`routing.sync_frontend_routes`; the alert loop reads what `analytics` wrote and
restarts the proxy everything is served through.

## 2. Plan

Modules in the order they are written. 1 to 8 are done.

1. `Deploy`: the deploy path of one app, with proofs (`DeployProofs`).
2. `LockOrder` (the abstract discipline) and `Locks`, every handler's path of locks
   and connections, shown to implement it, with proofs about both (`LocksProofs`).
3. `Alerts`: the alert loop, with proofs (`AlertsProofs`).
4. `Routing`: the order of the static host's routers and an app's labels, their
   read-modify-write, enrolment, reconcile, and the stop after a deploy, with
   proofs (`RoutingProofs`).
5. `Rag`: the queue, the worker and the reference counts, shown to implement
   `RagPromise` (a document is accepted, then ready or failed, and a deleted one
   stays deleted), with proofs (`RagProofs`).
6. `AppLife`: create, first deploy, attach, detach, keys and delete with partial
   failures, with proofs (`AppLifeProofs`).
7. `Site`: uploads and settings of a frontend against the static host's handling
   of a request, shown to implement `SitePromise` (a visitor is answered unless
   the backend keeps the request, and with a whole file of one bundle that was there
   meanwhile), with proofs (`SiteProofs`).
8. `Heartbeat`, the loops and their beats, and `Watchdog`, which extends it: the
   host's watchdog over those beats and the containers, with proofs
   (`WatchdogProofs`).
9. `Analytics`: the ingest cursor against lines that are written late and a restart
   between the rollups and the cursor.
10. `Cron`: the dispatcher's minute passes; `EnvPush`, `Domains`: rows against what
    was pushed, one owner per hostname.

Every invariant and every action property of modules 1 to 8 has a theorem, and so
do the refinements, but for what `SitePromise` says of liveness (section 4). Still to state, with the modules that are left:
that a request is counted once (`Analytics`), that a due job runs once (`Cron`),
that a hostname has one owner (`Domains`).

## 3. Modules

### Deploy (`MCDeploy`, `DeployProofs`)

One app, any number of refresh requests (`Refreshes`), code updates (`Updates`)
and sweeps (`Sweeps`), each a process whose `pc` names the point in the code it
is suspended at. An action is the code from one `await` on another system to the
next one.

| state | code |
|---|---|
| `pushed`, `registry`, `local` | builds pushed so far; the build behind a tag in the registry and on the box |
| `coolifyUuid`, `image`, `watchTag`, `deployedDigest`, `enrolled` | the app's row |
| `cfg`, `job`, `cur`, `cand` | Coolify's configured tag and its one job per app; the serving container and the new one beside it |
| `lock` | `app_lock(id)` |
| `ref`, `dig`, `tgt`, `snap...`, `tracks`, `applying`, `outcome` | local variables of the handler |
| `deploys` | the record a refresh answers with |
| `floor`, `seen`, `fact`, `writer` | history: what the registry held when a request was accepted; the image verification saw; who wrote the digest |

Abstractions. Images are numbered in the order they are pushed and the number is
both digest and image id. A start time is only ever compared with `before`, so a
container carries the set of processes that would call it new (`newTo`). Adjacent
docker inspects of one step are one. A name, a port or a log line is left out.
Creating the Coolify application succeeds or fails as a whole here, and
enrolment is its row and its deploy; their partial failures belong to `AppLife`
and `Routing`.

Runs.

* `deploy_requests` -- a refresh against a sweep; two pushes, a restart of the
  container, rollbacks and dropped deploys without limit, and one fault: a restart
  of the control plane, a statement that raises (`Raise`), a lost record, or a
  call that never returns (`Hang`). `SuccessIsLive`: a refresh recorded as succeeded saw the
  build that was behind the tag when it was accepted, or a newer one.
  `DigestNeverAhead`: the digest `check_and_update` writes is not newer than what
  verification found running.
* `deploy_answered` -- a refresh and a code update, and one fault.
  `RequestsDoNotOverlap` (the lock covers everything from `before` to the row's
  update) and `Answered`: a queued refresh gets its verdict, whichever of its
  steps fail, and the property names the ways out the code has. The write of the
  verdict is best-effort (`deploys.py:84-97`) and a restart takes the task, and
  either is read as "unknown"; and some calls have no time limit (docker login's
  `communicate`, `autoupdate.py:71-76`, `pool().acquire()` and the statements), so
  a task can hang in one, with the app's lock in its hand, and everybody who waits
  for that lock with it.
* `deploy_heals` -- the sweep alone, with enrolment, rollbacks, failed pulls,
  statements and inspects, idle stops and a restart: `Heals`, once pushes stop the
  serving container ends up on the newest build for good, unless the sweep itself
  is left hanging in a call without a time limit.

`DeploySweepReverts.cfg` reproduces what the code does not keep (section 5).

Bounds. Two pushes after the first build are what it takes for a row, a pull and
a target to disagree pairwise; one request and one sweep are already two
deployers, two requests is what the lock is for. Deadlock is not checked: an app
nobody deploys stops.

Fairness. `FairTasks`: the docker, Coolify and verification calls have time limits,
so a task that can take its next step does (WF); the calls that have none may end
in `Hang`, after which the task takes no step and nothing is fair to it; `asyncio.Lock` is FIFO, so a waiter that
finds it free again and again gets it (SF). `FairSweeps`, only for `Heals`: the
loop comes round, and no pull, `set_image`, deploy or healthcheck fails every
time. A request never depends on the second.

### LockOrder, Locks (`MCLocks`, `LocksProofs`)

`LockOrder` is the discipline by itself: coroutines that may ask for an app's
lock when they hold none, for `ROUTING_LOCK` when they hold neither it nor the
static host's lock, for the static host's lock under `ROUTING_LOCK`, for a
connection when they hold fewer than two, and for nothing at all under two
connections; they may give up what they hold in any order. `NeverStuck`: if
somebody is blocked, somebody who holds something is not.

`Locks` writes every handler as the set of its paths: the `async with` entries
and exits its conditions leave open. An exception or a cancellation leaves the
innermost block wherever it strikes and may be caught at any enclosing level (the
code catches at some of them). A loop over apps is one round for any app. Handlers
that hold one connection and nothing else are left out: they wait for nothing
while they hold it.

* `locks_order` -- all twelve handlers and loops, two at a time, over an app and
  the static host, with three connections. `KeepsOrder` is `LockOrder`'s
  specification, so the run shows that each handler keeps to the discipline: the
  mapping is the identity on `held`, `conns`, `want`. The discipline is a
  condition on one coroutine at a time, which is why two are enough.

`LocksPool.cfg` is the pool as `db.init_pool` makes it, with five connections and
five environment changes (section 5).

### Alerts (`AlertsProofs`)

`check_once` for one app and the proxy, from its queries (`Read`) through the
router table and the plugin (`Proxy`, `Heal`), docker (`Look`), the decisions
(`Check`), each message (`Send`) and the row (`Write`), to the global messages
and the proxy's row. `Abort` is an exception or a restart between any two.

| state | code |
|---|---|
| `row`, `proxy` | `alert_state` of the app and of `__traefik__` |
| `tick`, `mail`, `globalMail` | local variables of `check_once` |
| `sleeps`, `box`, `reach`, `routersOk`, `plugin`, `hour`, `errors` | `sleep_when_idle`, the container, whether a request to the public URL comes back, Traefik, the app's probe hour, today's 5xx |
| `told`, `absent`, `counted`, `reported`, `sinceHeal`, `since`, `torn`, `late` | history |

Abstractions. A date is whether it is still today's. The age of a heal is counted
in checks. Counters that are only compared with `DOWN_AFTER` stop there, and
`fail_count` and `alerted_down`, which are written and never looked at, are left
out. The two docker listings are one look. A message is told when `notify.send`
is called; the code latches whether or not Telegram took it. `torn` marks a check
that was cut between a message and its row: it may repeat or lose that message,
and the properties say so. `late` marks a check that midnight falls into: `err`
was read yesterday and is written with today's date, so yesterday's errors become
today's baseline, and `ReportedOnce` makes no claim then. `Varies` names what
changes outside in an instance, so that each run asks its own question.

* `alerts_edges` -- `MissingDebounced`, `OnlyEdges`, `ReportedOnce` with one
  exception or restart, one 5xx, routers that come and go, sleeping switched on
  and off, and docker and Traefik's API failing at will. A listing that fails
  looks like a container that is gone, which is how the container varies here.
* `alerts_told` -- a container, a public URL and the plugin that come and go, no
  failing calls: `MissingReported`, `UnreachableReported`, `PluginHeals`,
  `HealsSpaced`.

Bounds: `DOWN_AFTER` is the code's 2; the threshold is 1 and the cooldown 1 and 2
checks (12 in the code), which only changes how long the counters run. Fairness:
the loop goes on (WF), hours and midnights come (SF), and for `PluginHeals` a
readable plugin directory and a successful start come again (SF).

### Routing (`RoutingProofs`)

One app and the static host (`web`), the two containers a hostname may be
answered by. Handlers are the requests that change who answers: `on` and `off`
(`set_sleep`), `publish` and `clear` (a bundle or the redirects, ending in
`sync_frontend_routes`), `deploy` (a code deploy with `_maybe_enroll_sablier` and
`sleep_after_deploy`), and the hourly `loop` (sync, then `sablier.reconcile`).

| state | code |
|---|---|
| `row` | `frontend_mode` or redirects (`front`), `sleep_when_idle`, `sablier_enrolled` |
| `stored`, `job`, `carried`, `live` | Coolify's `custom_labels`, its job, the labels the job took along, the labels on the container |
| `gone`, `asleep`, `fresh` | docker: no container; stopped after a deploy; replaced since `verify_deploy` noted the start time |
| `asks` | `_confirm_labels_landed` tasks, by the labels they wait for |
| `pc`, `my` | where a handler is, its local variables |
| `routing`, `busy` | `ROUTING_LOCK`, `app_lock` of the app |

Abstractions. A label block is the set of the labels that decide routing: the
marker condition, the Sablier enrolment, the static host's router. Host lists,
custom domains, the domain map, the manifest and excluded apps are left out. The
static host's labels may read empty (`unread`: no container at that moment, or an
`inspect` that fails), which ends a sync early, and its caller goes on; the router
itself is not taken away by that. Sablier may stop an enrolled app at any
moment, so the properties read "enrolled" as "may be asleep". The confirmation's
window is taken to outlast a job, which it does several times over. The
environment change that deploys the static host for reasons of its own
(`ForeignDeploy`) is kept out of the section the static host's lock covers.

Runs.

* `routing_fronts` -- two requests, a restart or a lost container. `FrontedFirst`:
  the app's container never carries a marker or an enrolment that the static
  host's container does not already answer for.
* `routing_heals` -- any one request beside the loop, one fault of any kind at any
  point. `RoutesHeal`: routers, labels and row come to agree and stay so;
  `Quiet`: then nothing is deployed any more (a comparison that never settles
  would restart the app every hour).

`RoutingOff.cfg` reproduces an app that is stopped after it was switched off, and
`RoutingEnrols.cfg` one that reconcile enrols before its router is there (section 5).

Bounds. `LabelAttempts` is 2 (3 in the code), one fault. One request and the loop
are two writers; `routing_fronts` has two requests for the lock and no loop.
Fairness: jobs end, handlers and confirmations go on (WF); `ROUTING_LOCK` is FIFO
(SF). Faults are never fair, and are bounded because none of them need ever stop.
`FrontedFirst` does not hold of everything this module can do: `off` and `clear`
give the front up, a static host whose deploy is rolled back, or whose labels
Coolify regenerates, loses the router the backend counts on, a deploy of the
static host that something else had queued (`foreign`) is taken for the sync's own,
and a sync that could not read the static host's labels returns without having
routed anything, after which `set_sleep` enrols the container all the same
(`unread`, `routing.py:599-600`).
The run has what is left, and so does the theorem.

### Rag, RagPromise (`RagProofs`)

The service in `rag/` by itself: uploads and deletes on the event loop, one
worker in a thread, one SQLite database.

| state | code |
|---|---|
| `status`, `points` | `documents.status`, `documents.content_hash` |
| `content` | `contents` with its `chunks`: there or not, `refcount`, whole or with a hole |
| `queue` | `QUEUE` |
| `worker` | which step of `_ingest` is next, for which document and hash |
| `lost`, `spoiled`, `leaked` | history: the three things that go wrong here, see below |

An action is one section under `store._lock`, or the work between two. Which
bytes a document has is decided when the worker reads them, so two documents may
turn out to share content. `Index` stands for extraction, chunking and embedding:
it succeeds, is refused, or breaks off in the middle of `store_content`, whose
statements so far stay in the open transaction and are committed by whoever
commits next. Statements fail in `store_content` and in `mark_failed`; a failure
between the two statements of `attach` is not modelled, nor are queries, limits
and tiers. Document IDs are random and not reused; `delete` of a list is one
delete after the other.

The code does not keep its counts in every case, and the properties name the
exceptions instead of the model leaving them out: `spoiled`, content with a hole
after a broken `store_content`, or deleted with its last document between the
worker's `get_content` and its `attach`; `leaked`, content that was referenced
for a document already deleted, or stored just before a restart; `lost`,
documents in the queue when the process or its worker went.

* `rag_kept` -- three documents, two hashes, two failing statements, one restart.
  `ReadyHasContent` (nobody's delete takes another's content), `Counted`,
  `NothingLeft` (content without documents goes), `Resolved` (every accepted
  document ends ready, failed or deleted) and `KeepsPromise`, the refinement of
  `RagPromise`: the late answer of the worker to a document that was deleted
  meanwhile changes nothing its holder can see.

Bounds. Two documents share content and a third is being attached; two hashes
separate what one of them does from the other; two faults are one of each kind.
The theorems need none of them. Fairness: WF of the worker, whose fetch has a
time limit and whose other steps are computation. Deletes and restarts are not
fair.

### AppLife (`MCAppLife`, `AppLifeProofs`)

Requests on an id and its staging sister's, each a process between whose steps any
other may run: nothing here is a transaction and only a deploy takes a lock.

| state | code |
|---|---|
| `row` | `apps`: who inserted it, whether `db` names a database, `coolify_uuid` |
| `user`, `base` | the login and the database `pdb` makes for the id |
| `keys`, `crons` | deploy keys in `api_keys`; whether the id has jobs |
| `applications` | Coolify's applications, by who made them |
| `my` | where a request is, the ids it still registers and has registered, what it read |
| `raced` | history: ids whose database two requests were dropping at once |
| `stuck` | history: which row or database of an id a request meant to remove or write and could not |

`create` registers one id or the pair, in the order of `_register` (login,
database, row, key) with its own undo and `create_app`'s roll-back of what is
registered so far; `attach`, `detach` and `delete` go through `pdb`, the row and
Coolify in the code's order; `deploy` is the first `apply_image`, which makes the
application and then saves its uuid; `rekey` and `cron` are the other two requests
that write something an id owns. After the keys are delivered a create with a
database still composes its answer (`Compose`), which asks `pdb` for the server's
host outside of every `try`: the request may end in an error with everything made.
A step that fails is a fault: GitHub, `pdb` creating, Coolify, either statement of a
drop (`busy`: a container is connected, or the server is away), the host lookup
(`host`), any statement on the registry after the first change (`sql`, in
`Declined`), the key (`mint`), or the control plane replaced under all requests
(`crash`). A roll-back swallows such a failure and goes on with what is left to
undo, as `_register` and `_unregister` do; a delete or a detach ends there. Things carry their
maker's name, so that "the database of this app" is more than a database of that
name. PostgreSQL is the only kind of database here; the mongo branch of `pdb` is
not.

* `app_life` -- any three requests from nothing, or from a live app with or without
  a database; two faults. `AcknowledgedKept`: the row, key and database of an app
  whose create was answered, or ended in `Compose`, are those it made, whatever other
  requests, roll-backs and crashes do, until somebody asks to delete, detach or re-key
  it. `FailedLeavesNothing`: a create that was rolled back left no row, key or database
  of either id, but for the part whose own removal failed (`stuck`): a database that
  stays does not keep the row, a row that stays does not keep the database, and
  neither keeps anything of the other id. `ClaimsDatabase`: a row names a database
  only while there is one, except within the steps between the drop and the row, and
  for ids in `raced` or with a row a request could not write after the drop.

Bounds. Three requests are a maker, one that undoes and one that comes between; two
faults are a failure and a crash, or a failure of the undo. Each request is asked
once, and one that would be refused at once is not: it changes nothing. The key is the last step of `_register`, whose `except` undoes the database
only and not the row; `mint` is left out of this run and shown by `AppLifeMint.cfg`
(section 5). Requests are
interchangeable (symmetry). No fairness: nothing here is promised to end.

### Site, SitePromise (`SiteProofs`)

One app behind the static host: its directory on the shared volume, the handlers of
the control plane that write to it, and the requests the static host answers.

| state | code |
|---|---|
| `row` | `apps`: an image, `spa`, redirects, a frontend |
| `target`, `staging`, `old` | `<root>/<app>`, `.<app>.new`, `.<app>.old`: there, which bundle, whole or still being written, what its manifest is read as |
| `at`, `got`, `section` | where each handler is, the row it read, which one is between two awaits |
| `req` | a request: where it is, what it is for, what it read of the manifest, its retry budget, its answer |
| `published`, `seen`, `fate` | history: the newest bundle that was swapped in; what was in place while a request was open; whether the app carried it out and said so |

The control plane is one event loop, so what a handler does between two awaits is a
section no other handler enters; the static host is another process and looks
between any two file operations. An upload unpacks into `staging`, copies the
manifest, renames twice and records itself in the row; it then rewrites the
manifest, as a change of the redirect rules, a change of `spa` and the sweep do,
from a row read an await earlier (`Reads`) and in two steps, since the file is
emptied before it is written. A crash leaves the directories as they are and
forgets everything else. A request looks for the directory, reads the manifest,
finds a file, takes its length and opens it in five steps, or asks the backend, wakes
it and tries again within the budget its first failure earned; WebSocket upgrades take the same
way up to the answer. A manifest is three flags, its rules may match any request
but an upgrade, a bundle has one file or none that is asked for. Upload errors before anything is
written keep no state. The backend is no variable: `Outcomes` lets every hop
end as it likes (asleep, starting, up, stopping), and whichever way it ends but one,
the app may have carried the request out or not; the one is the static host's own
answer when the request comes back to it. A file that is swapped between its headers
and its body is sent whole or cut off (`Opens`); the model leaves out that a longer
file under a length that is a multiple of the 64 KiB it is sent in would end there
unnoticed.

* `site` -- one request, an editor, two uploads, one edit and one crash. `NeverLost`:
  a whole bundle as new as the live one is in one of the three directories, and no
  later upload removes it before it has its own. `RepeatedOnlyInDoubt`: over every
  wake and retry, once an answer has said that the app carried a request out, the app
  is not sent it again; the code sends again what ended in a broken connection, in
  502, 503, 504 and, after a wake, in 500, and what the app had carried out by then is
  carried out twice (section 5). `SettingsSettle`: in the end the manifest says what
  the row says, but for the moments it is written again. `KeepsPromise`: the
  refinement of `SitePromise`: an answer from the bundle is whole and of one bundle
  that was in place meanwhile, one that breaks off had the bundle swapped under it, and
  a request that is not with the backend is answered.

Bounds. Two uploads are an interrupted one and the one that finds what it left; one
crash is what the code is written for (two lose the bundle, section 5). One edit
and the upload and the sweep are three writers of one manifest. Requests do not
touch each other, so one is enough; one retry and the last try are three hops, which
is what it takes to be sent again after an answer (the code's budgets are seconds).
The theorems need none of the numbers but the one crash. Fairness: WF of the upload,
of each handler (every call has a time limit; the sweep comes round) and of what the
static host does by itself or asks Sablier with a time limit (`Serves`). A hop has
none: `_send` reads without a timeout (`web/server.py:285-286`), and an app that never
answers keeps its visitor. Uploads, edits and visits need not come.

### Heartbeat, Watchdog (`MCWatchdog`, `WatchdogProofs`)

`Heartbeat` is the three loops of `main.py` as sleeps, passes and beats, and the rows
they stamp; `Watchdog` extends it with the host's watchdog, which reads those rows.

| state | code |
|---|---|
| `row` | `task_heartbeat`: the age of the last good beat, never, or no row |
| `loop`, `up` | where a loop is and how long it stays there; how long the control plane has been up |
| `box`, `sleeps` | docker: an app's containers; `sleep_when_idle` |
| `w` | a run: the apps still to look at, what it found, what the file said, strikes |
| `file` | `STATE_FILE`: the problems of the last run, strikes |
| `told`, `hist`, `through`, `hurt` | history: what the chat believes; failing runs and runs since a start; what has been bad ever since the run began; whether a fault has touched a loop |

Time passes in units that no due step may overstep. `register` never touches a row
that is there; the sweep repairs enrolments before its first sleep, whether or not
that works, and its delay is counted from its row, with a floor; the other loops
start their sleep anew (or at once) whenever the control plane does. A beat, a
look-up, a pass or `register` may fail, and a pass may hang. A watchdog run reads
which apps there are and which sleep, looks at the containers one app at a time,
reads the rows and the file, starts what has been down for two runs, tells what is
new and what is gone, and writes the file; containers and flags move between any
two of its steps. A run reads the rows in one query, so steps of the loops are taken
between runs only.

* `watchdog` -- the sweep and the dispatcher, one app, a fault anywhere. `OnTime`:
  however often the control plane restarts, a loop no fault has touched is never
  stale. `NobodyInTheDark`: what was bad from a run's beginning to its end has been
  told and not taken back, or the run said it could not look. `StartsSpaced`: an app
  is started only after two failing runs in a row without a start in between.

Bounds. A unit is half an hour: the sweep's 3600, 5400 and 120 seconds are 2, 3 and 1
(the floor rounded up, against the loop), and a restart comes at the earliest two
units after the last.
Below the floor on its delay a restarting control plane starves the sweep on
purpose (`main.py:373-378`), which `MinUp` excludes and `Room`, an assumption, makes
precise. Passes and the repair at startup take no time in the run; the theorem allows
`MaxPass` for each. One app, as runs treat each by itself. Lost messages, dry runs and
an unwritable file are left out of the run because the code does not make up for
them: `WatchdogDark.cfg` and `WatchdogLoop.cfg`. No fairness: all three are safety.

## 4. Proofs

`tlapm` checks every theorem to its leaves. The assumptions are those the modules
name: `DeployAssumption` (processes are disjoint and differ from `Free`, tags are
not `NoTag`, the bounds are numbers), `LockOrderAssumption`, `LocksAssumption`,
`AlertsAssumption`, `RoutingAssumption`, `RagAssumption`, `AppLifeAssumption`,
`SiteAssumption`, `Timing`, `Room` and `Watched`. Where a theorem needs more, it says
so itself: more connections than coroutines (`EnoughConns`), or that a fault does
not happen (`MaxCrashes <= 1`, no "write" or "mint" in `Faults`,
`FrontedForGood`). Section 5 shows what happens when it does.

* `DeployProofs!TypeCorrect` -- `Spec => []TypeOK`, with the part that makes it
  inductive: a working process has a real reference, a settling one a real image.
* `OneRequestConfigures` -- `RequestsDoNotOverlap` for any set of requests: a
  request between `Acquire` and `Leave` owns `lock`, in every step of every other
  process, crash included.
* `SucceededIsLive` -- `SuccessIsLive`. The invariant follows a refresh from the
  202 on: the registry never goes back, so the pulled build is at least the floor;
  the target is the pulled build or a later one of the same tag; verification and
  the nothing-to-do test only pass when the container runs the target; the record
  copies that verdict.
* `DigestLags` -- `DigestNeverAhead`, from the same invariant: what verification
  found running is remembered in `fact`, and only grows.
* `LocksProofs!OrderedNeverStuck` -- `NeverStuck` of `LockOrder`, for any number of
  coroutines and apps. If the pool is exhausted, the pigeonhole gives a coroutine
  with two connections, and that one waits for nothing; if not, follow the owners: an
  app lock's owner can only wait for `ROUTING_LOCK` or the static host's lock,
  `ROUTING_LOCK`'s owner only for the static host's, and that one's owner for
  nothing but a connection, which there is.
* `HandlersKeepOrder` -- `KeepsOrder`, every step of `Locks` against `LockOrder`, and
  with it `HandlersNeverStuck` and `LockTypes`. A path is a
  sequence of entries and exits, and `Run(p, s, e)` says that from the blocks `s`
  every entry on it is in order, every exit leaves a block, and it ends in the
  blocks `e`. One lemma for each of `Skip`, `Then`, `Maybe` and `In` carries this over
  to the handlers, which are put together from them. The hard part is an exception:
  `Levels` counts how deep a run is at each step, and the rest of a path from the
  first step below a block is again a run (`RunsOut`). `LInv` ties the run that is
  ahead of a coroutine (`Follows`) to what it holds. An induction over the steps of
  a run is done with the least number that fails (`Least`, `Climbs`).

* `AlertsProofs!AlertTypes`, `MissingIsDebounced`, `AlarmsAlternate`, `ErrorsCountedOnce`
  -- `TypeOK`, `MissingDebounced`, `OnlyEdges` and `ReportedOnce` for any threshold,
  cooldown and bound, and `HealsAreSpaced` the action property `HealsSpaced`. One
  invariant, `Inv`, follows each latch and counter from its row into the locals of a
  check, through the messages still to send, and back: the counter never runs ahead
  of the looks that found nothing (`Debounced`), latch and chat agree but for the
  messages on their way (`Told`), the errors reported and those in the mail are at most
  the ones there were (`Counted`), and a heal is known to be no older than it is
  (`Spaced`).

* `RoutingProofs!RoutingTypes` -- `TypeOK`, with what a handler may be doing where it is
  (`Fits`): only the holder of `ROUTING_LOCK` is in a sync.
* `RouterComesFirst` -- `FrontedFirst` for any number of requests, restarts and lost
  containers, where nobody gives a front up, the static host's labels can be read and
  its deploys come up, and the sweep and a switch to sleeping do not meet
  (`FrontedForGood`). Every job of the static host that there ever is brings the router, and until it is there no label
  of the app's is stored, on its way or on its container (`WebFirst`); a handler is
  only past its sync with the router on the container (`Courses`). Together they are
  inductive (`Fronts`). TLC has a counterexample for each case the hypothesis leaves
  out.

* `RagProofs!RagTypes`, `SharedContentStays`, `CountSuffices`, `LastTakesContent`
  -- `TypeOK`, `ReadyHasContent`, `Counted` and `NothingLeft` for any number of
  documents, contents, faults and restarts, from `RagAssumption` (finitely many
  documents). None is inductive alone. `OneHand` puts each document nowhere, in
  the queue once, or with the worker, where it is pending or deleted;
  `OnlyReadyPoint` follows, so a document is never counted twice; `Sound` keeps
  the content the worker is about to attach to; `Exact` says the count is the
  number of documents where nothing leaked, which `Counted` (at least that many)
  does not, and which `NothingLeft` needs when the last one goes. The counting
  itself is the library's theorems on adding and removing one element.
* `RagProofs!PromiseKept` -- `KeepsPromise`, step by step: `Attach` and `MarkFailed` write to
  a pending document or find no row, by `OneHand`.

* `AppLifeProofs!AppTypes` -- `TypeOK`, with where a request can be at which id and with
  which ids behind it (`Well`).
* `AcknowledgedStays` -- `AcknowledgedKept` for any number of requests, whatever fails
  or crashes. `KeptBy` is about one create and one id: what it has registered is whole
  and carries its name, and of the id in hand there is the login, then the database,
  then the row, until its own undo drops them. Another request's undo does not get
  there, because it only ever drops what that request made.
* `FailedLeft` -- `FailedLeavesNothing` where a key can be minted. `Traced`: whatever a
  create has made is of an id it knows it registered, or of the id in hand at a step
  that will still undo it, or it is the part whose removal failed. Every other fault
  is in: what is left out is `stuck`, one part of one id at a time.
* `ClaimsTheDatabase` -- `ClaimsDatabase` where a key can be minted. `Owned` says
  what a request relies on: the login and database it made are its own, and a row
  names what it drops. It holds of ids that are `Clean`, neither `raced` nor with
  an unwritten row (as in the property) nor left half dropped by a crash.

* `SiteProofs!SiteTypes` -- `TypeOK`, for any numbers of requests, editors, uploads,
  edits, crashes and retries (`SiteAssumption`).
* `SaidIsLast` -- `RepeatedOnlyInDoubt` for any budgets, with nothing assumed of the
  hops. `SaidOnce` is the invariant: as long as a request waits or is tried again, no
  answer has said that it was carried out. It needs every result after which the code
  tries again (`Unfulfilled`, and `NotRunning` at the first try) to be one that leaves
  it in doubt.
* `BundleKept` -- `NeverLost` for any number of uploads and at most one crash. `Unpacked`
  follows an upload through its section; `Kept` says where the good bundle is: in
  place, next to it between the renames, and, once the control plane has been
  killed there, next to it until the next swap. Before the crash it is in `target`
  when an upload starts, which is why a second crash breaks it.
* `TellsTheTruth` -- the safety part of `KeepsPromise`. `Witnessed`: what is in place is
  among what an open request has seen; each control step is `Publish` or a stutter
  (`Follows`), each step of a request `Come`, `Forward`, `Back`, `Reply` or a stutter
  (`HostSteps`, `StepTells`).
  That visitors are answered at all stays with TLC.
* `WatchdogProofs!WatchdogTypes`, `LoopsOnTime` -- `TypeOK` and `OnTime` from `Timing` and
  `Room`, for any periods, tolerances, loops and faults. The invariant is
  about the loops alone: `OnTheWay`, the age of a loop's beat and the time it still needs fit
  into the tolerance, before a restart (`Beating`) and after one (`Booting`).
* `CooldownKept` -- `StartsSpaced` for any number of apps where the state file can be
  written: `StrikesCovered`, the strikes of the file and of the run are at most the
  failing runs and the runs since a start.
* `EverybodyTold` -- `NobodyInTheDark` where messages arrive and the file can be
  written: `InTheFile` (what the file has, the chat has been told) and `SeenThrough`
  (what is bad throughout is found where it has been looked for).

Only model-checked: the liveness properties, because fairness and ENABLED are outside
the prover (`Answered`, `Heals`, `MissingReported`, `UnreachableReported`,
`PluginHeals`, `RoutesHeal`, `Quiet`, `Resolved`, `SettingsSettle`, and of
`SitePromise` that a visitor is answered).

## 5. Where code and comments disagree

Divergences met while modelling. The first ones can be reproduced: each names a
configuration that is kept beside the runs and ends in a counterexample (run `tlc
-config X.cfg M` with the module named).

* `DeploySweepReverts.cfg` (`MCDeploy`, `SweepKeepsImage`): the sweep writes the image
  of the row it read before its first app (`autoupdate.py:411`) over what a code
  update set meanwhile; `autoupdate.py:237-238` says who owns the tag.
* `LocksPool.cfg` (`MCLocks`, `RecordNeverStops`): with five connections
  (`max_size=5`, no acquire timeout) five environment changes each hold one and wait
  for a lock, whose owner waits for the connection its deploy record takes
  (`events.py:48`); `coolify.py:304-305` says a record never stops a deploy.
* `RoutingOff.cfg` (`Routing`, `OffRunsContinuously`): sleep is switched off while a
  code deploy runs; the deploy's tail stops the app on the row it was given
  (`autoupdate.py:418`) and nothing wakes it; `routers/apps.py:1018-1019` says it runs
  continuously.
* `RoutingEnrols.cfg` (`Routing`, `FrontedFirst`): reconcile takes no `ROUTING_LOCK` and
  reads a row that `set_sleep` has just written, so it enrols the app's container
  before that request's sync has put the router (`sablier.py:196-206`); asleep, the
  app answers nobody until then. `routing.py:621-624` says why the router is first.
* `AppLifeMint.cfg` (`MCAppLife`, `FailedLeavesNothing`): a key that cannot be minted
  leaves the row of the id, and it names a database that is dropped; `routers/apps.py:35-36` says `_register`
  "raises with nothing left behind".
* `AppLifeKeys.cfg` (`OneActiveKey`): two requests for a new deploy key at once leave two
  active ones.
* `AppLifeJobs.cfg` (`JobsHaveApps`): a job scheduled while its app is deleted stays
  (`create_cron` does not look again) and belongs to whoever takes the id next. The
  comment at `routers/apps.py:1145` says the dispatcher never joins `apps`; it does
  (`paas-cron-dispatch:22-30`).
* `AppLifeStuck.cfg` (`Deletable`): a delete that fails after Coolify's application is
  gone (`routers/apps.py:1135`) cannot be repeated, because an application that is gone
  is an error.
* `SiteLost.cfg` (`Site`, `NeverLost`): two kills, each between the renames of an upload,
  and the next upload's `rmtree` of the staging directory (`frontends.py:97`) removes
  the last whole bundle.
* `SiteResends.cfg` (`Site`, `AppliedOnce`): what ended in a gateway error, a broken
  connection or, after a wake, a 500 is sent again, though the app may have carried it
  out; `web/server.py:424` says re-sending cannot double-apply it.
* `WatchdogBeat.cfg` (`MCWatchdog`, `BeatIsWhole`): a sweep whose redeploys failed writes
  a good beat when the repairs after them succeed (`main.py:428`, against
  `main.py:440-442`).
* `WatchdogGone.cfg` (`GoneIsGone`): a recovery is announced of an app that went from
  unhealthy to down, and of every app when the query for them fails
  (`paas-watchdog:400`, against its lines 27-28).
* `WatchdogWakes.cfg` (`WakesNobody`): an app put to sleep during a run is started by it
  (`paas-watchdog:377`, against its lines 31-35).
* `WatchdogDark.cfg` (`NobodyInTheDark`): a lost message, a dry run or a file that cannot
  be written each hide a problem for good (`paas-watchdog:394-409`); the comment that
  without the file every run alerts again holds only where there is none.
* `WatchdogLoop.cfg` (`StartsSpaced`): with a file that cannot be written a container is
  started in two runs one after the other.

Read in the code and run nowhere:

* `autoupdate.py:386-391`: if `docker inspect` cannot resolve the image that was
  just pulled, verification has no target and passes on start time and health;
  the comment says it would report a failure.
* `autoupdate.py:329-337`: `settle` pulls again after verification, so a push in
  between leaves `deployed_digest` naming a build that never ran.
* `autoupdate.py:496-524`: the sweep takes no app lock and deploys from rows it
  read at its start, although two deploys of an app must not overlap
  (`ARCHITECTURE.md:780`) and an app switched off is to stay as it is
  (`routers/apps.py:996`).
* `routers/apps.py:1096`: `settle` runs after the lock is given back and takes its
  target from the row, which a second code update may have replaced.
* `locks.py:17`, `ARCHITECTURE.md:804`: locks are said to be taken at the outermost
  layer only; an upload or an enrolling refresh holds its app's lock when it takes
  `ROUTING_LOCK`. The order is acyclic all the same (`locks_order`), because the
  static host is refused as a frontend and never enrolled.
* `stats.py:207`: a docker listing that fails is empty, so two failures in a row
  report a sleeping app's container as gone.
* `alert_state` rows outlive their app; an app created again under the same id
  starts with the old one's latches.
* `alerts.py:211-213`: `fail_count` is counted and stored and never compared, so an
  app that does not sleep can be down without a message, which `alerts.py:37` and
  `main.py:462` say it would not.
* `alerts.py:186`: one check that cannot tell whether the plugin is loaded
  (`probe.py:200`) clears `healed_at`, so the next one may restart Traefik at once;
  `db.py:152-154` keeps the column against just that.
* `routing.py:626`: the sync reports a static host that did not come back up, and
  `set_sleep` and `_maybe_enroll_sablier` scope the backend all the same: dark until
  the next sweep, which the comment at `routing.py:621-624` is about.
* `routers/apps.py:1045`: switching sleep off drops the static host's router before
  the marker has left the backend; `routing.py:557-563` says an app is degraded in
  such a window, not dark.
* `routers/apps.py:1050`: two overlapping switches can leave an app enrolled with
  nothing in front of it, and no sweep looks at it.
* a deploy of the static host that an environment change queued earlier satisfies
  the sync's `verify_deploy`, which is given no target, with the old labels.
* `rag/server.py:83`, `rag/store.py:226`: the last document of some content is
  deleted after the worker found that content and before it attaches: the new
  document is `ready` with nothing in it, which `rag/server.py:59` and
  `ARCHITECTURE.md:689` say does not happen (`spoiled` in `Rag`).
* `rag/server.py:35`: after a restart a queued document is `pending` for good; no
  start-up code looks for it (`lost`). So it is after a `mark_failed` that raises
  (`rag/server.py:121`), which ends the only worker in spite of the comment there.
* `rag/store.py:165`: `attach` takes a reference for a document that was deleted
  while it was indexed; that content is never removed (`leaked`).
* `rag/store.py:307`: a query fetches chunks by row id after ranking them without a
  lock; SQLite gives freed ids out again, so the row may be gone or another
  document's, though `search` is to stay within the named documents.
* `rag/server.py:83`: bytes that are known are attached as they were indexed,
  whatever the limits of the second uploader; `rag/config.py:8` says that raising a
  limit later indexes more of the text that is kept, which no code does.
* `paas-watchdog`: a start that fails is tried again in every run, whatever the cooldown
  comment at 57-59 says; `--restart` acts on a dry run too; docker has no time limit
  there, so two runs may overlap.
* `main.py`: a look-up that fails when the process starts puts the sweep a full interval
  away.
* `routers/apps.py`: two overlapping detaches and an attach between them leave a row that
  names a dropped database (`raced`); a create that is still at work, a delete and a second create
  of the id can end in the first one's undo dropping the second one's database; a
  delete or a detach beside a first deploy leaves an application nobody names, or an
  exception on a row that is gone.
* `pdb`: a `CREATE DATABASE` that fails leaves the login, and the id cannot be used with
  a database again; the read-only role of a database is never dropped.
* `routers/apps.py:112-116`: "The app (and its key) exist either way" does not hold for
  `create_app`, which rolls both back.
* `web/server.py`: a 500 after a wake is sent again even when it is the app's own.
* `frontends.py:124`: between the renames a visitor gets a 404, though the docstring of
  `deploy_bundle` promises never a half-written site; a kill there leaves the site gone
  until the next upload.
* `frontends.py:190-196`: the manifest is not written atomically; a request in between
  reads it as static-only, and a backend's path is a 404 for that moment.

## 6. Not modelled

Left for later, in the order of the plan: the analytics cursor, the dispatcher's
minute passes and 300 s jobs, the environment beyond its locks, and claiming and
releasing hostnames. Of the parts that are modelled, `PROJECT.json` says what is
missing: RAG queries, host lists and the domain map, the mongo branch of `pdb`, the
pump between the two legs of a WebSocket, what a redirect rule expands to, caching
headers, overlapping runs of the watchdog. Statistics, queries, scaffolding, GitHub
and the HTTP surface keep no state and are left out for good.

# certific in TLA+

certific moves Traefik's `acme.json` from the one node that runs the ACME
issuer to every gateway. `certific upload` watches the file and keeps one S3
object equal to it; `certific download` polls that object and reconciles each
gateway's `live/` directory, which the gateway's Traefik watches. This directory
holds TLA+ models of the program, from its flags to its exit code, the
TLC configurations that check them, and TLAPS proofs about them.

Paths below are relative to `src/internal/certific/` unless they say otherwise;
`main.go` is `src/cmd/certific/main.go` and `README.md` is `src/README.md`.

## 1. The system

| component | state it keeps | operations | talks to |
|---|---|---|---|
| Uploader (`uploader.go`) | `lastHash`/`hasHash` of the last content seen in S3, the debounce timer, `lastSync` | `Run`: bootstrap, watch the directory, first upload, then a loop over ctx, events, errors, timer; `uploadWithRetry` | the file (shared with Traefik), inotify, S3, ctx |
| Downloader (`downloader.go`) | `lastEtag`, `lastSync`, the backoff delay of a cycle | `Run`: a `cycle` now and after each interval; `tryCycle` = Head, perhaps Get, parse, `Render` | S3, `live/`, ctx |
| Render (`render.go`) | none in memory; the directories `live/` and `.staging/` | name the files, write them, write the index, prune | the gateway's Traefik, which reloads at any event in `live/` |
| acme parsing (`render.go`) | none | `ParseAcme`, `slugify`, `dedupSorted` | called by the downloader and Render |
| object store (`s3.go`) | none | `Get`, `Put`, `Head` over the AWS SDK | S3 |
| health endpoint (`health.go`) | the listener, the goroutine that serves | `RunHealthServer`; `/healthz`, `/metrics` read `LastSync()` | both workers |
| process (`main.go`) | one context, main, a WaitGroup | `resolveFileEnv`, `run`, `withHealth`: the end of the worker or of the health server cancels the other | everything above |
| configuration (`config.go`) | none | `LoadConfig`, `validate` | start-up only |

Who can interfere with whom:

* **Traefik and the uploader** share `acme.json` without a lock. Traefik
  truncates and then writes it; other writers rename a file over it; the uploader
  itself replaces it at bootstrap. Changes reach the uploader through a bounded
  kernel queue, a debounce timer and a read that comes later than both.
* **The uploader and the downloaders** share one object. A downloader looks at
  it twice (Head, Get) and at neither moment holds it.
* **Render and the gateway's Traefik** share `live/`. Traefik may read it
  between any two file operations, so every intermediate state counts.
* **Main, the health server and its HTTP goroutine** wait for one another
  through a context, a channel and a WaitGroup; handlers read `lastSync` while the worker writes it.
* **Signals, crashes, restarts** hit each process anywhere. Only files and the
  object survive; hash, etag and last-sync time start again from nothing.

What makes each part correct:

* *Uploader*: no change is lost between the writer and the Put; S3 never gets a
  torn file and never goes back; a shutdown publishes what was pending, and ends.
* *Render*: the index never names a file that is not there; success means exactly
  the argument; what is right or unchanged is not touched; failure and crash do no damage.
* *Parsing and names*: the result is a function of the file, whatever the order of Go's
  maps; no two certificates share a file.
* *Downloader*: skipping by etag never hides a difference; after any failure the
  gateway converges; a recorded synchronisation is true; shutdown ends; short outages stay green.
* *Process*: what is accepted can run; everything ends together and leaves nothing
  behind; exit code 0 means asked for; a green `/healthz` means a fresh synchronisation.
* *System*: no gateway ever goes back to an older version, and all agree in the end.

`PROJECT.json` lists the hazards with their lines. The hard ones are the two
selects and the queue in front of the uploader's loop, the retry loop that holds
bytes while the file moves on, the pair Head/Get, the order of file
operations in Render, and the shutdown of the health server.

## 2. Modules

| module | what it is |
|---|---|
| `Contents` | what an object and a `live/` directory can hold, shared by the modules of the download side |
| `Publication` | abstract: the upload side; versions are issued, the published one moves forward only |
| `Worker` | abstract: what an uploader and a downloader promise the process that runs them |
| `Gateway` | abstract: what one gateway does with the object |
| `Serving` | abstract: what Traefik serves while live/ is reconciled |
| `Uploader` | the upload process and its environment; implements `Publication` and `Worker` |
| `Downloader` | the download process and its environment; implements `Gateway` and `Worker` |
| `Render` | one gateway directory, one file operation at a time; implements `Serving` |
| `Acme` | `ParseAcme`, and the file names Render derives from its result |
| `Pacing` | the downloader's intervals, backoff and jitter against the freshness window |
| `Config` | resolution and validation of the configuration, as operators |
| `Process` | one process from exec to exit: `main`, the health server, `/healthz`, around a `Worker` |
| `System` | one `Publication` and several gateways that do what `Gateway` says |
| `Deployment` | `System` with a whole `Downloader` in the place of one gateway; implements `System` |
| `MCUploader`, `MCDownloader` | history variables for statements about a shutdown, about a cycle |
| `MCRender`, `MCAcme`, `MCProcess` | a symmetry set; the files and the inputs to check |
| `*Proofs` | proofs about the module of that name |

How they fit together: `Process` uses of its worker only what `Worker` promises, which
`Uploader!IsWorker` and `Downloader!IsWorker` justify. `System` has of the uploader only its
`Publication` (`Uploader!PublishesIssued`), and of a gateway only the fetching, finishing and abandoning
of `Gateway` (`Downloader!IsGateway`). That a real downloader may take the place of such a gateway
is `Deployment!IsSystem`: in a `System` with a whole `Downloader` at the gateway `Here`, whose object is
what the upload side publishes and which all others poll too, every step is a step of `System` or hidden. It
holds for any set of other gateways, and a downloader sees nothing of them, so they can be replaced one after the other by the same argument. These
refinements are checked and proved. `Render!IsServing` is the refinement
on the other side of a gateway, where Traefik reads the directory.

### Uploader

A content is its version number, `Torn` for bytes `json.Valid` refuses, `Absent`
for no file. `lastHash` is a version too: sha256 is taken as injective.

| in the model | in the code |
|---|---|
| `pc` = `bootGet`, `bootWrite` | `bootstrap`: before the Get; between it and `writeFileAtomic`'s rename |
| `watch` | between bootstrap and `watcher.Add` |
| `read`, `put`, `sleep` | in `uploadWithRetry`: before `ReadFile`, before a Put, in `sleepCtx` |
| `select` | the watch loop |
| `done`, `failed`, `down` | Run returned nil, returned an error, the process died |
| `armed` | `debounceCh != nil` |
| `queue` | events inotify and fsnotify hold for this watch |
| `cancelled`, `flush` | `ctx.Done()`; the flush: not begun, running, `flushCtx` expired |
| `missed` | history: a change went unnoticed by an overflow or an unreadable file |

Every outside effect (S3 call, read, rename, receive from a channel) is an action
of its own, so the writer, the queue, signals and crashes can act between any two.
`uploadWithRetry` runs once under `ctx` and once under `flushCtx`:
`UploadCtxDone` says which one counts. A Put that fails may have been applied
(`PutFailed`). The queue merges a repeated event and, when full,
drops events after one `overflow`. Restarting an armed timer has no effect in the
model because the delay has no length: an armed timer may fire at any moment.
The issuer's inotify events for a rename over Path are taken as `create` (what
fsnotify reports for the target), a move of Path away as `rename`.

Assumptions about the environment: only one uploader writes the object, and
nobody else deletes it; the issuer writes versions in increasing order (also the
same content again), and a restored local file is not newer than the issuer's
newest version; a Put takes effect before its call returns or its process dies.

### Render

`Hosts` stands for the file stems that `slugify` and the collision suffix
produce; they are taken as distinct here, and `Acme` says when they are. `live` gives the version of each
`.crt` and `.key`, `index` the set of hosts in `tls.yml`. `writeFileIfChanged` is
compare (`SkipFile`, or on to `StageFile`; `StageUnread` when the compare could
not read), write to staging, rename; `pruneDir` is one listing and then
one removal at a time in any order. The order of the certificates is left open, a
superset of the sorted order, but a `.crt` comes before its `.key`. Every
operation can fail (`Faults`) and end Render early, and the process can die after
any of them. `IsServing` maps `live` and `index` to what Traefik is told to serve for each host (`Pair`): a version, nothing, `Torn` when its two files
differ, `Missing` when one is not there. That is the promise of the comment at `render.go:170-184`: files are written before the index is switched, and
removed after. In `Serving` the switch is one step for all hosts, `Missing` never appears, and `Torn` only while a host is renewed. Foreign files in `live/` are like those of hosts no longer asked for.

### Downloader and Pacing

An etag is the version, since S3 derives it from the content. `sendsEtag`
says whether this store sends an etag with Head: some do not (comment at
`downloader.go:217-219`). Some versions are whitespace only (`EmptyVersions`),
some are refused by `ParseAcme` (`BadVersions`). Render is one step here, ending
at its goal, or failing with `live/` as it was, at its goal, or in between
(`Mixed`); that it does not spoil what was right is `Render!RenderNeverSpoils`.
`meddled` is history: since this process started, the object was put back to an
earlier version, or somebody else changed `live/`. With a store that sends etags
that can mislead the skip (`Misled`, and section 6), so the properties except it.
`Env` names which environment moves a run allows: `fault` (calls fail), `delete`,
`restore` (the uploader, restarted, puts its file back), `rollback` (an operator
puts an older version back), `tamper` (somebody changes `live/`).

`Pacing` is the same loop with durations and without data: `due` is how long the present
phase (an attempt, a sleep, the wait for the interval) lasts and `spent` how much of that is over. Arithmetic is in tenths, so
that the jitter of a fifth is exact. `trouble` is whatever makes an attempt fail; an attempt
fails only if there was trouble during it (`hit`), and may succeed all the same.

### Acme

A file is what `json.Unmarshal` makes of it: entries per resolver, or `Other` for JSON
of another form (`null` is a file with no resolvers). Hosts and resolvers are numbers in the order of `sort`. A range over
a map is one action per key, in any order. A slug is a sequence of atoms and numbers; `Slug` gives every host one, and appending
a number is the suffix of `render.go:230`. `usedSlugs` is `used`, where 0 means "not in the map".

### Config and Process

`Config` takes for each setting its flag, its variable, and the content of the
file that its `_FILE` variable names; each may be absent, empty, garbage, or a value. `Process` has `main` (where main stands),
`phase`, `cancelled`, `lastSync` (those of `Worker`), `health` (where `RunHealthServer` stands),
`serve` (where `srv.Serve` stands), `closing` (`Shutdown` was called) and `listening` (the port
is taken). `Shutdown` may overtake `Serve`: then it does not know of the listener, and `Serve` closes it
itself when it begins (`ServeBegins`). One probe of `/healthz` is under way at a time; it reads
`lastSync` and the clock in two steps, and may take for ever, which is what
`Shutdown`'s five seconds are for. `Gone` forgets everything, at any moment.

### System

`fetched[g]` is what gateway g is putting into `live/` between its Get and the end of Render.
`best` is history: the newest version a gateway has served completely. The object only moves as
`Publication` allows; that somebody deletes it or puts an older one back is in
`Downloader`, where it is checked what one gateway does then.

In `Deployment` the gateway `Here` has all of `Downloader`'s variables; `lives`, `fetches` and `bests` are
those of the other gateways, `served` is `Here`'s `best`. `Process` is any step of the downloader's
process or its supervisor. The object moves by `Put` alone; a downloader's own `Publish`, `Delete`, `Restore`, `Rollback` and
`Tamper` play no part. `Whole` maps the two halves to the functions of one `System` on all `Gateways`.

## 3. Runs

| run | shows | bounds |
|---|---|---|
| `UploaderSafety` | `QuiescentPublished`: an idle loop has published the file unless a change was noticed as missed. `ShutdownFlushPublishes`, `SyncMeansPublished`; `PublishesIssued`, `IsWorker` (refinements) | 3 versions, queue of 2, 2 instants |
| `UploaderLive` | `EventuallyPublished`, `ShutdownEnds` | 2 versions, queue of 1, 1 instant |
| `MCUploader_*` | two statements about shutdown that do not hold (section 6) | S3 never fails by itself |
| `MCRenderSafety` | `IndexNeverDangles`, `RenderExact`, `ChangeIsReported`, `RenderNeverSpoils`, `IdenticalRenderIsQuiet`; `IsServing` (refinement) | 2 hosts, 2 versions each, symmetric hosts |
| `MCDownloaderSafety` | `SkipIsSound`, `SyncMeansCurrent`; `IsWorker`, `IsGateway` (refinements) | 4 versions, one empty, one malformed, 2 instants; every environment move |
| `DownloaderLive` | `EventuallyServed`, `StopEnds` | 3 versions, one of each kind, 2 instants; every environment move |
| `Downloader_CorruptionIsReconciled` | a statement that does not hold | 2 versions |
| `MCProcess` | `NothingLeft`, `ZeroMeansAsked`, `GreenIsFresh`, `AcceptedIsRunnable`, `OtherModesDurationIgnored`, `EndsTogether` | clock up to 4, windows up to 4; the inputs of `MCProcess` |
| `Pacing` | `ShortOutageStaysGreen`, `PromptRecovery` | interval 20, backoff 5 to 20, attempts up to 1, 70 ticks without a synchronisation |
| `MCAcme` | `RefusedAsAWhole`, `LatestOfEachHost`, `DistinctStems` | 2 resolvers, up to 2 or 3 entries each, 4 hosts of which 3 share a slug |
| `Deployment` | `IsSystem` (refinement), `NeverBackward`, `Converges`: System's properties with a real downloader in it | a downloader with failing calls and one other gateway; 3 versions, one empty; 1 instant |

The safety runs and `Deployment` also check the type invariant of their module. `System` has no run of its own: `Deployment`
has its actions, for the other gateway, and checks its properties of both.

Why these bounds are enough to be interesting. Three versions let bytes held in
the retry loop be overtaken twice, and let a restart meet an object older than
the file and a file older than the issuer. A queue of two overflows, and also
merges. Two instants tell an old synchronisation from a new one. In Render,
two hosts give a set that shrinks, grows or is swapped, and two versions per host
a renewal; every start state is reachable by failing and dying renders. In
the downloader one version of each kind and one more good one let the object change at
both gaps of a cycle and back. In `MCProcess` the clock goes past every window, so a green turns
red; the inputs combine flag, variable and file of each setting with the others in order.
In `Pacing` the third sleep of a cycle is at the maximum and the time without a synchronisation goes well past two
intervals. In `MCAcme` three namesakes and a fourth host whose slug is a suffixed one collide, and two resolvers
carry the same host. In `Deployment` the object can move on twice while a
gateway is between two steps, across an empty version; a malformed one, of which `System` only needs that nobody fetches it, is in
the downloader's runs, as is a second instant. The symmetry of `Hosts` is sound: no definition
names a host, and the configuration with symmetry checks no liveness.

Deadlock is checked except in `MCAcme`, where parsing ends.

Every property of a passing run has a mutant in `PROJECT.json`: a definition ending
in a plausible bug (marked `mutant` in the modules), under which TLC finds the
property violated.

## 4. Fairness

`FairSpec` of `Uploader` and `Downloader` assumes that the process is scheduled (weak fairness of
`Run`), that its container is restarted, that the five-second timeout passes
(`FlushExpires`), and that Go's `select`, which chooses at random among the
ready cases, does not pass over one for ever (strong fairness of `OnCancel`,
`OnTimer`, `OnEvent`, `Stop`). It assumes nothing of S3 or the disk, so
`ShutdownEnds` and `StopEnds` hold during an outage. The convergence properties
assume in addition, as their hypothesis `Answers`, that a call that is made again and
again succeeds again and again, and that the writer and the signals leave the
process alone from some point on; the code can promise no more.

`Process` assumes that its goroutines are scheduled and the shutdown timeout passes (weak fairness of `Main`,
`RunHealthServer`, `ServeBegins`, `ServeCloses`), and that a cancelled worker ends (`WorkerStops`): that is
what `Uploader!ShutdownEnds` and `Downloader!StopEnds` establish. It assumes nothing of the
port, of clients, or that a handler ever finishes.

`Deployment` assumes the same of its downloader as `Downloader`, with `Answers` and `LeftAlone` as hypotheses of `Converges`. Of the
other gateways `System!Fairness` assumes that each polls (weak fairness of `Fetch`) and that a Render that is tried again and
again succeeds again and again (strong fairness of `Apply`): what the downloader's own part of `Converges` shows of a real one.

## 5. Proofs

All theorems hold for every value of the constants that satisfies the modules'
named assumptions, which TLC evaluates in the runs. The order in each proof module: lemmas
about data, one lemma per conjunct of the inductive invariant or group of actions, then the theorems.

* **Uploader.** `QuiescentPublished` is not inductive: it speaks about
  the idle loop only. `IInv` adds `Ordered` (hash <= object <= held bytes <=
  issued, the file not behind what was bootstrapped), `NoLostChange` (a content not yet read has
  an event in the queue, an armed timer, or is recorded as missed, also
  while a Put is under way) and `FlushIsLast`. The delicate part is the queue: the
  lemmas `MatchTail`, `MatchAppend`, `NotifyQueue` say what consuming, merging and dropping do to
  "some queued event matches", and `QueueOK` bounds its length.
  From `IInv`: `IdleHasPublished`, `FlushPublishes`, `SyncIsHonest`, and
  `Refinement` (`PublishesIssued`): every Put is a `Publish` step or a stutter, because the bytes held lie between
  the object and the newest version. `PromisesWorker` maps `pc` to the phases of `Worker`, step by step.
* **Render.** `Progress` says what the steps taken so far have established: files
  done are right, after step 1 all are, after step 2 the index is the wanted set, and step 3
  removes only what is not kept. `NeverDangles` needs it at exactly two actions: renaming
  the index and removing a file. `SuccessIsExact` follows at `Finish`. `Honest` ties the flags and the file
  under way to `live/`; from it come `ReportsChange` and, with `Progress`, the action properties
  `NeverSpoils` and `Quiet`. `PromisesServing` is a refinement step by step: only three actions change what Traefik may read (`QuietSteps`). Renaming a file is
  `Renew` of its host, or hidden while the index does not name it; renaming the index is `Switch`, because `Progress` has all kept files right by then; a removal is hidden,
  because the index is the wanted set already. That `Missing` cannot appear is `IndexNeverDangles` again.
* **Downloader.** `SkipSound` holds in every environment, unless somebody meddled since the process
  started. `SkipIsSound` alone is not inductive. `IInv` adds `Newest` (nothing the process knows is newer
  than an object nobody meddled with) and `CycleIsNewer`: a cycle that got past the skip is after something
  newer than `lastEtag`, so nothing it leaves half done can be skipped; and if the object is still
  what Head saw when Render ends, then Get read that too. The exception is needed: section 6 has
  what happens without it. `PromisesWorker` and `PromisesGateway` are step-by-step refinements from `TypeOK`; unlike `SkipSound` they need no
  exception, since a skip is a stutter of `Gateway`. `SyncIsCurrent` (about `MCDownloader`) adds `Seen`: what is about to be rendered was the object
  at some moment of this cycle.
* **Pacing.** `Timing` relates the delay to the time slept: the delay has grown by at most five quarters of the
  sleeps so far (`Grown`), because each sleep is at least four fifths of a delay that then at most doubles. So the last sleep, which is what
  an outage is prolonged by, is bounded by the outage itself as well as by `Max` (`OvershootBound`). Neither `ShortOutages`
  nor `Recovery` assumes anything of the latency or the interval: an outage is counted from its first failed attempt, so an attempt that
  outlasts an interval cannot look like one.
* **Acme.** `TypeCorrect` needs `Sources`: the keys that are looked up come from the map they are looked up in. `StemsDistinct` is the whole of
  `DistinctStems`, exception included: two stems coincide exactly where a `Clash` says so. `Naming` keeps one counter per slug equal to the
  number of its holders (`Counted`, by cardinalities), every stem formed with a number up to that counter (`Formed`) and every such number given
  (`Given`), so that holders of one slug are apart and holders of two slugs meet only as slug and suffixed slug. `Refused` and `Latest` follow from `Reading`,
  which says for each stage how far the file has been read: while names are collected each is collected once (`Collected`); during the walk, whose places
  behind it are `Behind(r)`, `byMain` holds the latest complete entry per host `LatestAmong` those and none of them was `Broken`; at the end these are all
  `Places`, and the sorted output has one certificate per host. The iteration orders of Go's maps are any permutation (`ArrangementPermutes`).
* **Process.** `Inv` describes the order in which main, worker, health server and HTTP goroutine can stand (`ServerOrder`,
  `WorkerOrder`), and where an error can come from (`ServerErrors`): without a signal the worker is cancelled only because the health server failed with
  an error, which `Join` then returns. From it `NothingIsLeft` and `ZeroWasAsked`, and with the configuration kept from `Configure` on, `TypeCorrect`. `AcceptedRuns` and
  `OtherModesDuration` follow from the definitions of `Config` for any set of inputs that has the nine `Settings`; the latter also needs that text that is no
  duration (`Garbage`) is not one. `GreenFresh` uses `Clock`: what a probe has read is not newer than what is there now, and only the handler answers.
* **System.** `Forward` per gateway: what is being fetched is at least as new as the best served. `Forwards` is inductive
  with it, for any number of gateways.
* **Deployment.** `Composed` is `IsSystem` for any set of other gateways, from the inductive invariant `Deployed`: the types, and
  that `live/` never holds a version newer than `served`. The work is in the steps of the downloader: a cycle that goes on to render is `Fetch(Here)`,
  of the object at that moment and not of what Head saw; the end of a Render, a failure, or a crash within one is `Apply(Here)` or `Abandon(Here)`;
  everything else, the skip included, is hidden. A retry that rendered again what it had got before would be no such step (the run's mutant).
  `NoneGoesBack` and `DeploymentTypes` then cite the theorems of `SystemProofs` for this `System`: what is proved there, by `Forward`, of gateways that do as
  `System` says holds of the downloader itself.

Only model-checked: liveness (`EventuallyPublished`, `ShutdownEnds`, `EventuallyServed`, `StopEnds`,
`EndsTogether`, `Converges`), since the prover does not do fairness. Every invariant and every action property of the runs is
stated by a theorem.

## 6. Where the code and its own statements differ

Each of the first three is a run that TLC must find violated.

1. **Next boot does not re-upload** (`MCUploader_NextBootUploads`). The comment at `uploader.go:165-166`
   leaves a flush that runs out of time to the next boot; but `bootstrap` (`uploader.go:235`) first
   replaces the file by the older object, and the change is lost.
2. **A debounced change can be dropped** (`MCUploader_DebouncedChangeNotDropped`). With ctx cancelled and the timer
   expired, `select` may take the timer: the upload runs under the cancelled ctx and gives up, and the
   loop then sees nothing to flush (`uploader.go:187-189`).
3. **Local damage is not repaired** (`Downloader_CorruptionIsReconciled`). `README.md:257-262` says the next cycle
   repairs `live/`; while the etag is unchanged no cycle reaches Render.

The properties that hold say where further statements of the code stop holding:

* `Misled` in `SkipIsSound` and `EventuallyServed` also excepts two more situations. `renderEmpty` keeps an earlier `lastEtag`
  (`downloader.go:241-242, 197-199` say otherwise), so an object deleted and put back unchanged is skipped and `live/` stays empty. And `lastEtag` is
  Head's even if Get read a newer object (`downloader.go:217-224`); rolling that object back (`README.md:255-256`) to what Head saw is
  then taken for "unchanged".
* `RenderNeverSpoils` is per file: between the two renames of a renewal the index names a new `.crt` with the old `.key`, although `render.go:171-174`
  calls every state consistent. Temporary files of a crash stay in `.staging` if no later Render writes that name (`render.go:302`; `render_test.go:313-316`
  says the directory is clean after a successful render).
* `DistinctStems` has the exception `Clash`: the suffix of `render.go:230` may be some other host's slug, and then two certificates share a file, which the comment
  at 224-227 means to rule out.
* `ShortOutageStaysGreen`: `main.go:132-133` gives one interval to recover from a failed cycle, but the next attempt is due after a backoff, not an interval.
  With the default interval of 60 s an outage of up to 23 s is always survived; one of about 32 s may turn `/healthz` red. The bound grows with the interval and shrinks with the backoff reached.

Also true of the code and not a property here:

* An inotify overflow is logged and not followed by a read (`uploader.go:182-186`); an unreadable file is not retried
  (`uploader.go:249-258`). The model records both in `missed`, and the properties except that state until the next read.
* An upload whose content is unchanged marks a synchronisation without asking S3 (`uploader.go:276-285`), while `uploader.go:51-53` and
  `README.md:211` speak of successful S3 operations; and the comment at 278-281 hopes that this keeps `/healthz` green, but without an
  event there is no such upload, and an idle uploader turns 503 after `--health-grace`.
* A malformed object is retried by backoff within the same cycle, not at the next interval (`README.md:263-265`).
* `README.md:163-167` says that variables of the other mode are ignored. That is so for the durations (`OtherModesDurationIgnored`), unless they do not parse; but a `CERTIFIC_PATH` or
  `CERTIFIC_OUT_DIR` of the other mode is refused (`config.go:173-186`).
* A variable set to the empty text keeps its `_FILE` from being read (`main.go:65`), and every variable whose name ends in `_FILE` counts as a secret's, also
  the SDK's own such as `AWS_SHARED_CREDENTIALS_FILE`.
* When the port cannot be bound, the worker is cancelled, and if that makes its bootstrap fail, main prints the bootstrap's
  "context canceled" and not the bind error (`main.go:176-182`, `health.go:87-90`). The exit code is right (`ZeroMeansAsked`).
* A 404 of Head because the bucket is missing looks like a missing object (`s3.go:141-158`), and the gateway renders no certificates.

## 7. Not modelled

* `s3.go` beyond what its callers see: the SDK's own retries and credentials. Writes that S3 delays beyond the end of the call, or of the process, that made them.
* The length of the uploader's debounce: a file that is written more often than every 500 ms keeps restarting it. `Pacing` has the durations of the downloader only.
* The returns of the watch loop when fsnotify's channels are closed (`uploader.go:174-176, 183-185`): only `watcher.Close` closes them, which is deferred to the end of Run.
* Calls that never return. The code leaves deadlines to the SDK's transport.
* `/metrics`, which changes nothing; `slugify` character by character, `dedupSorted`, and the text of `tls.yml`: only which names are equal, and which hosts are listed, matters to what is checked.
* Region, endpoint, logging; the Dockerfile and the example stack, whose restart policy is `Restart`.
* The composition of `Downloader` with `Render`'s single file operations: `Downloader` has Render as one step, with the outcomes that `Render`'s properties allow.

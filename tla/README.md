# Verification of TelegramOnlinePlayer

TLA+ models of the program in `src/`, checked with TLC on small instances and, for the
results listed under *Proofs*, proved with TLAPS for every value of the constants. Every
definition is translated from the Go source; the docs are only used as statements to check
the code against.

## The system

Three programs and a browser page:

* **app** (`cmd/app`) serves the site: login, catalog, play URLs, playback. It owns the local
  media cache and the background preparation of recordings a browser cannot play as they are.
* **broker** (`cmd/broker`) is the only program that talks to Telegram. It serialises its calls
  through a gate and offers export, size, range and whole-file downloads over HTTP.
* **sync** (`cmd/sync`) is run periodically: it asks the broker for new messages of each
  enabled channel and upserts them into the catalog.
* **PostgreSQL** holds the catalog (`telegram_media`, `channels`). The app and sync share it.

### Components

| component | state it keeps | operations | talks to | what is hard | what makes it correct |
|---|---|---|---|---|---|
| media cache `mediacache/cache.go` | index of files with size and last access, running total, mutex; files on disk | `New`, `Lookup`, `Store`, `evictToFitLocked` | file system | concurrent `Store`s, failing rename/remove, restart over a full directory, the protection window | ledger = index; limit kept; index backed by files; a file stays for the window after its `Store` (or `Lookup`); no needless refusal or eviction |
| media preparer `mediaprep/preparer.go` | in-flight table, transcode semaphore, temp files | `Prepare`, `run` (background) | store, broker client, ffmpeg, cache | stale reads before `Prepare`, every step may fail, shutdown and crash in the middle | single flight; slots returned; nothing half-written published; status honest; workers end |
| play handlers `httpserver/play.go` | none (URLs are signed, `auth/playurl.go`) | `play-url`, `status`, `/play` | store, preparer, cache files, broker | check-then-act on the row, file evicted under a ready row, range arithmetic | a URL is only given for something that plays; 202 leads to progress |
| catalog store `catalog/store.go` | rows of `telegram_media`, `channels` | `UpsertMedia`, `UpdateCache`, `MediaByToken`, `MaxMessageID`, lists | PostgreSQL | two owners of one row: sync and app | sync does not touch cache columns; tokens are stable |
| syncer `syncer/syncer.go` | none between runs: the offset is `MAX(message_id)` | `SyncAll`, `SyncChannel` | store, broker client | an upsert that fails in the middle, overlapping runs | every message is eventually catalogued |
| broker gate and transfers `broker/ratelimit.go`, `download.go`, `export.go` | rate limiter, concurrency channel | `call`, `ReadRange`, `Download`, `ExportHistory` | Telegram | a slot held for a whole download, flood waits, block alignment | bounded concurrency; exact bytes; every caller is served |
| broker login steps `broker/steps.go`, `auth.go` | step tokens with expiry | `Status`, `SendCode`, `SignIn`, `CheckPassword`, `Logout` | Telegram; the admin page through `httpserver/admin.go`, `brokerclient` | expiry between lookup and answer, lost answers, double clicks, restarts | a dead step stays dead; a password is sent only under a step that needs one |
| auth `auth/*.go` | login limiter's table; sessions are in cookies | `Locked`, `RecordFail`, `Issue`, `Verify`, `MaybeRenew`, `Sign` | - | concurrent logins, overlapping renewals, clock | a lock stops what comes after it, and what lifts it early is a login that came before it; an idle session ends, a used one slides |
| HTTP server `httpserver/server.go`, `middleware.go` | routes | login, logout, start-up, shutdown | auth | order of limiter calls | as auth |
| frontend `web/app.js` | navigation generation, timers | render, `preparePlayback`, `pollStatus` | HTTP API | answers that arrive after navigation, polling that never ends | a player shows its own recording; late answers put neither another wizard nor the account page in the place of a wizard; polling ends |
| migration `db/migrate.go` | `schema_migrations` | `Migrate` | PostgreSQL | two programs start together | each migration is applied once |
| brokerclient, normalize, parse, config, catalog/admin handlers | none | wrappers and pure functions | - | - | - |

The hazards these behaviours bring, each at its source line, are listed in `PROJECT.json`
under `hazards`, with the properties that watch over them, or the reason why none does.

## Modules

| module | models |
|---|---|
| `MediaCache` | the cache, one step per point where another goroutine, the clock or a crash can intervene |
| `MCMediaCache` | its instance for TLC |
| `MediaCache_proofs` | its theorems |
| `PrepContract` | abstract specification: attempts, statuses and published files, without workers, requests, errors or temp files |
| `MediaPrep` | the preparer, the play-url handler that triggers it and the cache columns it writes |
| `MCMediaPrep` | its instance for TLC |
| `MediaPrep_proofs`, `MediaPrepContract_proofs` | its theorems, and that it implements `PrepContract` |
| `Syncer` | runs of the synchronisation, the rows they write and the messages they export |
| `MCSyncer` | its instances for TLC |
| `Syncer_proofs` | its theorems |
| `Passthrough` | playing a recording as it is: ranges, windows, blocks, and the broker's gate |
| `MCPassthrough` | its instance for TLC |
| `Passthrough_proofs` | its theorems |
| `Playback` | the player's page, the play handlers, signed URLs and cached files, over `PrepContract` |
| `MCPlayback` | its instance for TLC |
| `Playback_proofs` | its theorems |
| `Watching` | `Playback` with a memory of which file was last served when |
| `MCWatching` | its instance for TLC |
| `LoginSteps` | logging the broker in to Telegram: admin page, backend, broker, step store |
| `MCLoginSteps` | its instance for TLC |
| `LoginSteps_proofs` | its theorems |
| `Login` | the site's own login: limiter, session cookie, overlapping requests of one browser |
| `MCLogin` | its instance for TLC |
| `Login_proofs` | its theorems |

### MediaCache

`entries`, `total` and `mu` are the fields of `Cache`; `disk` is what lies under the final
names, `call` where each goroutine is inside `Store`. `Store` is split where it can be
observed or cut off: `StoreStat` (before the mutex), `StoreEnter` or `StoreTooLarge`, one
`Evict` per victim, then `StoreNoSpace`, `StoreRename` or `StoreRenameFails`, and
`StoreRegister`. `Lookup` is atomic, since it holds the mutex throughout. `Restart` is a new
process running `New` over the same directory: the index is empty, the files are still there.

The code evicts along a sorted slice and skips protected entries. Since a protected entry is
younger than every unprotected one, that is the same as taking the oldest unprotected entry
each time, which is what `Evict` does; entries of equal age come in any order, as
`sort.Slice` is not stable and the slice comes from a Go map.

`seen` is a history variable, the last access to a key that the cache was told of; no action
reads it. An access is a `Store` or a `Lookup`. `Lookup` is a public operation of the cache and
modelled as one, but nothing in the program calls it, so in the program the window of
`RecentStays` begins when the file is stored. That it does not begin again when the file is
watched is what `Watching` is about.

The package counts final files only. The comment on `maxBytes` (`cache.go:42`) and
`design.md:275` have the limit cover the temporary area too; no code does that, none of the
properties here covers it, and `LedgerExact` and `WithinLimit` are about final files alone.

### MediaPrep

`row` holds the mode and the cache columns of each token (the path and the error only as set
or not set). `play_mode` is written by sync from the file's name and type, which do not change
for a message, so it is fixed here. A request is two steps: `HandlePlayURL` reads a row and finds it
not playable; `PrepareStarts` or `PrepareJoins` is the later call of `Prepare`, whatever
happened in between. `worker` is the program counter of each background goroutine and the
actions follow `run`: `ReadRow`, `MarkPreparing`, `CreatePart`, `DownloadEnds`, `StartRemux` /
`AcquireSlot` / `AbandonWait`, `EncodeSucceeds` / `EncodeFails`, `StoreSucceeds` /
`StoreFails`, `PublishReady`, `RecordFailure`, `Release`. The deferred clean-ups are part of
the action by which `run` returns. Every database call may fail; with `InDoubt` a write may
have been applied although its call reports an error. `Shutdown` cancels the context, after
which no database call succeeds but goroutines run on; `Restart` may come at any time.

File contents are told apart as absent, partial, short (complete, but made from a source that
was cut off) and whole. `stranded` is a history variable: tokens whose worker was killed, or
whose last write was refused. No action's guard reads it.

`MediaPrep` uses `MediaCache` through the outcomes of `Store` only. That a file may later be
evicted is `Playback`'s subject, which instantiates `PrepContract` in place of this module.

### PrepContract

What a user of the preparer may rely on: at most one attempt per token; only an attempt
changes the status of its token; `ready` only from `preparing`, and only once a file of that
token has been published; `failed` and the end of an attempt at any time, since every step may
fail. `MediaPrep!ContractKept` instantiates it with the refinement mapping
attempts = tokens of active workers, status = the `state` column, published = tokens with a
final file.

### Syncer

`posted` is what the channels hold, `rows` the table `telegram_media` by its unique key,
`enabled` the channels to synchronise. `run` is the program counter of each process, with the
locals of `SyncAll` and `SyncChannel` that matter: the channels still to do (`todo`), the
offset (`since`) and what is left of the export (`batch`). `ReadMax`, `ExportHistory` and
`UpsertMedia` are the three calls, each with its failure (`ReadMaxFails`, `ExportFails`,
`UpsertFails`); a failed upsert may have been carried out. `ExportHistory` pages through the
history from newest to oldest, so what it returns is the state of the channel when it began.
`Cancel` is the signal that cancels the context, `Kill` the end of the process anywhere; a
process identity is used again by a later run. `Post` and `UpdateCache` are the rest of the
world: new messages, and the app writing its cache columns.

`dropped` is a history variable (messages whose upsert failed); no action reads it.

### Passthrough

A byte is known by its place in the file. `player` is the request each browser has in progress:
`Request` is `servePassthrough` up to its loop, with `ParseRange`; a window is read by `Enter`
and `Resolved` (the call of the gate that finds the file, where `ReadRange` learns its length)
and then one `Enter` and `GotBlock` per aligned block, the last of which trims what was read.
Then the window goes out to the viewer (stage `"write"`): `Written` when it has taken the bytes,
as late as it likes, or `WriteFails` with a part of them. No slot is held meanwhile, and nothing
ends a write to a viewer that keeps its connection and does not read, since the server sets no
`WriteTimeout` (`server.go:83-87`). `CallFails` and `Leave` are the ways in which a call of
Telegram, or the wait for it, ends early; the response head is out by then, so the handler can
only break off. `total` is the length in the catalog, `size` that of the file: sync writes the
one when it first sees the message, and nothing makes them agree. `sem` is the length of the
gate's channel, and `download` the whole-file downloads, which hold a slot from start to end.

The URL's signature is taken to be valid and the row to be of a passthrough recording; a
`HEAD` request ends after the head and is left out, as is the rate limiter, which only delays.

### Playback

`chain` is a call of `renderPlay` with what follows from it: the request for the details
(`Open`, `GotMedia`, `NoMedia`), the one for a URL (`PlayURL` or `Accept` in the server, then
`GotURL`, `GotAccepted`, `NoURL` in the page), and the polling (`Timer`, `PlayStatus`,
`GotStatus`, `NoStatus`). `stale` says that `gen !== nav`: leaving or opening a page makes all
calls under way for it stale, and `SignedOut` (a 401, which shows the login view) does too. `tab`
is what a page shows: with a player, the notice, the recording the notice is about, and the URL
its video plays.

The preparer is `PrepContract`, whose steps are the actions of `Preparation` and of `Accept`;
`MediaPrep` was shown to implement it. Of the cache there is a file per recording with the time
it was stored, which is the last access the cache ever learns of, since nothing in the program
calls `Lookup`. `Stored` may cost other files theirs, `MakesRoom` is the storing of a recording
outside the model, and `Restart` forgets the index but not the files. `Play` is an operator, not
an action: `handlePlay` changes nothing, so its answer is a function of the state, and the
property asks what it would be at any time.

`PromptPlayWorks` is about a prompt play: the window it speaks of begins when the file was
stored, and it claims nothing for a viewing that lasts longer. For that there is `Watching`: its
`Watch` is a range request that `handlePlay` answers with the cached file, and `WatchedStays` is
what the design (`design.md:278`) and the cache's own comment (`cache.go:129`) promise, that a
file accessed within the window is not evicted. The program breaks it (finding 5).

Observed while modelling:

* A row stays `ready` when its file is evicted; `Prepare` then returns early (`preparer.go:107`)
  and `/play` answers 404 until something else changes the row.
* The design has the page ask for a new URL by itself when the video fails or `/play` answers
  403 or 409 (`design.md:415`). There is no such handler in `app.js`: an expired URL, or a file
  that is gone, ends the viewing until the user opens the page again. No run is about this; the
  page is modelled as it is, without the retry.
* The error branch of `renderPlay` does not compare the generation (`app.js:154`): a late failure
  of an earlier page wipes the player that is shown. A poll that then finds `failed` throws on
  the missing element and is caught as a failed poll (`app.js:204, 208`), so it polls for ever.
* Polling is endless for a recording whose attempt was killed, or when there is no preparer.

`PollingEnds` exempts exactly the last two; without either exemption TLC finds it violated.

### LoginSteps

One request of the admin page is followed from the click (`ClickGo`, `ClickLogout`, `OpenAdmin`)
through backend and broker (`NotServed`, `Forward`, `GetStep`, `CheckNeeds`), to Telegram
(`TelegramActs`) and back (`CodeSent`, `StepAnswered`, `Passed`), to what the page does with it
(`GotStatus`, `GotCode`, `GotPasswordNeeded`, `GotDone`). `CallFails` is a refusal, or a
connection that breaks on any stretch of the way; a call cut off has had its effect or never
has. `step` is the store of `steps.go`: a step that was deleted remains readable, as the record
does through the pointer a handler holds. `Restart` is a new broker with an empty store.
Telegram is external: it accepts the newest code, asks for a password if the account has one,
and knows whether the account is logged in.

In the page, `wiz` is the call of `adminWizard` whose elements are shown and `button` the handler
the button `go` has. They differ when an answer arrives late: `codeStep` and `pwdStep` look the
button up in the page now shown (`app.js:279, 297`), so a late answer takes over another
wizard's button (`ShowForm`). `ClickGo` needs the two to agree in form, because the handler
reads its own form's input and does nothing without it.

**The step a password form names.** The comment on `SignIn` has the password go on under the same
step token (`auth.go:65-66`). The page does not keep to it: a second click on "send code" gives
the wizard a second step (`app.js:271`), and when the sign-in under the first one is then
answered, the password form names the second. That step is alive and waits for no password, so
the broker refuses it (`ErrPasswordNotNeeded`, `auth.go:97-99`), and the login has to begin again.
This contradicts the comment. No run is devoted to it: the model has the behaviour, no invariant
claims its absence, and the theorem `PasswordsShown` states the condition under which the
comment is right, that the wizard was given one code. What does hold whatever the number of codes
is `PasswordFormOwn` (the form is shown only in a wizard that was asked for a password) and
`PasswordAsked` (the password does not reach Telegram under a step that needs none).

Observed: `renderAdmin()` after a late answer takes the user back to the admin page
(`app.js:289, 306`); a status request that fails late writes over the page now shown, a wizard
included (`app.js:220-224`; `WizardKept` allows this, and only excludes that another wizard or
the account page takes a wizard's place); a 502 has no `logged_in` and shows the wizard; expired
steps are never swept (`steps.go:83` has no caller).

### Login

`req` are the requests of one browser, `jar` its cookie, known by its expiry. A login takes the
time when it arrives (`LoginArrives`) and uses that time for everything after the password was
compared (`LoginWrong`, `LoginRight`); `Use` is `requireAuth` before any protected handler;
`Receive` is the answer's arrival, in any order, with whatever cookie it sets; `Lost` a broken
connection. `Sweep` runs every minute, so at any time. `lockedAt`, `served` and `answered` are
history variables; no action's guard reads them.

Observed: logins under way together all pass the check; a failure older than the lock whose
window is over replaces the locked entry (`ratelimit.go:50-52`), so that such a login does lift
the lock early, which is what `LockKept` leaves open; the first failure of a window never locks,
even with `maxFails` 1; the renewal's answer that arrives after a logout's brings the cookie
back; the page shows the login view even if the logout failed (`app.js:57`). A restart is not
modelled: the limiter would be empty, and the cookie as good as before.

## Runs

| run | question | result |
|---|---|---|
| `media_cache` | do ledger, index and directory stay in step, do files stay for the window after their `Store` or `Lookup`, are refusals and evictions justified, does every `Store` return? | holds |
| `media_cache_restart` | does the directory keep to the limit the package comment promises? | violated: a restart forgets the files on disk |
| `media_prep` | does the preparer keep its contract, its limits, and its temp files in order, and do its workers end? | holds |
| `media_prep_ready_fails` | does a ready row stay ready, as the comment on `UpdateCache` draws it? | violated: a late `Prepare` whose read fails overwrites it |
| `media_prep_short` | is a row only ready for a recording that was downloaded completely, as `Client.Download` announces? | violated: the broker answers 200 before it can fail |
| `syncer` | do overlapping and interrupted runs leave no gap below the offset, do they keep tokens and cache columns, and does each message of a channel whose calls succeed now and again get catalogued or lost, when another channel always fails and no export hangs for ever? | holds |
| `syncer_dropped` | is it enough to run the synchronisation periodically, as the README says? | violated: a message that failed once under a newer one is never seen again |
| `passthrough` | are the bytes sent those that were asked for, is the status right, are slots given back, and does a stream end whose viewer takes its bytes, where Telegram serves? | holds |
| `playback` | does a player show and play its own recording, does a URL that was handed out work while the file's window from its `Store` lasts, does polling end where it can? | holds |
| `playback_watched` | is a file that was served within the window still there, as the design and the cache's comment say? | violated: serving a file is no access, so it is evicted while it is watched |
| `login_steps` | do dead steps stay dead, are passwords sent, and asked of the user, only where Telegram asked, and do late answers put no other wizard or account page in a wizard's place? | holds |
| `login` | does a lock stop what comes after it, is it lifted early only by logins from before it, do idle sessions end and used ones slide? | holds |

### Bounds

* `media_cache`: two keys, two callers, sizes 1 to 3 in a cache of 2, a window of one tick, a
  clock of 3 ticks, all faults. Size 3 is too large, size 2 fills the cache, two of size 1 fit
  together; a store of size 2 over two of size 1 needs two victims; a key can be replaced by a
  smaller and by a larger file; the clock is long enough for an entry to be fresh, protected
  at the exact boundary, and expired. Two callers are enough to have one wait for the mutex
  while the other is between any two of its steps; a third would only wait too. `MaxClock`
  bounds the run: at the last tick the clock stops, which disables nothing but `Tick`.
* `media_prep`: two tokens, two workers, one request at a time being served,
  `TranscodeConcurrency = 0`, so that `New`'s correction to one slot is exercised and two
  transcodes compete for it. Two workers suffice: with single flight there is at most one per
  token, and a spare identity for a second worker on the other token exists whenever one is
  idle, which is how `SingleFlight` would be violated. One handler suffices, since a request
  stays pending for as long as it likes while workers come and go. The modes are the pairs
  named in `MCMediaPrep`.

* `syncer`: two processes, so that one can be between any two of its calls while the other does
  a whole run; two channels, of which the first in the list posts nothing and fails at will (its
  export may also hang), and the second is healthy and posts two messages, the fewest with an
  older and a newer one: a batch can be cut between them, another run's export can begin between
  them, and one can be lost below the other. Rows of different channels share nothing, so
  messages in both add nothing. A third message only makes batches longer: the order in a batch
  is by pairs.
* `syncer_dropped`: the same channels, both posting; one process that runs again and again.
  `MaxMessage` bounds the ids; at the bound nothing is posted any more.
* `passthrough`: lengths 0, 3 and 5 in the catalog and, independently, of the file, blocks of 2
  and windows of 3, so that windows begin inside a block, cross one boundary or two, and the last
  block and the last window are short; a window is written to its viewer in full or in part;
  headers of each form, inside the file and beyond its end. `MaxConcurrent` is 0, so that
  `newGate` corrects it to one slot, for which two browsers and a download compete.
* `playback`: one page, two calls under way, one recording that needs preparation and one that
  does not, with and without a preparer, URLs that live for one tick, a window of one tick, a
  clock of two. Two calls are what it takes for an earlier page's answer to meet a later page; at
  the second tick a file of tick 0 is past its window, so evictions happen, and a URL of tick 0
  is expired while one of tick 1 still is valid and its file may be gone. Both refusals of a
  valid URL are reachable.
* `playback_watched`: one page, one call, one recording that needs preparation, URLs that live for
  two ticks and a window of one: the file is stored at tick 0, watched at tick 2, and evicted.
* `login_steps`: one page, two wizards and two requests (a double click, or an answer of the
  earlier wizard while the next is shown), two steps and two codes, a step that lives one tick
  and a clock of two, so that it expires and another one is created after that; a broker that is
  absent, refuses or serves; accounts with and without a password.
* `login`: one address (entries of different addresses share nothing), two requests under way, two
  failures to lock, a lock that outlasts the window, sessions of three ticks renewed when one is
  left, requests of at most one tick, a clock of seven. This is the smallest instance in which
  `RenewWithin + 2 * MaxDelay <= MaxAge` holds with both positive, and the clock has room for a
  session, its renewal and its end.

### Fairness

* `MediaCache`: strong fairness of each caller's own steps. A caller waits only for the mutex,
  and `sync.Mutex` in its starvation mode hands over in arrival order. Nothing makes callers
  call, time pass or the process stop.
* `MediaPrep`: weak fairness of each worker's own steps (database calls return, since the pool
  and its context bound them; ffmpeg is killed after its timeout, `normalize/ffmpeg.go:38`), and strong
  fairness of `AcquireSlot`: senders blocked on a Go channel are served in order. **No**
  fairness of `DownloadEnds`: the broker client uses `http.DefaultClient`, which has no timeout,
  so a download may hang for ever. `FinishesOnceDownloaded` is therefore stated from
  normalisation on.

* `Syncer`: cron starts runs for ever and a run takes its next step (weak fairness), which takes
  for granted that the database answers, with success or not: with it everything stops.
  **Not** so an export (`OwnStep` leaves it out): the broker client has no timeout
  (`client.go:28`; `cmd/sync/main.go:129` passes none of its own) and the context no deadline, so the
  export of any channel may hang, and the run never comes to the channels after it. A call that
  is made again and again for a *healthy* channel succeeds at some time (strong fairness of its
  three calls); runs are stopped or killed finitely often, since otherwise none need ever get
  anywhere. `EventuallySettled` and `PeriodicRunsSuffice` therefore have a condition,
  `Unblocked`: some process does not wait for one export for ever. How often the export of
  another channel fails, and whether the other process hangs in one, does not matter.
* `Passthrough`: senders blocked on the gate's channel are served in order (strong fairness of
  `Enter`). Nothing makes a call of Telegram, a write to a viewer or a download end.
  `StreamsEnd` therefore has two conditions: Telegram serves (`Served`: again and again the broker
  is connected and the downloads leave a slot, and no call for a window hangs for ever), and the
  stream's own viewer does not leave a window untaken for ever. Other viewers may: the property
  says that a viewer who stops reading holds up nobody else.
* `Playback`: the page's timers fire, and each request is answered or fails (weak fairness of
  `Answered \/ Fails`); a poll repeated for ever gets its answer, and the page receives it, at some
  time (strong fairness of `PlayStatus` and `GotStatus`). Nothing makes a preparation end, since
  its download may hang; `PollingEnds` is about behaviours in which preparations have ended.
* `LoginSteps`, `Login` and `Watching` state safety only, and assume nothing.

## Proofs

All theorems hold for any value of the constants under the `ASSUME`s of the modules:
the constants have their types (`SizesAssumption`, `LimitAssumption`, `FaultsAssumption`,
`ConcurrencyAssumption`, `ModesAssumption`, `InDoubtAssumption`), the two "nobody" values are
not members of the sets they stand outside of (`FreeAssumption`, `NobodyAssumption`), and
there are finitely many goroutines (`WorkersAssumption`, for the cardinality in
`TranscodeBound` only). `Syncer`'s are the types of its constants, and `Passthrough`'s too, with
finitely many callers. `Playback`'s and `LoginSteps`' are the types of theirs. `Login` assumes that
a request is under way for at most `MaxDelay` and that `RenewWithin + 2 * MaxDelay <= MaxAge`:
seconds against days in the shipped configuration.

* **MediaCache_proofs**: `TypeCorrect`, `LimitKept`, `IndexBacked`, `WindowKept`, `TotalExact`,
  `DirectoryBounded`, `RefusalsJustified`, `EvictionsNeeded`. The limit is
  not inductive by itself: that a registration keeps it rests on the caller between fit check
  and registration being alone (`LockHeld`: a caller past the mutex holds it) and on the room
  it made still being there (`RoomMade`). `IndexBacked` needs the same two facts, since an
  eviction by another caller would delete the file just renamed. Together these are
  `LedgerInv`. The protection window adds that no time in the index, in a call or in the
  history is in the future (`TimesPast`) and that the index remembers every access the window
  still covers (`Remembered`): `WindowInv`.
  Sums of sizes are counted as bytes, because the induction behind a fold over a function cannot
  be instantiated here: `BytesOf` gives a file of size *n* the *n* pairs of its key with
  1 .. *n*, and a sum is the cardinality of that set. What the code does to `total` then follows
  from facts about finite sets (`BytesApart`, `BytesWithout`, `BytesPut`). `ExactInv` adds to
  `LedgerInv` that the bytes in the index are finitely many and that `total` counts them.
  A file on disk that is not in the index yet is then covered by the room made for it
  (`DiskBounded`), a refusal by what is left in the index when every entry is protected, and an
  eviction by the fit check and the choice of the victim (`VictimOldest`).
* **MediaPrep_proofs**: `OneWorkerPerToken` from `FlightInv`: the in-flight table is exactly
  the set of tokens of active workers. `TranscodesBounded` from `SlotInv`: the number of
  entries in the channel is the number of transcodes running, along every way in and out.
  `TypeCorrect` follows, since the range of `slots` is that bound.
* **MediaPrepContract_proofs**: `ContractInv` says what each step of a worker relies on: the
  row still says `preparing` from the announcement on, the source file is finished before it is
  encoded, the output before it is stored, the final file is there before it is published, and
  a worker about to leave has settled its row. It is inductive because of single flight: a step
  of one worker leaves every other token alone (`OthersKept`). It gives `PreparingIsOwned`,
  `FilesWhole` and `KeepsContract`, the refinement: initial states map to initial states, and
  each step maps to the step of `PrepContract` of the same meaning or to a stutter
  (`ContractSteps`).
  `TempsReleased` follows the temporary files of a token through every place its worker can be
  at (`TempRelied`): what is there when a worker leaves depends on the way it took, so that the
  statement about tokens without a worker is inductive only with the one about those at work.
  `OfferedFinished` is what a client gets from the contract: `ContractDelivers` is proved of
  `PrepContract` alone, and the refinement carries it over to rows and files.
* **Syncer_proofs**: `TypeCorrect`, `OffsetsSafe` and `RowsKept`. That there is no gap below a
  catalogued message is not inductive: it rests on where an offset comes from. `OffsetInv` adds
  that only posted messages are catalogued (`PostedOnly`), that the offset of an export is 0 or
  catalogued (`SinceKnown`), and that what lies below a message of a batch is settled or comes
  before it in the batch (`BatchReaches`). A step of another run only settles more messages,
  and a new message is above all others, so both leave it alone.
* **Passthrough_proofs**: `TypeCorrect`, `GateKept`, `BodiesExact` and `BodiesComplete`, from
  one invariant `Inv`. `StreamOK` says of a request in progress that its body is the stretch of
  bytes from the first one asked for up to the window, and its buffer the stretch from the block
  boundary below the window up to the next block, or the window itself while it is being
  written; `AnswerOK` keeps of that what the answer has.
  With two lemmas about stretches, that adjacent ones join (`BytesConcat`) and that a part of one
  is one (`BytesSub`), each block and window extends them. That the range itself is what the
  header asks for is `ParseExact`. The gate is counted as in the preparer.

* **Playback_proofs**: `TypeCorrect`, `OwnPage`, `PromptPlay`, from `PlayInv`. A call that is not
  stale knows that its page still shows its recording (`OwnOK`), so whatever it writes is about
  that one; the failure in `GotStatus` is the case that needs it. A URL is only signed for a
  recording that is played as it is or was published (`SignedOK`, carried to the page by
  `PagesOK`), and a published file is there or was stored longer ago than the window (`FilesOK`).
* **LoginSteps_proofs**: `TypeCorrect`, `AskedFirst`, `DeadForGood`, `WizardsKept`, `FormsOwn`,
  `PasswordsShown`. A step's flag is set only by an answer of Telegram's that asked under it
  (`NeedsAsked`, with `RequestsOK` for the answers under way), and nothing takes it back: that
  carries `AskedFirst` past the read without a lock. `WizardsKept` rests on there being at most
  one status request per page that is still wanted, and on a page that shows a wizard having
  none. `FormsOwn` and `PasswordsShown` rest on `GivenInv`: a wizard's requests go under steps it
  was given (`ClaimsOK`), answers that bring a step bring different ones, which no wizard has
  (`Distinct`), and a wizard names one of its steps (`WizardsOK`). A step that replaces one under
  a password form is therefore a second one, so that in a wizard with one code (`OneCode`) the
  form names the step Telegram asked under.
* **Login_proofs**: `TypeCorrect`, `LateRefused`, `LocksKept`, `IdleOut`, `ActiveStay`, from
  `LoginInv`. The hard one is `ActiveStay`: answers arrive in any order, so an older cookie may
  replace a newer one. `RequestOK` relates each request to what the jar has come to hold since
  it was sent: no shorter-lived than what was sent along, or issued at most `MaxDelay` before.

Four more theorems say what the violations of the cache, the preparer and the syncer hinge on:

| run | theorem | what it shows |
|---|---|---|
| `media_cache_restart` | `CapWithoutEscapes` | without restarts and failing removals (`NothingEscapes`) no file escapes the index, and the directory never passes the limit |
| `media_prep_ready_fails` | `ReadyWithoutLateCalls` | where no write is in doubt (`InDoubt = FALSE`) and every request calls `Prepare` before its row becomes playable (`Timely`), ready is final; `ReadyInv` adds that whoever's row is ready has only to leave |
| `media_prep_short` | `WholeWithWholeDownloads` | if no download ends short (`NoneShort`), every ready row has its whole file: nothing else in the preparer cuts one off |
| `syncer_dropped` | `MissedForGood` | a message below a catalogued one that no run under way has before it (`OutOfReach`) stays so: no later run, however many, makes up for it |

The first three have a hypothesis that some behaviours meet and others do not, which is the
point of them: it is the part of the code's surroundings that the comments take for granted.
None of them is used by another theorem. `Watching` has no theorem: the other half of
`playback_watched`, that a file stays for the window after its `Store`, is `WindowKept` of the cache
and `PromptPlay` of the player.

Every invariant and action property that a passing run checks is proved. Only model-checked are
the liveness properties `StoreReturns`, `FinishesOnceDownloaded`, `EventuallySettled`,
`StreamsEnd` and `PollingEnds`, since fairness and `ENABLED` are out of the prover's reach, and
the five violations themselves.

## Findings

1. **Limit after a restart.** `New` starts with an empty index over a directory that keeps its
   files (`cache.go:48-57`): what was cached is served while its row says ready, is never
   evicted, and does not count.
2. **A ready row can fail.** The handler's read and `Prepare` are separate, and `Prepare`'s
   error path writes `failed` unconditionally: a worker started for a request that read the
   row too early throws away a finished preparation when its own read of the row fails.
3. **A cut-off download is published.** The broker cannot report an error after its 200, does
   not abort the connection, and sends no length; the client takes the early end for the end.
4. **A failed upsert loses its message.** The batch goes on after a failure and the next offset
   is the largest id stored, so a message below it is not exported again. It is the only way
   in the model: `OffsetSafe` says that overlap, stops and crashes lose none.
5. **A file is evicted while it is watched.** The window that protects a file from eviction is
   counted from the last access, and `handlePlay` serves the file without telling the cache
   (`play.go:111`; `Lookup` has no caller). So it is counted from the `Store`: a viewing that
   lasts longer than the window may lose its file between two range requests, although
   `design.md:278` and `cache.go:129` say that what was accessed lately is not evicted.

## Plan

Done: `MediaCache`, `MediaPrep` with `PrepContract`, `Syncer`, `Passthrough`, `Playback`,
`LoginSteps`, `Login`, each with its runs and proofs, and `Watching` with its run. What is left
is more depth, in this order:

1. The other half of `Playback`'s surroundings as a contract: it instantiates `PrepContract` for
   the preparer, but says itself when a file may be evicted. An abstract specification of the
   cache (a key that was stored or looked up stays for the window, a `Store` that succeeded is
   found), implemented by `MediaCache` and used by `Playback`.
2. The site's session (`Login`) composed with the admin page (`LoginSteps`): a 401 in the middle
   of a wizard leaves its other requests under way.
3. Two pages at a time in `playback` and `login_steps`, whose theorems already hold for any
   number.

## Not modelled

HTTP and JSON encoding, routing, logging, the health check, starting and stopping listeners,
configuration (read once), cryptography (signatures and hashes are taken to do their job), the
listings of the catalog and the pages that show them, the rate limiter (it only delays),
argument building for ffmpeg and parsing of ffprobe output, the parsing of file names, and the
terminal dialogue of `hash-password`: they keep no state, and their behaviour is a function of
one input that unit tests cover. Telegram, PostgreSQL, the file system and ffmpeg appear through
the outcomes their callers see.

Database migration (`db/migrate.go`): the one hazard is two programs that start together and read
the same version before either has applied the migration. What follows is decided by PostgreSQL's
locking of its own catalog tables, which is not in `src/`; a model would show only what it
assumes of that. The loop itself is sequential.

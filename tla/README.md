# TLA+ specifications of the Jet-Hub provider plugins

The repository is a set of Go plugins for the CLIProxyAPI host (CPA): twelve
plugins, eleven of them ports of vendors' coding assistants and one a check-in
hub, over a shared library (`internal/abiboot`, `internal/jethub/*`).  A plugin
answers the host's calls (executor requests, `auth.refresh`, `auth.login.*`,
`model.for_auth`, management pages), calls back into the host (HTTP, the auth
files, the log), and runs a few goroutines of its own.  The host may make
several calls at once.

What is hard in it is not any one function but that

* the *auth file* of an account is rewritten, whole, by the executor, the
  host's refresh loop, the status page, the catalogue refresh, the logins and
  the operator;
* a *refresh token* may be usable only once, and several goroutines hold the
  same one;
* the *model catalogue* passes through a cache, an auth file and the host's
  registry, each of which can be behind the others;
* *sign-ins* share one callback port or one vendor's session, are polled from
  several panels and may be replaced, expire or be shut down at any moment;
* each of eleven vendors reports a refusal, a full queue or a broken stream in
  its own way, some of them in a success;
* a *check-in* is abandoned at its deadline and goes on nevertheless.

The modules model these.  What is left out is listed at the end.


## Inventory

| component | state | operations | meets the others through | hard because of | correct when |
|---|---|---|---|---|---|
| freshness check, `jethub/authrefresh` | `Refresher.states`: per key the refresh in flight, the last attempt and error, the terminal verdict | `Ensure`, `EnsureUsable`, `renew`, `finish` | the auth file, the vendor | several goroutines, two lock sections and a channel per renewal, three writers of one file | one renewal per key, a cooldown between two, no lost wake-up, no false "log in again", the stored grant stays usable |
| host handle, `abiboot/host.go`, `credjson/merge.go` | `Host.Incoming`, the auth files | `SaveAuth`, `GetAuth`, `storedAuthFile`, `MergePreserved` | the auth files | whole-file writes of what was read earlier; handles that outlive one credential | keys and grants stay with their account, the operator's members survive |
| renewals, each plugin's `credential.go`, `config.go`, `auth.go` | the credential | `handleAuthRefresh`, `refreshCredential` | the vendor, the auth file | what an answer omits is merged back from the file | the file keeps a grant that is honoured, with its own expiry |
| requests, each plugin's `executor.go` | the account, the request | the execute handlers, error classification | the freshness check, the vendor | a renewal in the middle of a request, refusals that look alike | a resend is earned, blame follows a try, every call ends |
| event streams, `sse`, each plugin's translator | the frames read, the chunk being folded | feed, fold, finish | the vendor, the client | calls in pieces, errors after a 200, cut lines | a failure is reported, a call is whole, both handlers agree |
| histories, each plugin's `translate.go` | - | the messages of a request | the client, the vendor | answers must follow their calls | pairs stay pairs, no word is lost |
| DSML, `codearts/dsml.go` | the parser's hold-back buffer | feed, flush | the stream | markers cut anywhere | the deltas mean what the whole text means |
| catalogue refresh, `jethub/catalog/catalog.go` and each plugin's `catalogrefresh.go`, `models.go` | `modelCache`, `refreshLock`, the host's registry | `Run`, `Publish`, `modelCache.get/put/reset`, `handleModelForAuth` | the auth files, the host's registry | failures between its steps, `model.for_auth` at the same time | the registry follows the vendor |
| catalogue scheduler, `jethub/catalog/scheduler.go` | interval, the armed loop's channel | `SetInterval`, `Start`, `Stop`, `loop` | the plugin's configure, quiesce and shutdown | reconfiguration from two threads, loops that end later | one loop, with the current setting; no channel closed twice |
| model listings of the ten plugins | discovery caches, the first account | refresh, `model.for_auth`, restore | the vendor, the registry | two accounts, one registry, a change that is told once | a press is served, the first account stays current |
| browser sign-in, `codearts/loginserver.go`, `auth.go`, `oauthcb` (trae, lobsterai alike) | `loginSessions`, the listener's buffer | `startLoginSession`, `dispatchCallbacks`, `deliver`, `handleAuthLoginPoll`, expiry | the browser, the vendor, the panels | callbacks without an address, panels that poll together, expiry at any moment | no replaced attempt takes a newer code, every attempt is settled |
| device-code sign-ins (minimax, zcode, cline, codebuddy, atomcode, qoder) | sessions with an interval, a failure count | start, poll, slow down, expiry | the vendor | two panels poll one session; `due` and `markAttempt` are two lock sections | not faster than the vendor allows, bounded retries, a grant is handed over |
| page sign-ins (raccoon, loomy) | sessions, scan codes, the pages' links and timers | load, scan poll, send, verify, bind | the phone, the vendor, the manager | tabs that reload themselves, a code saved twice | success is said only of what is saved |
| check-in hub, `plugins/hub`, and the plugins' check-ins | the run, the rows | `run`, `boundedCall`, look, claim | the plugins' management pages, over HTTP | abandoned calls, overlapping runs | a row says what happened |
| refresh and sign-in schedulers, `jethub/credits` (no production user) | generation, expiry, the sleep's cancel; the signers | `Arm`, `Stop`, `RefreshOnce`, `Run`; `Register`, `Run` | - | `Arm` and `Stop` while `Run` sleeps or refreshes | a stop stops, no account is signed twice in a pass |
| account pool, `jethub/accountpool` (no production user) | entries, rate limits, auth errors | `Upsert`, `Remove`, `Pick`, `Mark*`, `Clear*`, sweep | - | limits that expire, concurrent picks | not modelled |
| dispatch, envelopes and transport, `abiboot` | the routes, the host's caller | `Dispatch`, `HostCall`, `HTTPStream` | every plugin | streams closed twice, handlers that panic | not modelled |
| names, credential JSON, pages, icons, image budget, QR encoder, wire types, scripts | - | pure functions, rendering | - | - | not modelled |


## The modules

    RenewalGate         what the vendor is promised           (abstract)
    AuthRefresh         authrefresh.go, implements it         AuthRefreshProofs
    AuthFiles           who writes the auth files             AuthFilesProofs
    Verdicts            what each plugin calls an answer
    Requests            a chat request, over Verdicts         ChatsProofs
    Streams             a stream and its two readers          ChatsProofs
    CatalogRefresh      listing -> cache -> registry          BackgroundProofs
    CatalogScheduler    the loops that tick                   BackgroundProofs
    Discovery           the ten plugins' listings             TextsProofs
    LoginSessions       sign-ins on one callback port         LoginSessionsProofs
    PageLogin           sign-ins on the plugins' own pages    TextsProofs
    DeviceLogin         sign-ins by device code               BackgroundProofs
    Renewals            one renewal and the file after it     BackgroundProofs
    CheckIns            a run, its deadlines, its claims      BackgroundProofs
    Timers              the two schedulers of credits         BackgroundProofs
    Dsml                tool calls written in a text          DsmlProofs
    Histories           the messages of a request             HistoriesProofs
    MCAuthRefresh, MCAuthFiles, MCCatalogRefresh              values of constants
    MCFiles, MCRequests, MCBackground, MCTexts                sums, see below

The components meet in few places: the auth file, the vendor and the registry.
Where one module needs another's result it uses it (`AuthFiles` that a renewal
is the only one of its credential under way, `Requests` that what `Ensure`
answers is what `AuthRefresh` says; `CatalogRefresh` is what one tick of a loop
of `CatalogScheduler` does); apart from that each abstracts what they share to
what its own properties tell apart, and they share no variable.

A *sum* module checks several of them in one run.  A variable `part` says which
component a behaviour is of; it never changes, the other components' variables
stay at one initial state, and each property speaks of its own part.  The
states of a sum are the sum of the parts' states, not their product.

| sum | parts | run |
|---|---|---|
| `MCFiles` | renewals (`AuthRefresh`), catalogues and invocations (`AuthFiles`, twice) | `auth_files` |
| `MCRequests` | ensure (`AuthRefresh` with named and unnamed keys), requests, streams | `requests` |
| `MCBackground` | refresh (`CatalogRefresh`), scheduler, device, renewal, browser, check-in, timers | `background` |
| `MCTexts` | listings (`Discovery`), dsml, histories, pages | `texts` |

In each module a *slip* is an operator that stands for a plausible mistake in
the definition after it (a dropped guard, a missing reset).  No specification
uses the slips; replacing the definition by its slip shows which property
notices the mistake.  `PROJECT.json` pairs each property with a slip that
breaks it.

### AuthRefresh and RenewalGate

One credential, the goroutines that call `EnsureUsable` on it, and the other
writers of its file.  The bytes of a credential are numbered in the order the
vendor issued them, so equal numbers are equal fingerprints; `cred` says what
the bytes contain, `live` which grants the vendor still honours, `refused`
which bytes it has answered a terminal failure for.  `states` is
`Refresher.states` keyed by file name or, for unnamed requests, by the bytes.
A caller's `pc` goes

    idle -HandOver-> check -Check-> lock -Decide-> vendor -VendorAnswered-> save -Save-> finish
      -Record-> release -Release-> returned -Leave-> idle

with `joining` for a caller that waits for another one's renewal.  `Check` is
the part of `Ensure` before the lock (and reads the clock there, as the code
does); `Decide` is the first lock section with its four ways out; `Record` and
`Release` are the two halves of `finish`.  `HostStart/HostAnswered/HostStore`
is the host's own refresh, which does not go through the `Refresher`, and
`Login` a new sign-in under the same file name.

`RenewalGate` is the promise to the vendor: per key one renewal at a time, and
a cooldown from the end of one to the start of the next.  `AuthRefresh`
implements it by reading `inflight` and `lastAttempt`.

### AuthFiles

A file is a function from members to values: `keys` (what every credential of
the account has), `grant` (what it is renewed with, which not every vendor
answer carries) and `priority` (the operator's).  Values remember whose they
are.  A handle `h` serves one invocation after another of its kind; it keeps
`incoming`, the first file it saw, and merges every save into that
(`MergePreserved`).  The kinds are those of the code: executor and host refresh
(one credential), status page (each account in turn, one handle), catalogue
button and tick (first account, then a publish), login.  The tick's handle is
the one made when its loop was started and so serves all its ticks.  A save
looks the file up first (`LookUp`); when the host cannot list or read it, the
save goes on as if there were none, and `dropped` notes that the account was
saved without a look since the operator last edited it.  The operator edits and
deletes files in between.

### Verdicts and Requests

`Verdicts` is the error classification of the eleven plugins: from an answer
(its status, and what its body says) to an *envelope*, the code, status and
retry flag the host is given.  Each plugin is a short ordered list of rules; the
first that fits decides.

`Requests` is a request of one account: `idle -Arrive-> freshen -Freshen->
ahead -Ahead-> send -Send-> look`, then `-Look->` either `done`, `send` again (a
full queue, an empty answer, within the plugin's limits), or `renew -Renew->
store -Store-> send`.  `chatIssued` is the
newest generation the vendor has issued, `chatFile` the one on file, `chatLive`
those it honours, and `mislaid` says that one was lost on its way to the file.  A *policy* says of
each plugin whether it renews, before or after a refusal, whether it stores what
it renewed, how often it waits and resends.

### Streams

`source` is the vendor's stream, a sequence of frames: a text, a fragment of a
call (an index, perhaps an id, a name, a piece of the arguments), a reason, an
error, `[DONE]`, a line cut short.  `Feed` reads one, `End` and `Break` end the
body.  Both handlers of a plugin read the same frames: the streaming one passes
on chunks (`out`, `Chunks`, `StreamFailure`), the collecting one folds them into
a completion (`CompletionCalls`, `CompletionFailure`).  Eight plugins.

### Histories and Dsml

`Histories` translates a chat's messages to the vendor's, message by message,
for the nine plugins that are asked in OpenAI's shape: roles, calls and the
answers to them, words, images, the DSML prompt's place, trae's trim.

`Dsml` is codearts' stream parser: a `text` of pieces (markers, halves of
markers, words) is `fed` in deltas of any length, `parser` is what it holds back
and the block it is in, `Flush` ends it.  `Meaning` is the reference definition:
what the whole text says, read at once.

### CatalogRefresh, CatalogScheduler, Discovery

In `CatalogRefresh` a listing is a number that grows.  A worker inside
`catalog.Run` goes peek, reset, discover, put, publish, one step each, under
`refreshLock`; a publish only makes the host notice a changed file, and the
host then calls `model.for_auth`, which looks in the cache, discovers if it
must, fills the cache and answers, without that lock and so in the middle of a
refresh if it comes then.  `missed` is a history variable: since the last publish
the host has missed something the cache does not show (a publish or a
`model.for_auth` that failed, a listing stored into a refresh).

In `CatalogScheduler` the loops are model values, one per channel.  `Configure`
(`SetInterval`, then `Start`), `Quiesce`, `Stop` (take the channel under the
mutex), `Close` (close it outside), `Start`, and for a loop `Tick`, `Refreshed`,
`End`.  `quiet` is a history variable: a quiesce has come since the plugin was
last configured at rest.

`Discovery` is what the ten plugins do differently around that: two accounts,
`listed` (the caches), `kept` (zcode's restore), `current` (the registry), a
`pass` that a press or a tick begins (`BeginPass`) and that ends, fails or loses
its publish, `Enlist` for a `model.for_auth` and `Wander` for what else fills or
drops a cache.  The vendor's `Move` changes its products and `Lapse` keeps it
silent.

### LoginSessions, DeviceLogin, PageLogin

`LoginSessions`: attempts are numbered as they start, a code is named after the
attempt whose user brought it back.  `StartAttempt` is the locked part of
`startLoginSession` (purge, supersede on a pinned port, register); the
listener's buffer drops what it cannot hold; the dispatcher takes a callback,
takes a snapshot of the registry under the lock, and delivers to each session
outside of it (`Dispatch`); `Poll` and `Answer` read the code, exchange it
without any lock, then finish or fail the session, then forget it.
`ExpireLate` is the unsynchronised read of `finished` in `lookupLoginSession`.
The vendor accepts a code once and only for the verifier of the attempt it was
issued to.

`DeviceLogin` is one session of each of six flows and the panels (`watchers`)
that poll it: is it `due`, ask, read the reply, keep or end the session.
`Decide` is the user's and the vendor's part; the session may be outlived,
replaced (`StartAnother`) or shut down while a reply is under way.  `asks`,
`streak` and `lostCount` count what the interval and the retry budget bound.

`PageLogin` is the pages of raccoon (scan a code) and loomy (scan, or a code by
SMS, then bind a number): `session`, its `codes`, the `tabs` with the page each
shows and the timer it has set, the `phone`; `accepted` are the scans the vendor
has taken, `lost` those whose answer failed on its way back, `again` those a page
sent once more.  `Load` and `Follow` are the pages' own requests, `Scan` the phone's, `ManagerPoll` what the manager is told.

### Renewals, CheckIns, Timers

`Renewals` is one plugin's renewal as a step: what each of nine plugins makes of
an answer (`Renewed`, `RenewedInVain`, `Refused`, `Faltered`), the grant and the
expiry the merging save leaves on file, while tokens age and are revoked.

`CheckIns` is a run over one provider's accounts (`BeginRun`, `RunOn`), each
account one call with a deadline; an abandoned call goes on (`LookFirst`,
`Claim`) beside the next run's.  `taken` is what the vendor has given, `row`
what was said of it.

`Timers` has `RefreshScheduler` (`ArmTimer`, `StopTimer`, `RefreshOnce`, and
`Run`'s steps) and the sign-in `Scheduler` (`RegisterSigner`, its stop and
`Run`'s steps), one action per lock section and per wait.


## Runs

Each run ends by itself within five minutes on two cores.

| run | bounds | shows |
|---|---|---|
| `auth_files` | renewals: 2 callers of one named file, 3 generations of bytes, 2 clock ticks and a cooldown of 2, a rotating vendor that may refuse, logins, the host's loop. Files: 2 accounts; look-ups that fail; page, button and tick (removals only, 2 issues); request, host refresh and login (3 issues, 2 edits of a file nobody works on) | whoever writes last, the stored grant can be renewed or a renewable one is arriving (`FileStaysRenewable`); a caller is told to log in again only for bytes the vendor refused, its own or, as far as `ToldByOthers` says, the file's earlier ones (`DeadMeansRefused`); an account never gets another one's keys (`KeysStayHome`); its grant and the operator's routing members stay its own, but for what a login drops that could not look its file up (`OneFileIsKept`) |
| `requests` | ensure: 2 callers, named or not, 2 generations, lost, refused and empty answers, saves that fail. Requests: 2 of one account, each of eleven plugins, 8 answers, 3 generations. Streams: 8 plugins, 12 frames, 4 in a row | `SingleFlight`, `WaitersHaveARenewer` and the refinement `RenewalsAreGated`; a renewal orphans no grant (`GrantIsNeverOrphaned`), blame follows a try (`BlameFollowsATry`), a resend is earned (`SendIsEarned`); both readers of a stream find the same calls (`CallsAreTheSame`), report failures (`MostReportFailures`), tell a cut (`CutIsTold`), and pass on calls that can be made (`CallsCanBeMade`); every call ends (`EveryCallEnds`) |
| `background` | a tick, a button and `model.for_auth`, which overlap, 2 listings, 2 failures of any of their calls; 2 host threads, one quiesces, 2 periods and off, 2 loops; six flows, up to 2 panels, budget 2; nine renewers, 3 tokens; 2 pinned sign-ins, 2 panels, a buffer of 1, a stray callback, a failing exchange; nine providers, 2 runs over one account; 2 signers, 5 calls from outside | nothing discovered stays unpublished (`SettledMeansPublished`) and the registry comes to serve the vendor's listing (`RegistryCatchesUp`), each unless something was `missed`; one armed loop, with the current setting, closed once, the others end (`OneLoopArmed`, `SettingIsArmed`, `ClosedOnce`, `LoopsEnd`); polls keep their interval and budget, grants are handed over, sign-ins end (`PollsAreMeasured`, `GrantsAreHanded`, `NoNewerCode`, `SignInsEnd`); a renewed credential is fresh and kept (`RenewedIsFresh`, `FileIsKeptWell`); a row is true and a run ends (`ClaimsAreTrue`, `RunsEnd`); a stop is heard (`StopIsHeard`) |
| `texts` | nine plugins' listings, 2 moves of the vendor; texts of up to 3 of 9 pieces or 4 of 6, in deltas of 1, 2 or all; histories of up to 3 of 15 messages or 4 of 7; two sites, up to 2 tabs, 2 scan codes, answers that are lost | a press is served (`PressedIsServed`), the first account stays current (`FirstIsCurrent`); what a stream of deltas is read as is what the text means (`TextIsRead`); calls stay with their answers and words are not lost (`PairsAreSent`, `WordsAreSent`); pages are true, and a lone page sends an accepted scan again only if its answer was lost (`PagesAreTrue`) |
| `auth_refresh_save_lost` | a save that fails | *violated*: `ExpiredMeansStorageExpired` |
| `auth_files_page` | one status page, 2 accounts | *violated*: `GrantsStayHome` |
| `catalog_publish_lost` | a tick, one failed publish | *violated*: `RegistryFollows` |
| `requests_business` | qoder and codebuddy, one request | *violated*: `BusinessIsNotARefusal` |
| `streams_failures` | codebuddy's stream | *violated*: `FailuresAreReported` |
| `renewals_expiry` | codebuddy and raccoon, 2 tokens | *violated*: `ExpiryIsTheTokens` |
| `discovery_failed` | eight plugins, 2 moves | *violated*: `FailedKeepsPrevious` |
| `credits_arm` | one scheduler | *violated*: `ArmIsAdopted` |

Each passing run also checks the type invariant of its sum.

Why the bounds are enough.  In `AuthRefresh` a hazard needs a renewer and a
caller that joins or comes in the cooldown, and bytes of three generations
(before, renewed, logged in again); in `AuthFiles` two accounts are what can be
confused, and an account's values of three generations what can be restored; a
request meets one other of the same account, and the answers are one of each
class that some plugin treats apart; four frames are a call in two pieces, its
reason and what follows, or two calls and an error.  In `CatalogRefresh` it is
the listing before, during and after a refresh; two loops are the armed one and
the one being closed; a sign-in and the one that replaces it, two panels that
may hold the same code, a buffer that one callback fills; an abandoned claim
meets the next run's.  In a text a marker, what it is held back with, and what
follows; in a history a call, its answer and a message between or after them.
The bounds are constants, and guards, so that a run ends where they are used
up; those runs do not look for deadlocks.  The runs of `MCRequests` do, where
callers can always come again, and so do `auth_refresh_save_lost` and
`catalog_publish_lost`.

### Fairness

* `AuthRefresh`: a goroutine inside `Ensure` is scheduled, and the host bounds
  each HTTP call and save made for a plugin.  Nothing is assumed of callers
  outside, of logins or of the clock.
* `Requests`: the same, of the steps of a request that has arrived.
* `CatalogRefresh`: what has begun goes on; the ticker fires again and again,
  and Go's mutex, which hands over to a waiter that starves, lets it in (strong
  fairness of `Begin` for ticks only: nobody need press the button); the host
  gets to act on a changed file between two ticks, which are minutes apart.
* `CatalogScheduler`: host threads go on, a refresh comes back, and `select`,
  which chooses among ready cases at random, does not prefer the ticker for
  ever (strong fairness of `End`).
* `LoginSessions`: the dispatcher and the calls in progress go on; some panel
  polls a session again and again (the host polls every few seconds).  Nothing
  is assumed of users, browsers or expiry.
* `DeviceLogin`: the session's time passes, and a panel that is there polls on.
* `CheckIns`: a run goes on; its deadlines are the hub's own, which supposes a
  positive `timeout_ms` (without one `boundedCall` waits for ever,
  `orchestrator.go:247`).  Nothing is assumed of the call that was abandoned.
* `Timers`: the goroutines inside `Run` go on.

In the sums these become one formula per action of each part, joined by `\/`
over the parts: since `part` never changes, only the disjunct of the behaviour's
own part is ever enabled, and the formula is that disjunct's fairness.

`texts` checks safety only.  `PageLogin` also states a liveness property
(`ManagerIsTold`, under `FairPageSpec`) that no run checks.

### What the violated runs show

* `auth_refresh_save_lost`: "Expired reports that Storage is already past its
  own expiry" (`authrefresh.go:122`).  When the write-back fails, `Storage`
  becomes the new bytes and `Expired` keeps speaking of the old ones, so
  `EnsureUsable` stops a caller that holds a usable credential.
* `auth_files_page`: "every save in one invocation targets the same credential"
  (`host.go:265`).  The status page walks every account through one handle;
  renewing the second account merges the first one's file into it.
* `catalog_publish_lost`: a tick that publishes on change "is what keeps the
  host registry ... current" (`scheduler.go:10`).  The change is judged by the
  cache, which was filled before the publish that failed: no later tick sees
  one.
* `requests_business`: "A 401/403 body is READ before the status decides
  anything" (`qoder/executor.go:395`).  The status alone starts a renewal, and
  when that fails a full queue is reported as a refusal; codebuddy does the
  same to a blocked content (`executor.go:599`).
* `streams_failures`: both handlers "report identical codes and statuses"
  (`codebuddy/translator.go:303`).  The collecting one trims the body, so that
  `sse.Scanner` keeps the last line back: an error frame at the end is dropped.
* `renewals_expiry`: an expiry the answer does not tell is left to the new
  token's own (`codebuddy/credential.go:388`, `raccoon/credential.go:31`).  The
  merging save brings the old token's back, which outranks it.
* `discovery_failed`: a failed refresh "still uses the previous result"
  (`codearts/catalogrefresh.go:62` and six more).  The cache was dropped before
  the vendor was asked; only zcode puts it back.
* `credits_arm`: "Arm during a wait makes Run adopt the new schedule and keep
  going" (`credits.go:263`).  `Arm` cancels the context `Run` keeps: the next
  wait fails at once and `Run` returns.

### Further divergences, met while modelling and not run

Files and renewals

* A relogin within the cooldown is answered with the terminal failure of the
  bytes before it, and one that joins a renewal of those with its result
  (`authrefresh.go:226-228` says the old verdict does not apply): both are told
  to log in again though nobody has tried what they bring.  `ToldByOthers` names
  the two, and `DeadMeansRefused` holds of everybody else;
  a caller with older bytes lifts the verdict of the newer ones; a caller with
  bytes from before a renewal is told no error and keeps expired bytes.
* The tick's handle brings back routing members the operator has changed since
  its first tick; a priority set between a publish's read and its save is
  dropped (`catalog.go:248`).  A look-up that fails, or finds an entry without an
  index, reads as no file (`host.go:209-226`): the save of a login then drops the
  operator's members, and the grant of the file where the login brings none; the
  members stay lost until the operator sets them again.  A ticket login over an OAuth account keeps the old
  `refresh_token` (`merge.go:20`), and a field a plugin drops comes back
  although `merge.go` says it "can still rename or drop a field it owns".
* codebuddy takes an outage whose text says "invalid" or "expired" for a dead
  credential (`oauth.go:256-261`, against `authrefresh.go:446-450`) and writes
  an empty grant when the answer omits it (`oauth.go:276`); minimax refuses an
  answer without `expires_in` after the token was spent; cline, lobsterai,
  atomcode and trae give an account up on a success without a token.

Catalogues

* A failed refresh drops the cache, and the next tick then publishes a listing
  that did not move (`scheduler.go:13`).  Four things leave the registry
  behind for good, as no later tick sees a change in the cache: a publish that
  fails; a `model.for_auth` that fails, and registers the built-in table, during
  a refresh or where there is a listing; and one that stores during a refresh
  (`codearts/plugin.go:156-185` takes no part in `refreshLock`).  They are what `missed` stands for in
  `SettledMeansPublished` and `RegistryCatchesUp`.  Comments in
  codearts, codebuddy, lobsterai and zcode still say that ticks never publish.
* For a second account of trae or atomcode a press never drops its own cache,
  and ticks publish only the first account although `catalog.go` says "every
  account of one provider publishes the same catalogue".  A fill by anybody
  else leaves the first account's registry behind until the next real change
  (the exception in `FirstIsCurrent`).  atomcode's extra models make every tick
  a change.
* `SetInterval` "is restarted" (`scheduler.go:85`) only stops; a reload with
  another interval starts a loop while the old one is still in its refresh; a
  tick may fire after `Quiesce` has returned (`codearts/plugin.go:117`).

Sign-ins

* The listener's buffer drops the newest callback, not the oldest
  (`oauthcb.go:59`).  A late code of a replaced attempt is delivered to the new
  one and fails it.  Without `callback_port` an earlier session stays pending
  beside the newer one (`README.md:310` says it is replaced).  A page that
  cannot save a credential has lost the login (`codearts/auth.go:238`,
  `minimax/pluginui.go:416`).
* zcode reads a limit of lost replies (`config.go:338`) and never applies it
  (`login.go:309-313`; `LossesEndIt`, defined and not run); two panels that poll codebuddy can lose its token.
* loomy's bind page speaks of a keypad (`pluginui.go:651`) whose link leads to
  the SMS sign-in, without a way back (`NumberCanBeBound`, defined and not
  run); `fail` of the sessions of raccoon and loomy is never called; an expired
  session's page moves on to the newest unfinished one.
* loomy keeps a scanned code that `bind/auth` accepted when the answer is lost,
  cannot be decoded or has no `rcode` (`loomy/oauth.go:133-152`,
  `wechatlogin.go:196-202`), and the page's retry (`pluginui.go:320-330`) spends
  it a second time: `lost` in `ScanIsSpentOnce`.

Requests, streams and texts

* lobsterai gives a call a placeholder id after its real one (`executor.go:668`
  against 647) and empty fragments the arguments `{}`; trae sends truncated
  arguments as `{}` and keeps unnamed calls in a completion; loomy's collecting
  handler never looks for an error frame; codearts stops filling ids after a
  junk chunk; raccoon never tells of an id an empty fragment changes;
  cline's streaming handler passes a fragment without a name on, though "no
  chunk emitted until the name is usable" (`adapter.go:714`).
* codebuddy's `kimi-k3` is asked for as `kimi-k3-1` in one place and not in the
  other (`models.go:836`, `executor.go:557`); it passes `max_tokens` 0 on.
* A malformed DSML block loses its opener, and an unclosed invoke is swallowed
  (`dsml.go:225`; `MalformedIsShown`, defined and not run).  Calls of both kinds
  in one stream would share index 0.
* trae's trim may part a call from its answer (`translate.go:917`;
  `TrimKeepsPairs`, defined and not run), and a call with an id and without a
  name leaves its answer alone (`AllNamed` excludes it).  An answer within a
  user's message comes before the words it came after.

Check-ins and schedulers

* A claim that was abandoned is reported as failed and may still be taken, and a
  failure beside a success hides it (`FailedTookNothing`, defined and not run; `orchestrator.go:27-29` against
  579-581).
* `RefreshOnce` and `Run` may renew at once; the sign-in scheduler's `Stop`
  before `Run` does nothing; `Pick` never marks what it picks.

Names: codebuddy says that two accounts "land in two files, because their user
ids differ" (`auth.go:107`), but names a file after the nickname first, as trae
and atomcode do; cline and qoder collapse one in Chinese to "account"; a name "must not
depend on anything that rotates" (`authfile.go:34`), yet codearts' STS key and
the token prefixes of minimax, cline, loomy and qoder do.


## Proofs

Every safety invariant and action property that a passing run checks is also
proved, for every value of the constants that satisfies the stated assumptions.
The argument has everywhere the same form: an
inductive invariant holds initially, every step keeps it, it implies the
property; one step of the proof per action, and under it one per conjunct the
action can disturb.  `[.]` names the inductive invariant.

**AuthRefreshProofs**

* `TypeCorrect`, then `FlightIsSingle` and `NoWaiterIsLost` [`IInv`].  The two
  are preserved together, because a release must know that its waiters wait for
  the same key and a join that the mark it reads belongs to a caller at work.
* `RefresherImplementsGate`: every step is a step of `RenewalGate` or a stutter.
  The clock readings must not be in the future (`ReadingsAreOld`): a caller
  decides with a reading taken before the lock, and a stale one only lengthens
  the cooldown.
* `DeadWasRefused` [`VerdictsAreEarned`]: who is told to log in again came with
  bytes the vendor refused, or is one of the two `ToldByOthers` names; who names
  no file is always told of its own.  What a caller is told passes through the
  key's record (`KeysAreFairlyDead`: dead for refused bytes and with no renewal
  under way; a key of bytes ends terminally only for those) and through
  the result of the renewer it joins, so the invariant says of every place a
  caller may be (`CallerIsToldFairly`) of whose bytes its result speaks: of its
  own until it joins (`Untold`, `Answered`).
* `FileIsRenewable`, if the vendor's answers arrive and the host saves
  (`"lost" \notin Answers`, `~SaveFails`: without them the code does lose a
  grant) [`WritersKeepOut`].  Bytes on their way to the file were issued to
  exactly one writer (`ArrivalsAreFresh`, with `Unseen`) and nothing stored is
  newer than the vendor's last issue (`NothingIsNewer`).

**AuthFilesProofs**

* `StoresCredentials`, `KeysAreTheAccounts` [`FilesInv`].  Invocations meet only
  in the files, so the invariant is about one at a time: what it is about to
  save is a credential of the account it saves for, and what it publishes was
  read from the account it publishes to.
* `OneFileIsAlwaysKept` [`FilesKept`], for handles that serve one file each and
  an operator who edits a file nobody works on (`QuietEdits`), whether the
  look-ups find the file or not (`dropped` says whose did not).  While an
  invocation is under way nobody else rewrites its file, so what it read is what
  it replaces; `auth_files_page` shows that handles of many files do not have
  this.
* `AllFilesTypeCorrect`, the type invariant of the sum.

**ChatsProofs**, requests [`RequestsInv`]

* `NoGrantIsOrphaned`: with single-use grants at most one request has the newest
  one in hand (`GrantIsHeldOnce`), and a plugin that does not store what it
  renews loses it (`WhatIsNotStoredIsLost`), which is the exception the property
  names.
* `NobodyIsBlamedUntried`, `NothingIsPaidTwice` and `NobodyAsksForEver`: of each
  place a request may be, how often it was sent (`Counted`), what answer let it
  be sent again (`Earned`), what was tried before it is blamed (`Blamed`).
* `ChatsTypeCorrect`: every envelope of every plugin carries a status and a
  retry flag, by one lemma per plugin over its rules and one about a list of
  rules of which the first that fits decides.

**ChatsProofs**, streams [`StreamInv`], for streams of any length.  The invariant carries, frame by
frame, what an induction over the stream would: one call per index (`OneCallPerIndex`), the arguments gathered are the chunks
joined (`ChunksJoin`), a chunk is of a call that is known (`ChunksAreKnown`) and
what a client finds in the chunks is what was gathered (`CallsArePassedOn`).
That a longer sequence flattens to the shorter one's and the new
(`FlattenAppends`) does need an induction.  The library's theorems for one take
an operator, which the provers cannot instantiate; `AllNumbers` gets it from the
least element of a set (`Least`, by `WFMin`), which has no such parameter.

* `StreamTypeCorrect`, `ErrorsAreReported`, `CutsAreTold`, `CallsAreFitToMake`.
* `CallsStayTheSame`, for a vendor that gives a call one name and one id
  (`VendorIsSteady`; the runs' frames satisfy it).  One that changes them midway
  is told differently to the two clients, as the two handlers choose differently.

**LoginSessionsProofs**

* `HandedWasGranted`, and on a pinned port `NoCodeForTheReplaced` and
  `OneCurrentSignIn` [`IInv`].  `NoNewerCode` alone is not inductive: a delivery
  may come long after its snapshot.  What makes it so is that only the newest
  attempt is ever pending, and still registered; so that a code, which is never
  newer than the newest attempt, can only be kept by that one.

**BackgroundProofs**

* `OneRefreshAtATime` [`CatalogInv`]; `WhatIsFoundIsServed` [with `Follows`],
  with every overlap and failure: at every step of a refresh, what differs
  between cache and registry is still to be published or answered, or was
  `missed`.
* `NoLoopIsForgotten`, `NoChannelIsClosedTwice` [`LoopsInv`], for any number of
  hosts and loops: a live loop's channel is held by the scheduler, or by exactly
  one `Stop`, or is closed, and it never goes back.
* `SettingGetsItsLoop` [with `Owed`]: while configurations are under way a loop
  of an old setting is owed a stop, and a missing one a start, by some thread.
* `RowsAreTrue` [`ClaimsInv`, `ClaimedOnce`]: each request in flight, abandoned
  or not, knows only what was taken.
* `PollsMeasured` [`DeviceInv`, `MeasureInv`]: of the panels between `due` and
  `markAttempt` each has at most one poll of the interval; lost replies exceed
  the budget by no more than the panels that have already given up.
* `GrantsHanded` [`GrantIsHeld`, `LoneIsSteady`]: from the vendor's grant to the
  handing over some panel has it in hand; a lone one takes no path to an error.
* `RenewalsTyped`, `RenewalsAreFresh`, `GrantsAreKept`, `FilesAreKeptWell`
  [`RenewalTypeOK`, `GrantIsKept`].
* `StopsAreHeard` [`TimersInv`]: a stop counts what begins after it, and a pass
  keeps the accounts attempted, left and removed apart.
* `BackgroundTypeCorrect` [`PartsInv`], the type invariant of the sum.

**DsmlProofs** [`DsmlInv`], for texts of any length cut into deltas anywhere.

* `TextsAreRead`: what the whole text means is what the parser has said, then
  what the text means from where its buffer begins, in the mode it is in
  (`Tells`, with `Ahead`); the buffer is the letters from there to what was fed
  (`Holds`).  Each round moves that place (one lemma per mode: outside, in a
  thought, in a block), and a round that moves nothing leaves a buffer in which
  no marker is whole (`Blocked`), so that the flush may read the rest as it is.
  The text is read by recursive functions on what is left of it; what they say
  of every text comes by `AllNumbers`, as with streams.
* `DsmlTypeIsKept`: with it the calls the parser numbers stay typed.

**HistoriesProofs** [`HistoriesInv`], for histories of any length.  The invariant says
only that what is kept and sent is what the plugin makes of the request, as it
was asked or as the host has had it translated; all the rest is about what each
plugin makes of any request.  A translation puts one piece for each message in a
row, which `PiecesWeave` turns into a relation of positions: what came out at a
place came from the place `src` says, in order, whole, and with nothing between
an answer and its call (`Weaves`, `Made`).  By it each plugin's output is one
that keeps the order and the answers that stood (`MadeOf`), the words
(`SaysAll`) and, with those that pair, the answered batches (`SendsBatches`).

* `PairsStayTogether`: of raccoon and codebuddy the calls kept and the answers
  kept are those of one set of ids (`SortsTo`); trae's, which keeps a call
  without an id, are compared after the host's translation and after its own
  (`Translated`, `SerializedTwice`), and its trim leaves the system's words and
  a tail of the rest, and takes a call's answers with it (`WalkDrops`).
* `WordsStayWhole`: for the last promise, that a translation done before changes
  nothing, messages that are settled are serialised to themselves
  (`PiecesSerialize`) and tidy ones normalised to themselves (`NormalisedAgain`).
* `HistoriesTypeIsKept`.

**TextsProofs**

* `PressesAreServed` [`IInv`]: whatever is in a cache, or put back by a refresh
  that failed, is at least what the vendor had at the press (`CacheIsOwed`,
  `BeforeIsOwed`, `PressIsOwed`).
* `FirstStaysCurrent` [`CurrentInv`]: what the registry has and what the pass
  under way compares with are the same ids (`PassIsCurrent`), so no change is
  compared away.
* `PagesTellTheTruth` [`PageInv`]: success is shown only behind a save
  (`SavedFirst`), an accepted scan was taken once (`ScansAreTaken`), a lone tab
  has one load under way (`LoneScan`), which sends an accepted code only if its answer was lost, and
  fails only after a call did (`Unhitched`).
* `ListingsTypeCorrect` and `TextsTypeCorrect` [`TextsInv`], the type invariant of
  the sum: a step of one part leaves the others as they are.

The assumptions on constants are the modules' `ASSUME`s (bounds are natural
numbers, model values are distinct from what they stand apart from), which TLC
evaluates in every run, and the hypotheses named above, which each theorem
states.

Only model-checked are the liveness properties (`EveryCallEnds`,
`RegistryCatchesUp`, `LoopsEnd`, `SignInsEnd`, `RunsEnd`), since fairness and
`ENABLED` are outside what the proof system handles.


## What is modelled how, and what is not

Abstractions a reader should know of:

* `AuthRefresh`: a panic inside `renew` (its `finish` is not deferred) and
  `carryFileMembers`, which merges the answer of `auth.refresh` in the
  dispatcher as `SaveAuth` does, are left out; expiries and leads are the
  constants' values; the clock stands still at its bound.
* `Renewals`: one renewal is one step, since `AuthRefresh` has its
  interleavings; tokens age in the order they were granted; logins and the
  host's own saves are left out; atomcode's dated duration counts as the
  token's own expiry.
* `Streams`: one thing per frame, an index in every fragment, reasoning is
  text, no frame after `[DONE]` or an error; qoder's encrypted path; the
  streams of minimax, zcode and atomcode are left out.
* `Histories`: arguments, tool declarations, limits and efforts are left out;
  minimax and zcode forward Anthropic's shape.  The client's messages are ones
  that shape allows: an assistant calls, a tool answers (for trae a user too),
  and an id a client does not give is absent (codebuddy would take two empty
  strings for a pair).
* `Discovery`: discovery is switched on; a fetch and the storing of its result
  are one step and a publish succeeds, since `CatalogRefresh` has these apart;
  qoder, whose catalogue is built in, and the resets of a configure and of the
  pages are left out; raccoon is as loomy.
* `CatalogRefresh`: the bookkeeping member of a publish is left out.
* `LoginSessions`: codearts' OAuth flow; a bind that fails, the rebind after a
  change of flow or port, shutdown and the ticket flow's polling are left out.
* `DeviceLogin`: `slow_down` reads as waiting; errors of encoding, the start
  request and the eviction from a full registry are left out; the session's
  snapshot and the question whether it is due are one step.
* `CheckIns`: the hub's overview, its last-run slot and the listing of accounts
  are left out.
* `Timers`: how long a wait is (`FirstRefreshDelay`, `RetryDelay`) is left out,
  so that it may be any; no production code of a plugin runs either scheduler.

Not modelled: the account pool (no plugin uses it), dispatch and envelopes
(nothing kept between calls), the HTTP stream's handle (what a read brings is
`Streams`' `Feed`, `End` and `Break`), the callback port's listening socket, the
QR encoder, the image budget, names and credential JSON (pure functions, with
their own tests), HTML rendering, icons, usage pages, qoder's signing module,
wire types and scripts.  `PROJECT.json` lists each with its reason.

Left to do: the coverage of the plugins' pages and settings.

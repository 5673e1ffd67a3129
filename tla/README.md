# Verification of lys-shell

TLA+ models of the parts of lys-shell where goroutines, timers, messages and
restarts meet; checked with TLC on small instances and, for the properties that
matter most, proved with TLAPS for every value of the constants.

    tlc -workers 2 -config MCRecorder.cfg MCRecorder      # a run
    tlapm RecorderProofs.tla                              # a proof

`PROJECT.json` lists components, runs, mutants (a plausible bug for each
property, which the run must catch), the source lines of each definition,
findings, hazards and theorems.

## The system

lys-shell is a Wayland desktop shell: one Go process (`cmd/lys-shell`) with

- **services** (`service/*`), one package for each thing the desktop offers:
  notifications, recording, idle inhibition, wallpaper, audio, network, ... A
  service is a struct with one mutex. Its methods are called from the UI event
  loop, from one goroutine per D-Bus method call, and from timers. They change
  fields under the mutex and then, with the mutex released, write files, emit
  signals, call external programs and publish on a change feed
  (`internal/feed`), which drops what a slow reader does not take.
- **surfaces** (`shell/*`), which run on the event loop, take snapshots of the
  services when the feed wakes them, and call back into the services.
- **the portal backend** (`portal`), which answers requests of sandboxed
  applications through dialogs (`shell/portaldialogs`).
- **the configuration** (`config`): `config.yaml` with its imports and
  `runtime.yaml`, watched, merged and published to everybody else.

What is hard in it is nearly always the same: a decision taken in one critical
section is carried out in another; a callback that was already on its way when
its reason went away; several goroutines that each clean up; what is on disk,
at the compositor or at logind when the process dies.

### Inventory

| component | state | operations | interacts with | what is hard | correct when |
|---|---|---|---|---|---|
| notification service (`service/notifications`) | history, popup list, countdown per popup, expiry per entry, owner per id, do-not-disturb, block list; sqlite rows and a flag file | Notify, Close, DismissAll, DismissPopup, InvokeAction, pause and release of a countdown, SetDND, SetBlocklist, restart | applications over D-Bus, popup surface through feed and calls, store | work done after the mutex is released; timers that fire while they are stopped; ids reused across replacement and restart | lists, maps, store and file agree; each closing is announced once; an app replaces only what it owns; timed things go, halted things stay |
| popup surface (`shell/popups`) | stack of cards, some playing their exit; pointer; configuration | sync, dropCard, gestures, SetConfig | notification service | the feed is lossy; cards outlive their popup | the stack shows the newest popups, once the feed is drained |
| lock screen (`shell/lock`) | session lock, entry, attempts, timers, conversation | lock, unlock, Enter, activity, reload, blank timer, locked/finished of the compositor, recovery | compositor, logind, authentication | signals, timers and results queue up while the state they were for goes away; the compositor keeps the lock when the shell dies | locked means covered; only the password for this lock opens it; the user is never stuck |
| authentication (`service/auth`) | worker goroutine, one-slot reply channel, cancel channel | Spawn, ask, Answer, Cancel | lock screen, greeter, PAM, greetd | answer, cancel and the end of the transaction race | one live conversation; answers go to their prompt |
| screen recorder (`service/recorder`) | status, session, pipeline, elapsed timer | Start, Stop, SetPaused, unexpected end | portal (screencast), GStreamer | a stop at any point of a start; end of pipeline against stop | an idle recorder captures nothing; everything is closed exactly once |
| idle inhibitor (`service/idleinhibit`) | the user's run with its countdown; holds of applications | Enable, Disable, the durations, Hold, Release, departure of a client | D-Bus clients | a client leaves while its call is served; replaced countdowns | holds end with their owners; a countdown belongs to its run |
| portal dialogs (`shell/dialogqueue`, `shell/portaldialogs`) | dialog on screen, the one playing its exit, waiting requests | ask, answer, dismiss, show, hide | portal backend | a Dismiss overtakes its request; an overlay that cannot be mapped is answered inside the start of the queue; old windows still have buttons | one at a time, in order, each answered once and by its own dialog |
| portal requests (`portal/request.go`, `dialogs.go`) | Request object, watcher, call to the shell | begin, Close, reply | applications, dialogs | Close against the answer; the shell dies while it is asked | one reply: a cancel for a closed request, a success only for a yes |
| portal sessions (`portal/session.go`) | session objects on the bus | create, Close | applications, PipeWire | the client leaves | nothing left behind |
| configuration service (`config/service.go`, `watch.go`) | two layers read from files, merged configuration, subscribers | Load, SetByPath, ResetByPath, Save, reload after a debounce | everybody, and other processes through the files | edit against reload against save; death in the middle of a save | what is published is what the files say; the files are whole |
| wallpaper service (`service/wallpaper`) | cycle, current picture and place per output, palette | start, stop, step, register, rescan, extract | configuration, theming, files | a cycle carried from one critical section to another; kicks that several goroutines take out of one slot | the runner follows the cycle; the palette is that of the picture shown |
| bluetooth agent (`service/bluetooth`) | the pending pairing request | request, confirm, cancel | BlueZ, the dropdown | user's answer against cancellation | each request answered once |
| audio (`service/pulse`) | requests under way by tag | send, reply, event, timeout | PulseAudio | timeouts against late replies | a reply reaches its request |
| network, VPN, mirrors of devices and compositors, launcher, weather, mail, clipboard | what the last signal, poll or query said | refresh | daemons, sockets | little shared state of their own | they show the last state received |
| bar, settings, overlays, greeter, styling, icons, localisation, parsers | widgets, caches | drawing, pure functions | the services | none of it concurrent | golden and unit tests |

`PROJECT.json` names every component with its files and says of each whether
it is modelled, or why not.

## Modules

| module | models | composed with |
|---|---|---|
| `NotificationServer` | what a notification server owes to applications (abstract) | |
| `Notifications` | `service/notifications` | instantiates `NotificationServer` |
| `PopupHost` | `shell/popups`, `internal/feed` | extends `Notifications`: one `HostNext` runs service, feed and surface together |
| `SessionLock` | what a lock screen owes to the user who locks a session (abstract) | |
| `LockScreen` | `shell/lock`, `service/auth`, the compositor's session lock, logind's hint | instantiates `SessionLock` |
| `Recorder` | `service/recorder` with portal and pipeline | |
| `IdleInhibit` | `service/idleinhibit` with bus clients | |
| `DialogPromise` | what a portal method owes to application and user (abstract) | |
| `PortalDialogs` | `portal/request.go`, `portal/dialogs.go`, `shell/portaldialogs`, `shell/dialogqueue` | backend, bus and shell together; instantiates `DialogPromise` |
| `ConfigService` | `config/service.go`, `config/watch.go` in several processes over the same files | |
| `WallpaperCycle` | the cycle of `service/wallpaper`: runner, timer, watch, monitors | |
| `WallpaperPalette` | the palette of `service/wallpaper`: kicks and extraction | takes any change of the wallpapers that `WallpaperCycle` could make |
| `MC*` | instances of the above for TLC | |
| `*Proofs` | theorems about the above | |

### Notifications

Variables are the fields of `Service` plus `disk`, `savedDND` (sqlite rows and
flag file). The code keeps lists newest first; the model keeps sets ordered by
the *stamp* an arrival takes under the mutex, which also tells two
notifications with one id apart, as the pointer does in Go. Images, actions,
urgency and texts do not influence the control flow and are left out; a
notification is its id, application, stamp, timeout kind, and the transient
and resident flags.

A method is one critical section followed by effects outside the mutex. So a
goroutine is the list of what it still has to do: `Notify`, `Close`,
`DismissAll`, ... change the service and append to `todo[g]` (`add` and
`remove` for the store, `closed` for the signal, `publish`, `saveDND`, or a
call that takes the mutex again), and `Step(g)` does the head of the list. All
interleavings of two callers and a timer callback follow from that. A timer
that fired is a state of its own (`fired`): its callback waits for the mutex
while the timer is stopped or replaced.

`Restart` drops the process at any point: goroutines vanish, `disk` and
`savedDND` remain, and `AttachStore` rebuilds history, owners, expiries and
the id counter from the rows whose timeout has not run out.

`NotificationServer` is the same seen from an application, in one step each: a
notification arrives, in the place of one of its own application at most; some
leave the history; one that left is announced as closed; a session ends and the
next begins with what was stored. The mapping is `kept <- all`, `told <-
closed`, `session <- crashes`, and `leaving` is what the ops of all goroutines
are still going to announce (`Leaving`). The abstract specification has no
mutex, no store, no popups and no timers, so `ServesAsPromised` says of every
interleaving of the critical sections that nothing leaves unannounced, nothing
is announced twice, and no id comes back. It has no fairness: that those who
left are told in the end is `LeaversAreTold`, a part of `TimedThingsGo` that is
stated on the service itself. What `Resume` may find in the store is left open,
because the store is written with the mutex released (see Observations); what
does hold of it is `HistoryIsIndexed`.

### PopupHost

`stack` is the list of cards, each made from one popup and perhaps playing its
exit; `Sync` is one turn of the event loop after the feed woke it. The feed's
buffer is the single flag `tick`: an event says nothing but "look again", and
a full buffer means that one is waiting. The gestures are the methods of a
card; they run on a goroutine after the compositor answered with an activation
token.

### LockScreen

`scr` holds the fields of `Screen` that matter; `queue` is what `Loop.Invoke`
was handed, in order, and `LoopStep` runs its head. Key presses, configuration
reloads and the compositor's `locked` and `finished` act on the loop at once.
The conversation's generation, the blank timer's generation and the number of
the lock are in the events, so that a late event can be told from a current
one, by the code (generation) and by the properties (lock number).

A `Worker` is the goroutine of `auth.Spawn`: it runs the backend, blocks in
`ask`, and reads its one-slot reply channel or its cancel channel, whichever
Go's `select` picks. The backend asks as often as it likes and ends with
success or failure. The compositor is open, locked for this shell, or locked
for one that died (`orphan`); `Crash`, `Start` and `Probe` are death, restart
and recovery. `telling` counts the `SetLockedHint` goroutines under way.

`SessionLock` knows the session alone: open, covered or abandoned by a screen
that died, the number of the lock, the proofs of identity given for locks and
not yet heard, and an unlock order not yet obeyed. Its screen opens the session
for a proof of the present lock (and must, when it hears it), a key in the
grace period, an order, or the compositor. The mapping reads the proofs and
the order off the queue: a success that waits there is a proof for the lock its
conversation was started for, which is a number the code does not look at, since
it compares generations. `used.ended` counts the locks the compositor took back.
It is a history variable: without it a `finished` that opens the session could
pass for the lock screen's own doing.

### Recorder

Each start has a number (`gen`), which also names its portal session, its
pipeline and its timer. `starter[g]`, `stopper[g]` and `watch[g]` are the
program counters of `runStart`, of the goroutine of `Stop`, and of the
pipeline's watch; a place is where the goroutine stands between two critical
sections or in a call of the engine. `OpenSession` and the pipeline's start may
fail; a pipeline may die at any time.

### IdleInhibit

`calls` holds the D-Bus calls that are between two critical sections:
`AddHold` and the question whether the caller is still on the bus; the look at
the owner and `ReleaseHold`; the two halves of `AdjustDuration`. `departed` is
the queue of `NameOwnerChanged` signals. Countdown goroutines are numbered, and
`timers` holds the ones that have not returned.

### PortalDialogs and DialogPromise

A request is one D-Bus method of the backend. `pc` is its goroutine, `watcher`
the goroutine of `begin` that waits for the application's Close, `shellCall`
its call to the shell, and `dismissals` the Dismiss calls under way. A call of
the shell is a goroutine that hands its work to the event loop; D-Bus starts
one per call, so what reaches the loop first is open, and a Dismiss may come
before the `Enqueue` of the request it is about. What the loop runs is one
step: `Finish` is answer, hide and `Queue.Done` with the start of the next
request, and `StartNext` contains the overlays that cannot be mapped, each
answered from within the start of the next (`Refused`). `mapped` is what the
compositor shows; the window that plays its exit (`closing`) still takes
clicks. `ShellDies` takes calls, queue and windows; an answer already sent may
be lost with it.

`DialogPromise` says it without any of this: a request is idle, open or has
its reply; a success needs a yes of the user on the dialog of that very
request, a closed request gets nothing but a cancel, and there is one reply.
`said` records what the user said on the dialog of a request, whoever the code
takes the answer for. `KeepsItsPromise` is `Promise!Spec` under the mapping of
`pc` and `code` to the stage of a request.

### ConfigService

Every process has an editor (the goroutine that sets, resets and saves), a
watcher (debounce and reload), and its published layers `tree` and `staged`.
The processes share nothing but `main` and the inodes at `runtime.yaml` and
`runtime.tmp`. `Save` is a step per system call: create, write, fsync, rename,
fsync of the directory; a file is an inode with its content in memory (`data`)
and what of it is on the disk (`stable`, `disk`), so that `Dies` and
`PowerFails` leave what a crash can leave. A content of `config.yaml` is one
of `Trees` or `Broken`; the content of `runtime.yaml` is the set of leaves it
overrides, or empty, or torn. The value of a leaf does not matter: a set adds
its leaf, a reset removes it.

Any call may fail. `EditFails` ends a save or a reset at any of its system
calls, with what was published before them and whatever was written;
`ReadFails` fails a read of a reload, and `Load` has reads that fail. A
`runtime.toml` of an older version may lie beside the rest (`legacy`): while it
does, a missing `runtime.yaml` is an error and not "no overrides", so
`reloadRuntime` keeps what there was (`Readable`), until the user removes it.

Four history variables bound the claims, not the behaviour: `missed` (a file
changed between load and watch), `raced` (a set put an older tree back),
`overlapped` (two saves wrote one `runtime.tmp`), and `apart`: the layers of a
process that a failed read, or a save or reset that failed before it had
touched a file, left different from their file. Of those nobody is told, and
nothing reads again; the next reload that agrees with the file clears them
(`Rejoin`).

### WallpaperCycle

`pc[g]` and `held[g]` are where a goroutine is between two critical sections
of its call, and the cycle it carries there: `SetCycling`, `RenderCycle` and
`KickCycle` are the sections of `setCycling`, which starts, interval changes
and rescans run through. The runner owns timer, watch and the rescan. Random
choices (`rng`) are nondeterministic: an index, an order of the pool. An
action never assumes that the pool a goroutine carries is still the current
one.

A directory may be removed and come back (`gone`, `DirGoes`, `DirReturns`).
`listening` says whether the watch of `watched` lives: it may fail to be set
up, and it ends with its directory, after which `watched` still has the path
and nothing watches it. The scan lists whatever has the name of an image, the
watch counts no directory that is made or removed; `Folders` are the names that
are directories, of which the runner hears only by luck. A rescan may fail
(`ScanFails`): its event is spent and the pool stays.

`missed` is a history variable: a change of which nobody was told, a rescan
that failed with no event since, or a pool that a caller put back although it
was not current. `Coming`, the pool that the runner is about to put back or
else the one in place, is what it is judged by. A rescan that succeeds clears
it.

### WallpaperPalette

`kick[g]` is the kick a caller has yet to send after it left the mutex;
`Send` and `TakeBack` are the two `select`s of `kickExtract`, each of them one
step, so that callers meet in the slot in every order. `Extract` is the
section of `extract` that picks the path under both mutexes and sets `last`
(`lastExtracted`) before the tool has done anything; the tool runs with
`extractMu` held until `Extracted` or `ExtractFails`. `tried` is what it was
last run on and as what, `palette` what the colours there are come from, and
`failed` whether the last run came to nothing. A tool that cannot be started,
exits with an error or is killed leaves `palette` as it was; so does one whose
output cannot be saved (matugen), although `Extract` then returns no error.
`NoTool` is the setting that runs nothing.

## Runs

Passing runs explore all states within their bounds; each property of theirs
has a mutant of the code that breaks it.

| run | instance | what it shows |
|---|---|---|
| `notif` | one caller, one callback goroutine, two applications, two ids, two arrivals, one restart | owners, expiries and store stay indexed by the history across replacement and restart; a closed id stays closed; the promise of `NotificationServer` is kept; timed things go, and whatever left is announced |
| `notif_race` | two callers and a callback, one timed and one transient kind, one application blocked | popups and countdowns, and the close signal, under interleaved critical sections; a popup under the pointer stays |
| `host` | service, feed and surface; two configurations; a restart | the cards follow the popups, one live card per id, in a stable order |
| `lock` | two lock requests (no logind, so nothing else unlocks), two conversations, one attempt per lock, a reload, a failing lock request | the session is covered, the entry has its conversation, answers meet prompts, the entry is on as long as an attempt is left |
| `lock_restart` | an autologin session with a grace period, two conversations, a crash, logind | the promise of `SessionLock` is kept; a lock that survived its shell is taken again; a conversation is decided |
| `recorder` | three starts, a caller of SetPaused, dying pipelines | nothing captures when idle, one owner, one stop; a stop settles |
| `idle` | two clients, two edits, two holds | holds and countdowns |
| `dialogs` | three requests; four calls, closes and crashes of the shell; both faults | no handler is lost, the screen shows whom it answers, the promise is kept, in order, and everybody is answered |
| `config` | a shell that watches and a CLI that saves; one leaf, two trees and a broken one, a `runtime.toml` or none; three edits, deaths, failing calls or power failures | the file is whole; in the end the shell has the overrides and the tree of the files, except where a call failed before it had touched a file, or a read did |
| `cycle` | two callers and the runner, two monitors, two directories of a file and a directory with the name of an image, three calls, changes or unreadable scans | the runner's timer and the directory to watch follow the cycle, every monitor shows an image of it, the pool follows the directory in all that the runner is told of and can read |
| `palette` | three callers and the loop, two monitors, two pictures, two tools that may fail and none, four calls | without a kick under way or a tool at work, and in the end, the tool was last run on the picture shown, as configured, and the palette is its result unless that run failed |
| `recorder_deadlock` (violation) | one start | a pipeline that ends on its own waits for itself |

### Bounds, and why they are enough

- *Ids, arrivals.* Two ids and two arrivals give a replacement, a fresh id
  beside an old one, an id freed and taken again, and a restored entry. Loops
  over lists stop at the first match, so two elements tell right from wrong.
  Theorems cover any number.
- *Goroutines.* The races listed as hazards are between two callers, or a
  caller and a callback. `notif` has one caller because it adds the restart.
- *Locks and conversations.* A stale event needs an earlier lock and a later
  one; two requests and two conversations give both. `MaxQueue` bounds how far
  workers run ahead of the loop: a worker asks only while fewer events wait,
  the other sources are bounded by their own counters.
- *Recorder.* Three starts let an old teardown meet a new start and a third
  one in flight. Two elapsed seconds separate "counted" from "counted on".
- *Idle.* A minute has two seconds and `uint32` 64 values, so that a countdown
  has a middle and an end; the overflow is not reached within these durations
  (see Observations).
- *Requests.* Three are the least with one showing, one waiting and one coming
  late; `MaxLoad` bounds calls made, closed and crashes together, so that a
  crash meets two requests, or a Close meets three.
- *Configuration.* Two processes are the least that share `runtime.tmp`; three
  troubles (an edit, a set, a death, a fault, a power failure) put an edit and
  a death around a save. One leaf is set or not set; more leaves would only
  multiply contents. There are `Cardinality(Procs) + 3` inodes, the most that
  can be in use at once, so the model never lacks one.
- *Wallpapers.* Two names in a directory, one a file and one a directory, and
  two monitors tell an index from another and
  the lowest monitor from the rest; three calls are a start, a stop or change,
  and one more in between. For the palette three callers are the least for
  which one takes back the kick of another while a third sends.
- *Counters* (`stamp`, `lockNo`, `gen`, `runs`, `nextHold`, `crashes`, `edits`,
  `asked`, `used`) only grow and are bounded in guards by the constants named
  `Max...`, or together by `MaxLoad`. In the code they are 32- or 64-bit and do not wrap in a session.

`CHECK_DEADLOCK FALSE` is set where a bounded instance ends (all requests or
starts used, all clients gone): the program then waits for input that the
bound no longer provides.

### Fairness

Weak fairness is assumed of

- `Step(g)`, `Due(g)`: the Go scheduler runs every goroutine, and a timer that
  is due fires. No fairness is assumed of callers: applications need not call.
- `Sync`, `DropCard`, `LoopStep`: the event loop runs what it was handed, and
  exit animations end.
- `WorkerStep(WorkerAnswered / WorkerEnds)` for each conversation: an answered
  prompt goes on, and a PAM transaction ends. None of `WorkerAsks`: PAM need
  not ask again.
- `Probe`, `Start`: recovery runs, and the service manager restarts the shell.
- `StarterStep`, `StopperStep`, `WatchStep`, `PauseStep`: goroutines run, and
  calls of the engine return once their context is cancelled. None of
  `PipelineDies` or `Tick`.
- `CallStep`, `ReleaseDeparted` and the tick of the current countdown: calls
  and signals are handled, seconds pass.

- `Watch`, `Answer`, `Enqueue`, `Dismiss` for each request, `ExitPlayed`,
  `ShellStarts`: goroutines run, D-Bus calls arrive (with a timeout), the
  event loop runs, exits end and the shell is started again. None of
  `UserSays`: the user may leave a dialog on the screen for ever, and
  `EveryCallIsAnswered` has it as its premise that nobody does.
- `StartWatcher`, `Edit`, `Reload` for each process: `Open` goes on, a save and
  a reload under way go on. None of loads, sets, deaths.
- `TakeKick`, `ExtractLoop`, `Extracted \/ ExtractFails`, and
  `Send(g) \/ TakeBack(g)`: the extraction loop runs, the tool ends, with a
  palette or without, and a caller that has left the mutex
  does its next `select`.

Nowhere is strong fairness needed, and no fairness is assumed of users,
applications, failures or crashes.

## Proofs

The theorems hold for every value of the constants that meets the assumptions
named in the modules (`BoundsAssumption`, `KindsAssumption`, ...): any sets of
applications, goroutines, clients and configurations, any bounds.

**NotificationsProofs.** The invariant has two parts. *Typed* is the types
together with the uniqueness of ids in history, popups and store: the code's
"first entry with this id" is only well defined because there is one.
*Coherent* says that owners, countdowns and expiries match the lists they
index. No conjunct is inductive alone: that a replaced entry takes its expiry
along, or that a close leaves the right owner behind, needs unique ids. There
is one lemma per operation and part. `Typing`, `HistoryStaysIndexed` and
`PopupsStayIndexed` state the checked invariants. `HaltedPopupsStay` goes through
the actions: a goroutine that takes an op leaves the others' alone, the expiry of
an entry touches no popup, and a callback that finds the countdown under its id
halted does nothing. *Numbered* adds that what is stored or owned was given out; from it
`OnlyOwnersReplace`. For the closes there is *Silenced*: what was announced or
is about to be is *Gone* (given out, owned by nobody, not stored, which no step
undoes), and each such notification is with one op of one goroutine. Every
step *Tells* no more than it took out of the history itself; so `ClosesOnce`
and `ClosedIdsStayClosed`. `PromiseIsKept` is the refinement: *Tells* is exact,
so that a step other than an arrival either moves what it took out of the
history to *Leaving* or announces one of those, and an arrival takes an id its
application owns, or the next one, which is in no list of the abstract server.
These four, and `HostKeepsPromise` below, assume *Named*, that no application goes by the empty name (see
Observations).

The popup surface is in the same module. Its gestures give a goroutine ops that
another caller of the service could have been given (`HostMoves`), so the
invariants of the service hold under the surface as well: `HostKeepsIndexes`,
`HostKeepsPromise`. For the stack, *Stamped* says that cards and popups carry
stamps that were taken, each its own; the popups in sight are those with fewer
than the limit above them, and `Sync` keeps one live card for each. The order in
which new cards enter exists because a finite set has a least stamp; where one
would argue by induction over the set, the proof takes a smallest counterexample
(`WFMin`), since the induction theorems are out of reach. With what
`Reconciled` and `DropCard` do to places (`ReconciledFacts`, `DropFacts`) follow
`StackStaysSound` and `CardsStayInOrder`. `CardsFollow` needs that every change
of the popups is heard of: *Owed* says that while the cards are not those of the
popups, a goroutine has still to publish, or the event is buffered. It assumes
*Backed*, that every notification is stored for as long as it shows; without it
`Close` drops a popup and publishes nothing (see Observations).

**LockScreenProofs.** The argument is about generations. What a conversation
or a timer sends to the loop carries the generation it was started under.
Every step but the death of the shell *Advances*: a generation grows, or what
it stands for (the lock a conversation runs for, a locked screen to blank) is
still the same. So an event that was *Sound* when it was sent is sound when
the loop takes it (*Heard* says so of the queue), and *Coherent* keeps the
screen, its worker, its timer and the session lock together. From these follow
`LockStaysWhole`, `InputKeepsItsConversation` and, as an action property,
`OnlyItsOwnLockOpens`: the success of a conversation started for one lock
never opens another. *Conversing* follows a prompt from the worker through the
queue to the entry and back; `AnswersStayWithPrompts` reads off it that an
answer is to the prompt it was typed for. *Spoken* and *Tallied* count the
failures a conversation has sent and the screen has seen; from them
`AttemptsStayDecisive`, which assumes *SameCap*, that no reload changes the
attempt limit (with one, the entry keeps its state: see Observations).
`LockIsKept` is the refinement of `SessionLock`. That a success of another
generation may be dropped is only right if it was for another lock, or for one
that is open again; so *Punctual* says that a conversation reports its outcome
last, that no two share a generation (*OneVoice*, *LastWord*), and that whoever
speaks for the present lock is of the present generation (*Timely*). After a
failure the generation moves on, and nobody is left who spoke under the old one.

**RecorderProofs.** *Lifecycle* says where everything that belongs to a start
may be: older starts are *Settled*, later ones *Untouched*, and the last one is
in one of the stages (in start, recording, in stop, in teardown) that the
status allows, with what its session, pipeline and goroutines do in it. Only
the last start can move, so each action is looked at in its stage alone.
`CaptureStaysAccountedFor` reads its four parts off the stage. *Minded* says of
a call of SetPaused which start it is for and whether it has still to note what
it told the pipeline; `FlagAgrees` follows for one caller at a time (*OnePauser*;
two may leave flag and pipeline different, see Observations).

**IdleInhibitProofs.** `HoldInv`: the ids in the map and in the hands of calls
were all given out and are distinct, and a departure signal is about a name
that has left. With it `HoldsStayWithTheirOwners`: ids are given once, and the
call that drops an id drops the hold whose owner it looked at, although that
look was in another critical section. `CountdownIsOfItsRun` says that the
ticker and the time left belong to the run that is on and that a run ends with
its countdown; it assumes *NoWrap*, that the seconds of the duration fit the
counter (see Observations). `TypeCorrect` is the types.

**PortalDialogsProofs.** The invariant is *Sound* /\ *Honest*. *Sound* is the
types, the place of every handler in the queue, and the screen: the three
support each other, since a finish answers `answer`, takes the next of
`waiting` and maps its window in one step. *Honest* relates a call to what was
said: a yes in the shell, in a reply under way or sent was said by the user on
the own dialog, a no means that somebody refused or closed, and a request that
shows or waits was not spoken on. It needs *Sound*: a click answers the
request of the window it is on only because screen and queue agree. From it
`QueueStaysSound`, `ScreenStaysRight` and `NobodyIsOvertaken` follow, and
`PromiseIsKept` proves the refinement: `Init` maps to `Init`, and every action
to one of `DialogPromise` or to a stutter.

**ConfigServiceProofs.** `FilesStayWhole` rests on who holds which inode:
without overlapping saves a writer has `runtime.tmp` for itself, what it
renames was written whole and synced, and what is at `runtime.yaml` or on the
disk is nobody's to write (*Safe*, *WriterHasFile*). A call that fails ends a
save before its rename, or after it; either way nobody holds the file then.

**WallpaperPaletteProofs.** `PaletteStaysSound` from three facts: unless a kick
is under way the last path extracted is the one shown (*LastIsThemed*); unless
a reset is under way the last run was on that path, by the current tool
(*LastIsShown*); and a run that is over left its palette, or failed, or ran no
tool (*Outcome*). A kick is under way with a caller, in the slot or with the
loop; `TakeBack` moves it without a lock, and its strength is what keeps the
second fact. The theorem does not say that the palette is right: it says that
nothing but a failure of the tool, on just the picture shown and as it is
configured, can leave another one there.

**WallpaperCycleProofs.** The runner learns everything late, so the invariant
says of each thing that is not as it should be what is under way to mend it: a
watch or a timer that is not that of the cycle, a kick (*Driven*, *KickDue*); a
monitor without a picture, a render (*Shown*); a pool that is not the
directory's, an event, a rescan or what `missed` says (*Followed*); and
*Carried*, what a goroutine holds between two sections. `CycleStaysSound` and `PoolStaysCurrent` follow. The
proof found that the pool the runner itself puts back after a rescan is never
staler than the one it replaces: a directory that changed meanwhile has left an
event, or nobody was told. So `missed` needs no case for the runner's own puts:
it counts changes nobody was told of, rescans that failed, and the older pool of
a caller.

**Only model-checked.** Liveness (`TimedThingsGo`, `OrphanIsRetaken`,
`ConversationIsDecided`, `StopSettles`, `DepartedHoldNothing`,
`CountdownEnds`, `RepliesCome`,
`OverridesFollowTheFile`, `EditsAreShown`, `PaletteSettles`), for which the
proof system has no reasoning under fairness. Every other property of the
passing runs is stated by a theorem.

## Findings

One statement of the repository's own comments is refuted by a run
(`recorder_deadlock`), and has an entry in `PROJECT.json` with the quotation:
"a live recording that died on its own is torn down and reported", but
`unexpectedStop` runs on the watch goroutine and waits for the watch goroutine
to end; the recorder stays in `stopping`.

## Observations

Behaviour met while modelling that no comment contradicts, or where the models
take the code as it is. Properties are stated around these. The first four
disagree with a comment, and a run without the restriction named shows them.

- `startExpiryLocked` says that a fire racing a Stop "must not close the
  newcomer", but the check that the callback is current and the close are two
  critical sections; a replacement in between is closed as expired.
- `store.go` calls the store "the notification history on disk", but it is
  written with the mutex released; two writers may leave a row that the
  history does not have. `HistoryIsIndexed` speaks of rows to be written, too.
- `sync` of the popup surface "reconciles the card stack with the service's
  popup set" on each event, but `Close` of a notification that is not in the
  history (transient, or its entry expired) takes its popup and publishes
  nothing; the card stays until another event. The run `host` has no such
  notification.
- `logind.go` says that `LockedHint` tells whether a dead predecessor held the
  lock, but each `SetLockedHint` runs on a goroutine of its own; the last to
  arrive need not be the last said.

- `DismissAll` walks the ids of the history, so popups without an entry
  (transient, or expired) stay.
- An empty application name equals the zero value of the owners map, so it may
  take over any id that nobody owns.
- The expiry of an entry forgets its owner while its popup may still be held
  on screen; the buttons of that card then do nothing.
- Two calls of `SetDND` at once may leave the flag file with the earlier value.
- Cards are matched by id: a replaced notification keeps the old card and its
  place, and a replacement under the pointer counts down again, because the
  pointer does not enter the card anew.
- An `ask` after `Cancel` may return a buffered answer instead of the
  cancellation: `select` chooses. The conversation's result is then ignored.
- A reload that changes `MaxAttempts` while the screen is locked does not
  switch the entry: raised after a lockout it stays off until the next lock;
  lowered below the failures so far it takes lines and drops them.
- An Unlock signal before the recovery probe has read `LockedHint` sets the
  hint to false, and the orphaned lock is not taken again.
- Where a pipeline that ended by itself waits for itself (see Findings), the
  session has its owner in that teardown, as `CaptureIsAccountedFor` asks, but
  it is never closed; that it is closed in the end is for `StopSettles` and
  `DeadRecordingIsTornDown` to say.
- A pipeline that ends between its start and `commit` reports to a recorder
  that is still starting; the report is dropped and the recording counts on.
- Two calls of `SetPaused` at once may leave pipeline and flag different, and
  one that outlives its recording calls into a pipeline that was stopped.
- `notify` of the recorder takes its snapshot before it publishes; two of them
  may publish in the other order, and the dropdown shows the value sent.
- An indefinite run over a stored duration is not recognised by
  `SetRemaining` and `AdjustRemaining`: it gets time left that nobody counts,
  or is ended.
- `minutes * 60` is computed in `uint32`, so a duration above 2^32/60 minutes
  wraps; `AdjustDuration` reads and sets in two critical sections and may lose
  one of two adjustments.

- `ask` of the portal host keeps its place in the queue when the D-Bus caller
  goes away without a Close; the dialog stays until the user answers it.
- The share picker (`shell/sharepicker`), which has a queue of the same kind,
  hands the result of a region overlay to whatever request shows when it
  arrives, also when the one that asked was dismissed; and a button of an
  overlay that plays its exit answers the request after it.
- A batch with a `config.yaml` that does not load and a changed `runtime.yaml`
  ends with the first; the overrides of the second show up with the next
  event.
- A file that changes after `Load` and before the watch is not seen until the
  next event.
- A set or a reset is published before `Save` or `os.Remove`. When `os.Create`
  or `os.Remove` fails, nothing on the disk changed and no event comes: the
  process shows overrides that are in no file, or none while the file has them,
  until the next event. The caller gets the error.
- While a `runtime.toml` lies beside a missing `runtime.yaml`, `reloadRuntime`
  keeps the old overrides, and `reloadMain` drops them.
- `SetByPath` publishes the tree it read before it built: a reload in between
  is undone; and a reload that read the file before a `Save` publishes over
  the set, until the event of the rename reloads it.
- Two processes that save at once share `runtime.tmp`: one may rename the file
  the other has emptied but not written, or both write over each other.
  `lys-shell config set` writes back all overrides it loaded, so of two at
  once one is lost.
- Subscribers of the configuration are called after the mutex is released,
  so two publications may reach them in the other order.
- `SetCyclingInterval` and the rescan of a directory carry a copy of the cycle
  from one critical section into another: a cycle stopped in between comes
  back, one started in between is overwritten.
- `SetSharedCycle` aligns the monitors by a pool read earlier, so after a
  start in between they may show images of the old directory until the next
  step.
- A rescan that fails, as after the directory was removed, has spent its event;
  the pool stays as it was. A directory that is removed and made again is not
  watched any more, since `watched` still has its path: only another directory,
  or a stop and a start, sets up a watch. The same holds of a watch that could
  not be set up.
- `scanImages` lists a directory named like an image, and the watch tells of no
  directory that is made or removed; the pool has such an entry, or lacks it,
  until another event.
- A palette extraction that fails is not tried again until the wallpaper or the
  settings of extraction or theming change, because `lastExtracted` is set
  before the tool runs; the colours of an earlier wallpaper stay. They also stay
  while the tool runs.

## Not modelled

Drawing, layout and text; parsers and formatters, which are pure and have
golden tests; external daemons beyond what their clients see; D-Bus and
Wayland wire protocols. The greetd client and the keyring hand-over of
`service/auth` are protocol I/O. Of the dialogs, what is in them: options,
choices and results, and `UpdateChoices`, which refills the list of an open
chooser. Of the configuration, the signals for secrets and themes, and
directories of it that cannot be watched. Of the wallpapers, the images, what a
tool leaves when it is killed in the middle of writing its colours, and a
directory that is moved away while its watch goes on at the new place. Of the
notifications, `SetRemoveExpired(false)`, which keeps what has expired and is
called by tests alone: the models have it true, as the shell does. Of the idle
inhibitor, a `NameHasOwner` that fails in `Hold`: it keeps the hold, which only
the signal of a departure still to come would then end. Portal sessions and the
bluetooth and audio components of the inventory are not modelled yet.

## Plan

The order follows what a failure costs the user: losing the session or a
secret first, then losing data, then showing the wrong thing.

Done: `Notifications`, `PopupHost`, `LockScreen`, `Recorder`, `IdleInhibit`,
`PortalDialogs` with `DialogPromise`, `ConfigService`, `WallpaperCycle`,
`WallpaperPalette`, their runs, and proofs of every property of these runs that
is not about liveness; `NotificationServer` and the proof that `Notifications`
implements it, alone and under the surface; `SessionLock` and the proof that
`LockScreen` implements it.

Next, extending the model:

1. `PairingAgent`: answered once, by the user, BlueZ or the end of the agent.
2. `PulseConnection`: tags, timeouts, late replies, events in between.
3. Portal sessions, and the share picker over the queue of `PortalDialogs`.

Then, proving more: that `IdleInhibit` with its clients implements a plain set
of holds.

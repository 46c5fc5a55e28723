# A TLA+ model of Ready Or Not Internal

These modules model the concurrent and stateful core of the mod (`src/src/`, a
DLL that is loaded into the game): the coroutine scheduler everything else runs
on and what it promises, the thread pool, the hand-over of ESP frames to the render
thread, the overlay on the game's swapchain, the search for the game's pointers,
the link between the mods of a lobby's clients and its host, the way features are
switched and the mod taken out of a running game, what features change on weapons
and put back, the worker that watches the lobby's players, and the two files of the
user's.  TLC checks them on small instances.  TLAPS proves, for every value of their
constants, each safety property that holds in a run, and that the scheduler and the pool
implement their abstract specifications.

Paths below are relative to `src/src/` unless they start with `README`.

## The system

Four threads matter.  The *game thread* calls `UObject::ProcessEvent`, which is
hooked; from there the mod ticks.  The *render thread* calls the swapchain's
`Present`, also hooked; there the menu and the ESP are drawn, and a click in the
menu switches a feature.  The *main thread* (`main.cpp`) starts everything, saves the
settings each second, waits for the unload and takes everything out.  The *window's
thread* handles the messages the menu listens to.  The *timer thread and workers* of
`thread_pool.cpp` exist, but nothing of the build gives them work.

| Part | State | Operations | Hard about it |
| --- | --- | --- | --- |
| Task scheduler: `task_mgr.cpp`, `task.hpp` | `m_incoming_tasks` under a mutex, `m_tasks`, per coroutine frame a parent, a child and a wake time | push from any thread; tick: drain, visit and resume, erase; yield, wait, await, return, fault | pushes during a tick, wake times in chains of subtasks, faults in the midst of a chain |
| ESP frames: `class/triple_buffer.hpp`, `events/entity_event.cpp`, `menu/esp/esp.cpp` | three buffers and their roles, `had_data` | fill, publish, clear; view and walk | the writer fills without the lock while the reader walks; faults in the midst of a frame |
| Host link: `features/host_link.cpp`, `events/main_event.cpp` | on a client: `g_answered`, `g_linked`, `g_asked`, `g_asks`, `g_waiting`, `g_sent`; on the host: `g_accepting`, `g_modded`, `g_pieces`, `g_client_settings` | ask, give up, time out, send; answer, refuse, run, apply, take back | a protocol over reliable but slow calls, where either side changes, travels or unloads at any time |
| Toggles and unload: `commands/`, `events/main_event.cpp`, `features/game_tick.cpp`, `main.cpp`, `hooking/` | `g_running`, each `m_state`, the tasks queued, the hooks placed | click, loop, shutdown, signal, disable, clear, free | three threads and a deadline, other programs' hooks on top, faults in features |
| Thread pool: `thread_pool.cpp` | a stack of jobs per worker, a heap of timers, `m_accept_jobs` | queue, hop, sleep, run, destroy | one condition variable for all workers, `notify_one`; a coroutine queued while it is still being left |
| Renderer: `renderer.cpp`, `hooks/swapchain_hook.cpp`, `hooks/wndproc.cpp` | targets per back buffer, the captured queues, a fence, a recursive lock | present, resize, capture, message, destroy | draws in flight while targets are released, calls that fail, faults under the lock |
| Player worker: `events/player_event.cpp` | the lobby's list, the camera, the name, platform and tag asked for | read a few times a second, announce a change, ask again | values that arrive late, maps that change, answers after the time-out |
| Mission and achievement workers: `events/mission_event.cpp`, `achievement_event.cpp` | a snapshot of objectives, one request | read, show | |
| Weapon backups: `utility/weapon_backup.hpp`, `utility/weak_object.hpp` and the features over them (`spread`, `recoil`, `penetration`, `damage`, `rapid_fire`, `full_auto`, `infinite_ammo`) | originals by object | enable, tick, disable; apply and remove for a client | objects the engine frees and whose memory it reuses |
| Settings: `menu_settings.cpp` | `g_settings`, `options`, a file | load, compare, attempt a save | two threads without a lock, a game that ends while the file is written, files of other versions |
| Saved locations: `services/custom_teleport/` | a list and its file | fetch, save, delete | a list that is not read yet |
| Pattern scan: `memory/` | a shift table; offsets cached in a file | scan, run a batch | jumps over a match, a cache of an older game |
| Byte patches, hash: `hooking/byte_patching/`, `utility/joaat.hpp` | patched bytes | patch, restore, hash | |
| Server connection: `server/` | callbacks, a status | request, reply | replies before their callback; not in the build (`main.cpp:109`) |
| Menu, logger, injector, fonts, textures | | | lists of options, output, straight calls of the system, data |

How they meet: the menu's clicks and the actions of the menu reach the game thread
through the scheduler (`async_run`); the ESP, mission and player workers and the
loop over the features are tasks of it; the host link's tick is part of that loop's
round, its messages arrive in the ProcessEvent interceptor on the same thread; the
renderer's draw is where clicks come from and where ESP frames are read; the start
needs the pointers the pattern batch finds; the unload queues its shutdown as a task,
waits for it, takes the hooks off, and destroys the renderer, the tasks and the pool.

## The modules

| Module | Models | Theorems |
| --- | --- | --- |
| `Scheduler` | what the scheduler promises those who push tasks | |
| `TaskMgr` | the scheduler, which implements it | `TaskMgrProofs` |
| `JobPool` | what the thread pool promises those who queue jobs | |
| `ThreadPool` | the workers, the timer thread and `destroy`, which implement it | `ThreadPoolProofs` |
| `TripleBuffer` | the hand-over of ESP frames | `ScreenProofs` |
| `Renderer` | the overlay from its first Present to its destructor | `ScreenProofs` |
| `PatternScan` | the search for a pattern | `KeptFilesProofs` |
| `PatternBatch` | the batch of searches of a start and its cache, over `PatternScan` | `KeptFilesProofs` |
| `HostLink` | the link of clients and host, the loop's part in it | `HostLinkProofs` |
| `Unload` | toggles, the loop of features and the unload, over a scheduler seen from its users | `UnloadProofs` |
| `WeaponBackup` | what seven features change on weapons, for the host and a client | `WeaponBackupProofs` |
| `Lobby`, `OwnName`, `PlayerWorker` | the player worker: the others, yourself, and the two composed | `PlayerWorkerProofs` |
| `MenuSettings` | the settings and their file | `KeptFilesProofs` |
| `SavedLocations` | the saved locations and their file | |

`MCx` extends `x` for the runs.  An operator named `Thing_How` is the mutant of
`Thing`: a plausible slip in the code it translates.  It is used by no action, and
each property is known to fail when its mutant takes the place of `Thing`.  Variables
whose comment starts with *history* record what happened for the properties and
influence no step, those with *bound* only end the model.

### Scheduler and TaskMgr

In `TaskMgr` a task is a member of `Tasks`, and `place` says which vector it is in; both
vectors only append, and `erase_if` keeps the order of the rest, so the order of pushes
is the order in the vector.  `frames[t]` is the chain of coroutine frames from the root
to the leaf by their `m_wake_time`; `m_parent` and `m_child` are neighbours in it.

| Action | Code |
| --- | --- |
| `Add` | `add_impl`, on any thread at any moment, also in the midst of a tick |
| `TickBegin` | phase 1 of `tick_impl` under the mutex, and `task_count` |
| `Pass`, `Resume` | phase 2: the next task of the vector sleeps or has ended, or its leaf is resumed |
| `Yield`, `YieldFor`, `AwaitChild`, `Return`, `Fault` | what the coroutine does next: `this_task::wait()`, `wait(d)`, `co_await` of a subtask, its end (by value or by an exception, which `unhandled_exception` logs), a fault caught by `resume_guarded` |
| `TickEnd` | phase 3, `std::erase_if` |
| `Clock` | time passes |

A subtask runs within its parent's resume and so does a parent after its subtask's
end; this is why one `Resume` is followed by any number of body steps until the
chain yields (`MaxCalls` bounds the subtasks of one resume).

`Scheduler` knows neither vectors nor frames: tasks are new, queued, running, suspended or
ended, a turn admits those pushed before it, `Run` serves an admitted one whose time
has come, first comers first, `PassOver` one whose time has not, and a turn does not
close with one left.  Under the refinement mapping (`Refines` in `TaskMgr`) a task is
due at its leaf's wake time, `Resume` is `Run`, and awaiting, the return of a subtask,
the passing of an ended task and `TickEnd`'s erasure change nothing or close the turn.
It is what `Unload` relies on.

### JobPool and ThreadPool

A condition variable is the set of threads that wait on it.  What the code does under
`m_lock` is one step, the `notify_one` after it another (`owes`); the timer thread's
look at `m_accept_jobs` and its wait are two, since no lock joins them.

| Action | Code |
| --- | --- |
| `Queue`, `Push` | `queue_job`, `queue_coro`: on top of the stack whose turn it is |
| `Take`, `Wait`, `Exit`, `Back` | `run` of a worker |
| `End`, `Hop`, `Sleep` | the job: its end, `co_await schedule()`, `co_await sleep_for(d)` |
| `TimerLooks` to `TimerSpurious` | `timer_loop` |
| `NotifyOne`, `NotifyTimer`, `Spurious` | notifications and waits that end by themselves |
| `Flag`, `WakeWorkers`, `WakeTimer`, `Clear` | `destroy` |

A worker whose coroutine hops may be overtaken: the coroutine may run on another
worker before the one that ran it is back from `resume()`.

`JobPool` knows neither stacks nor threads: jobs are new, queued, running, asleep, ended or
dropped, and the pool is open, closing or down.  `Run` takes any queued job if a worker is
free, `Wake` queues the first of those asleep once it is due, `Drop` is after `Close` and when
nothing runs.  Under the refinement mapping (`ImplementsPool`) a job in the timer thread's hand is
queued already, `Take` is `Run`, `TimerPops` is `Wake`, `Clear` is `Drop`, and notifications,
waits and the joins are seen by nobody.

### TripleBuffer

An element is the number of the frame that made it, so mixing shows.  The worker
(`StartFrame`, `PushElement`, `Publish`, `BuildFault`, `SwitchedOff`, `WorkerEnds`)
and the draw (`BeginView`, `DrawElement`, `EndView`) interleave element by element;
`m_mutex` is held by the draw from `BeginView` to `EndView`, and `Publish` and
`clear_all` wait for it.  The worker goes on only while the game ticks; with nothing
to publish nothing is owed, so there is no liveness to check here.

### Renderer

Four threads and the GPU.  The render thread presents (`Present`, then `BeginInit`,
`GiveUpFrame` or `BeginDraw`, `CreateTargets`, `Draw`, `Submit`) or resizes (`Resize`,
`PreReset`, `Released`, `Original`, and `CreateTargets` again for `post_reset`); the
window's handles messages; the main thread disables the hooks, sleeps its second and
destroys.  `release_targets` is `Release` followed by `FencePassed`, which waits for
`pending`, the draws the GPU has still to do, with the lock held.  `Faulted` is the
choice the build leaves: `TRY_CLAUSE` is SEH, the code is compiled to unwind for C++
exceptions, so the `lock_guard` of a call that faults may not be destroyed.  Which
queue the game presents from is `own`; the swapchain may or may not show it
(`shown`).  Direct3D, DXGI and the game are external.

### PatternScan and PatternBatch

`PatternScan` is `scan_pattern` loop by loop: `NotWild` and `WildcardFound` search for the
last wildcard, `Fill` and `Filled` make the shift table, `Shift`, `Found` and `NotFound` move
the window, which is compared in one step.  `PatternBatch` extends it: a start reads the
cache (`Start`), takes each entry from it (`Hit`) or searches (`Search`, `SearchOn`,
`Searched`), and writes the cache when all were found (`Save`); the game may be updated
between starts (`UpdateGame`) or end in the midst (`Exit`, `SaveBroken`).  Two keys
of the cache are taken to have different hashes.

### HostLink

One action is one handler or one branch of the update, since each game runs all of
them on its game thread.  A client: `Ask`, `GiveUp` and `Wait` are the three ways
`sync` goes when the link is not ready, `TimeOut` and `Sync` those when it is; each
includes `turn_off_host_only`, which `main_event` calls before it.  `Click`,
`CheckHost` and `Run` are its user, `Pong`, `Refused`, `RequestRefused` and `Told` what
`host_link_answer` does with the host's texts.  The host: `TakePiece`, `TakePing`,
`Refuse`, `RunRequest`, `SetWorld`, `SetPawn` and `Unknown` are what
`host_link_exec_request` and `handle` do with one call, `HostTick` is its update.
`Travel`, `ChangePawn`, `UnloadHost`, `LoadHost` and `Dropped` are the engine and the
host's user; they are external, taken from how the code meets them.  Five seconds
are a choice: any wait of the code may be over at any update.  Toggles carry a
value, as Walk Speed does, 0 for off.

The `client_toggle`s differ in what they leave on a pawn.  `Lasting` are those whose `apply`
leaves something there, `Undone` those of them whose `remove` takes it off again.
`infinite_tactical` is in the first only: its `remove` forgets what was held and leaves the gear
unlimited (`features/infinite_tactical.cpp:101`), which the `on_disable` of the host's own toggle
sets back (`OwnOff`).  The damage toggles, `instant_cuff` and `no_stun` have no `remove` and act
within an update or a hit.  A piece beyond `MaxPieces`, 4096 characters in the code, lets the
whole request go.

Left out: what an action of a request does on the host, `fly` and `land`, which go the
same way, the notifications, and a client whose own mod is unloaded.  A toggle the
host was asked for and that it cannot apply is taken to be applied.

### Unload

A `set_state` is two steps: the task is queued (`SetQueues`; the look at `m_state` and the
`async_run` behind it are one), then `m_state` changes (`SetEnds`).  The render thread calls it
for a click in a frame, the game thread in a round of the loop (`settings::apply_external`,
`hotkeys::tick`, `turn_off_host_only`) and in another call of the hook (a client's request).

A tick resumes one task per step, first the loop of `main_event` (`RunLoop`, then the round's
switches and `RunFeatures`), then what was queued before the tick, in order: the two facts
about the scheduler it uses are `Scheduler`'s.  A feature may fault in a round, which skips
those behind it in that round; in its own `on_enable` or `on_disable`, whose task is then
dropped with its work done or not (`ApplyFaults`); and in `commands::shutdown`
(`ShutdownFaults`), which leaves those behind it on and the signal unqueued.

The main thread's steps are those of `main_thread` after its loop.  Two of them may never end:
`JoinPool`, if a thread of the pool missed the notification (`missed`, module `ThreadPool`),
and `Leave`, if a frame that faulted left the renderer's lock taken (`leaked`, module
`Renderer`).  `covered` is another program's hook over ours, which is chosen at the start.
`SecondPasses` is the one assumption about time: with `CallsAreShort`, a call that is in a
hook when the main thread begins to sleep for its second is out of it when it wakes.

### WeaponBackup

The engine's table `GObjects` is `index`: the weapon at an address is there under an index,
and both are used again (`Make`, `Destroy`).  An entry of a backup refers to a weapon if
`weak_object::get` returns it.  A behaviour follows one of the seven features, chosen at
the start: each has a backup of its own and, as `spread.cpp` points out, no two change the
same field, so nothing is lost by not running them together.  A value says whose original
it is or comes from and whether it is changed; that is all the properties need.

| Action | Code |
| --- | --- |
| `Enable`, `Tick`, `Disable` | `on_enable`, `on_tick` and `on_disable` of the host's own toggle |
| `ClientOn`, `ClientTick`, `ClientOff` | a client's setting, `apply` and `remove` of its `client_toggle` |
| `Make`, `Destroy`, `Equip`, `Select`, `Die`, `Respawn` | the engine and the players; `Select` is another magazine, which brings its ammo's values, or another fire mode |

The features differ in what they look at before a backup (`IsNew`), in what a backup is of
(`OfAmmo`: `damage` alone keeps it by ammo type), in whether they scale the original or write
a value of their own (`Scaled`), and in what they put back (`Restored`, `MayPutBack`).
`lost` is a history: the weapons a client's pawn had when it died with the client's toggle on,
until the host's own toggle goes off.  A gun that is in automatic or safe by its player's
choice, which `full_auto` leaves alone, is not in the model.

### Lobby, OwnName and PlayerWorker

`Lobby` has the other players as the game has them (`Join`, `NameArrives`, `Body`, `Leave`,
`Travel`, `Arrive`), the worker's list and alerts (`CheckLobby`) and Spectate (`Click`,
`RunTask`, `KeepCamera`, `ViewOwn`); `spectated` is the player whose character `g_spectated`
still refers to, so that a player's next character is not taken for it.

`OwnName` has the name, the platform and the tag: `Rename` is `apply_name`, and `KeepName`, `KeepPlatform` and `RefreshNameTags` are its parts
of a tick, against a server that may be slow or refuse.  `PlayerWorker` composes them: one `Tick`
does both, a change of the map takes both, and every other step is of one of the two.

### MenuSettings and SavedLocations

`MenuSettings` runs `load` and `save` on the main thread and, for Reload Setting, on the
render thread, without a lock: `Read`, `Assign`, `OpenFile` and `WriteFile` are their steps,
of which the third empties the file.  `AttemptSave` is `attempt_save`.  The settings are a flat
function; a file may lack some, hold one of a wrong type (`Edit`), or be no json at
all.  `SavedLocations` has the list, the file, and the window that fetches the one from the
other the first time it is drawn.

## The runs

| Run | Instance | Shows |
| --- | --- | --- |
| `scheduler` | 3 tasks, delay 1, clock to 1, chains of 2, 1 subtask a resume; 248,000 states | the scheduler implements `Scheduler`; every task pushed is started and every sleeper resumed |
| `thread_pool` | 2 workers, a function, a coroutine, 2 hops or sleeps; 67,000 states | the pool implements `JobPool`; jobs run and `destroy` ends |
| `esp_frames` | 5 frames of up to 2 elements | the hand-over, with faults, switching and unload at any point |
| `renderer` | 2 queues, 2 swapchains, 2 sizes, 1 failure or fault; 91,000 states | what is drawn on, when, and who waits |
| `pattern_batch` | bytes of 2 values, images of 3 and 5, all patterns of up to 3, 2 starts, 1 update; 3.6 million states | the search and the cache |
| `host_link` | 1 client, a pawn toggle whose remove undoes it and a host-only one whose does not, 4 events, everything allowed | safety of the link |
| `host_link_progress` | 1 client, a world toggle and two pawn toggles, two of the three host-only, 4 events, travel | changes arrive, links come back |
| `unload` | 2 features, 2 switches, covered or not, faults; 831,000 states | the unload, its safety and its end |
| `weapons` | 7 features, 2 addresses, 2 indices, 3 weapons, 2 ammo types or modes; alike addresses; 1.4 million states | backups and what they put back |
| `players` | 2 others, 2 maps, 2 clicks; or yourself, 2 renames, 2 tries, 1 reset, 1 late answer; 313,000 states | alerts, camera, name, platform and tag |
| `settings` | 2 settings of 2 values, 3 changes, 1 failure, 2 ends; 467,000 states | settings stay and are saved |
| `saved_locations` | 2 maps, 1 name, 3 saves, 2 ends | the finding |

Scheduler.  `Refines`: README's "queues a task for the next tick", also from inside a tick;
each task at most once a tick, by its leaf's wake time, in the order of pushes for the first
time, which `commands/bool_command.cpp` relies on for two clicks of one toggle; no
dead task is resumed, whatever became of the others.  `EveryTaskStarts`, `SleeperWakes`: a
fault, a sleep or an end of one task strands no other.  The single properties behind the
refinement (`RunsOnlyLive`, `NoEarlyResume`, `OnlyLeafSleeps`, `NextTickOnly`,
`FirstRunsInOrder`, `ErasedWhenEnded`) are proved as theorems.

Thread pool.  `ImplementsPool`: a job runs once for each time it was queued and on one worker,
though a coroutine queues itself while it is still being left; none wakes early, none starts
once `destroy` is called and none is lost (`OnePlace`, that a job that runs is on no stack,
is proved as a theorem).  `DownIsQuiet`: `destroy` clears the stacks without a lock, and by
then nobody is left to use them.
`EveryJobRuns` and `DestroyEnds` hold but for what the code does not prevent: a
`notify_one` that wakes a worker whose stack is empty, after which the job waits until
its worker is woken for something else (`misled`), and a notification of the timer thread that
falls between its look at `m_accept_jobs` and its wait, after which the join does not
return (`missed`).

ESP.  `ViewIsStable`: the comment of `triple_buffer.hpp`, that publication cannot recycle the
buffer of a view.  `DrawsWhatWasPublished`: a draw is the last publication.
`OffLeavesNothing`: no frame survives in any of the three buffers once the worker
has seen the ESP off.

Renderer.  `DrawsCurrent`: drawn on are the buffers of the swapchain and the size there are
now, under the lock.  `IdleAtResize`: the game's `ResizeBuffers` runs with no draw of the
overlay in flight.  `NeverInTheWay`: the overlay's references never make it fail, but
for a resize once the unload has begun, which goes past the renderer with the targets still
held.  `RightQueue`: the queue submitted on is the one the game presents from, unless the
only one captured by then was another and the swapchain shows none.  `DrawnAgain`: the
overlay comes back after a resize although its targets failed at first.
`NobodyIsStuck`: messages and the destructor get the lock, unless a fault left it taken.

Patterns.  `FindsFirst`: no shift of the table jumps over a match.  `PointersAreRight`: the
pointers a start goes on with are those a search would find, also from the cache, as long
as no two versions of the game have images of one size, which is all the cache's key knows.

Host link.  `EffectsBelong`, `OffTakesBack`: whatever a toggle with an undoing `remove` left on
a client's pawn is recorded, so that it can be and is taken back; both leave out a host that
has unloaded.  `RequestsWhole`: pieces of two requests
are never joined.  `HostFollowsUnlessUpset`: once everything sent has arrived, the host runs
exactly what the client's menu shows as on, through any travel, new pawn and change of
value; the condition leaves out what disturbs it: a switch of Accept Client Requests (see
below), an unload of the host, and an answer later than five seconds.  In the last case the
client turns its toggles off and clears `g_sent`; "off" then equals what counts as sent
(`features/host_link.cpp:352`), is never sent, and the host runs the toggle on.
`ChangeArrives`, `ClientsGetLinked`: the same as progress.

Unload.  `OffIsOff`: a toggle that is off, with no switch under way, does nothing to the
game.  Two kinds of features are left out, for which the code leaves the effect on:

- `faulted`: the last `on_disable` faulted; the state is off, so that `commands::shutdown`
  skips the feature too;
- `split`: both threads were setting the toggle at once; or a round of the loop, or
  `commands::shutdown`, came between the end of the last switch's task and the change of the
  state, after which `on_tick` runs once more, or the shutdown skips what is on; or the
  switch was queued behind the shutdown.

A later switch that goes undisturbed takes a feature out of either again.
`UnloadLeavesNothing`: an unload the game thread answers in time leaves nothing on but those.
One it does not answer in time, as when a feature faults in `commands::shutdown`, is left out.
`TasksOutliveTheTick`: without another program's hook no task is destroyed in a tick.
`FreedIsUnused`: the module is freed only when no thread is in its code or can come into
it.  `UnloadEnds`, also when the signal never comes, but for the two waits of `JoinPool` and
`Leave`, which it names by their place and their cause.

Weapons.  `OriginalsKept`: as long as a feature's change is on a weapon, the backup has that
weapon's own value and no changed one, also where the host's toggle clears the backup it
shares with a client's.  `OffPutsBack`: a weapon is changed only while the host has the feature on or the
client whose pawn owns it.  What a client's pawn drops by dying with it on stays until the
host's own toggle goes off, with infinite ammo for good (see below).  `KeptApart`: no weapon
gets another's values, if the engine does not give a weapon both the address and the index
of one in a backup (`MayReusePlace`).  `DamageByAmmo`: the comment of `damage.cpp`, each
ammo type is put back as its own.

Players.  `AlertsAreTrue`: nobody who was there when the map came up is said to have joined,
nobody who only went with the map is said to have left.  `CameraIsYours`: the camera comes
back from a player who dies or leaves, and at the unload.  `NameIsAskedFor`,
`PlatformFollows`, `TagFollows`: however slow the server is, the name is asked for as often
as the code says in each lobby, a host's platform follows even after refusals as a client,
and the tag shows the name it was made for.  A tag the game makes anew with an old name,
after it was seen to, is not rebuilt (`dressedLate`).  The variable `alone` of `MCPlayerWorker`
picks the half of the run: others come and go, or you change your name.  The two
halves share the tick and the change of map only.

Settings.  `SettingsStay`, `ChangeIsSaved`: any number of starts, reloads and files of other
versions keep every setting, and a change comes to be in the file.  What excuses a loss is a
mishap (`upset`), by what the code does then:

- a game that ends between the two steps of a write leaves an empty file, over which the next
  start writes the defaults;
- a file that cannot be opened is not tried again, since the options count as saved;
- a save and a reload come into each other's midst, or two threads write at once;
- a value of a wrong type ends the start;
- a setting is changed between the comparison that asks for a save and the save
  (see below).

Each module also defines its types (`TypeOK`); they are the first conjunct of the inductive
invariants where there is a proof, and documentation elsewhere.

### Bounds

Every bound is a constant whose name starts with `Max`, or an instance size.

- Scheduler: the order of two tasks and a third that disturbs them needs three; a
  chain of two has a frame that awaits and one that sleeps, and longer ones repeat
  that.  The clock to 1 with delay 1 gives a task due and one not due.  The proofs
  cover every other value.
- Thread pool: two workers are enough for a notification that goes astray and for a
  coroutine taken by the other one; the two stacks are used by both kinds of job.
  With one coroutine no two timers are compared; that, and every other value, is left to the
  safety proofs.
- ESP: the fourth frame is built in the buffer the first was shown from, and the fifth
  is after a full turn.  Two elements are a frame that is half built.
- Renderer: two queues are one to be right and one to be wrong; a second swapchain and a
  second size are each met in every state of the first.  One failure at any place, after which
  everything succeeds, is what recovery is asked of.  The safety proofs cover any number of them.
- Patterns: patterns of three have a wildcard or two equal bytes at every place the table
  distinguishes, and a window of three fits an image of five in three places.  The proofs cover every
  other size, and any number of starts and updates.
- Host link: two or three events make each of the disturbances, so four leave room for one
  more in front or behind.  Clients share nothing on the host but the state of Accept
  Client Requests; each has its own entries in every map, so one stands for all.
- Unload: two switches are one on each thread, of one toggle or of two, or one before and one
  after the shutdown; with two features one faults in front of the other.  The proofs
  cover every number.
- Weapons: two addresses and two indices can be paired both ways, with a third weapon made
  where the first was under the other's index.  Two ammo types make one that is loaded and
  one that is not.
- Players: two players and two maps are one that stays in the list and one that changes;
  two tries, 3 in the code, are the first and the last.
- Settings: three changes are one that asks for a save, one that overtakes it and one that
  takes it back, or two in the menu and one in the file; two ends are one on each side of a
  start.  The proof covers every other value.

Deadlock is checked for the scheduler and the ESP, for the weapons, where a player may
always respawn, and for the players.  The pool and the unload end, the link stops
once the events are used up and everything has arrived, and the batch, the overlay and the
settings stop once their bounds are; their runs do not check it.

### Fairness

- Scheduler: weak fairness of `TickBegin` (the game calls `ReceiveTick` every frame),
  of the loop, of the body (a feature's coroutine suspends or ends; one that does not
  hangs the game) and of `TickEnd` and the clock.  Nothing is assumed about pushes.
- Thread pool: every thread runs on, every job comes back, a notification that is owed is
  given, and time passes.  No wait is assumed to end by itself, and `destroy` need not be
  called.
- Renderer: the render thread goes on in a call and the game goes on presenting; the GPU
  does what was submitted; whoever waits for the lock gets it if it is free again and
  again (`Handle` is strong for that; the lock is not a fair one, but the render thread
  leaves it for the most of each frame); the main thread runs.
- Host link: both games keep updating and the reliable calls arrive, in order; five
  seconds pass.  No fairness for users, travel or time-outs.
- Unload: the main thread runs, where it does not wait for ever, and a call under way, a
  `set_state` or a frame being drawn ends.
  Whether the game thread comes through the hook again, and whether anybody clicks
  Unload, is not assumed: `UnloadEnds` holds of a game that is loading for good.
- Players: the worker ticks, the server answers, with the name or without, and seconds pass.
- Settings: the two threads go on in `load` and `save`, and the main thread looks each
  second.

## Findings

`saved_locations`: Save Current Location "saves where you stand on this map under a name"
(`menu/submenu/teleport_submenu.cpp:46`).  Saving writes the whole list over the file
(`services/custom_teleport/custom_teleport_service.cpp:54`), and the list is read from the
file only when the window of saved locations is first drawn.  Saved before that, the new
location replaces those of all earlier starts.

### Where the code and its comments part

The properties that hold leave these cases out, each by a condition that is named in the
module; with the condition dropped, TLC finds them.

- Accept Client Requests goes off and on between two updates of a client.  The client never
  runs the branch that clears `g_sent` (`features/host_link.cpp:314`), the host has dropped
  its settings, and the toggle that shows as on is not run until it is switched again,
  against `features/host_link.hpp:22`.
- `g_accepting` is what the last update saw, not what clients were told
  (`features/host_link.cpp:193`).  A ping refused while the toggle was off between two
  updates is followed by no broadcast, against the comment at `features/host_link.cpp:602`.
- Turning Accept Client Requests off "takes back what clients have on"
  (`features/host_link.cpp:281`), and a request to turn one off does too.  What
  `infinite_tactical` made unlimited stays so until the host's own toggle goes off
  (`features/infinite_tactical.cpp:101`).
- Weapons a client's pawn dropped by dying are its weapons no more, so that `remove` passes them
  by.  The host's own toggle puts them back when it goes off, but for infinite ammo, whose
  `on_disable` goes through its own list only (`features/infinite_ammo.cpp:35`).
- `main.cpp:159` says the tick hook is off when the tasks are destroyed.  One that another
  program covers is not, and `game_tick.cpp` ticks on when `g_running` is false.
- `hooking/hooking.cpp:166` deletes the hooks before the second that `main.cpp:157` sleeps for
  the calls under way, and a call in the ProcessEvent detour (`hooks/process_event.cpp:8`)
  looks for its original in the deleted one.
- `weak_object::get` (`utility/weak_object.hpp:21-28`) compares an address and a slot.  A weapon
  made at both of a destroyed one's is taken for it, against `utility/weak_object.hpp:8-9`:
  `KeptApart` fails with `MayReusePlace = TRUE`.  So does `AlertsAreTrue`, where the game
  state of the next map is told from the last one's by its address alone
  (`events/player_event.cpp:526`).
- `penetration.cpp:32` takes its backup from `CurrentAmmoType`, but keeps it by weapon only, so
  after another type is loaded "the ammo's own penetration" (`penetration.cpp:42`) is the first
  type's.  `DamageByAmmo` speaks of `damage.cpp`, which keeps it by type.
- `attempt_save` (`menu_settings.cpp:12-18`) puts one state of the settings into `options`, which is
  what the file is taken to hold from then on, and `save` (`menu_settings.cpp:95-103`) writes
  another, that of when the file is open.  A setting changed on the render thread between the
  two and changed back after them is equal to `options` again: it is not saved, the file keeps
  the value in between, and the next start has that.

## The proofs

All proofs are for any set of tasks, jobs, bytes, clients, weapons, buffers, players or settings
and any bounds, from the named assumption of the module (in `HostLink` it says that the toggles
are finitely many) and, where the text below says so, one on a constant.  The hand-over of
frames and the renderer share a proof module, as do the two files a start reads.

`TaskMgrProofs` proves the type invariant and the six safety properties of the scheduler.
None is inductive by itself.  The invariant that is, `IInv`, adds to the types

- `QueueInv`: the numbers of the pushes are distinct and at most `pushes`; what is in
  `m_tasks` was pushed before the tick's drain, what is in the queue after it;
- `LoopInv`: what the loop has still to visit is in `m_tasks` and has not ended, except
  the task being run; the loop takes tasks in order, so all that is before it has been
  started;
- `WakeInv`: a task that is not running asked to be resumed at exactly its leaf's wake
  time, or at a time that has come if it has none;
- `ChainInv`: only leaves sleep, and a running one has no wake time.

There is one lemma for each conjunct and each has one step per action.

It also proves `Refines` from `IInv`: the initial states map to the abstract
one, and each action has a lemma by which it is an abstract step or a stutter.  `Resume` needs
`LoopInv` for the order of first runs, and `Return` and `AwaitChild` `ChainInv` for what a
task is due at.

`ThreadPoolProofs` proves types, `DownIsQuiet`, `OnePlace` and `ImplementsPool`.  `PoolInv` adds
to the first two that a worker with a job, or with a notification to give, is in the job, and
that a timer thread that holds a coroutine or owes a notification is between its pop and its
return.  Hence the join leaves nothing.  `PlaceInv` adds that what is on a stack is
marked so and is there once and on no other, and that what a worker or the timer thread
holds is marked so; pushing and popping are lemmas of their own (`PushApart`, `PopApart`).
For the refinement `NoneLost` adds the converse, that what is marked as running or popped is
with a worker or the timer thread, and that neither has two, and `AcceptsWhileUp` what the flag
says of `destroy`.  A free worker is found by giving each running job the one that has it
(`WorkerFree`); `ClearDrops` needs `PoolInv`: a coroutine still in the timer thread's hand would
be queued to `JobPool` and not be dropped.

`ScreenProofs` proves the hand-over for any number and size of frames, `ViewIsStable`
as an action property.  Its `FrameInv` is the types with `HandOver`: the front buffer *is* the
last publication, a view is of the front buffer, and what the back buffer holds is all of
the frame being built.

It also proves the four invariants of `Renderer`, for any queues, swapchains, sizes and
failures, and that the destructor leaves neither targets nor draws (`DestroyedWhenIdle`).  Each
rests on the same `IInv`, whose parts no action keeps without the others:

- `Locking`: from the release of the targets to the end of its call the render thread has the
  lock, the destructor while it waits for the GPU, and nobody unloads before the user said so;
- `Targets`: the targets are of the swapchain taken, and of its size while it is the game's;
- `Drawing`: a draw begins on the game's swapchain with targets, and the fence is waited for
  without any and with nothing recorded;
- `Resizing`: the game's call runs with the targets released and the GPU done, or on a
  swapchain that is not the renderer's;
- `Choosing`: the swapchain shows no queue but its own, and the queue is chosen before the
  targets are made;
- `Unloading`: the calls under way end before the destructor takes the lock, and what it
  released stays released.

`KeptFilesProofs` proves `FindsFirst` for any pattern in any image that is not shorter, and
that no byte beyond the image is read.  `WildcardInv`: no wildcard is behind the one noted, but
for the last place.  `ReachInv` and `ShiftInv`: what a shift for a byte moves over holds
neither a wildcard nor that byte.  From that, `ShiftJumpsNoMatch`, the lemma the search
stands on; `PassedInv` is that no window left behind matches.

On top of it, `PointersAreRight` for any number of starts and updates.  `BatchInv` carries the
scan's invariant for the entry the loop is at (`SearchInv`), says what each cached offset is the
first occurrence *in* (`CacheInv`: an image of the size it is kept with, which need not be the
one the game has now), and that each entry behind the loop has its pointer or one was not found
(`PointerInv`).  `SizeTells`, the condition of the property, is used in one place, where a
hit of the cache becomes a pointer.

Third, `SettingsStay`, for any settings, values, changes, failures and ends.  `SettingsInv` adds
to the types `Places`, where the two threads and the file can be, and, until a mishap comes to
pass, `InOrder`:

- `Loading`: until the main thread has read the file, what was last given is in it, or is
  the default where it lacks it;
- `Saving`: what is being written are the options, and with nobody at work the file holds
  them, but for what was edited in it since (`Agrees`);
- `Given`: the settings are what was last given, or what deep_compare is about to make of
  the options is.

`Saving` is why a change that overtakes a save has to be a mishap.  It takes three changes to
lose a setting by one, so a run with two does not show it.

`UnloadProofs` proves the four invariants of `Unload`'s run, for any features and any number
of switches.  `TasksOutliveTheTick` and `FreedIsUnused` are under `CallsAreShort`, which their
theorems assume, and rest on `LifeInv`: how far the main thread is, what is hooked then, and
who can still be in a hook.  `OffIsOff` and `UnloadLeavesNothing` do not need it.  Both are
about the order of the tasks, so `OrderInv` speaks of `Queue`, the rest of the tick and what is
queued behind it, as one sequence, and of `Target`, what a toggle is at or is about to be.  Of
features that are not in `split` it says

- `OneSets`: one thread at a time is setting a toggle, to what it is not at;
- `LastSwitchWins`: the last switch of a feature in the queue is to its target;
- `OffIsQueued`: a feature that is on against its target has a switch off in the queue, unless
  it is in `faulted`;
- `ShutdownIsLast`: there is one shutdown, and every switch is in front of it;
- `SignalMeansOff`: once the signal is queued, the shutdown and the last round are done and
  left nothing on;
- `UnloadOrder`: no pending signal without a wait for it.

`QueueAdds`, `QueuePops`, `QueueTurns` and `QueueOpens` say what each step does to the sequence.

`WeaponBackupProofs` proves the four invariants of `WeaponBackup` for any players, weapons and
number of entries, all under `~MayReusePlace`: the code cannot tell a new weapon from one
in a backup that had both its address and its index.  None of the four is inductive, and none
can be proved before the others: what `backup_weapon` takes for a weapon's own value is that
only because every changed weapon is in the backup already.  `IInv` is the four with the types and

- `EntriesMatch`: an entry that still refers to a weapon holds that weapon's value, for
  damage that of its ammo, and is in the list of the weapon's owner, or in the client's for
  one in `lost`;
- `ValuesMatch`: a value that is not changed is the weapon's own;
- `Belongs`: a weapon's owner is a pawn that is there, and only the features for clients
  have a client's part.

`HostLinkProofs` proves the four invariants of `HostLink` for any clients, toggles, values and
number of events, in three steps.  `Effects`: what an undoing toggle left is of a setting, of a
client with a pawn, on a host that has seen the switch on; it gives `EffectsBelong` and `OffTakesBack`.
`Requests`: of all messages on their way, with the pieces the host holds, each first piece is
followed by its second (`WholeRequests`); `JoinWhole` and `TakeWhole` keep that at either end of the
sequence, and `RequestsWhole` follows.  `Links`, for `HostFollowsUnlessUpset`, says of each client

- linked: the last setting on its way of each toggle, or the host's if none is, equals what the
  client counts as sent (`Matches`, kept by `JoinMatches`, `ChangesMatch` and `TakeMatches`);
- not linked: the host has no setting of it, only pings are on their way, and it counts nothing
  as sent, so that a first pong finds both sides empty;
- a pong on its way means that the host takes requests, a refusal that it does not.

`Links` needs `Requests`: a setting that came behind half a request would be lost.

`PlayerWorkerProofs` proves types, `AlertsAreTrue` under `~MayReusePlace` and `CameraIsYours`
without it.  For the alerts, `Maps` says that a list that is not of this map is of an earlier
one, which the place of the game state then shows; `Stays` that a player state is used for one
stay; and `Current` that nobody carried off by a map is in a list of this one, and that whoever
was there when it came up is in the list once the quiet is over, has left, or came too late
to be in it.

Checked by TLC only: the liveness properties, that is the two progress properties of each of
the scheduler, the pool, the link and the renderer, `UnloadEnds`, `ChangeIsSaved` and the
three of the player's own name (fairness and `ENABLED` are out of the prover's reach), and
`SavedLocations`, whose one property the code violates.

## What is not modelled, and why

- The menu: lists of options over commands, in a library that is not in the repository.  A
  click is in `Unload`.
- The mission and the achievement worker: a list of objectives that is shown as the engine
  has it, and one request to the platform.  In the player worker, the alerts on downed
  players, the stats page, the painted row and the actions that only call the engine.
- The features without a backup: most read and write fields of engine objects once a tick.
  What some keep over ticks to put it back or to act once only is not modelled: `movement.cpp`,
  `infinite_tactical.cpp`, `godmode.cpp`, `instant_cuff.cpp`, `one_kick.cpp`,
  `third_person.cpp` and `world.cpp`.  The queue of hit markers is cut to its bound at each push
  (`features/hit_marker.cpp:57`).
- The server connection (not in the build), the logger, the injector and proxy, hardware and
  presence services, fonts and textures, vendored headers: output, straight calls of the
  system, and data.  Fonts and textures are nearly all of the repository's lines.
- Pure helpers: the parsing of patterns, the joaat hash, `scan_all`, which nothing calls, and
  byte patches, which are applied and restored once.

Known and outside the models, since nothing in the build reaches them or they take an
unusual machine or file:

- With one core there is no worker, and `next++ % m_job_stack.size()` divides by zero
  (`thread_pool.cpp:68`); `ThreadPoolAssumption` leaves it out.
- `range::scan_pattern` computes its last window without asking whether the image is as
  long as the pattern (`memory/range.cpp:63`); all images are.
- A settings file that can be neither read nor written makes `load` call itself without end
  (`menu_settings.cpp`); in the model it fails at most `MaxFailures` times.
- Deleting a saved location by its name deletes all of that name on the map.
- The steps of `full_auto.cpp:29`, which keeps entries of a client in its backup, are in
  `WeaponBackup`; a gun its player set to automatic is not.

Next in order of worth would be a theorem that `SavedLocations` loses nothing but by a save
before the list is read, and abstract specifications for the link and for the settings.

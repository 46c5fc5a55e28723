------------------------------- MODULE Unload -------------------------------
(***************************************************************************)
(* Switching features on and off, and taking the mod out of the game while *)
(* its threads go on: commands/bool_command.cpp, commands/commands.cpp,    *)
(* the loop of events/main_event.cpp, features/game_tick.cpp, the end of   *)
(* main_thread in main.cpp, and hooking/.                                  *)
(*                                                                         *)
(* Three threads.  The render thread draws the menu.  The game thread      *)
(* comes through the ProcessEvent hook and resumes the tasks, one a step.  *)
(* Both call set_state, in two steps: the task is queued, then the state   *)
(* changes.  The main thread waits for the unload and does it.  The        *)
(* scheduler is module TaskMgr's, seen from its users: tasks queued before *)
(* a tick run in it, in order, after the loop of main_event, which was     *)
(* added first.  A feature may fault in a round of the loop, in its own    *)
(* on_enable or on_disable, and in commands::shutdown.                     *)
(***************************************************************************)
EXTENDS Naturals, Sequences

CONSTANTS
  Features,      \* the looped commands
  MaxSwitches,   \* bound: calls of set_state that switch a toggle
  MayBeCovered,  \* whether another program may have hooked on top of ours
  CallsAreShort  \* whether a call under way ends within the second slept

ASSUME UnloadAssumption ==
  /\ "none" \notin Features
  /\ MaxSwitches \in Nat
  /\ MayBeCovered \in BOOLEAN
  /\ CallsAreShort \in BOOLEAN

VARIABLES
  running,  \* g_running
  drawing,  \* the render thread is in on_present, drawing the menu
  state,    \* m_state of each toggle
  setting,  \* the set_state each thread is in the middle of
  switches, \* bound: switches so far
  effect,   \* what the feature does to the game is in force
  tasks,    \* the tasks queued and not yet in a tick
  looping,  \* the loop of main_event has not ended
  game,     \* the game thread: outside, in a tick, in a round of the loop
            \* in it, or in another call that came through the hook
  frame,    \* what the tick has still to resume
  hooked,   \* the ProcessEvent hook is placed and its detour_base alive
  covered,  \* another program's hook calls it
  main,     \* how far main_thread is
  pending,  \* the flag main_thread waits for
  late,     \* history: it stopped waiting
  missed,   \* the pool's destroy() joins a thread that waits for ever
  leaked,   \* a frame that faulted left the renderer's lock taken
  split,    \* history: features whose last switch crossed another, a round
            \* of the loop or the shutdown
  faulted,  \* history: features whose last on_disable faulted
  torn      \* history: tasks were destroyed in the midst of a tick

menuVars == <<drawing, state, setting, switches>>
gameVars == <<effect, looping, game, frame>>
hookVars == <<hooked, covered>>
mainVars == <<main, pending, late, missed>>
vars == <<running, menuVars, tasks, gameVars, hookVars, mainVars, leaked, split, faulted, torn>>

Threads == {"render", "game"}

NoSet == [feature |-> "none", on |-> FALSE]
Update   == [kind |-> "update"]
Shutdown == [kind |-> "shutdown"]
Signal   == [kind |-> "signal"]
Apply(f, on) == [kind |-> "apply", feature |-> f, on |-> on]

(* The loop has enabled what is on, or a fault in that ended it.           *)
Init ==
  /\ running = TRUE
  /\ drawing = FALSE
  /\ state \in [Features -> BOOLEAN]
  /\ setting = [t \in Threads |-> NoSet]
  /\ switches = 0
  /\ effect \in [Features -> BOOLEAN]
  /\ \A f \in Features : effect[f] => state[f]
  /\ tasks = <<>>
  /\ looping \in BOOLEAN
  /\ game = "outside"
  /\ frame = <<>>
  /\ hooked = TRUE
  /\ covered \in {FALSE, MayBeCovered}
  /\ main = "running"
  /\ pending = FALSE
  /\ late = FALSE
  /\ missed = FALSE
  /\ leaked = FALSE
  /\ split = {}
  /\ faulted = {}
  /\ torn = FALSE

-----------------------------------------------------------------------------
(* bool_command::set_state, on either thread.                              *)

(* The menu's clicks; hotkeys::tick, settings::apply_external and          *)
(* turn_off_host_only in the round; a client's request in any other call.  *)
MaySet(t) ==
  \/ t = "render" /\ drawing
  \/ t = "game" /\ (game = "round" \/ (game = "original" /\ hooked))

(* A thread is in the middle of a set_state of f.                          *)
Sets(f) == \E t \in Threads : setting[t].feature = f

(* A task that is to switch f is queued or in the tick.                    *)
Queued(f) ==
  \E on \in BOOLEAN : \/ \E i \in DOMAIN tasks : tasks[i] = Apply(f, on)
                      \/ \E i \in DOMAIN frame : frame[i] = Apply(f, on)

(* Features whose task has run while their state has not changed yet.      *)
Overtaken == {f \in Features : Sets(f) /\ ~Queued(f)}

(* To async_run(apply).  It starts anew what the toggle went through, but  *)
(* when the other thread is setting the same one, or the shutdown is       *)
(* queued already.                                                         *)
SetQueues(t, f) ==
  /\ MaySet(t)
  /\ setting[t] = NoSet
  /\ switches < MaxSwitches
  /\ switches' = switches + 1
  /\ setting' = [setting EXCEPT ![t] = [feature |-> f, on |-> ~state[f]]]
  /\ tasks' = Append(tasks, Apply(f, ~state[f]))
  /\ split' = IF main = "running" /\ ~Sets(f) THEN split \ {f} ELSE split \cup {f}
  /\ UNCHANGED <<running, drawing, state, gameVars, hookVars, mainVars, leaked, faulted, torn>>

(* From m_state = state.                                                   *)
SetEnds(t) ==
  /\ setting[t] # NoSet
  /\ state' = [state EXCEPT ![setting[t].feature] = setting[t].on]
  /\ setting' = [setting EXCEPT ![t] = NoSet]
  /\ UNCHANGED <<running, drawing, switches, tasks, gameVars, hookVars, mainVars, leaked, split,
                 faulted, torn>>

-----------------------------------------------------------------------------
(* The render thread.                                                      *)

(* render_present looks at g_running once, before it draws.                *)
BeginFrame ==
  /\ ~drawing
  /\ running
  /\ drawing' = TRUE
  /\ UNCHANGED <<running, state, setting, switches, tasks, gameVars, hookVars, mainVars, leaked,
                 split, faulted, torn>>

(* A frame that faults may leave the lock taken (module Renderer).         *)
EndFrame ==
  /\ drawing
  /\ setting["render"] = NoSet
  /\ drawing' = FALSE
  /\ leaked' \in {leaked, TRUE}
  /\ UNCHANGED <<running, state, setting, switches, tasks, gameVars, hookVars, mainVars, split,
                 faulted, torn>>

(* Unload in the menu, or the game's window closes.                        *)
Stop ==
  /\ running
  /\ running' = FALSE
  /\ UNCHANGED <<menuVars, tasks, gameVars, hookVars, mainVars, leaked, split, faulted, torn>>

-----------------------------------------------------------------------------
(* The game thread.                                                        *)

(* ProcessEvent of a function that ticks: all tasks queued are taken.      *)
BeginTick ==
  /\ hooked
  /\ game = "outside"
  /\ game' = "ticking"
  /\ frame' = (IF looping THEN <<Update>> ELSE <<>>) \o tasks
  /\ tasks' = <<>>
  /\ UNCHANGED <<running, menuVars, effect, looping, hookVars, mainVars, leaked, split, faulted, torn>>

(* ProcessEvent of any other function, or before the next tick is due.     *)
PlainCall ==
  /\ hooked
  /\ game = "outside"
  /\ game' = "original"
  /\ UNCHANGED <<running, menuVars, tasks, effect, looping, frame, hookVars, mainVars, leaked, split,
                 faulted, torn>>

Resumes(task) ==
  /\ game = "ticking"
  /\ frame # <<>>
  /\ Head(frame) = task
  /\ frame' = Tail(frame)

(* Mutant of LoopGoesOn: main_event does not look at g_running.            *)
LoopGoesOn_Always == TRUE

LoopGoesOn == running

(* run of main_event: another round, or the end of the loop.               *)
RunLoop ==
  /\ Resumes(Update)
  /\ looping' = LoopGoesOn
  /\ game' = IF LoopGoesOn THEN "round" ELSE game
  /\ UNCHANGED <<running, menuVars, tasks, effect, hookVars, mainVars, leaked, split, faulted, torn>>

(* run_looped_command, the end of a round.  A fault anywhere in the round  *)
(* skips the features behind it.                                           *)
RunFeatures ==
  /\ game = "round"
  /\ setting["game"] = NoSet
  /\ game' = "ticking"
  /\ \E reached \in SUBSET Features :
       effect' = [f \in Features |-> effect[f] \/ (state[f] /\ f \in reached)]
  /\ split' = split \cup Overtaken
  /\ UNCHANGED <<running, menuVars, tasks, looping, frame, hookVars, mainVars, leaked, faulted, torn>>

(* Mutant of Switched: on_disable does not put back what on_tick changed.  *)
Switched_On(f, on) == [effect EXCEPT ![f] = @ \/ on]

Switched(f, on) == [effect EXCEPT ![f] = on]

(* on_enable or on_disable.                                                *)
RunApply ==
  \E f \in Features, on \in BOOLEAN :
    /\ Resumes(Apply(f, on))
    /\ effect' = Switched(f, on)
    /\ faulted' = faulted \ {f}
    /\ UNCHANGED <<running, menuVars, tasks, looping, game, hookVars, mainVars, leaked, split, torn>>

(* A fault in it: the tick drops the task, whatever it has done by then.   *)
ApplyFaults ==
  \E f \in Features, on \in BOOLEAN :
    /\ Resumes(Apply(f, on))
    /\ effect' \in {effect, Switched(f, on)}
    /\ faulted' = IF on THEN faulted ELSE faulted \cup {f}
    /\ UNCHANGED <<running, menuVars, tasks, looping, game, hookVars, mainVars, leaked, split, torn>>

(* commands::shutdown, then the signal is queued for the next tick.        *)
RunShutdown ==
  /\ Resumes(Shutdown)
  /\ effect' = [f \in Features |-> effect[f] /\ ~state[f]]
  /\ faulted' = {f \in faulted : ~state[f]}
  /\ split' = split \cup Overtaken
  /\ tasks' = Append(tasks, Signal)
  /\ UNCHANGED <<running, menuVars, looping, game, hookVars, mainVars, leaked, torn>>

(* A fault in one feature's on_disable ends the task: the features behind  *)
(* it stay on, and the signal is never queued.                             *)
ShutdownFaults ==
  /\ Resumes(Shutdown)
  /\ \E reached \in SUBSET Features :
       effect' = [f \in Features |-> effect[f] /\ ~(state[f] /\ f \in reached)]
  /\ UNCHANGED <<running, menuVars, tasks, looping, game, hookVars, mainVars, leaked, split, faulted, torn>>

RunSignal ==
  /\ Resumes(Signal)
  /\ pending' = FALSE
  /\ UNCHANGED <<running, menuVars, tasks, effect, looping, game, hookVars, main, late, missed, leaked,
                 split, faulted, torn>>

TickIsOver == frame = <<>>

(* The tick is over, and the interceptor runs the game's own function.     *)
RunOriginal ==
  /\ game = "ticking"
  /\ TickIsOver
  /\ game' = "original"
  /\ UNCHANGED <<running, menuVars, tasks, effect, looping, frame, hookVars, mainVars, leaked, split,
                 faulted, torn>>

EndCall ==
  /\ game = "original"
  /\ setting["game"] = NoSet
  /\ game' = "outside"
  /\ UNCHANGED <<running, menuVars, tasks, effect, looping, frame, hookVars, mainVars, leaked, split,
                 faulted, torn>>

-----------------------------------------------------------------------------
(* The main thread, after its loop.                                        *)

QueueShutdown ==
  /\ main = "running"
  /\ ~running
  /\ main' = "waiting"
  /\ pending' = TRUE
  /\ tasks' = Append(tasks, Shutdown)
  /\ UNCHANGED <<running, menuVars, gameVars, hookVars, late, missed, leaked, split, faulted, torn>>

(* Mutant of WaitIsOver: it waits without a deadline.                      *)
WaitIsOver_Never == ~pending

(* The signal came, or the two seconds passed.                             *)
WaitIsOver == TRUE

Waited ==
  /\ main = "waiting"
  /\ WaitIsOver
  /\ main' = "disabling"
  /\ late' = pending
  /\ UNCHANGED <<running, menuVars, tasks, gameVars, hookVars, pending, missed, leaked, split, faulted, torn>>

(* disable: a hook that is not covered goes, and its detour_base with it.  *)
Disable ==
  /\ main = "disabling"
  /\ main' = "sleeping"
  /\ hooked' = covered
  /\ UNCHANGED <<running, menuVars, tasks, gameVars, covered, pending, late, missed, leaked, split,
                 faulted, torn>>

(* Mutant of SecondPasses: it does not sleep.                              *)
SecondPasses_AtOnce == TRUE

(* The second slept, in which short calls come to their end.               *)
SecondPasses == CallsAreShort => (~hooked => game = "outside") /\ ~drawing

Slept ==
  /\ main = "sleeping"
  /\ SecondPasses
  /\ main' = "clearing"
  /\ UNCHANGED <<running, menuVars, tasks, gameVars, hookVars, pending, late, missed, leaked, split,
                 faulted, torn>>

(* task_mgr::clear, on whatever thread's hands the tasks are.              *)
Clear ==
  /\ main = "clearing"
  /\ main' = "leaving"
  /\ tasks' = <<>>
  /\ frame' = <<>>
  /\ looping' = FALSE
  /\ torn' = (game \in {"ticking", "round"})
  /\ UNCHANGED <<running, menuVars, effect, game, hookVars, pending, late, missed, leaked, split, faulted>>

(* The hooks' owner goes, and the thread pool is told to end: a thread of  *)
(* it may miss that (module ThreadPool).                                   *)
DestroyPool ==
  /\ main = "leaving"
  /\ main' = "joining"
  /\ missed' \in BOOLEAN
  /\ UNCHANGED <<running, menuVars, tasks, gameVars, hookVars, pending, late, leaked, split, faulted, torn>>

(* The pool's threads are joined, and the renderer goes next.              *)
JoinPool ==
  /\ main = "joining"
  /\ ~missed
  /\ main' = "releasing"
  /\ UNCHANGED <<running, menuVars, tasks, gameVars, hookVars, pending, late, missed, leaked, split,
                 faulted, torn>>

(* Mutant of Retained: the module is freed whatever hooks are left.        *)
Retained_Never == FALSE

Retained == hooked

(* The renderer's destructor got its lock, and main_thread ends.           *)
Leave ==
  /\ main = "releasing"
  /\ ~leaked
  /\ main' = IF Retained THEN "retained" ELSE "freed"
  /\ UNCHANGED <<running, menuVars, tasks, gameVars, hookVars, pending, late, missed, leaked, split,
                 faulted, torn>>

-----------------------------------------------------------------------------
SetState == \E t \in Threads : SetEnds(t) \/ \E f \in Features : SetQueues(t, f)
Render == BeginFrame \/ EndFrame
Resume ==
  \/ RunLoop \/ RunFeatures \/ RunApply \/ ApplyFaults \/ RunShutdown \/ ShutdownFaults
  \/ RunSignal \/ RunOriginal \/ EndCall
Game == BeginTick \/ PlainCall \/ Resume
Main ==
  \/ QueueShutdown \/ Waited \/ Disable \/ Slept \/ Clear
  \/ DestroyPool \/ JoinPool \/ Leave

Next == SetState \/ Render \/ Stop \/ Game \/ Main

Spec == Init /\ [][Next]_vars

(* The threads run, and a call under way ends.  Whether the game thread    *)
(* comes through the hook again is up to the game, e.g. while it loads.    *)
FairSpec ==
  /\ Spec
  /\ WF_vars(Main)
  /\ WF_vars(SetEnds("render") \/ EndFrame)
  /\ WF_vars(SetEnds("game") \/ Resume)

-----------------------------------------------------------------------------
Tasks == {Update, Shutdown, Signal} \cup {Apply(f, on) : f \in Features, on \in BOOLEAN}

(* Each variable has its type, and only a tick has tasks left to resume.   *)
TypeOK ==
  /\ running \in BOOLEAN
  /\ drawing \in BOOLEAN
  /\ state \in [Features -> BOOLEAN]
  /\ setting \in [Threads -> {NoSet} \cup [feature : Features, on : BOOLEAN]]
  /\ switches \in 0..MaxSwitches
  /\ effect \in [Features -> BOOLEAN]
  /\ tasks \in Seq(Tasks)
  /\ looping \in BOOLEAN
  /\ game \in {"outside", "ticking", "round", "original"}
  /\ frame \in Seq(Tasks)
  /\ frame # <<>> => game \in {"ticking", "round"}
  /\ hooked \in BOOLEAN /\ covered \in BOOLEAN
  /\ main \in {"running", "waiting", "disabling", "sleeping", "clearing", "leaving", "joining",
               "releasing", "retained", "freed"}
  /\ pending \in BOOLEAN /\ late \in BOOLEAN /\ torn \in BOOLEAN
  /\ missed \in BOOLEAN /\ leaked \in BOOLEAN
  /\ split \subseteq Features /\ faulted \subseteq Features

(* The tasks are gone.                                                     *)
Cleared == main \in {"leaving", "joining", "releasing", "retained", "freed"}

(* While there are tasks, a feature whose toggle is off with no switch     *)
(* under way does nothing to the game, unless its last on_disable faulted, *)
(* or its last switch was split: both threads were setting the toggle at   *)
(* once, or a round of the loop or commands::shutdown came between the     *)
(* end of its task and the change of its state, or it came when the        *)
(* shutdown was queued already.                                            *)
OffIsOff ==
  ~Cleared => \A f \in Features \ (split \cup faulted) :
                ~state[f] /\ ~Sets(f) /\ ~Queued(f) => ~effect[f]

(* An unload the game thread took part in leaves no feature on, but for    *)
(* one whose last on_disable faulted, and for one whose last switch was    *)
(* split in one of the three ways OffIsOff names.                          *)
UnloadLeavesNothing ==
  main \notin {"running", "waiting", "disabling"} /\ ~late
    => \A f \in Features \ (split \cup faulted) : ~effect[f]

(* "Only once the tick hook is off, so no task is being resumed while it   *)
(* is destroyed" (main.cpp): so it is unless another program hooks on top  *)
(* of ours, the second slept being enough for the last tick.               *)
TasksOutliveTheTick == ~covered => ~torn

(* The module is freed only when no thread is in its code or can come.     *)
FreedIsUnused == main = "freed" => ~hooked /\ game = "outside" /\ ~drawing

(* An unload comes to its end, also of a game whose thread does not come   *)
(* through the hook any more.  It is held up in two places only: where it  *)
(* joins the pool's threads, when one of them missed the end (DestroyEnds  *)
(* of module ThreadPool), and where the renderer's destructor takes the    *)
(* lock, when a fault in a frame left it taken (NobodyIsStuck of module    *)
(* Renderer).                                                              *)
UnloadEnds ==
  ~running ~> \/ main \in {"retained", "freed"}
              \/ main = "joining" /\ missed
              \/ main = "releasing" /\ leaked

=============================================================================

------------------------------ MODULE Renderer ------------------------------
(***************************************************************************)
(* The overlay on the game's swapchain: renderer.cpp, the hooks on Present *)
(* and ResizeBuffers of hooks/swapchain_hook.cpp, the window procedure of  *)
(* hooks/wndproc.cpp and the unload of main.cpp as far as it goes.         *)
(*                                                                         *)
(* Four threads meet here: the game's render thread, which presents and    *)
(* resizes; the window's, which handles messages; the main thread, which   *)
(* destroys the renderer; and the GPU, which does later what was submitted.*)
(* All but the GPU take m_mutex.  A set of buffers is <<swapchain, size>>, *)
(* m_targets the set of those the overlay holds references to: at most one.*)
(*                                                                         *)
(* A step that may fail (a buffer, a fence, ResizeBuffers) fails at most   *)
(* MaxFailures times in all.  In the second that main_thread sleeps, calls *)
(* under way end unless they wait for ever (CallsAreShort in Unload).      *)
(***************************************************************************)
EXTENDS Naturals, FiniteSets

CONSTANTS
  Queues,       \* the direct queues of the game's device
  MaxChains,    \* bound: swapchains the game makes for its window
  MaxResizes,   \* bound: sizes of the buffers
  MaxFailures   \* bound: calls of Direct3D that fail

ASSUME RendererAssumption ==
  Queues # {} /\ MaxChains \in Nat \ {0} /\ MaxResizes \in Nat \ {0} /\ MaxFailures \in Nat

VARIABLES
  running,   \* g_running
  hooked,    \* the hooks are placed
  alive,     \* g_renderer is not null
  lock,      \* m_mutex: {} or the thread that has it
  at,        \* where the render thread is
  after,     \* what it released the targets for
  window,    \* where the window's thread is
  main,      \* where the main thread is
  init,      \* m_init
  owned,     \* m_dxgi_swapchain, 0 for none
  queue,     \* m_queue, {} for none
  captured,  \* m_queues
  targets,   \* m_targets and m_wrapped_buffers
  recorded,  \* buffers of the draws that are not flushed yet
  pending,   \* buffers of the draws the GPU has still to do
  on12,      \* the game renders with DirectX 12
  own,       \* the queue the game's swapchain was created on
  shown,     \* the queues find_present_queue sees in a swapchain
  chain,     \* the game's swapchain
  size,      \* its buffers' size
  failures,  \* bound: failures so far
  guessed,   \* history: the queue taken was the only one captured, and seen nowhere
  unfenced,  \* history: the GPU was not waited for
  leaked,    \* history: a fault ended a call without the unlock
  half,      \* history: a fault ended init with the targets created
  blocked,   \* history: a resize failed because of the targets
  drawn      \* history: the buffers of the last draw submitted

threadVars == <<running, hooked, alive, lock, at, after, window, main>>
ownVars    == <<init, owned, queue>>
gpuVars    == <<targets, recorded, pending>>
gameVars   == <<on12, own, shown, chain, size>>
historyVars == <<guessed, unfenced, leaked, half, blocked, drawn>>
vars == <<threadVars, ownVars, captured, gpuVars, gameVars, failures, historyVars>>

Buffers == <<chain, size>>

(* What DXGI keeps in a swapchain is its own queue, "while the game's      *)
(* other direct queues are not there" (renderer.cpp:26), if it is there.   *)
Init ==
  /\ running = TRUE /\ hooked = TRUE /\ alive = TRUE
  /\ lock = {}
  /\ at = "idle" /\ after = "none" /\ window = "idle" /\ main = "up"
  /\ init = FALSE /\ owned = 0 /\ queue = {} /\ captured = {}
  /\ targets = {} /\ recorded = {} /\ pending = {}
  /\ on12 \in BOOLEAN
  /\ own \in Queues
  /\ shown \in {{}, {own}}
  /\ chain = 1 /\ size = 1
  /\ failures = 0
  /\ guessed = FALSE /\ unfenced = FALSE /\ leaked = FALSE /\ half = FALSE
  /\ blocked = FALSE /\ drawn = {}

-----------------------------------------------------------------------------
(* What the threads share.                                                 *)

Owns   == init /\ owned = chain
CanLock(thread) == lock \in {{}, {thread}}

Fails == failures < MaxFailures /\ failures' = failures + 1

(* Mutant of Return: it leaves the lock to the next call.                  *)
Return_Locked == at' = "idle" /\ after' = "none" /\ lock' = {"render"}

(* A call of the render thread returns.  The recursive lock that a fault   *)
(* left taken stays taken.                                                 *)
Return == at' = "idle" /\ after' = "none" /\ lock' = IF leaked THEN lock ELSE {}

(* A fault is caught by TRY_CLAUSE; the build unwinds for C++ exceptions   *)
(* only, so the lock_guard may or may not have been destroyed.             *)
Faulted ==
  /\ at' = "idle" /\ after' = "none"
  /\ \/ Return /\ UNCHANGED leaked
     \/ lock' = {"render"} /\ leaked' = TRUE

(* m_d3d_context->Flush.                                                   *)
Flush ==
  /\ pending' = IF queue = {} THEN pending ELSE pending \cup recorded
  /\ recorded' = {}

(* release_targets, up to its wait for the fence.                          *)
Release == targets' = {} /\ Flush

(* Mutant of FencePassed: the fence is signalled and not waited for.       *)
FencePassed_AtOnce == UNCHANGED <<failures, unfenced>>

(* The fence is signalled behind all that is on the queue.  Without a      *)
(* fence there is no wait.                                                 *)
FencePassed ==
  \/ pending = {} /\ UNCHANGED <<failures, unfenced>>
  \/ queue # {} /\ Fails /\ unfenced' = TRUE

-----------------------------------------------------------------------------
(* Present, on the render thread.                                          *)

(* render_present, up to the lock.                                         *)
Present ==
  /\ at = "idle"
  /\ hooked /\ running /\ alive
  /\ at' = "present"
  /\ UNCHANGED <<running, hooked, alive, lock, after, window, main, ownVars, captured, gpuVars,
                 gameVars, failures, historyVars>>

Candidates == {q \in captured : q \in shown}

(* Mutant of Chosen: any of the queues captured will do.                   *)
Chosen_Any == IF Candidates # {} THEN Candidates ELSE captured

(* The queue the swapchain holds, or the only one there is.                *)
Chosen ==
  CASE Cardinality(Candidates) = 1 -> Candidates
    [] Candidates = {} /\ Cardinality(captured) = 1 -> captured
    [] OTHER -> {}

(* init of a renderer that is not, up to create_targets and its release.   *)
(* No queue to submit on yet, or none to be sure of: the next Present      *)
(* tries again.                                                            *)
BeginInit ==
  /\ at = "present"
  /\ ~init
  /\ CanLock("render")
  /\ \/ /\ on12 /\ Chosen # {}
        /\ \E q \in Chosen : queue' = {q}
        /\ guessed' = (Candidates = {} /\ Cardinality(captured) = 1)
     \/ /\ ~on12
        /\ queue' = {}
        /\ guessed' = FALSE
  /\ owned' = chain
  /\ lock' = {"render"}
  /\ Release
  /\ at' = "fence" /\ after' = "init"
  /\ UNCHANGED <<running, hooked, alive, window, main, init, captured, gameVars, failures,
                 unfenced, leaked, half, blocked, drawn>>

(* Mutant of NoFrame: on_present gives up when there are no targets.       *)
NoFrame_NoTargets ==
  \/ init /\ (owned # chain \/ targets = {})
  \/ ~init /\ on12 /\ Chosen = {}

(* init returns false: no queue to be sure of, or a swapchain that is not  *)
(* the one taken at first.                                                 *)
NoFrame ==
  \/ init /\ owned # chain
  \/ ~init /\ on12 /\ Chosen = {}

(* Present draws nothing, for that or for a device that cannot be made.    *)
GiveUpFrame ==
  /\ at = "present"
  /\ CanLock("render")
  /\ \/ NoFrame /\ UNCHANGED failures
     \/ ~init /\ Fails
  /\ Return
  /\ UNCHANGED <<running, hooked, alive, window, main, ownVars, captured, gpuVars, gameVars, historyVars>>

(* on_present: targets that could not be created are tried for again.      *)
BeginDraw ==
  /\ at = "present"
  /\ Owns
  /\ CanLock("render")
  /\ lock' = {"render"}
  /\ \/ targets = {} /\ Release /\ at' = "fence" /\ after' = "draw"
     \/ targets # {} /\ at' = "draw" /\ UNCHANGED <<gpuVars, after>>
  /\ UNCHANGED <<running, hooked, alive, window, main, ownVars, captured, gameVars, failures, historyVars>>

(* Mutant of Created: the buffers of the size known before are wrapped.    *)
Created_Before == IF drawn = {} THEN {Buffers} ELSE drawn

(* create_targets wraps what the swapchain has now.                        *)
Created == {Buffers}

(* create_targets, once the old ones are released.  It is tried by init,   *)
(* by on_present and by post_reset.                                        *)
CreateTargets ==
  /\ at = "fence"
  /\ FencePassed
  /\ \/ /\ after = "init"
        /\ targets' = Created
        /\ init' = TRUE
        /\ at' = "draw"
        /\ UNCHANGED <<after, lock>>
     \/ /\ after = "draw"
        /\ targets' = Created
        /\ at' = "draw"
        /\ UNCHANGED <<after, lock, init>>
     \/ /\ after = "reset"
        /\ targets' = Created
        /\ Return
        /\ UNCHANGED init
  /\ UNCHANGED <<running, hooked, alive, window, main, owned, queue, captured, recorded, pending,
                 gameVars, guessed, leaked, half, blocked, drawn>>

(* A buffer or a view could not be had; what there was is released again.  *)
CreateFails ==
  /\ at = "fence"
  /\ after \in {"init", "draw", "reset"}
  /\ pending = {}
  /\ Fails
  /\ Return
  /\ UNCHANGED <<running, hooked, alive, window, main, ownVars, captured, gpuVars, gameVars, historyVars>>

(* imgui_init faults, with the targets created and m_init not set.         *)
InitFaults ==
  /\ at = "fence" /\ after = "init"
  /\ pending = {}
  /\ Fails
  /\ targets' = Created
  /\ half' = TRUE
  /\ Faulted
  /\ UNCHANGED <<running, hooked, alive, window, main, ownVars, captured, recorded, pending,
                 gameVars, guessed, unfenced, blocked, drawn>>

(* The callbacks draw the menu, whose Unload clears g_running, and ImGui   *)
(* records what they drew.                                                 *)
Draw ==
  /\ at = "draw"
  /\ recorded' = targets
  /\ running' \in {running, FALSE}
  /\ at' = "drawn"
  /\ UNCHANGED <<hooked, alive, lock, after, window, main, ownVars, captured, targets, pending,
                 gameVars, failures, historyVars>>

(* ReleaseWrappedResources and Flush.                                      *)
Submit ==
  /\ at = "drawn"
  /\ Flush
  /\ drawn' = recorded
  /\ Return
  /\ UNCHANGED <<running, hooked, alive, window, main, ownVars, captured, targets, gameVars,
                 failures, guessed, unfenced, leaked, half, blocked>>

(* A callback, or what is called after them, faults.                       *)
DrawFaults ==
  /\ at \in {"draw", "drawn"}
  /\ Fails
  /\ Faulted
  /\ UNCHANGED <<running, hooked, alive, window, main, ownVars, captured, gpuVars, gameVars,
                 guessed, unfenced, half, blocked, drawn>>

-----------------------------------------------------------------------------
(* ResizeBuffers, on the render thread.                                    *)

(* resize, up to the lock.                                                 *)
Resize ==
  /\ at = "idle"
  /\ size < MaxResizes
  /\ hooked /\ running /\ alive
  /\ at' = "resize"
  /\ UNCHANGED <<running, hooked, alive, lock, after, window, main, ownVars, captured, gpuVars,
                 gameVars, failures, historyVars>>

(* Mutant of Active: only a swapchain that has been resized before.        *)
Active_NotFirst == Owns /\ size > 1

(* active: this is the swapchain the overlay draws on.                     *)
Active == Owns

(* pre_reset, or nothing to reset.                                         *)
PreReset ==
  /\ at = "resize"
  /\ CanLock("render")
  /\ lock' = {"render"}
  /\ \/ Active /\ Release /\ at' = "fence" /\ after' = "resize"
     \/ ~Active /\ at' = "original" /\ after' = "none" /\ UNCHANGED gpuVars
  /\ UNCHANGED <<running, hooked, alive, window, main, ownVars, captured, gameVars, failures, historyVars>>

Released ==
  /\ at = "fence" /\ after = "resize"
  /\ FencePassed
  /\ at' = "original"
  /\ UNCHANGED <<running, hooked, alive, lock, after, window, main, ownVars, captured, gpuVars,
                 gameVars, guessed, leaked, half, blocked, drawn>>

(* The game's own ResizeBuffers fails while anyone holds a buffer.         *)
ResizeBuffers ==
  \/ /\ targets # {Buffers}
     /\ size' = size + 1
     /\ UNCHANGED <<blocked, failures>>
  \/ /\ targets = {Buffers}
     /\ blocked' = TRUE
     /\ UNCHANGED <<size, failures>>
  \/ /\ targets = {}
     /\ Fails
     /\ UNCHANGED <<size, blocked>>

(* The original runs; post_reset releases once more before it creates,     *)
(* whether the original failed or not.                                     *)
Original ==
  /\ at = "original"
  /\ ResizeBuffers
  /\ \/ after = "resize" /\ Release /\ at' = "fence" /\ after' = "reset" /\ UNCHANGED lock
     \/ after = "none" /\ Return /\ UNCHANGED gpuVars
  /\ UNCHANGED <<running, hooked, alive, window, main, ownVars, captured, on12, own, shown, chain,
                 guessed, unfenced, leaked, half, drawn>>

(* A resize that comes past the overlay: the unload has begun.             *)
PlainResize ==
  /\ at = "idle"
  /\ size < MaxResizes
  /\ ~(hooked /\ running /\ alive)
  /\ ResizeBuffers
  /\ UNCHANGED <<threadVars, ownVars, captured, gpuVars, on12, own, shown, chain,
                 guessed, unfenced, leaked, half, drawn>>

-----------------------------------------------------------------------------
(* The rest of the game.                                                   *)

(* ExecuteCommandLists on a direct queue: capture_queue.                   *)
CaptureQueue(q) ==
  /\ on12
  /\ hooked /\ running /\ alive
  /\ captured' = captured \cup {q}
  /\ UNCHANGED <<threadVars, ownVars, gpuVars, gameVars, failures, historyVars>>

(* The game makes another swapchain for its window.                        *)
Replace ==
  /\ at = "idle"
  /\ chain < MaxChains
  /\ chain' = chain + 1
  /\ UNCHANGED <<threadVars, ownVars, captured, gpuVars, on12, own, shown, size, failures, historyVars>>

(* The GPU does all that is on the queue.                                  *)
GpuWorks ==
  /\ pending # {}
  /\ pending' = {}
  /\ UNCHANGED <<threadVars, ownVars, captured, targets, recorded, gameVars, failures, historyVars>>

(* wndproc, up to the lock.                                                *)
Message ==
  /\ window = "idle"
  /\ hooked /\ running
  /\ window' = "waiting"
  /\ UNCHANGED <<running, hooked, alive, lock, at, after, main, ownVars, captured, gpuVars,
                 gameVars, failures, historyVars>>

(* The message is handled; the End key unloads.                            *)
Handle ==
  /\ window = "waiting"
  /\ CanLock("window")
  /\ window' = "idle"
  /\ running' \in {running, FALSE}
  /\ UNCHANGED <<hooked, alive, lock, at, after, main, ownVars, captured, gpuVars,
                 gameVars, failures, historyVars>>

-----------------------------------------------------------------------------
(* The main thread.                                                        *)

Disable ==
  /\ main = "up"
  /\ ~running
  /\ hooked' = FALSE
  /\ main' = "sleeping"
  /\ UNCHANGED <<running, alive, lock, at, after, window, ownVars, captured, gpuVars,
                 gameVars, failures, historyVars>>

(* The second is over, and with it the calls that were under way, but for  *)
(* those that wait for a lock nobody will unlock.                          *)
Slept ==
  /\ main = "sleeping"
  /\ at \in {"idle", "original"}
  /\ window = "idle" \/ leaked
  /\ main' = "destroying"
  /\ UNCHANGED <<running, hooked, alive, lock, at, after, window, ownVars, captured, gpuVars,
                 gameVars, failures, historyVars>>

(* ~renderer locks and releases.                                           *)
BeginDestroy ==
  /\ main = "destroying"
  /\ CanLock("main")
  /\ lock' = {"main"}
  /\ Release
  /\ main' = "fence"
  /\ UNCHANGED <<running, hooked, alive, at, after, window, ownVars, captured,
                 gameVars, failures, historyVars>>

(* The GPU is idle, ImGui and the textures go, and the second release has  *)
(* nothing left to wait for.                                               *)
EndDestroy ==
  /\ main = "fence"
  /\ FencePassed
  /\ alive' = FALSE
  /\ lock' = {}
  /\ main' = "gone"
  /\ UNCHANGED <<running, hooked, at, after, window, ownVars, captured, gpuVars,
                 gameVars, guessed, leaked, half, blocked, drawn>>

-----------------------------------------------------------------------------
Render ==
  \/ BeginInit \/ GiveUpFrame \/ BeginDraw \/ CreateTargets \/ CreateFails \/ InitFaults
  \/ Draw \/ Submit \/ DrawFaults
  \/ PreReset \/ Released \/ Original
Main == Disable \/ Slept \/ BeginDestroy \/ EndDestroy

Next ==
  \/ Present \/ Resize \/ PlainResize \/ Render
  \/ \E q \in Queues : CaptureQueue(q)
  \/ Replace \/ GpuWorks \/ Message \/ Handle
  \/ Main

Spec == Init /\ [][Next]_vars

(* The threads run, the GPU works, and the game goes on presenting.        *)
FairSpec ==
  /\ Spec
  /\ WF_vars(Render) /\ SF_vars(Present)
  /\ WF_vars(GpuWorks) /\ SF_vars(Handle) /\ WF_vars(Main)

-----------------------------------------------------------------------------
BufferSets == (1..MaxChains) \X (1..MaxResizes)

(* Each variable has its type.                                             *)
TypeOK ==
  /\ running \in BOOLEAN /\ hooked \in BOOLEAN /\ alive \in BOOLEAN
  /\ lock \in {{}, {"render"}, {"main"}}
  /\ at \in {"idle", "present", "fence", "draw", "drawn", "resize", "original"}
  /\ after \in {"none", "init", "draw", "resize", "reset"}
  /\ window \in {"idle", "waiting"}
  /\ main \in {"up", "sleeping", "destroying", "fence", "gone"}
  /\ init \in BOOLEAN /\ owned \in 0..MaxChains
  /\ queue \subseteq Queues /\ captured \subseteq Queues
  /\ targets \subseteq BufferSets /\ recorded \subseteq BufferSets /\ pending \subseteq BufferSets
  /\ on12 \in BOOLEAN /\ own \in Queues /\ shown \subseteq Queues
  /\ chain \in 1..MaxChains /\ size \in 1..MaxResizes
  /\ failures \in 0..MaxFailures
  /\ guessed \in BOOLEAN /\ unfenced \in BOOLEAN /\ leaked \in BOOLEAN /\ half \in BOOLEAN
  /\ blocked \in BOOLEAN /\ drawn \subseteq BufferSets

(* What is drawn on are the buffers the swapchain has now, of the          *)
(* swapchain that is presented, whatever resizes came and failed before.   *)
DrawsCurrent == at \in {"draw", "drawn"} => targets = {Buffers} /\ lock = {"render"}

(* Before the game's ResizeBuffers runs, the GPU is done with every draw   *)
(* of the overlay's on the old buffers, unless no fence could be had.      *)
IdleAtResize ==
  at = "original" /\ after = "resize" /\ ~unfenced => pending = {} /\ recorded = {}

(* The overlay's references never make the game's ResizeBuffers fail,      *)
(* except once the unload has begun: resize passes the call on with the    *)
(* targets still held, and so does the game when the hook is off.  The     *)
(* other exception is a fault that ended init between the targets and      *)
(* m_init.                                                                 *)
NeverInTheWay == blocked => ~running \/ half

(* The overlay submits on the queue the game's swapchain presents from,    *)
(* unless the swapchain does not show it and another queue was the only    *)
(* one captured by then.                                                   *)
RightQueue == init /\ on12 => queue = {own} \/ guessed

(* A size the swapchain comes to is drawn on, although the targets could   *)
(* not be created at once.                                                 *)
DrawnAgain ==
  \A b \in BufferSets :
    Owns /\ Buffers = b ~> drawn = {b} \/ Buffers # b \/ ~running

(* A message and the destructor get the lock in the end, and with them the *)
(* game its window and the mod its unload, unless a fault left it locked.  *)
NobodyIsStuck ==
  /\ window = "waiting" ~> window = "idle" \/ leaked
  /\ main = "sleeping" ~> main = "gone" \/ leaked

=============================================================================

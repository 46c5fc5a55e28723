------------------------------ MODULE TaskMgr ------------------------------
(***************************************************************************)
(* The coroutine scheduler of src/src/task_mgr.cpp and src/src/task.hpp.   *)
(*                                                                         *)
(* Any thread may push a task (async_run, task_mgr::add); only the game    *)
(* thread ticks.  A tick moves the incoming queue into m_tasks under the   *)
(* lock, visits the tasks that were there at that moment in order, and     *)
(* erases the ended ones at its end.  Visiting a task resumes the leaf of  *)
(* its chain of awaited subtasks, unless the leaf is still asleep; the     *)
(* leaf then runs until it yields, awaits a subtask (which runs at once),  *)
(* returns (its parent runs on at once) or faults.                         *)
(*                                                                         *)
(* m_incoming_tasks and m_tasks are vectors that only ever append and      *)
(* erase_if keeps the order of what it leaves, so a vector is the set of   *)
(* its tasks and the order they were pushed in.                            *)
(***************************************************************************)
EXTENDS Naturals, Sequences

CONSTANTS
  Tasks,     \* the root tasks that may be pushed
  Delays,    \* the delays a task may ask for in co_await this_task::wait(d)
  NoWake,    \* std::nullopt
  MaxDepth,  \* bound: frames in one chain of awaited subtasks
  MaxCalls,  \* bound: subtasks awaited within one resume
  MaxTime    \* bound: the clock

ASSUME TaskMgrAssumption ==
  /\ Delays \subseteq Nat
  /\ NoWake \notin Nat
  /\ MaxDepth \in Nat
  /\ MaxCalls \in Nat
  /\ MaxTime \in Nat

VARIABLES
  place,    \* which vector each task is in
  order,    \* the how-many-th push each task was; 0 before it is pushed
  pushes,   \* tasks pushed so far
  frames,   \* m_wake_time of each frame of a task's chain, root first, leaf last; <<>> once the root is done
  faulted,  \* tasks whose m_handle a fault set to nullptr
  now,      \* high_resolution_clock
  pc,       \* where the game thread is in tick_impl
  todo,     \* the tasks of the task_count snapshot that the loop has not visited
  current,  \* the task being resumed while pc = "run"
  calls,    \* subtasks awaited within the current resume
  cutoff,   \* history: the pushes made before the current tick drained the queue
  due,      \* history: when each task asked to be resumed again
  started   \* history: tasks resumed at least once

queueVars   == <<place, order, pushes>>
tickVars    == <<pc, todo, current, cutoff>>
historyVars == <<due, started>>
vars == <<queueVars, frames, faulted, now, calls, tickVars, historyVars>>

WakeTime == Nat \cup {NoWake}
Incoming == {t \in Tasks : place[t] = "incoming"}
Active   == {t \in Tasks : place[t] = "active"}

(* task_promise_base::get_leaf, and its m_wake_time.                       *)
Leaf(t) == frames[t][Len(frames[t])]

SetLeaf(t, wake) == [frames EXCEPT ![t] = [@ EXCEPT ![Len(@)] = wake]]

(* !m_handle || m_handle.done().                                           *)
Ended(t) == t \in faulted \/ frames[t] = <<>>

(* Mutant of Asleep: a wake time is never compared with the clock.         *)
Asleep_Forever(t) == Leaf(t) # NoWake

(* should_run = false: the leaf has a wake time that is still ahead.       *)
Asleep(t) == Leaf(t) # NoWake /\ now < Leaf(t)

(* Mutant of IsNext: the loop's bound is not a snapshot, so that it runs   *)
(* on into what was pushed since.                                          *)
IsNext_NoSnapshot(t) ==
  /\ t \in todo \/ (todo = {} /\ t \in Incoming)
  /\ \A u \in todo : order[t] <= order[u]

(* The task the loop index is at: the first in m_tasks not visited yet.    *)
IsNext(t) == t \in todo /\ \A u \in todo : order[t] <= order[u]

-----------------------------------------------------------------------------
Init ==
  /\ place = [t \in Tasks |-> "unborn"]
  /\ order = [t \in Tasks |-> 0]
  /\ pushes = 0
  /\ frames = [t \in Tasks |-> <<>>]
  /\ faulted = {}
  /\ now = 0
  /\ pc = "idle"
  /\ todo = {}
  /\ current \in Tasks
  /\ calls = 0
  /\ cutoff = 0
  /\ due = [t \in Tasks |-> 0]
  /\ started = {}

(* add_impl: any thread, or a running task, pushes a task that is suspended *)
(* at its start.                                                            *)
Add(t) ==
  /\ place[t] = "unborn"
  /\ place' = [place EXCEPT ![t] = "incoming"]
  /\ pushes' = pushes + 1
  /\ order' = [order EXCEPT ![t] = pushes + 1]
  /\ frames' = [frames EXCEPT ![t] = <<NoWake>>]
  /\ UNCHANGED <<faulted, now, calls, tickVars, historyVars>>

(* Phase 1 moves a task of the incoming queue to m_tasks.                  *)
Moved(t) == IF place[t] = "incoming" THEN "active" ELSE place[t]

(* Phase 1 of tick_impl, under m_incoming_mutex, and the task_count that   *)
(* bounds phase 2.                                                         *)
TickBegin ==
  /\ pc = "idle"
  /\ pc' = "visit"
  /\ place' = [t \in Tasks |-> Moved(t)]
  /\ todo' = Incoming \cup Active
  /\ cutoff' = pushes
  /\ UNCHANGED <<order, pushes, frames, faulted, now, current, calls, historyVars>>

(* Phase 2: the loop passes over a task that ended or is not due yet.      *)
Pass(t) ==
  /\ pc = "visit"
  /\ IsNext(t)
  /\ ~Ended(t) => Asleep(t)
  /\ todo' = todo \ {t}
  /\ UNCHANGED <<queueVars, frames, faulted, now, pc, current, calls, cutoff, historyVars>>

(* leaf->m_wake_time = std::nullopt.                                       *)
Woken(t) == SetLeaf(t, NoWake)

(* Phase 2: the loop resets the leaf's wake time and resumes it.           *)
Resume(t) ==
  /\ pc = "visit"
  /\ IsNext(t)
  /\ ~Ended(t)
  /\ ~Asleep(t)
  /\ pc' = "run"
  /\ todo' = todo \ {t}
  /\ current' = t
  /\ calls' = 0
  /\ frames' = Woken(t)
  /\ started' = started \cup {t}
  /\ UNCHANGED <<queueVars, faulted, now, cutoff, due>>

(* co_await this_task::wait(): resumed again in the next tick.             *)
Yield ==
  /\ pc = "run"
  /\ pc' = "visit"
  /\ frames' = SetLeaf(current, NoWake)
  /\ due' = [due EXCEPT ![current] = now]
  /\ UNCHANGED <<queueVars, faulted, now, todo, current, calls, cutoff, started>>

(* co_await this_task::wait(d).                                            *)
YieldFor(d) ==
  /\ pc = "run"
  /\ now + d <= MaxTime
  /\ pc' = "visit"
  /\ frames' = SetLeaf(current, now + d)
  /\ due' = [due EXCEPT ![current] = now + d]
  /\ UNCHANGED <<queueVars, faulted, now, todo, current, calls, cutoff, started>>

(* co_await of a subtask: it becomes the leaf and runs at once.            *)
AwaitChild ==
  /\ pc = "run"
  /\ Len(frames[current]) < MaxDepth
  /\ calls < MaxCalls
  /\ calls' = calls + 1
  /\ frames' = [frames EXCEPT ![current] = Append(@, NoWake)]
  /\ UNCHANGED <<queueVars, faulted, now, tickVars, historyVars>>

(* task_final_awaiter: on into the parent, or back to the loop.            *)
AfterReturn == IF Len(frames[current]) = 1 THEN "visit" ELSE "run"

(* A frame reaches its end, by co_return or by an exception, which is      *)
(* logged and goes no further.  Its parent runs on within the same resume; *)
(* the end of the root ends the task.                                      *)
Return ==
  /\ pc = "run"
  /\ frames' = [frames EXCEPT ![current] = SubSeq(@, 1, Len(@) - 1)]
  /\ pc' = AfterReturn
  /\ UNCHANGED <<queueVars, faulted, now, todo, current, calls, cutoff, historyVars>>

(* Mutant of Fault: nothing catches it in the loop, so the tick is over    *)
(* for every task after it, and the task that faults is still there.       *)
Fault_EndsTick ==
  /\ pc = "run"
  /\ pc' = "visit"
  /\ todo' = {}
  /\ UNCHANGED <<queueVars, frames, faulted, now, current, calls, cutoff, historyVars>>

(* resume_guarded catches a fault: the whole task is dropped.              *)
Fault ==
  /\ pc = "run"
  /\ pc' = "visit"
  /\ faulted' = faulted \cup {current}
  /\ UNCHANGED <<queueVars, frames, now, todo, current, calls, cutoff, historyVars>>

(* The predicate of std::erase_if.                                         *)
Erased(t) == Ended(t)

(* Phase 3: std::erase_if once the loop is through.                        *)
TickEnd ==
  /\ pc = "visit"
  /\ todo = {}
  /\ pc' = "idle"
  /\ place' = [t \in Tasks |-> IF place[t] = "active" /\ Erased(t) THEN "erased" ELSE place[t]]
  /\ UNCHANGED <<order, pushes, frames, faulted, now, todo, current, calls, cutoff, historyVars>>

Clock ==
  /\ now < MaxTime
  /\ now' = now + 1
  /\ UNCHANGED <<queueVars, frames, faulted, calls, tickVars, historyVars>>

Loop == \E t \in Tasks : Pass(t) \/ Resume(t)

(* What the body of the running coroutine does next.                       *)
Body ==
  \/ Yield
  \/ \E d \in Delays : YieldFor(d)
  \/ AwaitChild
  \/ Return
  \/ Fault

Next ==
  \/ \E t \in Tasks : Add(t)
  \/ TickBegin
  \/ Loop
  \/ Body
  \/ TickEnd
  \/ Clock

Spec == Init /\ [][Next]_vars

(* The game calls ReceiveTick again and again, a tick that began goes      *)
(* through, no body runs forever without suspending, and time passes.      *)
Fairness ==
  /\ WF_vars(TickBegin)
  /\ WF_vars(Loop)
  /\ WF_vars(Body)
  /\ WF_vars(TickEnd)
  /\ WF_vars(Clock)

FairSpec == Spec /\ Fairness

-----------------------------------------------------------------------------
(* Each variable has its type; what the loop has left to visit is in       *)
(* m_tasks, so the loop index stays within the vector.                     *)
TypeOK ==
  /\ place \in [Tasks -> {"unborn", "incoming", "active", "erased"}]
  /\ order \in [Tasks -> Nat]
  /\ pushes \in Nat
  /\ frames \in [Tasks -> Seq(WakeTime)]
  /\ faulted \subseteq Tasks
  /\ now \in Nat
  /\ pc \in {"idle", "visit", "run"}
  /\ todo \subseteq Active
  /\ current \in Tasks
  /\ calls \in Nat
  /\ cutoff \in Nat
  /\ due \in [Tasks -> Nat]
  /\ started \subseteq Tasks

(* A running coroutine is never one that is done, erased or was dropped by *)
(* a fault: resuming one is undefined.                                     *)
RunsOnlyLive ==
  pc = "run" => /\ place[current] = "active"
                /\ current \notin faulted
                /\ frames[current] # <<>>

(* No task runs before the time it asked for, however deep in a chain of   *)
(* subtasks it asked (tick_impl looks at the leaf's wake time only).       *)
NoEarlyResume == pc = "run" => due[current] <= now

(* A task pushed while a tick is under way, even by a task of that tick,   *)
(* waits for the next one (README: "queues a task for the next tick").     *)
NextTickOnly == pc = "run" => order[current] <= cutoff

(* Tasks first run in the order they were pushed, whichever thread pushed  *)
(* them and whatever the others do: two switches of one toggle are applied *)
(* in the order they were made.                                            *)
FirstRunsInOrder ==
  \A t, u \in Tasks :
    u \in started /\ 0 < order[t] /\ order[t] < order[u] => t \in started

(* Only a leaf sleeps: a frame that awaits a subtask has no wake time left *)
(* from an earlier yield, which would delay it once the subtask is through.*)
OnlyLeafSleeps ==
  \A t \in Tasks : \A i \in DOMAIN frames[t] :
    i < Len(frames[t]) => frames[t][i] = NoWake

(* Between ticks m_tasks holds no ended task: neither done ones nor ones   *)
(* dropped by a fault pile up.                                             *)
ErasedWhenEnded == pc = "idle" => \A t \in Active : ~Ended(t)

(* Every task that is pushed is run, whatever the other tasks do.          *)
EveryTaskStarts == \A t \in Tasks : place[t] = "incoming" ~> t \in started

(* Every sleeping task is resumed again: a fault, an end or a sleep of     *)
(* another task does not strand it.                                        *)
SleeperWakes ==
  \A t \in Tasks :
    (place[t] = "active" /\ ~Ended(t) /\ Asleep(t)) ~> (pc = "run" /\ current = t)

-----------------------------------------------------------------------------
(* What a task looks like to those who pushed it.                          *)
Status(t) ==
  IF place[t] = "unborn" THEN "new"
  ELSE IF pc = "run" /\ current = t THEN "running"
  ELSE IF Ended(t) THEN "ended"
  ELSE IF t \in started THEN "suspended"
  ELSE "queued"

Abstract == INSTANCE Scheduler WITH
  status   <- [t \in Tasks |-> Status(t)],
  line     <- order,
  open     <- (pc # "idle"),
  admitted <- todo

(* The scheduler keeps what module Scheduler promises: one task at a time, *)
(* in turns, each task of a turn once and no other, first runs in the order*)
(* of the pushes, nobody early and nobody left out.                        *)
Refines == Abstract!Spec

=============================================================================

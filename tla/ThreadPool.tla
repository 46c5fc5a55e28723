----------------------------- MODULE ThreadPool -----------------------------
(***************************************************************************)
(* The workers and the timer thread of src/src/thread_pool.cpp, from the   *)
(* start to destroy(), which main.cpp calls at the unload.                 *)
(*                                                                         *)
(* A condition variable is the set of the threads that wait on it, of      *)
(* which notify_one wakes any.  m_lock is held for a few statements at a   *)
(* time, so what happens under it is one step; a notification is a step    *)
(* after it.  m_accept_jobs is set under m_lock, which workers hold when   *)
(* they look at it and the timer thread does not.                          *)
(*                                                                         *)
(* A function that throws ends like one that returns, which the worker's   *)
(* catch sees to.                                                          *)
(***************************************************************************)
EXTENDS Naturals, Sequences, FiniteSets, SequencesExt

CONSTANTS
  NumWorkers,  \* m_allocated_thread_count
  Functions,   \* the jobs of queue_job
  Coroutines,  \* the coroutines of queue_coro and schedule_after
  Delays,      \* what a coroutine may ask sleep_for for
  MaxHops,     \* bound: schedule() and sleep_for awaited, by all coroutines
  MaxTime      \* bound: the clock

(* Every core is counted, so a machine of one core has no worker at all    *)
(* and queue_job divides by zero there; two cores make one worker.         *)
ASSUME ThreadPoolAssumption ==
  /\ NumWorkers \in Nat \ {0}
  /\ Functions \cap Coroutines = {}
  /\ Delays \subseteq Nat \ {0}
  /\ MaxHops \in Nat /\ MaxTime \in Nat

Workers == 1..NumWorkers
Jobs    == Functions \cup Coroutines
TimerThread == 0
Caller      == NumWorkers + 1
Threads == Workers \cup {TimerThread, Caller}

VARIABLES
  stack,      \* m_job_stack
  next,       \* the two static counters, of queue_job and of queue_coro, as the worker next in turn
  place,      \* where each job is
  at,         \* where each worker is in run(): "check", "wait", "job" or "exit"
  job,        \* the job a worker runs; {} once it has suspended or ended
  timers,     \* m_timers, by coroutine the time it is due, for those in it
  timerAt,    \* where the timer thread is in timer_loop
  deadline,   \* what it waits until
  held,       \* the coroutine it popped; {} for none
  owes,       \* threads that have pushed a job and not yet called m_data_condition.notify_one
  owesTimer,  \* workers that have pushed a timer and not yet called m_timer_cv.notify_one
  accept,     \* m_accept_jobs
  mainAt,     \* where the main thread is in destroy()
  now,        \* steady_clock
  hops,       \* bound: hops so far
  misled,     \* history: a notify_one woke a worker whose stack was empty
  missed      \* history: destroy() notified the timer thread between its look and its wait

jobVars    == <<stack, next, place>>
workerVars == <<at, job, owes>>
timerVars  == <<timers, timerAt, deadline, held, owesTimer>>
mainVars   == <<accept, mainAt>>
vars == <<jobVars, workerVars, timerVars, mainVars, now, hops, misled, missed>>

Init ==
  /\ stack = [w \in Workers |-> <<>>]
  /\ next = [kind \in {"function", "coroutine"} |-> 1]
  /\ place = [j \in Jobs |-> "new"]
  /\ at = [w \in Workers |-> "check"]
  /\ job = [w \in Workers |-> {}]
  /\ timers = [j \in Coroutines |-> 0]
  /\ timerAt = "loop"
  /\ deadline = 0
  /\ held = {}
  /\ owes = {}
  /\ owesTimer = {}
  /\ accept = TRUE
  /\ mainAt = "up"
  /\ now = 0
  /\ hops = 0
  /\ misled = FALSE
  /\ missed = FALSE

-----------------------------------------------------------------------------
(* Each kind of job has a counter of its own.                              *)
Kind(j) == IF j \in Functions THEN "function" ELSE "coroutine"

(* Mutant of Push: nobody is notified.                                     *)
Push_Silent(j, thread) ==
  LET w == next[Kind(j)] IN
  /\ next' = [next EXCEPT ![Kind(j)] = (w % NumWorkers) + 1]
  /\ stack' = [stack EXCEPT ![w] = <<j>> \o @]
  /\ place' = [place EXCEPT ![j] = "stack"]
  /\ UNCHANGED owes

(* queue_job and queue_coro: the job goes on top of the stack of the       *)
(* worker whose turn it is, whether that one is busy or not.               *)
Push(j, thread) ==
  LET w == next[Kind(j)] IN
  /\ next' = [next EXCEPT ![Kind(j)] = (w % NumWorkers) + 1]
  /\ stack' = [stack EXCEPT ![w] = <<j>> \o @]
  /\ place' = [place EXCEPT ![j] = "stack"]
  /\ owes' = owes \cup {thread}

(* A thread of its own queues a job.  Those that do are out before         *)
(* destroy() is called: nothing looks at m_accept_jobs here.               *)
Queue(j) ==
  /\ mainAt = "up"
  /\ Caller \notin owes
  /\ place[j] = "new"
  /\ Push(j, Caller)
  /\ UNCHANGED <<at, job, timerVars, mainVars, now, hops, misled, missed>>

Waiting == {w \in Workers : at[w] = "wait"}

(* m_data_condition.notify_one wakes any of those that wait.               *)
NotifyOne(thread) ==
  /\ thread \in owes
  /\ owes' = owes \ {thread}
  /\ \/ Waiting = {} /\ UNCHANGED <<at, misled>>
     \/ \E w \in Waiting :
          /\ at' = [at EXCEPT ![w] = "check"]
          /\ misled' = (misled \/ stack[w] = <<>>)
  /\ UNCHANGED <<jobVars, job, timerVars, mainVars, now, hops, missed>>

(* A wait may end by itself.                                               *)
Spurious(w) ==
  /\ at[w] = "wait"
  /\ at' = [at EXCEPT ![w] = "check"]
  /\ UNCHANGED <<jobVars, job, owes, timerVars, mainVars, now, hops, misled, missed>>

-----------------------------------------------------------------------------
(* A worker, under m_lock: the wait's condition holds.                     *)

(* !m_accept_jobs: what is left on the stack is not run any more.          *)
Exit(w) ==
  /\ at[w] = "check"
  /\ ~accept
  /\ at' = [at EXCEPT ![w] = "exit"]
  /\ UNCHANGED <<jobVars, job, owes, timerVars, mainVars, now, hops, misled, missed>>

(* Mutant of Popped: the job is read from the stack, and popped once it    *)
(* has run.                                                                *)
Popped_Later(w) == stack

(* pop_front.                                                              *)
Popped(w) == [stack EXCEPT ![w] = Tail(@)]

Take(w) ==
  /\ at[w] = "check"
  /\ accept
  /\ stack[w] # <<>>
  /\ at' = [at EXCEPT ![w] = "job"]
  /\ job' = [job EXCEPT ![w] = {Head(stack[w])}]
  /\ stack' = Popped(w)
  /\ place' = [place EXCEPT ![Head(stack[w])] = "run"]
  /\ UNCHANGED <<next, owes, timerVars, mainVars, now, hops, misled, missed>>

Wait(w) ==
  /\ at[w] = "check"
  /\ accept
  /\ stack[w] = <<>>
  /\ at' = [at EXCEPT ![w] = "wait"]
  /\ UNCHANGED <<jobVars, job, owes, timerVars, mainVars, now, hops, misled, missed>>

(* The job returns, throws, or is a coroutine that ends.                   *)
End(w) ==
  /\ job[w] # {}
  /\ place' = [j \in Jobs |-> IF j \in job[w] THEN "ended" ELSE place[j]]
  /\ job' = [job EXCEPT ![w] = {}]
  /\ UNCHANGED <<stack, next, at, owes, timerVars, mainVars, now, hops, misled, missed>>

(* co_await pool.schedule(): the coroutine is suspended and queued again.  *)
Hop(w) ==
  /\ hops < MaxHops
  /\ hops' = hops + 1
  /\ \E j \in job[w] \cap Coroutines : Push(j, w)
  /\ job' = [job EXCEPT ![w] = {}]
  /\ UNCHANGED <<at, timerVars, mainVars, now, misled, missed>>

(* co_await pool.sleep_for(d): schedule_after, under m_timer_lock.         *)
Sleep(w, d) ==
  /\ hops < MaxHops
  /\ now + d <= MaxTime
  /\ hops' = hops + 1
  /\ \E j \in job[w] \cap Coroutines :
       /\ timers' = [timers EXCEPT ![j] = now + d]
       /\ place' = [place EXCEPT ![j] = "timers"]
  /\ job' = [job EXCEPT ![w] = {}]
  /\ owesTimer' = owesTimer \cup {w}
  /\ UNCHANGED <<stack, next, at, owes, timerAt, deadline, held, mainVars, now, misled, missed>>

(* The worker is back from the job, with nothing left to notify.           *)
Back(w) ==
  /\ at[w] = "job"
  /\ job[w] = {}
  /\ w \notin owes \cup owesTimer
  /\ at' = [at EXCEPT ![w] = "check"]
  /\ UNCHANGED <<jobVars, job, owes, timerVars, mainVars, now, hops, misled, missed>>

-----------------------------------------------------------------------------
(* The timer thread.                                                       *)

Sleeping == {j \in Coroutines : place[j] = "timers"}
First    == {j \in Sleeping : \A k \in Sleeping : timers[j] <= timers[k]}
TimerWoken == IF timerAt \in {"wait", "until"} THEN "loop" ELSE timerAt

(* while (m_accept_jobs), without a lock.                                  *)
TimerLooks ==
  /\ timerAt = "loop"
  /\ timerAt' = IF accept THEN "locked" ELSE "exit"
  /\ UNCHANGED <<jobVars, workerVars, timers, deadline, held, owesTimer, mainVars, now, hops, misled, missed>>

(* m_timer_cv.wait with no timer, wait_until with one that is ahead.       *)
TimerWaits ==
  /\ timerAt = "locked"
  /\ \A j \in First : now < timers[j]
  /\ IF Sleeping = {}
     THEN timerAt' = "wait" /\ UNCHANGED deadline
     ELSE timerAt' = "until" /\ \E j \in First : deadline' = timers[j]
  /\ UNCHANGED <<jobVars, workerVars, timers, held, owesTimer, mainVars, now, hops, misled, missed>>

TimerPops ==
  /\ timerAt = "locked"
  /\ \E j \in First :
       /\ timers[j] <= now
       /\ held' = {j}
       /\ place' = [place EXCEPT ![j] = "held"]
  /\ timerAt' = "popped"
  /\ UNCHANGED <<stack, next, workerVars, timers, deadline, owesTimer, mainVars, now, hops, misled, missed>>

(* queue_coro of what it popped.                                           *)
TimerQueues ==
  /\ timerAt = "popped"
  /\ \E j \in held : Push(j, TimerThread)
  /\ held' = {}
  /\ timerAt' = "queued"
  /\ UNCHANGED <<at, job, timers, deadline, owesTimer, mainVars, now, hops, misled, missed>>

TimerBack ==
  /\ timerAt = "queued"
  /\ TimerThread \notin owes
  /\ timerAt' = "loop"
  /\ UNCHANGED <<jobVars, workerVars, timers, deadline, held, owesTimer, mainVars, now, hops, misled, missed>>

(* m_timer_cv.notify_one of schedule_after.                                *)
NotifyTimer(w) ==
  /\ w \in owesTimer
  /\ owesTimer' = owesTimer \ {w}
  /\ timerAt' = TimerWoken
  /\ UNCHANGED <<jobVars, workerVars, timers, deadline, held, mainVars, now, hops, misled, missed>>

TimerTimesOut ==
  /\ timerAt = "until"
  /\ deadline <= now
  /\ timerAt' = "loop"
  /\ UNCHANGED <<jobVars, workerVars, timers, deadline, held, owesTimer, mainVars, now, hops, misled, missed>>

TimerSpurious ==
  /\ timerAt \in {"wait", "until"}
  /\ timerAt' = "loop"
  /\ UNCHANGED <<jobVars, workerVars, timers, deadline, held, owesTimer, mainVars, now, hops, misled, missed>>

-----------------------------------------------------------------------------
(* destroy(), on the main thread.                                          *)

Flag ==
  /\ mainAt = "up"
  /\ Caller \notin owes
  /\ accept' = FALSE
  /\ mainAt' = "flagged"
  /\ UNCHANGED <<jobVars, workerVars, timerVars, now, hops, misled, missed>>

(* Mutant of WakeWorkers: only one of them is notified.                    *)
WakeWorkers_One ==
  /\ mainAt = "flagged"
  /\ \/ Waiting = {} /\ UNCHANGED at
     \/ \E w \in Waiting : at' = [at EXCEPT ![w] = "check"]
  /\ mainAt' = "woken"
  /\ UNCHANGED <<jobVars, job, owes, timerVars, accept, now, hops, misled, missed>>

(* m_data_condition.notify_all.                                            *)
WakeWorkers ==
  /\ mainAt = "flagged"
  /\ at' = [w \in Workers |-> IF at[w] = "wait" THEN "check" ELSE at[w]]
  /\ mainAt' = "woken"
  /\ UNCHANGED <<jobVars, job, owes, timerVars, accept, now, hops, misled, missed>>

(* m_timer_cv.notify_all, without m_timer_lock.                            *)
WakeTimer ==
  /\ mainAt = "woken"
  /\ timerAt' = TimerWoken
  /\ missed' = (timerAt = "locked")
  /\ mainAt' = "joining"
  /\ UNCHANGED <<jobVars, workerVars, timers, deadline, held, owesTimer, accept, now, hops, misled>>

(* Mutant of Joined: only the workers are joined.                          *)
Joined_Workers == \A w \in Workers : at[w] = "exit"

Joined == timerAt = "exit" /\ \A w \in Workers : at[w] = "exit"

(* Once the threads are joined, m_job_stack is cleared, with what is left  *)
(* in it.  The second destroy(), of the destructor, finds no thread.       *)
Clear ==
  /\ mainAt = "joining"
  /\ Joined
  /\ mainAt' = "down"
  /\ stack' = [w \in Workers |-> <<>>]
  /\ place' = [j \in Jobs |-> IF place[j] = "stack" THEN "dropped" ELSE place[j]]
  /\ UNCHANGED <<next, workerVars, timerVars, accept, now, hops, misled, missed>>

Clock ==
  /\ now < MaxTime
  /\ now' = now + 1
  /\ UNCHANGED <<jobVars, workerVars, timerVars, mainVars, hops, misled, missed>>

Body(w)   == End(w) \/ Hop(w) \/ \E d \in Delays : Sleep(w, d)
Worker(w) == Exit(w) \/ Take(w) \/ Wait(w) \/ Body(w) \/ NotifyTimer(w) \/ Back(w)
Timer     == TimerLooks \/ TimerWaits \/ TimerPops \/ TimerQueues \/ TimerBack \/ TimerTimesOut
Destroy   == WakeWorkers \/ WakeTimer \/ Clear

Next ==
  \/ \E j \in Jobs : Queue(j)
  \/ \E thread \in Threads : NotifyOne(thread)
  \/ \E w \in Workers : Worker(w) \/ Spurious(w)
  \/ Timer
  \/ TimerSpurious
  \/ Flag
  \/ Destroy
  \/ Clock

Spec == Init /\ [][Next]_vars

(* Every thread runs on, every job comes back, and time passes.  A wait is *)
(* not taken to end by itself, and destroy() need not be called.           *)
FairSpec ==
  /\ Spec
  /\ \A thread \in Threads : WF_vars(NotifyOne(thread))
  /\ \A w \in Workers : WF_vars(Worker(w))
  /\ WF_vars(Timer) /\ WF_vars(Destroy) /\ WF_vars(Clock)

-----------------------------------------------------------------------------
(* Each variable has its type.                                             *)
TypeOK ==
  /\ stack \in [Workers -> Seq(Jobs)]
  /\ next \in [{"function", "coroutine"} -> Workers]
  /\ place \in [Jobs -> {"new", "stack", "run", "timers", "held", "ended", "dropped"}]
  /\ at \in [Workers -> {"check", "wait", "job", "exit"}]
  /\ job \in [Workers -> SUBSET Jobs]
  /\ timers \in [Coroutines -> Nat]
  /\ timerAt \in {"loop", "locked", "wait", "until", "popped", "queued", "exit"}
  /\ deadline \in Nat
  /\ held \subseteq Coroutines
  /\ owes \subseteq Threads /\ owesTimer \subseteq Workers
  /\ accept \in BOOLEAN
  /\ mainAt \in {"up", "flagged", "woken", "joining", "down"}
  /\ now \in Nat /\ hops \in Nat
  /\ misled \in BOOLEAN /\ missed \in BOOLEAN

(* A job is in one place at a time: one that runs is on no stack, and two  *)
(* workers never run it at once.  A coroutine queues itself while the      *)
(* worker that ran it is still in resume(), and another may take it.       *)
OnePlace ==
  /\ \A j \in Jobs : place[j] # "stack" => \A w \in Workers : ~Contains(stack[w], j)
  /\ \A v, w \in Workers : v # w => job[v] \cap job[w] = {}

(* The stacks are cleared under no lock: by then no thread is left that    *)
(* would push on them or read them, and no job runs on.                    *)
DownIsQuiet ==
  mainAt = "down" => /\ timerAt = "exit" /\ held = {}
                     /\ owes = {} /\ owesTimer = {}
                     /\ \A w \in Workers : at[w] = "exit" /\ job[w] = {}

(* Every job that is queued is run, or the pool is destroyed: a worker     *)
(* that is busy finds it when it comes back, and one that waits is woken   *)
(* unless a notification went to another worker, for which it was not.     *)
(* And every coroutine that sleeps is queued again.                        *)
EveryJobRuns ==
  /\ \A j \in Jobs : place[j] = "stack" ~> place[j] # "stack" \/ ~accept \/ misled
  /\ \A j \in Coroutines : place[j] = "timers" ~> place[j] # "timers" \/ ~accept

(* destroy() returns, unless its notification came between the timer       *)
(* thread's look at m_accept_jobs and its wait.                            *)
DestroyEnds == mainAt = "flagged" ~> mainAt = "down" \/ missed

-----------------------------------------------------------------------------
(* What a job looks like to those who queued it: one the timer thread has  *)
(* in hand is as good as queued.                                           *)
Status(j) ==
  CASE place[j] \in {"stack", "held"} -> "queued"
    [] place[j] = "run" -> "running"
    [] place[j] = "timers" -> "asleep"
    [] OTHER -> place[j]

Abstract == INSTANCE JobPool WITH
  status <- [j \in Jobs |-> Status(j)],
  due    <- timers,
  mode   <- (IF mainAt = "up" THEN "open"
             ELSE IF mainAt = "down" THEN "down" ELSE "closing")

(* The pool keeps what module JobPool promises: a job is run once for each *)
(* time it was queued, by one of the workers, whichever of them take and   *)
(* leave it at once; nobody wakes early; once destroy() is called nothing  *)
(* starts, and no job is dropped while one runs.                           *)
ImplementsPool == Abstract!Spec

=============================================================================

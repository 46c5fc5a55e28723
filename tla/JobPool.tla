------------------------------ MODULE JobPool ------------------------------
(***************************************************************************)
(* What the thread pool promises those who queue jobs, whatever stacks,    *)
(* timers and notifications it keeps (ThreadPool, which implements it):    *)
(*   - a job is run once each time it is queued, by one worker, and no     *)
(*     more at once than there are workers;                                *)
(*   - a coroutine that sleeps is queued again when its time has come, and *)
(*     not before one that is due earlier;                                 *)
(*   - once destroy() is called no job starts, and what is still queued is *)
(*     dropped when the last has stopped;                                  *)
(*   - no job is lost otherwise.                                           *)
(* In which order the queued jobs run is not promised.                     *)
(***************************************************************************)
EXTENDS Naturals

CONSTANTS
  Workers,
  Functions,   \* jobs that run to their end
  Coroutines,  \* jobs that may also suspend
  Delays       \* what a coroutine may ask for

Jobs == Functions \cup Coroutines

VARIABLES
  status,  \* of each job: "new", "queued", "running", "asleep", "ended" or "dropped"
  due,     \* when each coroutine that sleeps is to be queued again
  mode,    \* "open", "closing" or "down"
  now

vars == <<status, due, mode, now>>

With(s) == {j \in Jobs : status[j] = s}

Become(j, s) == status' = [status EXCEPT ![j] = s]

(* Each job that runs has a worker of its own, and one worker has none.    *)
WorkerIsFree ==
  \E worker \in [With("running") -> Workers] :
    /\ \A i, j \in With("running") : worker[i] = worker[j] => i = j
    /\ \E w \in Workers : \A j \in With("running") : worker[j] # w

Init ==
  /\ status = [j \in Jobs |-> "new"]
  /\ due = [j \in Coroutines |-> 0]
  /\ mode = "open"
  /\ now = 0

Queue(j) ==
  /\ mode = "open"
  /\ j \in With("new")
  /\ Become(j, "queued")
  /\ UNCHANGED <<due, mode, now>>

Run(j) ==
  /\ mode = "open"
  /\ j \in With("queued")
  /\ WorkerIsFree
  /\ Become(j, "running")
  /\ UNCHANGED <<due, mode, now>>

End(j) ==
  /\ j \in With("running")
  /\ Become(j, "ended")
  /\ UNCHANGED <<due, mode, now>>

(* A coroutine that awaits schedule() is a job like any other again.       *)
Hop(j) ==
  /\ j \in With("running") \cap Coroutines
  /\ Become(j, "queued")
  /\ UNCHANGED <<due, mode, now>>

Sleep(j, d) ==
  /\ j \in With("running") \cap Coroutines
  /\ Become(j, "asleep")
  /\ due' = [due EXCEPT ![j] = now + d]
  /\ UNCHANGED <<mode, now>>

Wake(j) ==
  /\ mode # "down"
  /\ j \in With("asleep") \cap Coroutines
  /\ due[j] <= now
  /\ \A k \in With("asleep") \cap Coroutines : due[j] <= due[k]
  /\ Become(j, "queued")
  /\ UNCHANGED <<due, mode, now>>

Close ==
  /\ mode = "open"
  /\ mode' = "closing"
  /\ UNCHANGED <<status, due, now>>

Drop ==
  /\ mode = "closing"
  /\ With("running") = {}
  /\ mode' = "down"
  /\ status' = [j \in Jobs |-> IF j \in With("queued") THEN "dropped" ELSE status[j]]
  /\ UNCHANGED <<due, now>>

Clock ==
  /\ now' = now + 1
  /\ UNCHANGED <<status, due, mode>>

Next ==
  \/ \E j \in Jobs : Queue(j) \/ Run(j) \/ End(j) \/ Hop(j) \/ Wake(j)
  \/ \E j \in Jobs, d \in Delays : Sleep(j, d)
  \/ Close \/ Drop \/ Clock

Spec == Init /\ [][Next]_vars

=============================================================================

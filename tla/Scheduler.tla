----------------------------- MODULE Scheduler -----------------------------
(***************************************************************************)
(* What the task scheduler promises those who push tasks, whatever vectors *)
(* and frames it keeps (TaskMgr, which implements it):                     *)
(*   - tasks run in turns, one at a time, and never two of them at once;   *)
(*   - a turn is for the tasks pushed before it, each at most once;        *)
(*   - tasks run for the first time in the order they were pushed;         *)
(*   - a turn is not over before each of its tasks has run, unless the task*)
(*     asked for a later time.                                             *)
(***************************************************************************)
EXTENDS Naturals

CONSTANTS
  Tasks,
  Delays  \* what a task may ask for

VARIABLES
  status,    \* of each task: "new", "queued", "running", "suspended", "ended"
  line,      \* the how-many-th push each task was
  pushes,    \* tasks pushed so far
  open,      \* a turn is under way
  admitted,  \* the tasks the turn still has to serve
  due,       \* when each suspended task may run again
  now

vars == <<status, line, pushes, open, admitted, due, now>>

With(s) == {t \in Tasks : status[t] = s}

Become(t, s) == status' = [status EXCEPT ![t] = s]

Init ==
  /\ status = [t \in Tasks |-> "new"]
  /\ line = [t \in Tasks |-> 0]
  /\ pushes = 0
  /\ open = FALSE
  /\ admitted = {}
  /\ due = [t \in Tasks |-> 0]
  /\ now = 0

Push(t) ==
  /\ t \in With("new")
  /\ Become(t, "queued")
  /\ pushes' = pushes + 1
  /\ line' = [line EXCEPT ![t] = pushes + 1]
  /\ UNCHANGED <<open, admitted, due, now>>

Open ==
  /\ ~open
  /\ open' = TRUE
  /\ admitted' = With("queued") \cup With("suspended")
  /\ UNCHANGED <<status, line, pushes, due, now>>

(* It is t's turn: its time has come, and nobody queued before it is left  *)
(* to run for the first time.                                              *)
Run(t) ==
  /\ open
  /\ With("running") = {}
  /\ t \in admitted
  /\ due[t] <= now
  /\ t \in With("queued") => \A u \in With("queued") : line[t] <= line[u]
  /\ admitted' = admitted \ {t}
  /\ Become(t, "running")
  /\ UNCHANGED <<line, pushes, open, due, now>>

PassOver(t) ==
  /\ open
  /\ t \in admitted
  /\ due[t] > now
  /\ admitted' = admitted \ {t}
  /\ UNCHANGED <<status, line, pushes, open, due, now>>

Suspend(t) ==
  /\ t \in With("running")
  /\ Become(t, "suspended")
  /\ \E d \in {0} \cup Delays : due' = [due EXCEPT ![t] = now + d]
  /\ UNCHANGED <<line, pushes, open, admitted, now>>

(* A task is through, or lost to a fault; either way it never runs again.  *)
End(t) ==
  /\ t \in With("running")
  /\ Become(t, "ended")
  /\ UNCHANGED <<line, pushes, open, admitted, due, now>>

Close ==
  /\ open
  /\ With("running") = {}
  /\ admitted = {}
  /\ open' = FALSE
  /\ UNCHANGED <<status, line, pushes, admitted, due, now>>

Clock ==
  /\ now' = now + 1
  /\ UNCHANGED <<status, line, pushes, open, admitted, due>>

Next ==
  \/ \E t \in Tasks : Push(t) \/ Run(t) \/ PassOver(t) \/ Suspend(t) \/ End(t)
  \/ Open \/ Close \/ Clock

Spec == Init /\ [][Next]_vars

=============================================================================

-------------------------- MODULE ThreadPoolProofs --------------------------
(***************************************************************************)
(* What holds of ThreadPool for every number of workers and jobs: the      *)
(* stacks are cleared when no thread is left that could touch them.        *)
(***************************************************************************)
EXTENDS ThreadPool, SequenceTheorems, TLAPS

(* What a thread still has to do says where it is: who runs a job or owes  *)
(* a notification is inside the job, the timer thread with a coroutine in  *)
(* hand is between its two locks, and whoever queues a job from outside is *)
(* done before destroy() sets the flag.                                    *)
BusyIsSomewhere ==
  /\ \A w \in Workers : (job[w] # {} \/ w \in owes \cup owesTimer) => at[w] = "job"
  /\ held # {} => timerAt = "popped"
  /\ TimerThread \in owes => timerAt = "queued"
  /\ Caller \in owes => mainAt = "up"

PoolInv == TypeOK /\ BusyIsSomewhere /\ DownIsQuiet

-----------------------------------------------------------------------------
(* The threads are told apart by their numbers.                            *)
LEMMA ThreadsDiffer ==
  /\ TimerThread \notin Workers /\ Caller \notin Workers /\ Caller # TimerThread
  /\ Threads = Workers \cup {TimerThread, Caller}
  /\ NumWorkers \in Nat \ {0}
BY ThreadPoolAssumption DEF TimerThread, Caller, Workers, Threads

(* Pushing a job keeps the types, whoever does it.                         *)
LEMMA PushTypes ==
  ASSUME TypeOK, NEW j \in Jobs, NEW thread \in Threads, Push(j, thread)
  PROVE  /\ stack' \in [Workers -> Seq(Jobs)]
         /\ next' \in [{"function", "coroutine"} -> Workers]
         /\ place' \in [Jobs -> {"new", "stack", "run", "timers", "held", "ended", "dropped"}]
         /\ owes' = owes \cup {thread} /\ owes' \subseteq Threads
<1> DEFINE w == next[Kind(j)]
<1>1. Kind(j) \in {"function", "coroutine"} /\ w \in Workers
  BY DEF Kind, TypeOK
<1>2. <<j>> \o stack[w] \in Seq(Jobs)
  <2>1. <<j>> \in Seq(Jobs) /\ stack[w] \in Seq(Jobs)
    BY <1>1 DEF TypeOK
  <2>2. QED
    BY <2>1, ConcatProperties
<1>3. stack' \in [Workers -> Seq(Jobs)]
  BY <1>1, <1>2 DEF Push, TypeOK
<1>4. (w % NumWorkers) + 1 \in Workers
  BY <1>1, ThreadPoolAssumption DEF Workers
<1>5. next' \in [{"function", "coroutine"} -> Workers]
  BY <1>1, <1>4 DEF Push, TypeOK
<1>6. QED
  BY <1>3, <1>5 DEF Push, TypeOK

LEMMA PoolInit == Init => PoolInv
<1> SUFFICES ASSUME Init PROVE PoolInv
  OBVIOUS
<1>1. 1 \in Workers
  BY ThreadPoolAssumption DEF Workers
<1>2. \A w \in Workers : stack[w] = <<>> /\ <<>> \in Seq(Jobs)
  BY DEF Init
<1>3. stack \in [Workers -> Seq(Jobs)]
  BY <1>2 DEF Init
<1>4. /\ next \in [{"function", "coroutine"} -> Workers]
      /\ job \in [Workers -> SUBSET Jobs]
      /\ timers \in [Coroutines -> Nat]
  BY <1>1 DEF Init
<1>5. TypeOK
  BY <1>3, <1>4 DEF Init, TypeOK
<1>6. QED
  BY <1>5 DEF Init, PoolInv, BusyIsSomewhere, DownIsQuiet

-----------------------------------------------------------------------------
(* A worker's own steps.                                                   *)
LEMMA WorkerStep ==
  ASSUME PoolInv, NEW w \in Workers, Worker(w) \/ Spurious(w)
  PROVE  PoolInv'
<1> USE DEF PoolInv
<1>0. w \in Threads /\ Coroutines \subseteq Jobs
  BY ThreadsDiffer DEF Jobs
<1>1. CASE Exit(w)
  <2>1. TypeOK'
    BY <1>1 DEF Exit, TypeOK, jobVars, timerVars, mainVars
  <2>2. QED
    BY <1>1, <2>1, ThreadsDiffer DEF Exit, TypeOK, BusyIsSomewhere, DownIsQuiet, jobVars, timerVars, mainVars
<1>2. CASE Take(w)
  <2>1. stack[w] \in Seq(Jobs) /\ stack[w] # <<>>
    BY <1>2 DEF Take, TypeOK
  <2>2. Head(stack[w]) \in Jobs /\ Tail(stack[w]) \in Seq(Jobs)
    BY <2>1, HeadTailProperties
  <2>3. TypeOK'
    BY <1>2, <2>2 DEF Take, Popped, TypeOK, timerVars, mainVars
  <2>4. QED
    BY <1>2, <2>3, ThreadsDiffer DEF Take, TypeOK, BusyIsSomewhere, DownIsQuiet, timerVars, mainVars
<1>3. CASE Wait(w)
  <2>1. TypeOK'
    BY <1>3 DEF Wait, TypeOK, jobVars, timerVars, mainVars
  <2>2. QED
    BY <1>3, <2>1, ThreadsDiffer DEF Wait, TypeOK, BusyIsSomewhere, DownIsQuiet, jobVars, timerVars, mainVars
<1>4. CASE End(w)
  <2>1. TypeOK'
    BY <1>4 DEF End, TypeOK, timerVars, mainVars
  <2>2. QED
    BY <1>4, <2>1, ThreadsDiffer DEF End, TypeOK, BusyIsSomewhere, DownIsQuiet, timerVars, mainVars
<1>5. CASE Hop(w)
  <2>1. PICK j \in job[w] \cap Coroutines : Push(j, w)
    BY <1>5 DEF Hop
  <2>2. at[w] = "job" /\ at' = at
    BY <1>5, <2>1 DEF Hop, BusyIsSomewhere
  <2>3. TypeOK'
    BY <1>5, <1>0, <2>1, <2>2, PushTypes DEF Hop, TypeOK, timerVars, mainVars
  <2>4. owes' = owes \cup {w}
    BY <2>1 DEF Push
  <2>5. QED
    BY <1>5, <2>2, <2>3, <2>4, ThreadsDiffer
       DEF Hop, TypeOK, BusyIsSomewhere, DownIsQuiet, timerVars, mainVars
<1>6. CASE \E d \in Delays : Sleep(w, d)
  <2>1. PICK d \in Delays : Sleep(w, d)
    BY <1>6
  <2>2. PICK j \in job[w] \cap Coroutines :
          /\ timers' = [timers EXCEPT ![j] = now + d]
          /\ place' = [place EXCEPT ![j] = "timers"]
    BY <2>1 DEF Sleep
  <2>3. at[w] = "job"
    BY <2>2 DEF BusyIsSomewhere
  <2>4. now + d \in Nat
    BY ThreadPoolAssumption DEF TypeOK
  <2>5. TypeOK'
    BY <2>1, <2>2, <2>4 DEF Sleep, TypeOK, mainVars
  <2>6. QED
    BY <2>1, <2>3, <2>5, ThreadsDiffer DEF Sleep, TypeOK, BusyIsSomewhere, DownIsQuiet, mainVars
<1>7. CASE NotifyTimer(w)
  <2>1. TypeOK'
    BY <1>7 DEF NotifyTimer, TimerWoken, TypeOK, jobVars, workerVars, mainVars
  <2>2. QED
    BY <1>7, <2>1, ThreadsDiffer
       DEF NotifyTimer, TimerWoken, TypeOK, BusyIsSomewhere, DownIsQuiet, jobVars, workerVars, mainVars
<1>8. CASE Back(w)
  <2>1. TypeOK'
    BY <1>8 DEF Back, TypeOK, jobVars, timerVars, mainVars
  <2>2. QED
    BY <1>8, <2>1, ThreadsDiffer DEF Back, TypeOK, BusyIsSomewhere, DownIsQuiet, jobVars, timerVars, mainVars
<1>9. CASE Spurious(w)
  <2>1. TypeOK'
    BY <1>9 DEF Spurious, TypeOK, jobVars, timerVars, mainVars
  <2>2. QED
    BY <1>9, <2>1, ThreadsDiffer DEF Spurious, TypeOK, BusyIsSomewhere, DownIsQuiet, jobVars, timerVars, mainVars
<1>10. QED
  BY <1>1, <1>2, <1>3, <1>4, <1>5, <1>6, <1>7, <1>8, <1>9 DEF Worker, Body

(* The timer thread's steps.                                               *)
LEMMA TimerStep ==
  ASSUME PoolInv, Timer \/ TimerSpurious
  PROVE  PoolInv'
<1> USE DEF PoolInv
<1>0. TimerThread \in Threads /\ Coroutines \subseteq Jobs
  BY ThreadsDiffer DEF Jobs
<1>1. CASE TimerLooks
  <2>1. TypeOK'
    BY <1>1 DEF TimerLooks, TypeOK, jobVars, workerVars, mainVars
  <2>2. QED
    BY <1>1, <2>1, ThreadsDiffer
       DEF TimerLooks, TypeOK, BusyIsSomewhere, DownIsQuiet, jobVars, workerVars, mainVars
<1>2. CASE TimerWaits
  <2>1. deadline' \in Nat /\ timerAt' \in {"wait", "until"}
    BY <1>2 DEF TimerWaits, First, Sleeping, TypeOK
  <2>2. TypeOK'
    BY <1>2, <2>1 DEF TimerWaits, TypeOK, jobVars, workerVars, mainVars
  <2>3. QED
    BY <1>2, <2>1, <2>2, ThreadsDiffer
       DEF TimerWaits, TypeOK, BusyIsSomewhere, DownIsQuiet, jobVars, workerVars, mainVars
<1>3. CASE TimerPops
  <2>1. PICK j \in First : held' = {j} /\ place' = [place EXCEPT ![j] = "held"]
    BY <1>3 DEF TimerPops
  <2>2. j \in Coroutines
    BY DEF First, Sleeping
  <2>3. TypeOK'
    BY <1>3, <2>1, <2>2 DEF TimerPops, TypeOK, workerVars, mainVars
  <2>4. QED
    BY <1>3, <2>3, ThreadsDiffer
       DEF TimerPops, TypeOK, BusyIsSomewhere, DownIsQuiet, workerVars, mainVars
<1>4. CASE TimerQueues
  <2>1. PICK j \in held : Push(j, TimerThread)
    BY <1>4 DEF TimerQueues
  <2>2. j \in Jobs
    BY <1>0 DEF TypeOK
  <2>3. TypeOK'
    BY <1>4, <1>0, <2>1, <2>2, PushTypes DEF TimerQueues, TypeOK, mainVars
  <2>4. owes' = owes \cup {TimerThread}
    BY <2>1 DEF Push
  <2>5. QED
    BY <1>4, <2>3, <2>4, ThreadsDiffer
       DEF TimerQueues, TypeOK, BusyIsSomewhere, DownIsQuiet, mainVars
<1>5. CASE TimerBack
  <2>1. TypeOK'
    BY <1>5 DEF TimerBack, TypeOK, jobVars, workerVars, mainVars
  <2>2. QED
    BY <1>5, <2>1, ThreadsDiffer
       DEF TimerBack, TypeOK, BusyIsSomewhere, DownIsQuiet, jobVars, workerVars, mainVars
<1>6. CASE TimerTimesOut \/ TimerSpurious
  <2>1. TypeOK'
    BY <1>6 DEF TimerTimesOut, TimerSpurious, TypeOK, jobVars, workerVars, mainVars
  <2>2. QED
    BY <1>6, <2>1, ThreadsDiffer
       DEF TimerTimesOut, TimerSpurious, TypeOK, BusyIsSomewhere, DownIsQuiet, jobVars, workerVars, mainVars
<1>7. QED
  BY <1>1, <1>2, <1>3, <1>4, <1>5, <1>6 DEF Timer

(* The steps of destroy(), and of whoever queues from outside.             *)
LEMMA MainStep ==
  ASSUME PoolInv,
         \/ \E j \in Jobs : Queue(j)
         \/ \E thread \in Threads : NotifyOne(thread)
         \/ Flag \/ Destroy \/ Clock
  PROVE  PoolInv'
<1> USE DEF PoolInv
<1>1. CASE \E j \in Jobs : Queue(j)
  <2>1. PICK j \in Jobs : Queue(j)
    BY <1>1
  <2>2. Push(j, Caller) /\ mainAt = "up" /\ owes' = owes \cup {Caller}
    BY <2>1 DEF Queue, Push
  <2>3. TypeOK'
    BY <2>1, <2>2, PushTypes, ThreadsDiffer DEF Queue, TypeOK, timerVars, mainVars
  <2>4. QED
    BY <2>1, <2>2, <2>3, ThreadsDiffer
       DEF Queue, TypeOK, BusyIsSomewhere, DownIsQuiet, timerVars, mainVars
<1>2. CASE \E thread \in Threads : NotifyOne(thread)
  <2>1. PICK thread \in Threads : NotifyOne(thread)
    BY <1>2
  <2>2. \A w \in Workers : at[w]' = at[w] \/ (at[w] = "wait" /\ at[w]' = "check")
    BY <2>1 DEF NotifyOne, Waiting, TypeOK
  <2>3. at' \in [Workers -> {"check", "wait", "job", "exit"}] /\ misled' \in BOOLEAN
    <3>1. CASE UNCHANGED <<at, misled>>
      BY <3>1 DEF TypeOK
    <3>2. CASE \E w \in Waiting : /\ at' = [at EXCEPT ![w] = "check"]
                                  /\ misled' = (misled \/ stack[w] = <<>>)
      BY <3>2 DEF TypeOK
    <3>3. QED
      BY <2>1, <3>1, <3>2 DEF NotifyOne
  <2>4. TypeOK'
    BY <2>1, <2>3 DEF NotifyOne, TypeOK, jobVars, timerVars, mainVars
  <2>5. QED
    BY <2>1, <2>2, <2>4, ThreadsDiffer
       DEF NotifyOne, TypeOK, BusyIsSomewhere, DownIsQuiet, jobVars, timerVars, mainVars
<1>3. CASE Flag
  <2>1. TypeOK'
    BY <1>3 DEF Flag, TypeOK, jobVars, workerVars, timerVars
  <2>2. QED
    BY <1>3, <2>1, ThreadsDiffer
       DEF Flag, TypeOK, BusyIsSomewhere, DownIsQuiet, jobVars, workerVars, timerVars
<1>4. CASE WakeWorkers
  <2>1. TypeOK'
    BY <1>4 DEF WakeWorkers, TypeOK, jobVars, timerVars
  <2>2. QED
    BY <1>4, <2>1, ThreadsDiffer
       DEF WakeWorkers, TypeOK, BusyIsSomewhere, DownIsQuiet, jobVars, timerVars
<1>5. CASE WakeTimer
  <2>1. TypeOK'
    BY <1>5 DEF WakeTimer, TimerWoken, TypeOK, jobVars, workerVars
  <2>2. QED
    BY <1>5, <2>1, ThreadsDiffer
       DEF WakeTimer, TimerWoken, TypeOK, BusyIsSomewhere, DownIsQuiet, jobVars, workerVars
<1>6. CASE Clear
  <2>1. TypeOK'
    BY <1>6 DEF Clear, TypeOK, workerVars, timerVars
  <2>2. BusyIsSomewhere'
    BY <1>6, <2>1, ThreadsDiffer DEF Clear, TypeOK, BusyIsSomewhere, workerVars, timerVars
  <2>3. timerAt = "exit" /\ \A w \in Workers : at[w] = "exit"
    BY <1>6 DEF Clear, Joined
  <2>4. held = {} /\ \A w \in Workers : job[w] = {} /\ w \notin owes \cup owesTimer
    BY <2>3 DEF BusyIsSomewhere
  <2>5. TimerThread \notin owes /\ Caller \notin owes
    BY <1>6, <2>3 DEF BusyIsSomewhere, Clear
  <2>6. owes = {} /\ owesTimer = {}
    <3>1. \A thread \in Workers \cup {TimerThread, Caller} : thread \notin owes
      BY <2>4, <2>5
    <3>2. owes \subseteq Workers \cup {TimerThread, Caller} /\ owesTimer \subseteq Workers
      BY ThreadsDiffer DEF TypeOK
    <3>3. QED
      BY <2>4, <3>1, <3>2
  <2>7. DownIsQuiet'
    BY <1>6, <2>3, <2>4, <2>6 DEF Clear, DownIsQuiet, workerVars, timerVars
  <2>8. QED
    BY <2>1, <2>2, <2>7
<1>7. CASE Clock
  <2>1. TypeOK'
    BY <1>7 DEF Clock, TypeOK, jobVars, workerVars, timerVars, mainVars
  <2>2. QED
    BY <1>7, <2>1 DEF Clock, BusyIsSomewhere, DownIsQuiet, jobVars, workerVars, timerVars, mainVars
<1>8. QED
  BY <1>1, <1>2, <1>3, <1>4, <1>5, <1>6, <1>7 DEF Destroy

LEMMA PoolStep == PoolInv /\ [Next]_vars => PoolInv'
<1> SUFFICES ASSUME PoolInv, [Next]_vars PROVE PoolInv'
  OBVIOUS
<1>1. CASE UNCHANGED vars
  BY <1>1 DEF PoolInv, TypeOK, BusyIsSomewhere, DownIsQuiet,
              vars, jobVars, workerVars, timerVars, mainVars
<1>2. CASE Next
  BY <1>2, WorkerStep, TimerStep, MainStep DEF Next
<1>3. QED
  BY <1>1, <1>2

(* Types hold, of the stacks and the worker next in turn among them.       *)
THEOREM PoolTypes == Spec => []TypeOK
<1>1. PoolInv => TypeOK
  BY DEF PoolInv
<1>2. QED
  BY PoolInit, PoolStep, <1>1, PTL DEF Spec

(* destroy() clears the stacks when every thread is out, owes nobody a     *)
(* notification and holds no job, however many workers there are and       *)
(* whatever they were doing when it was called.                            *)
THEOREM ClearsWhenQuiet == Spec => []DownIsQuiet
<1>1. PoolInv => DownIsQuiet
  BY DEF PoolInv
<1>2. QED
  BY PoolInit, PoolStep, <1>1, PTL DEF Spec

-----------------------------------------------------------------------------
(* One place for each job.  The stacks hold every job at most once, and    *)
(* only jobs that `place' says are on a stack; what a worker runs is with  *)
(* that worker alone.                                                      *)
StacksApart ==
  /\ \A w \in Workers : \A i \in 1..Len(stack[w]) : place[stack[w][i]] = "stack"
  /\ \A v, w \in Workers : \A i \in 1..Len(stack[v]), k \in 1..Len(stack[w]) :
       stack[v][i] = stack[w][k] => v = w /\ i = k

RunsApart ==
  /\ \A w \in Workers : \A j \in job[w] : place[j] = "run"
  /\ \A v, w \in Workers : v # w => job[v] \cap job[w] = {}
  /\ \A j \in held : place[j] = "held"

PlaceInv == PoolInv /\ StacksApart /\ RunsApart

(* Pushing a job that is on no stack keeps the stacks apart.               *)
LEMMA PushApart ==
  ASSUME TypeOK, StacksApart, NEW j \in Jobs, NEW thread \in Threads,
         place[j] # "stack", Push(j, thread)
  PROVE  StacksApart'
<1> DEFINE w == next[Kind(j)]
           old == stack[w]
           new == <<j>> \o old
<1>1. w \in Workers /\ old \in Seq(Jobs)
  BY DEF Kind, TypeOK
<1>2. /\ Len(new) = Len(old) + 1
      /\ new[1] = j
      /\ \A i \in 2..Len(new) : i - 1 \in 1..Len(old) /\ new[i] = old[i - 1]
  <2> HIDE DEF old
  <2>1. QED
    BY <1>1
<1>3. stack' = [stack EXCEPT ![w] = new] /\ place' = [place EXCEPT ![j] = "stack"]
  BY DEF Push
<1>4. stack'[w] = new /\ \A v \in Workers \ {w} : stack'[v] = stack[v]
  BY <1>1, <1>3 DEF TypeOK
<1>5. \A v \in Workers : \A i \in 1..Len(stack[v]) : stack[v][i] \in Jobs /\ stack[v][i] # j
  <2>1. SUFFICES ASSUME NEW v \in Workers, NEW i \in 1..Len(stack[v])
                 PROVE  stack[v][i] \in Jobs /\ stack[v][i] # j
    OBVIOUS
  <2>2. stack[v] \in Seq(Jobs)
    BY DEF TypeOK
  <2>3. stack[v][i] \in Jobs
    BY <2>2
  <2>4. QED
    BY <2>3 DEF StacksApart
<1>6. \A v \in Workers : Len(stack[v]) \in Nat
  <2>1. \A v \in Workers : stack[v] \in Seq(Jobs)
    BY DEF TypeOK
  <2>2. QED
    BY <2>1
<1> HIDE DEF w, old, new
<1>7. \A v \in Workers : \A i \in 1..Len(stack'[v]) :
        \/ v = w /\ i = 1 /\ stack'[v][i] = j
        \/ v = w /\ i # 1 /\ i - 1 \in 1..Len(stack[v]) /\ stack'[v][i] = stack[v][i - 1]
        \/ v # w /\ i \in 1..Len(stack[v]) /\ stack'[v][i] = stack[v][i]
  <2>1. SUFFICES ASSUME NEW v \in Workers, NEW i \in 1..Len(stack'[v])
                 PROVE  \/ v = w /\ i = 1 /\ stack'[v][i] = j
                        \/ v = w /\ i # 1 /\ i - 1 \in 1..Len(stack[v]) /\ stack'[v][i] = stack[v][i - 1]
                        \/ v # w /\ i \in 1..Len(stack[v]) /\ stack'[v][i] = stack[v][i]
    OBVIOUS
  <2>2. CASE v # w
    BY <2>2, <1>4
  <2>3. CASE v = w /\ i = 1
    BY <2>3, <1>2, <1>4
  <2>4. CASE v = w /\ i # 1
    <3>1. stack'[v] = new /\ stack[v] = old
      BY <2>4, <1>4 DEF old
    <3>2. Len(new) \in Nat
      BY <1>1, <1>2 DEF old
    <3>3. i \in 2..Len(new)
      BY <2>4, <3>1, <3>2
    <3>4. QED
      BY <2>4, <3>1, <3>3, <1>2
  <2>5. QED
    BY <2>2, <2>3, <2>4
<1>8. \A v \in Workers : \A i \in 1..Len(stack'[v]) : place'[stack'[v][i]] = "stack"
  <2>1. \A x \in Jobs : place'[x] = IF x = j THEN "stack" ELSE place[x]
    BY <1>3 DEF TypeOK
  <2>2. \A v \in Workers : \A i \in 1..Len(stack[v]) : place'[stack[v][i]] = "stack"
    BY <2>1, <1>5 DEF StacksApart
  <2>3. place'[j] = "stack"
    BY <2>1
  <2>4. QED
    BY <2>2, <2>3, <1>7
<1>9. ASSUME NEW u \in Workers, NEW v \in Workers,
             NEW i \in 1..Len(stack'[u]), NEW k \in 1..Len(stack'[v]),
             stack'[u][i] = stack'[v][k]
      PROVE  u = v /\ i = k
  <2>0. /\ \/ u = w /\ i = 1 /\ stack'[u][i] = j
           \/ u = w /\ i # 1 /\ i - 1 \in 1..Len(stack[u]) /\ stack'[u][i] = stack[u][i - 1]
           \/ u # w /\ i \in 1..Len(stack[u]) /\ stack'[u][i] = stack[u][i]
        /\ \/ v = w /\ k = 1 /\ stack'[v][k] = j
           \/ v = w /\ k # 1 /\ k - 1 \in 1..Len(stack[v]) /\ stack'[v][k] = stack[v][k - 1]
           \/ v # w /\ k \in 1..Len(stack[v]) /\ stack'[v][k] = stack[v][k]
    BY <1>7
  <2>1. CASE u = w /\ i = 1
    <3>1. stack'[v][k] = j
      BY <2>0, <2>1, <1>9
    <3>2. v = w /\ k = 1
      BY <2>0, <3>1, <1>5
    <3>3. QED
      BY <2>1, <3>2
  <2>2. CASE v = w /\ k = 1
    <3>1. stack'[u][i] = j
      BY <2>0, <2>2, <1>9
    <3>2. u = w /\ i = 1
      BY <2>0, <3>1, <1>5
    <3>3. QED
      BY <2>2, <3>2
  <2>3. CASE u = w /\ i # 1 /\ v = w /\ k # 1
    <3>1. /\ i - 1 \in 1..Len(stack[u]) /\ stack'[u][i] = stack[u][i - 1]
          /\ k - 1 \in 1..Len(stack[v]) /\ stack'[v][k] = stack[v][k - 1]
      BY <2>0, <2>3
    <3>2. i - 1 = k - 1
      <4>1. stack[u][i - 1] = stack[v][k - 1]
        BY <3>1, <1>9
      <4>2. QED
        BY <3>1, <4>1 DEF StacksApart
    <3>3. QED
      BY <2>3, <3>2
  <2>4. CASE u # w /\ v # w
    BY <2>0, <2>4, <1>9 DEF StacksApart
  <2>5. CASE (u = w /\ i # 1 /\ v # w) \/ (v = w /\ k # 1 /\ u # w)
    <3>1. PICK x \in 1..Len(stack[u]), y \in 1..Len(stack[v]) : stack[u][x] = stack[v][y]
      BY <2>0, <2>5, <1>9
    <3>2. QED
      BY <2>5, <3>1 DEF StacksApart
  <2>6. QED
    BY <2>1, <2>2, <2>3, <2>4, <2>5
<1>10. QED
  BY <1>8, <1>9 DEF StacksApart

(* So does popping one, which then is on no stack.                         *)
LEMMA PopApart ==
  ASSUME TypeOK, StacksApart, NEW w \in Workers, stack[w] # <<>>,
         stack' = Popped(w),
         place' = [place EXCEPT ![Head(stack[w])] = "run"]
  PROVE  StacksApart'
<1> DEFINE old == stack[w]
           new == Tail(old)
           j == Head(old)
<1>1. old \in Seq(Jobs) /\ old # <<>>
  BY DEF TypeOK
<1>2. /\ j = old[1] /\ 1 \in 1..Len(old)
      /\ \A i \in 1..Len(new) : i \in Nat /\ i + 1 \in 1..Len(old) /\ i + 1 # 1 /\ new[i] = old[i + 1]
  <2> HIDE DEF old
  <2>1. QED
    BY <1>1
<1>3. stack'[w] = new /\ \A v \in Workers \ {w} : stack'[v] = stack[v]
  BY DEF TypeOK, Popped
<1> HIDE DEF old, new, j
<1>4. \A v \in Workers : \A i \in 1..Len(stack'[v]) :
        \/ /\ v = w /\ i + 1 \in 1..Len(stack[v]) /\ stack'[v][i] = stack[v][i + 1]
           /\ stack'[v][i] # j
        \/ /\ v # w /\ i \in 1..Len(stack[v]) /\ stack'[v][i] = stack[v][i]
           /\ stack'[v][i] # j
  <2>1. SUFFICES ASSUME NEW v \in Workers, NEW i \in 1..Len(stack'[v])
                 PROVE  \/ /\ v = w /\ i + 1 \in 1..Len(stack[v]) /\ stack'[v][i] = stack[v][i + 1]
                           /\ stack'[v][i] # j
                        \/ /\ v # w /\ i \in 1..Len(stack[v]) /\ stack'[v][i] = stack[v][i]
                           /\ stack'[v][i] # j
    OBVIOUS
  <2>2. CASE v = w
    <3>1. stack'[v] = new /\ stack[v] = old
      BY <2>2, <1>3 DEF old
    <3>2. i + 1 \in 1..Len(stack[v]) /\ i + 1 # 1 /\ stack'[v][i] = stack[v][i + 1]
      BY <3>1, <1>2
    <3>3. stack[v][i + 1] # j
      BY <3>1, <3>2, <1>2 DEF StacksApart
    <3>4. QED
      BY <2>2, <3>2, <3>3
  <2>3. CASE v # w
    <3>1. stack'[v] = stack[v]
      BY <2>3, <1>3
    <3>2. j = stack[w][1] /\ 1 \in 1..Len(stack[w])
      BY <1>2 DEF old
    <3>3. QED
      BY <2>3, <3>1, <3>2 DEF StacksApart
  <2>4. QED
    BY <2>2, <2>3
<1>5. place' = [place EXCEPT ![j] = "run"]
  BY DEF j, old
<1>6. \A v \in Workers : \A i \in 1..Len(stack[v]) : stack[v][i] \in Jobs
  <2>1. \A v \in Workers : stack[v] \in Seq(Jobs)
    BY DEF TypeOK
  <2>2. QED
    BY <2>1
<1>7. \A v \in Workers : \A i \in 1..Len(stack'[v]) : place'[stack'[v][i]] = "stack"
  <2>1. \A x \in Jobs : x # j => place'[x] = place[x]
    BY <1>5 DEF TypeOK
  <2>2. \A v \in Workers : \A i \in 1..Len(stack[v]) :
          stack[v][i] # j => place'[stack[v][i]] = "stack"
    BY <2>1, <1>6 DEF StacksApart
  <2>3. QED
    BY <2>2, <1>4
<1>8. ASSUME NEW u \in Workers, NEW v \in Workers,
             NEW i \in 1..Len(stack'[u]), NEW k \in 1..Len(stack'[v]),
             stack'[u][i] = stack'[v][k]
      PROVE  u = v /\ i = k
  <2>1. CASE u = w /\ v = w
    <3>1. i + 1 = k + 1
      BY <2>1, <1>4, <1>8 DEF StacksApart
    <3>2. QED
      BY <2>1, <3>1
  <2>2. CASE u # w /\ v # w
    BY <2>2, <1>4, <1>8 DEF StacksApart
  <2>3. CASE u # v
    <3>1. PICK x \in 1..Len(stack[u]), y \in 1..Len(stack[v]) : stack[u][x] = stack[v][y]
      BY <2>3, <1>4, <1>8
    <3>2. QED
      BY <2>3, <3>1 DEF StacksApart
  <2>4. QED
    BY <2>1, <2>2, <2>3
<1>9. QED
  BY <1>7, <1>8 DEF StacksApart

(* Where no stack changes, no job on one may change its place.             *)
LEMMA StayApart ==
  ASSUME TypeOK, StacksApart, stack' = stack,
         \A j \in Jobs : place[j] = "stack" => place'[j] = "stack"
  PROVE  StacksApart'
<1>1. \A v \in Workers : \A i \in 1..Len(stack[v]) : stack[v][i] \in Jobs
  <2>1. \A v \in Workers : stack[v] \in Seq(Jobs)
    BY DEF TypeOK
  <2>2. QED
    BY <2>1
<1>2. QED
  BY <1>1 DEF StacksApart

LEMMA WorkerPlaces ==
  ASSUME PlaceInv, NEW w \in Workers, Worker(w) \/ Spurious(w)
  PROVE  StacksApart' /\ RunsApart'
<1>0. TypeOK /\ BusyIsSomewhere /\ StacksApart /\ RunsApart /\ w \in Threads /\ Coroutines \subseteq Jobs
  BY ThreadsDiffer DEF PlaceInv, PoolInv, Jobs
<1>1. CASE \/ Exit(w) \/ Wait(w) \/ Back(w) \/ Spurious(w) \/ NotifyTimer(w)
  <2>1. UNCHANGED <<stack, place, job, held>>
    BY <1>1 DEF Exit, Wait, Back, Spurious, NotifyTimer, jobVars, workerVars, timerVars
  <2>2. QED
    BY <1>0, <2>1, StayApart DEF RunsApart
<1>2. CASE Take(w)
  <2>1. stack[w] \in Seq(Jobs) /\ stack[w] # <<>>
    BY <1>0, <1>2 DEF Take, TypeOK
  <2>2. Head(stack[w]) \in Jobs /\ 1 \in 1..Len(stack[w]) /\ Head(stack[w]) = stack[w][1]
    BY <2>1
  <2>3. place[Head(stack[w])] = "stack"
    BY <1>0, <2>2 DEF StacksApart
  <2>4. StacksApart'
    BY <1>0, <1>2, <2>1, PopApart DEF Take
  <2>5. job[w] = {}
    BY <1>0, <1>2 DEF Take, BusyIsSomewhere
  <2>6. /\ job' = [job EXCEPT ![w] = {Head(stack[w])}]
        /\ place' = [place EXCEPT ![Head(stack[w])] = "run"]
        /\ held' = held
    BY <1>2 DEF Take, timerVars
  <2>7. RunsApart'
    BY <1>0, <2>2, <2>3, <2>6 DEF RunsApart, TypeOK
  <2>8. QED
    BY <2>4, <2>7
<1>3. CASE End(w)
  <2>1. /\ place' = [j \in Jobs |-> IF j \in job[w] THEN "ended" ELSE place[j]]
        /\ job' = [job EXCEPT ![w] = {}]
        /\ UNCHANGED <<stack, held>>
    BY <1>3 DEF End, timerVars
  <2>2. \A j \in Jobs : place[j] # "run" => place'[j] = place[j]
    BY <1>0, <2>1 DEF RunsApart
  <2>3. StacksApart'
    BY <1>0, <2>1, <2>2, StayApart
  <2>4. RunsApart'
    BY <1>0, <2>1, <2>2 DEF RunsApart, TypeOK
  <2>5. QED
    BY <2>3, <2>4
<1>4. CASE Hop(w)
  <2>1. PICK j \in job[w] \cap Coroutines : Push(j, w)
    BY <1>4 DEF Hop
  <2>2. place[j] = "run" /\ j \in Jobs
    BY <1>0 DEF RunsApart
  <2>3. StacksApart'
    BY <1>0, <2>1, <2>2, PushApart
  <2>4. /\ place' = [place EXCEPT ![j] = "stack"]
        /\ job' = [job EXCEPT ![w] = {}]
        /\ held' = held
    BY <1>4, <2>1 DEF Hop, Push, timerVars
  <2>5. RunsApart'
    BY <1>0, <2>1, <2>2, <2>4 DEF RunsApart, TypeOK
  <2>6. QED
    BY <2>3, <2>5
<1>5. CASE \E d \in Delays : Sleep(w, d)
  <2>1. PICK j \in job[w] \cap Coroutines : place' = [place EXCEPT ![j] = "timers"]
    BY <1>5 DEF Sleep
  <2>2. place[j] = "run" /\ j \in Jobs
    BY <1>0 DEF RunsApart
  <2>3. job' = [job EXCEPT ![w] = {}] /\ UNCHANGED <<stack, held>>
    BY <1>5 DEF Sleep
  <2>4. StacksApart'
    BY <1>0, <2>1, <2>2, <2>3, StayApart DEF TypeOK
  <2>5. RunsApart'
    BY <1>0, <2>1, <2>2, <2>3 DEF RunsApart, TypeOK
  <2>6. QED
    BY <2>4, <2>5
<1>6. QED
  BY <1>1, <1>2, <1>3, <1>4, <1>5 DEF Worker, Body

LEMMA OtherPlaces ==
  ASSUME PlaceInv,
         \/ Timer \/ TimerSpurious
         \/ \E j \in Jobs : Queue(j)
         \/ \E thread \in Threads : NotifyOne(thread)
         \/ Flag \/ Destroy \/ Clock
  PROVE  StacksApart' /\ RunsApart'
<1>0. TypeOK /\ StacksApart /\ RunsApart /\ Coroutines \subseteq Jobs
  BY DEF PlaceInv, PoolInv, Jobs
<1>1. CASE \/ TimerLooks \/ TimerWaits \/ TimerBack \/ TimerTimesOut \/ TimerSpurious
           \/ Flag \/ WakeWorkers \/ WakeTimer \/ Clock
           \/ \E thread \in Threads : NotifyOne(thread)
  <2>1. UNCHANGED <<stack, place, job, held>>
    BY <1>1 DEF TimerLooks, TimerWaits, TimerBack, TimerTimesOut, TimerSpurious, Flag, WakeWorkers,
                WakeTimer, Clock, NotifyOne, jobVars, workerVars, timerVars
  <2>2. QED
    BY <1>0, <2>1, StayApart DEF RunsApart
<1>2. CASE TimerPops
  <2>1. PICK j \in First : held' = {j} /\ place' = [place EXCEPT ![j] = "held"]
    BY <1>2 DEF TimerPops
  <2>2. j \in Jobs /\ place[j] = "timers"
    BY <1>0 DEF First, Sleeping
  <2>3. UNCHANGED <<stack, job>>
    BY <1>2 DEF TimerPops, workerVars
  <2>4. StacksApart'
    BY <1>0, <2>1, <2>2, <2>3, StayApart DEF TypeOK
  <2>5. RunsApart'
    BY <1>0, <2>1, <2>2, <2>3 DEF RunsApart, TypeOK
  <2>6. QED
    BY <2>4, <2>5
<1>3. CASE TimerQueues
  <2>1. PICK j \in held : Push(j, TimerThread)
    BY <1>3 DEF TimerQueues
  <2>2. j \in Jobs /\ place[j] = "held" /\ TimerThread \in Threads
    BY <1>0, ThreadsDiffer DEF RunsApart, TypeOK
  <2>3. StacksApart'
    BY <1>0, <2>1, <2>2, PushApart
  <2>4. place' = [place EXCEPT ![j] = "stack"] /\ held' = {} /\ job' = job
    BY <1>3, <2>1 DEF TimerQueues, Push
  <2>5. RunsApart'
    BY <1>0, <2>2, <2>4 DEF RunsApart, TypeOK
  <2>6. QED
    BY <2>3, <2>5
<1>4. CASE \E j \in Jobs : Queue(j)
  <2>1. PICK j \in Jobs : Queue(j)
    BY <1>4
  <2>2. Push(j, Caller) /\ place[j] = "new" /\ Caller \in Threads
    BY <2>1, ThreadsDiffer DEF Queue
  <2>3. StacksApart'
    BY <1>0, <2>2, PushApart
  <2>4. place' = [place EXCEPT ![j] = "stack"] /\ UNCHANGED <<job, held>>
    BY <2>1, <2>2 DEF Queue, Push, timerVars
  <2>5. RunsApart'
    BY <1>0, <2>2, <2>4 DEF RunsApart, TypeOK
  <2>6. QED
    BY <2>3, <2>5
<1>5. CASE Clear
  <2>1. \A w \in Workers : stack'[w] = <<>>
    BY <1>5 DEF Clear
  <2>2. StacksApart'
    BY <2>1 DEF StacksApart
  <2>3. /\ \A j \in Jobs : place[j] # "stack" => place'[j] = place[j]
        /\ UNCHANGED <<job, held>>
    BY <1>5 DEF Clear, workerVars, timerVars
  <2>4. RunsApart'
    BY <1>0, <2>3 DEF RunsApart, TypeOK
  <2>5. QED
    BY <2>2, <2>4
<1>6. QED
  BY <1>1, <1>2, <1>3, <1>4, <1>5 DEF Timer, Destroy

(* At first no job is anywhere.                                            *)
LEMMA PlaceInit == Init => PlaceInv
<1>1. Init => StacksApart /\ RunsApart
  BY DEF Init, StacksApart, RunsApart
<1>2. QED
  BY <1>1, PoolInit DEF PlaceInv

(* Every step keeps the jobs apart.                                        *)
LEMMA PlaceStep == PlaceInv /\ [Next]_vars => PlaceInv'
<1> SUFFICES ASSUME PlaceInv, [Next]_vars PROVE PlaceInv'
  OBVIOUS
<1>1. PoolInv'
  BY PoolStep DEF PlaceInv
<1>2. CASE UNCHANGED vars
  BY <1>1, <1>2 DEF PlaceInv, StacksApart, RunsApart, vars, jobVars, workerVars, timerVars
<1>3. CASE Next
  <2>1. StacksApart' /\ RunsApart'
    BY <1>3, WorkerPlaces, OtherPlaces DEF Next
  <2>2. QED
    BY <1>1, <2>1 DEF PlaceInv
<1>4. QED
  BY <1>2, <1>3

(* No job is on a stack and elsewhere, or with two workers, for any number *)
(* of workers and however often a coroutine goes from stack to stack.      *)
THEOREM JobsHaveOnePlace == Spec => []OnePlace
<1>1. PlaceInv => OnePlace
  BY DEF PlaceInv, StacksApart, RunsApart, OnePlace, Contains
<1>2. QED
  BY <1>1, PlaceInit, PlaceStep, PTL DEF Spec

-----------------------------------------------------------------------------
(* The pool as module JobPool has it.  No job is lost: one that runs is    *)
(* with a worker, one that was popped is in the timer thread's hand, and   *)
(* neither has more than one.                                              *)
NoneLost ==
  /\ \A w \in Workers : \A i, j \in job[w] : i = j
  /\ \A j \in Jobs : place[j] = "run" => \E w \in Workers : j \in job[w]
  /\ \A i, j \in held : i = j
  /\ \A j \in Jobs : place[j] = "held" => j \in held

(* m_accept_jobs is set until destroy() is called.                         *)
AcceptsWhileUp == accept <=> mainAt = "up"

LossInv == PlaceInv /\ NoneLost /\ AcceptsWhileUp

(* A worker's own steps lose no job.                                       *)
LEMMA WorkerLosesNone ==
  ASSUME PlaceInv, NoneLost, NEW w \in Workers, Worker(w) \/ Spurious(w)
  PROVE  NoneLost'
<1>0. TypeOK /\ BusyIsSomewhere /\ StacksApart /\ RunsApart /\ w \in Threads /\ Coroutines \subseteq Jobs
  BY ThreadsDiffer DEF PlaceInv, PoolInv, Jobs
<1>1. CASE \/ Exit(w) \/ Wait(w) \/ Back(w) \/ Spurious(w) \/ NotifyTimer(w)
  BY <1>1 DEF Exit, Wait, Back, Spurious, NotifyTimer, jobVars, workerVars, timerVars, NoneLost
<1>2. CASE Take(w)
  <2>1. stack[w] \in Seq(Jobs) /\ stack[w] # <<>>
    BY <1>0, <1>2 DEF Take, TypeOK
  <2>2. Head(stack[w]) \in Jobs
    BY <2>1
  <2>3. job[w] = {}
    BY <1>0, <1>2 DEF Take, BusyIsSomewhere
  <2>4. /\ job' = [job EXCEPT ![w] = {Head(stack[w])}]
        /\ place' = [place EXCEPT ![Head(stack[w])] = "run"]
        /\ held' = held
    BY <1>2 DEF Take, timerVars
  <2>5. QED
    BY <1>0, <2>2, <2>3, <2>4 DEF NoneLost, TypeOK
<1>3. CASE End(w)
  <2>1. /\ place' = [j \in Jobs |-> IF j \in job[w] THEN "ended" ELSE place[j]]
        /\ job' = [job EXCEPT ![w] = {}]
        /\ held' = held
    BY <1>3 DEF End, timerVars
  <2>2. QED
    BY <1>0, <2>1 DEF NoneLost, TypeOK
<1>4. CASE Hop(w) \/ \E d \in Delays : Sleep(w, d)
  <2>1. PICK j \in job[w] : \E p \in {"stack", "timers"} : place' = [place EXCEPT ![j] = p]
    BY <1>4 DEF Hop, Push, Sleep
  <2>2. job[w] = {j} /\ j \in Jobs
    BY <1>0, <2>1 DEF NoneLost, TypeOK
  <2>3. job' = [job EXCEPT ![w] = {}] /\ held' = held
    BY <1>4 DEF Hop, Sleep, timerVars
  <2>4. QED
    BY <1>0, <2>1, <2>2, <2>3 DEF NoneLost, TypeOK
<1>5. QED
  BY <1>1, <1>2, <1>3, <1>4 DEF Worker, Body

(* Nor do the other threads'.                                              *)
LEMMA OthersLoseNone ==
  ASSUME PlaceInv, NoneLost,
         \/ Timer \/ TimerSpurious
         \/ \E j \in Jobs : Queue(j)
         \/ \E thread \in Threads : NotifyOne(thread)
         \/ Flag \/ Destroy \/ Clock
  PROVE  NoneLost'
<1>0. TypeOK /\ BusyIsSomewhere /\ RunsApart /\ Coroutines \subseteq Jobs
  BY DEF PlaceInv, PoolInv, Jobs
<1>1. CASE \/ TimerLooks \/ TimerWaits \/ TimerBack \/ TimerTimesOut \/ TimerSpurious
           \/ Flag \/ WakeWorkers \/ WakeTimer \/ Clock
           \/ \E thread \in Threads : NotifyOne(thread)
  <2>1. UNCHANGED <<place, job, held>>
    BY <1>1 DEF TimerLooks, TimerWaits, TimerBack, TimerTimesOut, TimerSpurious, Flag, WakeWorkers,
                WakeTimer, Clock, NotifyOne, jobVars, workerVars, timerVars
  <2>2. QED
    BY <2>1 DEF NoneLost
<1>2. CASE TimerPops
  <2>1. held = {}
    BY <1>0, <1>2 DEF TimerPops, BusyIsSomewhere
  <2>2. PICK j \in First : held' = {j} /\ place' = [place EXCEPT ![j] = "held"]
    BY <1>2 DEF TimerPops
  <2>3. j \in Jobs /\ job' = job
    BY <1>0, <1>2, <2>2 DEF First, Sleeping, TimerPops, workerVars
  <2>4. QED
    BY <1>0, <2>1, <2>2, <2>3 DEF NoneLost, TypeOK
<1>3. CASE TimerQueues
  <2>1. PICK j \in held : place' = [place EXCEPT ![j] = "stack"]
    BY <1>3 DEF TimerQueues, Push
  <2>2. j \in Jobs /\ held = {j} /\ held' = {} /\ job' = job
    BY <1>0, <1>3, <2>1 DEF NoneLost, TypeOK, TimerQueues
  <2>3. QED
    BY <1>0, <2>1, <2>2 DEF NoneLost, TypeOK
<1>4. CASE \E j \in Jobs : Queue(j)
  <2>1. PICK j \in Jobs : place' = [place EXCEPT ![j] = "stack"]
    BY <1>4 DEF Queue, Push
  <2>2. UNCHANGED <<job, held>>
    BY <1>4 DEF Queue, timerVars
  <2>3. QED
    BY <1>0, <2>1, <2>2 DEF NoneLost, TypeOK
<1>5. CASE Clear
  <2>1. /\ \A j \in Jobs : place'[j] = place[j] \/ place'[j] = "dropped"
        /\ UNCHANGED <<job, held>>
    BY <1>5 DEF Clear, workerVars, timerVars
  <2>2. QED
    BY <1>0, <2>1 DEF NoneLost, TypeOK
<1>6. QED
  BY <1>1, <1>2, <1>3, <1>4, <1>5 DEF Timer, Destroy

(* Only destroy() changes m_accept_jobs, when it begins.                   *)
LEMMA AcceptStep == AcceptsWhileUp /\ [Next]_vars => AcceptsWhileUp'
<1> SUFFICES ASSUME AcceptsWhileUp, [Next]_vars PROVE AcceptsWhileUp'
  OBVIOUS
<1>1. CASE Flag
  BY <1>1 DEF Flag, AcceptsWhileUp
<1>2. CASE Destroy
  <2>1. accept' = accept /\ mainAt # "up" /\ mainAt' # "up"
    BY <1>2 DEF Destroy, WakeWorkers, WakeTimer, Clear
  <2>2. QED
    BY <2>1 DEF AcceptsWhileUp
<1>3. ASSUME UNCHANGED <<accept, mainAt>> PROVE AcceptsWhileUp'
  BY <1>3 DEF AcceptsWhileUp
<1>4. ASSUME NEW w \in Workers, Worker(w) \/ Spurious(w) PROVE UNCHANGED <<accept, mainAt>>
  BY <1>4 DEF Worker, Spurious, Exit, Take, Wait, Body, End, Hop, Sleep, NotifyTimer, Back, mainVars
<1>5. ASSUME Timer \/ TimerSpurious PROVE UNCHANGED <<accept, mainAt>>
  BY <1>5 DEF Timer, TimerLooks, TimerWaits, TimerPops, TimerQueues, TimerBack, TimerTimesOut,
              TimerSpurious, mainVars
<1>6. ASSUME \/ \E j \in Jobs : Queue(j)
             \/ \E thread \in Threads : NotifyOne(thread)
             \/ Clock \/ UNCHANGED vars
      PROVE  UNCHANGED <<accept, mainAt>>
  BY <1>6 DEF Queue, NotifyOne, Clock, vars, mainVars
<1>7. QED
  BY <1>1, <1>2, <1>3, <1>4, <1>5, <1>6 DEF Next

(* No job is lost, in any run.                                             *)
LEMMA LossStep == LossInv /\ [Next]_vars => LossInv'
<1> SUFFICES ASSUME LossInv, [Next]_vars PROVE LossInv'
  OBVIOUS
<1>1. PlaceInv' /\ AcceptsWhileUp'
  BY PlaceStep, AcceptStep DEF LossInv
<1>2. NoneLost'
  <2>1. CASE UNCHANGED vars
    BY <2>1 DEF LossInv, NoneLost, vars, jobVars, workerVars, timerVars
  <2>2. CASE Next
    BY <2>2, WorkerLosesNone, OthersLoseNone DEF LossInv, Next
  <2>3. QED
    BY <2>1, <2>2
<1>3. QED
  BY <1>1, <1>2 DEF LossInv

-----------------------------------------------------------------------------
(* Who is what to the pool's users.                                        *)
LEMMA StatusIs ==
  ASSUME TypeOK, NEW j \in Jobs
  PROVE  /\ Status(j) = "new" <=> place[j] = "new"
         /\ Status(j) = "queued" <=> place[j] \in {"stack", "held"}
         /\ Status(j) = "running" <=> place[j] = "run"
         /\ Status(j) = "asleep" <=> place[j] = "timers"
         /\ place[j] \in {"new", "ended", "dropped"} => Status(j) = place[j]
BY DEF TypeOK, Status

(* The jobs are the same to both.                                          *)
LEMMA SameJobs == Abstract!Jobs = Jobs
BY DEF Abstract!Jobs, Jobs

(* A step that moves one job.                                              *)
LEMMA OneMoves ==
  ASSUME TypeOK, NEW j \in Jobs, NEW p, place' = [place EXCEPT ![j] = p],
         NEW s, (place'[j] = p) => Status(j)' = s
  PROVE  Abstract!Become(j, s)
<1>1. Status(j)' = s /\ \A k \in Jobs : k # j => Status(k)' = Status(k)
  BY DEF TypeOK, Status
<1>2. QED
  BY <1>1 DEF Abstract!Become

(* One that moves none.                                                    *)
LEMMA NoneMoves ==
  ASSUME place' = place
  PROVE  [j \in Jobs |-> Status(j)]' = [j \in Jobs |-> Status(j)]
BY DEF Status

(* Those that run are each with a worker of their own, so one that has no  *)
(* job is free.                                                            *)
LEMMA WorkerFree ==
  ASSUME LossInv, NEW w \in Workers, job[w] = {}
  PROVE  Abstract!WorkerIsFree
<1> DEFINE R == {j \in Jobs : place[j] = "run"}
           f == [j \in R |-> CHOOSE v \in Workers : j \in job[v]]
<1>1. \A j \in R : f[j] \in Workers /\ f[j] # w /\ j \in job[f[j]]
  BY DEF LossInv, NoneLost
<1>2. \A i, j \in R : f[i] = f[j] => i = j
  BY <1>1 DEF LossInv, NoneLost
<1>3. f \in [R -> Workers]
  BY <1>1
<1>4. Abstract!With("running") = R
  BY StatusIs, SameJobs DEF Abstract!With, LossInv, PlaceInv, PoolInv
<1> HIDE DEF f
<1>5. \E g \in [R -> Workers] : /\ \A i, j \in R : g[i] = g[j] => i = j
                               /\ \E v \in Workers : \A j \in R : g[j] # v
  <2>1. \E v \in Workers : \A j \in R : f[j] # v
    BY <1>1
  <2>2. QED
    BY <1>2, <1>3, <2>1
<1> HIDE DEF R
<1>6. QED
  BY <1>4, <1>5 DEF Abstract!WorkerIsFree

(* Take: the pool is open, the job was queued, and a worker is free.       *)
LEMMA TakeRuns ==
  ASSUME LossInv, NEW w \in Workers, Take(w)
  PROVE  \E j \in Jobs : Abstract!Run(j)
<1> DEFINE j == Head(stack[w])
<1>1. TypeOK /\ BusyIsSomewhere /\ StacksApart /\ AcceptsWhileUp
  BY DEF LossInv, PlaceInv, PoolInv
<1>2. stack[w] \in Seq(Jobs) /\ stack[w] # <<>> /\ mainAt = "up" /\ job[w] = {}
  BY <1>1 DEF Take, TypeOK, AcceptsWhileUp, BusyIsSomewhere
<1>3. j \in Jobs /\ 1 \in 1..Len(stack[w]) /\ j = stack[w][1]
  BY <1>2
<1>4. place[j] = "stack"
  BY <1>1, <1>3 DEF StacksApart
<1>5. UNCHANGED <<timers, mainAt, now>> /\ place' = [place EXCEPT ![j] = "run"]
  BY DEF Take, timerVars, mainVars
<1> HIDE DEF j
<1>6. Abstract!Become(j, "running")
  BY <1>1, <1>3, <1>5, OneMoves DEF Status
<1>7. Abstract!WorkerIsFree
  BY <1>2, WorkerFree
<1>8. j \in Abstract!With("queued")
  BY <1>1, <1>3, <1>4, StatusIs, SameJobs DEF Abstract!With
<1>9. QED
  BY <1>2, <1>3, <1>5, <1>6, <1>7, <1>8 DEF Abstract!Run

(* End, Hop and Sleep: the worker's one job ends or is suspended.          *)
LEMMA BodyMoves ==
  ASSUME LossInv, NEW w \in Workers, Body(w)
  PROVE  \/ \E j \in Jobs : Abstract!End(j) \/ Abstract!Hop(j)
         \/ \E j \in Jobs, d \in Delays : Abstract!Sleep(j, d)
<1>1. TypeOK /\ RunsApart /\ NoneLost
  BY DEF LossInv, PlaceInv, PoolInv
<1>2. \A j \in job[w] : j \in Jobs /\ j \in Abstract!With("running")
  BY <1>1, StatusIs, SameJobs DEF Abstract!With, RunsApart, TypeOK
<1>3. CASE End(w)
  <2>1. PICK j \in job[w] : job[w] = {j}
    BY <1>1, <1>3 DEF End, NoneLost
  <2>2. place' = [place EXCEPT ![j] = "ended"]
    BY <1>1, <1>3, <2>1 DEF End, TypeOK
  <2>3. place'[j] = "ended" => Status(j)' = "ended"
    BY DEF Status
  <2>4. Abstract!Become(j, "ended")
    BY <1>1, <1>2, <2>1, <2>2, <2>3, OneMoves
  <2>5. UNCHANGED <<timers, mainAt, now>>
    BY <1>3 DEF End, timerVars, mainVars
  <2>6. QED
    BY <1>2, <2>1, <2>4, <2>5 DEF Abstract!End
<1>4. CASE Hop(w)
  <2>1. PICK j \in job[w] \cap Coroutines : place' = [place EXCEPT ![j] = "stack"]
    BY <1>4 DEF Hop, Push
  <2>2. Abstract!Become(j, "queued")
    BY <1>1, <1>2, <2>1, OneMoves DEF Status
  <2>3. UNCHANGED <<timers, mainAt, now>>
    BY <1>4 DEF Hop, timerVars, mainVars
  <2>4. QED
    BY <1>2, <2>1, <2>2, <2>3 DEF Abstract!Hop
<1>5. ASSUME NEW d \in Delays, Sleep(w, d)
      PROVE  \E j \in Jobs : Abstract!Sleep(j, d)
  <2>1. PICK j \in job[w] \cap Coroutines : /\ timers' = [timers EXCEPT ![j] = now + d]
                                          /\ place' = [place EXCEPT ![j] = "timers"]
    BY <1>5 DEF Sleep
  <2>2. Abstract!Become(j, "asleep")
    BY <1>1, <1>2, <2>1, OneMoves DEF Status
  <2>3. UNCHANGED <<mainAt, now>>
    BY <1>5 DEF Sleep, mainVars
  <2>4. QED
    BY <1>2, <2>1, <2>2, <2>3 DEF Abstract!Sleep
<1>6. QED
  BY <1>3, <1>4, <1>5 DEF Body

(* TimerPops: the first of the coroutines that sleep, and it is due.  The  *)
(* stacks are not cleared, since the timer thread is not out.              *)
LEMMA PopWakes ==
  ASSUME LossInv, TimerPops
  PROVE  \E j \in Jobs : Abstract!Wake(j)
<1>1. TypeOK /\ DownIsQuiet /\ Coroutines \subseteq Jobs
  BY DEF LossInv, PlaceInv, PoolInv, Jobs
<1>2. PICK j \in First : timers[j] <= now /\ place' = [place EXCEPT ![j] = "held"]
  BY DEF TimerPops
<1>3. j \in Coroutines /\ j \in Jobs /\ place[j] = "timers"
  BY <1>1, <1>2 DEF First, Sleeping
<1>4. Abstract!With("asleep") \cap Coroutines = Sleeping
  BY <1>1, StatusIs, SameJobs DEF Abstract!With, Sleeping
<1>5. Abstract!Become(j, "queued")
  BY <1>1, <1>2, <1>3, OneMoves DEF Status
<1>6. UNCHANGED <<timers, mainAt, now>> /\ mainAt # "down"
  BY <1>1 DEF TimerPops, DownIsQuiet, mainVars
<1>7. j \in Sleeping /\ \A k \in Sleeping : timers[j] <= timers[k]
  BY <1>2 DEF First
<1>8. QED
  BY <1>2, <1>3, <1>4, <1>5, <1>6, <1>7 DEF Abstract!Wake

(* TimerQueues: what it held was queued already.                           *)
LEMMA QueuesUnseen ==
  ASSUME LossInv, TimerQueues
  PROVE  UNCHANGED Abstract!vars
<1>1. TypeOK /\ RunsApart /\ Coroutines \subseteq Jobs
  BY DEF LossInv, PlaceInv, PoolInv, Jobs
<1>2. PICK j \in held : place' = [place EXCEPT ![j] = "stack"]
  BY DEF TimerQueues, Push
<1>3. place[j] = "held" /\ j \in Jobs
  BY <1>1, <1>2 DEF RunsApart, TypeOK
<1>4. \A k \in Jobs : Status(k)' = Status(k)
  BY <1>1, <1>2, <1>3 DEF Status, TypeOK
<1>5. UNCHANGED <<timers, mainAt, now>>
  BY DEF TimerQueues, mainVars
<1>6. QED
  BY <1>4, <1>5 DEF Abstract!vars

(* Queue: a job that is new, while the pool is up.                         *)
LEMMA QueueQueues ==
  ASSUME LossInv, NEW j \in Jobs, Queue(j)
  PROVE  Abstract!Queue(j)
<1>1. TypeOK
  BY DEF LossInv, PlaceInv, PoolInv
<1>2. place' = [place EXCEPT ![j] = "stack"] /\ place[j] = "new" /\ mainAt = "up"
  BY DEF Queue, Push
<1>3. Abstract!Become(j, "queued") /\ j \in Abstract!With("new")
  BY <1>1, <1>2, OneMoves, StatusIs, SameJobs DEF Status, Abstract!With
<1>4. UNCHANGED <<timers, mainAt, now>>
  BY DEF Queue, timerVars, mainVars
<1>5. QED
  BY <1>2, <1>3, <1>4 DEF Abstract!Queue

(* Clear: with every thread out nothing runs and nothing is in hand, so    *)
(* what is dropped is all that is queued.                                  *)
LEMMA ClearDrops ==
  ASSUME LossInv, Clear
  PROVE  Abstract!Drop
<1>1. TypeOK /\ BusyIsSomewhere /\ NoneLost
  BY DEF LossInv, PlaceInv, PoolInv
<1>2. /\ mainAt = "joining" /\ mainAt' = "down"
      /\ timerAt = "exit" /\ \A w \in Workers : at[w] = "exit"
      /\ place' = [j \in Jobs |-> IF place[j] = "stack" THEN "dropped" ELSE place[j]]
  BY DEF Clear, Joined
<1>3. \A j \in Jobs : place[j] \notin {"run", "held"}
  BY <1>1, <1>2 DEF BusyIsSomewhere, NoneLost
<1>4. Abstract!With("running") = {}
  BY <1>1, <1>3, StatusIs, SameJobs DEF Abstract!With
<1>5. \A j \in Jobs : j \in Abstract!With("queued") <=> place[j] = "stack"
  BY <1>1, <1>3, StatusIs, SameJobs DEF Abstract!With
<1>6. \A j \in Jobs : Status(j)' = IF place[j] = "stack" THEN "dropped" ELSE Status(j)
  BY <1>1, <1>2 DEF Status, TypeOK
<1>7. [j \in Jobs |-> Status(j)]'
        = [j \in Jobs |-> IF j \in Abstract!With("queued") THEN "dropped" ELSE Status(j)]
  BY <1>5, <1>6
<1>8. UNCHANGED <<timers, now>>
  BY DEF Clear, timerVars
<1>9. QED
  BY <1>2, <1>4, <1>7, <1>8, SameJobs DEF Abstract!Drop

(* The rest changes nothing of a job; Flag closes the pool, and time goes  *)
(* on.                                                                     *)
LEMMA RestUnseen ==
  ASSUME \/ \E w \in Workers : Exit(w) \/ Wait(w) \/ NotifyTimer(w) \/ Back(w) \/ Spurious(w)
         \/ \E thread \in Threads : NotifyOne(thread)
         \/ TimerLooks \/ TimerWaits \/ TimerBack \/ TimerTimesOut \/ TimerSpurious
         \/ WakeWorkers \/ WakeTimer
         \/ UNCHANGED vars
  PROVE  UNCHANGED Abstract!vars
<1>1. UNCHANGED <<place, timers, now>>
  BY DEF Exit, Wait, NotifyTimer, Back, Spurious, NotifyOne, TimerLooks, TimerWaits, TimerBack,
         TimerTimesOut, TimerSpurious, WakeWorkers, WakeTimer, vars, jobVars, timerVars
<1>2. mainAt' = mainAt \/ (mainAt \in {"flagged", "woken"} /\ mainAt' \in {"woken", "joining"})
  BY DEF Exit, Wait, NotifyTimer, Back, Spurious, NotifyOne, TimerLooks, TimerWaits, TimerBack,
         TimerTimesOut, TimerSpurious, WakeWorkers, WakeTimer, vars, mainVars
<1>3. QED
  BY <1>1, <1>2, NoneMoves DEF Abstract!vars

LEMMA FlagCloses ==
  ASSUME Flag
  PROVE  Abstract!Close
<1>1. UNCHANGED <<place, timers, now>> /\ mainAt = "up" /\ mainAt' = "flagged"
  BY DEF Flag, jobVars, timerVars
<1>2. QED
  BY <1>1, NoneMoves DEF Abstract!Close

LEMMA ClockTicks ==
  ASSUME Clock
  PROVE  Abstract!Clock
<1>1. UNCHANGED <<place, timers, mainAt>> /\ now' = now + 1
  BY DEF Clock, jobVars, timerVars, mainVars
<1>2. QED
  BY <1>1, NoneMoves DEF Abstract!Clock

(* Every step of the pool is one of JobPool's, or changes nothing it can   *)
(* see.                                                                    *)
LEMMA StepImplements == LossInv /\ [Next]_vars => [Abstract!Next]_(Abstract!vars)
<1> SUFFICES ASSUME LossInv, [Next]_vars PROVE Abstract!Next \/ UNCHANGED Abstract!vars
  OBVIOUS
<1>1. ASSUME NEW w \in Workers, Take(w) \/ Body(w) PROVE Abstract!Next
  BY <1>1, TakeRuns, BodyMoves, SameJobs DEF Abstract!Next
<1>2. ASSUME TimerPops PROVE Abstract!Next
  BY <1>2, PopWakes, SameJobs DEF Abstract!Next
<1>3. ASSUME NEW j \in Jobs, Queue(j) PROVE Abstract!Next
  BY <1>3, QueueQueues, SameJobs DEF Abstract!Next
<1>4. ASSUME Clear \/ Flag \/ Clock PROVE Abstract!Next
  BY <1>4, ClearDrops, FlagCloses, ClockTicks DEF Abstract!Next
<1>5. CASE UNCHANGED vars
  BY <1>5, RestUnseen
<1>6. CASE Next
  BY <1>1, <1>2, <1>3, <1>4, <1>6, QueuesUnseen, RestUnseen DEF Next, Worker, Timer, Destroy
<1>7. QED
  BY <1>5, <1>6

(* The pool implements JobPool, for any number of workers, jobs, hops and  *)
(* delays: a job that is queued is run once, by one worker, no coroutine   *)
(* wakes before its time, and destroy() drops only what nobody runs.       *)
THEOREM PoolRefinement == Spec => ImplementsPool
<1>1. Init => LossInv
  BY PlaceInit DEF Init, LossInv, NoneLost, AcceptsWhileUp
<1>2. Init => Abstract!Init
  <2> SUFFICES ASSUME Init PROVE Abstract!Init
    OBVIOUS
  <2>1. [j \in Jobs |-> Status(j)] = [j \in Jobs |-> "new"]
    BY DEF Init, Status
  <2>2. QED
    BY <2>1, SameJobs DEF Init, Abstract!Init
<1>3. QED
  BY <1>1, <1>2, LossStep, StepImplements, PTL DEF Spec, ImplementsPool, Abstract!Spec

=============================================================================

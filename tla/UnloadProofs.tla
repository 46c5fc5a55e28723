---------------------------- MODULE UnloadProofs ----------------------------
(***************************************************************************)
(* What holds of Unload for every set of features and any number of        *)
(* switches: off is off, and an unload in time leaves nothing on.  Both    *)
(* rest on the order of the tasks, whether they are queued or in the tick. *)
(***************************************************************************)
EXTENDS Unload, SequenceTheorems, TLAPS

Queue == frame \o tasks
Places == 1..Len(Queue)

(* What a toggle is at, or is about to be.                                 *)
Target(f) == IF Sets(f) THEN ~state[f] ELSE state[f]

(* One thread at a time sets a toggle, to what it is not at.               *)
OneSets ==
  \A f \in Features \ split : \A t \in Threads :
    setting[t].feature = f =>
      /\ setting[t].on = ~state[f]
      /\ \A u \in Threads : setting[u].feature = f => u = t

(* The last switch queued for a feature is to what its toggle is at.       *)
LastSwitchWins ==
  \A f \in Features \ split, on \in BOOLEAN : \A i \in Places :
    Queue[i] = Apply(f, on) /\ on # Target(f) =>
      \E k \in Places : k > i /\ Queue[k] = Apply(f, Target(f))

(* A feature that is on against its toggle is about to be switched off.    *)
OffIsQueued ==
  ~Cleared => \A f \in Features \ (split \cup faulted) :
    effect[f] /\ ~Target(f) => \E i \in Places : Queue[i] = Apply(f, FALSE)

(* There is one shutdown, and a switch is in front of it.                  *)
ShutdownIsLast ==
  /\ main = "running" \/ Cleared => \A i \in Places : Queue[i] # Shutdown /\ Queue[i] # Signal
  /\ \A i, k \in Places : Queue[i] = Shutdown /\ Queue[k] = Shutdown => i = k
  /\ main # "running" =>
       \A f \in Features \ split, on \in BOOLEAN : \A i \in Places :
         Queue[i] = Apply(f, on) => \E k \in Places : k > i /\ Queue[k] = Shutdown

(* Once the signal is queued, the shutdown is done with every feature, and *)
(* the last round of the loop is over.                                     *)
SignalMeansOff ==
  main # "running" /\ (~pending \/ \E i \in Places : Queue[i] = Signal) =>
    /\ \A i \in Places : Queue[i] # Shutdown
    /\ game # "round"
    /\ \A f \in Features \ (split \cup faulted) : ~effect[f]

(* How far the unload is.                                                  *)
UnloadOrder ==
  /\ main # "running" => ~running
  /\ main \notin {"running", "waiting"} /\ ~late => ~pending

OrderInv == OneSets /\ LastSwitchWins /\ OffIsQueued /\ ShutdownIsLast /\ SignalMeansOff /\ UnloadOrder

IInv == TypeOK /\ OrderInv

(* The hooks and the calls in them.                                        *)
LifeInv ==
  /\ main # "running" => ~running
  /\ main \in {"sleeping", "clearing"} \/ Cleared => hooked = covered
  /\ main = "clearing" \/ Cleared => ~drawing /\ (~hooked => game = "outside")
  /\ ~covered => ~torn
  /\ main = "freed" => ~hooked

-----------------------------------------------------------------------------
(* The hooks and the calls in them, if calls are as short as the second    *)
(* slept.                                                                  *)
LEMMA LifeInit == Init => LifeInv
BY DEF Init, LifeInv, Cleared

LEMMA LifeStep ==
  ASSUME CallsAreShort, LifeInv, [Next]_vars
  PROVE  LifeInv'
<1> USE DEF LifeInv, Cleared, mainVars, hookVars, menuVars, gameVars
<1>1. CASE SetState
  BY <1>1 DEF SetState, SetQueues, SetEnds
<1>2. CASE Render \/ Stop
  <2>1. UNCHANGED <<hooked, covered, main, torn, game>>
    BY <1>2 DEF Render, BeginFrame, EndFrame, Stop
  <2>2. main # "running" => ~running'
    BY <1>2, Zenon DEF Render, BeginFrame, EndFrame, Stop
  <2>3. ~running => (drawing' => drawing)
    BY <1>2, Zenon DEF Render, BeginFrame, EndFrame, Stop
  <2> QED
    BY <2>1, <2>2, <2>3
<1>3. CASE Game
  <2>1. CASE BeginTick \/ PlainCall
    BY <2>1 DEF BeginTick, PlainCall
  <2>2. CASE RunLoop \/ RunFeatures
    BY <2>2 DEF RunLoop, RunFeatures, Resumes
  <2>3. CASE RunApply \/ ApplyFaults \/ RunShutdown \/ ShutdownFaults \/ RunSignal
    BY <2>3 DEF RunApply, ApplyFaults, RunShutdown, ShutdownFaults, RunSignal
  <2>4. CASE RunOriginal \/ EndCall
    BY <2>4 DEF RunOriginal, EndCall
  <2> QED
    BY <1>3, <2>1, <2>2, <2>3, <2>4 DEF Game, Resume
<1>4. CASE Main
  <2>1. CASE QueueShutdown \/ Waited \/ Disable
    BY <2>1 DEF QueueShutdown, Waited, Disable
  <2>2. CASE Slept
    BY <2>2 DEF Slept, SecondPasses
  <2>3. CASE Clear
    <3>1. torn' => game \in {"ticking", "round"}
      BY <2>3 DEF Clear
    <3>2. ~covered => game = "outside"
      BY <2>3 DEF Clear
    <3>3. "outside" \notin {"ticking", "round"}
      OBVIOUS
    <3>4. ~covered' => ~torn'
      BY <2>3, <3>1, <3>2, <3>3 DEF Clear
    <3> QED
      BY <2>3, <3>4 DEF Clear
  <2>4. CASE DestroyPool \/ JoinPool
    BY <2>4 DEF DestroyPool, JoinPool
  <2>5. CASE Leave
    BY <2>5 DEF Leave, Retained
  <2> QED
    BY <1>4, <2>1, <2>2, <2>3, <2>4, <2>5 DEF Main
<1>5. CASE UNCHANGED vars
  BY <1>5 DEF vars
<1> QED
  BY <1>1, <1>2, <1>3, <1>4, <1>5 DEF Next

(* task_mgr::clear destroys no task in the midst of a tick, if no other    *)
(* program's hook keeps ours in place.                                     *)
THEOREM TasksAreOutlived ==
  ASSUME CallsAreShort
  PROVE  Spec => []TasksOutliveTheTick
<1>1. LifeInv => TasksOutliveTheTick
  BY DEF LifeInv, TasksOutliveTheTick
<1>2. LifeInv /\ [Next]_vars => LifeInv'
  BY LifeStep
<1> QED
  BY LifeInit, <1>1, <1>2, PTL DEF Spec

(* The module is freed only when no thread is in its code, and none can    *)
(* come into it any more.                                                  *)
THEOREM FreedWhenUnused ==
  ASSUME CallsAreShort
  PROVE  Spec => []FreedIsUnused
<1>1. LifeInv => FreedIsUnused
  BY DEF LifeInv, FreedIsUnused, Cleared
<1>2. LifeInv /\ [Next]_vars => LifeInv'
  BY LifeStep
<1> QED
  BY LifeInit, <1>1, <1>2, PTL DEF Spec

-----------------------------------------------------------------------------
(* The tasks are told apart.                                               *)
LEMMA TaskKinds ==
  /\ Update # Shutdown /\ Update # Signal /\ Shutdown # Signal
  /\ \A f \in Features, on \in BOOLEAN :
       Apply(f, on) # Update /\ Apply(f, on) # Shutdown /\ Apply(f, on) # Signal
  /\ \A f, g \in Features, on, off \in BOOLEAN :
       Apply(f, on) = Apply(g, off) => f = g /\ on = off
  /\ Update \in Tasks /\ Shutdown \in Tasks /\ Signal \in Tasks
  /\ \A f \in Features, on \in BOOLEAN : Apply(f, on) \in Tasks
<1>1. Update.kind = "update" /\ Shutdown.kind = "shutdown" /\ Signal.kind = "signal"
  BY DEF Update, Shutdown, Signal
<1>2. \A f \in Features, on \in BOOLEAN :
        /\ Apply(f, on).kind = "apply" /\ Apply(f, on).feature = f /\ Apply(f, on).on = on
  BY DEF Apply
<1>3. /\ Update \in Tasks /\ Shutdown \in Tasks /\ Signal \in Tasks
      /\ \A f \in Features, on \in BOOLEAN : Apply(f, on) \in Tasks
  BY DEF Tasks
<1>4. Update # Shutdown /\ Update # Signal /\ Shutdown # Signal
  BY <1>1
<1>5. \A f \in Features, on \in BOOLEAN :
        Apply(f, on) # Update /\ Apply(f, on) # Shutdown /\ Apply(f, on) # Signal
  BY <1>1, <1>2
<1>6. \A f, g \in Features, on, off \in BOOLEAN :
        Apply(f, on) = Apply(g, off) => f = g /\ on = off
  BY <1>2
<1> QED
  BY <1>3, <1>4, <1>5, <1>6

LEMMA TypeInit == Init => TypeOK
<1> SUFFICES ASSUME Init PROVE TypeOK
  OBVIOUS
<1>1. <<>> \in Seq(Tasks)
  OBVIOUS
<1>2. setting \in [Threads -> {NoSet} \cup [feature : Features, on : BOOLEAN]]
  BY DEF Init
<1>3. switches \in 0..MaxSwitches
  BY UnloadAssumption DEF Init
<1>4. covered \in BOOLEAN
  BY UnloadAssumption DEF Init
<1> QED
  BY <1>1, <1>2, <1>3, <1>4 DEF Init, TypeOK

LEMMA TypeStep == TypeOK /\ [Next]_vars => TypeOK'
<1> SUFFICES ASSUME TypeOK, [Next]_vars PROVE TypeOK'
  OBVIOUS
<1> USE DEF mainVars, hookVars, menuVars, gameVars
<1>1. ASSUME NEW t \in Threads, NEW f \in Features, SetQueues(t, f)
      PROVE  TypeOK'
  <2>1. Apply(f, ~state[f]) \in Tasks /\ (~state[f]) \in BOOLEAN
    BY TaskKinds DEF TypeOK
  <2>2. tasks' \in Seq(Tasks)
    BY <1>1, <2>1 DEF SetQueues, TypeOK
  <2>3. setting' \in [Threads -> {NoSet} \cup [feature : Features, on : BOOLEAN]]
    BY <1>1, <2>1 DEF SetQueues, TypeOK
  <2>4. switches' \in 0..MaxSwitches
    BY <1>1, UnloadAssumption DEF SetQueues, TypeOK
  <2>5. split' \subseteq Features
    BY <1>1 DEF SetQueues, TypeOK
  <2> QED
    BY <1>1, <2>2, <2>3, <2>4, <2>5 DEF SetQueues, TypeOK
<1>2. ASSUME NEW t \in Threads, SetEnds(t)
      PROVE  TypeOK'
  <2>1. setting[t].feature \in Features /\ setting[t].on \in BOOLEAN
    BY <1>2 DEF SetEnds, TypeOK
  <2>2. state' \in [Features -> BOOLEAN]
    BY <1>2, <2>1 DEF SetEnds, TypeOK
  <2>3. setting' \in [Threads -> {NoSet} \cup [feature : Features, on : BOOLEAN]]
    BY <1>2 DEF SetEnds, TypeOK
  <2> QED
    BY <1>2, <2>2, <2>3 DEF SetEnds, TypeOK
<1>3. CASE Render
  <2>1. drawing' \in BOOLEAN
    BY <1>3, Zenon DEF Render, BeginFrame, EndFrame
  <2>2. leaked' \in BOOLEAN
    <3>1. CASE BeginFrame
      BY <3>1 DEF BeginFrame, TypeOK
    <3>2. CASE EndFrame
      <4>1. leaked \in BOOLEAN /\ leaked' \in {leaked, TRUE}
        BY <3>2 DEF EndFrame, TypeOK
      <4> QED
        BY <4>1, Zenon
    <3> QED
      BY <1>3, <3>1, <3>2 DEF Render
  <2>3. UNCHANGED <<running, state, setting, switches, tasks, gameVars, hookVars, mainVars, split,
                    faulted, torn>>
    BY <1>3 DEF Render, BeginFrame, EndFrame
  <2> QED
    BY <2>1, <2>2, <2>3 DEF TypeOK
<1>4. CASE Stop
  <2>1. running' \in BOOLEAN
    BY <1>4, Zenon DEF Stop
  <2> QED
    BY <1>4, <2>1 DEF Stop, TypeOK
<1>5. Overtaken \subseteq Features
  BY DEF Overtaken
<1>6. CASE BeginTick
  <2>1. frame' \in Seq(Tasks) /\ tasks' \in Seq(Tasks)
    <3>1. <<>> \in Seq(Tasks) /\ <<Update>> \in Seq(Tasks)
      BY TaskKinds
    <3> QED
      BY <1>6, <3>1 DEF BeginTick, TypeOK
  <2> QED
    BY <1>6, <2>1 DEF BeginTick, TypeOK
<1>7. CASE PlainCall
  BY <1>7 DEF PlainCall, TypeOK
<1>8. \A task : Resumes(task) => frame' \in Seq(Tasks) /\ game = "ticking"
  BY DEF Resumes, TypeOK
<1>9. CASE RunLoop
  <2>1. looping' \in BOOLEAN
    BY <1>9 DEF RunLoop, LoopGoesOn, TypeOK
  <2>2. game' \in {"ticking", "round"}
    BY <1>8, <1>9 DEF RunLoop
  <2> QED
    BY <1>8, <1>9, <2>1, <2>2 DEF RunLoop, TypeOK
<1>10. CASE RunFeatures
  <2>1. split' \subseteq Features
    BY <1>5, <1>10 DEF RunFeatures, TypeOK
  <2>2. effect' \in [Features -> BOOLEAN]
    BY <1>10 DEF RunFeatures, TypeOK
  <2> QED
    BY <1>10, <2>1, <2>2 DEF RunFeatures, TypeOK
<1>11. CASE RunApply \/ ApplyFaults
  <2>1. PICK f \in Features, on \in BOOLEAN :
          /\ Resumes(Apply(f, on)) /\ effect' \in {effect, Switched(f, on)}
          /\ faulted' \subseteq faulted \cup {f}
          /\ UNCHANGED <<running, menuVars, tasks, looping, game, hookVars, mainVars, leaked, split, torn>>
    BY <1>11 DEF RunApply, ApplyFaults
  <2>2. effect' \in [Features -> BOOLEAN] /\ faulted' \subseteq Features
    BY <2>1 DEF Switched, TypeOK
  <2> QED
    BY <1>8, <2>1, <2>2 DEF TypeOK
<1>12. CASE RunShutdown
  <2>1. tasks' \in Seq(Tasks)
    BY <1>12, TaskKinds DEF RunShutdown, TypeOK
  <2>2. effect' \in [Features -> BOOLEAN] /\ faulted' \subseteq Features /\ split' \subseteq Features
    BY <1>5, <1>12 DEF RunShutdown, TypeOK
  <2> QED
    BY <1>8, <1>12, <2>1, <2>2 DEF RunShutdown, TypeOK
<1>13. CASE ShutdownFaults
  <2>1. effect' \in [Features -> BOOLEAN]
    BY <1>13 DEF ShutdownFaults, TypeOK
  <2> QED
    BY <1>8, <1>13, <2>1 DEF ShutdownFaults, TypeOK
<1>14. CASE RunSignal
  <2>1. pending' \in BOOLEAN
    BY <1>14, Zenon DEF RunSignal
  <2> QED
    BY <1>8, <1>14, <2>1 DEF RunSignal, TypeOK
<1>15. CASE RunOriginal \/ EndCall
  BY <1>15 DEF RunOriginal, EndCall, TickIsOver, TypeOK
<1>16. CASE QueueShutdown
  <2>1. tasks' \in Seq(Tasks)
    BY <1>16, TaskKinds DEF QueueShutdown, TypeOK
  <2> QED
    BY <1>16, <2>1 DEF QueueShutdown, TypeOK
<1>17. CASE Waited \/ Disable \/ Slept
  BY <1>17 DEF Waited, Disable, Slept, TypeOK
<1>18. CASE Clear
  <2>1. <<>> \in Seq(Tasks)
    OBVIOUS
  <2>2. torn' \in BOOLEAN
    BY <1>18 DEF Clear
  <2> QED
    BY <1>18, <2>1, <2>2 DEF Clear, TypeOK
<1>19. CASE DestroyPool \/ JoinPool \/ Leave
  BY <1>19 DEF DestroyPool, JoinPool, Leave, TypeOK
<1>20. CASE UNCHANGED vars
  BY <1>20 DEF vars, TypeOK
<1> QED
  BY <1>1, <1>2, <1>3, <1>4, <1>6, <1>7, <1>9, <1>10, <1>11, <1>12, <1>13, <1>14, <1>15,
     <1>16, <1>17, <1>18, <1>19, <1>20 DEF Next, SetState, Game, Resume, Main

-----------------------------------------------------------------------------
(* What a step does to the queue.                                          *)
Adds(x) ==
  /\ Len(Queue) \in Nat /\ Len(Queue') = Len(Queue) + 1
  /\ Queue'[Len(Queue) + 1] = x
  /\ \A i \in Places : Queue'[i] = Queue[i]

Pops(x) ==
  /\ Len(Queue) \in Nat /\ Len(Queue) > 0 /\ Queue[1] = x
  /\ Len(Queue') = Len(Queue) - 1
  /\ \A i \in 1..Len(Queue) - 1 : Queue'[i] = Queue[i + 1]

(* Two sequences one behind the other.                                     *)
LEMMA Joined ==
  ASSUME NEW s \in Seq(Tasks), NEW t \in Seq(Tasks)
  PROVE  /\ Len(s) \in Nat /\ Len(t) \in Nat
         /\ Len(s \o t) = Len(s) + Len(t)
         /\ \A i \in 1..Len(s) + Len(t) : (s \o t)[i] = IF i <= Len(s) THEN s[i] ELSE t[i - Len(s)]
BY ConcatProperties

LEMMA QueueAdds ==
  ASSUME TypeOK, NEW x \in Tasks, frame' = frame, tasks' = Append(tasks, x)
  PROVE  Adds(x)
<1>1. tasks \in Seq(Tasks) /\ frame \in Seq(Tasks) /\ <<x>> \in Seq(Tasks)
  BY DEF TypeOK
<1>2. Queue' = Queue \o <<x>>
  BY <1>1, AppendIsConcat, ConcatAssociative DEF Queue
<1>3. Queue \in Seq(Tasks)
  BY <1>1, ConcatProperties DEF Queue
<1>4. /\ Len(Queue) \in Nat /\ Len(Queue') = Len(Queue) + Len(<<x>>)
      /\ \A i \in 1..Len(Queue) + Len(<<x>>) :
           Queue'[i] = IF i <= Len(Queue) THEN Queue[i] ELSE <<x>>[i - Len(Queue)]
  BY <1>1, <1>2, <1>3, Joined
<1>5. Len(<<x>>) = 1 /\ <<x>>[1] = x
  OBVIOUS
<1> QED
  BY <1>4, <1>5 DEF Adds, Places

(* What is left of the tick behind the task that is resumed.               *)
LEMMA Resumed ==
  ASSUME TypeOK, NEW x, Resumes(x)
  PROVE  /\ frame' \in Seq(Tasks) /\ Len(frame) \in Nat
         /\ Len(frame) > 0 /\ frame[1] = x
         /\ Len(frame') = Len(frame) - 1
         /\ \A i \in 1..Len(frame) - 1 : frame'[i] = frame[i + 1]
BY DEF TypeOK, Resumes

LEMMA QueuePops ==
  ASSUME TypeOK, NEW x, Resumes(x), tasks' = tasks
  PROVE  Pops(x)
<1>1. tasks \in Seq(Tasks) /\ frame \in Seq(Tasks)
  BY DEF TypeOK
<1>2. /\ frame' \in Seq(Tasks) /\ Len(frame) > 0 /\ frame[1] = x
      /\ Len(frame') = Len(frame) - 1
      /\ \A i \in 1..Len(frame) - 1 : frame'[i] = frame[i + 1]
  BY Resumed
<1>3. /\ Len(Queue) = Len(frame) + Len(tasks) /\ Len(frame) \in Nat /\ Len(tasks) \in Nat
      /\ \A i \in 1..Len(frame) + Len(tasks) :
           Queue[i] = IF i <= Len(frame) THEN frame[i] ELSE tasks[i - Len(frame)]
  BY <1>1, Joined DEF Queue
<1>4. /\ Len(Queue') = Len(frame') + Len(tasks)
      /\ \A i \in 1..Len(frame') + Len(tasks) :
           Queue'[i] = IF i <= Len(frame') THEN frame'[i] ELSE tasks[i - Len(frame')]
  BY <1>1, <1>2, Joined DEF Queue
<1>5. Len(Queue) \in Nat /\ Len(Queue) > 0 /\ Queue[1] = x /\ Len(Queue') = Len(Queue) - 1
  BY <1>2, <1>3, <1>4
<1>6. ASSUME NEW i \in 1..Len(Queue) - 1
      PROVE  Queue'[i] = Queue[i + 1]
  BY <1>2, <1>3, <1>4
<1> QED
  BY <1>5, <1>6 DEF Pops

(* commands::shutdown leaves the signal behind.                            *)
LEMMA QueueTurns ==
  ASSUME TypeOK, Resumes(Shutdown), tasks' = Append(tasks, Signal)
  PROVE  /\ Len(Queue) \in Nat /\ Len(Queue) > 0 /\ Queue[1] = Shutdown
         /\ Len(Queue') = Len(Queue)
         /\ Queue'[Len(Queue)] = Signal
         /\ \A i \in 1..Len(Queue) - 1 : Queue'[i] = Queue[i + 1]
<1>1. tasks \in Seq(Tasks) /\ frame \in Seq(Tasks) /\ Signal \in Tasks
  BY TaskKinds DEF TypeOK
<1>2. /\ frame' \in Seq(Tasks) /\ Len(frame) > 0 /\ frame[1] = Shutdown
      /\ Len(frame') = Len(frame) - 1
      /\ \A i \in 1..Len(frame) - 1 : frame'[i] = frame[i + 1]
  BY Resumed
<1>3. /\ tasks' \in Seq(Tasks)
      /\ Len(tasks') = Len(tasks) + 1 /\ tasks'[Len(tasks) + 1] = Signal
      /\ \A i \in 1..Len(tasks) : tasks'[i] = tasks[i]
  BY <1>1
<1>4. /\ Len(Queue) = Len(frame) + Len(tasks) /\ Len(frame) \in Nat /\ Len(tasks) \in Nat
      /\ \A i \in 1..Len(frame) + Len(tasks) :
           Queue[i] = IF i <= Len(frame) THEN frame[i] ELSE tasks[i - Len(frame)]
  BY <1>1, Joined DEF Queue
<1>5. /\ Len(Queue') = Len(frame') + Len(tasks')
      /\ \A i \in 1..Len(frame') + Len(tasks') :
           Queue'[i] = IF i <= Len(frame') THEN frame'[i] ELSE tasks'[i - Len(frame')]
  BY <1>2, <1>3, Joined DEF Queue
<1>6. Len(Queue) \in Nat /\ Len(Queue) > 0 /\ Queue[1] = Shutdown /\ Len(Queue') = Len(Queue)
  BY <1>2, <1>3, <1>4, <1>5
<1>7. Queue'[Len(Queue)] = Signal
  BY <1>2, <1>3, <1>4, <1>5
<1>8. ASSUME NEW i \in 1..Len(Queue) - 1
      PROVE  Queue'[i] = Queue[i + 1]
  BY <1>2, <1>3, <1>4, <1>5
<1> QED
  BY <1>6, <1>7, <1>8

(* A tick puts the loop of main_event, if it goes on, in front.            *)
LEMMA QueueOpens ==
  ASSUME TypeOK, BeginTick
  PROVE  \/ Queue' = Queue
         \/ /\ Len(Queue) \in Nat /\ Len(Queue') = Len(Queue) + 1 /\ Queue'[1] = Update
            /\ \A i \in Places : Queue'[i + 1] = Queue[i]
<1>1. tasks \in Seq(Tasks) /\ frame = <<>> /\ Update \in Tasks
  BY TaskKinds DEF TypeOK, BeginTick
<1>2. Queue = tasks
  BY <1>1, ConcatEmptySeq DEF Queue
<1>3. tasks' = <<>> /\ frame' = (IF looping THEN <<Update>> ELSE <<>>) \o tasks
  BY DEF BeginTick
<1>4. frame' \in Seq(Tasks)
  <2>1. <<>> \in Seq(Tasks) /\ <<Update>> \in Seq(Tasks)
    BY <1>1
  <2> QED
    BY <1>1, <1>3, <2>1
<1>5. Queue' = frame'
  BY <1>3, <1>4, ConcatEmptySeq DEF Queue
<1>6. CASE looping
  <2>1. <<Update>> \in Seq(Tasks) /\ Len(<<Update>>) = 1 /\ <<Update>>[1] = Update
    BY <1>1
  <2>2. Queue' = <<Update>> \o tasks
    BY <1>3, <1>5, <1>6
  <2>3. /\ Len(Queue') = 1 + Len(tasks) /\ Len(tasks) \in Nat
        /\ \A i \in 1..1 + Len(tasks) : Queue'[i] = IF i <= 1 THEN <<Update>>[i] ELSE tasks[i - 1]
    BY <1>1, <2>1, <2>2, Joined
  <2> QED
    BY <1>2, <2>1, <2>3 DEF Places
<1>7. CASE ~looping
  BY <1>1, <1>2, <1>3, <1>5, <1>7, ConcatEmptySeq
<1> QED
  BY <1>6, <1>7

-----------------------------------------------------------------------------
(* The loop, a switch, a shutdown or the signal in front is resumed: the   *)
(* others stay in their order.                                             *)
LEMMA PopShifts ==
  ASSUME NEW x, Pops(x)
  PROVE  /\ \A i \in Places' : i + 1 \in Places /\ Queue'[i] = Queue[i + 1]
         /\ \A i \in Places : Queue[i] # x => i - 1 \in Places' /\ Queue'[i - 1] = Queue[i]
         /\ 1 \in Places /\ Queue[1] = x
BY DEF Pops, Places

LEMMA PopKeepsSwitches ==
  ASSUME TypeOK, LastSwitchWins, NEW x, Pops(x), \A f \in Features : Target(f)' = Target(f),
         split \subseteq split'
  PROVE  LastSwitchWins'
<1> SUFFICES ASSUME NEW f \in Features \ split', NEW on \in BOOLEAN, NEW i \in Places',
                    Queue'[i] = Apply(f, on), on # Target(f)
             PROVE  \E k \in Places' : k > i /\ Queue'[k] = Apply(f, Target(f))
  BY DEF LastSwitchWins
<1>1. i + 1 \in Places /\ Queue[i + 1] = Apply(f, on) /\ i \in Nat
  BY PopShifts DEF Places
<1>2. PICK k \in Places : k > i + 1 /\ Queue[k] = Apply(f, Target(f))
  BY <1>1 DEF LastSwitchWins
<1>3. k - 1 \in Places' /\ k - 1 > i /\ Queue'[k - 1] = Queue[k]
  BY <1>1, <1>2 DEF Pops, Places
<1> QED
  BY <1>2, <1>3

(* Whatever but the shutdown is resumed, it stays behind the switches.     *)
LEMMA PopKeepsShutdown ==
  ASSUME TypeOK, ShutdownIsLast, NEW x, Pops(x), x # Shutdown, UNCHANGED main, split \subseteq split'
  PROVE  ShutdownIsLast'
<1>1. main = "running" \/ Cleared => \A i \in Places' : Queue'[i] # Shutdown /\ Queue'[i] # Signal
  BY PopShifts DEF ShutdownIsLast
<1>2. ASSUME NEW i \in Places', NEW k \in Places', Queue'[i] = Shutdown, Queue'[k] = Shutdown
      PROVE  i = k
  <2>1. i + 1 = k + 1
    BY <1>2, PopShifts DEF ShutdownIsLast
  <2> QED
    BY <2>1 DEF Places
<1>3. ASSUME main # "running", NEW f \in Features \ split', NEW on \in BOOLEAN, NEW i \in Places',
             Queue'[i] = Apply(f, on)
      PROVE  \E k \in Places' : k > i /\ Queue'[k] = Shutdown
  <2>1. i + 1 \in Places /\ Queue[i + 1] = Apply(f, on) /\ f \in Features \ split /\ i \in Nat
    BY <1>3, PopShifts DEF Places
  <2>2. PICK k \in Places : k > i + 1 /\ Queue[k] = Shutdown
    BY <1>3, <2>1 DEF ShutdownIsLast
  <2>3. k - 1 \in Places' /\ k - 1 > i /\ Queue'[k - 1] = Queue[k]
    BY <2>1, <2>2 DEF Pops, Places
  <2> QED
    BY <2>2, <2>3
<1>4. Cleared' <=> Cleared
  BY DEF Cleared
<1> QED
  BY <1>1, <1>2, <1>3, <1>4 DEF ShutdownIsLast

(* The shutdown is resumed: no switch it has to wait for is left.          *)
LEMMA ShutdownInFront ==
  ASSUME ShutdownIsLast, Len(Queue) \in Nat, Len(Queue) > 0, Queue[1] = Shutdown
  PROVE  /\ main # "running" /\ ~Cleared
         /\ \A i \in Places : i > 1 => Queue[i] # Shutdown
         /\ \A f \in Features \ split, on \in BOOLEAN : \A i \in Places : Queue[i] # Apply(f, on)
<1>1. 1 \in Places
  BY DEF Places
<1>2. main # "running" /\ ~Cleared
  BY <1>1 DEF ShutdownIsLast
<1>3. \A i \in Places : i > 1 => Queue[i] # Shutdown
  BY <1>1 DEF ShutdownIsLast, Places
<1>4. ASSUME NEW f \in Features \ split, NEW on \in BOOLEAN, NEW i \in Places,
             Queue[i] = Apply(f, on)
      PROVE  FALSE
  <2>1. PICK k \in Places : k > i /\ Queue[k] = Shutdown
    BY <1>2, <1>4 DEF ShutdownIsLast
  <2> QED
    BY <1>3, <2>1 DEF Places
<1> QED
  BY <1>2, <1>3, <1>4

(* Whether a switch is under way is seen in the queue.                     *)
LEMMA QueuedPlaces ==
  ASSUME TypeOK, NEW f \in Features
  PROVE  Queued(f) <=> \E on \in BOOLEAN : \E i \in Places : Queue[i] = Apply(f, on)
<1>1. frame \in Seq(Tasks) /\ tasks \in Seq(Tasks)
  BY DEF TypeOK
<1>2. DOMAIN frame = 1..Len(frame) /\ DOMAIN tasks = 1..Len(tasks)
  BY <1>1, LenProperties
<1>3. /\ Len(frame) \in Nat /\ Len(tasks) \in Nat /\ Places = 1..Len(frame) + Len(tasks)
      /\ \A i \in Places : Queue[i] = IF i <= Len(frame) THEN frame[i] ELSE tasks[i - Len(frame)]
  BY <1>1, Joined DEF Queue, Places
<1>4. ASSUME NEW on \in BOOLEAN, NEW i \in Places, Queue[i] = Apply(f, on)
      PROVE  Queued(f)
  <2>1. CASE i <= Len(frame)
    <3>1. i \in DOMAIN frame
      BY <1>2, <1>3, <2>1
    <3>2. frame[i] = Apply(f, on)
      BY <1>3, <1>4, <2>1
    <3> QED
      BY <3>1, <3>2, Zenon DEF Queued
  <2>2. CASE ~(i <= Len(frame))
    <3>1. i - Len(frame) \in DOMAIN tasks
      BY <1>2, <1>3, <2>2
    <3>2. tasks[i - Len(frame)] = Apply(f, on)
      BY <1>3, <1>4, <2>2
    <3> QED
      BY <3>1, <3>2, Zenon DEF Queued
  <2> QED
    BY <2>1, <2>2
<1>5. ASSUME Queued(f)
      PROVE  \E on \in BOOLEAN : \E i \in Places : Queue[i] = Apply(f, on)
  <2>1. PICK on \in BOOLEAN : \/ \E i \in DOMAIN tasks : tasks[i] = Apply(f, on)
                              \/ \E i \in DOMAIN frame : frame[i] = Apply(f, on)
    BY <1>5, Zenon DEF Queued
  <2>2. CASE \E i \in DOMAIN tasks : tasks[i] = Apply(f, on)
    <3>1. PICK i \in 1..Len(tasks) : tasks[i] = Apply(f, on)
      BY <1>2, <2>2
    <3>2. i + Len(frame) \in Places /\ Queue[i + Len(frame)] = Apply(f, on)
      BY <1>3, <3>1
    <3> QED
      BY <3>2
  <2>3. CASE \E i \in DOMAIN frame : frame[i] = Apply(f, on)
    <3>1. PICK i \in 1..Len(frame) : frame[i] = Apply(f, on)
      BY <1>2, <2>3
    <3>2. i \in Places /\ Queue[i] = Apply(f, on)
      BY <1>3, <3>1
    <3> QED
      BY <3>2
  <2> QED
    BY <2>1, <2>2, <2>3
<1> QED
  BY <1>4, <1>5

(* A thread is in the middle of no set_state of a feature named none.      *)
LEMMA NoSetIsNone == \A f \in Features : NoSet.feature # f
BY UnloadAssumption DEF NoSet

-----------------------------------------------------------------------------
(* set_state.                                                              *)
LEMMA OrderSetQueues ==
  ASSUME IInv, NEW t \in Threads, NEW g \in Features, SetQueues(t, g)
  PROVE  OrderInv'
<1> USE DEF mainVars, hookVars, menuVars, gameVars
<1>1. (~state[g]) \in BOOLEAN /\ Apply(g, ~state[g]) \in Tasks
  BY TaskKinds DEF IInv, TypeOK
<1>2. Adds(Apply(g, ~state[g]))
  BY <1>1, QueueAdds DEF SetQueues, IInv
<1>3. /\ \A i \in Places : i \in Places' /\ Queue'[i] = Queue[i]
      /\ Len(Queue) + 1 \in Places' /\ Queue'[Len(Queue) + 1] = Apply(g, ~state[g])
      /\ \A i \in Places' : i \in Places \/ i = Len(Queue) + 1
      /\ \A i \in Places : Len(Queue) + 1 > i
  BY <1>2 DEF Adds, Places
<1>4. /\ setting'[t].feature = g /\ setting'[t].on = ~state[g]
      /\ setting[t].feature \notin Features
      /\ \A u \in Threads : u # t => setting'[u] = setting[u]
      /\ state' = state
  BY NoSetIsNone DEF SetQueues, IInv, TypeOK
<1>5. /\ Target(g)' = ~state[g]
      /\ \A f \in Features : f # g => Target(f)' = Target(f)
  <2>1. Sets(g)'
    BY <1>4 DEF Sets
  <2>2. \A f \in Features : f # g => (Sets(f)' <=> Sets(f))
    BY <1>4 DEF Sets
  <2> QED
    BY <1>4, <2>1, <2>2 DEF Target
<1>6. UNCHANGED <<main, effect, running, pending, late, game, faulted>> /\ (Cleared' <=> Cleared)
  BY DEF SetQueues, Cleared
<1>7. /\ g \notin split' => main = "running" /\ ~Sets(g)
      /\ \A f \in Features \ split' : f # g => f \notin split
      /\ main # "running" => split \subseteq split' /\ g \in split'
  BY DEF SetQueues
<1>8. OneSets'
  <2> SUFFICES ASSUME NEW f \in Features \ split', NEW u \in Threads, setting'[u].feature = f
               PROVE  /\ setting'[u].on = ~state'[f]
                      /\ \A v \in Threads : setting'[v].feature = f => v = u
    BY DEF OneSets
  <2>1. CASE f = g
    <3>1. \A v \in Threads : setting[v].feature # g
      BY <1>7, <2>1 DEF Sets
    <3> QED
      BY <1>4, <2>1, <3>1
  <2>2. CASE f # g
    BY <1>4, <1>7, <2>2 DEF IInv, OrderInv, OneSets
  <2> QED
    BY <2>1, <2>2
<1>9. LastSwitchWins'
  <2> SUFFICES ASSUME NEW f \in Features \ split', NEW on \in BOOLEAN, NEW i \in Places',
                      Queue'[i] = Apply(f, on), on # Target(f)'
               PROVE  \E k \in Places' : k > i /\ Queue'[k] = Apply(f, Target(f)')
    BY DEF LastSwitchWins
  <2>1. i \in Places /\ Queue[i] = Apply(f, on)
    <3>1. CASE i = Len(Queue) + 1
      <4>1. Apply(f, on) = Apply(g, ~state[g])
        BY <1>3, <3>1
      <4>2. f = g /\ on = ~state[g]
        BY <1>1, <4>1, TaskKinds
      <4> QED
        BY <1>5, <4>2
    <3> QED
      BY <1>3, <3>1
  <2>2. CASE f = g
    BY <1>3, <1>5, <2>1, <2>2
  <2>3. CASE f # g
    <3>1. PICK k \in Places : k > i /\ Queue[k] = Apply(f, Target(f))
      BY <1>5, <1>7, <2>1, <2>3 DEF IInv, OrderInv, LastSwitchWins
    <3> QED
      BY <1>3, <1>5, <2>3, <3>1
  <2> QED
    BY <2>2, <2>3
<1>10. OffIsQueued'
  <2> SUFFICES ASSUME ~Cleared, NEW f \in Features \ split', f \notin faulted, effect[f], ~Target(f)'
               PROVE  \E i \in Places' : Queue'[i] = Apply(f, FALSE)
    BY <1>6 DEF OffIsQueued
  <2>1. CASE f = g
    <3>1. (~state[g]) = FALSE
      BY <1>1, <1>5, <2>1
    <3> QED
      BY <1>3, <2>1, <3>1
  <2>2. CASE f # g
    <3>1. PICK i \in Places : Queue[i] = Apply(f, FALSE)
      BY <1>5, <1>7, <2>2 DEF IInv, OrderInv, OffIsQueued
    <3> QED
      BY <1>3, <3>1
  <2> QED
    BY <2>1, <2>2
<1>11. \A i \in Places' : Queue'[i] \in {Shutdown, Signal} => i \in Places /\ Queue[i] = Queue'[i]
  BY <1>1, <1>3, TaskKinds
<1>12. ShutdownIsLast'
  <2>1. main = "running" \/ Cleared => \A i \in Places' : Queue'[i] # Shutdown /\ Queue'[i] # Signal
    BY <1>11 DEF IInv, OrderInv, ShutdownIsLast
  <2>2. \A i, k \in Places' : Queue'[i] = Shutdown /\ Queue'[k] = Shutdown => i = k
    BY <1>11 DEF IInv, OrderInv, ShutdownIsLast
  <2>3. ASSUME main # "running", NEW f \in Features \ split', NEW on \in BOOLEAN, NEW i \in Places',
               Queue'[i] = Apply(f, on)
        PROVE  \E k \in Places' : k > i /\ Queue'[k] = Shutdown
    <3>1. f # g /\ f \notin split
      BY <1>7, <2>3
    <3>2. i \in Places /\ Queue[i] = Apply(f, on)
      <4>1. Apply(f, on) # Apply(g, ~state[g])
        BY <1>1, <3>1, TaskKinds
      <4> QED
        BY <1>3, <2>3, <4>1
    <3>3. PICK k \in Places : k > i /\ Queue[k] = Shutdown
      BY <2>3, <3>1, <3>2 DEF IInv, OrderInv, ShutdownIsLast
    <3> QED
      BY <1>3, <3>3
  <2> QED
    BY <1>6, <2>1, <2>2, <2>3 DEF ShutdownIsLast
<1>13. SignalMeansOff'
  <2> SUFFICES ASSUME main # "running", ~pending \/ \E i \in Places' : Queue'[i] = Signal
               PROVE  /\ \A i \in Places' : Queue'[i] # Shutdown
                      /\ game # "round"
                      /\ \A f \in Features \ (split' \cup faulted) : ~effect[f]
    BY <1>6 DEF SignalMeansOff
  <2>1. ~pending \/ \E i \in Places : Queue[i] = Signal
    BY <1>11
  <2>2. /\ \A i \in Places : Queue[i] # Shutdown
        /\ game # "round"
        /\ \A f \in Features \ (split \cup faulted) : ~effect[f]
    BY <2>1 DEF IInv, OrderInv, SignalMeansOff
  <2> QED
    BY <1>7, <1>11, <2>2
<1>14. UnloadOrder'
  BY <1>6 DEF IInv, OrderInv, UnloadOrder
<1> QED
  BY <1>8, <1>9, <1>10, <1>12, <1>13, <1>14 DEF OrderInv

(* Steps that leave the queue and the targets as they are.                 *)
LEMMA OrderQuiet ==
  ASSUME IInv, UNCHANGED <<frame, tasks, effect, faulted, split>>, OneSets',
         \A f \in Features \ split : Target(f)' = Target(f),
         UNCHANGED pending, UnloadOrder', game' = "round" => game = "round",
         main = "running" <=> main' = "running", Cleared <=> Cleared'
  PROVE  OrderInv'
<1>1. Queue' = Queue /\ Places' = Places
  BY DEF Queue, Places
<1>2. LastSwitchWins'
  BY <1>1 DEF IInv, OrderInv, LastSwitchWins
<1>3. OffIsQueued'
  BY <1>1 DEF IInv, OrderInv, OffIsQueued
<1>4. ShutdownIsLast'
  BY <1>1 DEF IInv, OrderInv, ShutdownIsLast
<1>5. SignalMeansOff'
  BY <1>1 DEF IInv, OrderInv, SignalMeansOff
<1> QED
  BY <1>2, <1>3, <1>4, <1>5 DEF OrderInv

LEMMA SettingKept ==
  ASSUME IInv, UNCHANGED <<state, setting>>, split \subseteq split'
  PROVE  OneSets' /\ \A f \in Features : Target(f)' = Target(f) /\ (Sets(f)' <=> Sets(f))
BY DEF IInv, OrderInv, OneSets, Target, Sets

LEMMA OrderQuiets ==
  ASSUME IInv,
         \/ BeginFrame \/ EndFrame \/ Stop \/ PlainCall \/ RunOriginal \/ EndCall
         \/ Waited \/ Disable \/ Slept \/ DestroyPool \/ JoinPool \/ Leave \/ UNCHANGED vars
  PROVE  OrderInv'
<1> USE DEF mainVars, hookVars, menuVars, gameVars
<1>1. CASE \/ BeginFrame \/ EndFrame \/ Stop \/ PlainCall \/ RunOriginal \/ EndCall \/ UNCHANGED vars
  <2>1. /\ UNCHANGED <<frame, tasks, effect, faulted, split>> /\ UNCHANGED <<state, setting>>
        /\ UNCHANGED <<main, pending, late>> /\ (game' = "round" => game = "round")
    BY <1>1 DEF BeginFrame, EndFrame, Stop, PlainCall, RunOriginal, EndCall, vars
  <2>2. running' => running
    BY <1>1, Zenon DEF BeginFrame, EndFrame, Stop, PlainCall, RunOriginal, EndCall, vars
  <2>3. UnloadOrder' /\ (Cleared <=> Cleared')
    BY <2>1, <2>2 DEF IInv, OrderInv, UnloadOrder, Cleared
  <2>4. OneSets' /\ \A f \in Features : Target(f)' = Target(f)
    BY <2>1, SettingKept
  <2> QED
    BY <2>1, <2>3, <2>4, OrderQuiet
<1>2. CASE Waited \/ Disable \/ Slept \/ DestroyPool \/ JoinPool \/ Leave
  <2>1. /\ UNCHANGED <<frame, tasks, effect, faulted, split>> /\ UNCHANGED <<state, setting>>
        /\ UNCHANGED <<pending, running, game>>
    BY <1>2 DEF Waited, Disable, Slept, DestroyPool, JoinPool, Leave
  <2>2. main # "running" /\ main' # "running" /\ (Cleared <=> Cleared')
    BY <1>2 DEF Waited, Disable, Slept, DestroyPool, JoinPool, Leave, Cleared
  <2>3. main' \notin {"running", "waiting"} /\ ~late' => ~pending'
    BY <1>2 DEF Waited, Disable, Slept, DestroyPool, JoinPool, Leave, IInv, OrderInv, UnloadOrder
  <2>4. UnloadOrder'
    BY <2>1, <2>2, <2>3 DEF IInv, OrderInv, UnloadOrder
  <2>5. OneSets' /\ \A f \in Features : Target(f)' = Target(f)
    BY <2>1, SettingKept
  <2> QED
    BY <2>1, <2>2, <2>4, <2>5, OrderQuiet
<1> QED
  BY <1>1, <1>2

(* The state follows: the toggle is at what it was about to be.            *)
LEMMA OrderSetEnds ==
  ASSUME IInv, NEW t \in Threads, SetEnds(t)
  PROVE  OrderInv'
<1> USE DEF mainVars, hookVars, menuVars, gameVars
<1>1. /\ UNCHANGED <<frame, tasks, effect, faulted, split, game>>
      /\ UNCHANGED <<main, pending, late, running>>
  BY DEF SetEnds
<1>2. UnloadOrder' /\ (Cleared <=> Cleared')
  BY <1>1 DEF IInv, OrderInv, UnloadOrder, Cleared
<1>3. /\ setting[t].feature \in Features
      /\ setting'[t].feature \notin Features
      /\ \A u \in Threads : u # t => setting'[u] = setting[u]
      /\ state' = [state EXCEPT ![setting[t].feature] = setting[t].on]
  BY NoSetIsNone DEF SetEnds, IInv, TypeOK
<1>4. OneSets'
  <2> SUFFICES ASSUME NEW f \in Features \ split, NEW u \in Threads, setting'[u].feature = f
               PROVE  /\ setting'[u].on = ~state'[f]
                      /\ \A v \in Threads : setting'[v].feature = f => v = u
    BY <1>1 DEF OneSets
  <2>1. u # t /\ setting'[u] = setting[u]
    BY <1>3
  <2>2. setting[t].feature # f
    BY <2>1 DEF IInv, OrderInv, OneSets
  <2>3. state'[f] = state[f]
    BY <1>3, <2>2 DEF IInv, TypeOK
  <2> QED
    BY <1>3, <2>1, <2>3 DEF IInv, OrderInv, OneSets
<1>5. ASSUME NEW f \in Features \ split
      PROVE  Target(f)' = Target(f)
  <2>1. CASE setting[t].feature = f
    <3>1. Sets(f) /\ ~Sets(f)'
      <4>1. \A u \in Threads : u # t => setting[u].feature # f
        BY <2>1 DEF IInv, OrderInv, OneSets
      <4> QED
        BY <1>3, <2>1, <4>1 DEF Sets
    <3>2. state'[f] = ~state[f]
      BY <1>3, <2>1 DEF IInv, OrderInv, OneSets, TypeOK
    <3> QED
      BY <3>1, <3>2 DEF Target
  <2>2. CASE setting[t].feature # f
    <3>1. Sets(f)' <=> Sets(f)
      BY <1>3, <2>2 DEF Sets
    <3>2. state'[f] = state[f]
      BY <1>3, <2>2 DEF IInv, TypeOK
    <3> QED
      BY <3>1, <3>2 DEF Target
  <2> QED
    BY <2>1, <2>2
<1> QED
  BY <1>1, <1>2, <1>4, <1>5, OrderQuiet


-----------------------------------------------------------------------------
(* The game thread.                                                        *)
LEMMA OrderBeginTick ==
  ASSUME IInv, BeginTick
  PROVE  OrderInv'
<1> USE DEF mainVars, hookVars, menuVars, gameVars
<1>1. /\ UNCHANGED <<state, setting, effect, faulted, split>> /\ UNCHANGED <<main, pending, late, running>>
      /\ game' = "ticking"
  BY DEF BeginTick
<1>2. OneSets' /\ \A f \in Features : Target(f)' = Target(f)
  BY <1>1, SettingKept
<1>3. UnloadOrder' /\ (Cleared <=> Cleared')
  BY <1>1 DEF IInv, OrderInv, UnloadOrder, Cleared
<1>4. CASE Queue' = Queue
  <2>1. Places' = Places
    BY <1>4 DEF Places
  <2>2. LastSwitchWins'
    BY <1>1, <1>2, <1>4, <2>1 DEF IInv, OrderInv, LastSwitchWins
  <2>3. OffIsQueued'
    BY <1>1, <1>2, <1>3, <1>4, <2>1 DEF IInv, OrderInv, OffIsQueued
  <2>4. ShutdownIsLast' /\ SignalMeansOff'
    BY <1>1, <1>3, <1>4, <2>1 DEF IInv, OrderInv, ShutdownIsLast, SignalMeansOff
  <2> QED
    BY <1>2, <1>3, <2>2, <2>3, <2>4 DEF OrderInv
<1>5. CASE /\ Len(Queue) \in Nat /\ Len(Queue') = Len(Queue) + 1 /\ Queue'[1] = Update
           /\ \A i \in Places : Queue'[i + 1] = Queue[i]
  <2>1. /\ \A i \in Places : i + 1 \in Places' /\ Queue'[i + 1] = Queue[i] /\ i \in Nat
        /\ \A i \in Places' : Queue'[i] # Update =>
             i \in Nat /\ i - 1 \in Places /\ Queue[i - 1] = Queue'[i]
    BY <1>5 DEF Places
  <2>2. LastSwitchWins'
    <3> SUFFICES ASSUME NEW f \in Features \ split, NEW on \in BOOLEAN, NEW i \in Places',
                        Queue'[i] = Apply(f, on), on # Target(f)
                 PROVE  \E k \in Places' : k > i /\ Queue'[k] = Apply(f, Target(f))
      BY <1>1, <1>2 DEF LastSwitchWins
    <3>1. i \in Nat /\ i - 1 \in Places /\ Queue[i - 1] = Apply(f, on)
      BY <2>1, TaskKinds
    <3>2. PICK k \in Places : k > i - 1 /\ Queue[k] = Apply(f, Target(f))
      BY <3>1 DEF IInv, OrderInv, LastSwitchWins
    <3>3. k + 1 \in Places' /\ k + 1 > i /\ Queue'[k + 1] = Queue[k]
      BY <2>1, <3>1, <3>2
    <3> QED
      BY <3>2, <3>3
  <2>3. OffIsQueued'
    <3> SUFFICES ASSUME ~Cleared, NEW f \in Features \ (split \cup faulted), effect[f], ~Target(f)
                 PROVE  \E i \in Places' : Queue'[i] = Apply(f, FALSE)
      BY <1>1, <1>2, <1>3 DEF OffIsQueued
    <3>1. PICK i \in Places : Queue[i] = Apply(f, FALSE)
      BY DEF IInv, OrderInv, OffIsQueued
    <3>2. i + 1 \in Places' /\ Queue'[i + 1] = Apply(f, FALSE)
      BY <2>1, <3>1
    <3> QED
      BY <3>2
  <2>4. \A i \in Places' : Queue'[i] \in {Shutdown, Signal} =>
          i \in Nat /\ i - 1 \in Places /\ Queue[i - 1] = Queue'[i]
    BY <2>1, TaskKinds
  <2>5. ShutdownIsLast'
    <3>1. main = "running" \/ Cleared => \A i \in Places' : Queue'[i] # Shutdown /\ Queue'[i] # Signal
      BY <2>4 DEF IInv, OrderInv, ShutdownIsLast
    <3>2. ASSUME NEW i \in Places', NEW k \in Places', Queue'[i] = Shutdown, Queue'[k] = Shutdown
          PROVE  i = k
      <4>1. i - 1 = k - 1 /\ i \in Nat /\ k \in Nat
        BY <2>4, <3>2 DEF IInv, OrderInv, ShutdownIsLast
      <4> QED
        BY <4>1
    <3>3. ASSUME main # "running", NEW f \in Features \ split, NEW on \in BOOLEAN, NEW i \in Places',
                 Queue'[i] = Apply(f, on)
          PROVE  \E k \in Places' : k > i /\ Queue'[k] = Shutdown
      <4>1. i \in Nat /\ i - 1 \in Places /\ Queue[i - 1] = Apply(f, on)
        BY <2>1, <3>3, TaskKinds
      <4>2. PICK k \in Places : k > i - 1 /\ Queue[k] = Shutdown
        BY <3>3, <4>1 DEF IInv, OrderInv, ShutdownIsLast
      <4>3. k + 1 \in Places' /\ k + 1 > i /\ Queue'[k + 1] = Queue[k]
        BY <2>1, <4>1, <4>2
      <4> QED
        BY <4>2, <4>3
    <3> QED
      BY <1>1, <1>3, <3>1, <3>2, <3>3 DEF ShutdownIsLast
  <2>6. SignalMeansOff'
    <3> SUFFICES ASSUME main # "running", ~pending \/ \E i \in Places' : Queue'[i] = Signal
                 PROVE  /\ \A i \in Places' : Queue'[i] # Shutdown
                        /\ \A f \in Features \ (split \cup faulted) : ~effect[f]
      BY <1>1 DEF SignalMeansOff
    <3>1. ~pending \/ \E i \in Places : Queue[i] = Signal
      BY <2>4
    <3>2. /\ \A i \in Places : Queue[i] # Shutdown
          /\ \A f \in Features \ (split \cup faulted) : ~effect[f]
      BY <3>1 DEF IInv, OrderInv, SignalMeansOff
    <3> QED
      BY <2>4, <3>2
  <2> QED
    BY <1>2, <1>3, <2>2, <2>3, <2>5, <2>6 DEF OrderInv
<1> QED
  BY <1>4, <1>5, QueueOpens DEF IInv

(* A round begins only while the mod runs.                                 *)
LEMMA OrderRunLoop ==
  ASSUME IInv, RunLoop
  PROVE  OrderInv'
<1> USE DEF mainVars, hookVars, menuVars, gameVars
<1>1. /\ UNCHANGED <<state, setting, effect, faulted, split>>
      /\ UNCHANGED <<main, pending, late, running, tasks>>
      /\ game' = "round" => running \/ game = "round"
  BY DEF RunLoop, LoopGoesOn
<1>2. (OneSets' /\ \A f \in Features : Target(f)' = Target(f)) /\ (Cleared <=> Cleared')
  BY <1>1, SettingKept DEF Cleared
<1>3. Pops(Update) /\ game = "ticking"
  BY <1>1, QueuePops DEF RunLoop, Resumes, IInv
<1>4. LastSwitchWins'
  BY <1>1, <1>2, <1>3, PopKeepsSwitches DEF IInv, OrderInv
<1>5. ShutdownIsLast'
  BY <1>1, <1>3, PopKeepsShutdown, TaskKinds DEF IInv, OrderInv
<1>6. OffIsQueued'
  <2> SUFFICES ASSUME ~Cleared, NEW f \in Features \ (split \cup faulted), effect[f], ~Target(f)
               PROVE  \E i \in Places' : Queue'[i] = Apply(f, FALSE)
    BY <1>1, <1>2 DEF OffIsQueued
  <2>1. PICK i \in Places : Queue[i] = Apply(f, FALSE)
    BY DEF IInv, OrderInv, OffIsQueued
  <2>2. Queue[i] # Update
    BY <2>1, TaskKinds
  <2>3. i - 1 \in Places' /\ Queue'[i - 1] = Apply(f, FALSE)
    BY <1>3, <2>1, <2>2, PopShifts
  <2> QED
    BY <2>3
<1>7. SignalMeansOff'
  <2> SUFFICES ASSUME main # "running", ~pending \/ \E i \in Places' : Queue'[i] = Signal
               PROVE  /\ \A i \in Places' : Queue'[i] # Shutdown
                      /\ game' # "round"
                      /\ \A f \in Features \ (split \cup faulted) : ~effect[f]
    BY <1>1 DEF SignalMeansOff
  <2>1. ~pending \/ \E i \in Places : Queue[i] = Signal
    BY <1>3, PopShifts
  <2>2. /\ \A i \in Places : Queue[i] # Shutdown
        /\ \A f \in Features \ (split \cup faulted) : ~effect[f]
    BY <2>1 DEF IInv, OrderInv, SignalMeansOff
  <2>3. ~running
    BY DEF IInv, OrderInv, UnloadOrder
  <2>4. game' # "round"
    BY <1>1, <1>3, <2>3
  <2> QED
    BY <1>3, <2>2, <2>4, PopShifts
<1>8. UnloadOrder'
  BY <1>1, <1>2 DEF IInv, OrderInv, UnloadOrder
<1> QED
  BY <1>2, <1>4, <1>5, <1>6, <1>7, <1>8 DEF OrderInv

(* A round switches on only what its toggle says; who is in the midst of   *)
(* switching that off has the task in the queue, or is overtaken.          *)
LEMMA OrderRunFeatures ==
  ASSUME IInv, RunFeatures
  PROVE  OrderInv'
<1> USE DEF mainVars, hookVars, menuVars, gameVars
<1>1. /\ UNCHANGED <<state, setting, faulted, frame, tasks>> /\ UNCHANGED <<main, pending, late, running>>
      /\ split' = split \cup Overtaken /\ game = "round"
  BY DEF RunFeatures
<1>2. (OneSets' /\ \A f \in Features : Target(f)' = Target(f)) /\ (Cleared <=> Cleared')
  BY <1>1, SettingKept DEF Cleared
<1>3. Queue' = Queue /\ Places' = Places
  BY <1>1 DEF Queue, Places
<1>4. LastSwitchWins' /\ ShutdownIsLast'
  BY <1>1, <1>2, <1>3 DEF IInv, OrderInv, LastSwitchWins, ShutdownIsLast
<1>5. \A f \in Features : effect'[f] => effect[f] \/ state[f]
  BY DEF RunFeatures
<1>6. OffIsQueued'
  <2> SUFFICES ASSUME ~Cleared, NEW f \in Features \ (split' \cup faulted), effect'[f], ~Target(f)
               PROVE  \E i \in Places : Queue[i] = Apply(f, FALSE)
    BY <1>1, <1>2, <1>3 DEF OffIsQueued
  <2>1. CASE effect[f]
    BY <1>1, <2>1 DEF IInv, OrderInv, OffIsQueued
  <2>2. CASE state[f]
    <3>1. Sets(f) /\ Target(f) = FALSE
      BY <2>2 DEF Target
    <3>2. Queued(f)
      BY <1>1, <3>1 DEF Overtaken
    <3>3. PICK on \in BOOLEAN : \E i \in Places : Queue[i] = Apply(f, on)
      BY <3>2, QueuedPlaces DEF IInv
    <3>4. CASE on = FALSE
      BY <3>3, <3>4
    <3>5. CASE on # FALSE
      BY <1>1, <3>1, <3>3, <3>5 DEF IInv, OrderInv, LastSwitchWins
    <3> QED
      BY <3>4, <3>5
  <2> QED
    BY <1>5, <2>1, <2>2
<1>7. SignalMeansOff'
  BY <1>1, <1>3 DEF IInv, OrderInv, SignalMeansOff
<1>8. UnloadOrder'
  BY <1>1, <1>2 DEF IInv, OrderInv, UnloadOrder
<1> QED
  BY <1>2, <1>4, <1>6, <1>7, <1>8 DEF OrderInv

(* A switch is resumed, and what it leaves on it was to switch on, unless  *)
(* it faulted.                                                             *)
LEMMA OrderApply ==
  ASSUME IInv, NEW g \in Features, NEW to \in BOOLEAN, Resumes(Apply(g, to)),
         \A f \in Features : f # g => effect'[f] = effect[f] /\ (f \in faulted => f \in faulted'),
         g \notin faulted' /\ effect'[g] => to,
         UNCHANGED <<running, menuVars, tasks, looping, game, hookVars, mainVars, leaked, split, torn>>
  PROVE  OrderInv'
<1> USE DEF mainVars, hookVars, menuVars, gameVars
<1>1. (OneSets' /\ \A f \in Features : Target(f)' = Target(f)) /\ (Cleared <=> Cleared')
  BY SettingKept DEF Cleared
<1>2. Pops(Apply(g, to)) /\ Apply(g, to) # Shutdown /\ game = "ticking"
  BY QueuePops, TaskKinds DEF Resumes, IInv
<1>3. LastSwitchWins'
  BY <1>1, <1>2, PopKeepsSwitches DEF IInv, OrderInv
<1>4. ShutdownIsLast'
  BY <1>2, PopKeepsShutdown DEF IInv, OrderInv
<1>5. OffIsQueued'
  <2> SUFFICES ASSUME ~Cleared, NEW f \in Features \ (split \cup faulted'), effect'[f], ~Target(f)
               PROVE  \E i \in Places' : Queue'[i] = Apply(f, FALSE)
    BY <1>1 DEF OffIsQueued
  <2>1. Target(f) = FALSE
    BY DEF Target, IInv, TypeOK
  <2>2. \E i \in Places : Queue[i] = Apply(f, FALSE) /\ Queue[i] # Apply(g, to)
    <3>1. CASE f = g
      <4>1. to = TRUE
        BY <3>1
      <4>2. 1 \in Places /\ Queue[1] = Apply(f, TRUE) /\ TRUE # Target(f) /\ f \in Features \ split
        BY <1>2, <2>1, <3>1, <4>1, PopShifts
      <4>3. PICK k \in Places : Queue[k] = Apply(f, Target(f))
        BY <4>2 DEF IInv, OrderInv, LastSwitchWins
      <4>4. Apply(f, FALSE) # Apply(f, TRUE)
        BY TaskKinds
      <4> QED
        BY <2>1, <3>1, <4>1, <4>3, <4>4
    <3>2. CASE f # g
      <4>1. PICK k \in Places : Queue[k] = Apply(f, FALSE)
        BY <3>2 DEF IInv, OrderInv, OffIsQueued
      <4>2. Apply(f, FALSE) # Apply(g, to)
        BY <3>2, TaskKinds
      <4> QED
        BY <4>1, <4>2
    <3> QED
      BY <3>1, <3>2
  <2>3. PICK i \in Places : Queue[i] = Apply(f, FALSE) /\ Queue[i] # Apply(g, to)
    BY <2>2
  <2>4. i - 1 \in Places' /\ Queue'[i - 1] = Apply(f, FALSE)
    BY <1>2, <2>3, PopShifts
  <2> QED
    BY <2>4
<1>6. SignalMeansOff'
  <2> SUFFICES ASSUME main # "running", ~pending \/ \E i \in Places' : Queue'[i] = Signal
               PROVE  /\ \A i \in Places' : Queue'[i] # Shutdown
                      /\ \A f \in Features \ (split \cup faulted') : ~effect'[f]
    BY <1>2 DEF SignalMeansOff
  <2>1. ~pending \/ \E i \in Places : Queue[i] = Signal
    BY <1>2, PopShifts
  <2>2. /\ \A i \in Places : Queue[i] # Shutdown
        /\ \A f \in Features \ (split \cup faulted) : ~effect[f]
    BY <2>1 DEF IInv, OrderInv, SignalMeansOff
  <2>3. g \in split
    <3>1. 1 \in Places /\ Queue[1] = Apply(g, to)
      BY <1>2, PopShifts
    <3> QED
      BY <2>2, <3>1 DEF IInv, OrderInv, ShutdownIsLast
  <2> QED
    BY <1>2, <2>2, <2>3, PopShifts
<1>7. UnloadOrder'
  BY <1>1 DEF IInv, OrderInv, UnloadOrder
<1> QED
  BY <1>1, <1>3, <1>4, <1>5, <1>6, <1>7 DEF OrderInv

LEMMA OrderApplies ==
  ASSUME IInv, RunApply \/ ApplyFaults
  PROVE  OrderInv'
<1>1. CASE RunApply
  <2>1. PICK g \in Features, to \in BOOLEAN :
          /\ Resumes(Apply(g, to)) /\ effect' = Switched(g, to) /\ faulted' = faulted \ {g}
          /\ UNCHANGED <<running, menuVars, tasks, looping, game, hookVars, mainVars, leaked, split, torn>>
    BY <1>1 DEF RunApply
  <2>2. /\ effect'[g] = to
        /\ \A f \in Features : f # g => effect'[f] = effect[f] /\ (f \in faulted => f \in faulted')
    BY <2>1 DEF Switched, IInv, TypeOK
  <2> QED
    BY <2>1, <2>2, OrderApply
<1>2. CASE ApplyFaults
  <2>1. PICK g \in Features, to \in BOOLEAN :
          /\ Resumes(Apply(g, to)) /\ effect' \in {effect, Switched(g, to)}
          /\ faulted' = IF to THEN faulted ELSE faulted \cup {g}
          /\ UNCHANGED <<running, menuVars, tasks, looping, game, hookVars, mainVars, leaked, split, torn>>
    BY <1>2 DEF ApplyFaults
  <2>2. /\ g \notin faulted' => to
        /\ \A f \in Features : f # g => effect'[f] = effect[f] /\ (f \in faulted => f \in faulted')
    BY <2>1 DEF Switched, IInv, TypeOK
  <2> QED
    BY <2>1, <2>2, OrderApply
<1> QED
  BY <1>1, <1>2

(* commands::shutdown finds what is on by the state of its toggle, which   *)
(* is behind the effect only where a switch was overtaken.                 *)
LEMMA OrderRunShutdown ==
  ASSUME IInv, RunShutdown
  PROVE  OrderInv'
<1> USE DEF mainVars, hookVars, menuVars, gameVars
<1>1. /\ UNCHANGED <<main, pending, late, running, game>> /\ UNCHANGED <<state, setting>>
      /\ split' = split \cup Overtaken /\ faulted' = {f \in faulted : ~state[f]} /\ game = "ticking"
  BY DEF RunShutdown, Resumes
<1>2. (OneSets' /\ \A f \in Features : Target(f)' = Target(f)) /\ (Cleared <=> Cleared')
  BY <1>1, SettingKept DEF Cleared
<1>3. /\ Len(Queue) \in Nat /\ Len(Queue) > 0 /\ Queue[1] = Shutdown
      /\ Len(Queue') = Len(Queue) /\ Queue'[Len(Queue)] = Signal
      /\ \A i \in 1..Len(Queue) - 1 : Queue'[i] = Queue[i + 1]
  BY QueueTurns DEF RunShutdown, IInv
<1>4. /\ main # "running" /\ ~Cleared
      /\ \A i \in Places : i > 1 => Queue[i] # Shutdown
      /\ \A f \in Features \ split, on \in BOOLEAN : \A i \in Places : Queue[i] # Apply(f, on)
  BY <1>3, ShutdownInFront DEF IInv, OrderInv
<1>5. /\ \A i \in Places' : Queue'[i] # Signal => i \in Nat /\ i + 1 \in Places /\ Queue'[i] = Queue[i + 1]
      /\ \A i \in Places : i > 1 => i - 1 \in Places' /\ Queue'[i - 1] = Queue[i]
  BY <1>3 DEF Places
<1>6. LastSwitchWins'
  <2> SUFFICES ASSUME NEW f \in Features \ split', NEW on \in BOOLEAN, NEW i \in Places',
                      Queue'[i] = Apply(f, on)
               PROVE  FALSE
    BY DEF LastSwitchWins
  <2>1. i + 1 \in Places /\ Queue[i + 1] = Apply(f, on) /\ f \notin split
    BY <1>1, <1>5, TaskKinds
  <2> QED
    BY <1>4, <2>1
<1>7. ASSUME NEW f \in Features \ (split' \cup faulted')
      PROVE  ~effect'[f]
  <2> SUFFICES ASSUME effect[f], ~state[f]
               PROVE  FALSE
    BY DEF RunShutdown
  <2>1. f \notin split /\ f \notin faulted /\ f \notin Overtaken
    BY <1>1
  <2>2. ~Queued(f)
    BY <1>4, <2>1, QueuedPlaces DEF IInv
  <2>3. ~Target(f)
    BY <2>1, <2>2 DEF Overtaken, Target
  <2>4. \E i \in Places : Queue[i] = Apply(f, FALSE)
    BY <1>4, <2>1, <2>3 DEF IInv, OrderInv, OffIsQueued
  <2> QED
    BY <1>4, <2>1, <2>4
<1>8. \A i \in Places' : Queue'[i] # Shutdown
  <2> SUFFICES ASSUME NEW i \in Places', Queue'[i] = Shutdown
               PROVE  FALSE
    OBVIOUS
  <2>1. i \in Nat /\ i + 1 \in Places /\ Queue[i + 1] = Shutdown
    BY <1>5, TaskKinds
  <2>2. i > 0
    BY <1>3 DEF Places
  <2> QED
    BY <1>4, <2>1, <2>2
<1>9. ShutdownIsLast'
  <2>1. ASSUME NEW f \in Features \ split', NEW on \in BOOLEAN, NEW i \in Places', Queue'[i] = Apply(f, on)
        PROVE  FALSE
    <3>1. i + 1 \in Places /\ Queue[i + 1] = Apply(f, on) /\ f \notin split
      BY <1>1, <1>5, <2>1, TaskKinds
    <3> QED
      BY <1>4, <3>1
  <2> QED
    BY <1>1, <1>2, <1>4, <1>8, <2>1 DEF ShutdownIsLast
<1>10. SignalMeansOff' /\ OffIsQueued'
  BY <1>1, <1>7, <1>8 DEF SignalMeansOff, OffIsQueued
<1>11. UnloadOrder'
  BY <1>1, <1>2 DEF IInv, OrderInv, UnloadOrder
<1> QED
  BY <1>2, <1>6, <1>9, <1>10, <1>11 DEF OrderInv

LEMMA OrderShutdownFaults ==
  ASSUME IInv, ShutdownFaults
  PROVE  OrderInv'
<1> USE DEF mainVars, hookVars, menuVars, gameVars
<1>1. /\ UNCHANGED <<main, pending, late, running, game>> /\ UNCHANGED <<state, setting, faulted, split>>
  BY DEF ShutdownFaults
<1>2. (OneSets' /\ \A f \in Features : Target(f)' = Target(f)) /\ (Cleared <=> Cleared')
  BY <1>1, SettingKept DEF Cleared
<1>3. Pops(Shutdown)
  BY QueuePops DEF ShutdownFaults, IInv
<1>4. LastSwitchWins'
  BY <1>1, <1>2, <1>3, PopKeepsSwitches DEF IInv, OrderInv
<1>5. /\ main # "running" /\ ~Cleared
      /\ \A i \in Places : i > 1 => Queue[i] # Shutdown
      /\ \A f \in Features \ split, on \in BOOLEAN : \A i \in Places : Queue[i] # Apply(f, on)
  BY <1>3, ShutdownInFront DEF Pops, IInv, OrderInv
<1>6. \A f \in Features : effect'[f] => effect[f]
  BY DEF ShutdownFaults
<1>7. OffIsQueued'
  <2> SUFFICES ASSUME NEW f \in Features \ (split \cup faulted), effect'[f], ~Target(f)
               PROVE  FALSE
    BY <1>1, <1>2 DEF OffIsQueued
  <2>1. effect[f]
    BY <1>6
  <2>2. \E i \in Places : Queue[i] = Apply(f, FALSE)
    BY <1>5, <2>1 DEF IInv, OrderInv, OffIsQueued
  <2> QED
    BY <1>5, <2>2
<1>8. \A i \in Places' : Queue'[i] # Shutdown
  <2> SUFFICES ASSUME NEW i \in Places', Queue'[i] = Shutdown
               PROVE  FALSE
    OBVIOUS
  <2>1. i + 1 \in Places /\ Queue[i + 1] = Shutdown /\ i + 1 > 1
    BY <1>3, PopShifts DEF Places
  <2> QED
    BY <1>5, <2>1
<1>9. ShutdownIsLast'
  <2>1. ASSUME NEW f \in Features \ split, NEW on \in BOOLEAN, NEW i \in Places', Queue'[i] = Apply(f, on)
        PROVE  FALSE
    <3>1. i + 1 \in Places /\ Queue[i + 1] = Apply(f, on)
      BY <1>3, <2>1, PopShifts
    <3> QED
      BY <1>5, <3>1
  <2> QED
    BY <1>1, <1>2, <1>5, <1>8, <2>1 DEF ShutdownIsLast
<1>10. SignalMeansOff'
  <2> SUFFICES ASSUME ~pending \/ \E i \in Places' : Queue'[i] = Signal
               PROVE  FALSE
    BY <1>1 DEF SignalMeansOff
  <2>1. ~pending \/ \E i \in Places : Queue[i] = Signal
    BY <1>3, PopShifts
  <2>2. 1 \in Places /\ Queue[1] = Shutdown
    BY <1>3, PopShifts
  <2> QED
    BY <1>5, <2>1, <2>2 DEF IInv, OrderInv, SignalMeansOff
<1>11. UnloadOrder'
  BY <1>1, <1>2 DEF IInv, OrderInv, UnloadOrder
<1> QED
  BY <1>2, <1>4, <1>7, <1>9, <1>10, <1>11 DEF OrderInv

LEMMA OrderRunSignal ==
  ASSUME IInv, RunSignal
  PROVE  OrderInv'
<1> USE DEF mainVars, hookVars, menuVars, gameVars
<1>1. /\ UNCHANGED <<main, late, running, game, effect>> /\ UNCHANGED <<state, setting, faulted, split>>
  BY DEF RunSignal
<1>2. (OneSets' /\ \A f \in Features : Target(f)' = Target(f)) /\ (Cleared <=> Cleared')
  BY <1>1, SettingKept DEF Cleared
<1>3. Pops(Signal) /\ Signal # Shutdown
  BY QueuePops, TaskKinds DEF RunSignal, IInv
<1>4. LastSwitchWins'
  BY <1>1, <1>2, <1>3, PopKeepsSwitches DEF IInv, OrderInv
<1>5. ShutdownIsLast'
  BY <1>1, <1>3, PopKeepsShutdown DEF IInv, OrderInv
<1>6. 1 \in Places /\ Queue[1] = Signal
  BY <1>3, PopShifts
<1>7. main # "running"
  BY <1>6 DEF IInv, OrderInv, ShutdownIsLast
<1>8. /\ \A i \in Places : Queue[i] # Shutdown
      /\ game # "round"
      /\ \A f \in Features \ (split \cup faulted) : ~effect[f]
  BY <1>6, <1>7 DEF IInv, OrderInv, SignalMeansOff
<1>9. OffIsQueued' /\ SignalMeansOff'
  BY <1>1, <1>3, <1>8, PopShifts DEF OffIsQueued, SignalMeansOff
<1>10. pending' = FALSE
  BY DEF RunSignal
<1>11. UnloadOrder'
  BY <1>1, <1>2, <1>10 DEF IInv, OrderInv, UnloadOrder
<1> QED
  BY <1>2, <1>4, <1>5, <1>9, <1>11 DEF OrderInv

-----------------------------------------------------------------------------
(* The main thread.                                                        *)
LEMMA OrderQueueShutdown ==
  ASSUME IInv, QueueShutdown
  PROVE  OrderInv'
<1> USE DEF mainVars, hookVars, menuVars, gameVars
<1>1. OneSets' /\ \A f \in Features : Target(f)' = Target(f)
  BY SettingKept DEF QueueShutdown
<1>2. Adds(Shutdown)
  BY QueueAdds, TaskKinds DEF QueueShutdown, IInv
<1>3. /\ \A i \in Places : i \in Places' /\ Queue'[i] = Queue[i]
      /\ Len(Queue) + 1 \in Places' /\ Queue'[Len(Queue) + 1] = Shutdown
      /\ \A i \in Places' : i \in Places \/ i = Len(Queue) + 1
      /\ \A i \in Places : Len(Queue) + 1 > i
  BY <1>2 DEF Adds, Places
<1>4. /\ main = "running" /\ main' = "waiting" /\ pending' = TRUE
      /\ UNCHANGED <<late, game, split, faulted, effect>>
  BY DEF QueueShutdown
<1>5. ~Cleared /\ ~Cleared'
  BY <1>4 DEF Cleared
<1>6. \A i \in Places : Queue[i] # Shutdown /\ Queue[i] # Signal
  BY <1>4 DEF IInv, OrderInv, ShutdownIsLast
<1>7. \A f \in Features, on \in BOOLEAN : \A i \in Places' :
        Queue'[i] = Apply(f, on) => i \in Places /\ Queue[i] = Apply(f, on)
  BY <1>3, TaskKinds
<1>8. LastSwitchWins'
  <2> SUFFICES ASSUME NEW f \in Features \ split, NEW on \in BOOLEAN, NEW i \in Places',
                      Queue'[i] = Apply(f, on), on # Target(f)
               PROVE  \E k \in Places' : k > i /\ Queue'[k] = Apply(f, Target(f))
    BY <1>1, <1>4 DEF LastSwitchWins
  <2>1. PICK k \in Places : k > i /\ Queue[k] = Apply(f, Target(f))
    BY <1>7 DEF IInv, OrderInv, LastSwitchWins
  <2> QED
    BY <1>3, <2>1
<1>9. OffIsQueued'
  <2> SUFFICES ASSUME NEW f \in Features \ (split \cup faulted), effect[f], ~Target(f)
               PROVE  \E i \in Places' : Queue'[i] = Apply(f, FALSE)
    BY <1>1, <1>4 DEF OffIsQueued
  <2>1. PICK i \in Places : Queue[i] = Apply(f, FALSE)
    BY <1>5 DEF IInv, OrderInv, OffIsQueued
  <2> QED
    BY <1>3, <2>1
<1>10. ShutdownIsLast'
  <2>1. \A i \in Places' : Queue'[i] = Shutdown => i = Len(Queue) + 1
    BY <1>3, <1>6
  <2>2. ASSUME NEW f \in Features, NEW on \in BOOLEAN, NEW i \in Places', Queue'[i] = Apply(f, on)
        PROVE  \E k \in Places' : k > i /\ Queue'[k] = Shutdown
    BY <1>3, <1>7, <2>2
  <2> QED
    BY <1>4, <1>5, <2>1, <2>2 DEF ShutdownIsLast
<1>11. SignalMeansOff'
  <2>1. \A i \in Places' : Queue'[i] # Signal
    BY <1>3, <1>6, TaskKinds
  <2> QED
    BY <1>4, <2>1 DEF SignalMeansOff
<1>12. ~running'
  BY DEF QueueShutdown
<1>13. UnloadOrder'
  BY <1>4, <1>12 DEF UnloadOrder
<1> QED
  BY <1>1, <1>8, <1>9, <1>10, <1>11, <1>13 DEF OrderInv

LEMMA OrderClear ==
  ASSUME IInv, Clear
  PROVE  OrderInv'
<1> USE DEF mainVars, hookVars, menuVars, gameVars
<1>1. Places' = {}
  <2>1. Queue' = <<>> \o <<>>
    BY DEF Clear, Queue
  <2>2. Len(Queue') = 0
    BY <2>1
  <2> QED
    BY <2>2 DEF Places
<1>2. /\ main = "clearing" /\ main' = "leaving"
      /\ UNCHANGED <<late, pending, running, game, effect>> /\ UNCHANGED <<state, setting, split, faulted>>
  BY DEF Clear
<1>3. OneSets'
  BY <1>2, SettingKept
<1>4. LastSwitchWins' /\ OffIsQueued' /\ ShutdownIsLast'
  BY <1>1, <1>2 DEF LastSwitchWins, OffIsQueued, ShutdownIsLast, Cleared
<1>5. SignalMeansOff'
  BY <1>1, <1>2 DEF IInv, OrderInv, SignalMeansOff
<1>6. UnloadOrder'
  BY <1>2 DEF IInv, OrderInv, UnloadOrder
<1> QED
  BY <1>3, <1>4, <1>5, <1>6 DEF OrderInv

-----------------------------------------------------------------------------
LEMMA OrderInit == Init => IInv
<1> SUFFICES ASSUME Init PROVE IInv
  OBVIOUS
<1>1. Places = {}
  <2>1. Queue = <<>> \o <<>>
    BY DEF Init, Queue
  <2>2. Len(Queue) = 0
    BY <2>1
  <2> QED
    BY <2>2 DEF Places
<1>2. LastSwitchWins /\ ShutdownIsLast
  BY <1>1 DEF Init, LastSwitchWins, ShutdownIsLast
<1>3. \A f \in Features : ~Sets(f)
  BY NoSetIsNone DEF Init, Sets
<1>4. OneSets /\ OffIsQueued
  BY <1>3 DEF Init, OneSets, OffIsQueued, Sets, Target
<1>5. SignalMeansOff /\ UnloadOrder
  BY DEF Init, SignalMeansOff, UnloadOrder
<1> QED
  BY <1>2, <1>4, <1>5, TypeInit DEF IInv, OrderInv

LEMMA OrderStep == IInv /\ [Next]_vars => IInv'
<1> SUFFICES ASSUME IInv, [Next]_vars PROVE OrderInv'
  BY TypeStep DEF IInv
<1>1. CASE SetState
  BY <1>1, OrderSetQueues, OrderSetEnds DEF SetState
<1>2. CASE Render \/ Stop
  BY <1>2, OrderQuiets DEF Render
<1>3. CASE Game
  BY <1>3, OrderQuiets, OrderBeginTick, OrderRunLoop, OrderRunFeatures, OrderApplies,
     OrderRunShutdown, OrderShutdownFaults, OrderRunSignal DEF Game, Resume
<1>4. CASE Main
  BY <1>4, OrderQuiets, OrderQueueShutdown, OrderClear DEF Main
<1>5. CASE UNCHANGED vars
  BY <1>5, OrderQuiets
<1> QED
  BY <1>1, <1>2, <1>3, <1>4, <1>5 DEF Next

(* Every state of a run is of its type, and the tasks are in order.        *)
THEOREM TasksInOrder == Spec => []IInv
BY OrderInit, OrderStep, PTL DEF Spec

(* Switched off is off, however the switches of the two threads, the ticks *)
(* and the unload cross and whatever faults on the way, but for a feature  *)
(* whose last on_disable faulted or whose last switch was split.           *)
THEOREM OffStaysOff == Spec => []OffIsOff
<1>1. IInv => OffIsOff
  <2> SUFFICES ASSUME IInv, ~Cleared, NEW f \in Features \ (split \cup faulted),
                      ~state[f], ~Sets(f), ~Queued(f), effect[f]
               PROVE  FALSE
    BY DEF OffIsOff
  <2>1. ~Target(f)
    BY DEF Target
  <2>2. \E i \in Places : Queue[i] = Apply(f, FALSE)
    BY <2>1 DEF IInv, OrderInv, OffIsQueued
  <2> QED
    BY <2>2, QueuedPlaces DEF IInv
<1> QED
  BY <1>1, TasksInOrder, PTL

(* After an unload the game thread took part in, no feature is on but for  *)
(* one whose last on_disable faulted or whose last switch was split.       *)
THEOREM NothingIsLeft == Spec => []UnloadLeavesNothing
<1>1. IInv => UnloadLeavesNothing
  <2> SUFFICES ASSUME IInv, main \notin {"running", "waiting", "disabling"}, ~late
               PROVE  \A f \in Features \ (split \cup faulted) : ~effect[f]
    BY DEF UnloadLeavesNothing
  <2>1. ~pending /\ main # "running"
    BY DEF IInv, OrderInv, UnloadOrder
  <2> QED
    BY <2>1 DEF IInv, OrderInv, SignalMeansOff
<1> QED
  BY <1>1, TasksInOrder, PTL

=============================================================================

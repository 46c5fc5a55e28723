--------------------------- MODULE TaskMgrProofs ---------------------------
(***************************************************************************)
(* TaskMgr for any tasks, delays and bounds: its inductive invariant, the  *)
(* safety theorems that follow from it, and that it implements Scheduler.  *)
(***************************************************************************)
EXTENDS TaskMgr, SequenceTheorems, TLAPS

(* Pushes number the tasks, and cutoff tells the incoming ones from those  *)
(* a tick has taken.                                                       *)
QueueInv ==
  /\ cutoff <= pushes
  /\ \A t \in Tasks :
       /\ place[t] = "unborn" => order[t] = 0
       /\ place[t] = "incoming" => order[t] \in (cutoff + 1)..pushes
       /\ place[t] \in {"active", "erased"} => order[t] \in 1..cutoff
  /\ \A t, u \in Tasks : order[t] = order[u] /\ order[t] # 0 => t = u

(* A task the loop has not reached has not ended, and one that was not     *)
(* started is still ahead of the loop or in the queue.                     *)
LoopInv ==
  /\ pc = "idle" => todo = {}
  /\ \A t \in todo : ~Ended(t)
  /\ pc = "idle" => \A t \in Active : ~Ended(t)
  /\ pc = "run" => /\ current \in Active
                   /\ current \notin todo
                   /\ ~Ended(current)
                   /\ current \in started
  /\ \A t \in Incoming : ~Ended(t)
  /\ \A t \in faulted \cup started : place[t] \in {"active", "erased"}
  /\ \A t \in Incoming \cup Active : t \notin started => frames[t] = <<NoWake>>
  /\ \A t \in Active : t \in started \/ pc = "idle" \/ t \in todo
  /\ pc = "idle" => \A t \in Active : t \in started
  /\ \A t \in Tasks : place[t] = "erased" => t \in started /\ Ended(t)

(* The leaf of a suspended task carries the time the task asked for, and   *)
(* the running task has waited for it.                                     *)
WakeInv ==
  /\ pc = "run" => due[current] <= now
  /\ \A t \in Incoming \cup Active :
       (pc = "run" => t # current) /\ ~Ended(t) =>
         IF Leaf(t) = NoWake THEN due[t] <= now ELSE due[t] = Leaf(t)
  /\ \A t \in Tasks : place[t] = "unborn" => due[t] <= now

(* While a task runs its leaf has no wake time, so a frame that awaits or  *)
(* is returned to has none.                                                *)
ChainInv ==
  /\ OnlyLeafSleeps
  /\ pc = "run" => Leaf(current) = NoWake

IInv == TypeOK /\ QueueInv /\ LoopInv /\ WakeInv /\ ChainInv

(* Before the first push every variable has its type.                      *)
LEMMA TypeInit == Init => TypeOK
BY TaskMgrAssumption DEF Init, TypeOK, Active, WakeTime

(* Each variable keeps its type, and the loop keeps within m_tasks.        *)
LEMMA TypeStep == TypeOK /\ LoopInv /\ [Next]_vars => TypeOK'
<1> SUFFICES ASSUME TypeOK, LoopInv, [Next]_vars PROVE TypeOK'
  OBVIOUS
<1> USE TaskMgrAssumption DEF TypeOK, WakeTime, Active, queueVars, tickVars, historyVars
<1>1. ASSUME NEW t \in Tasks, Add(t) PROVE TypeOK'
  BY <1>1 DEF Add
<1>2. ASSUME TickBegin PROVE TypeOK'
  BY <1>2 DEF TickBegin, Moved, Incoming
<1>3. ASSUME NEW t \in Tasks, Pass(t) PROVE TypeOK'
  BY <1>3 DEF Pass, IsNext, Asleep
<1>4. ASSUME NEW t \in Tasks, Resume(t) PROVE TypeOK'
  BY <1>4 DEF Resume, IsNext, Asleep, Woken, SetLeaf, LoopInv, Ended, Active
<1>5. ASSUME Yield PROVE TypeOK'
  BY <1>5 DEF Yield, SetLeaf, LoopInv, Ended, Active
<1>6. ASSUME NEW d \in Delays, YieldFor(d) PROVE TypeOK'
  BY <1>6 DEF YieldFor, SetLeaf, LoopInv, Ended, Active
<1>7. ASSUME AwaitChild PROVE TypeOK'
  BY <1>7 DEF AwaitChild, LoopInv, Ended, Active
<1>8. ASSUME Return PROVE TypeOK'
  BY <1>8 DEF Return, AfterReturn, LoopInv, Ended, Active
<1>9. ASSUME Fault PROVE TypeOK'
  BY <1>9 DEF Fault
<1>10. ASSUME TickEnd PROVE TypeOK'
  BY <1>10 DEF TickEnd, Erased
<1>11. ASSUME Clock PROVE TypeOK'
  BY <1>11 DEF Clock
<1>12. CASE UNCHANGED vars
  BY <1>12 DEF vars
<1>13. QED
  BY <1>1, <1>2, <1>3, <1>4, <1>5, <1>6, <1>7, <1>8, <1>9, <1>10, <1>11, <1>12 DEF Next, Loop, Body

(* What is left of a chain once its leaf returned.                         *)
LEMMA ChainAfterReturn ==
  ASSUME NEW S, NEW s \in Seq(S), s # <<>>
  PROVE  LET rest == SubSeq(s, 1, Len(s) - 1)
         IN  /\ rest \in Seq(S)
             /\ Len(rest) = Len(s) - 1
             /\ \A i \in 1..(Len(s) - 1) : rest[i] = s[i]
             /\ Len(s) # 1 => rest # <<>>
<1> DEFINE rest == SubSeq(s, 1, Len(s) - 1)
<1>1. Len(s) \in Nat \ {0}
  BY EmptySeq
<1>2. \A i \in 1..(Len(s) - 1) : s[i] \in S
  BY <1>1, ElementOfSeq
<1>3. /\ rest \in Seq(S)
      /\ Len(rest) = Len(s) - 1
      /\ \A i \in 1..(Len(s) - 1) : rest[i] = s[i]
  <2> DEFINE n == Len(s) - 1
  <2>1. n \in Int /\ 1 \in Int /\ \A i \in 1..n : s[i] \in S
    BY <1>1, <1>2
  <2> HIDE DEF n
  <2>2. /\ SubSeq(s, 1, n) \in Seq(S)
        /\ Len(SubSeq(s, 1, n)) = IF 1 <= n THEN n - 1 + 1 ELSE 0
        /\ \A i \in 1..n - 1 + 1 : SubSeq(s, 1, n)[i] = s[1 + i - 1]
    BY <2>1, SubSeqProperties
  <2>3. \A i \in 1..n : i \in 1..n - 1 + 1 /\ 1 + i - 1 = i
    BY <2>1
  <2>4. \A i \in 1..n : SubSeq(s, 1, n)[i] = s[i]
    BY <2>2, <2>3
  <2>5. n \in Nat
    BY <1>1 DEF n
  <2>6. Len(SubSeq(s, 1, n)) = n
    BY <2>2, <2>5
  <2> QED
    BY <2>2, <2>4, <2>6 DEF n
<1>4. Len(s) # 1 => rest # <<>>
  <2>1. Len(s) # 1 => Len(rest) # 0
    BY <1>1, <1>3
  <2>2. Len(<<>>) = 0
    OBVIOUS
  <2> QED
    BY <2>1, <2>2
<1> QED
  BY <1>3, <1>4

(* Pushes and the drain of the queue keep the numbering.                   *)
LEMMA QueueStep == TypeOK /\ LoopInv /\ QueueInv /\ [Next]_vars => QueueInv'
<1> SUFFICES ASSUME TypeOK, LoopInv, QueueInv, [Next]_vars PROVE QueueInv'
  OBVIOUS
<1> USE TaskMgrAssumption DEF TypeOK, WakeTime, Active, Incoming, queueVars, tickVars, historyVars, QueueInv, LoopInv
<1>1. ASSUME NEW t \in Tasks, Add(t) PROVE QueueInv'
  <2>1. /\ pushes' = pushes + 1
        /\ cutoff' = cutoff
        /\ \A u \in Tasks : u # t => place'[u] = place[u] /\ order'[u] = order[u]
        /\ place'[t] = "incoming"
        /\ order'[t] = pushes + 1
    BY <1>1 DEF Add
  <2>2. (cutoff <= pushes)'
    BY <2>1
  <2>3. ASSUME NEW u \in Tasks PROVE order[u] <= pushes
    <3>1. place[u] \in {"unborn", "incoming", "active", "erased"}
      OBVIOUS
    <3>2. order[u] = 0 \/ order[u] \in (cutoff + 1)..pushes \/ order[u] \in 1..cutoff
      BY <3>1
    <3> QED
      BY <3>2
  <2>4. ASSUME NEW u \in Tasks
        PROVE  /\ place'[u] = "unborn" => order'[u] = 0
               /\ place'[u] = "incoming" => order'[u] \in (cutoff' + 1)..pushes'
               /\ place'[u] \in {"active", "erased"} => order'[u] \in 1..cutoff'
    <3>1. CASE u = t
      BY <3>1, <2>1
    <3>2. CASE u # t
      BY <3>2, <2>1
    <3> QED
      BY <3>1, <3>2
  <2>5. ASSUME NEW u \in Tasks, NEW v \in Tasks, order'[u] = order'[v], order'[u] # 0
        PROVE  u = v
    <3>1. CASE u # t /\ v # t
      BY <3>1, <2>1, <2>5
    <3>2. CASE u = t \/ v = t
      <4>1. order[u] <= pushes /\ order[v] <= pushes
        BY <2>3
      <4>2. u = t => v = t
        BY <4>1, <2>1, <2>5
      <4>3. v = t => u = t
        BY <4>1, <2>1, <2>5
      <4> QED
        BY <3>2, <4>2, <4>3
    <3> QED
      BY <3>1, <3>2
  <2> QED
    BY <2>2, <2>4, <2>5
<1>2. ASSUME TickBegin PROVE QueueInv'
  BY <1>2 DEF TickBegin, Moved
<1>3. ASSUME NEW t \in Tasks, Pass(t) PROVE QueueInv'
  BY <1>3 DEF Pass, IsNext, Asleep
<1>4. ASSUME NEW t \in Tasks, Resume(t) PROVE QueueInv'
  BY <1>4 DEF Resume, IsNext, Asleep, Woken, SetLeaf
<1>5. ASSUME Yield PROVE QueueInv'
  BY <1>5 DEF Yield, SetLeaf
<1>6. ASSUME NEW d \in Delays, YieldFor(d) PROVE QueueInv'
  BY <1>6 DEF YieldFor, SetLeaf
<1>7. ASSUME AwaitChild PROVE QueueInv'
  BY <1>7 DEF AwaitChild
<1>8. ASSUME Return PROVE QueueInv'
  BY <1>8 DEF Return, AfterReturn
<1>9. ASSUME Fault PROVE QueueInv'
  BY <1>9 DEF Fault
<1>10. ASSUME TickEnd PROVE QueueInv'
  BY <1>10 DEF TickEnd, Erased
<1>11. ASSUME Clock PROVE QueueInv'
  BY <1>11 DEF Clock
<1>12. CASE UNCHANGED vars
  BY <1>12 DEF vars
<1>13. QED
  BY <1>1, <1>2, <1>3, <1>4, <1>5, <1>6, <1>7, <1>8, <1>9, <1>10, <1>11, <1>12 DEF Next, Loop, Body

(* The loop keeps ahead of itself only tasks that have not ended.          *)
LEMMA LoopStep == TypeOK /\ LoopInv /\ QueueInv /\ [Next]_vars => LoopInv'
<1> SUFFICES ASSUME TypeOK, LoopInv, QueueInv, [Next]_vars PROVE LoopInv'
  OBVIOUS
<1> USE TaskMgrAssumption DEF TypeOK, WakeTime, Active, Incoming, queueVars, tickVars, historyVars, LoopInv, Ended
<1>1. ASSUME NEW t \in Tasks, Add(t) PROVE LoopInv'
  <2>1. \A u \in Tasks : u # t => place'[u] = place[u] /\ frames'[u] = frames[u]
    BY <1>1 DEF Add
  <2>2. place[t] = "unborn" /\ place'[t] = "incoming" /\ frames'[t] = <<NoWake>>
    BY <1>1 DEF Add
  <2>3. UNCHANGED <<pc, todo, current, faulted, started>>
    BY <1>1 DEF Add
  <2>4. Active' = Active /\ t \notin Active /\ Incoming' = Incoming \cup {t}
    BY <2>1, <2>2
  <2>5. t \notin faulted /\ (pc = "run" => current # t)
    BY <2>2
  <2>6. \A u \in Tasks : u # t => Ended(u)' = Ended(u)
    BY <2>1, <2>3
  <2>7. ~Ended(t)'
    BY <2>2, <2>3, <2>5
  <2>8. todo \cup Active \cup Incoming \subseteq Tasks /\ \A u \in todo \cup Active : u # t
    BY <2>4
  <2> HIDE DEF Active, Incoming, Ended
  <2>9. UNCHANGED <<faulted, started>> /\ \A u \in faulted \cup started : u # t
    BY <2>2, <2>3
  <2>a. /\ \A u \in Incoming' : ~Ended(u)'
        /\ \A u \in todo' : ~Ended(u)'
        /\ pc' = "idle" => \A u \in Active' : ~Ended(u)'
    BY <2>3, <2>4, <2>5, <2>6, <2>7, <2>8
  <2>e. pc' = "run" => ~Ended(current)'
    BY <2>3, <2>5, <2>6, current \in Tasks DEF Ended
  <2>b. \A u \in faulted' \cup started' : place'[u] \in {"active", "erased"}
    BY <2>1, <2>9
  <2>c. ASSUME NEW u \in Incoming' \cup Active', u \notin started' PROVE frames'[u] = <<NoWake>>
    <3>1. CASE u = t
      BY <3>1, <2>2
    <3>2. CASE u # t
      <4>1. u \in Incoming \cup Active /\ u \in Tasks
        BY <3>2, <2>c, <2>4 DEF Incoming, Active
      <4> QED
        BY <3>2, <4>1, <2>c, <2>1, <2>3
    <3> QED
      BY <3>1, <3>2
  <2>d. \A u \in Tasks : place'[u] = "erased" => u \in started' /\ Ended(u)'
    BY <2>1, <2>2, <2>3, <2>6
  <2> QED
    BY <2>3, <2>4, <2>a, <2>b, <2>c, <2>d, <2>e
<1>2. ASSUME TickBegin PROVE LoopInv'
  BY <1>2 DEF TickBegin, Moved
<1>3. ASSUME NEW t \in Tasks, Pass(t) PROVE LoopInv'
  <2>1. t \in todo /\ ~Ended(t) /\ t \in Active /\ Asleep(t)
    BY <1>3 DEF Pass, IsNext
  <2>2. t \in started
    BY <2>1 DEF Asleep, Leaf
  <2> QED
    BY <1>3, <2>1, <2>2 DEF Pass
<1>4. ASSUME NEW t \in Tasks, Resume(t) PROVE LoopInv'
  BY <1>4 DEF Resume, IsNext, Asleep, Woken, SetLeaf
<1>5. ASSUME Yield PROVE LoopInv'
  BY <1>5 DEF Yield, SetLeaf
<1>6. ASSUME NEW d \in Delays, YieldFor(d) PROVE LoopInv'
  BY <1>6 DEF YieldFor, SetLeaf
<1>7. ASSUME AwaitChild PROVE LoopInv'
  <2>1. frames' = [frames EXCEPT ![current] = Append(@, NoWake)] /\ current \in started
    BY <1>7 DEF AwaitChild
  <2>2. Append(frames[current], NoWake) # <<>>
    <3>1. frames[current] \in Seq(WakeTime) /\ NoWake \in WakeTime
      OBVIOUS
    <3> HIDE DEF WakeTime
    <3> QED
      BY <3>1, AppendProperties
  <2>3. UNCHANGED <<place, pc, todo, current, faulted, started>>
    BY <1>7 DEF AwaitChild
  <2>4. \A u \in Tasks : u # current => frames'[u] = frames[u]
    BY <2>1
  <2>5. \A u \in Tasks : Ended(u)' => Ended(u)
    BY <2>1, <2>2, <2>3, <2>4
  <2>6. \A u \in Tasks : u \notin started => frames'[u] = frames[u]
    BY <2>1, <2>4
  <2>7. \A u \in Tasks : place[u] = "erased" => u # current /\ Ended(u)'
    BY <2>3, <2>4, <1>7 DEF AwaitChild
  <2> HIDE DEF Ended
  <2> QED
    BY <1>7, <2>3, <2>5, <2>6, <2>7 DEF AwaitChild
<1>8. ASSUME Return PROVE LoopInv'
  <2>1. /\ pc = "run" /\ current \in Active /\ current \notin todo /\ current \in started
        /\ frames' = [frames EXCEPT ![current] = SubSeq(@, 1, Len(@) - 1)]
        /\ UNCHANGED <<place, todo, current, faulted, started>>
        /\ pc' = IF Len(frames[current]) = 1 THEN "visit" ELSE "run"
    BY <1>8 DEF Return, AfterReturn
  <2>2. \A u \in Tasks : u # current => frames'[u] = frames[u] /\ Ended(u)' = Ended(u)
    BY <2>1
  <2>3. pc' = "run" => ~Ended(current)'
    <3>1. Len(frames[current]) # 1 => SubSeq(frames[current], 1, Len(frames[current]) - 1) # <<>>
      BY <2>1, ChainAfterReturn
    <3> QED
      BY <3>1, <2>1
  <2>4. \A u \in Tasks : u \notin started => frames'[u] = frames[u]
    BY <2>1, <2>2
  <2> HIDE DEF Ended
  <2> QED
    BY <2>1, <2>2, <2>3, <2>4
<1>9. ASSUME Fault PROVE LoopInv'
  BY <1>9 DEF Fault
<1>10. ASSUME TickEnd PROVE LoopInv'
  BY <1>10 DEF TickEnd, Erased
<1>11. ASSUME Clock PROVE LoopInv'
  BY <1>11 DEF Clock
<1>12. CASE UNCHANGED vars
  BY <1>12 DEF vars
<1>13. QED
  BY <1>1, <1>2, <1>3, <1>4, <1>5, <1>6, <1>7, <1>8, <1>9, <1>10, <1>11, <1>12 DEF Next, Loop, Body

(* A task is resumed only once its leaf, and so the task, is due.          *)
LEMMA WakeStep == TypeOK /\ LoopInv /\ WakeInv /\ [Next]_vars => WakeInv'
<1> SUFFICES ASSUME TypeOK, LoopInv, WakeInv, [Next]_vars PROVE WakeInv'
  OBVIOUS
<1> USE TaskMgrAssumption DEF TypeOK, WakeTime, Active, Incoming, queueVars, tickVars, historyVars, LoopInv, WakeInv, Ended, Leaf
<1>1. ASSUME NEW t \in Tasks, Add(t) PROVE WakeInv'
  BY <1>1 DEF Add
<1>2. ASSUME TickBegin PROVE WakeInv'
  BY <1>2 DEF TickBegin, Moved
<1>3. ASSUME NEW t \in Tasks, Pass(t) PROVE WakeInv'
  BY <1>3 DEF Pass, IsNext, Asleep
<1>4. ASSUME NEW t \in Tasks, Resume(t) PROVE WakeInv'
  BY <1>4 DEF Resume, IsNext, Asleep, Woken, SetLeaf
<1>5. ASSUME Yield PROVE WakeInv'
  BY <1>5 DEF Yield, SetLeaf
<1>6. ASSUME NEW d \in Delays, YieldFor(d) PROVE WakeInv'
  BY <1>6 DEF YieldFor, SetLeaf
<1>7. ASSUME AwaitChild PROVE WakeInv'
  BY <1>7 DEF AwaitChild
<1>8. ASSUME Return PROVE WakeInv'
  BY <1>8 DEF Return, AfterReturn
<1>9. ASSUME Fault PROVE WakeInv'
  BY <1>9 DEF Fault
<1>10. ASSUME TickEnd PROVE WakeInv'
  BY <1>10 DEF TickEnd, Erased
<1>11. ASSUME Clock PROVE WakeInv'
  BY <1>11 DEF Clock
<1>12. CASE UNCHANGED vars
  BY <1>12 DEF vars
<1>13. QED
  BY <1>1, <1>2, <1>3, <1>4, <1>5, <1>6, <1>7, <1>8, <1>9, <1>10, <1>11, <1>12 DEF Next, Loop, Body

(* A frame has no wake time while it runs or awaits.                       *)
LEMMA ChainStep == TypeOK /\ LoopInv /\ ChainInv /\ [Next]_vars => ChainInv'
<1> SUFFICES ASSUME TypeOK, LoopInv, ChainInv, [Next]_vars PROVE ChainInv'
  OBVIOUS
<1> USE TaskMgrAssumption DEF TypeOK, WakeTime, Active, Incoming, queueVars, tickVars, historyVars, LoopInv, ChainInv, OnlyLeafSleeps, Ended, Leaf
<1>1. ASSUME NEW t \in Tasks, Add(t) PROVE ChainInv'
  BY <1>1 DEF Add
<1>2. ASSUME TickBegin PROVE ChainInv'
  BY <1>2 DEF TickBegin, Moved
<1>3. ASSUME NEW t \in Tasks, Pass(t) PROVE ChainInv'
  BY <1>3 DEF Pass, IsNext, Asleep
<1>4. ASSUME NEW t \in Tasks, Resume(t) PROVE ChainInv'
  BY <1>4 DEF Resume, IsNext, Asleep, Woken, SetLeaf
<1>5. ASSUME Yield PROVE ChainInv'
  BY <1>5 DEF Yield, SetLeaf
<1>6. ASSUME NEW d \in Delays, YieldFor(d) PROVE ChainInv'
  BY <1>6 DEF YieldFor, SetLeaf
<1>7. ASSUME AwaitChild PROVE ChainInv'
  BY <1>7 DEF AwaitChild
<1>8. ASSUME Return PROVE ChainInv'
  <2> DEFINE rest == SubSeq(frames[current], 1, Len(frames[current]) - 1)
  <2>1. /\ pc = "run" /\ current' = current
        /\ frames' = [frames EXCEPT ![current] = rest]
        /\ pc' = IF Len(frames[current]) = 1 THEN "visit" ELSE "run"
    BY <1>8 DEF Return, AfterReturn
  <2>2. frames[current] \in Seq(WakeTime) /\ frames[current] # <<>>
    BY <2>1
  <2>3. /\ rest \in Seq(WakeTime)
        /\ Len(rest) = Len(frames[current]) - 1
        /\ \A i \in 1..(Len(frames[current]) - 1) : rest[i] = frames[current][i]
    BY <2>2, ChainAfterReturn
  <2>4. OnlyLeafSleeps'
    BY <2>1, <2>2, <2>3
  <2>5. pc' = "run" => Leaf(current)' = NoWake
    BY <2>1, <2>2, <2>3
  <2> QED
    BY <2>4, <2>5
<1>9. ASSUME Fault PROVE ChainInv'
  BY <1>9 DEF Fault
<1>10. ASSUME TickEnd PROVE ChainInv'
  BY <1>10 DEF TickEnd, Erased
<1>11. ASSUME Clock PROVE ChainInv'
  BY <1>11 DEF Clock
<1>12. CASE UNCHANGED vars
  BY <1>12 DEF vars
<1>13. QED
  BY <1>1, <1>2, <1>3, <1>4, <1>5, <1>6, <1>7, <1>8, <1>9, <1>10, <1>11, <1>12 DEF Next, Loop, Body

(* The inductive invariant holds of every reachable state.                 *)
THEOREM Invariance == Spec => []IInv
<1>1. Init => IInv
  BY TypeInit DEF Init, IInv, QueueInv, LoopInv, WakeInv, ChainInv, OnlyLeafSleeps,
     Active, Incoming, Ended
<1>2. IInv /\ [Next]_vars => IInv'
  BY TypeStep, QueueStep, LoopStep, WakeStep, ChainStep DEF IInv
<1> QED
  BY <1>1, <1>2, PTL DEF Spec

(* Every variable has its type, and the loop stays within m_tasks.         *)
THEOREM TypeCorrect == Spec => []TypeOK
<1>1. IInv => TypeOK
  BY DEF IInv
<1> QED
  BY <1>1, Invariance, PTL

(* tick_impl never resumes a coroutine that is done, erased or was dropped *)
(* by a fault.                                                             *)
THEOREM LiveResumes == Spec => []RunsOnlyLive
<1>1. IInv => RunsOnlyLive
  BY DEF IInv, LoopInv, RunsOnlyLive, Ended, Active
<1> QED
  BY <1>1, Invariance, PTL

(* No task is resumed before the time the leaf of its chain waits for.     *)
THEOREM WaitsOut == Spec => []NoEarlyResume
<1>1. IInv => NoEarlyResume
  BY DEF IInv, WakeInv, NoEarlyResume
<1> QED
  BY <1>1, Invariance, PTL

(* async_run "queues a task for the next tick" (README), never this one.   *)
THEOREM QueuedForNextTick == Spec => []NextTickOnly
<1>1. IInv => NextTickOnly
  BY DEF IInv, TypeOK, QueueInv, LoopInv, NextTickOnly, Active
<1> QED
  BY <1>1, Invariance, PTL

(* A frame that awaits a subtask has no wake time of its own.              *)
THEOREM LeavesSleep == Spec => []OnlyLeafSleeps
<1>1. IInv => OnlyLeafSleeps
  BY DEF IInv, ChainInv
<1> QED
  BY <1>1, Invariance, PTL

(* Between ticks every task in m_tasks can still be resumed.               *)
THEOREM EndedAreErased == Spec => []ErasedWhenEnded
<1>1. IInv => ErasedWhenEnded
  BY DEF IInv, LoopInv, ErasedWhenEnded
<1> QED
  BY <1>1, Invariance, PTL

(* Tasks first run in the order they were pushed: the loop takes them in   *)
(* order, and an earlier one is either ahead of it or already started.     *)
THEOREM FirstInFirstRun == Spec => []FirstRunsInOrder
<1>1. Init => FirstRunsInOrder
  BY DEF Init, FirstRunsInOrder
<1>2. ASSUME IInv, FirstRunsInOrder, [Next]_vars PROVE FirstRunsInOrder'
  <2> USE <1>2 DEF IInv, TypeOK, queueVars, tickVars, historyVars
  <2>1. ASSUME NEW t \in Tasks, Add(t) PROVE FirstRunsInOrder'
    <3>1. \A u \in Tasks : u # t => order'[u] = order[u]
      BY <2>1 DEF Add
    <3>2. order'[t] = pushes + 1 /\ started' = started
      BY <2>1 DEF Add
    <3>3. \A u \in started : order[u] \in 1..cutoff /\ u # t
      BY <2>1 DEF Add, QueueInv, LoopInv, Incoming, Active
    <3> QED
      BY <3>1, <3>2, <3>3 DEF FirstRunsInOrder, QueueInv
  <2>2. ASSUME NEW t \in Tasks, Resume(t) PROVE FirstRunsInOrder'
    <3>1. started' = started \cup {t} /\ order' = order /\ t \in todo
      BY <2>2 DEF Resume, IsNext
    <3>2. ASSUME NEW u \in Tasks, 0 < order[u], order[u] < order[t] PROVE u \in started
      <4>1. u \notin todo
        BY <2>2, <3>2 DEF Resume, IsNext
      <4>2. order[t] <= cutoff
        BY <3>1 DEF QueueInv, Active
      <4>3. place[u] # "unborn" /\ place[u] # "incoming"
        BY <3>2, <4>2 DEF QueueInv
      <4> QED
        BY <2>2, <4>1, <4>3 DEF LoopInv, Active, Resume
    <3> QED
      BY <3>1, <3>2 DEF FirstRunsInOrder
  <2>3. ASSUME UNCHANGED <<order, started>> PROVE FirstRunsInOrder'
    BY <2>3 DEF FirstRunsInOrder
  <2>4. ASSUME NEW t \in Tasks, Pass(t) PROVE UNCHANGED <<order, started>>
    BY <2>4 DEF Pass
  <2>5. ASSUME NEW d \in Delays, YieldFor(d) PROVE UNCHANGED <<order, started>>
    BY <2>5 DEF YieldFor
  <2>6. TickBegin \/ Yield \/ AwaitChild \/ Return \/ Fault \/ TickEnd \/ Clock
          => UNCHANGED <<order, started>>
    BY DEF TickBegin, Yield, AwaitChild, Return, Fault, TickEnd, Clock
  <2>7. CASE UNCHANGED vars
    BY <2>3, <2>7 DEF vars
  <2> QED
    BY <1>2, <2>1, <2>2, <2>3, <2>4, <2>5, <2>6, <2>7 DEF Next, Loop, Body
<1> QED
  BY <1>1, <1>2, Invariance, PTL DEF Spec

-----------------------------------------------------------------------------
(* TaskMgr implements Scheduler.  Every step of the scheduler is one of    *)
(* what it promises, or shows nothing: a frame awaiting another, and one   *)
(* returning to another, are inside the turn of their task.                *)

(* Nothing is pushed, and nothing runs, at first.                          *)
LEMMA InitRefines == Init => Abstract!Init
BY DEF Init, Abstract!Init, Status

(* A task whose frames, place and history stay has the same status, when   *)
(* it neither begins nor ceases to run.                                    *)
LEMMA SameStatus ==
  ASSUME NEW u \in Tasks,
         place'[u] = place[u], frames'[u] = frames[u],
         u \in faulted' <=> u \in faulted, u \in started' <=> u \in started,
         (pc' = "run" /\ current' = u) <=> (pc = "run" /\ current = u)
  PROVE  Status(u)' = Status(u)
BY DEF Status, Ended

(* Only the task that runs has the status "running".                       *)
LEMMA WhoRuns ==
  ASSUME IInv
  PROVE  /\ pc = "run" => Abstract!With("running") = {current}
         /\ pc # "run" => Abstract!With("running") = {}
BY DEF IInv, TypeOK, LoopInv, Active, Status, Ended, Abstract!With

(* The tasks a tick takes are those queued and those suspended.            *)
LEMMA WhoIsTaken ==
  ASSUME IInv, pc = "idle"
  PROVE  Abstract!With("queued") \cup Abstract!With("suspended") = Incoming \cup Active
<1> USE DEF IInv, TypeOK
<1>1. ASSUME NEW t \in Tasks
      PROVE  Status(t) \in {"queued", "suspended"} <=> place[t] \in {"incoming", "active"}
  <2>1. CASE place[t] = "unborn"
    BY <2>1 DEF Status
  <2>2. CASE place[t] \in {"incoming", "active"}
    BY <2>2 DEF Status, LoopInv, Incoming, Active
  <2>3. CASE place[t] = "erased"
    BY <2>3 DEF Status, Ended, LoopInv
  <2> QED
    BY <2>1, <2>2, <2>3
<1> QED
  BY <1>1 DEF Abstract!With, Incoming, Active

LEMMA AddRefines ==
  ASSUME IInv, NEW t \in Tasks, Add(t)
  PROVE  Abstract!Push(t)
<1> USE DEF IInv, TypeOK
<1>1. \A u \in Tasks : u # t => Status(u)' = Status(u)
  BY SameStatus DEF Add, tickVars, historyVars
<1>2. Status(t) = "new" /\ Status(t)' = "queued"
  BY DEF Add, Status, Ended, LoopInv, Active, Incoming, tickVars, historyVars
<1> QED
  BY <1>1, <1>2 DEF Add, Abstract!Push, Abstract!Become, Abstract!With, tickVars, historyVars

LEMMA TickBeginRefines ==
  ASSUME IInv, TickBegin
  PROVE  Abstract!Open
<1> USE DEF IInv, TypeOK
<1>1. \A u \in Tasks : Status(u)' = Status(u)
  BY DEF TickBegin, Moved, Status, Ended, historyVars
<1> QED
  BY <1>1, WhoIsTaken DEF TickBegin, Abstract!Open, historyVars

LEMMA PassRefines ==
  ASSUME IInv, NEW t \in Tasks, Pass(t)
  PROVE  Abstract!PassOver(t)
<1> USE DEF IInv, TypeOK
<1>1. \A u \in Tasks : Status(u)' = Status(u)
  BY SameStatus DEF Pass, queueVars, historyVars
<1>2. t \in todo /\ ~Ended(t) /\ Leaf(t) # NoWake /\ now < Leaf(t)
  BY DEF Pass, IsNext, Asleep, LoopInv
<1>3. due[t] > now
  <2>1. due[t] = Leaf(t)
    BY <1>2 DEF WakeInv, Pass, Active
  <2> QED
    BY <1>2, <2>1
<1> QED
  BY <1>1, <1>2, <1>3 DEF Pass, Abstract!PassOver, queueVars, historyVars

LEMMA ResumeRefines ==
  ASSUME IInv, NEW t \in Tasks, Resume(t)
  PROVE  Abstract!Run(t)
<1> USE DEF IInv, TypeOK
<1>1. \A u \in Tasks : u # t => Status(u)' = Status(u)
  BY SameStatus DEF Resume, Woken, SetLeaf, queueVars
<1>2. Status(t)' = "running" /\ t \in Active /\ t \in todo
  BY DEF Resume, Status, IsNext, Active, queueVars
<1>3. due[t] <= now
  BY <1>2, TaskMgrAssumption DEF Resume, Asleep, WakeInv, WakeTime, Leaf
<1>4. ASSUME Status(t) = "queued", NEW u \in Tasks, Status(u) = "queued"
      PROVE  order[t] <= order[u]
  <2>1. u \notin started /\ place[u] \in {"incoming", "active", "erased"} /\ u \notin faulted
    BY <1>4 DEF Status, Ended
  <2>2. place[u] # "erased"
    BY <2>1 DEF LoopInv
  <2>3. CASE u \in todo
    BY <2>3 DEF Resume, IsNext
  <2>4. CASE place[u] = "incoming"
    BY <2>4, <1>2 DEF QueueInv, Active
  <2>5. CASE place[u] = "active" /\ u \notin todo
    BY <2>1, <2>5 DEF LoopInv, Active, Resume
  <2> QED
    BY <2>1, <2>2, <2>3, <2>4, <2>5
<1> QED
  BY <1>1, <1>2, <1>3, <1>4, WhoRuns DEF Resume, Abstract!Run, Abstract!Become, Abstract!With, queueVars

LEMMA YieldRefines ==
  ASSUME IInv,
         \/ Yield
         \/ \E d \in Delays : YieldFor(d)
  PROVE  Abstract!Suspend(current)
<1> USE DEF IInv, TypeOK
<1>1. PICK d \in {0} \cup Delays :
        /\ pc = "run" /\ pc' = "visit"
        /\ \E w \in WakeTime : frames' = SetLeaf(current, w)
        /\ due' = [due EXCEPT ![current] = now + d]
        /\ UNCHANGED <<queueVars, faulted, now, todo, current, started>>
  <2>1. CASE Yield
    <3>1. now = now + 0 /\ NoWake \in WakeTime
      BY DEF WakeTime
    <3> QED
      BY <2>1, <3>1 DEF Yield
  <2>2. ASSUME NEW d \in Delays, YieldFor(d)
        PROVE  \E w \in WakeTime : frames' = SetLeaf(current, w)
    BY <2>2, TaskMgrAssumption DEF YieldFor, WakeTime
  <2> QED
    BY <2>1, <2>2 DEF YieldFor
<1>2. \A u \in Tasks : u # current => Status(u)' = Status(u)
  BY <1>1, SameStatus DEF SetLeaf, queueVars
<1>3. frames'[current] # <<>> /\ current \in started /\ current \in Active /\ current \notin faulted
  BY <1>1 DEF SetLeaf, LoopInv, Ended
<1>4. Status(current)' = "suspended"
  BY <1>1, <1>3 DEF Status, Ended, Active, queueVars
<1> QED
  BY <1>1, <1>2, <1>4, WhoRuns DEF Abstract!Suspend, Abstract!Become, queueVars

(* Inside the turn of the task that runs.                                  *)
LEMMA InnerStep ==
  ASSUME IInv,
         pc = "run" /\ pc' = "run",
         \A u \in Tasks : u # current => frames'[u] = frames[u],
         UNCHANGED <<queueVars, faulted, now, todo, current, due, started>>
  PROVE  UNCHANGED Abstract!vars
<1> USE DEF IInv, TypeOK
<1>1. \A u \in Tasks : Status(u)' = Status(u)
  BY DEF Status, Ended, queueVars
<1> QED
  BY <1>1 DEF Abstract!vars, queueVars

(* The end of the turn of the task that runs, which is the task's end.     *)
LEMMA EndRefines ==
  ASSUME IInv,
         pc = "run" /\ pc' = "visit",
         \A u \in Tasks : u # current => frames'[u] = frames[u],
         frames'[current] = <<>> \/ current \in faulted',
         \A u \in Tasks : u # current => (u \in faulted' <=> u \in faulted),
         UNCHANGED <<queueVars, now, todo, current, due, started>>
  PROVE  Abstract!End(current)
<1> USE DEF IInv, TypeOK
<1>1. \A u \in Tasks : u # current => Status(u)' = Status(u)
  BY SameStatus DEF queueVars
<1>2. Status(current)' = "ended"
  BY DEF Status, Ended, LoopInv, Active, queueVars
<1> QED
  BY <1>1, <1>2, WhoRuns DEF Abstract!End, Abstract!Become, queueVars

LEMMA AwaitRefines ==
  ASSUME IInv, AwaitChild
  PROVE  UNCHANGED Abstract!vars
BY InnerStep DEF AwaitChild, tickVars, historyVars, IInv, TypeOK

LEMMA ReturnRefines ==
  ASSUME IInv, Return
  PROVE  Abstract!End(current) \/ UNCHANGED Abstract!vars
<1> USE DEF IInv, TypeOK
<1> DEFINE rest == SubSeq(frames[current], 1, Len(frames[current]) - 1)
<1>1. frames' = [frames EXCEPT ![current] = rest]
  BY DEF Return
<1>2. CASE Len(frames[current]) = 1
  <2>1. frames[current] \in Seq(WakeTime) /\ frames[current] # <<>>
    BY DEF Return, LoopInv, Ended
  <2>2. rest \in Seq(WakeTime) /\ Len(rest) = 0
    BY <1>2, <2>1, ChainAfterReturn
  <2>3. rest = <<>>
    BY <2>2, EmptySeq
  <2> QED
    BY <1>1, <1>2, <2>3, EndRefines DEF Return, AfterReturn, historyVars
<1>3. CASE Len(frames[current]) # 1
  BY <1>1, <1>3, InnerStep DEF Return, AfterReturn, historyVars
<1> QED
  BY <1>2, <1>3

LEMMA FaultRefines ==
  ASSUME IInv, Fault
  PROVE  Abstract!End(current)
BY EndRefines DEF Fault, IInv, TypeOK, queueVars, historyVars

LEMMA TickEndRefines ==
  ASSUME IInv, TickEnd
  PROVE  Abstract!Close
<1> USE DEF IInv, TypeOK
<1>1. \A u \in Tasks : Status(u)' = Status(u)
  BY DEF TickEnd, Erased, Status, Ended, historyVars
<1> QED
  BY <1>1, WhoRuns DEF TickEnd, Abstract!Close, historyVars

LEMMA ClockRefines ==
  ASSUME IInv, Clock
  PROVE  Abstract!Clock
<1> USE DEF IInv, TypeOK
<1>1. \A u \in Tasks : Status(u)' = Status(u)
  BY SameStatus DEF Clock, queueVars, tickVars, historyVars
<1> QED
  BY <1>1 DEF Clock, Abstract!Clock, queueVars, tickVars, historyVars

(* Every step is one of Scheduler's, or changes nothing it can see.        *)
LEMMA StepRefines == IInv /\ [Next]_vars => [Abstract!Next]_(Abstract!vars)
<1> SUFFICES ASSUME IInv, [Next]_vars PROVE [Abstract!Next]_(Abstract!vars)
  OBVIOUS
<1>0. current \in Tasks
  BY DEF IInv, TypeOK
<1>1. ASSUME NEW t \in Tasks, Add(t) PROVE Abstract!Next
  BY <1>1, AddRefines DEF Abstract!Next
<1>2. ASSUME TickBegin PROVE Abstract!Next
  BY <1>2, TickBeginRefines DEF Abstract!Next
<1>3. ASSUME NEW t \in Tasks, Pass(t) PROVE Abstract!Next
  BY <1>3, PassRefines DEF Abstract!Next
<1>4. ASSUME NEW t \in Tasks, Resume(t) PROVE Abstract!Next
  BY <1>4, ResumeRefines DEF Abstract!Next
<1>5. ASSUME Yield \/ \E d \in Delays : YieldFor(d) PROVE Abstract!Next
  BY <1>0, <1>5, YieldRefines DEF Abstract!Next
<1>6. ASSUME Return PROVE Abstract!Next \/ UNCHANGED Abstract!vars
  BY <1>0, <1>6, ReturnRefines DEF Abstract!Next
<1>7. ASSUME Fault PROVE Abstract!Next
  BY <1>0, <1>7, FaultRefines DEF Abstract!Next
<1>8. ASSUME TickEnd PROVE Abstract!Next
  BY <1>8, TickEndRefines DEF Abstract!Next
<1>9. ASSUME Clock PROVE Abstract!Next
  BY <1>9, ClockRefines DEF Abstract!Next
<1>10. CASE UNCHANGED vars
  BY <1>10 DEF vars, queueVars, tickVars, historyVars, Abstract!vars, Status, Ended
<1> QED
  BY <1>1, <1>2, <1>3, <1>4, <1>5, <1>6, <1>7, <1>8, <1>9, <1>10, AwaitRefines DEF Next, Loop, Body

(* The scheduler keeps what module Scheduler promises.                     *)
THEOREM Refinement == Spec => Refines
<1>1. Init => Abstract!Init
  BY InitRefines
<1>2. IInv /\ [Next]_vars => [Abstract!Next]_(Abstract!vars)
  BY StepRefines
<1> QED
  BY <1>1, <1>2, Invariance, PTL DEF Spec, Refines, Abstract!Spec

=============================================================================

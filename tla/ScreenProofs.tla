---------------------------- MODULE ScreenProofs ----------------------------
(***************************************************************************)
(* What comes on the screen.  The hand-over of ESP frames, for any number  *)
(* and size of frames: what a draw walks is the frame published last, and  *)
(* nothing the worker does meanwhile touches it.  The renderer, for any    *)
(* queues and bounds: what it draws to and waits for.  Each part has an    *)
(* inductive invariant of its own.                                         *)
(***************************************************************************)
EXTENDS TripleBuffer, Renderer, SequenceTheorems, TLAPS

-----------------------------------------------------------------------------
(* The hand-over of ESP frames.                                            *)

(* The front buffer is the last publication, a view is of the front one,   *)
(* and what the back one holds is all of the frame being built.            *)
HandOver ==
  /\ NoSharedBuffer
  /\ buffers[front] = published
  /\ OneFrameShown
  /\ DrawsWhatWasPublished
  /\ viewing => view = front
  /\ writer = "building" => \A i \in DOMAIN buffers[back] : buffers[back][i] = frame

FrameInv == FrameTypeOK /\ HandOver /\ OffLeavesNothing

(* The hand-over holds of the empty buffers the ESP starts with.           *)
LEMMA InitFrameInv == FrameInit => FrameInv
<1> SUFFICES ASSUME FrameInit PROVE FrameInv
  OBVIOUS
<1>1. <<>> \in Seq(Nat) /\ Len(<<>>) = 0 /\ DOMAIN <<>> = {}
  OBVIOUS
<1>2. FrameTypeOK
  BY <1>1 DEF FrameInit, FrameTypeOK, Index
<1>3. HandOver
  BY <1>1 DEF FrameInit, HandOver, NoSharedBuffer, OneFrameShown, DrawsWhatWasPublished, Index
<1>4. OffLeavesNothing
  BY DEF FrameInit, OffLeavesNothing
<1> QED
  BY <1>2, <1>3, <1>4 DEF FrameInv

(* An element is drawn and an element is built: the two sequences grow.    *)
LEMMA Growing ==
  ASSUME NEW s \in Seq(Nat), NEW e \in Nat
  PROVE  /\ Append(s, e) \in Seq(Nat)
         /\ Len(Append(s, e)) = Len(s) + 1
         /\ \A i \in 1..Len(s) : Append(s, e)[i] = s[i]
         /\ Append(s, e)[Len(s) + 1] = e
         /\ DOMAIN Append(s, e) = 1..(Len(s) + 1)
         /\ DOMAIN s = 1..Len(s)
BY AppendProperties, LenProperties

(* An element of a sequence of frame numbers is one.                       *)
LEMMA OneElement ==
  ASSUME NEW s \in Seq(Nat), NEW n \in Nat, n < Len(s)
  PROVE  Len(s) \in Nat /\ s[n + 1] \in Nat
BY ElementOfSeq, LenProperties

(* What the worker does keeps the hand-over: it writes only the back       *)
(* buffer until it has the lock.                                           *)
LEMMA WorkerStep == FrameInv /\ Worker => FrameInv'
<1> SUFFICES ASSUME FrameInv, Worker PROVE FrameInv'
  OBVIOUS
<1> USE TripleBufferAssumption
    DEF FrameInv, FrameTypeOK, HandOver, NoSharedBuffer, OneFrameShown, DrawsWhatWasPublished,
        OffLeavesNothing, Index, bufferVars, workerVars, readerVars
<1>1. CASE StartFrame
  BY <1>1 DEF StartFrame, Emptied
<1>2. CASE PushElement
  <2> DEFINE b == buffers[back]
  <2>1. /\ buffers' = [buffers EXCEPT ![back] = Append(b, frame)]
        /\ UNCHANGED <<front, back, spare, workerVars, enabled, g_running, readerVars, published>>
        /\ writer = "building"
    BY <1>2 DEF PushElement
  <2>2. /\ Append(b, frame) \in Seq(Nat)
        /\ \A i \in DOMAIN Append(b, frame) : Append(b, frame)[i] = frame
    <3>1. b \in Seq(Nat) /\ frame \in Nat /\ \A i \in DOMAIN b : b[i] = frame
      BY <2>1
    <3> HIDE DEF b
    <3>2. /\ Append(b, frame) \in Seq(Nat)
          /\ DOMAIN Append(b, frame) = 1..(Len(b) + 1)
          /\ \A i \in 1..Len(b) : Append(b, frame)[i] = frame
          /\ Append(b, frame)[Len(b) + 1] = frame
      BY <3>1, Growing
    <3>3. \A i \in 1..(Len(b) + 1) : i \in 1..Len(b) \/ i = Len(b) + 1
      <4>1. Len(b) \in Nat
        BY <3>1
      <4> QED
        BY <4>1
    <3> QED
      BY <3>2, <3>3
  <2> QED
    BY <2>1, <2>2
<1>3. CASE Publish
  BY <1>3 DEF Publish, PublishLock, LockFree, Rotation
<1>4. CASE BuildFault
  BY <1>4 DEF BuildFault
<1>5. CASE SwitchedOff
  <2>1. /\ ~viewing /\ writer = "suspended" /\ hadData' = FALSE /\ published' = <<>>
        /\ buffers' = [i \in Index |-> <<>>]
        /\ UNCHANGED <<front, back, spare, writer, frame, enabled, g_running, readerVars>>
    BY <1>5 DEF SwitchedOff, clear_all, AllEmptied, LockFree
  <2>2. <<>> \in Seq(Nat) /\ DOMAIN <<>> = {}
    OBVIOUS
  <2>3. FrameTypeOK'
    BY <2>1, <2>2
  <2>4. HandOver' /\ OffLeavesNothing'
    BY <2>1, <2>2
  <2> QED
    BY <2>3, <2>4
<1>6. CASE WorkerEnds
  BY <1>6 DEF WorkerEnds, clear_all, AllEmptied, LockFree
<1> QED
  BY <1>1, <1>2, <1>3, <1>4, <1>5, <1>6 DEF Worker

(* A draw keeps it: it follows the front buffer, which is the publication. *)
LEMMA ViewStep == FrameInv /\ DrawView => FrameInv'
<1> SUFFICES ASSUME FrameInv, DrawView PROVE FrameInv'
  OBVIOUS
<1> USE TripleBufferAssumption
    DEF FrameInv, FrameTypeOK, HandOver, NoSharedBuffer, OneFrameShown, DrawsWhatWasPublished,
        OffLeavesNothing, Index, bufferVars, workerVars, readerVars
<1>1. CASE BeginView
  BY <1>1 DEF BeginView
<1>2. CASE DrawElement
  <2> DEFINE e == published[pos + 1]
  <2>1. /\ viewing /\ pos < Len(published) /\ pos' = pos + 1
        /\ seen' = Append(seen, e)
        /\ UNCHANGED <<bufferVars, workerVars, enabled, g_running, viewing, view, published>>
    BY <1>2 DEF DrawElement
  <2>2. /\ pos \in Nat /\ published \in Seq(Nat) /\ seen \in Seq(Nat)
        /\ Len(seen) = pos /\ \A i \in 1..pos : seen[i] = published[i]
    BY <2>1
  <2>3. Len(published) \in Nat /\ e \in Nat
    BY <2>1, <2>2, OneElement
  <2>4. /\ seen' \in Seq(Nat) /\ Len(seen') = pos + 1
        /\ \A i \in 1..pos : seen'[i] = seen[i]
        /\ seen'[pos + 1] = e
    <3> HIDE DEF e
    <3> QED
      BY <2>1, <2>2, <2>3, Growing
  <2>5. \A i \in 1..(pos + 1) : seen'[i] = published[i]
    <3> SUFFICES ASSUME NEW i \in 1..(pos + 1) PROVE seen'[i] = published[i]
      OBVIOUS
    <3>1. i \in 1..pos \/ i = pos + 1
      BY <2>2
    <3> QED
      BY <2>2, <2>4, <3>1
  <2>6. DrawsWhatWasPublished'
    <3>1. Len(seen') = pos' /\ Len(seen') <= Len(published') /\ published' = published
      BY <2>1, <2>2, <2>3, <2>4
    <3> QED
      BY <2>1, <2>4, <2>5, <3>1
  <2>7. FrameTypeOK' /\ OffLeavesNothing'
    BY <2>1, <2>2, <2>4
  <2>8. HandOver'
    <3>1. /\ NoSharedBuffer' /\ OneFrameShown' /\ buffers'[front'] = published'
          /\ viewing' => view' = front'
      BY <2>1
    <3>2. (writer = "building" => \A i \in DOMAIN buffers[back] : buffers[back][i] = frame)'
      BY <2>1
    <3> HIDE DEF DrawsWhatWasPublished, NoSharedBuffer, OneFrameShown
    <3> QED
      BY <2>6, <3>1, <3>2
  <2> HIDE DEF FrameTypeOK, HandOver, OffLeavesNothing
  <2> QED
    BY <2>7, <2>8
<1>3. CASE EndView
  BY <1>3 DEF EndView
<1> QED
  BY <1>1, <1>2, <1>3 DEF DrawView

(* The hand-over holds of every reachable state.                           *)
THEOREM FrameInvariance == FrameSpec => []FrameInv
<1>1. FrameInv /\ [FrameNext]_frameVars => FrameInv'
  <2> SUFFICES ASSUME FrameInv, [FrameNext]_frameVars PROVE FrameInv'
    OBVIOUS
  <2> USE DEF FrameInv, FrameTypeOK, HandOver, NoSharedBuffer, OneFrameShown, DrawsWhatWasPublished,
              OffLeavesNothing, bufferVars, workerVars, readerVars
  <2>1. CASE Switch
    BY <2>1 DEF Switch
  <2>2. CASE Stop
    BY <2>2 DEF Stop
  <2>3. CASE UNCHANGED frameVars
    BY <2>3 DEF frameVars
  <2> QED
    BY <2>1, <2>2, <2>3, WorkerStep, ViewStep DEF FrameNext
<1> QED
  BY InitFrameInv, <1>1, PTL DEF FrameSpec

(* The roles stay three different buffers, and the worker never writes the *)
(* one a view holds.                                                       *)
THEOREM BuffersNotShared == FrameSpec => []NoSharedBuffer
<1>1. FrameInv => NoSharedBuffer
  BY DEF FrameInv, HandOver
<1> QED
  BY <1>1, FrameInvariance, PTL

(* Every draw walks what was last published, element by element.           *)
THEOREM DrawsPublication == FrameSpec => []DrawsWhatWasPublished
<1>1. FrameInv => DrawsWhatWasPublished
  BY DEF FrameInv, HandOver
<1> QED
  BY <1>1, FrameInvariance, PTL

(* No publication mixes two frames, also after a fault left one half built.*)
THEOREM PublishesOneFrame == FrameSpec => []OneFrameShown
<1>1. FrameInv => OneFrameShown
  BY DEF FrameInv, HandOver
<1> QED
  BY <1>1, FrameInvariance, PTL

(* With the ESP seen off, nothing of any frame is left in memory.          *)
THEOREM OffIsEmpty == FrameSpec => []OffLeavesNothing
<1>1. FrameInv => OffLeavesNothing
  BY DEF FrameInv
<1> QED
  BY <1>1, FrameInvariance, PTL

(* "Hold this guard for the entire read; publication cannot recycle its    *)
(* buffer" (triple_buffer.hpp): no step changes the buffer of a view.      *)
THEOREM ViewsAreStable == FrameSpec => ViewIsStable
<1>1. FrameInv /\ [FrameNext]_frameVars => [viewing /\ viewing' => buffers'[view] = buffers[view]]_frameVars
  <2> SUFFICES ASSUME FrameInv, [FrameNext]_frameVars, viewing, viewing' PROVE buffers'[view] = buffers[view]
    OBVIOUS
  <2> USE DEF FrameInv, FrameTypeOK, HandOver, NoSharedBuffer, bufferVars, workerVars, readerVars
  <2>1. CASE Worker
    BY <2>1 DEF Worker, StartFrame, Emptied, PushElement, Publish, PublishLock, BuildFault,
                SwitchedOff, WorkerEnds, clear_all, LockFree
  <2>2. CASE DrawView \/ Switch \/ Stop
    BY <2>2 DEF DrawView, BeginView, DrawElement, EndView, Switch, Stop
  <2>3. CASE UNCHANGED frameVars
    BY <2>3 DEF frameVars
  <2> QED
    BY <2>1, <2>2, <2>3 DEF FrameNext
<1> QED
  BY <1>1, FrameInvariance, PTL DEF FrameSpec, ViewIsStable

-----------------------------------------------------------------------------
(* The renderer.                                                           *)

(* The render thread holds the lock from its release of the targets to the *)
(* end of its call, the destructor while it waits for the GPU, and nobody  *)
(* unloads before the menu or the End key said so.                         *)
Locking ==
  /\ at \in {"fence", "draw", "drawn", "original"} => lock = {"render"}
  /\ main = "fence" => lock = {"main"}
  /\ main # "up" \/ ~hooked \/ ~alive => ~running

(* The targets are of the swapchain taken, and of its size while it is the *)
(* game's.                                                                 *)
Targets ==
  /\ owned <= chain
  /\ \A b \in targets : b[1] = owned
  /\ owned = chain => targets \subseteq {Buffers}
  /\ targets # {} => init \/ half

(* What holds between the steps of a draw, and of the making of targets.   *)
Drawing ==
  /\ at \in {"fence", "draw", "drawn"} => owned = chain
  /\ at \in {"draw", "drawn"} => targets # {}
  /\ at = "fence" => targets = {} /\ recorded = {}
  /\ at = "fence" => after = "init" \/ init

(* What holds between the steps of a resize.                               *)
Resizing ==
  /\ at \in {"resize", "original"} \/ (at = "fence" /\ after = "resize") => size < MaxResizes
  /\ at = "original" /\ after = "resize" =>
       Owns /\ targets = {} /\ recorded = {} /\ (unfenced \/ pending = {})
  /\ at = "original" /\ after = "none" => ~Owns
  /\ NeverInTheWay

(* A swapchain shows no queue but its own, and the choice is made before   *)
(* the targets are.                                                        *)
Choosing ==
  /\ shown \subseteq {own}
  /\ (init \/ (at = "fence" /\ after = "init")) /\ on12 => queue = {own} \/ guessed

(* The calls under way end before the destructor takes the lock, and what  *)
(* it released stays released.                                             *)
Unloading ==
  /\ hooked => main = "up"
  /\ main \in {"destroying", "fence", "gone"} =>
       at \in {"idle", "original"} \/ (at = "fence" /\ after = "reset")
  /\ main \in {"fence", "gone"} => at = "idle" /\ targets = {} /\ recorded = {}
  /\ main = "gone" => pending = {} \/ unfenced

IInv == TypeOK /\ Locking /\ Targets /\ Drawing /\ Resizing /\ Choosing /\ Unloading

(* The lock's three values are three.                                      *)
LEMMA LocksDiffer == {"render"} # {"main"} /\ {"render"} # {} /\ {"main"} # {}
OBVIOUS

(* The types, those of the flags and those of the rest.                    *)
Flags ==
  /\ running \in BOOLEAN /\ hooked \in BOOLEAN /\ alive \in BOOLEAN
  /\ init \in BOOLEAN /\ on12 \in BOOLEAN
  /\ guessed \in BOOLEAN /\ unfenced \in BOOLEAN /\ leaked \in BOOLEAN /\ half \in BOOLEAN
  /\ blocked \in BOOLEAN

Data ==
  /\ lock \in {{}, {"render"}, {"main"}}
  /\ at \in {"idle", "present", "fence", "draw", "drawn", "resize", "original"}
  /\ after \in {"none", "init", "draw", "resize", "reset"}
  /\ window \in {"idle", "waiting"}
  /\ main \in {"up", "sleeping", "destroying", "fence", "gone"}
  /\ owned \in 0..MaxChains
  /\ queue \subseteq Queues /\ captured \subseteq Queues
  /\ targets \subseteq BufferSets /\ recorded \subseteq BufferSets /\ pending \subseteq BufferSets
  /\ own \in Queues /\ shown \subseteq Queues
  /\ chain \in 1..MaxChains /\ size \in 1..MaxResizes
  /\ failures \in 0..MaxFailures
  /\ drawn \subseteq BufferSets

(* Neither the menu nor the End key starts the mod again.                *)
LEMMA RunningFalls ==
  ASSUME running \in BOOLEAN, running' \in {running, FALSE}
  PROVE  running' \in BOOLEAN /\ (~running => ~running')
<1>1. running' = running \/ running' = FALSE
  OBVIOUS
<1>2. CASE running' = running
  BY <1>2
<1>3. CASE running' = FALSE
  BY <1>3
<1> QED
  BY <1>1, <1>2, <1>3

(* The hooks are placed on a renderer that has drawn nothing yet.        *)
LEMMA InitIInv == Init => IInv
<1> SUFFICES ASSUME Init PROVE IInv
  OBVIOUS
<1>1. Flags
  BY DEF Init, Flags
<1>2. Data
  BY RendererAssumption DEF Init, Data, BufferSets
<1>3. Locking /\ Unloading /\ Drawing /\ Choosing
  BY DEF Init, Locking, Unloading, Drawing, Choosing
<1>4. Targets /\ Resizing
  BY DEF Init, Targets, Resizing, NeverInTheWay, Owns
<1> QED
  BY <1>1, <1>2, <1>3, <1>4 DEF IInv, TypeOK, Flags, Data

(* Each flag keeps its type.                                             *)
LEMMA FlagsStep == Flags /\ [Next]_vars => Flags'
<1> SUFFICES ASSUME Flags, [Next]_vars PROVE Flags'
  OBVIOUS
<1> USE DEF Flags, threadVars, ownVars, gpuVars, gameVars, historyVars
<1>1. CASE Present
  BY <1>1, Zenon DEF Present
<1>2. CASE BeginInit
  BY <1>2, Zenon DEF BeginInit
<1>3. CASE GiveUpFrame
  BY <1>3, Zenon DEF GiveUpFrame
<1>4. CASE BeginDraw
  BY <1>4, Zenon DEF BeginDraw
<1>5. CASE CreateTargets
  BY <1>5, Zenon DEF CreateTargets, FencePassed
<1>6. CASE CreateFails
  BY <1>6, Zenon DEF CreateFails
<1>7. CASE InitFaults
  BY <1>7, Zenon DEF InitFaults, Faulted
<1>8. CASE Draw
  BY <1>8, Zenon DEF Draw
<1>9. CASE Submit
  BY <1>9, Zenon DEF Submit
<1>10. CASE DrawFaults
  BY <1>10, Zenon DEF DrawFaults, Faulted
<1>11. CASE Resize
  BY <1>11, Zenon DEF Resize
<1>12. CASE PreReset
  BY <1>12, Zenon DEF PreReset
<1>13. CASE Released
  BY <1>13, Zenon DEF Released, FencePassed
<1>14. CASE Original
  BY <1>14, Zenon DEF Original, ResizeBuffers
<1>15. CASE PlainResize
  BY <1>15, Zenon DEF PlainResize, ResizeBuffers
<1>16. CASE Replace
  BY <1>16, Zenon DEF Replace
<1>17. CASE GpuWorks
  BY <1>17, Zenon DEF GpuWorks
<1>18. CASE Message
  BY <1>18, Zenon DEF Message
<1>19. CASE Handle
  BY <1>19, Zenon DEF Handle
<1>20. CASE Disable
  BY <1>20, Zenon DEF Disable
<1>21. CASE Slept
  BY <1>21, Zenon DEF Slept
<1>22. CASE BeginDestroy
  BY <1>22, Zenon DEF BeginDestroy
<1>23. CASE EndDestroy
  BY <1>23, Zenon DEF EndDestroy, FencePassed
<1>24. ASSUME NEW q \in Queues, CaptureQueue(q) PROVE Flags'
  BY <1>24, Zenon DEF CaptureQueue
<1>25. CASE UNCHANGED vars
  BY <1>25, Zenon DEF vars
<1> QED
  BY <1>1, <1>2, <1>3, <1>4, <1>5, <1>6, <1>7, <1>8, <1>9, <1>10, <1>11, <1>12, <1>13, <1>14,
      <1>15, <1>16, <1>17, <1>18, <1>19, <1>20, <1>21, <1>22, <1>23, <1>24, <1>25 DEF Next,
      Render, Main

(* So does the rest; a size has room to grow while a resize is under way.*)
LEMMA DataStep == Data /\ Resizing /\ [Next]_vars => Data'
<1> SUFFICES ASSUME Data, Resizing, [Next]_vars PROVE Data'
  OBVIOUS
<1> USE RendererAssumption DEF Data, Resizing, BufferSets, Buffers, threadVars, ownVars, gpuVars,
    gameVars, historyVars
<1>1. CASE BeginInit
  <2>1. Chosen \subseteq captured
    BY DEF Chosen, Candidates
  <2>2. queue' \subseteq Queues
    BY <1>1, <2>1 DEF BeginInit
  <2> QED
    BY <1>1, <2>2 DEF BeginInit, Release, Flush
<1>2. CASE BeginDraw
  BY <1>2 DEF BeginDraw, Release, Flush, Owns
<1>3. CASE CreateTargets
  BY <1>3 DEF CreateTargets, FencePassed, Fails, Created, Return
<1>4. CASE InitFaults
  BY <1>4 DEF InitFaults, Fails, Created, Faulted, Return
<1>5. CASE Draw
  BY <1>5 DEF Draw
<1>6. CASE Submit
  BY <1>6 DEF Submit, Flush, Return
<1>7. CASE DrawFaults
  BY <1>7 DEF DrawFaults, Fails, Faulted, Return
<1>8. CASE PreReset
  BY <1>8 DEF PreReset, Release, Flush, Active, Owns
<1>9. CASE Released
  BY <1>9 DEF Released, FencePassed, Fails
<1>10. CASE Original
  BY <1>10 DEF Original, ResizeBuffers, Fails, Release, Flush, Return
<1>11. CASE PlainResize
  BY <1>11 DEF PlainResize, ResizeBuffers, Fails
<1>12. CASE Handle
  BY <1>12 DEF Handle
<1>13. CASE Present \/ Resize \/ Message \/ Replace \/ GpuWorks \/ Slept
  BY <1>13 DEF Present, Resize, Message, Replace, GpuWorks, Slept
<1>14. CASE GiveUpFrame \/ CreateFails
  BY <1>14 DEF GiveUpFrame, CreateFails, Return, Fails
<1>15. CASE Disable \/ BeginDestroy \/ EndDestroy
  BY <1>15 DEF Disable, BeginDestroy, EndDestroy, Release, Flush, FencePassed, Fails
<1>16. ASSUME NEW q \in Queues, CaptureQueue(q) PROVE Data'
  BY <1>16 DEF CaptureQueue
<1>17. CASE UNCHANGED vars
  BY <1>17 DEF vars
<1> QED
  BY <1>1, <1>2, <1>3, <1>4, <1>5, <1>6, <1>7, <1>8, <1>9, <1>10, <1>11, <1>12, <1>13, <1>14,
      <1>15, <1>16, <1>17 DEF Next, Render, Main

(* Nobody takes the lock from another thread.                            *)
LEMMA LockStep == TypeOK /\ Locking /\ [Next]_vars => Locking'
<1> SUFFICES ASSUME TypeOK, Locking, [Next]_vars PROVE Locking'
  OBVIOUS
<1> USE LocksDiffer DEF TypeOK, Locking, CanLock, threadVars, ownVars, gpuVars, gameVars,
    historyVars
<1>1. CASE BeginInit
  BY <1>1 DEF BeginInit, Release, Flush
<1>2. CASE BeginDraw
  BY <1>2 DEF BeginDraw, Release, Flush, Owns
<1>3. CASE CreateTargets
  BY <1>3 DEF CreateTargets, FencePassed, Fails, Created, Return
<1>4. CASE InitFaults
  BY <1>4 DEF InitFaults, Fails, Created, Faulted, Return
<1>5. CASE Draw
  BY <1>5, RunningFalls DEF Draw
<1>6. CASE Submit
  BY <1>6 DEF Submit, Flush, Return
<1>7. CASE DrawFaults
  BY <1>7 DEF DrawFaults, Fails, Faulted, Return
<1>8. CASE PreReset
  BY <1>8 DEF PreReset, Release, Flush, Active, Owns
<1>9. CASE Released
  BY <1>9 DEF Released, FencePassed, Fails
<1>10. CASE Original
  BY <1>10 DEF Original, ResizeBuffers, Fails, Release, Flush, Return
<1>11. CASE PlainResize
  BY <1>11 DEF PlainResize, ResizeBuffers, Fails
<1>12. CASE Handle
  BY <1>12, RunningFalls DEF Handle
<1>13. CASE Present \/ Resize \/ Message \/ Replace \/ GpuWorks \/ Slept
  BY <1>13 DEF Present, Resize, Message, Replace, GpuWorks, Slept
<1>14. CASE GiveUpFrame \/ CreateFails
  BY <1>14 DEF GiveUpFrame, CreateFails, Return, Fails
<1>15. CASE Disable \/ BeginDestroy \/ EndDestroy
  BY <1>15 DEF Disable, BeginDestroy, EndDestroy, Release, Flush, FencePassed, Fails
<1>16. ASSUME NEW q \in Queues, CaptureQueue(q) PROVE Locking'
  BY <1>16 DEF CaptureQueue
<1>17. CASE UNCHANGED vars
  BY <1>17 DEF vars
<1> QED
  BY <1>1, <1>2, <1>3, <1>4, <1>5, <1>6, <1>7, <1>8, <1>9, <1>10, <1>11, <1>12, <1>13, <1>14,
      <1>15, <1>16, <1>17 DEF Next, Render, Main

(* Targets are made of what the swapchain has, and released before that   *)
(* changes.                                                              *)
LEMMA TargetStep == IInv /\ [Next]_vars => Targets'
<1> SUFFICES ASSUME IInv, [Next]_vars PROVE Targets'
  OBVIOUS
<1> USE LocksDiffer DEF IInv, TypeOK, Locking, Targets, Drawing, Resizing, CanLock, Buffers,
    Owns, threadVars, ownVars, gpuVars, gameVars, historyVars
<1>1. CASE BeginInit
  BY <1>1 DEF BeginInit, Release, Flush
<1>2. CASE BeginDraw
  BY <1>2 DEF BeginDraw, Release, Flush, Owns
<1>3. CASE CreateTargets
  BY <1>3 DEF CreateTargets, FencePassed, Fails, Created, Return
<1>4. CASE InitFaults
  BY <1>4 DEF InitFaults, Fails, Created, Faulted, Return
<1>5. CASE Draw
  BY <1>5 DEF Draw
<1>6. CASE Submit
  BY <1>6 DEF Submit, Flush, Return
<1>7. CASE DrawFaults
  BY <1>7 DEF DrawFaults, Fails, Faulted, Return
<1>8. CASE PreReset
  BY <1>8 DEF PreReset, Release, Flush, Active, Owns
<1>9. CASE Released
  BY <1>9 DEF Released, FencePassed, Fails
<1>10. CASE Original
  BY <1>10 DEF Original, ResizeBuffers, Fails, Release, Flush, Return
<1>11. CASE PlainResize
  BY <1>11 DEF PlainResize, ResizeBuffers, Fails
<1>12. CASE Handle
  BY <1>12 DEF Handle
<1>13. CASE Present \/ Resize \/ Message \/ Replace \/ GpuWorks \/ Slept
  BY <1>13 DEF Present, Resize, Message, Replace, GpuWorks, Slept
<1>14. CASE GiveUpFrame \/ CreateFails
  BY <1>14 DEF GiveUpFrame, CreateFails, Return, Fails
<1>15. CASE Disable \/ BeginDestroy \/ EndDestroy
  BY <1>15 DEF Disable, BeginDestroy, EndDestroy, Release, Flush, FencePassed, Fails
<1>16. ASSUME NEW q \in Queues, CaptureQueue(q) PROVE Targets'
  BY <1>16 DEF CaptureQueue
<1>17. CASE UNCHANGED vars
  BY <1>17 DEF vars
<1> QED
  BY <1>1, <1>2, <1>3, <1>4, <1>5, <1>6, <1>7, <1>8, <1>9, <1>10, <1>11, <1>12, <1>13, <1>14,
      <1>15, <1>16, <1>17 DEF Next, Render, Main

(* A draw, and the making of targets, keep what they rely on.            *)
LEMMA DrawStep == IInv /\ [Next]_vars => Drawing'
<1> SUFFICES ASSUME IInv, [Next]_vars PROVE Drawing'
  OBVIOUS
<1> USE LocksDiffer DEF IInv, TypeOK, Locking, Targets, Drawing, Resizing, CanLock, Buffers,
    Owns, threadVars, ownVars, gpuVars, gameVars, historyVars
<1>1. CASE BeginInit
  BY <1>1 DEF BeginInit, Release, Flush
<1>2. CASE BeginDraw
  BY <1>2 DEF BeginDraw, Release, Flush, Owns
<1>3. CASE CreateTargets
  BY <1>3 DEF CreateTargets, FencePassed, Fails, Created, Return
<1>4. CASE InitFaults
  BY <1>4 DEF InitFaults, Fails, Created, Faulted, Return
<1>5. CASE Draw
  BY <1>5 DEF Draw
<1>6. CASE Submit
  BY <1>6 DEF Submit, Flush, Return
<1>7. CASE DrawFaults
  BY <1>7 DEF DrawFaults, Fails, Faulted, Return
<1>8. CASE PreReset
  BY <1>8 DEF PreReset, Release, Flush, Active, Owns
<1>9. CASE Released
  BY <1>9 DEF Released, FencePassed, Fails
<1>10. CASE Original
  BY <1>10 DEF Original, ResizeBuffers, Fails, Release, Flush, Return
<1>11. CASE PlainResize
  BY <1>11 DEF PlainResize, ResizeBuffers, Fails
<1>12. CASE Handle
  BY <1>12 DEF Handle
<1>13. CASE Present \/ Resize \/ Message \/ Replace \/ GpuWorks \/ Slept
  BY <1>13 DEF Present, Resize, Message, Replace, GpuWorks, Slept
<1>14. CASE GiveUpFrame \/ CreateFails
  BY <1>14 DEF GiveUpFrame, CreateFails, Return, Fails
<1>15. CASE Disable \/ BeginDestroy \/ EndDestroy
  BY <1>15 DEF Disable, BeginDestroy, EndDestroy, Release, Flush, FencePassed, Fails
<1>16. ASSUME NEW q \in Queues, CaptureQueue(q) PROVE Drawing'
  BY <1>16 DEF CaptureQueue
<1>17. CASE UNCHANGED vars
  BY <1>17 DEF vars
<1> QED
  BY <1>1, <1>2, <1>3, <1>4, <1>5, <1>6, <1>7, <1>8, <1>9, <1>10, <1>11, <1>12, <1>13, <1>14,
      <1>15, <1>16, <1>17 DEF Next, Render, Main

(* A resize finds the targets released, or none of its swapchain.        *)
LEMMA ResizeStep == IInv /\ [Next]_vars => Resizing'
<1> SUFFICES ASSUME IInv, [Next]_vars PROVE Resizing'
  OBVIOUS
<1> USE LocksDiffer DEF IInv, TypeOK, Locking, Targets, Drawing, Resizing, NeverInTheWay,
    CanLock, Buffers, Owns, threadVars, ownVars, gpuVars, gameVars, historyVars
<1>1. CASE BeginInit
  BY <1>1 DEF BeginInit, Release, Flush
<1>2. CASE BeginDraw
  BY <1>2 DEF BeginDraw, Release, Flush, Owns
<1>3. CASE CreateTargets
  BY <1>3 DEF CreateTargets, FencePassed, Fails, Created, Return
<1>4. CASE InitFaults
  BY <1>4 DEF InitFaults, Fails, Created, Faulted, Return
<1>5. CASE Draw
  BY <1>5, RunningFalls DEF Draw
<1>6. CASE Submit
  BY <1>6 DEF Submit, Flush, Return
<1>7. CASE DrawFaults
  BY <1>7 DEF DrawFaults, Fails, Faulted, Return
<1>8. CASE PreReset
  BY <1>8 DEF PreReset, Release, Flush, Active, Owns
<1>9. CASE Released
  BY <1>9 DEF Released, FencePassed, Fails
<1>10. CASE Original
  <2>1. targets # {Buffers} \/ half
    <3>1. CASE after = "resize"
      BY <1>10, <3>1 DEF Original
    <3>2. CASE ~init
      BY <3>2
    <3>3. CASE owned # chain
      <4>1. Buffers \notin targets
        BY <3>3
      <4> QED
        BY <4>1
    <3> QED
      BY <1>10, <3>1, <3>2, <3>3 DEF Original
  <2>2. running' = running /\ half' = half /\ (half \/ blocked' = blocked)
    BY <1>10, <2>1 DEF Original, ResizeBuffers
  <2>3. at' # "original" /\ at' # "resize" /\ after' # "resize"
    BY <1>10 DEF Original, Return
  <2>4. NeverInTheWay'
    BY <2>2
  <2> QED
    BY <2>3, <2>4
<1>11. CASE PlainResize
  BY <1>11 DEF PlainResize, ResizeBuffers, Fails
<1>12. CASE Handle
  BY <1>12, RunningFalls DEF Handle
<1>13. CASE Present \/ Resize \/ Message \/ Replace \/ GpuWorks \/ Slept
  BY <1>13 DEF Present, Resize, Message, Replace, GpuWorks, Slept
<1>14. CASE GiveUpFrame \/ CreateFails
  BY <1>14 DEF GiveUpFrame, CreateFails, Return, Fails
<1>15. CASE Disable \/ BeginDestroy \/ EndDestroy
  BY <1>15 DEF Disable, BeginDestroy, EndDestroy, Release, Flush, FencePassed, Fails
<1>16. ASSUME NEW q \in Queues, CaptureQueue(q) PROVE Resizing'
  BY <1>16 DEF CaptureQueue
<1>17. CASE UNCHANGED vars
  BY <1>17 DEF vars
<1> QED
  BY <1>1, <1>2, <1>3, <1>4, <1>5, <1>6, <1>7, <1>8, <1>9, <1>10, <1>11, <1>12, <1>13, <1>14,
      <1>15, <1>16, <1>17 DEF Next, Render, Main

(* The destructor comes after the calls, and none begins after it.       *)
LEMMA UnloadStep == IInv /\ [Next]_vars => Unloading'
<1> SUFFICES ASSUME IInv, [Next]_vars PROVE Unloading'
  OBVIOUS
<1> USE LocksDiffer DEF IInv, TypeOK, Locking, Unloading, CanLock, threadVars, ownVars, gpuVars,
    gameVars, historyVars
<1>1. CASE BeginInit
  BY <1>1 DEF BeginInit, Release, Flush
<1>2. CASE BeginDraw
  BY <1>2 DEF BeginDraw, Release, Flush, Owns
<1>3. CASE CreateTargets
  BY <1>3 DEF CreateTargets, FencePassed, Fails, Created, Return
<1>4. CASE InitFaults
  BY <1>4 DEF InitFaults, Fails, Created, Faulted, Return
<1>5. CASE Draw
  BY <1>5 DEF Draw
<1>6. CASE Submit
  BY <1>6 DEF Submit, Flush, Return
<1>7. CASE DrawFaults
  BY <1>7 DEF DrawFaults, Fails, Faulted, Return
<1>8. CASE PreReset
  BY <1>8 DEF PreReset, Release, Flush, Active, Owns
<1>9. CASE Released
  BY <1>9 DEF Released, FencePassed, Fails
<1>10. CASE Original
  BY <1>10 DEF Original, ResizeBuffers, Fails, Release, Flush, Return
<1>11. CASE PlainResize
  BY <1>11 DEF PlainResize, ResizeBuffers, Fails
<1>12. CASE Handle
  BY <1>12 DEF Handle
<1>13. CASE Present \/ Resize \/ Message \/ Replace \/ GpuWorks \/ Slept
  BY <1>13 DEF Present, Resize, Message, Replace, GpuWorks, Slept
<1>14. CASE GiveUpFrame \/ CreateFails
  BY <1>14 DEF GiveUpFrame, CreateFails, Return, Fails
<1>15. CASE Disable \/ BeginDestroy \/ EndDestroy
  BY <1>15 DEF Disable, BeginDestroy, EndDestroy, Release, Flush, FencePassed, Fails
<1>16. ASSUME NEW q \in Queues, CaptureQueue(q) PROVE Unloading'
  BY <1>16 DEF CaptureQueue
<1>17. CASE UNCHANGED vars
  BY <1>17 DEF vars
<1> QED
  BY <1>1, <1>2, <1>3, <1>4, <1>5, <1>6, <1>7, <1>8, <1>9, <1>10, <1>11, <1>12, <1>13, <1>14,
      <1>15, <1>16, <1>17 DEF Next, Render, Main

(* A queue seen in the swapchain is the swapchain's own.                 *)
LEMMA ChooseStep == IInv /\ [Next]_vars => Choosing'
<1> SUFFICES ASSUME IInv, [Next]_vars PROVE Choosing'
  OBVIOUS
<1> USE LocksDiffer DEF IInv, TypeOK, Choosing, Chosen, Candidates, threadVars, ownVars, gpuVars,
    gameVars, historyVars
<1>1. CASE BeginInit
  BY <1>1 DEF BeginInit, Release, Flush
<1>2. CASE BeginDraw
  BY <1>2 DEF BeginDraw, Release, Flush, Owns
<1>3. CASE CreateTargets
  BY <1>3 DEF CreateTargets, FencePassed, Fails, Created, Return
<1>4. CASE InitFaults
  BY <1>4 DEF InitFaults, Fails, Created, Faulted, Return
<1>5. CASE Draw
  BY <1>5 DEF Draw
<1>6. CASE Submit
  BY <1>6 DEF Submit, Flush, Return
<1>7. CASE DrawFaults
  BY <1>7 DEF DrawFaults, Fails, Faulted, Return
<1>8. CASE PreReset
  BY <1>8 DEF PreReset, Release, Flush, Active, Owns
<1>9. CASE Released
  BY <1>9 DEF Released, FencePassed, Fails
<1>10. CASE Original
  BY <1>10 DEF Original, ResizeBuffers, Fails, Release, Flush, Return
<1>11. CASE PlainResize
  BY <1>11 DEF PlainResize, ResizeBuffers, Fails
<1>12. CASE Handle
  BY <1>12 DEF Handle
<1>13. CASE Present \/ Resize \/ Message \/ Replace \/ GpuWorks \/ Slept
  BY <1>13 DEF Present, Resize, Message, Replace, GpuWorks, Slept
<1>14. CASE GiveUpFrame \/ CreateFails
  BY <1>14 DEF GiveUpFrame, CreateFails, Return, Fails
<1>15. CASE Disable \/ BeginDestroy \/ EndDestroy
  BY <1>15 DEF Disable, BeginDestroy, EndDestroy, Release, Flush, FencePassed, Fails
<1>16. ASSUME NEW q \in Queues, CaptureQueue(q) PROVE Choosing'
  BY <1>16 DEF CaptureQueue
<1>17. CASE UNCHANGED vars
  BY <1>17 DEF vars
<1> QED
  BY <1>1, <1>2, <1>3, <1>4, <1>5, <1>6, <1>7, <1>8, <1>9, <1>10, <1>11, <1>12, <1>13, <1>14,
      <1>15, <1>16, <1>17 DEF Next, Render, Main

(* The inductive invariant holds of every reachable state.               *)
THEOREM Invariance == Spec => []IInv
<1>1. TypeOK /\ Resizing /\ [Next]_vars => TypeOK'
  <2>1. TypeOK <=> Flags /\ Data
    BY DEF TypeOK, Flags, Data
  <2>2. TypeOK' <=> Flags' /\ Data'
    BY DEF TypeOK, Flags, Data
  <2> QED
    BY <2>1, <2>2, FlagsStep, DataStep
<1>2. IInv /\ [Next]_vars => IInv'
  BY <1>1, LockStep, TargetStep, DrawStep, ResizeStep, UnloadStep, ChooseStep DEF IInv
<1> QED
  BY InitIInv, <1>2, PTL DEF Spec

(* Every variable has its type: no call resizes beyond the bounds.       *)
THEOREM TypeCorrect == Spec => []TypeOK
<1>1. IInv => TypeOK
  BY DEF IInv
<1> QED
  BY <1>1, Invariance, PTL

(* The overlay draws on the buffers the swapchain has, under the lock,   *)
(* whatever resizes and swapchains came and failed before.               *)
THEOREM DrawsOnCurrent == Spec => []DrawsCurrent
<1>1. IInv => DrawsCurrent
  BY DEF IInv, Targets, Drawing, Locking, DrawsCurrent
<1> QED
  BY <1>1, Invariance, PTL

(* No draw of the overlay's is left when the game's ResizeBuffers runs.  *)
THEOREM ResizesWhenIdle == Spec => []IdleAtResize
<1>1. IInv => IdleAtResize
  BY DEF IInv, Resizing, IdleAtResize
<1> QED
  BY <1>1, Invariance, PTL

(* The overlay's references make no ResizeBuffers of the game's fail,    *)
(* except in an unload or after a fault inside init.                     *)
THEOREM StaysOutOfTheWay == Spec => []NeverInTheWay
<1>1. IInv => NeverInTheWay
  BY DEF IInv, Resizing
<1> QED
  BY <1>1, Invariance, PTL

(* The queue submitted on is the swapchain's, unless it was guessed.     *)
THEOREM SubmitsOnItsQueue == Spec => []RightQueue
<1>1. IInv => RightQueue
  BY DEF IInv, Choosing, RightQueue
<1> QED
  BY <1>1, Invariance, PTL

(* ~renderer leaves no reference to a buffer, nothing recorded and nothing*)
(* on the GPU behind, unless no fence could be had.                      *)
LeavesNothing ==
  main = "gone" => targets = {} /\ recorded = {} /\ (pending = {} \/ unfenced)

(* Once the renderer is destroyed, no call brings targets or draws back. *)
THEOREM DestroyedWhenIdle == Spec => []LeavesNothing
<1>1. IInv => LeavesNothing
  BY DEF IInv, Unloading, LeavesNothing
<1> QED
  BY <1>1, Invariance, PTL

=============================================================================

---------------------------- MODULE TripleBuffer ----------------------------
(***************************************************************************)
(* The hand-over of ESP frames from the game thread to the render thread:  *)
(* class/triple_buffer.hpp, the worker of events/entity_event.cpp that     *)
(* fills it and the draw of menu/esp/esp.cpp that reads it.                *)
(*                                                                         *)
(* The worker fills the back buffer without the lock, element by element,  *)
(* and may fault half way; publish rotates the buffers under the lock.  A  *)
(* draw holds the lock from the view's construction to its end, and walks  *)
(* the front buffer meanwhile.  The three buffers of the ESP, the radar    *)
(* and the grenade path are alike, so one stands for each.  An element is  *)
(* the number of the frame that made it.                                   *)
(***************************************************************************)
EXTENDS Naturals, Sequences

CONSTANTS
  MaxFrames,  \* bound: frames the worker starts
  MaxSize     \* bound: elements of a frame

ASSUME TripleBufferAssumption == MaxFrames \in Nat /\ MaxSize \in Nat

VARIABLES
  buffers,   \* m_buffers
  front,     \* m_front_index
  back,      \* m_back_index
  spare,     \* m_spare_index
  writer,    \* the worker: suspended between updates, building a frame, or ended
  frame,     \* the number of the frame it builds or built last
  hadData,   \* had_data of entity_event::run
  enabled,   \* the state of the ESP toggle
  g_running, \* the mod is not unloading
  viewing,   \* the render thread holds a view, and with it m_mutex
  view,      \* the index of the buffer of its view
  pos,       \* the elements of its view it has drawn
  published, \* history: what the last publication or clear_all handed over
  seen       \* history: the elements drawn from the current view

bufferVars == <<buffers, front, back, spare>>
workerVars == <<writer, frame, hadData>>
readerVars == <<viewing, view, pos, seen>>
frameVars  == <<bufferVars, workerVars, enabled, g_running, readerVars, published>>

Index == 0..2

(* m_mutex is held by the reader from the view to its end; publish and     *)
(* clear_all take it for one step.                                         *)
LockFree == ~viewing

FrameInit ==
  /\ buffers = [i \in Index |-> <<>>]
  /\ front = 0
  /\ back = 1
  /\ spare = 2
  /\ writer = "suspended"
  /\ frame = 0
  /\ hadData = FALSE
  /\ enabled \in BOOLEAN
  /\ g_running = TRUE
  /\ viewing = FALSE
  /\ view = 0
  /\ pos = 0
  /\ published = <<>>
  /\ seen = <<>>

-----------------------------------------------------------------------------
Emptied(i) == [buffers EXCEPT ![i] = <<>>]

(* Mutant of Rotation: it goes the wrong way round.                        *)
Rotation_Reversed == <<spare, front, back>>

(* back -> front, spare -> back, front -> spare.                           *)
Rotation == <<back, spare, front>>

(* Mutant of PublishLock: publish does not take m_mutex.                   *)
PublishLock_None == TRUE

PublishLock == LockFree

(* Mutant of AllEmptied: only the front buffer is emptied.                 *)
AllEmptied_Front == [buffers EXCEPT ![front] = <<>>]

AllEmptied == [i \in Index |-> <<>>]

clear_all ==
  /\ LockFree
  /\ buffers' = AllEmptied
  /\ published' = <<>>
  /\ UNCHANGED <<front, back, spare>>

-----------------------------------------------------------------------------
(* run resumes with the ESP on: build_frame starts from an empty back.     *)
StartFrame ==
  /\ writer = "suspended"
  /\ g_running
  /\ enabled
  /\ frame < MaxFrames
  /\ writer' = "building"
  /\ frame' = frame + 1
  /\ buffers' = Emptied(back)
  /\ UNCHANGED <<front, back, spare, hadData, enabled, g_running, readerVars, published>>

(* back.push_back(...).                                                    *)
PushElement ==
  /\ writer = "building"
  /\ Len(buffers[back]) < MaxSize
  /\ buffers' = [buffers EXCEPT ![back] = Append(@, frame)]
  /\ UNCHANGED <<front, back, spare, workerVars, enabled, g_running, readerVars, published>>

(* publish, at the end of build_frame.                                     *)
Publish ==
  /\ writer = "building"
  /\ PublishLock
  /\ front' = Rotation[1]
  /\ back' = Rotation[2]
  /\ spare' = Rotation[3]
  /\ buffers' = [buffers EXCEPT ![back'] = <<>>]
  /\ published' = buffers[back]
  /\ writer' = "suspended"
  /\ hadData' = TRUE
  /\ UNCHANGED <<frame, enabled, g_running, readerVars>>

(* build_frame_guarded catches a fault: the frame is left unpublished.     *)
BuildFault ==
  /\ writer = "building"
  /\ writer' = "suspended"
  /\ hadData' = TRUE
  /\ UNCHANGED <<bufferVars, frame, enabled, g_running, readerVars, published>>

(* run resumes with the ESP off and something left from when it was on.    *)
SwitchedOff ==
  /\ writer = "suspended"
  /\ g_running
  /\ ~enabled
  /\ hadData
  /\ clear_all
  /\ hadData' = FALSE
  /\ UNCHANGED <<writer, frame, enabled, g_running, readerVars>>

(* run resumes after g_running went: the buffers are given back.           *)
WorkerEnds ==
  /\ writer = "suspended"
  /\ ~g_running
  /\ clear_all
  /\ writer' = "ended"
  /\ UNCHANGED <<frame, hadData, enabled, g_running, readerVars>>

-----------------------------------------------------------------------------
(* draw_esp with the toggle on: view() locks and looks up the front.       *)
BeginView ==
  /\ ~viewing
  /\ enabled
  /\ viewing' = TRUE
  /\ view' = front
  /\ pos' = 0
  /\ seen' = <<>>
  /\ UNCHANGED <<bufferVars, workerVars, enabled, g_running, published>>

(* The loop over the view.                                                 *)
DrawElement ==
  /\ viewing
  /\ pos < Len(buffers[view])
  /\ pos' = pos + 1
  /\ seen' = Append(seen, buffers[view][pos + 1])
  /\ UNCHANGED <<bufferVars, workerVars, enabled, g_running, viewing, view, published>>

(* The end of the loop, where the view goes and with it the lock.          *)
EndView ==
  /\ viewing
  /\ pos >= Len(buffers[view])
  /\ viewing' = FALSE
  /\ UNCHANGED <<bufferVars, workerVars, enabled, g_running, view, pos, seen, published>>

(* The menu switches the ESP.                                              *)
Switch ==
  /\ enabled' = ~enabled
  /\ UNCHANGED <<bufferVars, workerVars, g_running, readerVars, published>>

(* Unload.                                                                 *)
Stop ==
  /\ g_running
  /\ g_running' = FALSE
  /\ UNCHANGED <<bufferVars, workerVars, enabled, readerVars, published>>

Worker == StartFrame \/ PushElement \/ Publish \/ BuildFault \/ SwitchedOff \/ WorkerEnds
DrawView == BeginView \/ DrawElement \/ EndView
FrameNext == Worker \/ DrawView \/ Switch \/ Stop

FrameSpec == FrameInit /\ [][FrameNext]_frameVars

-----------------------------------------------------------------------------
(* Each variable has its type, and the three roles are three buffers.      *)
FrameTypeOK ==
  /\ buffers \in [Index -> Seq(Nat)]
  /\ front \in Index /\ back \in Index /\ spare \in Index
  /\ writer \in {"suspended", "building", "ended"}
  /\ frame \in Nat
  /\ hadData \in BOOLEAN
  /\ enabled \in BOOLEAN
  /\ g_running \in BOOLEAN
  /\ viewing \in BOOLEAN
  /\ view \in Index
  /\ pos \in Nat
  /\ published \in Seq(Nat)
  /\ seen \in Seq(Nat)

(* The worker writes the back buffer without the lock, so the buffer a     *)
(* view holds is never the back one, nor one of two roles.                 *)
NoSharedBuffer ==
  /\ front # back /\ back # spare /\ spare # front
  /\ viewing => view # back

(* A draw shows exactly what was last published: no element of a frame     *)
(* that is still being built or that faulted, none twice, none of another  *)
(* frame, even as the worker goes on meanwhile.                            *)
DrawsWhatWasPublished ==
  viewing => /\ Len(seen) = pos
             /\ Len(seen) <= Len(published)
             /\ \A i \in 1..Len(seen) : seen[i] = published[i]

(* A publication is of one frame only.                                     *)
OneFrameShown == \A i, j \in DOMAIN published : published[i] = published[j]

(* The buffer a view holds does not change until the view ends ("Hold this *)
(* guard for the entire read; publication cannot recycle its buffer").     *)
ViewIsStable ==
  [][viewing /\ viewing' => buffers'[view] = buffers[view]]_frameVars

(* Once the worker has seen the ESP off, none of the three buffers keeps   *)
(* an element, also not one of a frame that faulted.                       *)
OffLeavesNothing ==
  writer # "building" /\ ~hadData => \A i \in Index : buffers[i] = <<>>

=============================================================================

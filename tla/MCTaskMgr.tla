----------------------------- MODULE MCTaskMgr -----------------------------
(* TaskMgr on a small instance: three tasks, one of which may sleep while  *)
(* another is pushed, nested, ended or lost to a fault.                    *)
EXTENDS TaskMgr
=============================================================================

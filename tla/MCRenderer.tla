----------------------------- MODULE MCRenderer -----------------------------
(* Renderer on a small instance: two direct queues, a second swapchain,    *)
(* one resize that succeeds and one failure, at any place.                 *)
EXTENDS Renderer
=============================================================================

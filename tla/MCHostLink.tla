----------------------------- MODULE MCHostLink -----------------------------
(* HostLink on a small instance: a client and its host.  Clients meet only *)
(* in the broadcast of Accept Client Requests.                             *)
EXTENDS HostLink
=============================================================================

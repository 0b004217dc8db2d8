----------------------------- MODULE MCPluginLink -----------------------------
(* The block machine and the mempool machine over one connection. *)
EXTENDS PluginLink

Machines == {"block", "mempool"}
=============================================================================

---------------------------- MODULE MCVmLifecycle -----------------------------
(***************************************************************************)
(* The requests VmLifecycle is checked with.                               *)
(***************************************************************************)
EXTENDS VmLifecycle

\* Every combination of network, filesystem and mounts.
AllRequests == Request
=============================================================================

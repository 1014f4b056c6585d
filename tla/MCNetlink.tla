----------------------------- MODULE MCNetlink -----------------------------
(* Small instances of Netlink for TLC: safety and liveness bounds differ.   *)
EXTENDS Netlink
=============================================================================

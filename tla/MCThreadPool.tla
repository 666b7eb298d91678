---------------------------- MODULE MCThreadPool ----------------------------
(***************************************************************************)
(* ThreadPool for TLC: three workers, two slots, so that the ring fills    *)
(* and wraps, and two users that may destroy the pool.                     *)
(***************************************************************************)
EXTENDS ThreadPool
==============================================================================

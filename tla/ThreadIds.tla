----------------------------- MODULE ThreadIds -----------------------------
(* Threads, as module Threads and the monitor of SynchList name them.      *)

CONSTANTS
  Thread,      \* the Thread objects
  NoThread     \* the NULL pointer to a thread
=============================================================================

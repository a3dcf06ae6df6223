------------------------------ MODULE MCKernel ------------------------------
(***************************************************************************)
(* Four threads, either on the processor with a device's semaphore and one *)
(* between threads, or appending to a SynchList and removing from it as    *)
(* they like.  subject says which; the variables of the other keep their   *)
(* first values.                                                           *)
(***************************************************************************)
EXTENDS Threads, SynchList

CONSTANTS main, a, b, c, dev, mutex

MCThread == {main, a, b, c}
MCSem == {dev, mutex}
MCDeviceSem == {dev}
MCInitValue == [s \in MCSem |-> IF s = mutex THEN 1 ELSE 0]

VARIABLE subject

kernelVars == <<subject, vars, listVars>>

KernelInit == subject \in {"threads", "list"} /\ Init /\ ListInit

\* All threads may wait for an item that nobody appends.
KernelNext ==
  \/ subject = "threads" /\ Next /\ UNCHANGED <<subject, listVars>>
  \/ subject = "list" /\ ListNext /\ UNCHANGED <<subject, vars>>
  \/ subject = "list" /\ UNCHANGED kernelVars

KernelSpec ==
  /\ KernelInit /\ [][KernelNext]_kernelVars
  /\ ThreadFairness /\ Fairness
=============================================================================

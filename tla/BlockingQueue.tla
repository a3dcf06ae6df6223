--------------------------- MODULE BlockingQueue ---------------------------
(***************************************************************************)
(* What a SynchList promises its callers: a FIFO list of items, where      *)
(* RemoveFront waits until there is an item and takes the oldest one.      *)
(* kernel->putData and getData, and the two receiving threads of the       *)
(* Ethernet layer, rely on nothing else.                                   *)
(***************************************************************************)
EXTENDS Naturals, Sequences

CONSTANTS
  Thread,      \* the threads that use the list
  MaxAppends   \* bound: how many items are appended

VARIABLES
  list,        \* the items; the n-th item appended is the number n
  appended,    \* how many items have been appended
  removing     \* the threads that have called RemoveFront and have no item yet

vars == <<list, appended, removing>>

Init ==
  /\ list = <<>>
  /\ appended = 0
  /\ removing = {}

Append1 ==
  /\ appended < MaxAppends
  /\ appended' = appended + 1
  /\ list' = Append(list, appended')
  /\ UNCHANGED removing

CallRemove(t) ==
  /\ t \notin removing
  /\ removing' = removing \cup {t}
  /\ UNCHANGED <<list, appended>>

Take(t) ==
  /\ t \in removing
  /\ list # <<>>
  /\ list' = Tail(list)
  /\ removing' = removing \ {t}
  /\ UNCHANGED appended

Next == Append1 \/ \E t \in Thread : CallRemove(t) \/ Take(t)

Spec == Init /\ [][Next]_vars /\ WF_vars(\E t \in Thread : Take(t))
=============================================================================

----------------------------- MODULE SynchList -----------------------------
(***************************************************************************)
(* The monitor of synchlist.cc and the Lock and Condition of synch.cc it   *)
(* is built from.  A semaphore is used here as module Threads shows it to  *)
(* behave: P waits until the value is positive and takes one unit, and it  *)
(* is the only place (with the end of V) where a thread can lose the       *)
(* processor.  A step is the code between two such places; in particular   *)
(* Lock::Acquire sets lockHolder only after the P that took the lock.      *)
(***************************************************************************)
EXTENDS ThreadIds, Naturals, Sequences, FiniteSets, Functions

CONSTANTS
  MaxAppends   \* bound: how many items are appended

ASSUME SynchListAssumption ==
  /\ IsFiniteSet(Thread)
  /\ NoThread \notin Thread
  /\ MaxAppends \in Nat

VARIABLES
  list,        \* SynchList::list; the n-th item appended is the number n
  appended,    \* how many items have been appended
  semaphore,   \* value of Lock::semaphore
  lockHolder,  \* Lock::lockHolder
  waitQueue,   \* Condition::waitQueue; a waiter is named by the thread waiting
  waiter,      \* value of each thread's waiter semaphore
  pc           \* the call a thread is in, and how far

listVars == <<list, appended, semaphore, lockHolder, waitQueue, waiter, pc>>

ListInit ==
  /\ list = <<>>
  /\ appended = 0
  /\ semaphore = 1
  /\ lockHolder = NoThread
  /\ waitQueue = <<>>
  /\ waiter = [t \in Thread |-> 0]
  /\ pc = [t \in Thread |-> "idle"]

Goto(t, from, to) == pc[t] = from /\ pc' = [pc EXCEPT ![t] = to]

\* Lock::Acquire up to the end of its P.
Acquire(t, from, to) ==
  /\ semaphore > 0
  /\ semaphore' = semaphore - 1
  /\ Goto(t, from, to)
  /\ UNCHANGED <<list, appended, lockHolder, waitQueue, waiter>>

\* Mutant: Release calls V twice.
ReleaseTwice ==
  /\ lockHolder' = NoThread
  /\ semaphore' = semaphore + 2

\* Lock::Release.  Its ASSERT is part of MutualExclusion.
Release ==
  /\ lockHolder' = NoThread
  /\ semaphore' = semaphore + 1

----------------------------------------------------------------------------
(* SynchList::Append *)

CallAppend(t) ==
  /\ appended + Cardinality({u \in Thread : pc[u] \in {"append", "appending"}})
       < MaxAppends
  /\ Goto(t, "idle", "append")
  /\ UNCHANGED <<list, appended, semaphore, lockHolder, waitQueue, waiter>>

AcquireForAppend(t) == Acquire(t, "append", "appending")

\* Mutant: a signal counts only for a thread that already sleeps in P, so one
\* sent between the Release and the P of Wait is lost.
SignalMayBeLost ==
  IF waitQueue # <<>>
  THEN /\ \/ waiter' = [waiter EXCEPT ![Head(waitQueue)] = @ + 1]
          \/ UNCHANGED waiter
       /\ waitQueue' = Tail(waitQueue)
  ELSE UNCHANGED <<waiter, waitQueue>>

\* Condition::Signal: wake the first waiter, if any.
Signal ==
  IF waitQueue # <<>>
  THEN /\ waiter' = [waiter EXCEPT ![Head(waitQueue)] = @ + 1]
       /\ waitQueue' = Tail(waitQueue)
  ELSE UNCHANGED <<waiter, waitQueue>>

\* Mutant: the appender signals only when the list was empty.
AppendSignalsWhenEmpty(t) ==
  /\ Goto(t, "appending", "appended")
  /\ lockHolder' = t
  /\ appended' = appended + 1
  /\ list' = Append(list, appended')
  /\ IF list = <<>> THEN Signal ELSE UNCHANGED <<waiter, waitQueue>>
  /\ UNCHANGED semaphore

\* Mutant: the item goes to the front of the list (Prepend).
PrependAndSignal(t) ==
  /\ Goto(t, "appending", "appended")
  /\ lockHolder' = t
  /\ appended' = appended + 1
  /\ list' = <<appended'>> \o list
  /\ Signal
  /\ UNCHANGED semaphore

AppendAndSignal(t) ==
  /\ Goto(t, "appending", "appended")
  /\ lockHolder' = t
  /\ appended' = appended + 1
  /\ list' = Append(list, appended')
  /\ Signal
  /\ UNCHANGED semaphore

ReleaseAfterAppend(t) ==
  /\ Goto(t, "appended", "idle")
  /\ Release
  /\ UNCHANGED <<list, appended, waitQueue, waiter>>

----------------------------------------------------------------------------
(* SynchList::RemoveFront *)

CallRemove(t) ==
  /\ Goto(t, "idle", "remove")
  /\ UNCHANGED <<list, appended, semaphore, lockHolder, waitQueue, waiter>>

AcquireForRemove(t) == Acquire(t, "remove", "removing")

\* The list is not empty: take the first item, release the lock and return.
RemoveAndRelease(t) ==
  /\ list # <<>>
  /\ Goto(t, "removing", "idle")
  /\ list' = Tail(list)
  /\ Release
  /\ UNCHANGED <<appended, waitQueue, waiter>>

\* The list is empty: Condition::Wait up to the end of its Release.
WaitRelease(t) ==
  /\ list = <<>>
  /\ Goto(t, "removing", "waiting")
  /\ waiter' = [waiter EXCEPT ![t] = 0]
  /\ waitQueue' = Append(waitQueue, t)
  /\ Release
  /\ UNCHANGED <<list, appended>>

\* waiter->P() in Condition::Wait.
WaitP(t) ==
  /\ waiter[t] > 0
  /\ waiter' = [waiter EXCEPT ![t] = @ - 1]
  /\ Goto(t, "waiting", "signalled")
  /\ UNCHANGED <<list, appended, semaphore, lockHolder, waitQueue>>

\* conditionLock->Acquire() in Condition::Wait; RemoveFront then tests again.
WaitAcquire(t) == Acquire(t, "signalled", "removing")

----------------------------------------------------------------------------
TakeLock(t) == AcquireForAppend(t) \/ AcquireForRemove(t) \/ WaitAcquire(t)

GoOn(t) ==
  \/ AppendAndSignal(t)
  \/ ReleaseAfterAppend(t)
  \/ RemoveAndRelease(t)
  \/ WaitRelease(t)
  \/ WaitP(t)

ListNext == \E t \in Thread : CallAppend(t) \/ CallRemove(t) \/ TakeLock(t) \/ GoOn(t)

\* Round robin lets every thread that can go on do so; of the threads that want
\* the lock, semaphores promise only that some one gets it when it is free.
Fairness ==
  /\ \A t \in Thread : WF_listVars(GoOn(t))
  /\ WF_listVars(\E t \in Thread : TakeLock(t))

ListSpec == ListInit /\ [][ListNext]_listVars /\ Fairness

----------------------------------------------------------------------------
(* Properties *)

\* The threads between an Acquire and the matching Release.
InMonitor == {t \in Thread : pc[t] \in {"appending", "appended", "removing"}}

\* Every variable keeps its type; a waiter's value is 0 or 1.
ListTypeOK ==
  /\ list \in Seq(1 .. MaxAppends)
  /\ appended \in 0 .. MaxAppends
  /\ semaphore \in 0 .. 1
  /\ lockHolder \in Thread \cup {NoThread}
  /\ waitQueue \in Seq(Thread)
  /\ waiter \in [Thread -> 0 .. 1]
  /\ pc \in [Thread -> {"idle", "append", "appending", "appended",
                        "remove", "removing", "waiting", "signalled"}]

\* The lock gives mutual exclusion: one thread at a time is in the monitor, and
\* the lock is free when none is.  The ASSERT(IsHeldByCurrentThread()) of Release,
\* Wait and Signal never fails: lockHolder, which Acquire sets late and Release
\* resets early, never names a thread outside, and names the one about to
\* release.  All types are kept.
MutualExclusion ==
  /\ ListTypeOK
  /\ Cardinality(InMonitor) + semaphore = 1
  /\ \A t \in Thread : pc[t] = "appended" => lockHolder = t
  /\ lockHolder # NoThread => lockHolder \in InMonitor

\* The threads that were signalled and have not looked at the list again.
Signalled ==
  {t \in Thread : pc[t] = "signalled" \/ (pc[t] = "waiting" /\ waiter[t] = 1)}

\* A signal sent between the Release and the P of Wait is kept by the waiter's
\* semaphore: a waiting thread is on the queue or has been signalled.
NoSignalLost ==
  /\ IsInjective(waitQueue)
  /\ \A t \in Thread :
       t \in Range(waitQueue) <=> pc[t] = "waiting" /\ waiter[t] = 0

\* No item is forgotten while threads wait for one: each is matched by a thread
\* that was signalled or that is in RemoveFront's loop, though another thread
\* may come first and take it.
NoItemForgotten ==
  waitQueue # <<>> =>
    Len(list) <= Cardinality(Signalled \cup {t \in InMonitor : pc[t] = "removing"})

\* The threads in RemoveFront.
Removing == {t \in Thread : pc[t] \in {"remove", "removing", "waiting", "signalled"}}

\* SynchList implements the blocking queue it is used as.
Abstract == INSTANCE BlockingQueue WITH removing <- Removing

\* Every behaviour of the monitor is one of the blocking queue: items leave in
\* the order they came, each once, and while there is an item and a thread to
\* take it some thread does.
Implements == Abstract!Spec
=============================================================================

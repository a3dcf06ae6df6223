---------------------------- MODULE KernelProofs ----------------------------
(***************************************************************************)
(* Proofs about four small parts of the kernel.  For every number of       *)
(* threads and semaphores, the invariants of module Threads: together with *)
(* InLoopAsleep they are inductive, none of them is so alone.  For any     *)
(* threads, the invariants of the monitor SynchList, and that its steps    *)
(* are those of a blocking queue.  For any processes, ports and numbers of *)
(* sockets and datagrams, the invariants of module Sockets and its action  *)
(* property.  For every geometry and timing of the disk, that a request    *)
(* ends when its sector has passed under the head.  The four share no      *)
(* state.                                                                  *)
(***************************************************************************)
EXTENDS Threads, SynchList, Sockets, DiskTiming, LibraryLemmas, FiniteSetTheorems

----------------------------------------------------------------------------
(* Threads: the inductive invariant *)

\* The invariants TLC checks, and InLoopAsleep: the running thread is not inside
\* the loop of P.  Without it a thread could call P, Fork or Finish while it still
\* counts as woken, and NoLostWakeup would not be inductive.
IInv ==
  /\ TypeOK
  /\ ReadyListExact
  /\ OneRunning
  /\ BlockedExact
  /\ CarcassSafe
  /\ InLoopAsleep
  /\ NoLostWakeup

\* There are finitely many woken threads.
LEMMA WokenFinite ==
  ASSUME NEW s
  PROVE  IsFiniteSet(Woken(s)) /\ Cardinality(Woken(s)) \in Nat
<1>1. IsFiniteSet(Woken(s))
  BY ThreadAssumption, FS_Subset, Woken(s) \subseteq Thread DEF Woken
<1> QED BY <1>1, FS_CardinalityType

\* Kernel::Initialize establishes the invariant: one running thread, empty lists.
LEMMA InitIInv == Init => IInv
<1> SUFFICES ASSUME Init PROVE IInv
  OBVIOUS
<1> USE ThreadAssumption, SemAssumption
<1>1. Range(<<>>) = {} /\ IsInjective(<<>>)
  BY DEF Range, IsInjective
<1>2. TypeOK
  <2>1. status \in [Thread -> Status] /\ value \in [Sem -> 0 .. MaxValue]
    BY DEF Init, Status
  <2>2. readyList \in Seq(Thread) /\ queue \in [Sem -> Seq(Thread)]
    BY DEF Init
  <2>3. waitSem \in [Thread -> Sem \cup {NoSem}] /\ finishing \in BOOLEAN
    BY Zenon DEF Init
  <2> QED BY <2>1, <2>2, <2>3 DEF Init, TypeOK
<1>3. ReadyListExact
  BY <1>1 DEF Init, ReadyListExact
<1>4. OneRunning
  BY DEF Init, OneRunning
<1>5. BlockedExact
  BY <1>1 DEF Init, BlockedExact
<1>6. CarcassSafe
  BY DEF Init, CarcassSafe
<1>7. InLoopAsleep
  BY DEF Init, InLoopAsleep
<1>8. NoLostWakeup
  BY DEF Init, NoLostWakeup
<1> QED BY <1>2, <1>3, <1>4, <1>5, <1>6, <1>7, <1>8 DEF IInv

\* The loop of P, entered or resumed by the running thread, which is on no list.
LEMMA TestValueIInv ==
  ASSUME IInv, NEW s \in Sem, cpu # "sleeping", toBeDestroyed = NoThread,
         waitSem[currentThread] \in {NoSem, s},
         TestValue(s), UNCHANGED <<currentThread, readyList, toBeDestroyed>>
  PROVE  IInv'
<1> DEFINE t == currentThread
<1> USE ThreadAssumption, SemAssumption
<1>0. /\ t \in Thread /\ status[t] = "RUNNING" /\ ~ finishing
      /\ \A r \in Sem : t \notin Range(queue[r])
      /\ t \notin Range(readyList)
  BY DEF IInv, TypeOK, OneRunning, BlockedExact, ReadyListExact, CarcassSafe
<1>1. CASE value[s] = 0
  <2>0. /\ queue' = [queue EXCEPT ![s] = Append(@, t)]
        /\ waitSem' = [waitSem EXCEPT ![t] = s]
        /\ status' = [status EXCEPT ![t] = "BLOCKED"]
        /\ finishing' = FALSE
        /\ cpu' = "sleeping"
        /\ UNCHANGED <<value, currentThread, readyList, toBeDestroyed>>
    BY <1>1 DEF TestValue
  <2>1. /\ queue[s] \in Seq(Thread)
        /\ queue'[s] \in Seq(Thread)
        /\ Range(queue'[s]) = Range(queue[s]) \cup {t}
        /\ IsInjective(queue'[s])
        /\ \A r \in Sem \ {s} : queue'[r] = queue[r]
    BY <1>0, <2>0, AppendList DEF IInv, TypeOK, BlockedExact
  <2>2. TypeOK'
    BY <1>0, <2>0, <2>1, Zenon DEF IInv, TypeOK, Status
  <2>3. ReadyListExact'
    BY <1>0, <2>0 DEF IInv, TypeOK, ReadyListExact
  <2>4. OneRunning'
    BY <1>0, <2>0 DEF IInv, TypeOK, OneRunning
  <2>5. BlockedExact'
    <3>1. ASSUME NEW r \in Sem, NEW u \in Thread
          PROVE  u \in Range(queue'[r]) <=> status'[u] = "BLOCKED" /\ waitSem'[u] = r
      BY <1>0, <2>0, <2>1 DEF IInv, TypeOK, BlockedExact
    <3>2. \A r \in Sem : IsInjective(queue'[r])
      BY <2>1 DEF IInv, BlockedExact
    <3>3. ASSUME NEW u \in Thread, status'[u] = "BLOCKED", waitSem'[u] = NoSem
          PROVE  u = toBeDestroyed'
      BY <1>0, <2>0, <3>3 DEF IInv, TypeOK, BlockedExact
    <3> QED BY <3>1, <3>2, <3>3 DEF BlockedExact
  <2>6. CarcassSafe'
    BY <1>0, <2>0 DEF IInv, TypeOK, CarcassSafe
  <2>7. InLoopAsleep'
    BY <1>0, <2>0 DEF IInv, TypeOK, InLoopAsleep
  <2>8. NoLostWakeup'
    <3>1. ASSUME NEW r \in Sem \ {s}, queue'[r] # <<>>
          PROVE  value'[r] <= Cardinality(Woken(r)')
      <4>1. Woken(r)' = Woken(r)
        BY <1>0, <2>0, <2>1 DEF IInv, TypeOK, Woken
      <4> QED BY <2>0, <2>1, <3>1, <4>1 DEF IInv, NoLostWakeup
    <3>2. value'[s] <= Cardinality(Woken(s)')
      <4>1. IsFiniteSet(Woken(s)')
        BY FS_Subset, Woken(s)' \subseteq Thread DEF Woken
      <4> QED BY <4>1, FS_CardinalityType, <1>1, <2>0
    <3> QED BY <3>1, <3>2 DEF NoLostWakeup
  <2> QED BY <2>2, <2>3, <2>4, <2>5, <2>6, <2>7, <2>8 DEF IInv
<1>2. CASE value[s] # 0
  <2>0. /\ value' = [value EXCEPT ![s] = @ - 1]
        /\ waitSem' = [waitSem EXCEPT ![t] = NoSem]
        /\ cpu' = "running"
        /\ UNCHANGED <<queue, status, finishing, currentThread, readyList, toBeDestroyed>>
    BY <1>2 DEF TestValue
  <2>1. value[s] \in Nat /\ value[s] # 0 /\ value'[s] = value[s] - 1
    BY <1>2, <2>0 DEF IInv, TypeOK
  <2>2. TypeOK'
    BY <1>0, <1>2, <2>0 DEF IInv, TypeOK
  <2>3. ReadyListExact' /\ OneRunning'
    BY <1>0, <2>0 DEF IInv, TypeOK, ReadyListExact, OneRunning
  <2>5. BlockedExact'
    BY <1>0, <2>0 DEF IInv, TypeOK, BlockedExact
  <2>6. CarcassSafe' /\ InLoopAsleep'
    BY <1>0, <2>0 DEF IInv, TypeOK, CarcassSafe, InLoopAsleep
  <2>8. NoLostWakeup'
    <3>1. ASSUME NEW r \in Sem \ {s}, queue'[r] # <<>>
          PROVE  value'[r] <= Cardinality(Woken(r)')
      <4>1. Woken(r)' = Woken(r)
        BY <1>0, <2>0 DEF IInv, TypeOK, Woken
      <4> QED BY <2>0, <3>1, <4>1 DEF IInv, TypeOK, NoLostWakeup
    <3>2. ASSUME queue'[s] # <<>>
          PROVE  value'[s] <= Cardinality(Woken(s)')
      <4>1. Woken(s)' = Woken(s) \ {t}
        BY <1>0, <2>0 DEF IInv, TypeOK, Woken
      <4>2. /\ IsFiniteSet(Woken(s) \ {t})
            /\ Cardinality(Woken(s) \ {t}) >= Cardinality(Woken(s)) - 1
            /\ Cardinality(Woken(s) \ {t}) \in Nat
        <5>1. IsFiniteSet(Woken(s)) /\ Cardinality(Woken(s)) \in Nat
          BY WokenFinite
        <5>2. /\ IsFiniteSet(Woken(s) \ {t})
              /\ Cardinality(Woken(s) \ {t}) =
                   IF t \in Woken(s) THEN Cardinality(Woken(s)) - 1
                                     ELSE Cardinality(Woken(s))
          BY <5>1, FS_RemoveElement
        <5>3. Cardinality(Woken(s) \ {t}) \in Nat
          BY <5>2, FS_CardinalityType
        <5> QED BY <5>1, <5>2, <5>3
      <4> QED BY <2>0, <2>1, <3>2, <4>1, <4>2, WokenFinite DEF IInv, NoLostWakeup
    <3> QED BY <3>1, <3>2 DEF NoLostWakeup
  <2> QED BY <2>2, <2>3, <2>5, <2>6, <2>8 DEF IInv
<1> QED BY <1>1, <1>2

\* V wakes the first waiter, which becomes one more woken thread for the unit
\* it adds to the value.
LEMMA IncrementIInv ==
  ASSUME IInv, NEW s \in Sem, Increment(s),
         cpu = "running" \/ cpu = "sleeping"
  PROVE  IInv'
<1> USE ThreadAssumption, SemAssumption
<1>0. /\ value' = [value EXCEPT ![s] = @ + 1]
      /\ value[s] \in 0 .. MaxValue
      /\ value'[s] = value[s] + 1
      /\ value'[s] \in 0 .. MaxValue
      /\ UNCHANGED <<currentThread, cpu, toBeDestroyed, finishing, waitSem>>
      /\ queue[s] \in Seq(Thread)
      /\ IsInjective(queue[s])
  BY DEF Increment, IInv, TypeOK, BlockedExact
<1>1. CASE queue[s] = <<>>
  <2>0. UNCHANGED <<queue, status, readyList>>
    BY <1>1 DEF Increment
  <2>1. TypeOK'
    BY <1>0, <2>0 DEF IInv, TypeOK
  <2>2. ReadyListExact' /\ OneRunning' /\ BlockedExact'
    BY <1>0, <2>0 DEF IInv, ReadyListExact, OneRunning, BlockedExact
  <2>3. CarcassSafe' /\ InLoopAsleep'
    BY <1>0, <2>0 DEF IInv, CarcassSafe, InLoopAsleep
  <2>4. NoLostWakeup'
    <3>1. ASSUME NEW r \in Sem, queue'[r] # <<>>
          PROVE  value'[r] <= Cardinality(Woken(r)')
      <4>1. Woken(r)' = Woken(r) /\ r # s
        BY <1>0, <1>1, <2>0, <3>1 DEF Woken
      <4> QED BY <1>0, <2>0, <3>1, <4>1 DEF IInv, TypeOK, NoLostWakeup
    <3> QED BY <3>1 DEF NoLostWakeup
  <2> QED BY <2>1, <2>2, <2>3, <2>4 DEF IInv
<1>2. CASE queue[s] # <<>>
  <2> DEFINE t == Head(queue[s])
  <2>0. /\ queue' = [queue EXCEPT ![s] = Tail(@)]
        /\ status' = [status EXCEPT ![t] = "READY"]
        /\ readyList' = Append(readyList, t)
    BY <1>2 DEF Increment
  <2>1. /\ t \in Thread
        /\ t \in Range(queue[s])
        /\ queue'[s] \in Seq(Thread)
        /\ Range(queue'[s]) = Range(queue[s]) \ {t}
        /\ IsInjective(queue'[s])
        /\ \A r \in Sem \ {s} : queue'[r] = queue[r]
    <3>1. /\ t \in Thread
          /\ t \in Range(queue[s])
          /\ Tail(queue[s]) \in Seq(Thread)
          /\ Range(Tail(queue[s])) = Range(queue[s]) \ {t}
          /\ IsInjective(Tail(queue[s]))
      BY <1>0, <1>2, RemoveFrontList
    <3>2. queue'[s] = Tail(queue[s]) /\ \A r \in Sem \ {s} : queue'[r] = queue[r]
      BY <2>0 DEF IInv, TypeOK
    <3> QED BY <3>1, <3>2
  <2>2. status[t] = "BLOCKED" /\ waitSem[t] = s
    BY <2>1 DEF IInv, BlockedExact
  <2>3. /\ readyList \in Seq(Thread)
        /\ t \notin Range(readyList)
        /\ IsInjective(readyList)
    BY <2>1, <2>2 DEF IInv, TypeOK, ReadyListExact
  <2>4. /\ readyList' \in Seq(Thread)
        /\ Range(readyList') = Range(readyList) \cup {t}
        /\ IsInjective(readyList')
    BY <2>0, <2>1, <2>3, AppendList
  <2>5. TypeOK'
    BY <1>0, <2>0, <2>1, <2>4 DEF IInv, TypeOK, Status
  <2>6. ReadyListExact'
    BY <2>0, <2>1, <2>4 DEF IInv, TypeOK, ReadyListExact
  <2>7. OneRunning'
    BY <1>0, <2>0, <2>1, <2>2 DEF IInv, TypeOK, OneRunning
  <2>8. BlockedExact'
    <3>1. ASSUME NEW r \in Sem, NEW u \in Thread
          PROVE  u \in Range(queue'[r]) <=> status'[u] = "BLOCKED" /\ waitSem'[u] = r
      <4>1. u \in Range(queue[r]) <=> status[u] = "BLOCKED" /\ waitSem[u] = r
        BY DEF IInv, BlockedExact
      <4>2. status'[u] = (IF u = t THEN "READY" ELSE status[u]) /\ waitSem'[u] = waitSem[u]
        BY <1>0, <2>0 DEF IInv, TypeOK
      <4>3. Range(queue'[r]) = IF r = s THEN Range(queue[r]) \ {t} ELSE Range(queue[r])
        BY <2>1, Zenon
      <4> QED BY <2>2, <4>1, <4>2, <4>3
    <3>2. \A r \in Sem : IsInjective(queue'[r])
      BY <2>1 DEF IInv, BlockedExact
    <3>3. ASSUME NEW u \in Thread, status'[u] = "BLOCKED", waitSem'[u] = NoSem
          PROVE  (\/ u = toBeDestroyed
                  \/ u = currentThread /\ cpu = "sleeping" /\ finishing)'
      <4>1. status[u] = "BLOCKED" /\ waitSem[u] = NoSem
        BY <1>0, <2>0, <3>3 DEF IInv, TypeOK
      <4> QED BY <1>0, <4>1 DEF IInv, BlockedExact
    <3> QED BY <3>1, <3>2, <3>3 DEF BlockedExact
  <2>9. CarcassSafe'
    BY <1>0, <2>0, <2>1, <2>2 DEF IInv, TypeOK, CarcassSafe
  <2>10. InLoopAsleep'
    BY <1>0, <2>0, <2>1 DEF IInv, TypeOK, InLoopAsleep
  <2>11. NoLostWakeup'
    <3>1. ASSUME NEW r \in Sem \ {s}, queue'[r] # <<>>
          PROVE  value'[r] <= Cardinality(Woken(r)')
      <4>1. Woken(r)' = Woken(r)
        BY <1>0, <2>1 DEF Woken
      <4> QED BY <1>0, <2>1, <3>1, <4>1 DEF IInv, TypeOK, NoLostWakeup
    <3>2. value'[s] <= Cardinality(Woken(s)')
      <4>1. Woken(s)' = Woken(s) \cup {t} /\ t \notin Woken(s)
        BY <1>0, <2>1, <2>2 DEF Woken
      <4>2. IsFiniteSet(Woken(s)) /\ Cardinality(Woken(s)) \in Nat
        BY WokenFinite
      <4>3. Cardinality(Woken(s) \cup {t}) = Cardinality(Woken(s)) + 1
        BY <4>1, <4>2, FS_AddElement, Zenon
      <4>4. value[s] <= Cardinality(Woken(s))
        BY <1>2 DEF IInv, NoLostWakeup
      <4> QED BY <1>0, <4>1, <4>2, <4>3, <4>4
    <3> QED BY <3>1, <3>2 DEF NoLostWakeup
  <2> QED BY <2>5, <2>6, <2>7, <2>8, <2>9, <2>10, <2>11 DEF IInv
<1> QED BY <1>1, <1>2

\* Steps that leave the semaphores alone lose no wakeup.
LEMMA SemaphoresUntouched ==
  ASSUME NoLostWakeup, UNCHANGED <<value, queue, waitSem>>
  PROVE  NoLostWakeup'
BY DEF NoLostWakeup, Woken

\* The constructor of Thread puts the new thread on no list.
LEMMA CreateIInv ==
  ASSUME IInv, NEW t \in Thread, Create(t)
  PROVE  IInv'
<1> USE ThreadAssumption, SemAssumption DEF Create
<1>1. TypeOK'
  BY DEF IInv, TypeOK, Status
<1>2. ReadyListExact' /\ OneRunning'
  BY DEF IInv, TypeOK, ReadyListExact, OneRunning
<1>3. BlockedExact'
  BY DEF IInv, TypeOK, BlockedExact
<1>4. CarcassSafe' /\ InLoopAsleep'
  BY DEF IInv, TypeOK, CarcassSafe, InLoopAsleep, OneRunning
<1> QED BY <1>1, <1>2, <1>3, <1>4, SemaphoresUntouched DEF IInv

\* Fork puts a thread that was on no list at the end of the ready list.
LEMMA ForkIInv ==
  ASSUME IInv, NEW t \in Thread, Fork(t)
  PROVE  IInv'
<1> USE ThreadAssumption, SemAssumption DEF Fork
<1>0. /\ readyList \in Seq(Thread)
      /\ t \notin Range(readyList)
      /\ IsInjective(readyList)
  BY DEF IInv, TypeOK, ReadyListExact
<1>1. /\ readyList' \in Seq(Thread)
      /\ Range(readyList') = Range(readyList) \cup {t}
      /\ IsInjective(readyList')
  BY <1>0, AppendList
<1>2. TypeOK'
  BY <1>1 DEF IInv, TypeOK, Status
<1>3. ReadyListExact'
  BY <1>1 DEF IInv, TypeOK, ReadyListExact
<1>4. OneRunning'
  BY DEF IInv, TypeOK, OneRunning
<1>5. BlockedExact'
  BY DEF IInv, TypeOK, BlockedExact
<1>6. CarcassSafe' /\ InLoopAsleep'
  BY DEF IInv, TypeOK, CarcassSafe, InLoopAsleep
<1> QED BY <1>2, <1>3, <1>4, <1>5, <1>6, SemaphoresUntouched DEF IInv

\* Finish takes the running thread off the processor and names it as the carcass.
LEMMA FinishIInv ==
  ASSUME IInv, Finish
  PROVE  IInv'
<1> USE ThreadAssumption, SemAssumption DEF Finish
<1>0. /\ currentThread \in Thread
      /\ status[currentThread] = "RUNNING"
      /\ waitSem[currentThread] = NoSem
      /\ toBeDestroyed = NoThread
      /\ ~ finishing
  BY Zenon DEF IInv, TypeOK, OneRunning, InLoopAsleep, CarcassSafe
<1>1. TypeOK'
  BY DEF IInv, TypeOK, Status
<1>2. ReadyListExact' /\ OneRunning'
  BY <1>0 DEF IInv, TypeOK, ReadyListExact, OneRunning
<1>3. BlockedExact'
  BY <1>0 DEF IInv, TypeOK, BlockedExact
<1>4. CarcassSafe' /\ InLoopAsleep'
  BY <1>0 DEF IInv, TypeOK, CarcassSafe, InLoopAsleep
<1> QED BY <1>1, <1>2, <1>3, <1>4, SemaphoresUntouched DEF IInv

\* Yield moves the running thread behind the ready list and takes its first one.
LEMMA YieldIInv ==
  ASSUME IInv, Yield
  PROVE  IInv'
<1> DEFINE n == Head(readyList)
<1> USE ThreadAssumption, SemAssumption DEF Yield
<1>0. /\ currentThread \in Thread
      /\ status[currentThread] = "RUNNING"
      /\ waitSem[currentThread] = NoSem
      /\ toBeDestroyed = NoThread
      /\ ~ finishing
      /\ readyList \in Seq(Thread)
      /\ IsInjective(readyList)
      /\ currentThread \notin Range(readyList)
  BY DEF IInv, TypeOK, OneRunning, InLoopAsleep, CarcassSafe, ReadyListExact
<1>1. /\ n \in Thread
      /\ n \in Range(readyList)
      /\ Tail(readyList) \in Seq(Thread)
      /\ Range(Tail(readyList)) = Range(readyList) \ {n}
      /\ IsInjective(Tail(readyList))
  BY <1>0, RemoveFrontList
<1>2. /\ readyList' \in Seq(Thread)
      /\ Range(readyList') = (Range(readyList) \ {n}) \cup {currentThread}
      /\ IsInjective(readyList')
  <2>1. readyList' = Append(Tail(readyList), currentThread)
    OBVIOUS
  <2>2. /\ currentThread \in Thread
        /\ currentThread \notin Range(Tail(readyList))
        /\ Tail(readyList) \in Seq(Thread)
        /\ IsInjective(Tail(readyList))
    BY <1>0, <1>1
  <2> DEFINE r == Tail(readyList)
  <2> HIDE DEF Yield, n, r
  <2>3. /\ Append(r, currentThread) \in Seq(Thread)
        /\ Range(Append(r, currentThread)) = Range(r) \cup {currentThread}
        /\ IsInjective(Append(r, currentThread))
    <3>1. r \in Seq(Thread) /\ IsInjective(r) /\ currentThread \notin Range(r)
      BY <2>2 DEF r
    <3> QED BY <2>2, <3>1, AppendList, Zenon
  <2> QED BY <1>1, <2>1, <2>3 DEF r
<1>3. status[n] = "READY" /\ n # currentThread
  BY <1>0, <1>1 DEF IInv, ReadyListExact
<1>4. \A u \in Thread :
        status'[u] = IF u = n THEN "RUNNING"
                     ELSE IF u = currentThread THEN "READY" ELSE status[u]
  BY <1>0, <1>1 DEF IInv, TypeOK
<1>5. TypeOK'
  BY <1>1, <1>2, Zenon DEF IInv, TypeOK, Status
<1>u. UNCHANGED <<toBeDestroyed, finishing, value, queue, waitSem>>
  OBVIOUS
<1>6. ReadyListExact'
  <2> HIDE DEF Yield
  <2>1. ASSUME NEW u \in Thread
        PROVE  status'[u] = "READY" <=> u \in Range(readyList')
    <3>1. status[u] = "READY" <=> u \in Range(readyList)
      BY DEF IInv, ReadyListExact
    <3> QED BY <1>2, <1>3, <1>4, <3>1
  <2> QED BY <1>2, <2>1 DEF ReadyListExact
<1>7. OneRunning'
  BY <1>1, <1>3, <1>4, Zenon DEF IInv, OneRunning
<1>8. BlockedExact'
  <2> HIDE DEF Yield
  <2>1. \A u \in Thread : status'[u] = "BLOCKED" <=> status[u] = "BLOCKED"
    BY <1>0, <1>3, <1>4
  <2> QED BY <1>0, <1>u, <2>1 DEF IInv, BlockedExact
<1>9. CarcassSafe' /\ InLoopAsleep'
  BY <1>0, <1>3, <1>4, Zenon DEF IInv, CarcassSafe, InLoopAsleep
<1> QED BY <1>5, <1>6, <1>7, <1>8, <1>9, SemaphoresUntouched DEF IInv

\* Run takes the first thread of the ready list out of the loop in Sleep.
LEMMA RunIInv ==
  ASSUME IInv, Run
  PROVE  IInv'
<1> DEFINE n == Head(readyList)
<1> USE ThreadAssumption, SemAssumption DEF Run
<1>0. /\ currentThread \in Thread
      /\ toBeDestroyed = NoThread
      /\ readyList \in Seq(Thread)
      /\ IsInjective(readyList)
      /\ finishing \in BOOLEAN
  BY DEF IInv, TypeOK, CarcassSafe, ReadyListExact
<1>1. /\ n \in Thread
      /\ n \in Range(readyList)
      /\ readyList' \in Seq(Thread)
      /\ Range(readyList') = Range(readyList) \ {n}
      /\ IsInjective(readyList')
  BY <1>0, RemoveFrontList
<1>2. status[n] = "READY"
  BY <1>1 DEF IInv, ReadyListExact
<1>3. finishing => /\ status[currentThread] = "BLOCKED"
                   /\ waitSem[currentThread] = NoSem
                   /\ currentThread # n
  BY <1>2 DEF IInv, CarcassSafe
<1>4. \A u \in Thread : status'[u] = IF u = n THEN "RUNNING" ELSE status[u]
  BY <1>1 DEF IInv, TypeOK
<1>5. TypeOK'
  BY <1>0, <1>1, Zenon DEF IInv, TypeOK, Status
<1>6. ReadyListExact'
  BY <1>1, <1>2, <1>4 DEF IInv, ReadyListExact
<1>7. OneRunning'
  BY <1>1, <1>4 DEF IInv, OneRunning
<1>8. BlockedExact'
  BY SMTT(30), <1>0, <1>2, <1>3, <1>4 DEF IInv, BlockedExact
<1>9. CarcassSafe'
  BY <1>0, <1>3, <1>4 DEF IInv, CarcassSafe
<1>10. InLoopAsleep'
  BY <1>4 DEF IInv, InLoopAsleep
<1> QED BY <1>5, <1>6, <1>7, <1>8, <1>9, <1>10, SemaphoresUntouched DEF IInv

\* The carcass is deleted by the thread that SWITCH has returned in, never by itself.
LEMMA CheckToBeDestroyedIInv ==
  ASSUME IInv, CheckToBeDestroyed
  PROVE  IInv'
<1> USE ThreadAssumption, SemAssumption DEF CheckToBeDestroyed
<1>0. /\ toBeDestroyed \in Thread
      /\ status[toBeDestroyed] = "BLOCKED"
      /\ waitSem[toBeDestroyed] = NoSem
      /\ ~ finishing
  BY DEF IInv, TypeOK, CarcassSafe
<1>1. \A u \in Thread :
        status'[u] = IF u = toBeDestroyed THEN "NO_THREAD" ELSE status[u]
  BY <1>0 DEF IInv, TypeOK
<1>2. TypeOK'
  <2>1. status' \in [Thread -> Status]
    BY DEF IInv, TypeOK, Status
  <2>2. toBeDestroyed' = NoThread
    OBVIOUS
  <2> QED BY <2>1, <2>2 DEF IInv, TypeOK
<1>3. ReadyListExact' /\ OneRunning'
  BY <1>0, <1>1 DEF IInv, ReadyListExact, OneRunning
<1>4. BlockedExact'
  BY <1>0, <1>1 DEF IInv, BlockedExact
<1>5. CarcassSafe' /\ InLoopAsleep'
  BY <1>0, <1>1 DEF IInv, CarcassSafe, InLoopAsleep
<1> QED BY <1>2, <1>3, <1>4, <1>5, SemaphoresUntouched DEF IInv

\* The thread that runs again leaves Run: it goes on in the loop of P, or in user code.
LEMMA ResumeIInv ==
  ASSUME IInv, Resume
  PROVE  IInv'
<1> USE ThreadAssumption, SemAssumption
<1>1. CASE waitSem[currentThread] # NoSem
  <2>1. waitSem[currentThread] \in Sem
    BY <1>1 DEF IInv, TypeOK
  <2>2. TestValue(waitSem[currentThread])
    BY <1>1 DEF Resume
  <2> QED BY <2>1, <2>2, TestValueIInv DEF Resume
<1>2. CASE waitSem[currentThread] = NoSem
  <2> USE <1>2 DEF Resume
  <2>1. TypeOK'
    BY DEF IInv, TypeOK
  <2>2. ReadyListExact' /\ OneRunning'
    BY DEF IInv, ReadyListExact, OneRunning
  <2>3. BlockedExact'
    BY DEF IInv, BlockedExact
  <2>4. CarcassSafe' /\ InLoopAsleep'
    BY DEF IInv, CarcassSafe, InLoopAsleep
  <2> QED BY <2>1, <2>2, <2>3, <2>4, SemaphoresUntouched DEF IInv
<1> QED BY <1>1, <1>2

\* A step that changes nothing keeps the invariant.
LEMMA StutterIInv ==
  ASSUME IInv, UNCHANGED vars
  PROVE  IInv'
<1> USE DEF vars
<1>1. TypeOK' /\ ReadyListExact' /\ OneRunning'
  BY DEF IInv, TypeOK, ReadyListExact, OneRunning
<1>2. BlockedExact' /\ CarcassSafe' /\ InLoopAsleep'
  BY DEF IInv, BlockedExact, CarcassSafe, InLoopAsleep
<1> QED BY <1>1, <1>2, SemaphoresUntouched DEF IInv

\* Every step of the kernel keeps the invariant: one case for each action of Next.
LEMMA NextIInv == IInv /\ [Next]_vars => IInv'
<1> SUFFICES ASSUME IInv, [Next]_vars PROVE IInv'
  OBVIOUS
<1>1. ASSUME NEW s \in Sem, P(s) PROVE IInv'
  <2>1. /\ cpu = "running" /\ TestValue(s)
        /\ UNCHANGED <<currentThread, readyList, toBeDestroyed>>
    BY <1>1 DEF P
  <2>2. toBeDestroyed = NoThread /\ waitSem[currentThread] = NoSem
    BY <2>1, Zenon DEF IInv, TypeOK, CarcassSafe, InLoopAsleep, OneRunning
  <2> QED BY <2>1, <2>2, TestValueIInv
<1>2. ASSUME NEW s \in Sem, V(s) PROVE IInv'
  BY <1>2, IncrementIInv DEF V
<1>3. ASSUME NEW t \in Thread, Create(t) \/ Fork(t) PROVE IInv'
  BY <1>3, CreateIInv, ForkIInv
<1>4. ASSUME NEW s \in DeviceSem, DeviceInterrupt(s) PROVE IInv'
  BY <1>4, IncrementIInv, SemAssumption DEF DeviceInterrupt
<1>5. CASE Idle
  BY <1>5, StutterIInv DEF Idle
<1> QED
  BY <1>1, <1>2, <1>3, <1>4, <1>5, FinishIInv, YieldIInv, RunIInv,
     CheckToBeDestroyedIInv, ResumeIInv, StutterIInv DEF Next

----------------------------------------------------------------------------
(* Threads: the theorems *)

\* Every execution of the threads kernel, with any number of threads and
\* semaphores, keeps the inductive invariant.
THEOREM ThreadsInvariant == Spec => []IInv
BY InitIInv, NextIInv, PTL DEF Spec

\* The variables of the scheduler and the semaphores keep their types.
THEOREM ThreadsTypeOK == Spec => []TypeOK
<1>1. IInv => TypeOK
  BY DEF IInv
<1> QED BY <1>1, ThreadsInvariant, PTL

\* The scheduler's ready list, the running thread and the semaphore queues always
\* agree with Thread::status: no thread is lost or on two lists.
THEOREM ListsExact == Spec => []StatusExact
<1>1. IInv => StatusExact
  BY DEF IInv, StatusExact
<1> QED BY <1>1, ThreadsInvariant, PTL

\* Scheduler::Run and CheckToBeDestroyed delete a finished thread only off its
\* stack, once, and when nothing leads to it.
THEOREM CarcassSafety == Spec => []CarcassSafe
<1>1. IInv => CarcassSafe
  BY DEF IInv
<1> QED BY <1>1, ThreadsInvariant, PTL

\* Semaphore::P and V lose no wakeup.
THEOREM SemaphoreNoLostWakeup == Spec => []NoLostWakeup
<1>1. IInv => NoLostWakeup
  BY DEF IInv
<1> QED BY <1>1, ThreadsInvariant, PTL

----------------------------------------------------------------------------
(* SynchList: the inductive invariant *)

\* The threads that are about to append an item.
Appending == {u \in Thread : pc[u] \in {"append", "appending"}}

\* The threads that will look at the list before they wait (again).
Serving == Signalled \cup {t \in InMonitor : pc[t] = "removing"}

\* The invariants TLC checks, and the bound on appends.  NoItemForgotten needs
\* NoSignalLost (the thread that Signal wakes is not yet among those that will
\* look), which needs MutualExclusion (the list is tested and the thread queued
\* before anybody else can signal).
ListInv ==
  /\ MutualExclusion
  /\ NoSignalLost
  /\ NoItemForgotten
  /\ appended + Cardinality(Appending) <= MaxAppends

\* Sets of threads are finite.
LEMMA ThreadsFinite ==
  ASSUME NEW S \in SUBSET Thread
  PROVE  IsFiniteSet(S) /\ Cardinality(S) \in Nat
BY SynchListAssumption, FS_Subset, FS_CardinalityType

\* Mutual exclusion without counting: the lock is free and the monitor is empty,
\* or it is taken and one thread is inside.
LEMMA Exclusion ==
  ASSUME NEW S \in SUBSET Thread, NEW n \in 0 .. 1
  PROVE  Cardinality(S) + n = 1 <=> \/ n = 1 /\ S = {}
                                    \/ n = 0 /\ \E t \in Thread : S = {t}
<1>1. IsFiniteSet(S) /\ Cardinality(S) \in Nat
  BY ThreadsFinite
<1>2. Cardinality(S) = 0 <=> S = {}
  BY <1>1, FS_EmptySet
<1>3. Cardinality(S) = 1 <=> \E x : S = {x}
  BY <1>1, FS_Singleton, Zenon
<1>4. (\E x : S = {x}) <=> \E t \in Thread : S = {t}
  BY Zenon
<1> QED BY <1>1, <1>2, <1>3, <1>4

\* A thread inside the monitor is alone there, and the lock is taken.
LEMMA Alone ==
  ASSUME ListInv, NEW t \in InMonitor
  PROVE  InMonitor = {t} /\ semaphore = 0
<1>1. InMonitor \in SUBSET Thread /\ semaphore \in 0 .. 1
  BY DEF ListInv, MutualExclusion, ListTypeOK, InMonitor
<1>2. Cardinality(InMonitor) + semaphore = 1
  BY DEF ListInv, MutualExclusion
<1> QED BY <1>1, <1>2, Exclusion

\* The constructor establishes the invariant.
LEMMA InitListInv == ListInit => ListInv
<1> SUFFICES ASSUME ListInit PROVE ListInv
  OBVIOUS
<1> USE SynchListAssumption
<1>1. ListTypeOK
  BY DEF ListInit, ListTypeOK
<1>2. InMonitor = {} /\ Appending = {}
  BY DEF ListInit, InMonitor, Appending
<1>3. MutualExclusion
  BY <1>1, <1>2, FS_EmptySet DEF ListInit, MutualExclusion
<1>4. NoSignalLost
  BY DEF ListInit, NoSignalLost, IsInjective, Range
<1>5. NoItemForgotten
  BY DEF ListInit, NoItemForgotten
<1> QED BY <1>2, <1>3, <1>4, <1>5, FS_EmptySet DEF ListInit, ListInv

----------------------------------------------------------------------------
(* Steps that leave the list and the condition alone *)

\* An item is not forgotten by a step that adds none and after which the threads
\* that would have looked at the list still do.
LEMMA StillServed ==
  ASSUME ListInv, UNCHANGED <<list, waitQueue>>, Serving \subseteq Serving'
  PROVE  NoItemForgotten'
<1>1. Serving \in SUBSET Thread /\ Serving' \in SUBSET Thread
  BY DEF Serving, Signalled, InMonitor
<1>2. Cardinality(Serving) <= Cardinality(Serving')
  BY <1>1, ThreadsFinite, FS_Subset
<1>3. Len(list) \in Nat /\ Cardinality(Serving) \in Nat /\ Cardinality(Serving') \in Nat
  BY <1>1, ThreadsFinite, LenProperties DEF ListInv, MutualExclusion, ListTypeOK
<1>4. waitQueue # <<>> => Len(list) <= Cardinality(Serving)
  BY DEF ListInv, NoItemForgotten, Serving
<1>5. waitQueue' # <<>> => Len(list') <= Cardinality(Serving')
  BY <1>2, <1>3, <1>4
<1> QED BY <1>5 DEF NoItemForgotten, Serving

\* Lock::Acquire, by a thread outside the monitor that is not waiting.
LEMMA AcquireListInv ==
  ASSUME ListInv, NEW t \in Thread,
         \/ AcquireForAppend(t) \/ AcquireForRemove(t) \/ WaitAcquire(t)
  PROVE  ListInv'
<1> USE SynchListAssumption
<1>0. /\ pc[t] \in {"append", "remove", "signalled"}
      /\ pc' = [pc EXCEPT ![t] = IF pc[t] = "append" THEN "appending" ELSE "removing"]
      /\ semaphore > 0 /\ semaphore' = semaphore - 1
      /\ UNCHANGED <<list, appended, lockHolder, waitQueue, waiter>>
  BY DEF AcquireForAppend, AcquireForRemove, WaitAcquire, Acquire, Goto
<1>1. ListTypeOK'
  BY <1>0 DEF ListInv, MutualExclusion, ListTypeOK
<1>2. semaphore = 1 /\ InMonitor = {}
  <2>1. InMonitor \in SUBSET Thread /\ semaphore \in 0 .. 1
    BY DEF ListInv, MutualExclusion, ListTypeOK, InMonitor
  <2> QED BY <1>0, <2>1, Exclusion DEF ListInv, MutualExclusion
<1>3. InMonitor' = {t}
  BY <1>0, <1>2 DEF ListInv, MutualExclusion, ListTypeOK, InMonitor
<1>4. MutualExclusion'
  <2>1. Cardinality(InMonitor') + semaphore' = 1
    BY <1>0, <1>2, <1>3, FS_Singleton
  <2>2. \A u \in Thread : pc'[u] # "appended"
    BY <1>0, <1>2 DEF ListInv, MutualExclusion, ListTypeOK, InMonitor
  <2>3. lockHolder' = NoThread
    BY <1>0, <1>2 DEF ListInv, MutualExclusion
  <2> QED BY <1>1, <2>1, <2>2, <2>3 DEF MutualExclusion
<1>5. NoSignalLost'
  BY <1>0 DEF ListInv, MutualExclusion, ListTypeOK, NoSignalLost
<1>6. NoItemForgotten'
  <2>1. Serving \subseteq Serving'
    BY <1>0 DEF ListInv, MutualExclusion, ListTypeOK, Serving, Signalled, InMonitor
  <2> QED BY <1>0, <2>1, StillServed
<1>7. Appending' = Appending
  BY <1>0 DEF ListInv, MutualExclusion, ListTypeOK, Appending
<1> QED BY <1>0, <1>4, <1>5, <1>6, <1>7 DEF ListInv

\* The start of a call.
LEMMA CallListInv ==
  ASSUME ListInv, NEW t \in Thread, CallAppend(t) \/ CallRemove(t)
  PROVE  ListInv'
<1> USE SynchListAssumption
<1>0. /\ pc[t] = "idle"
      /\ \/ pc' = [pc EXCEPT ![t] = "append"] /\ appended + Cardinality(Appending) < MaxAppends
         \/ pc' = [pc EXCEPT ![t] = "remove"]
      /\ UNCHANGED <<list, appended, semaphore, lockHolder, waitQueue, waiter>>
  BY DEF CallAppend, CallRemove, Goto, Appending
<1>1. ListTypeOK'
  BY <1>0 DEF ListInv, MutualExclusion, ListTypeOK
<1>2. InMonitor' = InMonitor
  BY <1>0 DEF ListInv, MutualExclusion, ListTypeOK, InMonitor
<1>3. MutualExclusion'
  <2>1. \A u \in Thread : pc'[u] = "appended" => lockHolder' = u
    BY <1>0 DEF ListInv, MutualExclusion, ListTypeOK
  <2> QED BY <1>0, <1>1, <1>2, <2>1 DEF ListInv, MutualExclusion
<1>4. NoSignalLost'
  BY <1>0 DEF ListInv, MutualExclusion, ListTypeOK, NoSignalLost
<1>5. NoItemForgotten'
  <2>1. Serving \subseteq Serving'
    BY <1>0 DEF ListInv, MutualExclusion, ListTypeOK, Serving, Signalled, InMonitor
  <2> QED BY <1>0, <2>1, StillServed
<1>6. appended' + Cardinality(Appending') <= MaxAppends
  <2>1. CASE pc' = [pc EXCEPT ![t] = "remove"]
    <3>1. Appending' = Appending
      BY <1>0, <2>1 DEF ListInv, MutualExclusion, ListTypeOK, Appending
    <3> QED BY <1>0, <3>1 DEF ListInv
  <2>2. CASE /\ pc' = [pc EXCEPT ![t] = "append"]
             /\ appended + Cardinality(Appending) < MaxAppends
    <3>1. Appending' = Appending \cup {t} /\ t \notin Appending
      BY <1>0, <2>2 DEF ListInv, MutualExclusion, ListTypeOK, Appending
    <3>2. Appending \in SUBSET Thread
      BY DEF Appending
    <3>3. Cardinality(Appending') = Cardinality(Appending) + 1 /\ Cardinality(Appending) \in Nat
      BY <3>1, <3>2, ThreadsFinite, FS_AddElement
    <3>4. appended \in Nat
      BY DEF ListInv, MutualExclusion, ListTypeOK
    <3> QED BY <1>0, <2>2, <3>3, <3>4
  <2> QED BY <1>0, <2>1, <2>2
<1> QED BY <1>3, <1>4, <1>5, <1>6 DEF ListInv

\* waiter->P() in Condition::Wait: the thread was signalled, and stays so.
LEMMA WaitPListInv ==
  ASSUME ListInv, NEW t \in Thread, WaitP(t)
  PROVE  ListInv'
<1> USE SynchListAssumption
<1>0. /\ pc[t] = "waiting" /\ pc' = [pc EXCEPT ![t] = "signalled"]
      /\ waiter[t] = 1 /\ waiter' = [waiter EXCEPT ![t] = 0]
      /\ UNCHANGED <<list, appended, semaphore, lockHolder, waitQueue>>
  <2>1. waiter[t] \in 0 .. 1 /\ waiter[t] > 0
    BY DEF WaitP, ListInv, MutualExclusion, ListTypeOK
  <2>2. waiter[t] = 1
    BY <2>1
  <2> QED BY <2>2 DEF WaitP, Goto
<1>1. ListTypeOK'
  BY <1>0 DEF ListInv, MutualExclusion, ListTypeOK
<1>2. InMonitor' = InMonitor /\ Appending' = Appending
  BY <1>0 DEF ListInv, MutualExclusion, ListTypeOK, InMonitor, Appending
<1>3. MutualExclusion'
  <2>1. \A u \in Thread : pc'[u] = "appended" => lockHolder' = u
    BY <1>0 DEF ListInv, MutualExclusion, ListTypeOK
  <2> QED BY <1>0, <1>1, <1>2, <2>1 DEF ListInv, MutualExclusion
<1>4. NoSignalLost'
  BY <1>0 DEF ListInv, MutualExclusion, ListTypeOK, NoSignalLost
<1>5. NoItemForgotten'
  <2>1. Serving \subseteq Serving'
    BY <1>0 DEF ListInv, MutualExclusion, ListTypeOK, Serving, Signalled, InMonitor
  <2> QED BY <1>0, <2>1, StillServed
<1> QED BY <1>0, <1>2, <1>3, <1>4, <1>5 DEF ListInv

----------------------------------------------------------------------------
(* Steps of the thread in the monitor *)

\* Lock::Release at the end of a call, or in Condition::Wait.
LEMMA ReleaseExclusion ==
  ASSUME ListInv, ListTypeOK', NEW t \in InMonitor, Release,
         NEW to \in {"idle", "waiting"}, pc' = [pc EXCEPT ![t] = to]
  PROVE  MutualExclusion'
<1>1. InMonitor = {t} /\ semaphore = 0
  BY Alone
<1>2. InMonitor' = {}
  BY <1>1 DEF ListInv, MutualExclusion, ListTypeOK, InMonitor
<1>3. Cardinality(InMonitor') + semaphore' = 1
  BY <1>1, <1>2, FS_EmptySet DEF Release
<1>4. \A u \in Thread : pc'[u] # "appended"
  BY <1>2 DEF InMonitor
<1> QED BY <1>3, <1>4 DEF MutualExclusion, Release

\* The end of Append.
LEMMA ReleaseAfterAppendListInv ==
  ASSUME ListInv, NEW t \in Thread, ReleaseAfterAppend(t)
  PROVE  ListInv'
<1> USE SynchListAssumption
<1>0. /\ pc[t] = "appended" /\ pc' = [pc EXCEPT ![t] = "idle"]
      /\ Release
      /\ UNCHANGED <<list, appended, waitQueue, waiter>>
  BY DEF ReleaseAfterAppend, Goto
<1>1. t \in InMonitor
  BY <1>0 DEF InMonitor
<1>2. semaphore = 0
  BY <1>1, Alone
<1>3. ListTypeOK'
  BY <1>0, <1>2 DEF ListInv, MutualExclusion, ListTypeOK, Release
<1>4. MutualExclusion'
  BY <1>0, <1>1, <1>3, ReleaseExclusion, Zenon
<1>5. NoSignalLost'
  BY <1>0 DEF ListInv, MutualExclusion, ListTypeOK, NoSignalLost
<1>6. NoItemForgotten'
  <2>1. Serving \subseteq Serving'
    BY <1>0 DEF ListInv, MutualExclusion, ListTypeOK, Serving, Signalled, InMonitor
  <2> QED BY <1>0, <2>1, StillServed
<1>7. Appending' = Appending
  BY <1>0 DEF ListInv, MutualExclusion, ListTypeOK, Appending
<1> QED BY <1>0, <1>4, <1>5, <1>6, <1>7 DEF ListInv

\* The end of RemoveFront: one item less, one thread less that looks for one.
LEMMA RemoveAndReleaseListInv ==
  ASSUME ListInv, NEW t \in Thread, RemoveAndRelease(t)
  PROVE  ListInv'
<1> USE SynchListAssumption
<1>0. /\ pc[t] = "removing" /\ pc' = [pc EXCEPT ![t] = "idle"]
      /\ list # <<>> /\ list' = Tail(list)
      /\ Release
      /\ UNCHANGED <<appended, waitQueue, waiter>>
  BY DEF RemoveAndRelease, Goto
<1>1. t \in InMonitor
  BY <1>0 DEF InMonitor
<1>2. semaphore = 0
  BY <1>1, Alone
<1>3. list' \in Seq(1 .. MaxAppends) /\ Len(list') = Len(list) - 1 /\ Len(list) \in Nat
  BY <1>0, HeadTailProperties, LenProperties DEF ListInv, MutualExclusion, ListTypeOK
<1>4. ListTypeOK'
  BY <1>0, <1>2, <1>3 DEF ListInv, MutualExclusion, ListTypeOK, Release
<1>5. MutualExclusion'
  BY <1>0, <1>1, <1>4, ReleaseExclusion, Zenon
<1>6. NoSignalLost'
  BY <1>0 DEF ListInv, MutualExclusion, ListTypeOK, NoSignalLost
<1>7. NoItemForgotten'
  <2>1. Serving' = Serving \ {t} /\ t \in Serving /\ Serving \in SUBSET Thread
    BY <1>0 DEF ListInv, MutualExclusion, ListTypeOK, Serving, Signalled, InMonitor
  <2>2. Cardinality(Serving') = Cardinality(Serving) - 1 /\ Cardinality(Serving) \in Nat
    BY <2>1, ThreadsFinite, FS_RemoveElement
  <2>3. waitQueue # <<>> => Len(list) <= Cardinality(Serving)
    BY DEF ListInv, NoItemForgotten, Serving
  <2>4. waitQueue' # <<>> => Len(list') <= Cardinality(Serving')
    BY <1>0, <1>3, <2>2, <2>3
  <2> QED BY <2>4 DEF NoItemForgotten, Serving
<1>8. Appending' = Appending
  BY <1>0 DEF ListInv, MutualExclusion, ListTypeOK, Appending
<1> QED BY <1>0, <1>5, <1>6, <1>7, <1>8 DEF ListInv

\* Condition::Wait up to its Release: the thread joins the queue while the list is
\* empty and nobody else is in the monitor.
LEMMA WaitReleaseListInv ==
  ASSUME ListInv, NEW t \in Thread, WaitRelease(t)
  PROVE  ListInv'
<1> USE SynchListAssumption
<1>0. /\ pc[t] = "removing" /\ pc' = [pc EXCEPT ![t] = "waiting"]
      /\ waiter' = [waiter EXCEPT ![t] = 0]
      /\ waitQueue' = Append(waitQueue, t)
      /\ list = <<>>
      /\ Release
      /\ UNCHANGED <<list, appended>>
  BY DEF WaitRelease, Goto
<1>1. t \in InMonitor
  BY <1>0 DEF InMonitor
<1>2. semaphore = 0
  BY <1>1, Alone
<1>3. t \notin Range(waitQueue) /\ waitQueue \in Seq(Thread) /\ IsInjective(waitQueue)
  BY <1>0 DEF ListInv, MutualExclusion, ListTypeOK, NoSignalLost
<1>4. /\ waitQueue' \in Seq(Thread)
      /\ Range(waitQueue') = Range(waitQueue) \cup {t}
      /\ IsInjective(waitQueue')
  BY <1>0, <1>3, AppendList
<1>5. ListTypeOK'
  BY <1>0, <1>2, <1>4 DEF ListInv, MutualExclusion, ListTypeOK, Release
<1>6. MutualExclusion'
  BY <1>0, <1>1, <1>5, ReleaseExclusion, Zenon
<1>7. NoSignalLost'
  BY <1>0, <1>4 DEF ListInv, MutualExclusion, ListTypeOK, NoSignalLost
<1>8. NoItemForgotten'
  <2>1. Serving' \in SUBSET Thread
    BY DEF Serving, Signalled, InMonitor
  <2>2. Cardinality(Serving') \in Nat
    BY <2>1, ThreadsFinite
  <2>3. Len(list') = 0
    BY <1>0
  <2>4. Len(list') <= Cardinality(Serving')
    BY <2>2, <2>3
  <2> QED BY <2>4 DEF NoItemForgotten, Serving
<1>9. Appending' = Appending
  BY <1>0 DEF ListInv, MutualExclusion, ListTypeOK, Appending
<1> QED BY <1>0, <1>6, <1>7, <1>8, <1>9 DEF ListInv

\* The item is appended and the first waiter, if there is one, will look at the list.
LEMMA AppendAndSignalListInv ==
  ASSUME ListInv, NEW t \in Thread, AppendAndSignal(t)
  PROVE  ListInv' /\ appended < MaxAppends
<1> USE SynchListAssumption
<1>0. /\ pc[t] = "appending" /\ pc' = [pc EXCEPT ![t] = "appended"]
      /\ lockHolder' = t
      /\ appended' = appended + 1
      /\ list' = Append(list, appended + 1)
      /\ Signal
      /\ UNCHANGED semaphore
  BY DEF AppendAndSignal, Goto
<1>1. t \in InMonitor /\ InMonitor = {t} /\ semaphore = 0
  <2>1. t \in InMonitor
    BY <1>0 DEF InMonitor
  <2> QED BY <2>1, Alone
<1>2. /\ appended + 1 + Cardinality(Appending') <= MaxAppends
      /\ appended \in 0 .. MaxAppends
      /\ Cardinality(Appending') \in Nat
  <2>1. Appending' = Appending \ {t} /\ t \in Appending /\ Appending \in SUBSET Thread
    BY <1>0 DEF ListInv, MutualExclusion, ListTypeOK, Appending
  <2>2. /\ Cardinality(Appending') = Cardinality(Appending) - 1
        /\ Cardinality(Appending) \in Nat
        /\ Cardinality(Appending') \in Nat
    BY <2>1, ThreadsFinite, FS_RemoveElement
  <2>3. appended \in 0 .. MaxAppends /\ appended + Cardinality(Appending) <= MaxAppends
    BY DEF ListInv, MutualExclusion, ListTypeOK
  <2> QED BY <2>2, <2>3
<1>3. /\ list' \in Seq(1 .. MaxAppends)
      /\ Len(list') = Len(list) + 1
      /\ Len(list) \in Nat
  <2>1. list \in Seq(1 .. MaxAppends) /\ appended + 1 \in 1 .. MaxAppends
    BY <1>2 DEF ListInv, MutualExclusion, ListTypeOK
  <2> QED BY <1>0, <2>1, AppendProperties, LenProperties
<1>4. waitQueue \in Seq(Thread) /\ IsInjective(waitQueue)
  BY DEF ListInv, MutualExclusion, ListTypeOK, NoSignalLost
<1>5. InMonitor' = {t}
  BY <1>0, <1>1 DEF ListInv, MutualExclusion, ListTypeOK, InMonitor
<1>6. ASSUME ListTypeOK' PROVE MutualExclusion'
  <2>1. Cardinality(InMonitor') + semaphore' = 1
    <3>1. Cardinality(InMonitor) + semaphore = 1
      BY DEF ListInv, MutualExclusion
    <3>2. InMonitor' = InMonitor /\ semaphore' = semaphore
      BY <1>0, <1>1, <1>5
    <3> QED BY <3>1, <3>2
  <2>2. \A u \in Thread : pc'[u] = "appended" => u = t
    BY <1>5 DEF InMonitor
  <2> QED BY <1>0, <1>5, <1>6, <2>1, <2>2 DEF MutualExclusion
<1>7. CASE waitQueue = <<>>
  <2>1. UNCHANGED <<waiter, waitQueue>>
    BY <1>0, <1>7 DEF Signal
  <2>2. ListTypeOK'
    BY <1>0, <1>2, <1>3, <2>1 DEF ListInv, MutualExclusion, ListTypeOK
  <2>3. NoSignalLost'
    BY <1>0, <2>1 DEF ListInv, MutualExclusion, ListTypeOK, NoSignalLost
  <2>4. NoItemForgotten'
    BY <1>7, <2>1 DEF NoItemForgotten
  <2> QED BY <1>0, <1>2, <1>6, <2>2, <2>3, <2>4 DEF ListInv
<1>8. CASE waitQueue # <<>>
  <2> DEFINE h == Head(waitQueue)
  <2>1. /\ h \in Thread /\ h \in Range(waitQueue)
        /\ Tail(waitQueue) \in Seq(Thread)
        /\ Range(Tail(waitQueue)) = Range(waitQueue) \ {h}
        /\ IsInjective(Tail(waitQueue))
    BY <1>4, <1>8, RemoveFrontList
  <2>2. pc[h] = "waiting" /\ waiter[h] = 0 /\ h # t
    BY <1>0, <2>1 DEF ListInv, NoSignalLost
  <2>3. waiter' = [waiter EXCEPT ![h] = 1] /\ waitQueue' = Tail(waitQueue)
    BY <1>0, <1>8, <2>2 DEF Signal
  <2> HIDE DEF h
  <2>4. ListTypeOK'
    BY <1>0, <1>2, <1>3, <2>1, <2>3 DEF ListInv, MutualExclusion, ListTypeOK
  <2>5. NoSignalLost'
    BY <1>0, <2>1, <2>2, <2>3 DEF ListInv, MutualExclusion, ListTypeOK, NoSignalLost
  <2>6. NoItemForgotten'
    <3>1. Serving' = Serving \cup {h} /\ h \notin Serving /\ Serving \in SUBSET Thread
      <4>1. DOMAIN pc = Thread /\ DOMAIN waiter = Thread
        BY DEF ListInv, MutualExclusion, ListTypeOK
      <4>2. /\ \A u \in Thread : pc'[u] = IF u = t THEN "appended" ELSE pc[u]
            /\ \A u \in Thread : waiter'[u] = IF u = h THEN 1 ELSE waiter[u]
        BY Zenon, <1>0, <2>3, <4>1
      <4>3. h \notin Serving /\ t \notin Serving /\ Serving \in SUBSET Thread
        BY <1>0, <2>1, <2>2 DEF Serving, Signalled, InMonitor
      <4>4. ASSUME NEW u \in Thread PROVE u \in Serving' <=> u \in Serving \/ u = h
        BY SMTT(30), <1>0, <2>1, <2>2, <4>2 DEF Serving, Signalled, InMonitor
      <4>5. Serving' \in SUBSET Thread
        BY DEF Serving, Signalled, InMonitor
      <4> QED BY <2>1, <4>3, <4>4, <4>5
    <3>2. Cardinality(Serving') = Cardinality(Serving) + 1 /\ Cardinality(Serving) \in Nat
      BY <3>1, ThreadsFinite, FS_AddElement
    <3>3. Len(list) <= Cardinality(Serving)
      BY <1>8 DEF ListInv, NoItemForgotten, Serving
    <3>4. Len(list') <= Cardinality(Serving')
      BY <1>3, <3>2, <3>3
    <3> QED BY <3>4 DEF NoItemForgotten, Serving
  <2> QED BY <1>0, <1>2, <1>6, <2>4, <2>5, <2>6 DEF ListInv
<1>9. appended < MaxAppends
  BY <1>2
<1> QED BY <1>7, <1>8, <1>9

\* Every step keeps the invariant: one case for each kind of action.
LEMMA NextListInv == ListInv /\ [ListNext]_listVars => ListInv'
<1> SUFFICES ASSUME ListInv, [ListNext]_listVars PROVE ListInv'
  OBVIOUS
<1>1. ASSUME NEW t \in Thread, CallAppend(t) \/ CallRemove(t) PROVE ListInv'
  BY <1>1, CallListInv
<1>2. ASSUME NEW t \in Thread, TakeLock(t) PROVE ListInv'
  BY <1>2, AcquireListInv DEF TakeLock
<1>3. ASSUME NEW t \in Thread, GoOn(t) PROVE ListInv'
  BY <1>3, AppendAndSignalListInv, ReleaseAfterAppendListInv, RemoveAndReleaseListInv,
     WaitReleaseListInv, WaitPListInv DEF GoOn
<1>4. CASE UNCHANGED listVars
  BY <1>4 DEF listVars, ListInv, MutualExclusion, ListTypeOK, InMonitor, NoSignalLost,
              NoItemForgotten, Signalled, Appending
<1> QED BY <1>1, <1>2, <1>3, <1>4 DEF ListNext

----------------------------------------------------------------------------
(* SynchList: the theorems *)

\* Every execution keeps the inductive invariant, with any number of threads.
THEOREM SynchListInvariant == ListSpec => []ListInv
BY InitListInv, NextListInv, PTL DEF ListSpec

\* Lock lets one thread at a time into Append, RemoveFront and the code around
\* Condition::Wait, and no ASSERT about its holder fails.
THEOREM LockExcludes == ListSpec => []MutualExclusion
<1>1. ListInv => MutualExclusion
  BY DEF ListInv
<1> QED BY <1>1, SynchListInvariant, PTL

\* Condition::Wait and Signal lose no signal in the gap between Release and P.
THEOREM ConditionKeepsSignals == ListSpec => []NoSignalLost
<1>1. ListInv => NoSignalLost
  BY DEF ListInv
<1> QED BY <1>1, SynchListInvariant, PTL

\* While threads wait for the list, each item in it has a thread that will look.
THEOREM ItemsServed == ListSpec => []NoItemForgotten
<1>1. ListInv => NoItemForgotten
  BY DEF ListInv
<1> QED BY <1>1, SynchListInvariant, PTL

\* Each step of the monitor is a step of the blocking queue, or changes nothing
\* that the users of the queue see.
LEMMA StepSimulation ==
  ASSUME ListInv, [ListNext]_listVars
  PROVE  [Abstract!Next]_(Abstract!vars)
<1> USE DEF Abstract!vars, Abstract!Next
<1>1. ASSUME NEW t \in Thread, CallAppend(t) \/ TakeLock(t) \/ ReleaseAfterAppend(t)
                                \/ WaitRelease(t) \/ WaitP(t)
      PROVE  UNCHANGED <<list, appended, Removing>>
  BY <1>1 DEF CallAppend, TakeLock, AcquireForAppend, AcquireForRemove, WaitAcquire, Acquire,
              ReleaseAfterAppend, WaitRelease, WaitP, Goto, Removing,
              ListInv, MutualExclusion, ListTypeOK
<1>2. ASSUME NEW t \in Thread, CallRemove(t) PROVE Abstract!CallRemove(t)
  BY <1>2 DEF CallRemove, Abstract!CallRemove, Goto, Removing, ListInv, MutualExclusion, ListTypeOK
<1>3. ASSUME NEW t \in Thread, AppendAndSignal(t) PROVE Abstract!Append1
  <2>1. appended < MaxAppends
    BY <1>3, AppendAndSignalListInv
  <2>2. UNCHANGED Removing
    BY <1>3 DEF AppendAndSignal, Goto, Removing, ListInv, MutualExclusion, ListTypeOK
  <2> QED BY <1>3, <2>1, <2>2 DEF AppendAndSignal, Abstract!Append1
<1>4. ASSUME NEW t \in Thread, RemoveAndRelease(t) PROVE Abstract!Take(t)
  BY <1>4 DEF RemoveAndRelease, Abstract!Take, Goto, Removing, ListInv, MutualExclusion, ListTypeOK
<1>5. CASE UNCHANGED listVars
  BY <1>5 DEF listVars, Removing
<1> QED BY <1>1, <1>2, <1>3, <1>4, <1>5 DEF ListNext, GoOn

\* SynchList implements the blocking queue, fairness apart: items leave in the order
\* they came, each once, whatever Append and RemoveFront calls overlap.
THEOREM ImplementsSafety == ListSpec => Abstract!Init /\ [][Abstract!Next]_(Abstract!vars)
<1>1. ListInit => Abstract!Init
  BY DEF ListInit, Abstract!Init, Removing
<1> QED BY <1>1, StepSimulation, SynchListInvariant, PTL DEF ListSpec

----------------------------------------------------------------------------
(* Sockets: the inductive invariant *)

Datagram == DestPort \X Nat

\* A map is a function, a queue is a sequence.
Typed ==
  /\ bind_sockets \in [DOMAIN bind_sockets -> Socket] /\ DOMAIN bind_sockets \subseteq BindPort
  /\ datagrams \in [DOMAIN datagrams -> Seq(Datagram)]
  /\ receiving \in [Process -> BindPort \cup {NoPort}]
  /\ arrived \in [DestPort -> Seq(Datagram)]
  /\ taken \in [BindPort \cup DestPort -> Seq(Datagram)]

\* PortFIFO relates the queue of a port to what came in for it; it needs
\* QueueExists, since RemoveFront takes from the queue of the port it waits for.
SocketsInv == QueueExists /\ Typed /\ PortFIFO

\* The queue of a port; a port without one has nothing in it.
Queue(port) == IF port \in DOMAIN datagrams THEN datagrams[port] ELSE <<>>

----------------------------------------------------------------------------
(* The loop over bind_sockets *)

\* A finite set of integers has a lower bound: otherwise there would be a smallest
\* set without one, and what is left of it without one element has a bound.
LEMMA LowerBound ==
  ASSUME NEW S, IsFiniteSet(S), S \subseteq Int
  PROVE  \E b \in Int : \A x \in S : b <= x
<1> DEFINE Bounded(U) == \E b \in Int : \A x \in U : b <= x
           T == {n \in Nat : \E U \in SUBSET S : Cardinality(U) = n /\ ~ Bounded(U)}
<1>1. ASSUME ~ Bounded(S) PROVE FALSE
  <2>1. T \subseteq Nat /\ Cardinality(S) \in T
    BY <1>1, FS_CardinalityType
  <2>2. PICK n \in T : \A m \in T : n <= m
    <3> HIDE DEF T
    <3> QED BY Zenon, <2>1, LeastNatural
  <2>3. PICK U \in SUBSET S : Cardinality(U) = n /\ ~ Bounded(U)
    BY <2>2
  <2>4. U # {}
    BY <2>3
  <2>5. PICK e \in U : TRUE
    BY Zenon, <2>4
  <2>6. /\ Cardinality(U \ {e}) = n - 1
        /\ n - 1 \in Nat
    <3>1. IsFiniteSet(U)
      BY Zenon, FS_Subset
    <3>2. /\ Cardinality(U \ {e}) = Cardinality(U) - 1
          /\ Cardinality(U \ {e}) \in Nat
          /\ Cardinality(U) \in Nat
      BY <3>1, <2>5, FS_RemoveElement, FS_CardinalityType
    <3> QED BY <2>3, <3>2
  <2>7. Bounded(U \ {e})
    <3>1. n - 1 \notin T
      BY <2>2, <2>6
    <3> QED BY Zenon, <2>6, <3>1
  <2>8. PICK b \in Int : \A x \in U \ {e} : b <= x
    BY <2>7
  <2>9. \A x \in U : (IF b <= e THEN b ELSE e) <= x
    BY <2>8
  <2>10. (IF b <= e THEN b ELSE e) \in Int
    BY <2>5
  <2> QED BY <2>3, <2>9, <2>10
<1> QED BY <1>1

\* Min of a finite set of integers is its least element.
LEMMA MinOfFinite ==
  ASSUME NEW S, IsFiniteSet(S), S \subseteq Int, S # {}
  PROVE  Min(S) \in S /\ \A y \in S : Min(S) <= y
<1>1. PICK b \in Int : \A x \in S : b <= x
  BY Zenon, LowerBound
<1> DEFINE U == {n \in Nat : b + n \in S}
<1>2. U # {}
  <2>1. PICK x \in S : TRUE
    BY Zenon
  <2>2. x - b \in Nat /\ b + (x - b) = x
    BY <1>1, <2>1
  <2> QED BY Zenon, <2>2
<1>3. PICK n \in U : \A m \in U : n <= m
  <2>1. U \subseteq Nat
    OBVIOUS
  <2> HIDE DEF U
  <2> QED BY Zenon, <1>2, <2>1, LeastNatural
<1>4. ASSUME NEW y \in S PROVE b + n <= y
  <2>1. y - b \in U
    BY <1>1, y - b \in Nat /\ b + (y - b) = y
  <2> QED BY <1>3, <2>1
<1> QED BY Zenon, <1>3, <1>4 DEF Min


\* getData and deleteSocket find a port of the socket, when they find one.
LEMMA PortOfSocket ==
  ASSUME SocketsInv, NEW sock, PortOf(sock) # NoPort
  PROVE  PortOf(sock) \in DOMAIN bind_sockets /\ bind_sockets[PortOf(sock)] = sock
<1> DEFINE ports == {port \in DOMAIN bind_sockets : bind_sockets[port] = sock}
<1>1. ports # {} /\ PortOf(sock) = Min(ports)
  BY DEF PortOf
<1>2. IsFiniteSet(ports) /\ ports \subseteq Int
  <2>1. ports \subseteq BindPort
    BY DEF SocketsInv, Typed
  <2> QED BY Zenon, <2>1, SocketAssumption, FS_Subset
<1>3. Min(ports) \in ports
  <2> HIDE DEF ports
  <2> QED BY Zenon, <1>1, <1>2, MinOfFinite
<1> QED BY <1>1, <1>3

----------------------------------------------------------------------------
(* The invariant holds initially and is kept by every action *)

LEMMA InitSocketsInv == SocketsInit => SocketsInv
<1> SUFFICES ASSUME SocketsInit PROVE SocketsInv
  OBVIOUS
<1>1. DOMAIN <<>> = {}
  <2>1. DOMAIN <<>> = 1 .. 0
    BY EmptySeq, LenProperties
  <2> QED BY <2>1
<1>2. Typed
  BY <1>1 DEF SocketsInit, Typed
<1>3. PortFIFO /\ QueueExists
  BY <1>1 DEF SocketsInit, PortFIFO, QueueExists, Range, NoPort
<1> QED BY <1>2, <1>3 DEF SocketsInv

\* The port of a Bind has a queue afterwards, the old one if there is one.
LEMMA BindSocketsInv ==
  ASSUME SocketsInv, NEW p \in Process, NEW sock \in Socket, NEW port \in BindPort,
         Bind(p, sock, port)
  PROVE  SocketsInv'
<1>1. /\ bind_sockets' = Put(bind_sockets, port, sock)
      /\ datagrams' = IF port \in DOMAIN datagrams
                      THEN datagrams ELSE Put(datagrams, port, <<>>)
      /\ UNCHANGED <<receiving, arrived, taken>>
  BY DEF Bind
<1>2. /\ DOMAIN bind_sockets' = DOMAIN bind_sockets \cup {port}
      /\ bind_sockets' \in [DOMAIN bind_sockets' -> Socket]
  BY <1>1 DEF SocketsInv, Typed, Put
<1>3. /\ DOMAIN datagrams' = DOMAIN datagrams \cup {port}
      /\ datagrams' \in [DOMAIN datagrams' -> Seq(Datagram)]
      /\ \A r : Queue(r)' = Queue(r)
  <2>1. CASE port \in DOMAIN datagrams
    BY Zenon, <1>1, <2>1 DEF SocketsInv, Typed, Queue
  <2>2. CASE port \notin DOMAIN datagrams
    BY SMTT(30), <1>1, <2>2 DEF SocketsInv, Typed, Queue, Put
  <2> QED BY <2>1, <2>2
<1>5. QueueExists'
  BY <1>1, <1>2, <1>3 DEF SocketsInv, QueueExists
<1>6. Typed'
  BY <1>1, <1>2, <1>3 DEF SocketsInv, Typed
<1>7. PortFIFO'
  BY Zenon, <1>1, <1>3 DEF SocketsInv, PortFIFO, Queue
<1> QED BY <1>5, <1>6, <1>7 DEF SocketsInv

\* Close_Socket leaves the queue of its port and what is in it.
LEMMA CloseSocketsInv ==
  ASSUME SocketsInv, NEW p \in Process, NEW sock \in Socket, Close_Socket(p, sock)
  PROVE  SocketsInv'
<1>1. /\ bind_sockets' = IF PortOf(sock) # NoPort
                         THEN Erase(bind_sockets, PortOf(sock)) ELSE bind_sockets
      /\ UNCHANGED <<datagrams, receiving, arrived, taken>>
  BY DEF Close_Socket
<1>3. /\ DOMAIN bind_sockets' \subseteq DOMAIN bind_sockets
      /\ bind_sockets' \in [DOMAIN bind_sockets' -> Socket]
  <2>1. CASE PortOf(sock) = NoPort
    BY <1>1, <2>1 DEF SocketsInv, Typed
  <2>2. CASE PortOf(sock) # NoPort
    BY <1>1, <2>2 DEF SocketsInv, Typed, Erase, Restrict
  <2> QED BY <2>1, <2>2
<1>5. QueueExists'
  BY <1>1, <1>3 DEF SocketsInv, QueueExists
<1>6. Typed'
  BY <1>1, <1>3 DEF SocketsInv, Typed
<1>7. PortFIFO'
  BY Zenon, <1>1 DEF SocketsInv, PortFIFO
<1> QED BY <1>5, <1>6, <1>7 DEF SocketsInv

\* Recv_Msg waits for a port that is bound, and so has a queue.
LEMMA RecvSocketsInv ==
  ASSUME SocketsInv, NEW p \in Process, NEW sock \in Socket, Recv_Msg(p, sock)
  PROVE  SocketsInv'
<1>1. /\ receiving' = [receiving EXCEPT ![p] = PortOf(sock)]
      /\ UNCHANGED <<bind_sockets, datagrams, arrived, taken>>
  BY DEF Recv_Msg
<1>2. PortOf(sock) \in DOMAIN bind_sockets
  BY PortOfSocket DEF Recv_Msg
<1>3. /\ receiving' \in [Process -> BindPort \cup {NoPort}]
      /\ Range(receiving') \subseteq Range(receiving) \cup {PortOf(sock)}
  BY <1>1, <1>2 DEF SocketsInv, Typed, Range
<1>4. QueueExists'
  BY Zenon, <1>1, <1>2, <1>3 DEF SocketsInv, QueueExists
<1>5. Typed' /\ PortFIFO'
  BY <1>1, <1>3 DEF SocketsInv, Typed, PortFIFO
<1> QED BY <1>4, <1>5 DEF SocketsInv

\* RemoveFront hands out the oldest datagram of the port.
LEMMA RemoveFrontSocketsInv ==
  ASSUME SocketsInv, NEW p \in Process, RemoveFront(p)
  PROVE  SocketsInv'
<1> DEFINE port == receiving[p]
<1>1. /\ port # NoPort /\ datagrams[port] # <<>>
      /\ taken' = [taken EXCEPT ![port] = Append(@, Head(datagrams[port]))]
      /\ datagrams' = [datagrams EXCEPT ![port] = Tail(@)]
      /\ receiving' = [receiving EXCEPT ![p] = NoPort]
      /\ UNCHANGED <<bind_sockets, arrived>>
  BY DEF RemoveFront
<1>2. /\ port \in BindPort
      /\ port \in DOMAIN datagrams
      /\ datagrams[port] \in Seq(Datagram)
      /\ taken[port] \in Seq(Datagram)
  BY <1>1 DEF SocketsInv, QueueExists, Typed, Range
<1>3. /\ receiving' \in [Process -> BindPort \cup {NoPort}]
      /\ Range(receiving') \subseteq Range(receiving) \cup {NoPort}
  BY <1>1 DEF SocketsInv, Typed, Range
<1> HIDE DEF port
<1>4. /\ Head(datagrams[port]) \in Datagram
      /\ Tail(datagrams[port]) \in Seq(Datagram)
      /\ Append(taken[port], Head(datagrams[port])) \in Seq(Datagram)
      /\ Append(taken[port], Head(datagrams[port])) \o Tail(datagrams[port])
           = taken[port] \o datagrams[port]
  <2> DEFINE s == taken[port]
             q == datagrams[port]
  <2>1. s \in Seq(Datagram) /\ q \in Seq(Datagram) /\ q # <<>>
    BY <1>1, <1>2
  <2> HIDE DEF s, q
  <2>2. /\ Head(q) \in Datagram
        /\ Tail(q) \in Seq(Datagram)
        /\ Append(s, Head(q)) \in Seq(Datagram)
    BY <2>1, HeadTailProperties, AppendProperties
  <2>3. Append(s, Head(q)) \o Tail(q) = s \o q
    BY <2>1, TakeFirst
  <2> QED BY Zenon, <2>2, <2>3 DEF s, q
<1>5. DOMAIN datagrams' = DOMAIN datagrams
  BY <1>1
<1>6. Typed'
  BY <1>1, <1>2, <1>3, <1>4, <1>5 DEF SocketsInv, Typed
<1>7. QueueExists'
  BY Zenon, <1>1, <1>3, <1>5 DEF SocketsInv, QueueExists
<1>8. PortFIFO'
  <2> SUFFICES ASSUME NEW r \in DestPort
               PROVE  taken'[r] \o (IF r \in DOMAIN datagrams' THEN datagrams'[r] ELSE <<>>)
                        = arrived'[r]
    BY Zenon DEF PortFIFO
  <2>1. CASE r = port
    <3>1. /\ taken'[r] = Append(taken[port], Head(datagrams[port]))
          /\ datagrams'[r] = Tail(datagrams[port])
      BY <1>1, <1>2, <2>1 DEF SocketsInv, Typed
    <3>2. taken[port] \o datagrams[port] = arrived[port]
      BY Zenon, <1>2, <2>1 DEF SocketsInv, PortFIFO
    <3> QED BY <1>1, <1>2, <1>4, <1>5, <2>1, <3>1, <3>2
  <2>2. CASE r # port
    BY <1>1, <1>5, <2>2 DEF SocketsInv, PortFIFO, Typed
  <2> QED BY Zenon, <2>1, <2>2
<1> QED BY <1>6, <1>7, <1>8 DEF SocketsInv

\* putData queues the datagram last, and makes a queue when there is none.
LEMMA PutDataSocketsInv ==
  ASSUME SocketsInv, NEW port \in DestPort, putData(port)
  PROVE  SocketsInv'
<1> DEFINE d == NextData(port)
<1>1. /\ arrived' = [arrived EXCEPT ![port] = Append(@, d)]
      /\ datagrams' = Put(datagrams, port, Append(Queue(port), d))
      /\ UNCHANGED <<bind_sockets, receiving, taken>>
  BY DEF putData, Queue
<1>2. /\ arrived[port] \in Seq(Datagram)
      /\ taken[port] \in Seq(Datagram)
      /\ Queue(port) \in Seq(Datagram)
  BY DEF SocketsInv, Typed, Queue
<1>3. d \in Datagram
  <2>1. Len(arrived[port]) + 1 \in Nat
    BY <1>2, LenProperties
  <2> QED BY <2>1 DEF NextData, Datagram
<1> HIDE DEF d
<1>4. /\ Append(arrived[port], d) \in Seq(Datagram)
      /\ Append(Queue(port), d) \in Seq(Datagram)
      /\ taken[port] \o Append(Queue(port), d) = Append(taken[port] \o Queue(port), d)
  <2>1. Append(arrived[port], d) \in Seq(Datagram) /\ Append(Queue(port), d) \in Seq(Datagram)
    BY <1>2, <1>3, AppendProperties
  <2>2. taken[port] \o Append(Queue(port), d) = Append(taken[port] \o Queue(port), d)
    <3> DEFINE s == taken[port]
               q == Queue(port)
    <3>1. s \in Seq(Datagram) /\ q \in Seq(Datagram)
      BY <1>2
    <3> HIDE DEF s, q
    <3>2. s \o Append(q, d) = Append(s \o q, d)
      BY <1>3, <3>1, PutLast
    <3> QED BY <3>2 DEF s, q
  <2> QED BY <2>1, <2>2
<1>5. /\ DOMAIN datagrams' = DOMAIN datagrams \cup {port}
      /\ datagrams'[port] = Append(Queue(port), d)
      /\ \A r \in DOMAIN datagrams \ {port} : datagrams'[r] = datagrams[r]
      /\ datagrams' \in [DOMAIN datagrams' -> Seq(Datagram)]
  BY <1>1, <1>4 DEF SocketsInv, Typed, Put
<1>6. Typed'
  BY <1>1, <1>4, <1>5 DEF SocketsInv, Typed
<1>7. QueueExists'
  BY <1>1, <1>5 DEF SocketsInv, QueueExists
<1>8. PortFIFO'
  <2> SUFFICES ASSUME NEW r \in DestPort
               PROVE  taken'[r] \o (IF r \in DOMAIN datagrams' THEN datagrams'[r] ELSE <<>>)
                        = arrived'[r]
    BY Zenon DEF PortFIFO
  <2>1. CASE r = port
    <3>1. taken[port] \o Queue(port) = arrived[port]
      BY Zenon DEF SocketsInv, PortFIFO, Queue
    <3>2. arrived'[r] = Append(arrived[port], d)
      BY <1>1, <2>1 DEF SocketsInv, Typed
    <3> QED BY Zenon, <1>1, <1>4, <1>5, <2>1, <3>1, <3>2
  <2>2. CASE r # port
    <3>1. taken'[r] = taken[r] /\ arrived'[r] = arrived[r]
      BY <1>1, <2>2 DEF SocketsInv, Typed
    <3>2. /\ r \in DOMAIN datagrams' <=> r \in DOMAIN datagrams
          /\ r \in DOMAIN datagrams => datagrams'[r] = datagrams[r]
      BY Zenon, <1>5, <2>2
    <3> QED BY Zenon, <3>1, <3>2 DEF SocketsInv, PortFIFO
  <2> QED BY Zenon, <2>1, <2>2
<1> QED BY <1>6, <1>7, <1>8 DEF SocketsInv

\* Create_Socket, Connect and sending change nothing the invariant is about.
LEMMA OtherSocketsInv ==
  ASSUME SocketsInv,
         UNCHANGED <<bind_sockets, datagrams, receiving, arrived, taken>>
  PROVE  SocketsInv'
BY DEF SocketsInv, QueueExists, Typed, PortFIFO

LEMMA NextSocketsInv == SocketsInv /\ [SocketsNext]_socketsVars => SocketsInv'
<1> SUFFICES ASSUME SocketsInv, [SocketsNext]_socketsVars PROVE SocketsInv'
  OBVIOUS
<1>1. ASSUME NEW p \in Process, Call(p) PROVE SocketsInv'
  <2>1. ASSUME NEW sock \in Socket, Send_Msg(p, sock) PROVE SocketsInv'
    BY <2>1, OtherSocketsInv DEF Send_Msg
  <2>2. ASSUME NEW sock \in Socket, NEW ip \in IP, Connect(p, sock, ip) PROVE SocketsInv'
    BY <2>2, OtherSocketsInv DEF Connect
  <2>3. ASSUME Create_Socket(p) PROVE SocketsInv'
    BY <2>3, OtherSocketsInv DEF Create_Socket
  <2> QED BY <1>1, <2>1, <2>2, <2>3, BindSocketsInv, CloseSocketsInv, RecvSocketsInv DEF Call
<1>2. ASSUME NEW p \in Process, SendFragment(p) PROVE SocketsInv'
  BY <1>2, OtherSocketsInv DEF SendFragment
<1>3. ASSUME NEW p \in Process, RemoveFront(p) PROVE SocketsInv'
  BY <1>3, RemoveFrontSocketsInv
<1>4. ASSUME NEW port \in DestPort, putData(port) PROVE SocketsInv'
  BY <1>4, PutDataSocketsInv
<1>5. CASE UNCHANGED socketsVars
  BY <1>5, OtherSocketsInv DEF socketsVars
<1> QED BY <1>1, <1>2, <1>3, <1>4, <1>5 DEF SocketsNext

----------------------------------------------------------------------------
(* Sockets: the theorems *)

\* Every execution keeps the inductive invariant.
THEOREM SocketsInvariant == SocketsSpec => []SocketsInv
BY InitSocketsInv, NextSocketsInv, PTL DEF SocketsSpec

\* Whatever socket numbers the calls name, getData finds a queue for every port it
\* is asked about: no entry of datagrams is
\* made by operator[], with a pointer nobody has set.
THEOREM QueuesExist == SocketsSpec => []QueueExists
<1>1. SocketsInv => QueueExists
  BY DEF SocketsInv
<1> QED BY <1>1, SocketsInvariant, PTL

\* No datagram of a port is lost, duplicated or reordered between putData and Recv_Msg.
THEOREM PortsAreFIFO == SocketsSpec => []PortFIFO
<1>1. SocketsInv => PortFIFO
  BY DEF SocketsInv
<1> QED BY <1>1, SocketsInvariant, PTL

\* A step takes a port from a socket only if it is Close_Socket of that socket.
LEMMA StepKeepsPorts ==
  ASSUME SocketsInv, [SocketsNext]_socketsVars, NEW port \in DOMAIN bind_sockets
  PROVE  \/ port \in DOMAIN bind_sockets' /\ bind_sockets'[port] = bind_sockets[port]
         \/ \E p \in Process : Close_Socket(p, bind_sockets[port])
<1> DEFINE Kept == port \in DOMAIN bind_sockets' /\ bind_sockets'[port] = bind_sockets[port]
<1>1. ASSUME NEW p \in Process, NEW sock \in Socket, NEW r \in BindPort, Bind(p, sock, r)
      PROVE  Kept
  BY <1>1 DEF Bind, Put
<1>2. ASSUME NEW p \in Process, NEW sock \in Socket, Close_Socket(p, sock)
      PROVE  Kept \/ Close_Socket(p, bind_sockets[port])
  <2>1. CASE PortOf(sock) = NoPort
    BY <1>2, <2>1 DEF Close_Socket
  <2>2. CASE PortOf(sock) # NoPort
    <3>1. bind_sockets[PortOf(sock)] = sock
      BY <2>2, PortOfSocket
    <3>2. CASE port = PortOf(sock)
      BY <1>2, <3>1, <3>2
    <3>3. CASE port # PortOf(sock)
      BY <1>2, <2>2, <3>3 DEF Close_Socket, Erase, Restrict
    <3> QED BY <3>2, <3>3
  <2> QED BY <2>1, <2>2
<1>3. CASE UNCHANGED bind_sockets
  BY <1>3
<1>4. CASE \E p \in Process : Call(p)
  <2>1. PICK p \in Process : Call(p)
    BY <1>4
  <2>2. CASE \E sock \in Socket : \E r \in BindPort : Bind(p, sock, r)
    BY <1>1, <2>2
  <2>3. CASE \E sock \in Socket : Close_Socket(p, sock)
    BY <1>2, <2>3
  <2>4. \/ UNCHANGED bind_sockets
        \/ \E sock \in Socket : \E r \in BindPort : Bind(p, sock, r)
        \/ \E sock \in Socket : Close_Socket(p, sock)
    BY <2>1 DEF Call, Create_Socket, Connect, Send_Msg, Recv_Msg
  <2> QED BY <1>3, <2>2, <2>3, <2>4
<1>5. CASE ~ \E p \in Process : Call(p)
  <2>1. UNCHANGED bind_sockets
    BY <1>5 DEF SocketsNext, socketsVars, SendFragment, RemoveFront, putData
  <2> QED BY <1>3, <2>1
<1> QED BY <1>4, <1>5

\* A port changes hands only through Close_Socket of the socket that has it.
THEOREM PortsNotStolen == SocketsSpec => NoStealing
<1>1. SocketsInv /\ [SocketsNext]_socketsVars =>
        [\A port \in DOMAIN bind_sockets :
           \/ port \in DOMAIN bind_sockets' /\ bind_sockets'[port] = bind_sockets[port]
           \/ \E p \in Process : Close_Socket(p, bind_sockets[port])]_socketsVars
  BY StepKeepsPorts
<1> QED BY <1>1, SocketsInvariant, PTL DEF SocketsSpec, NoStealing

-----------------------------------------------------------------------------
(* The disk: arithmetic *)

\* Division with remainder, for a divisor that is not a literal.
LEMMA Division ==
    ASSUME NEW a \in Int, NEW n \in Nat \ {0}
    PROVE  /\ a \div n \in Int
           /\ a % n \in 0 .. n - 1
           /\ a = n * (a \div n) + (a % n)
<1>1. a \div n \in Int /\ a % n \in 0 .. n - 1
  OBVIOUS
<1>2. a % n = a - n * (a \div n)
  OBVIOUS
<1> QED BY <1>1, <1>2

\* A product by a positive number keeps the order, and its order is kept.
LEMMA Product ==
    ASSUME NEW n \in Nat \ {0}, NEW x \in Int, NEW y \in Int
    PROVE  /\ n * x \in Int
           /\ x <= y <=> n * x <= n * y
           /\ n * (x + y) = n * x + n * y
           /\ n * (x - y) = n * x - n * y
<1>1. n * x \in Int /\ n * y \in Int
  OBVIOUS
<1>2. n * (x + y) = n * x + n * y /\ n * (x - y) = n * x - n * y
  OBVIOUS
<1>3. x <= y => n * x <= n * y
  OBVIOUS
<1>4. ~(x <= y) => ~(n * x <= n * y)
  OBVIOUS
<1> QED BY <1>1, <1>2, <1>3, <1>4

\* The remainder is the only one that is less than the divisor.
LEMMA Remainder ==
    ASSUME NEW n \in Nat \ {0}, NEW q \in Int, NEW r \in 0 .. n - 1
    PROVE  (n * q + r) % n = r
<1> DEFINE a == n * q + r
           z == q - (a \div n)
<1>1. a \in Int /\ z \in Int
  BY Product, Division
<1>2. a = n * (a \div n) + (a % n) /\ a % n \in 0 .. n - 1 /\ a \div n \in Int
  BY <1>1, Division
<1>3. n * z = n * q - n * (a \div n)
  BY <1>2, Product
<1> HIDE DEF z
<1>4. n * z = (a % n) - r
  BY <1>2, <1>3, Product
<1>5. n * z < n /\ n * z > -n
  BY <1>2, <1>4
<1>6. z = 0
  BY <1>1, <1>5
<1>7. n * z = 0
  BY <1>6
<1> QED BY <1>2, <1>4, <1>7

\* Two numbers with the same remainder are at least the divisor apart.
LEMMA SameRemainder ==
    ASSUME NEW n \in Nat \ {0}, NEW a \in Int, NEW b \in Int,
           a < b, a % n = b % n
    PROVE  b - a >= n
<1> DEFINE z == (b \div n) - (a \div n)
<1>1. /\ a = n * (a \div n) + (a % n) /\ a \div n \in Int /\ a % n \in Int
      /\ b = n * (b \div n) + (b % n) /\ b \div n \in Int
  BY Division
<1>2. n * z = n * (b \div n) - n * (a \div n)
  BY <1>1, Product
<1>3. z \in Int
  BY <1>1
<1> HIDE DEF z
<1>4. n * z = b - a
  BY <1>1, <1>2, Product
<1>5. z >= 1
  <2>1. CASE z <= 0
    <3>1. n * z <= n * 0
      BY <2>1, <1>3, Product
    <3> QED BY <3>1, <1>4
  <2> QED BY <2>1, <1>3
<1>6. n * 1 <= n * z
  BY <1>5, <1>3, Product
<1> QED BY <1>4, <1>6

\* ModuloDiff says how many sectors after the one under the head in the passing
\* numbered q the sector s passes for the first time.
LEMMA NextPassing ==
    ASSUME NEW s \in Nat, NEW q \in Nat
    PROVE  /\ ModuloDiff(s, q) \in Nat /\ ModuloDiff(s, q) < SectorsPerTrack
           /\ (q + ModuloDiff(s, q)) % SectorsPerTrack = s % SectorsPerTrack
           /\ \A k \in Nat : k >= q /\ k % SectorsPerTrack = s % SectorsPerTrack
                               => k >= q + ModuloDiff(s, q)
<1> DEFINE n == SectorsPerTrack
           x == (s % n) - (q % n) + n
           y == (q \div n) + 1 - (x \div n)
<1>1. n \in Nat \ {0}
  BY DiskAssumption
<1> HIDE DEF n
<1>2. /\ s % n \in 0 .. n - 1 /\ q % n \in 0 .. n - 1
      /\ q = n * (q \div n) + (q % n) /\ q \div n \in Int
  BY <1>1, Division
<1>3. x \in Int
  BY <1>1, <1>2
<1> HIDE DEF x
<1>4. x % n \in 0 .. n - 1 /\ x = n * (x \div n) + (x % n) /\ x \div n \in Int
  BY <1>1, <1>3, Division
<1>5. ModuloDiff(s, q) = x % n
  BY DEF ModuloDiff, x, n
<1>6. n * y = n * (q \div n) + n - n * (x \div n)
  <2>1. \A u, v \in Int : n * (u + 1 - v) = n * u + n - n * v
    BY <1>1
  <2> QED BY <1>2, <1>4, <2>1
<1>7. y \in Int
  BY <1>2, <1>4
<1> HIDE DEF y
<1>8. q + (x % n) = n * y + (s % n)
  <2> DEFINE a == n * (q \div n)
             b == n * (x \div n)
  <2>1. a \in Int /\ b \in Int /\ q = a + (q % n) /\ x = b + (x % n) /\ n * y = a + n - b
    BY <1>1, <1>2, <1>4, <1>6, Product
  <2> HIDE DEF a, b
  <2>2. x = (s % n) - (q % n) + n
    BY DEF x
  <2> QED BY <1>1, <1>2, <1>4, <2>1, <2>2
<1>9. (q + (x % n)) % n = s % n
  BY Zenon, <1>1, <1>2, <1>7, <1>8, Remainder
<1>10. ASSUME NEW k \in Nat, k >= q, k % n = s % n, k < q + (x % n)
       PROVE  FALSE
  <2>1. q + (x % n) - k >= n
    BY <1>1, <1>4, <1>9, <1>10, SameRemainder
  <2> QED BY <1>1, <1>4, <1>10, <2>1
<1>11. \A k \in Nat : k >= q /\ k % n = s % n => k >= q + (x % n)
  BY <1>4, <1>10
<1>12. x % n \in Nat /\ x % n < n
  BY <1>1, <1>4
<1> QED BY <1>5, <1>9, <1>11, <1>12, Zenon DEF n

-----------------------------------------------------------------------------
\* The clock is never behind the time the track buffer began to be loaded, and
\* that was at a sector boundary.
DiskInv == /\ totalTicks \in Nat /\ bufferInit \in Nat
           /\ lastSector \in Sectors
           /\ bufferInit <= totalTicks
           /\ bufferInit % RotationTime = 0
           /\ LatencyRight

\* The head is at a sector boundary when TimeToSeek's time has passed, and it
\* waits for less than the time of a sector to be there.
LEMMA AtBoundary ==
    ASSUME DiskInv, NEW s \in Sectors
    PROVE  /\ s \in Nat /\ Seek(s) \in Nat
           /\ Rotation(s) \in 0 .. RotationTime - 1
           /\ \E q \in Nat : totalTicks + Seek(s) + Rotation(s) = RotationTime * q
<1> DEFINE n == RotationTime
           a == totalTicks + Seek(s)
<1>1. n \in Nat \ {0} /\ SectorsPerTrack \in Nat \ {0} /\ SeekTime \in Nat
  BY DiskAssumption
<1>2. Sectors \subseteq Nat
  <2>1. SectorsPerTrack * NumTracks \in Int
    BY DiskAssumption
  <2> QED BY <2>1 DEF Sectors
<1>3. s \in Nat /\ lastSector \in Nat
  BY <1>2 DEF DiskInv
<1>4. Seek(s) \in Nat
  <2>1. Track(s) \in Int /\ Track(lastSector) \in Int
    BY <1>1, <1>3, Division DEF Track
  <2> DEFINE t == Track(s) - Track(lastSector)
             m == IF t < 0 THEN -t ELSE t
  <2>2. m \in Nat
    BY <2>1
  <2> HIDE DEF m
  <2>3. m * SeekTime \in Nat
    BY <1>1, <2>2
  <2> QED BY <2>3 DEF Seek, m
<1>5. a \in Nat
  BY <1>4 DEF DiskInv
<1>6. Rotation(s) = IF a % n > 0 THEN n - (a % n) ELSE 0
  BY DEF Rotation
<1> HIDE DEF a, n
<1>7. a % n \in 0 .. n - 1 /\ a = n * (a \div n) + (a % n) /\ a \div n \in Int
  BY <1>1, <1>5, Division
<1>8. Rotation(s) \in 0 .. n - 1
  BY <1>1, <1>6, <1>7
<1>9. \E q \in Int : a + Rotation(s) = n * q
  <2>1. CASE a % n > 0
    <3>1. n * ((a \div n) + 1) = n * (a \div n) + n
      <4>1. \A u \in Int : n * (u + 1) = n * u + n
        BY <1>1
      <4> QED BY <1>7, <4>1
    <3>2. a + Rotation(s) = n * ((a \div n) + 1)
      <4>1. \A u, r \in Int : a = u + r => a + (n - r) = u + n
        BY <1>1, <1>5
      <4>2. n * (a \div n) \in Int
        BY <1>1, <1>7
      <4>3. Rotation(s) = n - (a % n) /\ a % n \in Int
        BY <1>6, <1>7, <2>1
      <4>4. a + (n - (a % n)) = n * (a \div n) + n
        BY <1>7, <4>1, <4>2, <4>3
      <4> QED BY <3>1, <4>3, <4>4, Zenon
    <3> QED BY <1>7, <3>2
  <2>2. CASE ~(a % n > 0)
    <3>1. a % n = 0 /\ Rotation(s) = 0
      BY <1>1, <1>6, <1>7, <2>2
    <3>2. a + Rotation(s) = n * (a \div n)
      <4>1. \A u \in Int : a = u + 0 => a + 0 = u
        BY <1>5
      <4>2. n * (a \div n) \in Int /\ a = n * (a \div n) + 0
        BY <1>1, <1>7, <3>1
      <4> QED BY <3>1, <4>1, <4>2, Zenon
    <3> QED BY <1>7, <3>2
  <2> QED BY <2>1, <2>2
<1>10. PICK q \in Int : a + Rotation(s) = n * q
  BY <1>9
<1>11. q >= 0
  <2>1. CASE q < 0
    <3>1. n * q < 0
      BY <1>1, <2>1
    <3> QED BY <1>5, <1>8, <1>10, <3>1
  <2> QED BY <2>1
<1> QED BY <1>3, <1>4, <1>8, <1>10, <1>11 DEF a, n

\* What the sector boundaries say of a sector's passing: it takes from one
\* boundary to the next.
LEMMA Boundaries ==
    ASSUME NEW k \in Nat
    PROVE  /\ k * RotationTime = RotationTime * k
           /\ (k + 1) * RotationTime = RotationTime * k + RotationTime
           /\ RotationTime * k \in Nat /\ k <= RotationTime * k
BY DiskAssumption

\* A passing that takes place from the time from to the time to is one of those
\* Passed looks for.
LEMMA PassedBy ==
    ASSUME NEW s \in Nat, NEW from \in Nat, NEW to \in Nat, NEW k \in Nat,
           k % SectorsPerTrack = s % SectorsPerTrack,
           from <= RotationTime * k, RotationTime * k + RotationTime <= to
    PROVE  Passed(s, from, to)
<1>1. k \in 0 .. to
  BY Boundaries, DiskAssumption
<1>2. k * RotationTime >= from /\ (k + 1) * RotationTime <= to
  BY Boundaries
<1> QED BY <1>1, <1>2 DEF Passed


\* What ComputeLatency returns, in passings: the sector is buffered when it has
\* passed since the one numbered p, in which the track buffer began to be loaded,
\* and before the one numbered q, which is next.
LEMMA Latency ==
    ASSUME DiskInv, NEW s \in Sectors, NEW writing \in BOOLEAN,
           NEW p \in Nat, bufferInit = RotationTime * p,
           NEW q \in Nat, totalTicks + Seek(s) + Rotation(s) = RotationTime * q
    PROVE  ComputeLatency(s, writing) =
               IF ~writing /\ Seek(s) = 0 /\ q - p > ModuloDiff(s, p) THEN RotationTime
               ELSE Seek(s) + Rotation(s) + RotationTime
                    + ModuloDiff(s, q) * RotationTime
<1>1. \A x \in Int : (RotationTime * x) \div RotationTime = x
  BY DiskAssumption
<1>2. bufferInit \div RotationTime = p
  BY <1>1
<1>3. (totalTicks + Seek(s) + Rotation(s)) \div RotationTime = q
  BY <1>1
<1>4. (totalTicks + Seek(s) + Rotation(s)) - bufferInit = RotationTime * (q - p)
  <2>1. RotationTime * (q - p) = RotationTime * q - RotationTime * p
    BY DiskAssumption
  <2> QED BY <2>1
<1>5. q - p \in Int
  OBVIOUS
<1>6. ((totalTicks + Seek(s) + Rotation(s)) - bufferInit) \div RotationTime = q - p
  BY <1>1, <1>4, <1>5
<1> QED BY <1>2, <1>3, <1>6 DEF ComputeLatency

\* A request that the track buffer serves: the sector has passed, whole, before
\* the one transfer ends.
LEMMA BufferedServed ==
    ASSUME DiskInv, NEW s \in Sectors,
           NEW p \in Nat, bufferInit = RotationTime * p,
           NEW q \in Nat, totalTicks + Rotation(s) = RotationTime * q,
           Rotation(s) \in 0 .. RotationTime - 1, s \in Nat,
           q - p > ModuloDiff(s, p)
    PROVE  Passed(s, bufferInit, totalTicks + RotationTime)
<1> DEFINE k == p + ModuloDiff(s, p)
<1>1. ModuloDiff(s, p) \in Nat /\ k % SectorsPerTrack = s % SectorsPerTrack
  BY NextPassing, Zenon
<1>2. k \in Nat /\ p <= k /\ k + 1 <= q
  BY <1>1
<1> HIDE DEF k
<1>3. RotationTime * p <= RotationTime * k
  BY <1>2, Product, DiskAssumption
<1>4. RotationTime * (k + 1) <= RotationTime * q
  BY <1>2, Product, DiskAssumption
<1>5. RotationTime * (k + 1) = RotationTime * k + RotationTime
  BY <1>2, DiskAssumption
<1>6. RotationTime * k + RotationTime <= totalTicks + Rotation(s)
  BY <1>4, <1>5
<1>7. RotationTime * k \in Nat
  BY <1>2, Boundaries
<1>8. RotationTime * k + RotationTime <= totalTicks + RotationTime
  BY <1>6, <1>7, DiskAssumption DEF DiskInv
<1>9. totalTicks + RotationTime \in Nat /\ bufferInit \in Nat
  BY DiskAssumption DEF DiskInv
<1> QED BY <1>1, <1>2, <1>3, <1>8, <1>9, PassedBy

\* A request that waits for the disk: from is at or before the next boundary q,
\* and no passing of the sector from then on came before q.  It ends with the first
\* passing, and no earlier.
LEMMA WaitServed ==
    ASSUME NEW s \in Nat, NEW q \in Nat, NEW from \in Nat, NEW ended,
           ended = RotationTime * q + RotationTime + ModuloDiff(s, q) * RotationTime,
           from <= RotationTime * q,
           \A k \in Nat : (from <= RotationTime * k
                            /\ k % SectorsPerTrack = s % SectorsPerTrack) => k >= q
    PROVE  ended \in Nat /\ Passed(s, from, ended) /\ ~Passed(s, from, ended - 1)
<1> DEFINE k == q + ModuloDiff(s, q)
<1>1. ModuloDiff(s, q) \in Nat /\ k % SectorsPerTrack = s % SectorsPerTrack
  BY NextPassing, Zenon
<1>2. ended = RotationTime * k + RotationTime
  <2>1. \A d \in Nat : RotationTime * (q + d) = RotationTime * q + d * RotationTime
    BY DiskAssumption
  <2>2. RotationTime * k = RotationTime * q + ModuloDiff(s, q) * RotationTime
    BY <1>1, <2>1
  <2>3. \A d \in Nat : d * RotationTime \in Nat /\ RotationTime * d \in Nat
    BY DiskAssumption
  <2>4. ModuloDiff(s, q) * RotationTime \in Nat /\ RotationTime * q \in Nat
    BY <1>1, <2>3
  <2> HIDE DEF k
  <2> QED BY <2>2, <2>4, DiskAssumption
<1>3. k \in Nat /\ q <= k
  BY <1>1
<1>4. \A j \in Nat : j >= q /\ j % SectorsPerTrack = s % SectorsPerTrack => j >= k
  BY NextPassing
<1> HIDE DEF k
<1>5. ended \in Nat /\ RotationTime * k \in Nat
  BY <1>2, <1>3, Boundaries, DiskAssumption
<1>6. Passed(s, from, ended)
  <2>1. RotationTime * q <= RotationTime * k
    BY <1>3, Product, DiskAssumption
  <2>2. from <= RotationTime * k
    BY <1>5, <2>1, Boundaries
  <2> QED BY SMTT(30), <1>1, <1>2, <1>3, <1>5, <2>2, PassedBy DEF k
<1>7. ASSUME Passed(s, from, ended - 1) PROVE FALSE
  <2>1. PICK j \in 0 .. ended - 1 :
              /\ j % SectorsPerTrack = s % SectorsPerTrack
              /\ j * RotationTime >= from /\ (j + 1) * RotationTime <= ended - 1
    BY <1>7 DEF Passed
  <2>2. j \in Nat
    BY <1>5
  <2>3. /\ RotationTime * j >= from /\ RotationTime * j \in Nat
        /\ RotationTime * j + RotationTime <= ended - 1
    BY <2>1, <2>2, Boundaries
  <2>4. j >= q
    BY <2>1, <2>2, <2>3
  <2>5. k <= j
    BY <1>4, <2>1, <2>2, <2>4
  <2>6. RotationTime * k <= RotationTime * j
    BY <1>3, <2>2, <2>5, Product, DiskAssumption
  <2> QED BY <1>2, <1>5, <2>3, <2>6, DiskAssumption
<1> QED BY <1>5, <1>6, <1>7


\* A request takes the disk from a good state to a good state.
LEMMA RequestServed ==
    ASSUME DiskInv, NEW s \in Sectors, NEW writing \in BOOLEAN, Request(s, writing)
    PROVE  DiskInv'
<1> DEFINE R == RotationTime
<1>1. R \in Nat \ {0}
  BY DiskAssumption
<1>2. /\ s \in Nat /\ Seek(s) \in Nat /\ Rotation(s) \in 0 .. R - 1
      /\ \E q \in Nat : totalTicks + Seek(s) + Rotation(s) = R * q
  BY AtBoundary
<1>3. PICK q \in Nat : totalTicks + Seek(s) + Rotation(s) = R * q
  BY <1>2
<1>4. PICK p \in Nat : bufferInit = R * p
  <2>1. bufferInit \in Nat /\ bufferInit % R = 0
    BY DEF DiskInv
  <2>2. bufferInit = R * (bufferInit \div R) /\ bufferInit \div R \in Nat
    BY <1>1, <2>1
  <2> QED BY <2>2
<1>5. totalTicks \in Nat /\ bufferInit \in Nat /\ bufferInit <= totalTicks
  BY DEF DiskInv
<1> DEFINE from == IF writing \/ Seek(s) # 0 THEN totalTicks + Seek(s) ELSE bufferInit
<1>6. /\ totalTicks' = totalTicks + ComputeLatency(s, writing)
      /\ request' = [sector |-> s, came |-> totalTicks, ended |-> totalTicks', from |-> from]
      /\ bufferInit' = BufferInit(s) /\ lastSector' = s
  BY DEF Request
<1>7. from \in Nat /\ from <= R * q
  <2>1. from \in Nat /\ from <= totalTicks + Seek(s)
    BY <1>2, <1>5
  <2>2. totalTicks + Seek(s) <= totalTicks + Seek(s) + Rotation(s)
    BY <1>1, <1>2, <1>5
  <2>3. R * q \in Nat
    BY Boundaries
  <2> HIDE DEF from
  <2> QED BY <1>2, <1>3, <1>5, <2>1, <2>2, <2>3
<1>8. /\ totalTicks' \in Nat /\ totalTicks <= totalTicks'
      /\ Seek(s) # 0 => R * q <= totalTicks'
      /\ Passed(s, from, totalTicks')
      /\ totalTicks' - totalTicks = R \/ ~Passed(s, from, totalTicks' - 1)
  <2>1. CASE ~writing /\ Seek(s) = 0 /\ q - p > ModuloDiff(s, p)
    <3>1. totalTicks' = totalTicks + R
      BY <1>3, <1>4, <1>6, <2>1, Latency
    <3>2. totalTicks + Rotation(s) = R * q
      BY <1>2, <1>3, <1>5, <2>1
    <3>3. Passed(s, bufferInit, totalTicks + R)
      BY <1>2, <1>4, <2>1, <3>2, BufferedServed
    <3>4. from = bufferInit
      BY <2>1
    <3>5. totalTicks' \in Nat /\ totalTicks <= totalTicks' /\ totalTicks' - totalTicks = R
      BY <1>1, <1>5, <3>1
    <3> QED BY Zenon, <2>1, <3>1, <3>3, <3>4, <3>5
  <2>2. CASE ~(~writing /\ Seek(s) = 0 /\ q - p > ModuloDiff(s, p))
    <3> DEFINE d == ModuloDiff(s, q) * R
    <3>1. d \in Nat
      <4>1. ModuloDiff(s, q) \in Nat
        BY <1>2, NextPassing, Zenon
      <4> QED BY <1>1, <4>1
    <3>2. ComputeLatency(s, writing) = Seek(s) + Rotation(s) + R + d
      BY <1>3, <1>4, <2>2, Latency
    <3> HIDE DEF d
    <3>3. totalTicks' = R * q + R + d
      <4>1. totalTicks' = totalTicks + Seek(s) + Rotation(s) + R + d
        BY SMTT(30), <1>1, <1>2, <1>5, <1>6, <3>1, <3>2
      <4> QED BY <1>3, <4>1, Zenon
    <3>4. R * q \in Nat
      BY Boundaries
    <3>5. ASSUME NEW k \in Nat, from <= R * k, k % SectorsPerTrack = s % SectorsPerTrack
          PROVE  k >= q
      <4>1. CASE writing \/ Seek(s) # 0
        <5>1. R * q < R * k + R
          <6>1. from = totalTicks + Seek(s)
            BY <4>1
          <6>2. R * k \in Nat
            BY Boundaries
          <6>3. totalTicks + Seek(s) + Rotation(s) < R * k + R
            BY <1>1, <1>2, <1>5, <3>5, <6>1, <6>2
          <6> QED BY <1>3, <6>3
        <5>2. R * (k + 1) = R * k + R
          BY <1>1
        <5>3. CASE k + 1 <= q
          <6>1. R * (k + 1) <= R * q
            BY <1>1, <5>3, Product
          <6> QED BY <1>1, <3>4, <5>1, <5>2, <6>1, Boundaries
        <5> QED BY <5>3
      <4>2. CASE ~writing /\ Seek(s) = 0
        <5>1. q - p <= ModuloDiff(s, p) /\ ModuloDiff(s, p) \in Nat
          <6>1. ModuloDiff(s, p) \in Nat
            BY <1>2, NextPassing, Zenon
          <6> QED BY <2>2, <4>2, <6>1
        <5>2. R * p <= R * k
          BY <1>4, <3>5, <4>2
        <5>3. p <= k
          BY <1>1, <5>2, Product
        <5>4. k >= p + ModuloDiff(s, p)
          BY <1>2, <3>5, <5>3, NextPassing
        <5> QED BY <5>1, <5>4
      <4> QED BY <4>1, <4>2
    <3>6. /\ totalTicks' \in Nat
          /\ Passed(s, from, totalTicks') /\ ~Passed(s, from, totalTicks' - 1)
      <4> HIDE DEF from
      <4>1. \A k \in Nat : (from <= R * k
                             /\ k % SectorsPerTrack = s % SectorsPerTrack) => k >= q
        BY <3>5
      <4>2. totalTicks' = R * q + R + ModuloDiff(s, q) * R
        BY <3>3 DEF d
      <4> QED BY <1>2, <1>7, <4>1, <4>2, WaitServed, Zenon
    <3>7. R * q <= totalTicks'
      BY <1>1, <3>1, <3>3, <3>4
    <3>8. totalTicks <= totalTicks'
      <4>1. totalTicks <= totalTicks + Seek(s) + Rotation(s)
        BY <1>1, <1>2, <1>5
      <4> QED BY <1>3, <1>5, <3>4, <3>6, <3>7, <4>1
    <3> QED BY <3>6, <3>7, <3>8
  <2> QED BY <2>1, <2>2
<1>9. /\ bufferInit' \in Nat /\ bufferInit' <= totalTicks'
      /\ bufferInit' % R = 0
  <2>1. CASE Seek(s) # 0
    <3>1. bufferInit' = R * q
      BY <1>3, <1>6, <2>1 DEF BufferInit
    <3>2. \A m \in Nat : (R * m) % R = 0
      BY <1>1
    <3> QED BY <1>8, <2>1, <3>1, <3>2, Boundaries
  <2>2. CASE Seek(s) = 0
    <3>1. bufferInit' = bufferInit
      BY <1>6, <2>2 DEF BufferInit
    <3> QED BY <1>5, <1>8, <3>1 DEF DiskInv
  <2> QED BY <2>1, <2>2
<1>10. LatencyRight'
  <2> HIDE DEF from
  <2>1. /\ request'.sector = s /\ request'.came = totalTicks
        /\ request'.ended = totalTicks' /\ request'.from = from
    BY <1>6
  <2>2. /\ Passed(request'.sector, request'.from, request'.ended)
        /\ \/ request'.ended - request'.came = RotationTime
           \/ ~Passed(request'.sector, request'.from, request'.ended - 1)
    BY <1>8, <2>1
  <2> QED BY <2>2 DEF LatencyRight, Passed
<1> QED BY <1>6, <1>8, <1>9, <1>10 DEF DiskInv, Sectors

\* The invariant is inductive.
THEOREM DiskInvariant == DiskSpec => []DiskInv
<1>1. DiskInit => DiskInv
  <2> SUFFICES ASSUME DiskInit PROVE DiskInv
    OBVIOUS
  <2>1. 0 \in Sectors
    <3>1. SectorsPerTrack * NumTracks >= 1 /\ SectorsPerTrack * NumTracks \in Nat
      BY DiskAssumption
    <3> QED BY <3>1 DEF Sectors
  <2>2. 0 % RotationTime = 0
    BY DiskAssumption
  <2> QED BY <2>1, <2>2 DEF DiskInit, DiskInv, LatencyRight
<1>2. DiskInv /\ [DiskNext]_disk => DiskInv'
  <2> SUFFICES ASSUME DiskInv, [DiskNext]_disk PROVE DiskInv'
    OBVIOUS
  <2>1. CASE Tick
    <3>1. LatencyRight'
      BY <2>1 DEF Tick, LatencyRight, NoRequest
    <3>2. totalTicks' \in Nat /\ bufferInit <= totalTicks'
      BY <2>1 DEF Tick, DiskInv
    <3> QED BY <2>1, <3>1, <3>2 DEF Tick, DiskInv, Sectors
  <2>2. ASSUME NEW s \in Sectors, NEW writing \in BOOLEAN, Request(s, writing)
        PROVE  DiskInv'
    BY <2>2, RequestServed
  <2>3. CASE UNCHANGED disk
    BY <2>3 DEF disk, DiskInv, LatencyRight, Passed, NoRequest, Sectors
  <2> QED BY <2>1, <2>2, <2>3 DEF DiskNext
<1> QED BY <1>1, <1>2, PTL DEF DiskSpec

\* A request ends as soon as its sector has passed under the head and not
\* before, whatever the geometry and the times of the disk.
THEOREM RequestsEndOnTime == DiskSpec => []LatencyRight
<1>1. DiskInv => LatencyRight
  BY DEF DiskInv
<1> QED BY <1>1, DiskInvariant, PTL
=============================================================================

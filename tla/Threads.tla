------------------------------ MODULE Threads ------------------------------
(***************************************************************************)
(* The multiprogramming kernel of NachOS: Thread (thread.cc), Scheduler    *)
(* (scheduler.cc), Semaphore (synch.cc) and the interrupts that drive them *)
(* (interrupt.cc, alarm.cc).                                               *)
(*                                                                         *)
(* The machine has one processor.  Kernel code is interrupted only inside  *)
(* Interrupt::OneTick, that is when SetLevel turns interrupts from IntOff  *)
(* to IntOn; so the code of P, V, Fork, Yield and Finish between its two   *)
(* calls of SetLevel is one step, unless it gives the processor away in    *)
(* Thread::Sleep or Scheduler::Run.  The variable cpu tells these cases    *)
(* apart:                                                                  *)
(*   "running"  currentThread runs with interrupts on;                     *)
(*   "sleeping" currentThread is in the while loop of Thread::Sleep, with  *)
(*              interrupts off, looking for a thread to run;               *)
(*   "switched" SWITCH has just returned in currentThread, which has not   *)
(*              turned interrupts on yet.                                  *)
(***************************************************************************)
EXTENDS ThreadIds, Naturals, Sequences, FiniteSets, Functions

CONSTANTS
  MainThread,  \* the thread that Kernel::Initialize declares to be running
  Sem,         \* the semaphores
  DeviceSem,   \* the ones a device's interrupt handler calls V on
  InitValue,   \* the initialValue each semaphore is constructed with
  MaxValue,    \* bound: V is not called when a value has reached it
  NoSem        \* "not inside P"

ASSUME ThreadAssumption ==
  /\ IsFiniteSet(Thread)
  /\ MainThread \in Thread
  /\ NoThread \notin Thread
ASSUME SemAssumption ==
  /\ DeviceSem \subseteq Sem
  /\ NoSem \notin Sem
  /\ MaxValue \in Nat
  /\ InitValue \in [Sem -> 0 .. MaxValue]

VARIABLES
  status,        \* Thread::status; "NO_THREAD" when the object does not exist
  currentThread, \* kernel->currentThread
  cpu,           \* where currentThread is, see above
  readyList,     \* Scheduler::readyList
  toBeDestroyed, \* Scheduler::toBeDestroyed
  finishing,     \* the argument currentThread has called Sleep with
  value,         \* Semaphore::value
  queue,         \* Semaphore::queue
  waitSem        \* the semaphore in whose P loop a thread is, or NoSem

vars == <<status, currentThread, cpu, readyList, toBeDestroyed, finishing,
          value, queue, waitSem>>

Status == {"NO_THREAD", "JUST_CREATED", "RUNNING", "READY", "BLOCKED"}

\* Kernel::Initialize: the code that is running becomes the main thread.
Init ==
  /\ status = [t \in Thread |-> IF t = MainThread THEN "RUNNING" ELSE "NO_THREAD"]
  /\ currentThread = MainThread
  /\ cpu = "running"
  /\ readyList = <<>>
  /\ toBeDestroyed = NoThread
  /\ finishing = FALSE
  /\ value = InitValue
  /\ queue = [s \in Sem |-> <<>>]
  /\ waitSem = [t \in Thread |-> NoSem]

----------------------------------------------------------------------------
(* Semaphores *)

\* The while loop of Semaphore::P, from a test of value on, in currentThread.
\* When the value is 0 the thread queues itself and calls Sleep(FALSE).
TestValue(s) ==
  IF value[s] = 0
  THEN /\ queue' = [queue EXCEPT ![s] = Append(@, currentThread)]
       /\ waitSem' = [waitSem EXCEPT ![currentThread] = s]
       /\ status' = [status EXCEPT ![currentThread] = "BLOCKED"]
       /\ finishing' = FALSE
       /\ cpu' = "sleeping"
       /\ UNCHANGED value
  ELSE /\ value' = [value EXCEPT ![s] = @ - 1]
       /\ waitSem' = [waitSem EXCEPT ![currentThread] = NoSem]
       /\ cpu' = "running"
       /\ UNCHANGED <<queue, status, finishing>>

P(s) ==
  /\ cpu = "running"
  /\ TestValue(s)
  /\ UNCHANGED <<currentThread, readyList, toBeDestroyed>>

\* Mutant: V takes a waiter off the queue only when the value was 0.
IncrementWakesAtZero(s) ==
  /\ value[s] < MaxValue
  /\ value' = [value EXCEPT ![s] = @ + 1]
  /\ IF queue[s] # <<>> /\ value[s] = 0
     THEN /\ queue' = [queue EXCEPT ![s] = Tail(@)]
          /\ status' = [status EXCEPT ![Head(queue[s])] = "READY"]
          /\ readyList' = Append(readyList, Head(queue[s]))
     ELSE UNCHANGED <<queue, status, readyList>>
  /\ UNCHANGED <<currentThread, cpu, toBeDestroyed, finishing, waitSem>>

\* The body of Semaphore::V: make the first waiter ready and increment.
Increment(s) ==
  /\ value[s] < MaxValue
  /\ value' = [value EXCEPT ![s] = @ + 1]
  /\ IF queue[s] # <<>>
     THEN /\ queue' = [queue EXCEPT ![s] = Tail(@)]
          /\ status' = [status EXCEPT ![Head(queue[s])] = "READY"]
          /\ readyList' = Append(readyList, Head(queue[s]))
     ELSE UNCHANGED <<queue, status, readyList>>
  /\ UNCHANGED <<currentThread, cpu, toBeDestroyed, finishing, waitSem>>

V(s) == cpu = "running" /\ Increment(s)

----------------------------------------------------------------------------
(* Threads *)

\* new Thread(...)
Create(t) ==
  /\ cpu = "running"
  /\ status[t] = "NO_THREAD"
  /\ status' = [status EXCEPT ![t] = "JUST_CREATED"]
  /\ UNCHANGED <<currentThread, cpu, readyList, toBeDestroyed, finishing,
                 value, queue, waitSem>>

\* Thread::Fork
Fork(t) ==
  /\ cpu = "running"
  /\ status[t] = "JUST_CREATED"
  /\ status' = [status EXCEPT ![t] = "READY"]
  /\ readyList' = Append(readyList, t)
  /\ UNCHANGED <<currentThread, cpu, toBeDestroyed, finishing,
                 value, queue, waitSem>>

\* Thread::Finish: Sleep(TRUE).
Finish ==
  /\ cpu = "running"
  /\ status' = [status EXCEPT ![currentThread] = "BLOCKED"]
  /\ finishing' = TRUE
  /\ cpu' = "sleeping"
  /\ UNCHANGED <<currentThread, readyList, toBeDestroyed, value, queue, waitSem>>

\* Mutant: the yielding thread goes to the front of the ready list.
YieldToFront ==
  /\ cpu = "running"
  /\ readyList # <<>>
  /\ readyList' = <<currentThread>> \o Tail(readyList)
  /\ status' = [status EXCEPT ![currentThread] = "READY",
                              ![Head(readyList)] = "RUNNING"]
  /\ currentThread' = Head(readyList)
  /\ cpu' = "switched"
  /\ UNCHANGED <<toBeDestroyed, finishing, value, queue, waitSem>>

\* Thread::Yield, called by the thread itself or, when Alarm::CallBack has set
\* yieldOnReturn, by the OneTick that ran the timer's handler.
Yield ==
  /\ cpu = "running"
  /\ readyList # <<>>
  /\ readyList' = Append(Tail(readyList), currentThread)
  /\ status' = [status EXCEPT ![currentThread] = "READY",
                              ![Head(readyList)] = "RUNNING"]
  /\ currentThread' = Head(readyList)
  /\ cpu' = "switched"
  /\ UNCHANGED <<toBeDestroyed, finishing, value, queue, waitSem>>

\* Mutant: FindNextToRun leaves the thread it returns on the ready list.
RunKeepsFront ==
  /\ cpu = "sleeping"
  /\ readyList # <<>>
  /\ status' = [status EXCEPT ![Head(readyList)] = "RUNNING"]
  /\ toBeDestroyed' = IF finishing THEN currentThread ELSE toBeDestroyed
  /\ currentThread' = Head(readyList)
  /\ cpu' = "switched"
  /\ finishing' = FALSE
  /\ UNCHANGED <<readyList, value, queue, waitSem>>

\* The rest of Thread::Sleep once FindNextToRun returns a thread:
\* Scheduler::Run(nextThread, finishing) up to SWITCH.
Run ==
  /\ cpu = "sleeping"
  /\ readyList # <<>>
  /\ readyList' = Tail(readyList)
  /\ status' = [status EXCEPT ![Head(readyList)] = "RUNNING"]
  /\ toBeDestroyed' = IF finishing THEN currentThread ELSE toBeDestroyed
  /\ currentThread' = Head(readyList)
  /\ cpu' = "switched"
  /\ finishing' = FALSE
  /\ UNCHANGED <<value, queue, waitSem>>

\* Scheduler::CheckToBeDestroyed: the first thing a thread does when it gets
\* the processor, in Scheduler::Run after SWITCH or in Thread::Begin.
CheckToBeDestroyed ==
  /\ cpu = "switched"
  /\ toBeDestroyed # NoThread
  /\ status' = [status EXCEPT ![toBeDestroyed] = "NO_THREAD"]
  /\ toBeDestroyed' = NoThread
  /\ UNCHANGED <<currentThread, cpu, readyList, finishing, value, queue, waitSem>>

\* Mutant: P tests the value once, with if instead of while.
ResumeWithoutTest ==
  /\ cpu = "switched"
  /\ toBeDestroyed = NoThread
  /\ cpu' = "running"
  /\ LET s == waitSem[currentThread]
     IN IF s # NoSem THEN value' = [value EXCEPT ![s] = @ - 1]
                     ELSE UNCHANGED value
  /\ waitSem' = [waitSem EXCEPT ![currentThread] = NoSem]
  /\ UNCHANGED <<status, finishing, queue, currentThread, readyList, toBeDestroyed>>

\* Mutant: a thread may go on without calling CheckToBeDestroyed, as when
\* Thread::Begin only enabled interrupts.
ResumeWithoutCheck ==
  /\ cpu = "switched"
  /\ IF waitSem[currentThread] # NoSem
     THEN toBeDestroyed = NoThread /\ TestValue(waitSem[currentThread])
     ELSE /\ cpu' = "running"
          /\ UNCHANGED <<status, finishing, value, queue, waitSem>>
  /\ UNCHANGED <<currentThread, readyList, toBeDestroyed>>

\* The way back from SWITCH and CheckToBeDestroyed: a thread that was asleep in
\* P tests the value again; one that yielded, or that is new (Thread::Begin),
\* turns interrupts on.
Resume ==
  /\ cpu = "switched"
  /\ toBeDestroyed = NoThread
  /\ IF waitSem[currentThread] # NoSem
     THEN TestValue(waitSem[currentThread])
     ELSE /\ cpu' = "running"
          /\ UNCHANGED <<status, finishing, value, queue, waitSem>>
  /\ UNCHANGED <<currentThread, readyList, toBeDestroyed>>

----------------------------------------------------------------------------
(* Interrupts *)

\* Interrupt::CheckIfDue runs the handler of a device, which calls V: from
\* OneTick while a thread runs, from Interrupt::Idle when Sleep finds no thread.
DeviceInterrupt(s) ==
  /\ \/ cpu = "running"
     \/ cpu = "sleeping" /\ readyList = <<>>
  /\ Increment(s)

\* Interrupt::Idle when the timer's handler is the only one due: in IdleMode
\* Alarm::CallBack does nothing, and Sleep looks for a thread again.
Idle ==
  /\ cpu = "sleeping"
  /\ readyList = <<>>
  /\ UNCHANGED vars

Next ==
  \/ \E s \in Sem : P(s) \/ V(s)
  \/ \E t \in Thread : Create(t) \/ Fork(t)
  \/ Finish
  \/ Yield
  \/ Run
  \/ CheckToBeDestroyed
  \/ Resume
  \/ \E s \in DeviceSem : DeviceInterrupt(s)
  \/ Idle

Spec == Init /\ [][Next]_vars

\* The processor never stops, and the timer's periodic interrupt makes a running
\* thread yield when others are ready (Alarm::CallBack, Timer::SetInterrupt).
ThreadFairness == WF_vars(Yield \/ Run \/ CheckToBeDestroyed \/ Resume)

----------------------------------------------------------------------------
(* Properties *)

\* Every variable has the type its C++ declaration gives it.
TypeOK ==
  /\ status \in [Thread -> Status]
  /\ currentThread \in Thread
  /\ cpu \in {"running", "sleeping", "switched"}
  /\ readyList \in Seq(Thread)
  /\ toBeDestroyed \in Thread \cup {NoThread}
  /\ finishing \in BOOLEAN
  /\ value \in [Sem -> 0 .. MaxValue]
  /\ queue \in [Sem -> Seq(Thread)]
  /\ waitSem \in [Thread -> Sem \cup {NoSem}]

\* The ready list holds exactly the READY threads, each once, so that neither
\* FindNextToRun nor List::Append (which asserts !IsInList) meets a thread that
\* was queued twice or one that is blocked, running or deleted.
ReadyListExact ==
  /\ \A t \in Thread : status[t] = "READY" <=> t \in Range(readyList)
  /\ IsInjective(readyList)

\* currentThread is the one RUNNING thread, except in Sleep, where it has already
\* been marked BLOCKED (or, woken by a handler while idle, READY).
OneRunning ==
  \A t \in Thread :
    status[t] = "RUNNING" <=> t = currentThread /\ cpu # "sleeping"

\* The BLOCKED threads are those on the queue of the semaphore they wait for,
\* each once, and the one that is finishing: no thread sleeps where no V can
\* find it, and none is on the queues of two semaphores.
BlockedExact ==
  /\ \A s \in Sem, t \in Thread :
       t \in Range(queue[s]) <=> status[t] = "BLOCKED" /\ waitSem[t] = s
  /\ \A s \in Sem : IsInjective(queue[s])
  /\ \A t \in Thread :
       status[t] = "BLOCKED" /\ waitSem[t] = NoSem =>
         \/ t = toBeDestroyed
         \/ t = currentThread /\ cpu = "sleeping" /\ finishing

\* Thread::status says where a thread is: on the ready list, on the processor, on
\* the queue of one semaphore, or nowhere, and never in two places.
StatusExact == ReadyListExact /\ OneRunning /\ BlockedExact

\* The thread that is to be deleted is not the current one, whose stack is in
\* use, no list or wait leads to it any more, and at most one such thread exists
\* at a time: the ASSERTs of Scheduler::Run and Thread::~Thread.
CarcassSafe ==
  /\ finishing => cpu = "sleeping" /\ toBeDestroyed = NoThread
  /\ finishing => status[currentThread] = "BLOCKED" /\ waitSem[currentThread] = NoSem
  /\ toBeDestroyed # NoThread =>
       /\ cpu = "switched"
       /\ toBeDestroyed # currentThread
       /\ status[toBeDestroyed] = "BLOCKED"
       /\ waitSem[toBeDestroyed] = NoSem

\* The threads that a V on s has made ready and that have not tested its value
\* again yet.
Woken(s) == {t \in Thread : waitSem[t] = s} \ Range(queue[s])

\* P and V lose no wakeup: while threads are asleep on a semaphore, each unit of
\* its value is matched by a woken thread that is still to look at it, even when
\* other threads call P in between and take the value first.
NoLostWakeup ==
  \A s \in Sem : queue[s] # <<>> => value[s] <= Cardinality(Woken(s))

\* Only a thread that is asleep, woken, or just switched to is inside the loop of
\* P: the running thread waits for nothing, and neither does a deleted one.
InLoopAsleep ==
  \A t \in Thread : waitSem[t] # NoSem =>
    \/ status[t] \in {"BLOCKED", "READY"}
    \/ t = currentThread /\ cpu = "switched"

\* Every READY thread gets the processor: the ready list is FIFO and every
\* running thread yields, sleeps or finishes.
ReadyRuns ==
  \A t \in Thread : status[t] = "READY" ~> status[t] = "RUNNING"

\* Threads never sleep forever on a semaphore that is available.
SemProgress ==
  \A s \in Sem :
    queue[s] # <<>> /\ value[s] > 0 ~> queue[s] = <<>> \/ value[s] = 0

=============================================================================

--------------------------- MODULE ProcessTable ---------------------------
(***************************************************************************)
(* User processes: PTable and PCB (threads/ptable.cc, pcb.cc) under the    *)
(* system calls Exec, Join, Exit and Halt (userprog/exception.cc,          *)
(* ksyscall.h), and the physical pages AddrSpace takes and gives back.     *)
(*                                                                         *)
(* Process i is the thread whose processID is i.  pc tells where it is in  *)
(* the kernel; every label stands before a semaphore operation, the only   *)
(* places where the processor changes hands.  numwait is left out: no code *)
(* reads it.                                                               *)
(***************************************************************************)
EXTENDS Integers, FiniteSetsExt, Functions

CONSTANTS
  MaxProcess,    \* MAX_PROCESS
  Program,       \* executables
  MainProgram,   \* the program process 0 runs
  Pages,         \* how many pages each program needs
  NumPhysPages,  \* physical pages of the machine
  ExitCode,      \* arguments of Exit
  NoPCB, NoCode, NoProgram

ASSUME ProcessAssumption ==
  /\ MaxProcess \in Nat \ {0}
  /\ MainProgram \in Program
  /\ Pages \in [Program -> Nat \ {0}] /\ Pages[MainProgram] <= NumPhysPages
  /\ NumPhysPages \in Nat
  /\ NoCode \notin ExitCode

Process == 0 .. MaxProcess - 1

PCBType ==
  [program : Program, parentID : {-1} \cup Process, exitcode : ExitCode \cup {NoCode},
   joinsem : 0 .. 1, exitsem : 0 .. 1, destroyed : BOOLEAN]

ASSUME NoPCBAssumption == NoPCB \notin PCBType

VARIABLES
  pcb,        \* PTable::pcb
  pc,         \* where each process is
  arg,        \* the child a process in Exec or Join deals with
  wanted,     \* the program a process in Exec asks for
  bmsem,      \* the value of PTable::bmsem
  pages,      \* numPages of each process's AddrSpace
  clear,      \* gPhysPageBitMap->NumClear()
  joined,     \* history: <<parent, child, code>> of each Join that returned
  exited,     \* history: the argument of each process's Exit, or NoCode
  halted,     \* "no", "exit" (Halt, or Exit of process 0), "fault" (an exception)
  undefined   \* a semaphore of a destroyed PCB has been used

memory == <<pages, clear>>
history == <<joined, exited>>
vars == <<pcb, pc, arg, wanted, bmsem, memory, history, halted, undefined>>

\* A PCB.  destroyed: ~PCB has deleted its semaphores.
PCB(program, parent) ==
  [program |-> program, parentID |-> parent, exitcode |-> NoCode,
   joinsem |-> 0, exitsem |-> 0, destroyed |-> FALSE]

Init ==
  /\ pcb = [i \in Process |-> IF i = 0 THEN PCB(MainProgram, -1) ELSE NoPCB]
  /\ pc = [i \in Process |-> IF i = 0 THEN "user" ELSE "none"]
  /\ arg = [i \in Process |-> 0]
  /\ wanted = [i \in Process |-> NoProgram]
  /\ bmsem = 1
  /\ pages = [i \in Process |-> IF i = 0 THEN Pages[MainProgram] ELSE 0]
  /\ clear = NumPhysPages - Pages[MainProgram]
  /\ joined = {}
  /\ exited = [i \in Process |-> NoCode]
  /\ halted = "no"
  /\ undefined = FALSE

\* Process i is the next to act, at label l.
At(i, l) == halted = "no" /\ ~ undefined /\ pc[i] = l

Goto(i, l) == pc' = [pc EXCEPT ![i] = l]

----------------------------------------------------------------------------
(* Exec *)

\* The system call: SysExec has opened the file, ExecUpdate waits for bmsem.
Exec(i, program) ==
  /\ At(i, "user")
  /\ wanted' = [wanted EXCEPT ![i] = program]
  /\ Goto(i, "bmsem")
  /\ UNCHANGED <<pcb, arg, bmsem, memory, history, halted, undefined>>

\* bmsem->P() at the head of ExecUpdate.
ExecLock(i) ==
  /\ At(i, "bmsem")
  /\ bmsem > 0
  /\ bmsem' = bmsem - 1
  /\ Goto(i, "create")
  /\ UNCHANGED <<pcb, arg, wanted, memory, history, halted, undefined>>

FreeSlots == {j \in Process : pcb[j] = NoPCB}

\* Mutant: an early return that forgets bmsem->V().
ExecRefusedKeepsLock(i) ==
  /\ At(i, "create")
  /\ wanted[i] = pcb[i].program \/ FreeSlots = {}
  /\ Goto(i, "user")
  /\ UNCHANGED <<pcb, arg, wanted, bmsem, memory, history, halted, undefined>>

\* A program may not run itself, and there must be a free slot.
ExecRefused(i) ==
  /\ At(i, "create")
  /\ wanted[i] = pcb[i].program \/ FreeSlots = {}
  /\ Goto(i, "unlock")
  /\ UNCHANGED <<pcb, arg, wanted, bmsem, memory, history, halted, undefined>>

\* ExecUpdate makes a PCB for the first free slot, up to multex->P in PCB::Exec.
ExecUpdate(i) ==
  /\ At(i, "create")
  /\ wanted[i] # pcb[i].program
  /\ FreeSlots # {}
  /\ LET index == Min(FreeSlots)
     IN /\ pcb' = [pcb EXCEPT ![index] = PCB(wanted[i], i)]
        /\ arg' = [arg EXCEPT ![i] = index]
  /\ Goto(i, "fork")
  /\ UNCHANGED <<wanted, bmsem, memory, history, halted, undefined>>

\* PCB::Exec forks the thread of the new process.
ExecFork(i) ==
  /\ At(i, "fork")
  /\ pc' = [pc EXCEPT ![i] = "unlock", ![arg[i]] = "start"]
  /\ UNCHANGED <<pcb, arg, wanted, bmsem, memory, history, halted, undefined>>

ExecUnlock(i) ==
  /\ At(i, "unlock")
  /\ bmsem' = bmsem + 1
  /\ Goto(i, "user")
  /\ UNCHANGED <<pcb, arg, wanted, memory, history, halted, undefined>>

\* StartProcess_2 loads the program.  Without enough pages the AddrSpace is left
\* with numPages = 0 and is executed nevertheless.
StartProcess(i) ==
  /\ At(i, "start")
  /\ LET n == Pages[pcb[i].program]
     IN IF n > clear
        THEN Goto(i, "fault") /\ UNCHANGED memory
        ELSE /\ pages' = [pages EXCEPT ![i] = n]
             /\ clear' = clear - n
             /\ Goto(i, "user")
  /\ UNCHANGED <<pcb, arg, wanted, bmsem, history, halted, undefined>>

\* Fetching the first instruction is an AddressErrorException: SysHalt.
Fault(i) ==
  /\ At(i, "fault")
  /\ halted' = "fault"
  /\ UNCHANGED <<pcb, pc, arg, wanted, bmsem, memory, history, undefined>>

----------------------------------------------------------------------------
(* Exit *)

Children(i) == {j \in Process : pcb[j] # NoPCB /\ pcb[j].parentID = i}
Joined(i, j) == \E c \in ExitCode : <<i, j, c>> \in joined

\* FreeSpace: ~AddrSpace clears the pages.
FreeSpace(i) ==
  /\ clear' = clear + pages[i]
  /\ pages' = [pages EXCEPT ![i] = 0]

\* The system call Halt.
SysHalt(i) ==
  /\ At(i, "user")
  /\ halted' = "exit"
  /\ UNCHANGED <<pcb, pc, arg, wanted, bmsem, memory, history, undefined>>

\* Exit of process 0 stops the machine, whatever the others are doing.
ExitMain ==
  /\ At(0, "user")
  /\ FreeSpace(0)
  /\ halted' = "exit"
  /\ UNCHANGED <<pcb, pc, arg, wanted, bmsem, history, undefined>>

\* ExitUpdate up to multex->P in DecNumWait.
Exit(i, code) ==
  /\ i # 0 /\ At(i, "user")
  /\ pcb' = [pcb EXCEPT ![i].exitcode = code]
  /\ exited' = [exited EXCEPT ![i] = code]
  /\ Goto(i, "decNumWait")
  /\ UNCHANGED <<arg, wanted, bmsem, memory, joined, halted, undefined>>

\* DecNumWait works on the multex of the parent.
DecNumWait(i) ==
  /\ At(i, "decNumWait")
  /\ undefined' = pcb[pcb[i].parentID].destroyed
  /\ Goto(i, "joinRelease")
  /\ UNCHANGED <<pcb, arg, wanted, bmsem, memory, history, halted>>

JoinRelease(i) ==
  /\ At(i, "joinRelease")
  /\ pcb' = [pcb EXCEPT ![i].joinsem = @ + 1]
  /\ Goto(i, "exitWait")
  /\ UNCHANGED <<arg, wanted, bmsem, memory, history, halted, undefined>>

\* Mutant: the process does not wait for its parent's Join.
ExitWaitNot(i) ==
  /\ At(i, "exitWait")
  /\ Goto(i, "remove")
  /\ UNCHANGED <<pcb, arg, wanted, bmsem, memory, history, halted, undefined>>

ExitWait(i) ==
  /\ At(i, "exitWait")
  /\ pcb[i].exitsem > 0
  /\ pcb' = [pcb EXCEPT ![i].exitsem = @ - 1]
  /\ Goto(i, "remove")
  /\ UNCHANGED <<arg, wanted, bmsem, memory, history, halted, undefined>>

\* Mutant: the pages are marked as free, but not all of them.
RemoveKeepsPage(i) ==
  /\ At(i, "remove")
  /\ pcb' = [pcb EXCEPT ![i].destroyed = TRUE]
  /\ clear' = clear + pages[i] - 1
  /\ pages' = [pages EXCEPT ![i] = 0]
  /\ Goto(i, "finished")
  /\ UNCHANGED <<arg, wanted, bmsem, history, halted, undefined>>

\* Remove calls ~PCB, which deletes the semaphores and calls Thread::Finish.  That
\* never returns, so that "pcb[pid] = NULL" in Remove is not reached.
Remove(i) ==
  /\ At(i, "remove")
  /\ pcb' = [pcb EXCEPT ![i].destroyed = TRUE]
  /\ FreeSpace(i)
  /\ Goto(i, "finished")
  /\ UNCHANGED <<arg, wanted, bmsem, history, halted, undefined>>

----------------------------------------------------------------------------
(* Join *)

\* JoinUpdate up to joinsem->P; a Join that fails the test changes nothing.
Join(i, j) ==
  /\ At(i, "user")
  /\ j \in Children(i)
  /\ arg' = [arg EXCEPT ![i] = j]
  /\ Goto(i, "joinWait")
  /\ UNCHANGED <<pcb, wanted, bmsem, memory, history, halted, undefined>>

\* Mutant: Join does not wait.
JoinWaitNot(i) ==
  /\ At(i, "joinWait")
  /\ Goto(i, "exitRelease")
  /\ UNCHANGED <<pcb, arg, wanted, bmsem, memory, history, halted, undefined>>

JoinWait(i) ==
  /\ At(i, "joinWait")
  /\ LET j == arg[i]
     IN \/ /\ pcb[j].destroyed
           /\ undefined' = TRUE
           /\ UNCHANGED <<pcb, pc>>
        \/ /\ ~ pcb[j].destroyed
           /\ pcb[j].joinsem > 0
           /\ pcb' = [pcb EXCEPT ![j].joinsem = @ - 1]
           /\ Goto(i, "exitRelease")
           /\ UNCHANGED undefined
  /\ UNCHANGED <<arg, wanted, bmsem, memory, history, halted>>

\* Mutant: the child is not released.
ExitReleaseNot(i) ==
  /\ At(i, "exitRelease")
  /\ joined' = joined \cup {<<i, arg[i], pcb[arg[i]].exitcode>>}
  /\ Goto(i, "user")
  /\ UNCHANGED <<pcb, arg, wanted, bmsem, memory, exited, halted, undefined>>

\* The parent takes the exit code and lets the child go.
ExitRelease(i) ==
  /\ At(i, "exitRelease")
  /\ LET j == arg[i]
     IN /\ joined' = joined \cup {<<i, j, pcb[j].exitcode>>}
        /\ pcb' = [pcb EXCEPT ![j].exitsem = @ + 1]
  /\ Goto(i, "user")
  /\ UNCHANGED <<arg, wanted, bmsem, memory, exited, halted, undefined>>

----------------------------------------------------------------------------
\* The steps a process takes in the kernel.
Step(i) ==
  \/ ExecLock(i) \/ ExecRefused(i) \/ ExecUpdate(i) \/ ExecFork(i) \/ ExecUnlock(i)
  \/ StartProcess(i) \/ Fault(i)
  \/ DecNumWait(i) \/ JoinRelease(i) \/ ExitWait(i) \/ Remove(i)
  \/ JoinWait(i) \/ ExitRelease(i)

\* The system calls of the programs.
Call(i) ==
  \/ \E program \in Program : Exec(i, program)
  \/ \E code \in ExitCode : Exit(i, code)
  \/ \E j \in Process : Join(i, j)
  \/ SysHalt(i)

Next == ExitMain \/ \E i \in Process : Step(i) \/ Call(i)

\* A process in the kernel gets the processor again (round robin).  Nothing is
\* assumed of the order in which processes get bmsem.
Fairness == \A i \in Process : WF_vars(Step(i))

Spec == Init /\ [][Next]_vars /\ Fairness

----------------------------------------------------------------------------
(* Properties *)

Label ==
  {"none", "start", "fault", "user", "bmsem", "create", "fork", "unlock",
   "decNumWait", "joinRelease", "exitWait", "remove", "finished",
   "joinWait", "exitRelease"}

\* Every variable keeps its type; joinsem and exitsem are binary.
TypeOK ==
  /\ pcb \in [Process -> PCBType \cup {NoPCB}]
  /\ pc \in [Process -> Label]
  /\ arg \in [Process -> Process]
  /\ wanted \in [Process -> Program \cup {NoProgram}]
  /\ bmsem \in 0 .. 1
  /\ pages \in [Process -> 0 .. NumPhysPages]
  /\ clear \in 0 .. NumPhysPages
  /\ joined \subseteq Process \X Process \X (ExitCode \cup {NoCode})
  /\ exited \in [Process -> ExitCode \cup {NoCode}]
  /\ halted \in {"no", "exit", "fault"}
  /\ undefined \in BOOLEAN

\* Join returns only once its child has called Exit, and returns what the child
\* gave to it; and a process is gone only after its parent's Join.  All types are
\* kept.
JoinStatus ==
  /\ TypeOK
  /\ \A r \in joined : r[3] # NoCode /\ r[3] = exited[r[2]]
  /\ \A i \in Process :
       pc[i] \in {"remove", "finished"} => Joined(pcb[i].parentID, i)

\* The k-th page of process i, for each page a process holds.
Held == {h \in Process \X (1 .. NumPhysPages) : h[2] <= pages[h[1]]}

\* The pages that processes hold and the clear ones are all there are; a process
\* that is gone holds none.
PagesBalanced ==
  /\ clear + Cardinality(Held) = NumPhysPages
  /\ \A i \in Process : pc[i] \in {"none", "finished"} => pages[i] = 0

\* A semaphore of a destroyed PCB is used only by a Join that is not the first of
\* its child, or by the Exit of a process whose parent exited without joining it:
\* programs that join every child once, and exit after that, are safe.
DeletedOnlyByMisuse ==
  undefined =>
    \/ \E i \in Process : pc[i] = "joinWait" /\ Joined(i, arg[i])
    \/ \E i \in Process \ {0} :
         /\ pc[i] = "joinRelease"
         /\ pc[pcb[i].parentID] = "finished"
         /\ ~ Joined(pcb[i].parentID, i)

\* Exec finds a slot as long as not all slots belong to live processes.
ExecFindsSlot ==
  [][\A i \in Process :
       ExecRefused(i) => wanted[i] = pcb[i].program \/
                         \A j \in Process : pc[j] # "finished"]_vars

\* bmsem is always given back, on every path through ExecUpdate.
ExecLockReleased == bmsem = 0 ~> bmsem = 1 \/ halted # "no" \/ undefined

\* When a child has called Exit and its parent joins it, the two let each other
\* go, and the child comes to its end.
JoinReturns ==
  \A i, j \in Process :
    pc[i] = "joinWait" /\ arg[i] = j /\ exited[j] # NoCode
      ~> pc[j] = "finished" \/ halted # "no" \/ undefined
=============================================================================

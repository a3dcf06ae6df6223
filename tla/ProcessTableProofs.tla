------------------------ MODULE ProcessTableProofs ------------------------
(***************************************************************************)
(* Proofs, for any number of processes, programs and pages, of the         *)
(* invariants of module ProcessTable.                                      *)
(***************************************************************************)
EXTENDS ProcessTable, LibraryLemmas, FiniteSetTheorems

----------------------------------------------------------------------------
(* The inductive invariant *)

Exists(j) == pcb[j] # NoPCB

\* Labels of a process that has called Exit, of one that has called V of joinsem,
\* and of one inside ExecUpdate.
Exiting == {"decNumWait", "joinRelease", "exitWait", "remove", "finished"}
Left == {"exitWait", "remove", "finished"}
Locked == {"create", "fork", "unlock"}

\* Process 0 is always there; every other process has a parent, which has a PCB too.
Family ==
  /\ Exists(0) /\ pcb[0].parentID = -1 /\ ~ pcb[0].destroyed
  /\ pc[0] \notin Exiting \cup {"none", "start", "fault"}
  /\ \A j \in Process \ {0} :
       Exists(j) => /\ pcb[j].parentID \in Process \ {j}
                    /\ Exists(pcb[j].parentID)
  /\ \A j \in Process : pc[j] # "none" => Exists(j)

\* bmsem is a lock: one process at a time is inside ExecUpdate.
Locking ==
  \A i \in Process : pc[i] \in Locked =>
    bmsem = 0 /\ \A k \in Process : pc[k] \in Locked => k = i

\* The process that ExecUpdate has made a PCB for has no thread yet.
Forking ==
  \A i \in Process : pc[i] = "fork" =>
    /\ Exists(arg[i]) /\ pc[arg[i]] = "none"
    /\ pcb[arg[i]].parentID = i

Joining ==
  \A i \in Process : pc[i] \in {"joinWait", "exitRelease"} => arg[i] \in Children(i)

\* The exit code of a PCB is the argument of Exit.
Exits ==
  \A j \in Process :
    /\ exited[j] # NoCode <=> pc[j] \in Exiting
    /\ Exists(j) => pcb[j].exitcode = exited[j]

\* A Join that has returned was the parent's, of a child that has left its multex.
Recorded(r) ==
  /\ Exists(r[2]) /\ pcb[r[2]].parentID = r[1]
  /\ r[3] = exited[r[2]]
  /\ pc[r[2]] \in Left

Records == \A r \in joined : Recorded(r)

\* The parent of j is between the P of joinsem and the V of exitsem.
Releasing(j) == pc[pcb[j].parentID] = "exitRelease" /\ arg[pcb[j].parentID] = j

\* Where joinsem and exitsem of process j, and its parent's Join, can be: first the
\* child calls V of joinsem, then the parent takes it, then it gives exitsem, and
\* then the child takes that.
Meeting(j) ==
  /\ pcb[j].destroyed <=> pc[j] = "finished"
  /\ \/ /\ pc[j] \notin Left
        /\ pcb[j].joinsem = 0 /\ pcb[j].exitsem = 0
        /\ ~ Joined(pcb[j].parentID, j) /\ ~ Releasing(j)
     \/ /\ pc[j] = "exitWait"
        /\ pcb[j].joinsem = 1 /\ pcb[j].exitsem = 0
        /\ ~ Joined(pcb[j].parentID, j) /\ ~ Releasing(j)
     \/ /\ pc[j] = "exitWait"
        /\ pcb[j].joinsem = 0 /\ pcb[j].exitsem = 0
        /\ ~ Joined(pcb[j].parentID, j) /\ Releasing(j)
     \/ /\ pc[j] = "exitWait"
        /\ pcb[j].joinsem = 0 /\ pcb[j].exitsem = 1
        /\ Joined(pcb[j].parentID, j) /\ ~ Releasing(j)
     \/ /\ pc[j] \in {"remove", "finished"}
        /\ pcb[j].joinsem = 0 /\ pcb[j].exitsem = 0
        /\ Joined(pcb[j].parentID, j) /\ ~ Releasing(j)

Meetings == \A j \in Process \ {0} : Exists(j) => Meeting(j)

\* What a process in ExecUpdate asks for is a program.
Wanted == \A i \in Process : pc[i] \in {"bmsem", "create"} => wanted[i] \in Program

\* A process has pages from its start to its end.
PagesHeld ==
  /\ clear + Cardinality(Held) = NumPhysPages
  /\ \A i \in Process : pc[i] \in {"none", "start", "fault", "finished"} => pages[i] = 0

Core == Family /\ Forking /\ Joining /\ Exits /\ Records /\ Meetings

IInv == TypeOK /\ Core /\ Locking /\ Wanted /\ PagesHeld /\ DeletedOnlyByMisuse

----------------------------------------------------------------------------
(* Counting pages *)

\* The pages of the processes when process i has p[i] of them.
HeldBy(p) == {h \in Process \X (1 .. NumPhysPages) : h[2] <= p[h[1]]}

\* Giving n pages to a process that has none adds n to the pages in use.
LEMMA GivePages ==
  ASSUME NEW p \in [Process -> 0 .. NumPhysPages], NEW i \in Process,
         NEW n \in 0 .. NumPhysPages, p[i] = 0
  PROVE  /\ Cardinality(HeldBy(p)) \in Nat
         /\ Cardinality(HeldBy([p EXCEPT ![i] = n])) = Cardinality(HeldBy(p)) + n
<1> DEFINE A == HeldBy(p)
           B == {h \in Process \X (1 .. NumPhysPages) : h[1] = i /\ h[2] <= n}
           C == HeldBy([p EXCEPT ![i] = n])
<1>1. NumPhysPages \in Nat /\ MaxProcess \in Nat
  BY ProcessAssumption
<1>2. IsFiniteSet(Process \X (1 .. NumPhysPages))
  <2>1. IsFiniteSet(Process) /\ IsFiniteSet(1 .. NumPhysPages)
    BY <1>1, FS_Interval DEF Process
  <2> QED BY Zenon, <2>1, FS_Product
<1>3. A \in SUBSET (Process \X (1 .. NumPhysPages)) /\ B \in SUBSET (Process \X (1 .. NumPhysPages))
  BY DEF HeldBy
<1>4. IsFiniteSet(A) /\ IsFiniteSet(B)
  <2> HIDE DEF A, B
  <2> QED BY Zenon, <1>2, <1>3, FS_Subset
<1>5. Cardinality(A) \in Nat
  BY Zenon, <1>4, FS_CardinalityType
<1>6. A \cup B = C
  <2>1. ASSUME NEW h \in Process \X (1 .. NumPhysPages)
        PROVE  h \in C <=> h \in A \/ h \in B
    <3>1. CASE h[1] = i
      BY <3>1, <1>1 DEF HeldBy
    <3>2. CASE h[1] # i
      BY <3>2, <1>1 DEF HeldBy
    <3> QED BY <3>1, <3>2
  <2> QED BY <2>1 DEF HeldBy
<1>7. A \cap B = {}
  <2>1. ASSUME NEW h \in A PROVE h \notin B
    BY <1>1 DEF HeldBy
  <2> QED BY <2>1
<1>8. Cardinality(B) = n
  <2> DEFINE f == [k \in 1 .. n |-> <<i, k>>]
  <2>1. n \in Nat /\ 1 .. n \subseteq 1 .. NumPhysPages
    BY <1>1
  <2>2. f \in Bijection(1 .. n, B)
    <3>1. f \in [1 .. n -> B]
      BY <2>1
    <3>2. ASSUME NEW h \in B PROVE \E k \in 1 .. n : f[k] = h
      <4>1. h \in Process \X (1 .. NumPhysPages) /\ h[1] = i /\ h[2] <= n
        OBVIOUS
      <4>2. h = <<h[1], h[2]>> /\ h[2] \in 1 .. NumPhysPages
        BY <4>1
      <4>3. h[2] \in 1 .. n
        BY <1>1, <2>1, <4>1, <4>2
      <4> QED BY <4>1, <4>2, <4>3
    <3>3. ASSUME NEW k \in 1 .. n, NEW m \in 1 .. n, f[k] = f[m] PROVE k = m
      BY <3>3
    <3> HIDE DEF B
    <3>4. IsInjective(f)
      BY Zenon, <3>3, DOMAIN f = 1 .. n DEF IsInjective, f
    <3> HIDE DEF f
    <3> QED BY Zenon, <3>1, <3>2, <3>4 DEF Bijection, Injection, Surjection
  <2>3. ExistsBijection(1 .. n, B)
    <3> HIDE DEF B, f
    <3> QED BY <2>2 DEF ExistsBijection
  <2> HIDE DEF B
  <2> QED BY Zenon, <2>1, <2>3, FS_CountingElements
<1>9. Cardinality(C) = Cardinality(A) + Cardinality(B)
  <2> HIDE DEF A, B, C
  <2>1. Cardinality(A \cup B) = Cardinality(A) + Cardinality(B) - Cardinality(A \cap B)
    BY Zenon, <1>4, FS_Union
  <2>2. Cardinality(A \cap B) = 0
    BY Zenon, <1>7, FS_EmptySet
  <2>3. Cardinality(B) \in Nat
    BY Zenon, <1>4, FS_CardinalityType
  <2>4. Cardinality(C) = Cardinality(A \cup B)
    BY Zenon, <1>6
  <2> QED BY <1>5, <2>1, <2>2, <2>3, <2>4
<1> QED BY <1>5, <1>8, <1>9
----------------------------------------------------------------------------
(* What the actions have in common *)

\* The range of every variable at one process.
LEMMA Typing ==
  ASSUME TypeOK, NEW i \in Process
  PROVE  /\ pc[i] \in Label /\ arg[i] \in Process /\ pages[i] \in 0 .. NumPhysPages
         /\ exited[i] \in ExitCode \cup {NoCode}
         /\ Exists(i) => /\ pcb[i] \in PCBType
                         /\ pcb[i].program \in Program
                         /\ pcb[i].parentID \in {-1} \cup Process
                         /\ pcb[i].exitcode \in ExitCode \cup {NoCode}
                         /\ pcb[i].joinsem \in 0 .. 1 /\ pcb[i].exitsem \in 0 .. 1
                         /\ pcb[i].destroyed \in BOOLEAN
BY DEF TypeOK, Exists, PCBType

\* The meeting of j with its parent is where it was, when the step does not touch it.
LEMMA MeetingKept ==
  ASSUME NEW j, Meeting(j),
         pcb'[j].joinsem = pcb[j].joinsem, pcb'[j].exitsem = pcb[j].exitsem,
         pcb'[j].destroyed = pcb[j].destroyed,
         \/ pc'[j] = pc[j]
         \/ pc[j] \notin Left /\ pc'[j] \notin Left,
         Joined(pcb[j].parentID, j)' <=> Joined(pcb[j].parentID, j),
         Releasing(j)' <=> Releasing(j)
  PROVE  Meeting(j)'
<1>1. CASE pc'[j] = pc[j]
  BY Zenon, <1>1 DEF Meeting
<1>2. CASE pc[j] \notin Left /\ pc'[j] \notin Left
  <2>1. pc[j] \notin {"exitWait", "remove", "finished"} /\ pc'[j] # "finished"
    BY <1>2 DEF Left
  <2> QED BY Zenon, <1>2, <2>1 DEF Meeting
<1> QED BY <1>1, <1>2

\* A step that neither makes a PCB nor starts a thread keeps the families.
LEMMA FamilyKept ==
  ASSUME Core,
         \A k \in Process : /\ Exists(k)' <=> Exists(k)
                            /\ pcb'[k].parentID = pcb[k].parentID
                            /\ pc'[k] = "none" <=> pc[k] = "none",
         ~ pcb'[0].destroyed,
         pc'[0] \notin Exiting \cup {"none", "start", "fault"}
  PROVE  /\ Family'
         /\ \A k \in Process : Children(k)' = Children(k)
<1>1. 0 \in Process
  BY ProcessAssumption DEF Process
<1>2. ASSUME NEW j \in Process \ {0}, Exists(j)'
      PROVE  pcb'[j].parentID \in Process \ {j} /\ Exists(pcb[j].parentID)'
  <2>1. /\ pcb'[j].parentID = pcb[j].parentID
        /\ pcb[j].parentID \in Process \ {j} /\ Exists(pcb[j].parentID)
    BY <1>2 DEF Core, Family
  <2> QED BY <2>1 DEF Exists
<1>3. Exists(0)' /\ pcb'[0].parentID = -1
  BY <1>1 DEF Core, Family
<1>4. \A j \in Process : pc'[j] # "none" => Exists(j)'
  BY DEF Core, Family
<1>5. Family'
  BY <1>2, <1>3, <1>4 DEF Family
<1>6. \A k \in Process : Children(k)' = Children(k)
  BY DEF Children, Exists
<1> QED BY <1>5, <1>6

\* A step that changes none of these variables.
LEMMA SameProcesses ==
  ASSUME IInv, UNCHANGED <<pcb, pc, arg, wanted, bmsem, joined, exited>>
  PROVE  Core' /\ Locking' /\ Wanted'
<1>1. Family' /\ Forking' /\ Joining'
  BY Zenon DEF IInv, Core, Family, Forking, Joining, Children, Exists
<1>2. Exits' /\ Records'
  BY Zenon DEF IInv, Core, Exits, Records, Recorded, Exists
<1>3. Meetings'
  BY Zenon DEF IInv, Core, Meetings, Meeting, Exists, Joined, Releasing
<1>4. Locking' /\ Wanted'
  BY Zenon DEF IInv, Locking, Wanted
<1> QED BY <1>1, <1>2, <1>3, <1>4 DEF Core

\* Labels outside Join, Exit and the creation of a PCB.
Quiet == {"start", "fault", "user", "bmsem", "create", "unlock"}

\* A step from one of these labels to another keeps the relations between parents
\* and children.
LEMMA QuietStep ==
  ASSUME Core, TypeOK, NEW i \in Process, NEW l \in Quiet,
         pc[i] \in Quiet, i = 0 => l \notin {"start", "fault"},
         Goto(i, l), UNCHANGED <<pcb, arg, joined, exited>>
  PROVE  Core'
<1>1. /\ pc'[i] = l
      /\ \A k \in Process \ {i} : pc'[k] = pc[k]
  BY DEF Goto, TypeOK
<1>2. Family'
  <2>1. pc'[0] \notin Exiting \cup {"none", "start", "fault"}
    BY <1>1, ProcessAssumption DEF Core, Family, Quiet, Exiting, Process
  <2>2. \A j \in Process : pc'[j] # "none" => Exists(j)
    BY <1>1 DEF Core, Family, Quiet
  <2> QED BY <2>1, <2>2 DEF Core, Family, Exists
<1>3. Forking'
  <2>1. \A k \in Process : arg[k] \in Process
    BY DEF TypeOK
  <2> QED BY <1>1, <2>1 DEF Core, Forking, Exists, Quiet
<1>4. Joining'
  BY <1>1 DEF Core, Joining, Children, Quiet
<1>5. Exits'
  BY <1>1 DEF Core, Exits, Exists, Quiet, Exiting
<1>6. Records'
  <2>1. \A r \in joined : r[2] \in Process
    BY DEF TypeOK
  <2> QED BY <1>1, <2>1 DEF Core, Records, Recorded, Left, Exists, Quiet
<1>7. Meetings'
  <2> SUFFICES ASSUME NEW j \in Process \ {0}, Exists(j) PROVE Meeting(j)'
    BY DEF Meetings, Exists
  <2>1. Meeting(j) /\ pcb[j].parentID \in Process
    BY DEF Core, Meetings, Family
  <2>2. Joined(pcb[j].parentID, j)' <=> Joined(pcb[j].parentID, j)
    BY DEF Joined
  <2>3. Releasing(j)' <=> Releasing(j)
    BY <1>1, <2>1 DEF Releasing, Quiet
  <2>4. \/ pc'[j] = pc[j]
        \/ pc[j] \notin Left /\ pc'[j] \notin Left
    BY <1>1 DEF Quiet, Left
  <2> QED BY Zenon, <2>1, <2>2, <2>3, <2>4, MeetingKept
<1> QED BY <1>2, <1>3, <1>4, <1>5, <1>6, <1>7 DEF Core
----------------------------------------------------------------------------
(* The invariant holds initially *)

LEMMA InitIInv == Init => IInv
<1> SUFFICES ASSUME Init PROVE IInv
  OBVIOUS
<1>1. /\ 0 \in Process /\ -1 \notin Process /\ Process \subseteq Int
      /\ NumPhysPages \in Nat /\ Pages[MainProgram] \in 1 .. NumPhysPages
      /\ MainProgram \in Program
  BY ProcessAssumption DEF Process
<1>2. PCB(MainProgram, -1) \in PCBType
  BY <1>1 DEF PCB, PCBType
<1>3. PCB(MainProgram, -1) # NoPCB
  BY <1>2, NoPCBAssumption
<1>4. \A i \in Process : Exists(i) <=> i = 0
  BY <1>1, <1>3 DEF Init, Exists
<1>5. TypeOK
  <2>1. pcb \in [Process -> PCBType \cup {NoPCB}]
    BY <1>2 DEF Init
  <2>2. pages \in [Process -> 0 .. NumPhysPages] /\ clear \in 0 .. NumPhysPages
    BY <1>1 DEF Init
  <2>3. pc \in [Process -> Label] /\ arg \in [Process -> Process]
    BY <1>1 DEF Init, Label
  <2>4. /\ wanted \in [Process -> Program \cup {NoProgram}]
        /\ exited \in [Process -> ExitCode \cup {NoCode}]
    BY DEF Init
  <2>5. bmsem \in 0 .. 1
    BY DEF Init
  <2>6. /\ halted \in {"no", "exit", "fault"} /\ undefined \in BOOLEAN
        /\ joined \subseteq Process \X Process \X (ExitCode \cup {NoCode})
    BY Zenon DEF Init
  <2> QED BY <2>1, <2>2, <2>3, <2>4, <2>5, <2>6 DEF TypeOK
<1>6. Core
  <2>1. pcb[0] = PCB(MainProgram, -1) /\ pc[0] = "user"
    BY <1>1 DEF Init
  <2>2. \A i \in Process \ {0} : pc[i] = "none"
    BY DEF Init
  <2>3. Family
    BY <1>1, <1>3, <1>4, <2>1, <2>2 DEF Family, PCB, Exiting
  <2>4. Forking /\ Joining
    BY <1>1, <2>1, <2>2 DEF Forking, Joining
  <2>5. Exits
    BY <1>1, <1>4, <2>1, <2>2 DEF Init, Exits, Exiting, PCB
  <2>6. Records /\ Meetings
    BY <1>4 DEF Init, Records, Meetings
  <2> QED BY <2>3, <2>4, <2>5, <2>6 DEF Core
<1>7. Locking /\ Wanted
  BY DEF Init, Locking, Locked, Wanted
<1>8. PagesHeld
  <2> DEFINE p == [i \in Process |-> 0]
  <2>1. p \in [Process -> 0 .. NumPhysPages] /\ p[0] = 0
    BY <1>1
  <2>2. HeldBy(p) = {}
    BY <1>1 DEF HeldBy
  <2>3. Cardinality(HeldBy(p)) = 0
    BY Zenon, <2>2, FS_EmptySet
  <2>4. pages = [p EXCEPT ![0] = Pages[MainProgram]]
    BY Zenon, <1>1 DEF Init
  <2>5. Pages[MainProgram] \in 0 .. NumPhysPages
    BY <1>1
  <2> HIDE DEF p
  <2>6. Cardinality(HeldBy(pages)) = Cardinality(HeldBy(p)) + Pages[MainProgram]
    BY Zenon, <1>1, <2>1, <2>4, <2>5, GivePages
  <2>7. Held = HeldBy(pages)
    BY DEF Held, HeldBy
  <2>8. \A i \in Process : pc[i] \in {"none", "start", "fault", "finished"} => pages[i] = 0
    BY DEF Init
  <2>9. clear + Cardinality(Held) = NumPhysPages
    BY <1>1, <2>3, <2>6, <2>7 DEF Init
  <2> QED BY <2>8, <2>9 DEF PagesHeld
<1>9. DeletedOnlyByMisuse
  BY DEF Init, DeletedOnlyByMisuse
<1> QED BY <1>5, <1>6, <1>7, <1>8, <1>9 DEF IInv

----------------------------------------------------------------------------
(* The actions keep the invariant: Exec *)

LEMMA ExecIInv ==
  ASSUME IInv, NEW i \in Process, NEW program \in Program, Exec(i, program)
  PROVE  IInv'
<1>1. Core'
  <2>1. "bmsem" \in Quiet /\ pc[i] \in Quiet
    BY DEF Exec, At, Quiet
  <2>2. UNCHANGED <<pcb, arg, joined, exited>> /\ Goto(i, "bmsem")
    BY DEF Exec, history
  <2> QED BY <2>1, <2>2, QuietStep DEF IInv
<1>2. TypeOK'
  BY DEF IInv, TypeOK, Exec, Goto, Label, memory, history
<1>3. Locking'
  BY DEF IInv, TypeOK, Exec, At, Goto, Locking, Locked
<1>4. Wanted'
  BY DEF IInv, TypeOK, Exec, Goto, Wanted
<1>5. PagesHeld'
  BY DEF IInv, TypeOK, Exec, Goto, PagesHeld, Held, memory
<1>6. DeletedOnlyByMisuse'
  BY DEF Exec, At, DeletedOnlyByMisuse
<1> QED BY <1>1, <1>2, <1>3, <1>4, <1>5, <1>6 DEF IInv

LEMMA ExecLockIInv ==
  ASSUME IInv, NEW i \in Process, ExecLock(i)
  PROVE  IInv'
<1>1. Core'
  <2>1. "create" \in Quiet /\ pc[i] \in Quiet
    BY DEF ExecLock, At, Quiet
  <2>2. UNCHANGED <<pcb, arg, joined, exited>> /\ Goto(i, "create")
    BY DEF ExecLock, history
  <2> QED BY <2>1, <2>2, QuietStep DEF IInv
<1>2. TypeOK'
  BY DEF IInv, TypeOK, ExecLock, Goto, Label, memory, history
<1>3. Locking'
  BY DEF IInv, TypeOK, ExecLock, At, Goto, Locking, Locked
<1>4. Wanted'
  BY DEF IInv, TypeOK, ExecLock, At, Goto, Wanted
<1>5. PagesHeld'
  BY DEF IInv, TypeOK, ExecLock, Goto, PagesHeld, Held, memory
<1>6. DeletedOnlyByMisuse'
  BY DEF ExecLock, At, DeletedOnlyByMisuse
<1> QED BY <1>1, <1>2, <1>3, <1>4, <1>5, <1>6 DEF IInv

LEMMA ExecRefusedIInv ==
  ASSUME IInv, NEW i \in Process, ExecRefused(i)
  PROVE  IInv'
<1>1. Core'
  <2>1. "unlock" \in Quiet /\ pc[i] \in Quiet
    BY DEF ExecRefused, At, Quiet
  <2>2. UNCHANGED <<pcb, arg, joined, exited>> /\ Goto(i, "unlock")
    BY DEF ExecRefused, history
  <2> QED BY <2>1, <2>2, QuietStep DEF IInv
<1>2. TypeOK'
  BY DEF IInv, TypeOK, ExecRefused, Goto, Label, memory, history
<1>3. Locking'
  BY DEF IInv, TypeOK, ExecRefused, At, Goto, Locking, Locked
<1>4. Wanted'
  BY DEF IInv, TypeOK, ExecRefused, Goto, Wanted
<1>5. PagesHeld'
  BY DEF IInv, TypeOK, ExecRefused, Goto, PagesHeld, Held, memory
<1>6. DeletedOnlyByMisuse'
  BY DEF ExecRefused, At, DeletedOnlyByMisuse
<1> QED BY <1>1, <1>2, <1>3, <1>4, <1>5, <1>6 DEF IInv

LEMMA ExecUnlockIInv ==
  ASSUME IInv, NEW i \in Process, ExecUnlock(i)
  PROVE  IInv'
<1>1. Core'
  <2>1. "user" \in Quiet /\ pc[i] \in Quiet
    BY DEF ExecUnlock, At, Quiet
  <2>2. UNCHANGED <<pcb, arg, joined, exited>> /\ Goto(i, "user")
    BY DEF ExecUnlock, history
  <2> QED BY <2>1, <2>2, QuietStep DEF IInv
<1>2. TypeOK'
  <2>1. bmsem = 0
    BY DEF IInv, Locking, Locked, ExecUnlock, At
  <2> QED BY <2>1 DEF IInv, TypeOK, ExecUnlock, Goto, Label, memory, history
<1>3. Locking'
  BY DEF IInv, TypeOK, ExecUnlock, At, Goto, Locking, Locked
<1>4. Wanted'
  BY DEF IInv, TypeOK, ExecUnlock, Goto, Wanted
<1>5. PagesHeld'
  BY DEF IInv, TypeOK, ExecUnlock, Goto, PagesHeld, Held, memory
<1>6. DeletedOnlyByMisuse'
  BY DEF ExecUnlock, At, DeletedOnlyByMisuse
<1> QED BY <1>1, <1>2, <1>3, <1>4, <1>5, <1>6 DEF IInv
\* ~AddrSpace gives back all pages of process i.
LEMMA FreeSpacePages ==
  ASSUME IInv, NEW i \in Process, FreeSpace(i)
  PROVE  /\ pages' \in [Process -> 0 .. NumPhysPages]
         /\ clear' \in 0 .. NumPhysPages
         /\ clear' + Cardinality(Held') = NumPhysPages
         /\ \A k \in Process : pages'[k] = IF k = i THEN 0 ELSE pages[k]
<1>1. /\ pages \in [Process -> 0 .. NumPhysPages] /\ clear \in 0 .. NumPhysPages
      /\ NumPhysPages \in Nat
  BY ProcessAssumption DEF IInv, TypeOK
<1>2. /\ pages' = [pages EXCEPT ![i] = 0]
      /\ clear' = clear + pages[i]
  BY DEF FreeSpace
<1>3. pages' \in [Process -> 0 .. NumPhysPages] /\ pages'[i] = 0
  BY <1>1, <1>2
<1>4. pages = [pages' EXCEPT ![i] = pages[i]] /\ pages[i] \in 0 .. NumPhysPages
  BY Zenon, <1>1, <1>2
<1>5. Held = HeldBy(pages) /\ Held' = HeldBy(pages')
  BY DEF Held, HeldBy
<1>6. /\ Cardinality(HeldBy(pages')) \in Nat
      /\ Cardinality(HeldBy([pages' EXCEPT ![i] = pages[i]])) = Cardinality(HeldBy(pages')) + pages[i]
  BY Zenon, <1>3, <1>4, GivePages
<1>7. Cardinality(Held') \in Nat /\ Cardinality(Held) = Cardinality(Held') + pages[i]
  BY Zenon, <1>4, <1>5, <1>6
<1>8. clear + Cardinality(Held) = NumPhysPages
  BY DEF IInv, PagesHeld
<1>9. clear' + Cardinality(Held') = NumPhysPages /\ clear' \in 0 .. NumPhysPages
  BY <1>1, <1>2, <1>4, <1>7, <1>8
<1> QED BY <1>1, <1>2, <1>3, <1>9

LEMMA StartProcessIInv ==
  ASSUME IInv, NEW i \in Process, StartProcess(i)
  PROVE  IInv'
<1> DEFINE n == Pages[pcb[i].program]
<1>1. /\ pc[i] = "start" /\ i # 0
      /\ UNCHANGED <<pcb, arg, wanted, bmsem, joined, exited, halted, undefined>>
      /\ ~ undefined
  BY DEF IInv, Core, Family, StartProcess, At, history
<1>2. n \in Nat \ {0} /\ NumPhysPages \in Nat
  <2>1. pcb[i].program \in Program
    BY <1>1, Typing DEF IInv, Core, Family
  <2> QED BY <2>1, ProcessAssumption
<1>3. \/ Goto(i, "fault") /\ UNCHANGED <<pages, clear>>
      \/ /\ ~ n > clear
         /\ Goto(i, "user") /\ pages' = [pages EXCEPT ![i] = n] /\ clear' = clear - n
  BY DEF StartProcess, memory
<1> HIDE DEF n
<1>4. Core'
  <2>1. "fault" \in Quiet /\ "user" \in Quiet /\ pc[i] \in Quiet
    BY <1>1 DEF Quiet
  <2> QED BY <1>1, <1>3, <2>1, QuietStep DEF IInv
<1>5. TypeOK'
  <2>1. pc' \in [Process -> Label]
    BY <1>3 DEF IInv, TypeOK, Goto, Label
  <2>2. pages' \in [Process -> 0 .. NumPhysPages] /\ clear' \in 0 .. NumPhysPages
    BY <1>2, <1>3 DEF IInv, TypeOK
  <2> QED BY <1>1, <2>1, <2>2 DEF IInv, TypeOK
<1>6. Locking' /\ Wanted'
  BY <1>1, <1>3 DEF IInv, TypeOK, Goto, Locking, Locked, Wanted
<1>7. PagesHeld'
  <2>1. CASE UNCHANGED <<pages, clear>> /\ Goto(i, "fault")
    BY <1>1, <2>1 DEF IInv, TypeOK, PagesHeld, Goto, Held
  <2>2. CASE /\ ~ n > clear
             /\ Goto(i, "user") /\ pages' = [pages EXCEPT ![i] = n] /\ clear' = clear - n
    <3>1. pages \in [Process -> 0 .. NumPhysPages] /\ pages[i] = 0 /\ clear \in Nat
      BY <1>1 DEF IInv, TypeOK, PagesHeld
    <3>2. Held = HeldBy(pages) /\ Held' = HeldBy(pages')
      BY DEF Held, HeldBy
    <3>3. n \in 0 .. NumPhysPages
      BY <1>2, <2>2 DEF IInv, TypeOK
    <3>4. /\ Cardinality(HeldBy(pages)) \in Nat
          /\ Cardinality(HeldBy([pages EXCEPT ![i] = n])) = Cardinality(HeldBy(pages)) + n
      BY Zenon, <3>1, <3>3, GivePages
    <3>5. Cardinality(Held) \in Nat /\ Cardinality(Held') = Cardinality(Held) + n
      BY Zenon, <2>2, <3>2, <3>4
    <3>6. clear' + Cardinality(Held') = NumPhysPages
      BY <1>2, <2>2, <3>1, <3>5 DEF IInv, PagesHeld
    <3>7. \A k \in Process : pc'[k] \in {"none", "start", "fault", "finished"} => pages'[k] = 0
      BY <2>2, <3>1 DEF IInv, TypeOK, PagesHeld, Goto
    <3> QED BY <3>6, <3>7 DEF PagesHeld
  <2> QED BY <1>3, <2>1, <2>2
<1>8. DeletedOnlyByMisuse'
  BY <1>1 DEF DeletedOnlyByMisuse
<1> QED BY <1>4, <1>5, <1>6, <1>7, <1>8 DEF IInv

\* The steps that stop the machine leave the processes as they are.
LEMMA StopIInv ==
  ASSUME IInv, NEW i \in Process, Fault(i) \/ SysHalt(i) \/ ExitMain
  PROVE  IInv'
<1>1. /\ UNCHANGED <<pcb, pc, arg, wanted, bmsem, joined, exited, undefined>>
      /\ halted' \in {"no", "exit", "fault"} /\ ~ undefined
  BY DEF Fault, SysHalt, ExitMain, At, history
<1>2. UNCHANGED <<pages, clear>> \/ FreeSpace(0)
  BY DEF Fault, SysHalt, ExitMain, memory
<1>3. 0 \in Process
  BY ProcessAssumption DEF Process
<1>4. /\ pages' \in [Process -> 0 .. NumPhysPages] /\ clear' \in 0 .. NumPhysPages
      /\ clear' + Cardinality(Held') = NumPhysPages
      /\ \A k \in Process : pages[k] = 0 => pages'[k] = 0
  <2>1. CASE UNCHANGED <<pages, clear>>
    BY <2>1 DEF IInv, TypeOK, PagesHeld, Held
  <2>2. CASE FreeSpace(0)
    BY <1>3, <2>2, FreeSpacePages
  <2> QED BY <1>2, <2>1, <2>2
<1>5. TypeOK'
  BY <1>1, <1>4 DEF IInv, TypeOK
<1>6. PagesHeld'
  BY <1>1, <1>4 DEF IInv, PagesHeld
<1>7. Core' /\ Locking' /\ Wanted'
  BY <1>1, SameProcesses
<1>8. DeletedOnlyByMisuse'
  BY <1>1 DEF DeletedOnlyByMisuse
<1> QED BY <1>5, <1>6, <1>7, <1>8 DEF IInv

\* The fields of the PCB that addProcess makes.
LEMMA NewPCB ==
  \A program, parent :
    LET new == PCB(program, parent)
    IN  /\ new.parentID = parent /\ new.exitcode = NoCode
        /\ new.joinsem = 0 /\ new.exitsem = 0 /\ new.destroyed = FALSE
BY DEF PCB

LEMMA ExecUpdateIInv ==
  ASSUME IInv, NEW i \in Process, ExecUpdate(i)
  PROVE  IInv'
<1> DEFINE index == Min(FreeSlots)
<1>1. index \in Process /\ ~ Exists(index)
  <2>1. FreeSlots \subseteq Nat /\ FreeSlots # {}
    BY ProcessAssumption DEF FreeSlots, Process, ExecUpdate
  <2>2. index \in FreeSlots
    BY Zenon, <2>1, MinOfNaturals
  <2> QED BY <2>2 DEF FreeSlots, Exists
<1>2. /\ pc[i] = "create" /\ ~ undefined
      /\ pcb' = [pcb EXCEPT ![index] = PCB(wanted[i], i)]
      /\ arg' = [arg EXCEPT ![i] = index]
      /\ Goto(i, "fork")
      /\ UNCHANGED <<wanted, bmsem, pages, clear, joined, exited, halted, undefined>>
  BY DEF ExecUpdate, At, memory, history
<1> HIDE DEF index
<1>3. /\ pc'[i] = "fork" /\ \A k \in Process \ {i} : pc'[k] = pc[k]
      /\ arg'[i] = index /\ \A k \in Process \ {i} : arg'[k] = arg[k]
      /\ pcb'[index] = PCB(wanted[i], i) /\ \A k \in Process \ {index} : pcb'[k] = pcb[k]
  BY <1>1, <1>2 DEF IInv, TypeOK, Goto
<1>4. wanted[i] \in Program /\ Exists(i) /\ i # index /\ index # 0 /\ pc[index] = "none"
  BY <1>1, <1>2 DEF IInv, Wanted, Core, Family
<1>5. PCB(wanted[i], i) \in PCBType /\ PCB(wanted[i], i) # NoPCB
  <2>1. PCB(wanted[i], i) \in PCBType
    BY <1>4 DEF PCB, PCBType
  <2> QED BY <2>1, NoPCBAssumption
<1>6. TypeOK'
  <2>1. pcb' \in [Process -> PCBType \cup {NoPCB}]
    BY Zenon, <1>2, <1>5 DEF IInv, TypeOK
  <2>2. pc' \in [Process -> Label] /\ arg' \in [Process -> Process]
    BY <1>1, <1>2 DEF IInv, TypeOK, Goto, Label
  <2> QED BY <1>2, <2>1, <2>2 DEF IInv, TypeOK
<1>7. \A k \in Process : Exists(k)' <=> Exists(k) \/ k = index
  BY <1>3, <1>5 DEF Exists
<1>8. Family'
  <2>1. /\ Exists(0)' /\ pcb'[0] = pcb[0]
        /\ pc'[0] \notin Exiting \cup {"none", "start", "fault"}
    BY <1>3, <1>4, <1>7, ProcessAssumption DEF IInv, Core, Family, Exiting, Process
  <2>2. ASSUME NEW j \in Process \ {0}, Exists(j)'
        PROVE  pcb'[j].parentID \in Process \ {j} /\ Exists(pcb[j].parentID)'
    <3>1. CASE j = index
      <4>1. pcb'[j].parentID = i
        <5>1. pcb'[j] = PCB(wanted[i], i)
          BY <1>3, <3>1
        <5> QED BY Zenon, <5>1, NewPCB
      <4> QED BY <1>4, <1>7, <3>1, <4>1 DEF Exists
    <3>2. CASE j # index
      <4>1. /\ pcb'[j] = pcb[j] /\ Exists(j)
            /\ pcb[j].parentID \in Process \ {j} /\ Exists(pcb[j].parentID)
        BY <1>3, <1>7, <2>2, <3>2 DEF IInv, Core, Family
      <4> QED BY <1>7, <4>1 DEF Exists
    <3> QED BY <3>1, <3>2
  <2>3. \A j \in Process : pc'[j] # "none" => Exists(j)'
    BY <1>3, <1>4, <1>7 DEF IInv, Core, Family
  <2> QED BY <2>1, <2>2, <2>3 DEF IInv, Core, Family
<1>9. Forking'
  <2> SUFFICES ASSUME NEW k \in Process, pc'[k] = "fork"
               PROVE  Exists(arg[k])' /\ pc'[arg'[k]] = "none" /\ pcb'[arg'[k]].parentID = k
    BY DEF Forking
  <2>1. k = i
    BY <1>2, <1>3 DEF IInv, Locking, Locked
  <2>2. pcb'[index].parentID = i
    <3>1. pcb'[index] = PCB(wanted[i], i)
      BY <1>3
    <3> QED BY Zenon, <3>1, NewPCB
  <2> QED BY <1>1, <1>3, <1>4, <1>5, <2>1, <2>2 DEF Exists
<1>10. Joining'
  <2>1. \A k \in Process : Children(k) \subseteq Children(k)'
    BY <1>1, <1>3, <1>7 DEF Children, Exists
  <2> QED BY <1>3, <2>1 DEF IInv, Core, Joining
<1>11. Exits'
  <2>1. Exits
    BY Zenon DEF IInv, Core
  <2>2. PCB(wanted[i], i).exitcode = NoCode
    BY Zenon, NewPCB
  <2>3. \A k \in Process : pc'[k] \in Exiting <=> pc[k] \in Exiting
    BY <1>2, <1>3 DEF Exiting
  <2>4. exited[index] = NoCode
    BY <1>1, <1>4, <2>1 DEF Exits, Exiting
  <2>5. exited' = exited
    BY <1>2
  <2> QED BY <1>1, <1>3, <1>7, <2>1, <2>2, <2>3, <2>4, <2>5 DEF Exits
<1>12. Records'
  <2>1. \A r \in joined : r[2] \in Process
    BY DEF IInv, TypeOK
  <2> QED BY <1>1, <1>2, <1>3, <1>7, <2>1 DEF IInv, Core, Records, Recorded, Left
<1>13. Meetings'
  <2> SUFFICES ASSUME NEW j \in Process \ {0}, Exists(j)' PROVE Meeting(j)'
    BY DEF Meetings
  <2>1. CASE j = index
    <3>n. pcb'[j] = PCB(wanted[i], i)
      BY <1>3, <2>1
    <3>1. pcb'[j].parentID = i /\ ~ Releasing(j)'
      <4>1. pcb'[j].parentID = i
        BY Zenon, <3>n, NewPCB
      <4> QED BY <1>3, <4>1 DEF Releasing
    <3>2. ~ Joined(i, j)'
      <4>1. \A c \in ExitCode : <<i, j, c>> \notin joined
        BY <1>1, <2>1 DEF IInv, Core, Records, Recorded, Left
      <4> QED BY Zenon, <1>2, <4>1 DEF Joined
    <3>3. pc'[j] = "none"
      BY <1>3, <1>4, <2>1
    <3>4. pcb'[j].joinsem = 0 /\ pcb'[j].exitsem = 0 /\ ~ pcb'[j].destroyed
      <4>1. LET new == PCB(wanted[i], i)
            IN  new.joinsem = 0 /\ new.exitsem = 0 /\ new.destroyed = FALSE
        BY Zenon, NewPCB
      <4> QED BY <3>n, <4>1
    <3>5. ~ Joined(pcb[j].parentID, j)'
      BY Zenon, <3>1, <3>2 DEF Joined
    <3> QED BY <3>1, <3>3, <3>4, <3>5 DEF Meeting, Left
  <2>2. CASE j # index
    <3>e. Exists(j) /\ pcb'[j] = pcb[j]
      BY <1>3, <1>7, <2>2
    <3>1. Meeting(j) /\ pcb[j].parentID \in Process /\ pcb'[j] = pcb[j]
      BY Zenon, <3>e DEF IInv, Core, Meetings, Family
    <3>2. Joined(pcb[j].parentID, j)' <=> Joined(pcb[j].parentID, j)
      <4>1. joined' = joined
        BY <1>2
      <4> QED BY Zenon, <3>1, <4>1 DEF Joined
    <3>3. Releasing(j)' <=> Releasing(j)
      BY <1>2, <1>3, <3>1 DEF Releasing
    <3>4. \/ pc'[j] = pc[j]
          \/ pc[j] \notin Left /\ pc'[j] \notin Left
      BY <1>2, <1>3 DEF Left
    <3> QED BY Zenon, <3>1, <3>2, <3>3, <3>4, MeetingKept
  <2> QED BY <2>1, <2>2
<1>14. Core'
  BY <1>8, <1>9, <1>10, <1>11, <1>12, <1>13 DEF Core
<1>15. Locking' /\ Wanted'
  BY <1>2, <1>3 DEF IInv, Locking, Locked, Wanted
<1>16. PagesHeld'
  BY <1>2, <1>3 DEF IInv, PagesHeld, Held
<1>17. DeletedOnlyByMisuse'
  BY <1>2 DEF DeletedOnlyByMisuse
<1> QED BY <1>6, <1>14, <1>15, <1>16, <1>17 DEF IInv

LEMMA ExecForkIInv ==
  ASSUME IInv, NEW i \in Process, ExecFork(i)
  PROVE  IInv'
<1> DEFINE a == arg[i]
<1>1. /\ pc[i] = "fork" /\ ~ undefined
      /\ pc' = [pc EXCEPT ![i] = "unlock", ![a] = "start"]
      /\ UNCHANGED <<pcb, arg, wanted, bmsem, pages, clear, joined, exited, halted, undefined>>
  BY DEF ExecFork, At, memory, history
<1>2. a \in Process /\ pc[a] = "none" /\ Exists(a) /\ a # i /\ a # 0
  BY <1>1 DEF IInv, TypeOK, Core, Forking, Family
<1> HIDE DEF a
<1>3. /\ pc'[i] = "unlock" /\ pc'[a] = "start"
      /\ \A k \in Process \ {i, a} : pc'[k] = pc[k]
  BY <1>1, <1>2 DEF IInv, TypeOK
<1>4. TypeOK'
  <2>1. pc' \in [Process -> Label]
    BY <1>1, <1>2 DEF IInv, TypeOK, Label
  <2> QED BY <1>1, <2>1 DEF IInv, TypeOK
<1>5. Family'
  <2>1. pc'[0] \notin Exiting \cup {"none", "start", "fault"}
    <3>1. 0 \in Process
      BY ProcessAssumption DEF Process
    <3>2. pc[0] \notin Exiting \cup {"none", "start", "fault"}
      BY Zenon DEF IInv, Core, Family
    <3> QED BY <1>2, <1>3, <3>1, <3>2 DEF Exiting
  <2>2. \A j \in Process : pc'[j] # "none" => Exists(j)
    BY <1>1, <1>2, <1>3 DEF IInv, Core, Family
  <2> QED BY Zenon, <1>1, <2>1, <2>2 DEF IInv, Core, Family, Exists
<1>6. Forking'
  <2>1. \A k \in Process : pc'[k] # "fork"
    BY Zenon, <1>1, <1>3 DEF IInv, Locking, Locked
  <2> QED BY <2>1 DEF Forking
<1>7. Joining'
  BY <1>1, <1>3 DEF IInv, Core, Joining, Children
<1>8. Exits'
  BY Zenon, <1>1, <1>2, <1>3 DEF IInv, Core, Exits, Exists, Exiting
<1>9. Records'
  <2>1. \A r \in joined : r[2] \in Process
    BY DEF IInv, TypeOK
  <2> QED BY Zenon, <1>1, <1>2, <1>3, <2>1 DEF IInv, Core, Records, Recorded, Left, Exists
<1>10. Meetings'
  <2> SUFFICES ASSUME NEW j \in Process \ {0}, Exists(j) PROVE Meeting(j)'
    BY <1>1 DEF Meetings, Exists
  <2>1. Meeting(j) /\ pcb[j].parentID \in Process /\ pcb'[j] = pcb[j]
    BY <1>1 DEF IInv, Core, Meetings, Family
  <2>2. Joined(pcb[j].parentID, j)' <=> Joined(pcb[j].parentID, j)
    BY <1>1 DEF Joined
  <2>3. Releasing(j)' <=> Releasing(j)
    BY Zenon, <1>1, <1>2, <1>3, <2>1 DEF Releasing
  <2>4. \/ pc'[j] = pc[j]
        \/ pc[j] \notin Left /\ pc'[j] \notin Left
    BY Zenon, <1>1, <1>2, <1>3 DEF Left
  <2> QED BY Zenon, <2>1, <2>2, <2>3, <2>4, MeetingKept
<1>11. Core'
  BY <1>5, <1>6, <1>7, <1>8, <1>9, <1>10 DEF Core
<1>12. Locking' /\ Wanted'
  BY Zenon, <1>1, <1>2, <1>3 DEF IInv, Locking, Locked, Wanted
<1>13. PagesHeld'
  BY Zenon, <1>1, <1>2, <1>3 DEF IInv, PagesHeld, Held
<1>14. DeletedOnlyByMisuse'
  BY <1>1 DEF DeletedOnlyByMisuse
<1> QED BY <1>4, <1>11, <1>12, <1>13, <1>14 DEF IInv
----------------------------------------------------------------------------
(* The actions keep the invariant: Exit *)

\* Labels from which a step of Exit or Join starts, or to which it goes.
Meet == Exiting \cup {"user", "joinWait", "exitRelease"}

\* A step of Exit or Join makes no PCB and does not change who is whose child.
LEMMA MeetStep ==
  ASSUME IInv, NEW i \in Process, NEW l \in Meet, pc[i] \in Meet, Goto(i, l),
         i = 0 => l \notin Exiting, ~ pcb'[0].destroyed,
         \A k \in Process : /\ Exists(k)' <=> Exists(k)
                            /\ pcb'[k].parentID = pcb[k].parentID,
         arg' \in [Process -> Process], \A k \in Process \ {i} : arg'[k] = arg[k],
         l \in {"joinWait", "exitRelease"} => arg'[i] \in Children(i),
         UNCHANGED <<wanted, bmsem>>
  PROVE  /\ pc' \in [Process -> Label]
         /\ pc'[i] = l /\ \A k \in Process \ {i} : pc'[k] = pc[k]
         /\ Family' /\ Forking' /\ Joining' /\ Locking' /\ Wanted'
<1>1. /\ pc' \in [Process -> Label]
      /\ pc'[i] = l /\ \A k \in Process \ {i} : pc'[k] = pc[k]
  BY DEF IInv, TypeOK, Goto, Label, Meet, Exiting
<1>2. Family' /\ \A k \in Process : Children(k)' = Children(k)
  <2>1. pc'[0] \notin Exiting \cup {"none", "start", "fault"}
    <3>1. 0 \in Process /\ pc[0] \notin Exiting \cup {"none", "start", "fault"}
      BY ProcessAssumption DEF IInv, Core, Family, Process
    <3>2. l \notin {"none", "start", "fault"}
      BY DEF Meet, Exiting
    <3> QED BY Zenon, <1>1, <3>1, <3>2
  <2>2. \A k \in Process : pc'[k] = "none" <=> pc[k] = "none"
    BY <1>1 DEF Meet, Exiting
  <2> QED BY <2>1, <2>2, FamilyKept DEF IInv
<1>3. Forking'
  <2> SUFFICES ASSUME NEW k \in Process, pc'[k] = "fork"
               PROVE  Exists(arg[k])' /\ pc'[arg'[k]] = "none" /\ pcb'[arg'[k]].parentID = k
    BY DEF Forking
  <2>1. k # i
    BY <1>1 DEF Meet, Exiting
  <2>2. /\ arg'[k] = arg[k] /\ arg[k] \in Process /\ Exists(arg[k])
        /\ pc[arg[k]] = "none" /\ pcb[arg[k]].parentID = k
    BY <1>1, <2>1 DEF IInv, TypeOK, Core, Forking
  <2>3. arg[k] # i
    BY <2>2 DEF Meet, Exiting
  <2> QED BY <1>1, <2>2, <2>3 DEF Exists
<1>4. Joining'
  BY <1>1, <1>2 DEF IInv, Core, Joining
<1>5. Locking' /\ Wanted'
  BY <1>1 DEF IInv, Locking, Locked, Wanted, Meet, Exiting
<1> QED BY <1>1, <1>2, <1>3, <1>4, <1>5

LEMMA ExitIInv ==
  ASSUME IInv, NEW i \in Process, NEW code \in ExitCode, Exit(i, code)
  PROVE  IInv'
<1>1. /\ pc[i] = "user" /\ ~ undefined /\ i # 0
      /\ pcb' = [pcb EXCEPT ![i].exitcode = code]
      /\ exited' = [exited EXCEPT ![i] = code]
      /\ Goto(i, "decNumWait")
      /\ UNCHANGED <<arg, wanted, bmsem, pages, clear, joined, halted, undefined>>
  BY DEF Exit, At, memory
<1>2. Exists(i) /\ pcb[i] \in PCBType
  BY <1>1, Typing DEF IInv, Core, Family
<1>3. exited' \in [Process -> ExitCode \cup {NoCode}] /\ exited'[i] = code
      /\ \A k \in Process \ {i} : exited'[k] = exited[k]
  BY <1>1 DEF IInv, TypeOK
<1>4. /\ pcb' \in [Process -> PCBType \cup {NoPCB}] /\ pcb'[i] \in PCBType
      /\ pcb'[i].exitcode = code
      /\ \A k \in Process : /\ k # i => pcb'[k] = pcb[k]
                            /\ pcb'[k].parentID = pcb[k].parentID
                            /\ pcb'[k].joinsem = pcb[k].joinsem
                            /\ pcb'[k].exitsem = pcb[k].exitsem
                            /\ pcb'[k].destroyed = pcb[k].destroyed
  BY <1>1, <1>2 DEF IInv, TypeOK, PCBType
<1>5. \A k \in Process : Exists(k)' <=> Exists(k)
  BY <1>2, <1>4, NoPCBAssumption DEF Exists
<1>6. /\ pc' \in [Process -> Label]
      /\ pc'[i] = "decNumWait" /\ \A k \in Process \ {i} : pc'[k] = pc[k]
      /\ Family' /\ Forking' /\ Joining' /\ Locking' /\ Wanted'
  <2>1. "decNumWait" \in Meet /\ pc[i] \in Meet
    BY <1>1 DEF Meet, Exiting
  <2>2. ~ pcb'[0].destroyed
    <3>1. 0 \in Process
      BY ProcessAssumption DEF Process
    <3>2. ~ pcb[0].destroyed
      BY Zenon DEF IInv, Core, Family
    <3> QED BY <1>4, <3>1, <3>2
  <2>3. arg' \in [Process -> Process] /\ \A k \in Process : arg'[k] = arg[k]
    BY <1>1 DEF IInv, TypeOK
  <2> QED BY <1>1, <1>4, <1>5, <2>1, <2>2, <2>3, MeetStep
<1>7. TypeOK'
  BY <1>1, <1>3, <1>4, <1>6 DEF IInv, TypeOK
<1>8. Exits'
  <2> SUFFICES ASSUME NEW j \in Process
               PROVE  /\ exited'[j] # NoCode <=> pc'[j] \in Exiting
                      /\ Exists(j)' => pcb'[j].exitcode = exited'[j]
    BY DEF Exits
  <2>1. CASE j = i
    <3>1. code # NoCode
      BY ProcessAssumption
    <3> QED BY <1>3, <1>4, <1>6, <2>1, <3>1 DEF Exiting
  <2>2. CASE j # i
    BY <1>3, <1>4, <1>5, <1>6, <2>2 DEF IInv, Core, Exits
  <2> QED BY <2>1, <2>2
<1>9. Records'
  <2> SUFFICES ASSUME NEW r \in joined PROVE Recorded(r)'
    BY <1>1 DEF Records
  <2>1. r[2] \in Process
    BY DEF IInv, TypeOK
  <2>2. Recorded(r)
    BY DEF IInv, Core, Records
  <2>3. r[2] # i
    BY <1>1, <2>2 DEF Recorded, Left
  <2> QED BY <1>3, <1>4, <1>5, <1>6, <2>1, <2>2, <2>3 DEF Recorded, Exists
<1>10. Meetings'
  <2> SUFFICES ASSUME NEW j \in Process \ {0}, Exists(j)' PROVE Meeting(j)'
    BY DEF Meetings
  <2>1. Meeting(j) /\ pcb[j].parentID \in Process /\ pcb'[j].parentID = pcb[j].parentID
    BY <1>4, <1>5 DEF IInv, Core, Meetings, Family
  <2>2. Joined(pcb[j].parentID, j)' <=> Joined(pcb[j].parentID, j)
    BY <1>1, <2>1 DEF Joined
  <2>3. Releasing(j)' <=> Releasing(j)
    BY <1>1, <1>6, <2>1 DEF Releasing
  <2>4. \/ pc'[j] = pc[j]
        \/ pc[j] \notin Left /\ pc'[j] \notin Left
    BY <1>1, <1>6 DEF Left
  <2> QED BY Zenon, <1>4, <2>1, <2>2, <2>3, <2>4, MeetingKept
<1>11. PagesHeld'
  BY <1>1, <1>6 DEF IInv, PagesHeld, Held
<1>12. DeletedOnlyByMisuse'
  BY <1>1 DEF DeletedOnlyByMisuse
<1> QED BY <1>6, <1>7, <1>8, <1>9, <1>10, <1>11, <1>12 DEF IInv, Core

\* The steps after the system call itself change no exit code.
LEMMA CodesKept ==
  ASSUME IInv, UNCHANGED exited,
         \A k \in Process : /\ Exists(k)' <=> Exists(k)
                            /\ pcb'[k].parentID = pcb[k].parentID
                            /\ pcb'[k].exitcode = pcb[k].exitcode
                            /\ pc'[k] \in Exiting <=> pc[k] \in Exiting
                            /\ pc[k] \in Left => pc'[k] \in Left
  PROVE  /\ Exits'
         /\ \A r \in joined : Recorded(r)'
<1>1. Exits'
  BY DEF IInv, Core, Exits
<1>2. ASSUME NEW r \in joined PROVE Recorded(r)'
  <2>1. r[2] \in Process
    BY DEF IInv, TypeOK
  <2>2. Recorded(r)
    BY DEF IInv, Core, Records
  <2> QED BY <2>1, <2>2 DEF Recorded, Exists
<1> QED BY <1>1, <1>2

LEMMA DecNumWaitIInv ==
  ASSUME IInv, NEW i \in Process, DecNumWait(i)
  PROVE  IInv'
<1>1. /\ pc[i] = "decNumWait" /\ i # 0
      /\ undefined' = pcb[pcb[i].parentID].destroyed
      /\ Goto(i, "joinRelease")
      /\ UNCHANGED <<pcb, arg, wanted, bmsem, pages, clear, joined, exited, halted>>
  BY DEF DecNumWait, At, memory, history, IInv, Core, Family, Exiting
<1>2. /\ \A k \in Process : pcb'[k] = pcb[k] /\ (Exists(k)' <=> Exists(k))
      /\ arg' \in [Process -> Process] /\ \A k \in Process : arg'[k] = arg[k]
  BY <1>1 DEF IInv, TypeOK, Exists
<1>3. /\ pc' \in [Process -> Label]
      /\ pc'[i] = "joinRelease" /\ \A k \in Process \ {i} : pc'[k] = pc[k]
      /\ Family' /\ Forking' /\ Joining' /\ Locking' /\ Wanted'
  <2>1. "joinRelease" \in Meet /\ pc[i] \in Meet
    BY <1>1 DEF Meet, Exiting
  <2>2. ~ pcb'[0].destroyed
    BY <1>1 DEF IInv, Core, Family
  <2> QED BY <1>1, <1>2, <2>1, <2>2, MeetStep
<1>4. Exits' /\ Records'
  <2>1. \A k \in Process : /\ pc'[k] \in Exiting <=> pc[k] \in Exiting
                           /\ pc[k] \in Left => pc'[k] \in Left
    BY <1>1, <1>3 DEF Exiting, Left
  <2> QED BY <1>1, <1>2, <2>1, CodesKept DEF Records
<1>5. Meetings'
  <2> SUFFICES ASSUME NEW j \in Process \ {0}, Exists(j)' PROVE Meeting(j)'
    BY DEF Meetings
  <2>1. Meeting(j) /\ pcb[j].parentID \in Process /\ pcb'[j] = pcb[j]
    BY <1>2 DEF IInv, Core, Meetings, Family
  <2>2. Joined(pcb[j].parentID, j)' <=> Joined(pcb[j].parentID, j)
    BY <1>1, <2>1 DEF Joined
  <2>3. Releasing(j)' <=> Releasing(j)
    BY <1>1, <1>3, <2>1 DEF Releasing
  <2>4. pc'[j] = pc[j] \/ (pc[j] \notin Left /\ pc'[j] \notin Left)
    BY <1>1, <1>3 DEF Left
  <2> QED BY Zenon, <2>1, <2>2, <2>3, <2>4, MeetingKept
<1>6. PagesHeld'
  BY <1>1, <1>3 DEF IInv, PagesHeld, Held
<1> DEFINE p == pcb[i].parentID
<1>7. p \in Process \ {i} /\ Exists(p) /\ pcb[p].destroyed \in BOOLEAN
  <2>1. p \in Process \ {i} /\ Exists(p)
    BY <1>1 DEF IInv, Core, Family
  <2> QED BY <2>1, Typing DEF IInv
<1>8. DeletedOnlyByMisuse'
  <2> SUFFICES ASSUME pcb[p].destroyed PROVE DeletedOnlyByMisuse'
    BY <1>1, <1>7 DEF DeletedOnlyByMisuse
  <2>1. p # 0 /\ pc[p] = "finished"
    BY <1>7 DEF IInv, Core, Family, Meetings, Meeting
  <2>2. ~ Joined(p, i)
    BY <1>1 DEF IInv, Core, Family, Meetings, Meeting
  <2>3. ~ Joined(pcb[i].parentID, i)'
    BY <1>1, <2>2 DEF Joined
  <2> QED BY <1>1, <1>3, <1>7, <2>1, <2>3 DEF DeletedOnlyByMisuse
<1>9. TypeOK'
  BY <1>1, <1>3, <1>7 DEF IInv, TypeOK
<1> QED BY <1>3, <1>4, <1>5, <1>6, <1>8, <1>9 DEF IInv, Core

LEMMA JoinReleaseIInv ==
  ASSUME IInv, NEW i \in Process, JoinRelease(i)
  PROVE  IInv'
<1>1. /\ pc[i] = "joinRelease" /\ i # 0 /\ ~ undefined
      /\ pcb' = [pcb EXCEPT ![i].joinsem = pcb[i].joinsem + 1]
      /\ Goto(i, "exitWait")
      /\ UNCHANGED <<arg, wanted, bmsem, pages, clear, joined, exited, halted, undefined>>
  BY DEF JoinRelease, At, memory, history, IInv, Core, Family, Exiting
<1>2. /\ Exists(i) /\ pcb[i] \in PCBType /\ Meeting(i)
      /\ pcb[i].joinsem = 0 /\ pcb[i].exitsem = 0 /\ ~ pcb[i].destroyed
      /\ ~ Joined(pcb[i].parentID, i) /\ ~ Releasing(i)
  <2>1. Exists(i) /\ pcb[i] \in PCBType
    BY <1>1, Typing DEF IInv, Core, Family
  <2>2. Meeting(i)
    BY <1>1, <2>1 DEF IInv, Core, Meetings
  <2> QED BY Zenon, <1>1, <2>1, <2>2 DEF Meeting
<1>3. /\ pcb' \in [Process -> PCBType \cup {NoPCB}] /\ pcb'[i] \in PCBType
      /\ pcb'[i].joinsem = 1
      /\ \A k \in Process : /\ k # i => pcb'[k] = pcb[k]
                            /\ pcb'[k].parentID = pcb[k].parentID
                            /\ pcb'[k].exitcode = pcb[k].exitcode
                            /\ pcb'[k].exitsem = pcb[k].exitsem
                            /\ pcb'[k].destroyed = pcb[k].destroyed
  BY <1>1, <1>2 DEF IInv, TypeOK, PCBType
<1>4. \A k \in Process : Exists(k)' <=> Exists(k)
  BY <1>2, <1>3, NoPCBAssumption DEF Exists
<1>5. /\ pc' \in [Process -> Label]
      /\ pc'[i] = "exitWait" /\ \A k \in Process \ {i} : pc'[k] = pc[k]
      /\ Family' /\ Forking' /\ Joining' /\ Locking' /\ Wanted'
  <2>1. "exitWait" \in Meet /\ pc[i] \in Meet
    BY <1>1 DEF Meet, Exiting
  <2>2. ~ pcb'[0].destroyed
    <3>1. 0 \in Process
      BY ProcessAssumption DEF Process
    <3>2. ~ pcb[0].destroyed
      BY Zenon DEF IInv, Core, Family
    <3> QED BY <1>3, <3>1, <3>2
  <2>3. arg' \in [Process -> Process] /\ \A k \in Process : arg'[k] = arg[k]
    BY <1>1 DEF IInv, TypeOK
  <2> QED BY <1>1, <1>3, <1>4, <2>1, <2>2, <2>3, MeetStep
<1>6. TypeOK'
  BY <1>1, <1>3, <1>5 DEF IInv, TypeOK
<1>7. Exits' /\ Records'
  <2>1. \A k \in Process : /\ pc'[k] \in Exiting <=> pc[k] \in Exiting
                           /\ pc[k] \in Left => pc'[k] \in Left
    BY <1>1, <1>5 DEF Exiting, Left
  <2> QED BY <1>1, <1>3, <1>4, <2>1, CodesKept DEF Records
<1>8. Meetings'
  <2> SUFFICES ASSUME NEW j \in Process \ {0}, Exists(j)' PROVE Meeting(j)'
    BY DEF Meetings
  <2>1. Meeting(j) /\ pcb[j].parentID \in Process /\ pcb'[j].parentID = pcb[j].parentID
    BY <1>3, <1>4 DEF IInv, Core, Meetings, Family
  <2>2. Joined(pcb[j].parentID, j)' <=> Joined(pcb[j].parentID, j)
    BY <1>1, <2>1 DEF Joined
  <2>3. Releasing(j)' <=> Releasing(j)
    BY <1>1, <1>5, <2>1 DEF Releasing
  <2>4. CASE j = i
    BY Zenon, <1>2, <1>3, <1>5, <2>2, <2>3, <2>4 DEF Meeting
  <2>5. CASE j # i
    BY Zenon, <1>3, <1>5, <2>1, <2>2, <2>3, <2>5, MeetingKept
  <2> QED BY <2>4, <2>5
<1>9. PagesHeld'
  BY <1>1, <1>5 DEF IInv, PagesHeld, Held
<1>10. DeletedOnlyByMisuse'
  BY <1>1 DEF DeletedOnlyByMisuse
<1> QED BY <1>5, <1>6, <1>7, <1>8, <1>9, <1>10 DEF IInv, Core
LEMMA ExitWaitIInv ==
  ASSUME IInv, NEW i \in Process, ExitWait(i)
  PROVE  IInv'
<1>1. /\ pc[i] = "exitWait" /\ i # 0 /\ ~ undefined
      /\ pcb[i].exitsem > 0
      /\ pcb' = [pcb EXCEPT ![i].exitsem = pcb[i].exitsem - 1]
      /\ Goto(i, "remove")
      /\ UNCHANGED <<arg, wanted, bmsem, pages, clear, joined, exited, halted, undefined>>
  BY DEF ExitWait, At, memory, history, IInv, Core, Family, Exiting
<1>2. /\ Exists(i) /\ pcb[i] \in PCBType
      /\ pcb[i].joinsem = 0 /\ pcb[i].exitsem = 1 /\ ~ pcb[i].destroyed
      /\ Joined(pcb[i].parentID, i) /\ ~ Releasing(i)
  <2>1. Exists(i) /\ pcb[i] \in PCBType
    BY <1>1, Typing DEF IInv, Core, Family
  <2>2. Meeting(i)
    BY <1>1, <2>1 DEF IInv, Core, Meetings
  <2>3. pcb[i].exitsem # 0
    BY <1>1
  <2>4. pc[i] \in Left
    BY <1>1 DEF Left
  <2> QED BY Zenon, <1>1, <2>1, <2>2, <2>3, <2>4 DEF Meeting
<1>3. /\ pcb' \in [Process -> PCBType \cup {NoPCB}] /\ pcb'[i] \in PCBType
      /\ pcb'[i].exitsem = 0
      /\ \A k \in Process : /\ k # i => pcb'[k] = pcb[k]
                            /\ pcb'[k].parentID = pcb[k].parentID
                            /\ pcb'[k].exitcode = pcb[k].exitcode
                            /\ pcb'[k].joinsem = pcb[k].joinsem
                            /\ pcb'[k].destroyed = pcb[k].destroyed
  BY <1>1, <1>2 DEF IInv, TypeOK, PCBType
<1>4. \A k \in Process : Exists(k)' <=> Exists(k)
  BY <1>2, <1>3, NoPCBAssumption DEF Exists
<1>5. /\ pc' \in [Process -> Label]
      /\ pc'[i] = "remove" /\ \A k \in Process \ {i} : pc'[k] = pc[k]
      /\ Family' /\ Forking' /\ Joining' /\ Locking' /\ Wanted'
  <2>1. "remove" \in Meet /\ pc[i] \in Meet
    BY <1>1 DEF Meet, Exiting
  <2>2. ~ pcb'[0].destroyed
    <3>1. 0 \in Process
      BY ProcessAssumption DEF Process
    <3>2. ~ pcb[0].destroyed
      BY Zenon DEF IInv, Core, Family
    <3> QED BY <1>1, <1>3, <3>1, <3>2
  <2>3. arg' \in [Process -> Process] /\ \A k \in Process : arg'[k] = arg[k]
    BY <1>1 DEF IInv, TypeOK
  <2> QED BY <1>1, <1>3, <1>4, <2>1, <2>2, <2>3, MeetStep
<1>6. TypeOK'
  BY <1>1, <1>3, <1>5 DEF IInv, TypeOK
<1>7. Exits' /\ Records'
  <2>1. \A k \in Process : /\ pc'[k] \in Exiting <=> pc[k] \in Exiting
                           /\ pc[k] \in Left => pc'[k] \in Left
    BY <1>1, <1>5 DEF Exiting, Left
  <2> QED BY <1>1, <1>3, <1>4, <2>1, CodesKept DEF Records
<1>8. Meetings'
  <2> SUFFICES ASSUME NEW j \in Process \ {0}, Exists(j)' PROVE Meeting(j)'
    BY DEF Meetings
  <2>1. Meeting(j) /\ pcb[j].parentID \in Process /\ pcb'[j].parentID = pcb[j].parentID
    BY <1>3, <1>4 DEF IInv, Core, Meetings, Family
  <2>2. Joined(pcb[j].parentID, j)' <=> Joined(pcb[j].parentID, j)
    <3>1. joined' = joined
      BY <1>1
    <3> QED BY Zenon, <2>1, <3>1 DEF Joined
  <2>3. Releasing(j)' <=> Releasing(j)
    BY <1>1, <1>5, <2>1 DEF Releasing
  <2>4. CASE j = i
    <3>1. pc'[j] \in {"remove", "finished"} /\ pc'[j] # "finished"
      BY <1>5, <2>4
    <3> QED BY Zenon, <1>2, <1>3, <2>2, <2>3, <2>4, <3>1 DEF Meeting
  <2>5. CASE j # i
    BY Zenon, <1>3, <1>5, <2>1, <2>2, <2>3, <2>5, MeetingKept
  <2> QED BY <2>4, <2>5
<1>9. PagesHeld'
  BY <1>1, <1>5 DEF IInv, PagesHeld, Held
<1>10. DeletedOnlyByMisuse'
  BY <1>1 DEF DeletedOnlyByMisuse
<1> QED BY <1>5, <1>6, <1>7, <1>8, <1>9, <1>10 DEF IInv, Core

LEMMA RemoveIInv ==
  ASSUME IInv, NEW i \in Process, Remove(i)
  PROVE  IInv'
<1>1. /\ pc[i] = "remove" /\ i # 0 /\ ~ undefined
      /\ pcb' = [pcb EXCEPT ![i].destroyed = TRUE]
      /\ FreeSpace(i)
      /\ Goto(i, "finished")
      /\ UNCHANGED <<arg, wanted, bmsem, joined, exited, halted, undefined>>
  BY DEF Remove, At, history, IInv, Core, Family, Exiting
<1>2. /\ Exists(i) /\ pcb[i] \in PCBType
      /\ pcb[i].joinsem = 0 /\ pcb[i].exitsem = 0
      /\ Joined(pcb[i].parentID, i) /\ ~ Releasing(i)
  <2>1. Exists(i) /\ pcb[i] \in PCBType
    BY <1>1, Typing DEF IInv, Core, Family
  <2>2. Meeting(i)
    BY <1>1, <2>1 DEF IInv, Core, Meetings
  <2>3. pc[i] \in Left /\ pc[i] # "exitWait"
    BY <1>1 DEF Left
  <2> QED BY Zenon, <1>1, <2>1, <2>2, <2>3 DEF Meeting
<1>3. /\ pcb' \in [Process -> PCBType \cup {NoPCB}] /\ pcb'[i] \in PCBType
      /\ pcb'[i].destroyed = TRUE
      /\ \A k \in Process : /\ k # i => pcb'[k] = pcb[k]
                            /\ pcb'[k].parentID = pcb[k].parentID
                            /\ pcb'[k].exitcode = pcb[k].exitcode
                            /\ pcb'[k].joinsem = pcb[k].joinsem
                            /\ pcb'[k].exitsem = pcb[k].exitsem
  BY Zenon, <1>1, <1>2 DEF IInv, TypeOK, PCBType
<1>4. \A k \in Process : Exists(k)' <=> Exists(k)
  BY <1>2, <1>3, NoPCBAssumption DEF Exists
<1>5. /\ pc' \in [Process -> Label]
      /\ pc'[i] = "finished" /\ \A k \in Process \ {i} : pc'[k] = pc[k]
      /\ Family' /\ Forking' /\ Joining' /\ Locking' /\ Wanted'
  <2>1. "finished" \in Meet /\ pc[i] \in Meet
    BY <1>1 DEF Meet, Exiting
  <2>2. ~ pcb'[0].destroyed
    <3>1. 0 \in Process
      BY ProcessAssumption DEF Process
    <3>2. ~ pcb[0].destroyed
      BY Zenon DEF IInv, Core, Family
    <3> QED BY <1>1, <1>3, <3>1, <3>2
  <2>3. arg' \in [Process -> Process] /\ \A k \in Process : arg'[k] = arg[k]
    BY <1>1 DEF IInv, TypeOK
  <2> QED BY <1>1, <1>3, <1>4, <2>1, <2>2, <2>3, MeetStep
<1>6. TypeOK'
  <2>1. pages' \in [Process -> 0 .. NumPhysPages] /\ clear' \in 0 .. NumPhysPages
    BY Zenon, <1>1, FreeSpacePages
  <2> QED BY <1>1, <1>3, <1>5, <2>1 DEF IInv, TypeOK
<1>7. Exits' /\ Records'
  <2>1. \A k \in Process : /\ pc'[k] \in Exiting <=> pc[k] \in Exiting
                           /\ pc[k] \in Left => pc'[k] \in Left
    BY <1>1, <1>5 DEF Exiting, Left
  <2> QED BY <1>1, <1>3, <1>4, <2>1, CodesKept DEF Records
<1>8. Meetings'
  <2> SUFFICES ASSUME NEW j \in Process \ {0}, Exists(j)' PROVE Meeting(j)'
    BY DEF Meetings
  <2>1. Meeting(j) /\ pcb[j].parentID \in Process /\ pcb'[j].parentID = pcb[j].parentID
    BY <1>3, <1>4 DEF IInv, Core, Meetings, Family
  <2>2. Joined(pcb[j].parentID, j)' <=> Joined(pcb[j].parentID, j)
    BY <1>1, <2>1 DEF Joined
  <2>3. Releasing(j)' <=> Releasing(j)
    BY <1>1, <1>5, <2>1 DEF Releasing
  <2>4. CASE j = i
    <3>1. pc'[j] \in {"remove", "finished"} /\ pc'[j] = "finished"
      BY <1>5, <2>4
    <3> QED BY Zenon, <1>2, <1>3, <2>2, <2>3, <2>4, <3>1 DEF Meeting
  <2>5. CASE j # i
    BY Zenon, <1>3, <1>5, <2>1, <2>2, <2>3, <2>5, MeetingKept
  <2> QED BY <2>4, <2>5
<1>9. PagesHeld'
  <2>1. /\ clear' + Cardinality(Held') = NumPhysPages
        /\ \A k \in Process : pages'[k] = IF k = i THEN 0 ELSE pages[k]
    BY Zenon, <1>1, FreeSpacePages
  <2>2. ASSUME NEW k \in Process, pc'[k] \in {"none", "start", "fault", "finished"}
        PROVE  pages'[k] = 0
    BY <1>5, <2>1, <2>2 DEF IInv, PagesHeld
  <2> QED BY <2>1, <2>2 DEF PagesHeld
<1>10. DeletedOnlyByMisuse'
  BY <1>1 DEF DeletedOnlyByMisuse
<1> QED BY <1>5, <1>6, <1>7, <1>8, <1>9, <1>10 DEF IInv, Core

----------------------------------------------------------------------------
(* The actions keep the invariant: Join *)

LEMMA JoinIInv ==
  ASSUME IInv, NEW i \in Process, NEW j \in Process, Join(i, j)
  PROVE  IInv'
<1>1. /\ pc[i] = "user" /\ ~ undefined /\ j \in Children(i)
      /\ arg' = [arg EXCEPT ![i] = j]
      /\ Goto(i, "joinWait")
      /\ UNCHANGED <<pcb, wanted, bmsem, pages, clear, joined, exited, halted, undefined>>
  BY DEF Join, At, memory, history
<1>2. \A k \in Process : pcb'[k] = pcb[k] /\ (Exists(k)' <=> Exists(k))
  BY <1>1 DEF Exists
<1>3. arg' \in [Process -> Process] /\ arg'[i] = j /\ \A k \in Process \ {i} : arg'[k] = arg[k]
  BY <1>1 DEF IInv, TypeOK
<1>4. /\ pc' \in [Process -> Label]
      /\ pc'[i] = "joinWait" /\ \A k \in Process \ {i} : pc'[k] = pc[k]
      /\ Family' /\ Forking' /\ Joining' /\ Locking' /\ Wanted'
  <2>1. "joinWait" \in Meet /\ pc[i] \in Meet /\ "joinWait" \notin Exiting
    BY <1>1 DEF Meet, Exiting
  <2>2. ~ pcb'[0].destroyed
    BY <1>1 DEF IInv, Core, Family
  <2> QED BY <1>1, <1>2, <1>3, <2>1, <2>2, MeetStep
<1>5. TypeOK'
  BY <1>1, <1>3, <1>4 DEF IInv, TypeOK
<1>6. Exits' /\ Records'
  <2>1. \A k \in Process : /\ pc'[k] \in Exiting <=> pc[k] \in Exiting
                           /\ pc[k] \in Left => pc'[k] \in Left
    BY <1>1, <1>4 DEF Exiting, Left
  <2> QED BY <1>1, <1>2, <2>1, CodesKept DEF Records
<1>7. Meetings'
  <2> SUFFICES ASSUME NEW k \in Process \ {0}, Exists(k)' PROVE Meeting(k)'
    BY DEF Meetings
  <2>1. Meeting(k) /\ pcb[k].parentID \in Process /\ pcb'[k] = pcb[k]
    BY <1>2 DEF IInv, Core, Meetings, Family
  <2>2. Joined(pcb[k].parentID, k)' <=> Joined(pcb[k].parentID, k)
    BY <1>1, <2>1 DEF Joined
  <2>3. Releasing(k)' <=> Releasing(k)
    BY <1>1, <1>3, <1>4, <2>1 DEF Releasing
  <2>4. pc'[k] = pc[k] \/ (pc[k] \notin Left /\ pc'[k] \notin Left)
    BY <1>1, <1>4 DEF Left
  <2> QED BY Zenon, <2>1, <2>2, <2>3, <2>4, MeetingKept
<1>8. PagesHeld'
  BY <1>1, <1>4 DEF IInv, PagesHeld, Held
<1>9. DeletedOnlyByMisuse'
  BY <1>1 DEF DeletedOnlyByMisuse
<1> QED BY <1>4, <1>5, <1>6, <1>7, <1>8, <1>9 DEF IInv, Core
\* The child that process i joins: another process, whose parent is i.
LEMMA JoinedChild ==
  ASSUME IInv, NEW i \in Process, pc[i] \in {"joinWait", "exitRelease"}
  PROVE  /\ arg[i] \in Process \ {0, i} /\ Exists(arg[i]) /\ pcb[arg[i]].parentID = i
         /\ pcb[arg[i]] \in PCBType /\ Meeting(arg[i])
<1>1. arg[i] \in Process /\ Exists(arg[i]) /\ pcb[arg[i]].parentID = i
  BY DEF IInv, Core, Joining, Children, Exists
<1>2. arg[i] # 0 /\ arg[i] # i
  <2>1. Family
    BY Zenon DEF IInv, Core
  <2>2. i # -1
    BY ProcessAssumption DEF Process
  <2>3. arg[i] # 0
    BY Zenon, <1>1, <2>1, <2>2 DEF Family
  <2> QED BY Zenon, <1>1, <2>1, <2>3 DEF Family
<1>3. pcb[arg[i]] \in PCBType
  BY <1>1, Typing DEF IInv
<1>4. Meeting(arg[i])
  BY <1>1, <1>2 DEF IInv, Core, Meetings
<1> QED BY <1>1, <1>2, <1>3, <1>4

LEMMA JoinWaitIInv ==
  ASSUME IInv, NEW i \in Process, JoinWait(i)
  PROVE  IInv'
<1> DEFINE j == arg[i]
<1>1. /\ pc[i] = "joinWait" /\ ~ undefined
      /\ UNCHANGED <<arg, wanted, bmsem, pages, clear, joined, exited, halted>>
  BY DEF JoinWait, At, memory, history
<1>2. /\ j \in Process \ {0, i} /\ Exists(j) /\ pcb[j].parentID = i
      /\ pcb[j] \in PCBType /\ Meeting(j)
  BY <1>1, JoinedChild
<1>a. \/ pcb[j].destroyed /\ undefined' = TRUE /\ UNCHANGED <<pcb, pc>>
      \/ /\ pcb[j].joinsem > 0
         /\ pcb' = [pcb EXCEPT ![j].joinsem = pcb[j].joinsem - 1]
         /\ Goto(i, "exitRelease") /\ UNCHANGED undefined
  BY DEF JoinWait
<1> HIDE DEF j
<1>b. CASE pcb[j].destroyed /\ undefined' = TRUE /\ UNCHANGED <<pcb, pc>>
  <2>1. UNCHANGED <<pcb, pc, arg, wanted, bmsem, pages, clear, joined, exited, halted>>
    BY <1>1, <1>b
  <2>2. TypeOK'
    BY <2>1, <1>b DEF IInv, TypeOK
  <2>3. Core' /\ Locking' /\ Wanted' /\ PagesHeld'
    BY <2>1, SameProcesses DEF IInv, PagesHeld, Held
  <2>4. Joined(i, j)
    <3>1. pc[j] = "finished"
      BY Zenon, <1>2, <1>b DEF Meeting
    <3>2. pc[j] \in Left /\ pc[j] # "exitWait"
      BY <3>1 DEF Left
    <3> QED BY Zenon, <1>2, <3>2 DEF Meeting
  <2>5. DeletedOnlyByMisuse'
    <3>1. pc'[i] = "joinWait" /\ Joined(i, arg[i])'
      BY <1>1, <2>1, <2>4 DEF Joined, j
    <3> QED BY <3>1 DEF DeletedOnlyByMisuse
  <2> QED BY <2>2, <2>3, <2>5 DEF IInv
<1>c. CASE /\ pcb[j].joinsem > 0
           /\ pcb' = [pcb EXCEPT ![j].joinsem = pcb[j].joinsem - 1]
           /\ Goto(i, "exitRelease") /\ UNCHANGED undefined
  <2>1. /\ pc[j] = "exitWait" /\ pcb[j].joinsem = 1 /\ pcb[j].exitsem = 0
        /\ ~ pcb[j].destroyed /\ ~ Joined(i, j)
    <3>1. pcb[j].joinsem # 0
      BY <1>c
    <3> QED BY Zenon, <1>2, <3>1 DEF Meeting
  <2>2. /\ pcb' \in [Process -> PCBType \cup {NoPCB}] /\ pcb'[j] \in PCBType
        /\ pcb'[j].joinsem = 0
        /\ \A k \in Process : /\ k # j => pcb'[k] = pcb[k]
                              /\ pcb'[k].parentID = pcb[k].parentID
                              /\ pcb'[k].exitcode = pcb[k].exitcode
                              /\ pcb'[k].exitsem = pcb[k].exitsem
                              /\ pcb'[k].destroyed = pcb[k].destroyed
    BY <1>2, <1>c, <2>1 DEF IInv, TypeOK, PCBType
  <2>3. \A k \in Process : Exists(k)' <=> Exists(k)
    BY <1>2, <2>2, NoPCBAssumption DEF Exists
  <2>4. arg' \in [Process -> Process] /\ \A k \in Process : arg'[k] = arg[k]
    BY <1>1 DEF IInv, TypeOK
  <2>5. /\ pc' \in [Process -> Label]
        /\ pc'[i] = "exitRelease" /\ \A k \in Process \ {i} : pc'[k] = pc[k]
        /\ Family' /\ Forking' /\ Joining' /\ Locking' /\ Wanted'
    <3>1. "exitRelease" \in Meet /\ pc[i] \in Meet /\ "exitRelease" \notin Exiting
      BY <1>1 DEF Meet, Exiting
    <3>2. ~ pcb'[0].destroyed
      <4>1. 0 \in Process
        BY ProcessAssumption DEF Process
      <4>2. ~ pcb[0].destroyed
        BY Zenon DEF IInv, Core, Family
      <4> QED BY <2>2, <4>1, <4>2
    <3>3. arg'[i] \in Children(i)
      BY <1>1, <1>2 DEF Children, Exists, j
    <3> QED BY <1>1, <1>c, <2>2, <2>3, <2>4, <3>1, <3>2, <3>3, MeetStep
  <2>6. TypeOK'
    BY <1>1, <1>c, <2>2, <2>4, <2>5 DEF IInv, TypeOK
  <2>7. Exits' /\ Records'
    <3>1. \A k \in Process : /\ pc'[k] \in Exiting <=> pc[k] \in Exiting
                             /\ pc[k] \in Left => pc'[k] \in Left
      BY <1>1, <2>5 DEF Exiting, Left
    <3> QED BY <1>1, <2>2, <2>3, <3>1, CodesKept DEF Records
  <2>8. Meetings'
    <3> SUFFICES ASSUME NEW k \in Process \ {0}, Exists(k)' PROVE Meeting(k)'
      BY DEF Meetings
    <3>1. Meeting(k) /\ pcb[k].parentID \in Process /\ pcb'[k].parentID = pcb[k].parentID
      BY <2>2, <2>3 DEF IInv, Core, Meetings, Family
    <3>2. Joined(pcb[k].parentID, k)' <=> Joined(pcb[k].parentID, k)
      BY <1>1, <3>1 DEF Joined
    <3>3. CASE k = j
      <4>1. Releasing(k)' /\ ~ Joined(pcb[k].parentID, k)'
        BY <1>2, <2>1, <2>4, <2>5, <3>1, <3>2, <3>3 DEF Releasing, j
      <4>2. pc'[k] = "exitWait" /\ pc'[k] # "finished"
        BY <1>2, <2>1, <2>5, <3>3
      <4> QED BY Zenon, <2>1, <2>2, <3>3, <4>1, <4>2 DEF Meeting
    <3>4. CASE k # j
      <4>1. Releasing(k)' <=> Releasing(k)
        BY <1>1, <2>4, <2>5, <3>1, <3>4 DEF Releasing, j
      <4>2. pc'[k] = pc[k] \/ (pc[k] \notin Left /\ pc'[k] \notin Left)
        BY <1>1, <2>5 DEF Left
      <4>3. pcb'[k] = pcb[k]
        BY <2>2, <3>4
      <4> QED BY Zenon, <3>1, <3>2, <4>1, <4>2, <4>3, MeetingKept
    <3> QED BY <3>3, <3>4
  <2>9. PagesHeld'
    BY <1>1, <2>5 DEF IInv, PagesHeld, Held
  <2>10. DeletedOnlyByMisuse'
    BY <1>1, <1>c DEF DeletedOnlyByMisuse
  <2> QED BY <2>5, <2>6, <2>7, <2>8, <2>9, <2>10 DEF IInv, Core
<1> QED BY Zenon, <1>a, <1>b, <1>c

LEMMA ExitReleaseIInv ==
  ASSUME IInv, NEW i \in Process, ExitRelease(i)
  PROVE  IInv'
<1> DEFINE j == arg[i]
           c == pcb[j].exitcode
<1>1. /\ pc[i] = "exitRelease" /\ ~ undefined
      /\ joined' = joined \cup {<<i, j, c>>}
      /\ pcb' = [pcb EXCEPT ![j].exitsem = pcb[j].exitsem + 1]
      /\ Goto(i, "user")
      /\ UNCHANGED <<arg, wanted, bmsem, pages, clear, exited, halted, undefined>>
  BY DEF ExitRelease, At, memory
<1>2. /\ j \in Process \ {0, i} /\ Exists(j) /\ pcb[j].parentID = i
      /\ pcb[j] \in PCBType /\ Meeting(j)
  BY <1>1, JoinedChild
<1>3. /\ pc[j] = "exitWait" /\ pcb[j].joinsem = 0 /\ pcb[j].exitsem = 0
      /\ ~ pcb[j].destroyed
  <2>1. Releasing(j)
    BY <1>1, <1>2 DEF Releasing
  <2> HIDE DEF j
  <2> QED BY Zenon, <1>2, <2>1 DEF Meeting
<1>4. c \in ExitCode /\ c = exited[j]
  <2>1. c = exited[j] /\ exited[j] # NoCode
    BY <1>2, <1>3 DEF IInv, Core, Exits, Exiting
  <2>2. exited[j] \in ExitCode \cup {NoCode}
    BY <1>2, Typing DEF IInv
  <2> QED BY <2>1, <2>2
<1>j. j = arg[i]
  OBVIOUS
<1>c. c = pcb[j].exitcode
  OBVIOUS
<1> HIDE DEF j, c
<1>5. /\ pcb' \in [Process -> PCBType \cup {NoPCB}] /\ pcb'[j] \in PCBType
      /\ pcb'[j].exitsem = 1
      /\ \A k \in Process : /\ k # j => pcb'[k] = pcb[k]
                            /\ pcb'[k].parentID = pcb[k].parentID
                            /\ pcb'[k].exitcode = pcb[k].exitcode
                            /\ pcb'[k].joinsem = pcb[k].joinsem
                            /\ pcb'[k].destroyed = pcb[k].destroyed
  BY <1>1, <1>2, <1>3 DEF IInv, TypeOK, PCBType
<1>6. \A k \in Process : Exists(k)' <=> Exists(k)
  BY <1>2, <1>5, NoPCBAssumption DEF Exists
<1>7. arg' \in [Process -> Process] /\ \A k \in Process : arg'[k] = arg[k]
  BY <1>1 DEF IInv, TypeOK
<1>8. /\ pc' \in [Process -> Label]
      /\ pc'[i] = "user" /\ \A k \in Process \ {i} : pc'[k] = pc[k]
      /\ Family' /\ Forking' /\ Joining' /\ Locking' /\ Wanted'
  <2>1. "user" \in Meet /\ pc[i] \in Meet /\ "user" \notin Exiting
    BY <1>1 DEF Meet, Exiting
  <2>2. ~ pcb'[0].destroyed
    <3>1. 0 \in Process
      BY ProcessAssumption DEF Process
    <3>2. ~ pcb[0].destroyed
      BY Zenon DEF IInv, Core, Family
    <3> QED BY <1>5, <3>1, <3>2
  <2> QED BY <1>1, <1>5, <1>6, <1>7, <2>1, <2>2, MeetStep
<1>9. TypeOK'
  <2>1. joined' \subseteq Process \X Process \X (ExitCode \cup {NoCode})
    BY <1>1, <1>2, <1>4 DEF IInv, TypeOK
  <2> QED BY <1>1, <1>5, <1>7, <1>8, <2>1 DEF IInv, TypeOK
<1>10. Exits' /\ Records'
  <2>1. \A k \in Process : /\ pc'[k] \in Exiting <=> pc[k] \in Exiting
                           /\ pc[k] \in Left => pc'[k] \in Left
    BY <1>1, <1>8 DEF Exiting, Left
  <2>2. Exits' /\ \A r \in joined : Recorded(r)'
    BY <1>1, <1>5, <1>6, <2>1, CodesKept
  <2>3. ASSUME NEW r, r[1] = i, r[2] = j, r[3] = c PROVE Recorded(r)'
    <3>1. pcb'[j] # NoPCB /\ pcb'[j].parentID = i /\ c = exited'[j]
      BY <1>1, <1>2, <1>4, <1>5, NoPCBAssumption
    <3>2. pc'[j] \in Left
      BY <1>2, <1>3, <1>8 DEF Left
    <3> QED BY <2>3, <3>1, <3>2 DEF Recorded, Exists
  <2>4. ASSUME NEW r \in joined' PROVE Recorded(r)'
    <3>1. CASE r \in joined
      BY Zenon, <2>2, <3>1
    <3>2. CASE r = <<i, j, c>>
      <4>1. r[1] = i /\ r[2] = j /\ r[3] = c
        BY <3>2
      <4> QED BY Zenon, <2>3, <4>1
    <3> QED BY Zenon, <1>1, <2>4, <3>1, <3>2
  <2> QED BY Zenon, <2>2, <2>4 DEF Records
<1>11. Meetings'
  <2> SUFFICES ASSUME NEW k \in Process \ {0}, Exists(k)' PROVE Meeting(k)'
    BY DEF Meetings
  <2>1. Meeting(k) /\ pcb[k].parentID \in Process /\ pcb'[k].parentID = pcb[k].parentID
    BY <1>5, <1>6 DEF IInv, Core, Meetings, Family
  <2>2. CASE k = j
    <3>1. Joined(pcb[k].parentID, k)'
      BY <1>1, <1>2, <1>4, <2>1, <2>2 DEF Joined
    <3>2. ~ Releasing(k)'
      BY <1>2, <1>8, <2>1, <2>2 DEF Releasing
    <3>3. pc'[k] = "exitWait" /\ pc'[k] # "finished"
      BY <1>2, <1>3, <1>8, <2>2
    <3> QED BY Zenon, <1>3, <1>5, <2>2, <3>1, <3>2, <3>3 DEF Meeting
  <2>3. CASE k # j
    <3>1. Joined(pcb[k].parentID, k)' <=> Joined(pcb[k].parentID, k)
      BY <1>1, <2>1, <2>3 DEF Joined
    <3>2. Releasing(k)' <=> Releasing(k)
      BY <1>1, <1>7, <1>8, <1>j, <2>1, <2>3 DEF Releasing
    <3>3. pc'[k] = pc[k] \/ (pc[k] \notin Left /\ pc'[k] \notin Left)
      BY <1>1, <1>8 DEF Left
    <3>4. pcb'[k] = pcb[k]
      BY <1>5, <2>3
    <3> QED BY Zenon, <2>1, <3>1, <3>2, <3>3, <3>4, MeetingKept
  <2> QED BY <2>2, <2>3
<1>12. PagesHeld'
  BY <1>1, <1>8 DEF IInv, PagesHeld, Held
<1>13. DeletedOnlyByMisuse'
  BY <1>1 DEF DeletedOnlyByMisuse
<1> QED BY <1>8, <1>9, <1>10, <1>11, <1>12, <1>13 DEF IInv, Core

----------------------------------------------------------------------------
(* The theorems *)

LEMMA NextIInv == IInv /\ [Next]_vars => IInv'
<1> SUFFICES ASSUME IInv, [Next]_vars PROVE IInv'
  OBVIOUS
<1>1. CASE UNCHANGED vars
  <2>1. UNCHANGED <<pcb, pc, arg, wanted, bmsem, pages, clear, joined, exited, halted, undefined>>
    BY <1>1 DEF vars, memory, history
  <2>2. TypeOK' /\ DeletedOnlyByMisuse'
    BY Zenon, <2>1 DEF IInv, TypeOK, DeletedOnlyByMisuse, Joined
  <2>3. Core' /\ Locking' /\ Wanted' /\ PagesHeld'
    BY <2>1, SameProcesses DEF IInv, PagesHeld, Held
  <2> QED BY <2>2, <2>3 DEF IInv
<1>2. CASE ExitMain
  <2>1. 0 \in Process
    BY ProcessAssumption DEF Process
  <2> QED BY Zenon, <1>2, <2>1, StopIInv
<1>3. ASSUME NEW i \in Process, Step(i) PROVE IInv'
  BY Zenon, <1>3, ExecLockIInv, ExecRefusedIInv, ExecUpdateIInv, ExecForkIInv, ExecUnlockIInv,
     StartProcessIInv, StopIInv, DecNumWaitIInv, JoinReleaseIInv, ExitWaitIInv, RemoveIInv,
     JoinWaitIInv, ExitReleaseIInv DEF Step
<1>4. ASSUME NEW i \in Process, Call(i) PROVE IInv'
  BY Zenon, <1>4, ExecIInv, ExitIInv, JoinIInv, StopIInv DEF Call
<1> QED BY <1>1, <1>2, <1>3, <1>4 DEF Next

\* The invariant holds in every state of every behaviour.
THEOREM ProcessInvariant == Spec => []IInv
BY InitIInv, NextIInv, PTL DEF Spec

\* For any number of processes and any programs: Join returns only after its child's
\* Exit, with the argument of that Exit, and ~PCB runs only after the parent's Join.
THEOREM JoinGivesStatus == Spec => []JoinStatus
<1>1. ASSUME IInv PROVE JoinStatus
  <2>1. ASSUME NEW r \in joined PROVE r[3] # NoCode /\ r[3] = exited[r[2]]
    <3>1. Recorded(r) /\ r[2] \in Process
      BY <1>1 DEF IInv, TypeOK, Core, Records
    <3>2. pc[r[2]] \in Exiting
      BY <3>1 DEF Recorded, Left, Exiting
    <3>3. exited[r[2]] # NoCode
      BY Zenon, <1>1, <3>1, <3>2 DEF IInv, Core, Exits
    <3> QED BY <3>1, <3>3 DEF Recorded
  <2>2. ASSUME NEW i \in Process, pc[i] \in {"remove", "finished"}
        PROVE  Joined(pcb[i].parentID, i)
    <3>1. i # 0 /\ Exists(i) /\ pc[i] \in Left /\ pc[i] # "exitWait"
      BY <1>1, <2>2 DEF IInv, Core, Family, Exiting, Left
    <3>2. Meeting(i)
      BY <1>1, <3>1 DEF IInv, Core, Meetings
    <3> QED BY Zenon, <3>1, <3>2 DEF Meeting
  <2> QED BY <1>1, <2>1, <2>2 DEF JoinStatus, IInv
<1> QED BY <1>1, ProcessInvariant, PTL

\* For any machine size and any programs: every physical page is clear or held by
\* exactly the processes that load and ~AddrSpace say, and none is lost.
THEOREM PagesAlwaysBalanced == Spec => []PagesBalanced
<1>1. IInv => PagesBalanced
  BY DEF IInv, PagesHeld, PagesBalanced
<1> QED BY <1>1, ProcessInvariant, PTL

\* For any number of processes: a deleted semaphore is used only after a second Join
\* of one child, or an Exit of a parent that left a child unjoined.
THEOREM DeletedUseIsMisuse == Spec => []DeletedOnlyByMisuse
<1>1. IInv => DeletedOnlyByMisuse
  BY DEF IInv
<1> QED BY <1>1, ProcessInvariant, PTL
=============================================================================

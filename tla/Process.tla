------------------------------ MODULE Process ------------------------------
(***************************************************************************)
(* Processes, the round-robin scheduler and the system calls that change   *)
(* them (process.c, scheduler.c, context-switch.s, interrupt.c), on top of *)
(* the page manager.                                                       *)
(*                                                                         *)
(* Every gate of the IDT is an interrupt gate, so a handler runs with      *)
(* interrupts off from entry to iret: one handler is one action, and       *)
(* processes interleave between system calls, where the timer preempts     *)
(* user code.                                                              *)
(***************************************************************************)
EXTENDS Paging

CONSTANTS
  ProcessMax,   \* PROCESS_COUNT_MAX
  FrameMax,     \* PROCESS_PAGE_FRAME_COUNT_MAX
  SizeSpan,     \* 2^32 / FrameSize: sizes in frames wrap at this value
  Requests,     \* the execution requests user programs make
  BootRequests, \* what kernel_setup may find when it starts the shell
  Words,        \* the values a register may hold
  Zero, Start,  \* a zeroed register; the instruction pointer of an entry point
  TickSpan,     \* pit_ticks wraps at this value (2^32)
  Naps          \* the durations, in ticks, that programs sleep

(* A request names the page of its buffer, which is also the entry point;  *)
(* "kernel" stands for any address from 0xC0000000 up.  size is            *)
(* buffer_size in frames, rounded up, and exists says whether read         *)
(* succeeds.                                                               *)
RequestType == [page : UserPages \cup {"kernel"}, size : 0 .. SizeSpan, exists : BOOLEAN]

ASSUME ProcessAssumption ==
  /\ ProcessMax \in Nat \ {0}
  /\ FrameMax \in Nat \ {0}
  /\ SizeSpan \in Nat \ {0, 1}
  /\ "kernel" \notin UserPages
  /\ Requests \subseteq RequestType
  /\ BootRequests \subseteq RequestType
  /\ {Zero, Start} \subseteq Words
  /\ TickSpan \in Nat \ {0}
  /\ Naps \subseteq 0 .. TickSpan - 1
  /\ FrameCount % 2 = 0

(* The pool has a directory for every pair of frames but the first.        *)
ASSUME PoolAssumption == 2 * DirCount >= FrameCount - 2

Pids == 0 .. ProcessMax - 1
NoProcess == -1                     \* NO_RUNNING_PROCESS

VARIABLES
  pcb,    \* _process_list[], with is_process_active[] folded in
  count,  \* active_process_count
  cur,    \* current_running_pid
  cpu,    \* the registers of the user program that runs
  mode,   \* what the machine is doing
  ticks,  \* pit_ticks
  nap     \* the locals of sleep_ms: its start tick and the ticks to wait

vars == <<mem, pcb, count, cur, cpu, mode, ticks, nap>>

(* "boot": in kernel_setup; "user": user code, interrupts on; "sleep": in  *)
(* sleep_ms, interrupts off; "spin": in the scheduler's endless search;    *)
(* "halt": hlt with interrupts off; "reset": triple fault.                 *)
Modes == {"boot", "user", "sleep", "spin", "halt", "reset"}

(* context.cpu, eip and eflags: EAX and EDX, and everything else as rest.  *)
Regs == [eax : Words, edx : Words, rest : Words]

PcbType == [active : BOOLEAN, state : {"READY", "RUNNING"},
            pd : Dirs \cup {NullDir}, regs : Regs]

ZeroRegs == [eax |-> Zero, edx |-> Zero, rest |-> Zero]
EmptyPcb == [active |-> FALSE, state |-> "READY", pd |-> NullDir, regs |-> ZeroRegs]

Active(p) == {i \in Pids : p[i].active}

-----------------------------------------------------------------------------
(* process_get_current_running_pcb_pointer: the pids it may return.        *)
RunningPcbs(p) == {i \in Active(p) : p[i].state = "RUNNING"}

(* Mutant of SaveContext: the registers are not saved.                     *)
SaveStateOnly(p, regs) ==
  IF RunningPcbs(p) = {}
  THEN p
  ELSE [p EXCEPT ![Least(RunningPcbs(p))] =
          [p[Least(RunningPcbs(p))] EXCEPT !.state = "READY"]]

SaveContext(p, regs) ==
  IF RunningPcbs(p) = {}
  THEN p
  ELSE LET i == Least(RunningPcbs(p))
       IN  [p EXCEPT ![i] = [p[i] EXCEPT !.state = "READY", !.regs = regs]]

(* Mutant of Passed: the search starts at slot 0 every time.               *)
FromZero(i) == i

(* The number of slots the search of scheduler_switch_to_next_process      *)
(* passes over before i, from the slot after current_running_pid.          *)
Passed(i) == (i - cur - 1) % ProcessMax

NextActive(p) ==
  CHOOSE i \in Active(p) : \A j \in Active(p) : Passed(i) <= Passed(j)

(* context-switch.s:52 loads EAX from the slot of EDX (offset 0x14).       *)
LoadContext(regs) == [eax |-> regs.edx, edx |-> regs.edx, rest |-> regs.rest]

(* With no active process the search never ends.  At boot cur is -1 and    *)
(* the store at line 51 falls outside the list.  A CR3 whose directory     *)
(* does not map the kernel kills the machine at the next instruction.      *)
SwitchToNext(m, p) ==
  IF Active(p) = {}
  THEN /\ mode' = "spin"
       /\ mem' = m /\ pcb' = p
       /\ UNCHANGED <<cur, cpu>>
  ELSE LET next == NextActive(p)
           dir  == p[next].pd
       IN  /\ pcb' = [i \in Pids |->
                        IF i = next THEN [p[i] EXCEPT !.state = "RUNNING"]
                        ELSE IF i = cur THEN [p[i] EXCEPT !.state = "READY"]
                        ELSE p[i]]
           /\ cur' = next
           /\ mem' = UsePageDirectory(m, dir)
           /\ cpu' = LoadContext(p[next].regs)
           /\ mode' = IF dir \in Dirs /\ m.kernel[dir] THEN "user" ELSE "reset"

-----------------------------------------------------------------------------
(* ceil_div(buffer_size + PAGE_FRAME_SIZE, PAGE_FRAME_SIZE), whose 32-bit  *)
(* sum wraps for the two largest sizes.                                    *)
FramesNeeded(req) == (req.size + 1) % SizeSpan

(* The return code, decided by the checks in their order.  AllocateCheck   *)
(* takes bytes and is given a number of frames.                            *)
CreateCode(m, n, req) ==
  IF n >= ProcessMax THEN 1
  ELSE IF req.page = "kernel" THEN 2
  ELSE IF ~AllocateCheck(m, FramesNeeded(req)) \/ FramesNeeded(req) > FrameMax THEN 3
  ELSE IF ~req.exists THEN 4
  ELSE 0

InactiveSlot(p) == Least(Pids \ Active(p))

(* Mutant of TakeSlot: the slot is found and not marked.                   *)
TakeUnmarked(p, i) == p

(* process_list_get_inactive_index marks the slot; the rest of the PCB is  *)
(* written once the program has been read.                                 *)
TakeSlot(p, i) == [p EXCEPT ![i] = [p[i] EXCEPT !.active = TRUE]]

(* Mutant of FillSlot: the new process is RUNNING at once.                 *)
FillRunning(p, i, d) ==
  [p EXCEPT ![i] = [p[i] EXCEPT !.active = TRUE, !.state = "RUNNING", !.pd = d,
                                !.regs = [p[i].regs EXCEPT !.rest = Start]]]

FillSlot(p, i, d) ==
  [p EXCEPT ![i] = [p[i] EXCEPT !.active = TRUE, !.state = "READY", !.pd = d,
                                !.regs = [p[i].regs EXCEPT !.rest = Start]]]

(* The new directory and the two frames of the process, with CR3 on it.    *)
NewSpace(m, req) ==
  LET d == NewDir(m)
  IN  UsePageDirectory(
        AllocateUserPageFrame(
          AllocateUserPageFrame(CreateNewPageDirectory(m), d, req.page), d, StackPage), d)

(* process_create_user_process from the page manager m, the list p and the *)
(* count n.  The slot is taken before anything else.  Without a directory, *)
(* CR3 is loaded with 0; without a frame under the buffer, reading an      *)
(* existing file faults in the kernel.  A failed read leaves at once: CR3  *)
(* stays on the new directory, which the PCB does not name.                *)
CreateUserProcess(m, p, n, req) ==
  LET code  == CreateCode(m, n, req)
      slot  == InactiveSlot(p)
      taken == TakeSlot(p, slot)
      d     == NewDir(m)
      space == NewSpace(m, req)
      after(m2, p2, md) == [mem |-> m2, pcb |-> p2, count |-> n + 1, mode |-> md]
  IN  IF code \in {1, 2, 3}
      THEN [mem |-> m, pcb |-> p, count |-> n, mode |-> "user"]
      ELSE IF d = NullDir
      THEN after(UsePageDirectory(m, NullDir), taken, "reset")
      ELSE IF code = 4
      THEN after(space, taken, "user")
      ELSE IF space.page[d][req.page] = NoFrame
      THEN after(space, taken, "halt")
      ELSE after(UsePageDirectory(space, m.cr3), FillSlot(p, slot, d), "user")

(* process_destroy, on an active process.                                  *)
DestroyPcb(p, i)    == [p EXCEPT ![i] = EmptyPcb]
DestroyMem(m, p, i) == FreePageDirectory(m, p[i].pd)

-----------------------------------------------------------------------------
Init ==
  /\ mem = StaticMem
  /\ pcb = [i \in Pids |-> EmptyPcb]
  /\ count = 0
  /\ cur = NoProcess
  /\ cpu = ZeroRegs
  /\ mode = "boot"
  /\ ticks = 0
  /\ nap = [start |-> 0, wait |-> 0]

(* kernel_setup: one frame for the kernel's own low page, the shell, the   *)
(* first switch.  The return code of the creation is ignored.              *)
Boot(req) ==
  LET m0 == AllocateUserPageFrame(mem, KernelDir, LowPage)
      r  == CreateUserProcess(m0, pcb, count, req)
  IN  /\ mode = "boot"
      /\ count' = r.count
      /\ IF r.mode = "user"
         THEN SwitchToNext(r.mem, r.pcb)
         ELSE /\ mem' = r.mem /\ pcb' = r.pcb /\ mode' = r.mode
              /\ UNCHANGED <<cur, cpu>>
      /\ UNCHANGED <<ticks, nap>>

(* IRQ 0 while user code runs: save, count the tick, switch.               *)
Timer ==
  /\ mode = "user"
  /\ ticks' = (ticks + 1) % TickSpan
  /\ SwitchToNext(mem, SaveContext(pcb, cpu))
  /\ UNCHANGED <<count, nap>>

(* User code computes: its registers change.                               *)
UserStep ==
  /\ mode = "user"
  /\ cpu' \in Regs
  /\ UNCHANGED <<mem, pcb, count, cur, mode, ticks, nap>>

(* System call 9.                                                          *)
SysExec(req) ==
  LET r == CreateUserProcess(mem, pcb, count, req)
  IN  /\ mode = "user"
      /\ mem' = r.mem /\ pcb' = r.pcb /\ count' = r.count /\ mode' = r.mode
      /\ UNCHANGED <<cur, cpu, ticks, nap>>

(* System call 10.  The running process's directory is cleared while it is *)
(* in CR3, so the kernel goes on only as long as the TLB holds its page:   *)
(* the second disjunct is the machine on which it does not.                *)
SysExit ==
  /\ mode = "user"
  /\ RunningPcbs(pcb) # {}
  /\ LET pid == Least(RunningPcbs(pcb))
         m   == DestroyMem(mem, pcb, pid)
         p   == DestroyPcb(pcb, pid)
     IN  /\ count' = count - 1
         /\ \/ SwitchToNext(m, p)
            \/ /\ ~m.kernel[mem.cr3]
               /\ mode' = "reset"
               /\ mem' = m /\ pcb' = p
               /\ UNCHANGED <<cur, cpu>>
  /\ UNCHANGED <<ticks, nap>>

(* System call 10 when no PCB is marked RUNNING.                           *)
SysExitWithoutPcb ==
  /\ mode = "user"
  /\ RunningPcbs(pcb) = {}
  /\ mode' = "halt"
  /\ UNCHANGED <<mem, pcb, count, cur, cpu, ticks, nap>>

(* Mutant of SysKill: the process need not be active.                      *)
KillAny(pid) ==
  /\ mode = "user"
  /\ pcb' = DestroyPcb(pcb, pid)
  /\ mem' = DestroyMem(mem, pcb, pid)
  /\ count' = count - 1
  /\ UNCHANGED <<cur, cpu, mode, ticks, nap>>

(* System call 11.  The caller may name itself: it goes on running, with   *)
(* its PCB zeroed and its directory cleared.                               *)
SysKill(pid) ==
  /\ mode = "user"
  /\ pcb[pid].active
  /\ pcb' = DestroyPcb(pcb, pid)
  /\ mem' = DestroyMem(mem, pcb, pid)
  /\ count' = count - 1
  /\ UNCHANGED <<cur, cpu, mode, ticks, nap>>

(* System call 13: wait until the unsigned difference of the ticks is      *)
(* large enough.  Only the timer advances them.                            *)
SysSleep(n) ==
  /\ mode = "user"
  /\ nap' = [start |-> ticks, wait |-> n]
  /\ mode' = "sleep"
  /\ UNCHANGED <<mem, pcb, count, cur, cpu, ticks>>

SleepEnds ==
  /\ mode = "sleep"
  /\ (ticks - nap.start) % TickSpan >= nap.wait
  /\ mode' = "user"
  /\ nap' = [start |-> 0, wait |-> 0]
  /\ UNCHANGED <<mem, pcb, count, cur, cpu, ticks>>

(* An exception in user code: the handler executes hlt, interrupts off.    *)
Fault ==
  /\ mode = "user"
  /\ mode' = "halt"
  /\ UNCHANGED <<mem, pcb, count, cur, cpu, ticks, nap>>

(* The TLB drops the kernel's page while CR3 names a cleared directory.    *)
StaleTranslationLost ==
  /\ mode = "user"
  /\ ~mem.kernel[mem.cr3]
  /\ mode' = "reset"
  /\ UNCHANGED <<mem, pcb, count, cur, cpu, ticks, nap>>

Exec == \E req \in Requests : SysExec(req)

Next ==
  \/ \E req \in BootRequests : Boot(req)
  \/ Timer
  \/ UserStep
  \/ Exec
  \/ SysExit
  \/ SysExitWithoutPcb
  \/ \E pid \in Pids : SysKill(pid)
  \/ \E n \in Naps : SysSleep(n)
  \/ SleepEnds
  \/ Fault
  \/ StaleTranslationLost

Spec == Init /\ [][Next]_vars

-----------------------------------------------------------------------------
(* The processes that can run: active, with a directory of their own.  An  *)
(* active PCB without one is what a failed execution leaves.               *)
LiveIn(p) == {i \in Active(p) : p[i].pd # NullDir}
Live      == LiveIn(pcb)

Spaces(m, p) ==
  \A i \in LiveIn(p) :
    /\ p[i].pd \in PoolDirs
    /\ m.used[p[i].pd]
    /\ m.kernel[p[i].pd]
    /\ m.page[p[i].pd][StackPage] # NoFrame
    /\ \A j \in LiveIn(p) \ {i} : p[j].pd # p[i].pd

TypeOK ==
  /\ mem \in MemType
  /\ pcb \in [Pids -> PcbType]
  /\ count \in Nat
  /\ cur \in Pids \cup {NoProcess}
  /\ cpu \in Regs
  /\ mode \in Modes
  /\ ticks \in 0 .. TickSpan - 1
  /\ nap \in [start : 0 .. TickSpan - 1, wait : 0 .. TickSpan - 1]

(* The limit check of process_create_user_process trusts                   *)
(* active_process_count, which three functions maintain by hand; it is the *)
(* number of active slots (process.c:15-25, 44, 121-139).                  *)
CountExact == count = Cardinality(Active(pcb))

(* At most one PCB is marked RUNNING and it is the scheduler's current     *)
(* one: the timer saves the registers of the CPU into the PCB it finds by  *)
(* that mark (scheduler.c:22-32, process.c:27-37).                         *)
RunningIsCurrent == RunningPcbs(pcb) \subseteq {cur}

(* Every live process has a directory no other live process has; it is in  *)
(* use, maps the kernel and maps a stack, whatever was destroyed, reused   *)
(* or half created before (process.c:58-92, paging.c:133-192).             *)
LiveSpaces == Spaces(mem, pcb)

(* While some PCB is marked RUNNING, CR3 names a directory that is in use  *)
(* and maps the kernel, even after a failed execution or a kill            *)
(* (process.c:86-92, interrupt.c:161-178, scheduler.c:53).                 *)
RunsOnUsedDirectory ==
  (mode \in {"user", "sleep"} /\ RunningPcbs(pcb) # {})
    => mem.cr3 \in PoolDirs /\ mem.used[mem.cr3] /\ mem.kernel[mem.cr3]

(* From its creation to its destruction nothing changes the address space  *)
(* of a live process: no execution, exit or kill of another one maps,      *)
(* unmaps or clears a page of it (process.c:79-92, paging.c:169-192).      *)
SpacesUndisturbed ==
  [][\A i \in Live :
       (pcb'[i].active /\ pcb'[i].pd = pcb[i].pd)
         => /\ mem'.page[pcb[i].pd] = mem.page[pcb[i].pd]
            /\ mem'.kernel[pcb[i].pd]]_vars

(* process_create_user_process never checks that it was given a directory  *)
(* (process.c:80-86).  It always is, when the size of the request does not *)
(* wrap to zero frames: the frame check fails first, although it asks for  *)
(* a number of bytes where two frames are taken, because frames are taken  *)
(* in pairs and never returned.                                            *)
ExecFindsDirectory ==
  [][\A req \in Requests :
       (SysExec(req) /\ FramesNeeded(req) > 0) => mode' # "reset"]_vars

(* What the context of a process holds (EAX apart, see LoadContext):       *)
(* preempted, the process leaves the CPU's registers in its PCB; nothing   *)
(* writes them while it waits; resumed, it finds them on the CPU           *)
(* (scheduler.c:22-60, context-switch.s:5-56).                             *)
ContextKept ==
  [][\A i \in Live :
       pcb'[i].active =>
         /\ (i \in RunningPcbs(pcb) /\ pcb'[i].state = "READY") => pcb'[i].regs = cpu
         /\ i # cur /\ pcb'[i].pd = pcb[i].pd => pcb'[i].regs = pcb[i].regs
         /\ (cur # i /\ cur' = i) => [cpu' EXCEPT !.eax = Zero] = [pcb[i].regs EXCEPT !.eax = Zero]]_vars

-----------------------------------------------------------------------------
(* The PIT fires for ever: while interrupts are on the timer is not        *)
(* ignored for ever.  Nothing is assumed of user code.                     *)
FairSpec == Spec /\ WF_vars(Timer)

(* Round robin starves nobody: a live process eventually runs, unless it   *)
(* is destroyed or the machine stops (scheduler.c:34-60).                  *)
EveryoneRuns ==
  \A i \in Pids :
    (mode = "user" /\ i \in Live) ~> (i \in RunningPcbs(pcb) \/ i \notin Live \/ mode # "user")

(* scheduler.h:55 "Busy-wait until the requested ms have elapsed": a sleep *)
(* ends (scheduler.c:62-76).                                               *)
SleepFairSpec == FairSpec /\ WF_vars(SleepEnds)
SleepReturns  == mode = "sleep" ~> mode = "user"
=============================================================================

----------------------------- MODULE Lifecycle -----------------------------
(***************************************************************************)
(* Creation and termination of processes: kernel/src/lifecycle.rs and      *)
(* sys_spawn of kernel/src/syscall.rs.                                     *)
(***************************************************************************)
EXTENDS Sched

CONSTANTS
  BootProcs,   \* what launch() creates: {1, 2}, or {1} in the other builds
  HeapImages   \* how many more process images the page allocator can hold

ASSUME LifecycleAssumption ==
  /\ BootProcs \in SUBSET PIDs /\ 1 \in BootProcs
  /\ HeapImages \in Nat

(***************************************************************************)
(* Spawning takes pages for a page table, the segments and a stack; no     *)
(* exit path returns them.  The heap is counted in such images.            *)
(***************************************************************************)
VARIABLE heap

(* launch(), interrupts off: every boot process Ready, then PID 1 entered by *)
(* sret, with registers it has not set (0 here) until its first call.        *)
BootState == [p \in PIDs |-> IF p = 1 THEN "Running"
                             ELSE IF p \in BootProcs THEN "Ready" ELSE "Free"]
All(value) == [p \in PIDs |-> value]
Unowned == [i \in IRQs |-> 0]

launch ==
  /\ state = BootState
  /\ context = All(zero)
  /\ ipc_target = All(0) /\ ipc_value = All(0) /\ ipc_arg = All(0)
  /\ parent = All(0) /\ exit_code = All(0)
  /\ irq_num = All(0) /\ irq_pending = All(FALSE) /\ IRQ_OWNER = Unowned
  /\ CURRENT_PID = 1 /\ frame = zero /\ satp = 1 /\ mode = "user"
  /\ heap = HeapImages

(* The SBI system reset: the machine boots, as far as launch(), again. *)
sbi_system_reset ==
  /\ state' = BootState
  /\ context' = All(zero)
  /\ ipc_target' = All(0) /\ ipc_value' = All(0) /\ ipc_arg' = All(0)
  /\ parent' = All(0) /\ exit_code' = All(0)
  /\ irq_num' = All(0) /\ irq_pending' = All(FALSE) /\ IRQ_OWNER' = Unowned
  /\ CURRENT_PID' = 1 /\ frame' = zero /\ satp' = 1 /\ mode' = "user"
  /\ heap' = HeapImages

----------------------------------------------------------------------------
(* Mutant of Waiter: whom the process waits for is not compared. *)
Waiter_for_anyone(child, i) ==
  /\ state[i] = "BlockedWait"
  /\ \A j \in PIDs : j < i => state[j] # "BlockedWait"

(* i is the process the exit of `child` wakes: the first that waits for it. *)
Waiter(child, i) ==
  /\ state[i] = "BlockedWait" /\ ipc_target[i] = child
  /\ \A j \in PIDs : j < i => ~(state[j] = "BlockedWait" /\ ipc_target[j] = child)

(* Mutant of Released: the exit forgets the IRQ. *)
Released_never(p) == IRQ_OWNER

(* IRQ_OWNER after the exit of p: the IRQ in its irq_num is released. *)
Released(p) ==
  LET irq == irq_num[p] IN
  IF irq # 0 /\ is_valid_irq(irq) THEN [IRQ_OWNER EXCEPT ![irq] = 0] ELSE IRQ_OWNER

(***************************************************************************)
(* The common part of sys_exit and kill_current: free the slot, release    *)
(* the IRQ, wake the waiting parent, then run the lowest Ready PID, idle,  *)
(* or leave user mode for good with CURRENT_PID = last.                    *)
(***************************************************************************)
terminate(f, code, last) ==
  LET current == CURRENT_PID
      st == [p \in PIDs |-> IF p = current THEN "Free"
                            ELSE IF Waiter(current, p) THEN "Ready" ELSE state[p]]
      ctx == [p \in PIDs |-> IF p # current /\ Waiter(current, p)
                             THEN [context[p] EXCEPT !.a0 = code] ELSE context[p]] IN
  /\ exit_code' = [exit_code EXCEPT ![current] = code]
  /\ irq_num' = [irq_num EXCEPT ![current] = 0]
  /\ IRQ_OWNER' = Released(current)
  /\ \/ \E next \in PIDs : LowestReady(st, next) /\ switch_to(st, ctx, next)
     \/ /\ ~AnyReady(st) /\ AnyAlive(st)
        /\ enter_idle(st, ctx, f)
     \/ /\ ~AnyAlive(st)
        /\ state' = st
        /\ context' = ctx
        /\ frame' = f
        /\ CURRENT_PID' = last
        /\ satp' = 0
        /\ mode' = "post_process_exit"
  /\ UNCHANGED <<ipc_vars, parent, irq_pending, heap>>

(* SYS_EXIT(code) leaves CURRENT_PID alone when it was the last process. *)
sys_exit(f) == terminate(f, f.a0, CURRENT_PID)

(* A fault in user code ends the process with 128 + the fault's code. *)
kill_current(f, exitcode) ==
  IF CURRENT_PID = 0
  THEN /\ panic(state, context, "panic_no_process")
       /\ UNCHANGED <<ipc_vars, life_vars, irq_vars, heap>>
  ELSE terminate(f, exitcode, 0)

(* Mutant of IsChild: the parent is not compared. *)
IsChild_any(child, current) == is_valid_ipc_target(child, current)

(* "Check if the child exists and belongs to us". *)
IsChild(child, current) ==
  is_valid_ipc_target(child, current) /\ parent[child] = current

(***************************************************************************)
(* SYS_WAIT(child): the stored code of a child that is gone, else block.   *)
(***************************************************************************)
sys_wait(f) ==
  LET current == CURRENT_PID
      child_pid == f.a0
      mine == IsChild(child_pid, current) IN
  /\ \/ /\ ~mine
        /\ return(f, ERR)
        /\ UNCHANGED ipc_target
     \/ /\ mine /\ state[child_pid] = "Free"
        /\ return(f, exit_code[child_pid])
        /\ UNCHANGED ipc_target
     \/ /\ mine /\ state[child_pid] # "Free"
        /\ ipc_target' = [ipc_target EXCEPT ![current] = child_pid]
        /\ schedule([state EXCEPT ![current] = "BlockedWait"], context, f, current)
  /\ UNCHANGED <<ipc_value, ipc_arg, life_vars, irq_vars, heap>>

----------------------------------------------------------------------------
(* What (elf_ptr, elf_len) can point the kernel at. *)
ElfImage == {"bad_size", "unmapped", "malformed", "ok"}

(* Mutant of FreeSlot: the slot of a blocked process is taken as well. *)
FreeSlot_unless_running(i) == state[i] # "Running"

FreeSlot(i) == state[i] = "Free" /\ \A j \in PIDs : j < i => state[j] # "Free"

(* PROCS[new_pid] = Process { .. }: every column of the slot is overwritten. *)
create(f, new_pid) ==
  /\ state' = [state EXCEPT ![new_pid] = "Ready"]
  /\ context' = [context EXCEPT ![new_pid] = zero]
  /\ ipc_target' = [ipc_target EXCEPT ![new_pid] = 0]
  /\ ipc_value' = [ipc_value EXCEPT ![new_pid] = 0]
  /\ ipc_arg' = [ipc_arg EXCEPT ![new_pid] = 0]
  /\ parent' = [parent EXCEPT ![new_pid] = CURRENT_PID]
  /\ exit_code' = [exit_code EXCEPT ![new_pid] = 0]
  /\ irq_num' = [irq_num EXCEPT ![new_pid] = 0]
  /\ irq_pending' = [irq_pending EXCEPT ![new_pid] = FALSE]
  /\ frame' = [f EXCEPT !.a0 = new_pid]
  /\ UNCHANGED <<CURRENT_PID, satp, mode, IRQ_OWNER>>

(* Mutant of alloc_image: exhaustion is not noticed. *)
alloc_image_unchecked == heap' = heap - 1

(* The pages of one process image are taken from the allocator. *)
alloc_image == heap > 0 /\ heap' = heap - 1

(***************************************************************************)
(* SYS_SPAWN(elf_ptr, elf_len).  Reading the image happens in S-mode, so   *)
(* an unmapped pointer is a kernel page fault; alloc_zeroed_page panics    *)
(* when the heap is exhausted.                                             *)
(***************************************************************************)
sys_spawn(f, image) ==
  \/ /\ \/ image \in {"bad_size", "malformed"}
        \/ image = "ok" /\ \A i \in PIDs : state[i] # "Free"
     /\ return(f, ERR)
     /\ UNCHANGED <<ipc_vars, life_vars, irq_vars, heap>>
  \/ /\ image = "unmapped"
     /\ panic(state, context, "panic_fault")
     /\ UNCHANGED <<ipc_vars, life_vars, irq_vars, heap>>
  \/ /\ image = "ok" /\ \E i \in PIDs : state[i] = "Free"
     /\ heap = 0
     /\ panic(state, context, "panic_oom")
     /\ UNCHANGED <<ipc_vars, life_vars, irq_vars, heap>>
  \/ /\ image = "ok" /\ alloc_image
     /\ \E new_pid \in PIDs : FreeSlot(new_pid) /\ create(f, new_pid)

============================================================================

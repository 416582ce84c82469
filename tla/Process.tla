------------------------------ MODULE Process ------------------------------
(***************************************************************************)
(* The process table of kernel/src/process.rs and the machine state that   *)
(* every kernel module shares.  The array PROCS of Process records is kept *)
(* by columns: state[p] stands for PROCS[p].state, and so on.  The columns *)
(* net_* belong to the `net` build and are kept by module Net.              *)
(*                                                                         *)
(* A trap handler runs with interrupts disabled on the only hart (INV-1 of *)
(* docs/unsafe-audit.md), so a handler is one step.  Between two steps the *)
(* machine is executing what the last sret returned to; `frame` holds the  *)
(* argument registers that sret restored.                                  *)
(***************************************************************************)
EXTENDS Integers

CONSTANTS
  MAX_PROCS,     \* size of the process table; slot 0 is the kernel
  MAX_IRQS,      \* size of IRQ_OWNER
  USIZE_MAX,     \* usize::MAX, the largest register value and the error value
  U32_MODULUS    \* 2^32: what `as u32` reduces a register by

ASSUME ProcessAssumption ==
  /\ MAX_PROCS \in Nat /\ MAX_PROCS >= 2
  /\ MAX_IRQS \in Nat /\ MAX_IRQS >= 1
  /\ USIZE_MAX \in Nat /\ USIZE_MAX >= MAX_PROCS /\ USIZE_MAX >= MAX_IRQS
  /\ U32_MODULUS \in Nat /\ U32_MODULUS >= 1

VARIABLES
  state,        \* [PIDs -> ProcessState]
  context,      \* [PIDs -> TrapFrame]  registers saved while not running
  ipc_target,   \* whom the process sends to, expects from, or waits for
  ipc_value,    \* the message of a blocked sender or caller
  ipc_arg,      \* ipc_arg2 and ipc_arg3, the extra words of a caller
  parent,       \* PID of the process that spawned it, 0 for the kernel
  exit_code,
  irq_num,      \* the IRQ it registered, 0 for none
  irq_pending,  \* an IRQ fired while it was not in BlockedRecv
  CURRENT_PID,  \* the running process, 0 in the kernel
  IRQ_OWNER,    \* [IRQs -> PID], 0 for unclaimed
  frame,        \* a0, a1 and a2 (standing for a2 and a3) after the last sret
  satp,         \* whose page table is installed, 0 for the kernel's
  mode          \* what the last sret returned to

PIDs == 1 .. MAX_PROCS - 1
IRQs == 0 .. MAX_IRQS - 1
Word == 0 .. USIZE_MAX
ERR == USIZE_MAX

ProcessState ==
  {"Free", "Ready", "Running", "BlockedSend", "BlockedRecv", "BlockedCall",
   "BlockedWait", "BlockedNet"}

\* Of the 33 registers of a TrapFrame, those that carry arguments and results.
TrapFrame == [a0 : Word, a1 : Word, a2 : Word]
zero == [a0 |-> 0, a1 |-> 0, a2 |-> 0]

(***************************************************************************)
(* User code, the two S-mode loops sret can return to, and the halted      *)
(* kernel (panic! prints and stops), one value per panic of these modules. *)
(***************************************************************************)
Panics == {"panic_deadlock", "panic_no_process", "panic_oom", "panic_fault"}
Mode == {"user", "kernel_idle", "post_process_exit"} \cup Panics

ipc_vars == <<ipc_target, ipc_value, ipc_arg>>
life_vars == <<parent, exit_code>>
irq_vars == <<irq_num, irq_pending, IRQ_OWNER>>
sched_vars == <<state, context, CURRENT_PID, frame, satp, mode>>
proc_vars == <<sched_vars, ipc_vars, life_vars, irq_vars>>

----------------------------------------------------------------------------
(* security.rs: the argument checks of the handlers modelled here. *)

is_valid_ipc_target(target, current) ==
  target > 0 /\ target < MAX_PROCS /\ target # current

is_valid_irq(irq) == irq < MAX_IRQS

as_u32(word) == word % U32_MODULUS

----------------------------------------------------------------------------
(* A handler that only sets a0 and returns to its caller. *)
return(f, value) ==
  /\ frame' = [f EXCEPT !.a0 = value]
  /\ UNCHANGED <<state, context, CURRENT_PID, satp, mode>>

sys_getpid(f) ==
  /\ return(f, CURRENT_PID)
  /\ UNCHANGED <<ipc_vars, life_vars, irq_vars>>

(* panic!: the handler never returns and interrupts stay disabled. *)
panic(st, ctx, which) ==
  /\ state' = st
  /\ context' = ctx
  /\ mode' = which
  /\ UNCHANGED <<CURRENT_PID, frame, satp>>

----------------------------------------------------------------------------
(* The types of the scheduler's variables, and of all the variables above. *)
SchedTypeOK ==
  /\ state \in [PIDs -> ProcessState]
  /\ context \in [PIDs -> TrapFrame]
  /\ CURRENT_PID \in PIDs \cup {0}
  /\ frame \in TrapFrame
  /\ satp \in PIDs \cup {0}
  /\ mode \in Mode

ProcTypeOK ==
  /\ SchedTypeOK
  /\ ipc_target \in [PIDs -> Word]
  /\ ipc_value \in [PIDs -> Word]
  /\ ipc_arg \in [PIDs -> Word]
  /\ parent \in [PIDs -> PIDs \cup {0}]
  /\ exit_code \in [PIDs -> Word]
  /\ irq_num \in [PIDs -> IRQs]
  /\ irq_pending \in [PIDs -> BOOLEAN]
  /\ IRQ_OWNER \in [IRQs -> PIDs \cup {0}]

============================================================================

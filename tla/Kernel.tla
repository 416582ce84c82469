------------------------------- MODULE Kernel ------------------------------
(***************************************************************************)
(* The trap handler of kernel/src/trap.rs over the components it calls:    *)
(* system calls, faults, the timer and external interrupts, each one step. *)
(* User programs are arbitrary: a running process may make any call of     *)
(* Syscalls with any arguments of the sets below.                          *)
(***************************************************************************)
EXTENDS Irq, Lifecycle

CONSTANTS
  Syscalls,     \* the calls user programs make
  PidArgs,      \* arguments that name a process (SEND, RECEIVE, ...)
  Messages,     \* message and reply values
  Extras,       \* extra words of SYS_CALL
  ExitCodes,    \* arguments of SYS_EXIT
  FaultCodes,   \* scause codes of user-mode faults
  IrqArgs,      \* arguments of SYS_IRQ_REGISTER
  Images        \* what SYS_SPAWN is pointed at

SyscallNames ==
  {"SYS_PUTCHAR", "SYS_EXIT", "SYS_SEND", "SYS_RECEIVE", "SYS_CALL",
   "SYS_REPLY", "SYS_SPAWN", "SYS_WAIT", "SYS_GETPID", "SYS_YIELD",
   "SYS_IRQ_REGISTER", "SYS_IRQ_ACK", "SYS_REBOOT", "unknown"}

ASSUME KernelAssumption ==
  /\ Syscalls \subseteq SyscallNames
  /\ PidArgs \subseteq Word
  /\ Messages \subseteq Word
  /\ Extras \subseteq Word
  /\ ExitCodes \subseteq Word
  /\ FaultCodes \subseteq Nat
  /\ \A c \in FaultCodes : 128 + c \in Word
  /\ IrqArgs \subseteq Word
  /\ Images \subseteq ElfImage

vars == <<proc_vars, heap, plic_vars>>

Init == launch /\ plic_init

----------------------------------------------------------------------------
(* handlers.rs *)

sys_putchar(f) ==
  /\ return(f, 0)
  /\ UNCHANGED <<ipc_vars, life_vars, irq_vars>>

sys_unknown(f) ==
  /\ return(f, ERR)
  /\ UNCHANGED <<ipc_vars, life_vars, irq_vars>>

sys_reboot == sbi_system_reset /\ plic_reset

(* User code loads a call's arguments; registers it does not read are 0. *)
Args(a0s, a1s, a2s) == [a0 : a0s, a1 : a1s, a2 : a2s]

(* handle_ecall: user code makes this call. *)
Ecall(syscall) == mode = "user" /\ syscall \in Syscalls

Putchar == /\ Ecall("SYS_PUTCHAR")
           /\ \E f \in Args(Messages, {0}, {0}) : sys_putchar(f)
           /\ UNCHANGED <<heap, plic_vars>>

Exit == /\ Ecall("SYS_EXIT")
        /\ \E f \in Args(ExitCodes, {0}, {0}) : sys_exit(f)
        /\ UNCHANGED plic_vars

Send == /\ Ecall("SYS_SEND")
        /\ \E f \in Args(PidArgs, Messages, {0}) : sys_send(f)
        /\ UNCHANGED <<heap, plic_vars>>

Receive == /\ Ecall("SYS_RECEIVE")
           /\ \E f \in Args(PidArgs, {0}, {0}) : sys_receive(f)
           /\ UNCHANGED <<heap, plic_vars>>

Call == /\ Ecall("SYS_CALL")
        /\ \E f \in Args(PidArgs, Messages, Extras) : sys_call(f)
        /\ UNCHANGED <<heap, plic_vars>>

Reply == /\ Ecall("SYS_REPLY")
         /\ \E f \in Args(PidArgs, Messages, {0}) : sys_reply(f)
         /\ UNCHANGED <<heap, plic_vars>>

Spawn == /\ Ecall("SYS_SPAWN")
         /\ \E image \in Images : sys_spawn(zero, image)
         /\ UNCHANGED plic_vars

Wait == /\ Ecall("SYS_WAIT")
        /\ \E f \in Args(PidArgs, {0}, {0}) : sys_wait(f)
        /\ UNCHANGED plic_vars

Getpid == /\ Ecall("SYS_GETPID")
          /\ sys_getpid(zero)
          /\ UNCHANGED <<heap, plic_vars>>

Yield == /\ Ecall("SYS_YIELD")
         /\ sys_yield(zero)
         /\ UNCHANGED <<heap, plic_vars>>

IrqRegister == /\ Ecall("SYS_IRQ_REGISTER")
               /\ \E f \in Args(IrqArgs, {0}, {0}) : sys_irq_register(f)
               /\ UNCHANGED heap

IrqAck == /\ Ecall("SYS_IRQ_ACK")
          /\ sys_irq_ack(zero)
          /\ UNCHANGED heap

(* SYS_REBOOT, or the key for it in the loop of post_process_exit. *)
Reboot == (Ecall("SYS_REBOOT") \/ mode = "post_process_exit") /\ sys_reboot

Unknown == /\ Ecall("unknown")
           /\ \E f \in Args(PidArgs, {0}, {0}) : sys_unknown(f)
           /\ UNCHANGED <<heap, plic_vars>>

(* An exception in user code that is not an ecall. *)
Fault == /\ mode = "user"
         /\ \E code \in FaultCodes : kill_current(frame, 128 + code)
         /\ UNCHANGED plic_vars

(* The timer interrupt, in user mode or in one of the S-mode loops. *)
handle_timer ==
  /\ \/ mode = "user" /\ preempt(state, context)
     \/ /\ mode \in {"kernel_idle", "post_process_exit"}
        /\ schedule_from_idle(state, context)
  /\ UNCHANGED <<ipc_vars, life_vars, irq_vars, heap, plic_vars>>

External == mode \notin Panics /\ handle_external /\ UNCHANGED heap

Device == \E irq \in Sources : raise(irq) /\ UNCHANGED heap

(* After a panic nothing happens any more. *)
Halted == mode \in Panics /\ UNCHANGED vars

Next ==
  \/ Putchar \/ Exit \/ Send \/ Receive \/ Call \/ Reply \/ Spawn \/ Wait
  \/ Getpid \/ Yield \/ IrqRegister \/ IrqAck \/ Reboot \/ Unknown
  \/ Fault \/ handle_timer \/ External \/ Device \/ Halted

Spec == Init /\ [][Next]_vars

(***************************************************************************)
(* The timer is re-armed by every handle_timer and interrupts are enabled  *)
(* whenever no handler runs; a device's interrupt stays asserted until it  *)
(* is claimed.  Nothing is assumed of user programs.                       *)
(***************************************************************************)
FairSpec == Spec /\ WF_vars(handle_timer) /\ WF_vars(External)

----------------------------------------------------------------------------
(***************************************************************************)
(* Every variable has its type: register values are machine words, PIDs    *)
(* index the process table, IRQ numbers index IRQ_OWNER.                   *)
(***************************************************************************)
TypeOK ==
  /\ ProcTypeOK
  /\ heap \in Nat
  /\ plic_enabled \subseteq IRQs
  /\ plic_pending \subseteq IRQs
  /\ plic_claimed \subseteq IRQs

(* The registers process p sees, whether it is running or switched out. *)
registers(p) == IF state[p] = "Running" THEN frame ELSE context[p]

(***************************************************************************)
(* "A process observed in Running is CURRENT_PID", "CURRENT_PID and satp   *)
(* agree" (sched.rs): user code always runs as the one Running process, on *)
(* its own page table; in S-mode no process is Running.                    *)
(***************************************************************************)
RunningIsCurrent ==
  /\ mode = "user" => /\ CURRENT_PID \in PIDs
                      /\ satp = CURRENT_PID
                      /\ \A p \in PIDs : state[p] = "Running" <=> p = CURRENT_PID
  /\ mode \in {"kernel_idle", "post_process_exit"} =>
        satp = 0 /\ \A p \in PIDs : state[p] # "Running"

(***************************************************************************)
(* The kernel idles only while every live process is blocked, and gives up *)
(* on user mode only when none is left: no wake-up is ever left behind in  *)
(* an idle kernel.                                                         *)
(***************************************************************************)
IdleOnlyWhenBlocked ==
  /\ mode = "kernel_idle" => ~AnyReady(state) /\ AnyAlive(state)
  /\ mode = "post_process_exit" => ~AnyAlive(state)

(***************************************************************************)
(* The panics for a scheduler without processes and for a fault without a  *)
(* process are unreachable.                                                *)
(***************************************************************************)
NoSchedulerPanic == mode \notin {"panic_deadlock", "panic_no_process"}

(***************************************************************************)
(* No missed rendezvous: a process is blocked in SYS_RECEIVE only while no *)
(* blocked sender or caller has a message it accepts, and while, accepting *)
(* anyone, it has no pending interrupt.                                    *)
(***************************************************************************)
NoMissedRendezvous ==
  \A r \in PIDs : state[r] = "BlockedRecv" =>
     /\ \A i \in PIDs : ~Offers(i, r, ipc_target[r])
     /\ ipc_target[r] = 0 => ~irq_pending[r]

(***************************************************************************)
(* No lost exit: a process is blocked in SYS_WAIT only on a child of its   *)
(* own that is still alive, so some exit will wake it; at most one process *)
(* waits for a child.                                                      *)
(***************************************************************************)
WaitsForLiveChild ==
  \A p \in PIDs : state[p] = "BlockedWait" =>
     /\ ipc_target[p] \in PIDs
     /\ state[ipc_target[p]] # "Free"
     /\ parent[ipc_target[p]] = p

(***************************************************************************)
(* SYS_IRQ_ACK completes irq_num at the PLIC without consulting IRQ_OWNER: *)
(* the two tables agree, so it is an IRQ the caller owns, and a dead       *)
(* process has none.                                                       *)
(***************************************************************************)
AcksItsOwnIrq ==
  \A p \in PIDs : irq_num[p] # 0 =>
     IRQ_OWNER[irq_num[p]] = p /\ state[p] # "Free"

(***************************************************************************)
(* The exit of a process cleans up its IRQ ownership (sys_exit and         *)
(* kill_current): an IRQ never belongs to a dead process, whose slot the   *)
(* next spawn would turn into a process that gets foreign interrupts.      *)
(***************************************************************************)
OwnersAlive ==
  \A i \in IRQs : IRQ_OWNER[i] # 0 => state[IRQ_OWNER[i]] # "Free"

(***************************************************************************)
(* "Returns: a0 = new PID, usize::MAX on error" (sys_spawn): no argument   *)
(* of SYS_SPAWN halts the kernel.                                          *)
(***************************************************************************)
SpawnReportsErrors == mode \notin {"panic_oom", "panic_fault"}

(***************************************************************************)
(* The inductive invariant: together the above are preserved by each step. *)
(***************************************************************************)
IInv ==
  /\ TypeOK
  /\ RunningIsCurrent
  /\ IdleOnlyWhenBlocked
  /\ NoSchedulerPanic
  /\ NoMissedRendezvous
  /\ WaitsForLiveChild
  /\ AcksItsOwnIrq

(***************************************************************************)
(* SYS_CALL returns only through SYS_REPLY: a caller is released by the    *)
(* process it called, in a step of that process that gives it the reply    *)
(* and lets the server go on.                                              *)
(***************************************************************************)
CallEndsByReply ==
  [][\A p \in PIDs :
       /\ ~Reboot
       /\ state[p] = "BlockedCall"
       /\ state'[p] # "BlockedCall"
       => /\ Reply
          /\ CURRENT_PID = ipc_target[p] /\ CURRENT_PID' = ipc_target[p]
          /\ state'[p] = "Ready" /\ context'[p].a0 = frame'.a1
          /\ \A q \in PIDs \ {p} : state'[q] = state[q]]_vars

(***************************************************************************)
(* SYS_SEND returns success only when its message is delivered: a blocked  *)
(* sender is released in the step that puts its message and its PID into   *)
(* the registers of the process it sent to.                                *)
(***************************************************************************)
SendReturnsOnDelivery ==
  [][\A p \in PIDs :
       /\ ~Reboot
       /\ state[p] = "BlockedSend"
       /\ state'[p] # "BlockedSend"
       => /\ CURRENT_PID = ipc_target[p] /\ CURRENT_PID' = CURRENT_PID
          /\ frame'.a0 = ipc_value[p] /\ frame'.a1 = p
          /\ context'[p].a0 = 0]_vars

(***************************************************************************)
(* SYS_WAIT returns the exit code: a process blocked on a child is woken   *)
(* by the end of that very child, with its code, be it SYS_EXIT or a fault.*)
(***************************************************************************)
WaitReturnsExitCode ==
  [][\A p \in PIDs :
       /\ ~Reboot
       /\ state[p] = "BlockedWait"
       /\ state'[p] # "BlockedWait"
       => /\ ipc_target[p] = CURRENT_PID
          /\ state'[CURRENT_PID] = "Free"
          /\ registers(p)'.a0 = exit_code'[CURRENT_PID]]_vars

(***************************************************************************)
(* "After any function in this module returns, the TrapFrame on the kernel *)
(* stack describes the process that sret will return to" (sched.rs): a     *)
(* Ready process keeps its registers until it runs with exactly those, and *)
(* an interrupt is invisible in the registers of the process it preempts.  *)
(***************************************************************************)
ReadyKeepsRegisters ==
  [][\A p \in PIDs :
       /\ ~Reboot
       /\ \/ state[p] = "Ready"
          \/ state[p] = "Running" /\ (handle_timer \/ External)
       => registers(p)' = registers(p)]_vars

(***************************************************************************)
(* A blocked receiver wakes up with a message of a sender it accepts:      *)
(* "a0 = expected sender PID (0 = accept from anyone)" (ipc.rs).           *)
(***************************************************************************)
ReceivesFromExpected ==
  [][\A p \in PIDs :
       /\ ~Reboot
       /\ state[p] = "BlockedRecv"
       /\ state'[p] # "BlockedRecv"
       => ipc_target[p] \in {0, registers(p)'.a1}]_vars

(***************************************************************************)
(* No starvation: a Ready process gets to run, whatever the others do,     *)
(* unless the kernel halts.                                                *)
(***************************************************************************)
ReadyRuns ==
  \A p \in PIDs : state[p] = "Ready" ~> state[p] = "Running" \/ mode \in Panics

(***************************************************************************)
(* A device server blocked in SYS_RECEIVE gets to run once its interrupt   *)
(* is raised at the PLIC, be the kernel idle or busy with other processes. *)
(***************************************************************************)
IrqReachesServer ==
  \A p \in PIDs :
     state[p] = "BlockedRecv" /\ irq_num[p] \in Deliverable
       ~> state[p] # "BlockedRecv" \/ mode \in Panics

============================================================================

-------------------------------- MODULE Irq --------------------------------
(***************************************************************************)
(* Interrupt ownership and delivery: sys_irq_register, sys_irq_ack and     *)
(* irq_owner of kernel/src/syscall.rs, handle_external of trap.rs, and the *)
(* PLIC they drive through kernel/src/plic.rs.                             *)
(***************************************************************************)
EXTENDS Ipc

CONSTANT Sources   \* device IRQs that plic::init gave a priority above zero

ASSUME IrqAssumption == Sources \in SUBSET (IRQs \ {0})

(* The interrupt controller (hardware), one hart's S-mode context. *)
VARIABLES
  plic_enabled,   \* the enable bits
  plic_pending,   \* raised by a device and not yet claimed
  plic_claimed    \* claimed and not yet completed

plic_vars == <<plic_enabled, plic_pending, plic_claimed>>

plic_init ==
  /\ plic_enabled = {}
  /\ plic_pending = {}
  /\ plic_claimed = {}

plic_reset ==
  /\ plic_enabled' = {}
  /\ plic_pending' = {}
  /\ plic_claimed' = {}

(* A device asserts its line. *)
raise(irq) ==
  /\ irq \notin plic_pending
  /\ plic_pending' = plic_pending \cup {irq}
  /\ UNCHANGED <<plic_enabled, plic_claimed, proc_vars>>

(* IRQs the controller offers: enabled, pending, not under service. *)
Deliverable == (plic_pending \cap plic_enabled) \ plic_claimed

(* All priorities are equal, so a claim returns the lowest number. *)
Claims(irq) == irq \in Deliverable /\ \A j \in Deliverable : irq <= j

enable_irq(irq) == plic_enabled' = plic_enabled \cup {irq}
complete(irq) == plic_claimed' = plic_claimed \ {irq}

----------------------------------------------------------------------------
(* Mutant of Unclaimed: an IRQ that has an owner can be taken over. *)
Unclaimed_any(irq) == is_valid_irq(irq)

(* Only one process can own an IRQ at a time. *)
Unclaimed(irq) == is_valid_irq(irq) /\ IRQ_OWNER[irq] = 0

sys_irq_register(f) ==
  LET current == CURRENT_PID
      irq == as_u32(f.a0) IN
  /\ \/ /\ ~Unclaimed(irq)
        /\ return(f, ERR)
        /\ UNCHANGED <<irq_num, IRQ_OWNER, plic_enabled>>
     \/ /\ Unclaimed(irq)
        /\ IRQ_OWNER' = [IRQ_OWNER EXCEPT ![irq] = current]
        /\ irq_num' = [irq_num EXCEPT ![current] = irq]
        /\ enable_irq(irq)
        /\ return(f, 0)
  /\ UNCHANGED <<ipc_vars, life_vars, irq_pending, plic_pending, plic_claimed>>

sys_irq_ack(f) ==
  LET irq == irq_num[CURRENT_PID] IN
  /\ \/ irq = 0 /\ return(f, ERR) /\ UNCHANGED plic_claimed
     \/ irq # 0 /\ return(f, 0) /\ complete(irq)
  /\ UNCHANGED <<ipc_vars, life_vars, irq_vars, plic_enabled, plic_pending>>

irq_owner(irq) == IF is_valid_irq(irq) THEN IRQ_OWNER[irq] ELSE 0

(***************************************************************************)
(* handle_external: claim, then notify the owner and leave the completion  *)
(* to its SYS_IRQ_ACK, or, when nobody owns the IRQ, let the kernel serve  *)
(* it and complete it at once.  From S-mode a woken owner runs right away. *)
(***************************************************************************)
handle_external ==
  \E irq \in Deliverable :
     LET owner == irq_owner(irq)
         table == irq_notify(irq, owner) IN
     /\ Claims(irq)
     /\ plic_pending' = plic_pending \ {irq}
     /\ \/ /\ owner # 0
           /\ plic_claimed' = plic_claimed \cup {irq}
           /\ irq_pending' = table.irq_pending
           /\ \/ /\ mode = "user"
                 /\ state' = table.state
                 /\ context' = table.context
                 /\ UNCHANGED <<CURRENT_PID, frame, satp, mode>>
              \/ /\ mode # "user"
                 /\ schedule_from_idle(table.state, table.context)
        \/ /\ owner = 0
           /\ UNCHANGED <<plic_claimed, irq_pending, sched_vars>>
     /\ UNCHANGED <<ipc_vars, life_vars, irq_num, IRQ_OWNER, plic_enabled>>

============================================================================

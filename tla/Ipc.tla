-------------------------------- MODULE Ipc --------------------------------
(***************************************************************************)
(* Synchronous IPC, kernel/src/ipc.rs.  A handler takes the registers f    *)
(* its caller trapped with: f.a0 the peer, f.a1 the message, f.a2 the      *)
(* extra words of SYS_CALL.                                                *)
(***************************************************************************)
EXTENDS Sched

(* Mutants of Accepts: any sender is accepted; "any" is not understood. *)
Accepts_anyone(target, sender) == state[target] = "BlockedRecv"
Accepts_named_only(target, sender) ==
  state[target] = "BlockedRecv" /\ ipc_target[target] = sender

(* target is blocked in SYS_RECEIVE and accepts a message from `sender`. *)
Accepts(target, sender) ==
  /\ state[target] = "BlockedRecv"
  /\ ipc_target[target] \in {0, sender}

(* Mutant of Offers: the addressee of the message is not compared. *)
Offers_to_anyone(i, receiver, from) ==
  state[i] \in {"BlockedSend", "BlockedCall"} /\ from \in {0, i}

(* i has a message for `receiver` that SYS_RECEIVE(from) may take. *)
Offers(i, receiver, from) ==
  /\ state[i] \in {"BlockedSend", "BlockedCall"}
  /\ ipc_target[i] = receiver
  /\ from \in {0, i}

(* Mutant of Called: the process that was called is not compared. *)
Called_by_anyone(target, current) == state[target] = "BlockedCall"

(* target waits for `current` to reply: it called us and nobody else. *)
Called(target, current) ==
  /\ state[target] = "BlockedCall"
  /\ ipc_target[target] = current

sys_call(f) ==
  LET current == CURRENT_PID
      target_pid == f.a0
      met == Accepts(target_pid, current)
      blocked == [state EXCEPT ![current] = "BlockedCall"] IN
  \/ /\ ~is_valid_ipc_target(target_pid, current)
     /\ return(f, ERR)
     /\ UNCHANGED <<ipc_vars, life_vars, irq_vars>>
  \/ /\ is_valid_ipc_target(target_pid, current)
     /\ ipc_target' = [ipc_target EXCEPT ![current] = target_pid]
     /\ ipc_value' = [ipc_value EXCEPT ![current] = f.a1]
     /\ ipc_arg' = [ipc_arg EXCEPT ![current] = f.a2]
     /\ IF met
        THEN schedule([blocked EXCEPT ![target_pid] = "Ready"],
                      [context EXCEPT ![target_pid] =
                         [a0 |-> f.a1, a1 |-> current, a2 |-> f.a2]],
                      f, current)
        ELSE schedule(blocked, context, f, current)
     /\ UNCHANGED <<life_vars, irq_vars>>

sys_reply(f) ==
  LET current == CURRENT_PID
      target_pid == f.a0
      called == /\ is_valid_ipc_target(target_pid, current)
                /\ Called(target_pid, current) IN
  /\ \/ ~called /\ return(f, ERR)
     \/ /\ called
        /\ state' = [state EXCEPT ![target_pid] = "Ready"]
        /\ context' = [context EXCEPT ![target_pid].a0 = f.a1]
        /\ frame' = [f EXCEPT !.a0 = 0]
        /\ UNCHANGED <<CURRENT_PID, satp, mode>>
  /\ UNCHANGED <<ipc_vars, life_vars, irq_vars>>

sys_send(f) ==
  LET current == CURRENT_PID
      target_pid == f.a0 IN
  /\ \/ /\ ~is_valid_ipc_target(target_pid, current)
        /\ return(f, ERR)
        /\ UNCHANGED ipc_vars
     \/ /\ is_valid_ipc_target(target_pid, current)
        /\ Accepts(target_pid, current)
        /\ state' = [state EXCEPT ![target_pid] = "Ready"]
        /\ context' = [context EXCEPT ![target_pid].a0 = f.a1,
                                      ![target_pid].a1 = current]
        /\ frame' = [f EXCEPT !.a0 = 0]
        /\ UNCHANGED <<CURRENT_PID, satp, mode, ipc_vars>>
     \/ /\ is_valid_ipc_target(target_pid, current)
        /\ ~Accepts(target_pid, current)
        /\ ipc_target' = [ipc_target EXCEPT ![current] = target_pid]
        /\ ipc_value' = [ipc_value EXCEPT ![current] = f.a1]
        /\ schedule([state EXCEPT ![current] = "BlockedSend"], context, f, current)
        /\ UNCHANGED ipc_arg
  /\ UNCHANGED <<life_vars, irq_vars>>

(***************************************************************************)
(* SYS_RECEIVE(from): a pending IRQ first, then the blocked sender with    *)
(* the lowest PID, else block.  A plain sender is released; a caller stays *)
(* BlockedCall until SYS_REPLY.  ipc_arg of a caller is not delivered.     *)
(***************************************************************************)
sys_receive(f) ==
  LET current == CURRENT_PID
      from_pid == f.a0
      irq == irq_pending[current] /\ from_pid = 0
      Sender(i) == /\ Offers(i, current, from_pid)
                   /\ \A j \in PIDs : j < i => ~Offers(j, current, from_pid) IN
  /\ \/ /\ irq
        /\ irq_pending' = [irq_pending EXCEPT ![current] = FALSE]
        /\ frame' = [f EXCEPT !.a0 = irq_num[current], !.a1 = 0]
        /\ UNCHANGED <<state, context, CURRENT_PID, satp, mode, ipc_target>>
     \/ /\ ~irq
        /\ \E i \in PIDs :
              /\ Sender(i)
              /\ IF state[i] = "BlockedSend"
                 THEN /\ state' = [state EXCEPT ![i] = "Ready"]
                      /\ context' = [context EXCEPT ![i].a0 = 0]
                 ELSE UNCHANGED <<state, context>>
              /\ frame' = [f EXCEPT !.a0 = ipc_value[i], !.a1 = i]
        /\ UNCHANGED <<CURRENT_PID, satp, mode, ipc_target, irq_pending>>
     \/ /\ ~irq
        /\ \A i \in PIDs : ~Offers(i, current, from_pid)
        /\ ipc_target' = [ipc_target EXCEPT ![current] = from_pid]
        /\ schedule([state EXCEPT ![current] = "BlockedRecv"], context, f, current)
        /\ UNCHANGED irq_pending
  /\ UNCHANGED <<ipc_value, ipc_arg, irq_num, IRQ_OWNER, life_vars>>

(* Mutant of irq_notify: a server that is already waiting is not woken. *)
irq_notify_pending_only(irq, owner) ==
  [state |-> state,
   context |-> context,
   irq_pending |-> [irq_pending EXCEPT ![owner] = TRUE]]

(***************************************************************************)
(* Deliver an IRQ: straight into the saved registers of an owner that is   *)
(* in BlockedRecv, whatever sender it expects, else into irq_pending.      *)
(* irq_notify is the process table the rest of the handler works on.       *)
(***************************************************************************)
irq_notify(irq, owner) ==
  IF state[owner] = "BlockedRecv"
  THEN [state |-> [state EXCEPT ![owner] = "Ready"],
        context |-> [context EXCEPT ![owner].a0 = irq, ![owner].a1 = 0],
        irq_pending |-> irq_pending]
  ELSE [state |-> state,
        context |-> context,
        irq_pending |-> [irq_pending EXCEPT ![owner] = TRUE]]

============================================================================

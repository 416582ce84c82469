---------------------------- MODULE KernelRefines --------------------------
(***************************************************************************)
(* The kernel implements Rendezvous: behind the process table, the saved   *)
(* contexts and the scheduler there is nothing but programs that compute,  *)
(* meet and end.                                                           *)
(***************************************************************************)
EXTENDS MCKernel

(* What a process is doing, from its slot in the process table. *)
Activity(p) ==
  CASE state[p] = "Free" -> [is |-> "dead"]
    [] state[p] \in {"Ready", "Running"} -> [is |-> "active"]
    [] state[p] = "BlockedSend" ->
         [is |-> "sending", to |-> ipc_target[p], msg |-> ipc_value[p]]
    [] state[p] = "BlockedCall" ->
         [is |-> "calling", to |-> ipc_target[p], msg |-> ipc_value[p]]
    [] state[p] = "BlockedRecv" -> [is |-> "receiving", from |-> ipc_target[p]]
    [] state[p] = "BlockedWait" -> [is |-> "waiting", child |-> ipc_target[p]]

(* The result registers of a process that can look at them. *)
Result(p) ==
  IF state[p] \in {"Ready", "Running"}
  THEN [a0 |-> registers(p).a0, a1 |-> registers(p).a1]
  ELSE [a0 |-> 0, a1 |-> 0]

Abstract == INSTANCE Rendezvous WITH
  Words <- Word,
  Peers <- PidArgs,
  Codes <- ExitCodes \cup {128 + c : c \in FaultCodes},
  doing <- [p \in PIDs |-> Activity(p)],
  result <- [p \in PIDs |-> Result(p)],
  notified <- {p \in PIDs : irq_pending[p]}

(***************************************************************************)
(* Every trap handler is one step of Rendezvous or none: a schedule, a     *)
(* preemption, an idle loop or an interrupt changes nothing a process can  *)
(* see, and IPC, exit and wait do to other processes only what Rendezvous  *)
(* lets them do.                                                           *)
(***************************************************************************)
ImplementsRendezvous == Abstract!Spec

============================================================================

------------------------------ MODULE MCKernel -----------------------------
(***************************************************************************)
(* The kernel for TLC.  The .cfg files choose a workload from the sets     *)
(* below.  MaxWord and U32 are small stand-ins for 2^64 - 1 and 2^32: they *)
(* keep every PID, IRQ number, message and exit code apart and still let a *)
(* register exceed 2^32.                                                   *)
(***************************************************************************)
EXTENDS Kernel

MaxWord == 999
U32 == 100

AllCalls == SyscallNames

AllButYield == AllCalls \ {"SYS_YIELD"}

RpcCalls == {"SYS_SPAWN", "SYS_CALL", "SYS_RECEIVE", "SYS_REPLY"}

LifecycleCalls == {"SYS_SPAWN", "SYS_EXIT", "SYS_WAIT"}

IpcCalls ==
  RpcCalls \cup LifecycleCalls \cup {"SYS_SEND"}

ServerCalls ==
  {"SYS_SPAWN", "SYS_EXIT", "SYS_RECEIVE", "SYS_IRQ_REGISTER", "SYS_IRQ_ACK"}

LiveCalls == ServerCalls \cup {"SYS_YIELD"}

(* IRQ 1 through a register that `as u32` truncates, and a number too large. *)
IrqNumbers == {U32 + 1, 7}

============================================================================

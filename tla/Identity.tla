------------------------------ MODULE Identity -----------------------------
(***************************************************************************)
(* Kernel with a history: which incarnation of its slot each process is,   *)
(* which incarnation spawned it, and whose call a server has already       *)
(* taken.  The kernel itself knows processes by PID only, a PID is reused  *)
(* as soon as its slot is Free, and a BlockedCall process looks the same   *)
(* before and after its server has taken the message.                      *)
(***************************************************************************)
EXTENDS Kernel

VARIABLES
  generation,   \* [PIDs -> Nat]  how many processes the slot has held
  spawner,      \* [PIDs -> Nat]  the generation of its parent, at SYS_SPAWN
  taken         \* the processes in SYS_CALL whose message the server has

Born(p) == state[p] = "Free" /\ state'[p] # "Free"

(* The step hands the message of p's SYS_CALL to the server: the call finds  *)
(* the server waiting, or the server's SYS_RECEIVE finds the call.           *)
HandsOver(p) ==
  /\ state'[p] = "BlockedCall"
  /\ \/ /\ Call /\ p = CURRENT_PID
        /\ state[ipc_target'[p]] = "BlockedRecv"
        /\ state'[ipc_target'[p]] # "BlockedRecv"
     \/ /\ Receive /\ CURRENT_PID' = CURRENT_PID
        /\ ipc_target[p] = CURRENT_PID
        /\ frame'.a1 = p

IdentityInit ==
  /\ Init
  /\ generation = [p \in PIDs |-> 0]
  /\ spawner = [p \in PIDs |-> 0]
  /\ taken = {}

IdentityNext ==
  /\ Next
  /\ generation' = [p \in PIDs |-> IF Reboot THEN 0
                                   ELSE IF Born(p) THEN generation[p] + 1
                                   ELSE generation[p]]
  /\ spawner' = [p \in PIDs |-> IF Reboot THEN 0
                                ELSE IF Born(p) THEN generation[CURRENT_PID]
                                ELSE spawner[p]]
  /\ taken' = {p \in PIDs :
                 /\ state'[p] = "BlockedCall"
                 /\ HandsOver(p) \/ (p \in taken /\ state[p] = "BlockedCall")}

identity_vars == <<vars, generation, spawner, taken>>

IdentitySpec == IdentityInit /\ [][IdentityNext]_identity_vars

(***************************************************************************)
(* "Check if the child exists and belongs to us" (sys_wait): a process     *)
(* blocked in SYS_WAIT waits for a process that it spawned itself, not for *)
(* one that an earlier holder of its PID left behind.                      *)
(***************************************************************************)
WaitsForOwnChild ==
  \A p \in PIDs :
     state[p] = "BlockedWait" => spawner[ipc_target[p]] = generation[p]

(***************************************************************************)
(* "The kernel's Phase B IPC ... delivers a2 and a3 during rendezvous      *)
(* alongside the message value" (userspace/netsrv/src/gooseos.rs): the     *)
(* server that takes the message of a call for the first time takes its    *)
(* extra words with it, whichever of the two came first.                   *)
(***************************************************************************)
ExtrasReachServer ==
  [][\A p \in PIDs :
       HandsOver(p) /\ p \notin taken
         => registers(ipc_target[p])'.a2 = ipc_arg'[p]]_identity_vars

============================================================================

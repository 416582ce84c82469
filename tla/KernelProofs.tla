---------------------------- MODULE KernelProofs ---------------------------
(***************************************************************************)
(* Proofs about Kernel, for every size of the process table and every      *)
(* workload: its inductive invariant; what one step may do to a process,   *)
(* which are its action properties; and that it implements Rendezvous.     *)
(***************************************************************************)
EXTENDS KernelRefines, TLAPS

(* What the scheduler may do to the states `st` a handler hands it. *)
Dispatched(st) ==
  \A p \in PIDs : state'[p] = st[p] \/ (st[p] = "Ready" /\ state'[p] = "Running")

(* The three invariants the scheduler is responsible for. *)
SchedInv == RunningIsCurrent /\ IdleOnlyWhenBlocked /\ NoSchedulerPanic

StateTable == [PIDs -> ProcessState]
ContextTable == [PIDs -> TrapFrame]

----------------------------------------------------------------------------
(* Switching to a Ready process of a table in which nobody is Running. *)
LEMMA ResumeLemma ==
  ASSUME NEW st \in StateTable, NEW ctx \in ContextTable,
         NEW next \in PIDs, NEW regs \in TrapFrame,
         st[next] = "Ready",
         \A p \in PIDs : st[p] # "Running",
         resume(st, ctx, next, regs)
  PROVE  SchedTypeOK' /\ SchedInv' /\ Dispatched(st)
  BY DEF resume, SchedTypeOK, SchedInv, Dispatched, RunningIsCurrent,
         IdleOnlyWhenBlocked, NoSchedulerPanic, StateTable, ContextTable,
         ProcessState, Mode, Panics

(* Entering the idle loop. *)
LEMMA IdleLemma ==
  ASSUME NEW st \in StateTable, NEW ctx \in ContextTable, NEW f \in TrapFrame,
         \A p \in PIDs : st[p] # "Running",
         ~AnyReady(st), AnyAlive(st),
         enter_idle(st, ctx, f)
  PROVE  SchedTypeOK' /\ SchedInv' /\ Dispatched(st)
  BY DEF enter_idle, SchedTypeOK, SchedInv, Dispatched, RunningIsCurrent, AnyReady, AnyAlive,
         IdleOnlyWhenBlocked, NoSchedulerPanic, StateTable, ContextTable,
         ProcessState, Mode, Panics

(***************************************************************************)
(* The round-robin scan of schedule() visits every slot of the table, so   *)
(* it ends without a result only when no process is Ready.                 *)
(***************************************************************************)
LEMMA ScanLemma ==
  ASSUME NEW st, NEW b \in PIDs, NoneReady(st, b, MAX_PROCS - 1)
  PROVE  ~AnyReady(st)
<1> SUFFICES ASSUME NEW i \in PIDs
             PROVE  st[i] # "Ready"
  BY DEF AnyReady
<1> DEFINE N == MAX_PROCS - 1
           k == IF i > b THEN i - b ELSE i - b + N
<1>1. N \in Nat /\ N >= 1 /\ i \in 1 .. N /\ b \in 1 .. N /\ k \in 1 .. N
  BY ProcessAssumption DEF PIDs
<1>2. (b - 1 + k) % N = i - 1
  <2>1. \A a \in 0 .. N - 1 : a % N = a /\ (a + N) % N = a
    <3> HIDE DEF N, k
    <3> QED BY <1>1
  <2>2. b - 1 + k = IF i > b THEN i - 1 ELSE i - 1 + N
    BY <1>1
  <2> HIDE DEF N, k
  <2> QED BY <1>1, <2>1, <2>2
<1>3. RoundRobin(b, k) = i
  BY <1>1, <1>2 DEF RoundRobin
<1> HIDE DEF k
<1> QED BY <1>1, <1>3 DEF NoneReady

(* schedule(): a process that blocked hands over, or the kernel idles. *)
LEMMA ScheduleLemma ==
  ASSUME NEW st \in StateTable, NEW ctx \in ContextTable, NEW f \in TrapFrame,
         NEW b \in PIDs,
         st[b] # "Free", \A p \in PIDs : st[p] # "Running",
         schedule(st, ctx, f, b)
  PROVE  SchedTypeOK' /\ SchedInv' /\ Dispatched(st)
<1> DEFINE saved == [ctx EXCEPT ![b] = f]
<1>1. saved \in ContextTable
  BY DEF ContextTable
<1>2. AnyAlive(st)
  BY DEF AnyAlive
<1>3. CASE \E next \in PIDs : NextReady(st, b, MAX_PROCS - 1, next) /\ switch_to(st, saved, next)
  <2>1. PICK next \in PIDs : NextReady(st, b, MAX_PROCS - 1, next) /\ switch_to(st, saved, next)
    BY <1>3
  <2>2. st[next] = "Ready" /\ saved[next] \in TrapFrame /\ resume(st, saved, next, saved[next])
    BY <2>1, <1>1 DEF NextReady, switch_to, ContextTable
  <2> HIDE DEF saved
  <2> QED BY <2>2, <1>1, ResumeLemma
<1>4. CASE NoneReady(st, b, MAX_PROCS - 1) /\ enter_idle(st, saved, f)
  <2> HIDE DEF saved
  <2> QED BY <1>4, <1>1, <1>2, ScanLemma, IdleLemma
<1> QED BY <1>2, <1>3, <1>4 DEF schedule

(* PIDs and IRQ numbers fit in a register. *)
LEMMA WordLemma == PIDs \subseteq Word /\ IRQs \subseteq Word
  BY ProcessAssumption DEF PIDs, IRQs, Word

(* From user mode: the caller is the one Running process. *)
LEMMA CallerLemma ==
  ASSUME TypeOK, RunningIsCurrent, mode = "user"
  PROVE  /\ CURRENT_PID \in PIDs
         /\ state[CURRENT_PID] = "Running"
         /\ \A p \in PIDs : p # CURRENT_PID => state[p] # "Running"
         /\ state \in StateTable /\ context \in ContextTable
  BY DEF RunningIsCurrent, TypeOK, ProcTypeOK, SchedTypeOK, StateTable, ContextTable

(* Blocking the caller and scheduling, after other states changed to st. *)
LEMMA BlockLemma ==
  ASSUME TypeOK, RunningIsCurrent, mode = "user",
         NEW st \in StateTable, NEW ctx \in ContextTable, NEW f \in TrapFrame,
         st[CURRENT_PID] \notin {"Free", "Running"},
         \A p \in PIDs : p # CURRENT_PID => st[p] \in {state[p], "Ready"},
         schedule(st, ctx, f, CURRENT_PID)
  PROVE  SchedTypeOK' /\ SchedInv' /\ Dispatched(st)
<1>1. CURRENT_PID \in PIDs /\ \A p \in PIDs : st[p] # "Running"
  BY CallerLemma
<1> QED BY <1>1, ScheduleLemma

(* A call that returns to its caller, at most making others Ready. *)
LEMMA ReturnLemma ==
  ASSUME TypeOK, RunningIsCurrent, mode = "user",
         UNCHANGED <<CURRENT_PID, satp, mode>>,
         state' \in StateTable, context' \in ContextTable, frame' \in TrapFrame,
         state'[CURRENT_PID] = "Running",
         \A p \in PIDs : p # CURRENT_PID => state'[p] \in {state[p], "Ready"}
  PROVE  SchedTypeOK' /\ SchedInv'
<1>1. SchedTypeOK'
  BY DEF SchedTypeOK, TypeOK, ProcTypeOK, StateTable, ContextTable
<1>2. RunningIsCurrent'
  BY CallerLemma DEF RunningIsCurrent
<1> QED BY <1>1, <1>2 DEF SchedInv, IdleOnlyWhenBlocked, NoSchedulerPanic

(***************************************************************************)
(* A step that blocks nobody, frees nobody and leaves the IRQ tables alone *)
(* cannot break the invariants about blocked processes.                    *)
(***************************************************************************)
Blocked == {"BlockedSend", "BlockedRecv", "BlockedCall", "BlockedWait"}

Quiet ==
  /\ \A p \in PIDs :
        /\ state'[p] \in Blocked => state'[p] = state[p] /\ ipc_target'[p] = ipc_target[p]
        /\ state[p] # "Free" => state'[p] # "Free" /\ parent'[p] = parent[p]
        /\ state'[p] = "BlockedRecv" => (irq_pending'[p] => irq_pending[p])
  /\ UNCHANGED <<irq_num, IRQ_OWNER>>

(* A quiet step of any handler preserves the invariant. *)
LEMMA QuietLemma ==
  ASSUME IInv, TypeOK', SchedInv', Quiet
  PROVE  IInv'
<1>1. NoMissedRendezvous'
  BY DEF Quiet, Blocked, IInv, NoMissedRendezvous, Offers
<1>2. WaitsForLiveChild'
  BY DEF Quiet, Blocked, IInv, WaitsForLiveChild
<1>3. AcksItsOwnIrq'
  BY DEF Quiet, IInv, AcksItsOwnIrq
<1> QED BY <1>1, <1>2, <1>3 DEF IInv, SchedInv

----------------------------------------------------------------------------
(* A call that only writes a0 and returns. *)
LEMMA PlainReturnLemma ==
  ASSUME IInv, mode = "user", NEW f \in TrapFrame, NEW v \in Word, return(f, v),
         UNCHANGED <<ipc_vars, life_vars, irq_vars, heap>>,
         UNCHANGED plic_pending, UNCHANGED plic_enabled,
         plic_claimed' \subseteq plic_claimed
  PROVE  IInv'
<1>1. frame' \in TrapFrame
  BY DEF return, TrapFrame
<1>2. SchedTypeOK' /\ SchedInv'
  BY <1>1, CallerLemma, ReturnLemma DEF IInv, return
<1>3. TypeOK'
  BY <1>2 DEF IInv, TypeOK, ProcTypeOK, ipc_vars, life_vars, irq_vars
<1>4. Quiet
  BY DEF Quiet, return, ipc_vars, life_vars, irq_vars, IInv
<1> QED BY <1>2, <1>3, <1>4, QuietLemma

(***************************************************************************)
(* A step in which the caller c blocks in state s on t; other processes    *)
(* are at most released from SYS_RECEIVE or dispatched.  What remains to   *)
(* be shown is that c had to block.                                        *)
(***************************************************************************)
BlockStep(c, s, t) ==
  /\ state'[c] = s /\ ipc_target'[c] = t
  /\ \A p \in PIDs : p # c =>
        /\ ipc_target'[p] = ipc_target[p]
        /\ \/ state'[p] = state[p]
           \/ state[p] \in {"Ready", "BlockedRecv"} /\ state'[p] \in {"Ready", "Running"}
  /\ UNCHANGED <<parent, irq_pending, irq_num, IRQ_OWNER>>

(* A blocking system call preserves the invariant if its caller had to block. *)
LEMMA BlockStepLemma ==
  ASSUME IInv, mode = "user", TypeOK', SchedInv',
         NEW s \in Blocked, NEW t \in Word, BlockStep(CURRENT_PID, s, t),
         s \in {"BlockedSend", "BlockedCall"} =>
            t \in PIDs /\ ~(state'[t] = "BlockedRecv" /\ ipc_target[t] \in {0, CURRENT_PID}),
         s = "BlockedRecv" =>
            /\ \A i \in PIDs : ~Offers(i, CURRENT_PID, t)
            /\ t = 0 => ~irq_pending[CURRENT_PID],
         s = "BlockedWait" =>
            /\ t \in PIDs /\ t # CURRENT_PID
            /\ state[t] # "Free" /\ parent[t] = CURRENT_PID
  PROVE  IInv'
<1> DEFINE c == CURRENT_PID
<1>1. /\ c \in PIDs /\ state[c] = "Running"
      /\ \A p \in PIDs : p # c => state[p] # "Running"
  BY CallerLemma DEF IInv
<1>2. NoMissedRendezvous'
  BY <1>1 DEF NoMissedRendezvous, Offers, BlockStep, Blocked, IInv
<1>3. WaitsForLiveChild'
  BY <1>1 DEF WaitsForLiveChild, BlockStep, Blocked, IInv
<1>4. AcksItsOwnIrq'
  BY <1>1 DEF AcksItsOwnIrq, BlockStep, Blocked, IInv
<1> QED BY <1>2, <1>3, <1>4 DEF IInv, SchedInv

(* What every handler knows of its caller and its arguments. *)
LEMMA EntryLemma ==
  ASSUME IInv, mode = "user", NEW f \in TrapFrame
  PROVE  /\ CURRENT_PID \in PIDs /\ state[CURRENT_PID] = "Running"
         /\ CURRENT_PID \in Word
         /\ \A p \in PIDs : p # CURRENT_PID => state[p] # "Running"
         /\ state \in StateTable /\ context \in ContextTable
         /\ f.a0 \in Word /\ f.a1 \in Word /\ f.a2 \in Word
         /\ ERR \in Word /\ 0 \in Word
         /\ is_valid_ipc_target(f.a0, CURRENT_PID) =>
               f.a0 \in PIDs /\ f.a0 # CURRENT_PID
  BY CallerLemma, ProcessAssumption
  DEF IInv, PIDs, Word, TrapFrame, ERR, is_valid_ipc_target

(* Waking t with new registers while the caller goes on running. *)
LEMMA WakeLemma ==
  ASSUME IInv, mode = "user", NEW t \in PIDs, t # CURRENT_PID, state[t] # "Free",
         NEW r \in TrapFrame,
         state' = [state EXCEPT ![t] = "Ready"],
         context' = [context EXCEPT ![t] = r],
         frame' \in TrapFrame,
         UNCHANGED <<CURRENT_PID, satp, mode, ipc_vars, life_vars, irq_vars, heap, plic_vars>>
  PROVE  IInv'
<1>1. /\ CURRENT_PID \in PIDs /\ state[CURRENT_PID] = "Running"
      /\ state \in StateTable /\ context \in ContextTable
  BY CallerLemma DEF IInv
<1>2. state' \in StateTable /\ context' \in ContextTable
  BY <1>1 DEF StateTable, ContextTable, ProcessState
<1>3. SchedTypeOK' /\ SchedInv'
  BY <1>1, <1>2, ReturnLemma DEF IInv, StateTable
<1>4. TypeOK'
  BY <1>3 DEF IInv, TypeOK, ProcTypeOK, ipc_vars, life_vars, irq_vars, plic_vars
<1>5. Quiet
  BY <1>1 DEF Quiet, Blocked, StateTable, ipc_vars, life_vars, irq_vars
<1> QED BY <1>3, <1>4, <1>5, QuietLemma

----------------------------------------------------------------------------
(* sys_send: refused, met by a waiting receiver, or blocked with nobody waiting. *)
LEMMA SendLemma ==
  ASSUME IInv, mode = "user", NEW f \in TrapFrame, sys_send(f),
         UNCHANGED <<heap, plic_vars>>
  PROVE  IInv'
<1> DEFINE c == CURRENT_PID
           t == f.a0
           st == [state EXCEPT ![c] = "BlockedSend"]
<1>1. /\ c \in PIDs /\ state[c] = "Running" /\ c \in Word
      /\ state \in StateTable /\ context \in ContextTable
      /\ t \in Word /\ f.a1 \in Word /\ ERR \in Word /\ 0 \in Word
      /\ is_valid_ipc_target(t, c) => t \in PIDs /\ t # c
  BY EntryLemma
<1>2. CASE ~is_valid_ipc_target(t, c) /\ return(f, ERR) /\ UNCHANGED ipc_vars
  BY <1>2, <1>1, PlainReturnLemma DEF sys_send, plic_vars
<1>3. CASE /\ is_valid_ipc_target(t, c)
           /\ Accepts(t, c)
           /\ state' = [state EXCEPT ![t] = "Ready"]
           /\ context' = [context EXCEPT ![t].a0 = f.a1, ![t].a1 = c]
           /\ frame' = [f EXCEPT !.a0 = 0]
           /\ UNCHANGED <<CURRENT_PID, satp, mode, ipc_vars>>
  <2>1. [context[t] EXCEPT !.a0 = f.a1, !.a1 = c] \in TrapFrame /\ frame' \in TrapFrame
    BY <1>1, <1>3 DEF ContextTable, TrapFrame
  <2>2. context' = [context EXCEPT ![t] = [context[t] EXCEPT !.a0 = f.a1, !.a1 = c]]
    BY <1>1, <1>3 DEF ContextTable, TrapFrame
  <2> QED BY <1>1, <1>3, <2>1, <2>2, WakeLemma DEF sys_send, Accepts
<1>4. CASE /\ is_valid_ipc_target(t, c)
           /\ ~Accepts(t, c)
           /\ ipc_target' = [ipc_target EXCEPT ![c] = t]
           /\ ipc_value' = [ipc_value EXCEPT ![c] = f.a1]
           /\ schedule(st, context, f, c)
           /\ UNCHANGED ipc_arg
  <2>1. st \in StateTable /\ st[c] = "BlockedSend" /\ \A p \in PIDs : p # c => st[p] = state[p]
    BY <1>1 DEF StateTable, ProcessState
  <2>2. SchedTypeOK' /\ SchedInv' /\ Dispatched(st)
    <3> HIDE DEF st
    <3> QED BY <1>1, <1>4, <2>1, BlockLemma DEF IInv
  <2>3. TypeOK'
    BY <2>2, <1>1, <1>4 DEF sys_send, IInv, TypeOK, ProcTypeOK, life_vars, irq_vars, plic_vars
  <2> HIDE DEF st
  <2>4. BlockStep(c, "BlockedSend", t)
    BY <1>1, <1>4, <2>1, <2>2
    DEF BlockStep, Dispatched, sys_send, life_vars, irq_vars, IInv, TypeOK, ProcTypeOK
  <2>5. ~(state'[t] = "BlockedRecv" /\ ipc_target[t] \in {0, c})
    BY <1>1, <1>4, <2>4 DEF BlockStep, Accepts
  <2> QED BY <1>1, <1>4, <2>2, <2>3, <2>4, <2>5, BlockStepLemma DEF Blocked
<1> QED BY <1>2, <1>3, <1>4 DEF sys_send

(* sys_call: the caller blocks in every case, after handing over if it was awaited. *)
LEMMA CallLemma ==
  ASSUME IInv, mode = "user", NEW f \in TrapFrame, sys_call(f),
         UNCHANGED <<heap, plic_vars>>
  PROVE  IInv'
<1> DEFINE c == CURRENT_PID
           t == f.a0
           blocked == [state EXCEPT ![c] = "BlockedCall"]
           met == [blocked EXCEPT ![t] = "Ready"]
           ctx == [context EXCEPT ![t] = [a0 |-> f.a1, a1 |-> c, a2 |-> f.a2]]
<1>1. /\ c \in PIDs /\ state[c] = "Running" /\ c \in Word
      /\ state \in StateTable /\ context \in ContextTable
      /\ t \in Word /\ f.a1 \in Word /\ f.a2 \in Word /\ ERR \in Word
      /\ is_valid_ipc_target(t, c) => t \in PIDs /\ t # c
  BY EntryLemma
<1>2. CASE ~is_valid_ipc_target(t, c)
  BY <1>2, <1>1, PlainReturnLemma DEF sys_call, plic_vars
<1>3. CASE is_valid_ipc_target(t, c)
  <2>1. /\ ipc_target' = [ipc_target EXCEPT ![c] = t]
        /\ ipc_value' = [ipc_value EXCEPT ![c] = f.a1]
        /\ ipc_arg' = [ipc_arg EXCEPT ![c] = f.a2]
        /\ IF Accepts(t, c) THEN schedule(met, ctx, f, c) ELSE schedule(blocked, context, f, c)
        /\ UNCHANGED <<life_vars, irq_vars>>
    BY <1>3 DEF sys_call
  <2> DEFINE st == IF Accepts(t, c) THEN met ELSE blocked
             cx == IF Accepts(t, c) THEN ctx ELSE context
  <2>2. /\ st \in StateTable /\ cx \in ContextTable /\ st[c] = "BlockedCall"
        /\ \A p \in PIDs : p # c =>
              st[p] = state[p] \/ (p = t /\ state[p] = "BlockedRecv" /\ st[p] = "Ready")
    BY <1>1, <1>3 DEF StateTable, ContextTable, ProcessState, TrapFrame, Accepts
  <2>3. schedule(st, cx, f, c)
    BY <2>1
  <2>4. Accepts(t, c) => st[t] = "Ready"
    BY <1>1, <1>3 DEF StateTable
  <2> HIDE DEF st, cx
  <2>5. SchedTypeOK' /\ SchedInv' /\ Dispatched(st)
    BY <1>1, <2>2, <2>3, BlockLemma DEF IInv
  <2>6. TypeOK'
    BY <2>1, <2>5, <1>1 DEF IInv, TypeOK, ProcTypeOK, life_vars, irq_vars, plic_vars
  <2>7. BlockStep(c, "BlockedCall", t)
    BY <1>1, <2>1, <2>2, <2>5
    DEF BlockStep, Dispatched, life_vars, irq_vars, IInv, TypeOK, ProcTypeOK
  <2>8. ~(state'[t] = "BlockedRecv" /\ ipc_target[t] \in {0, c})
    BY <1>1, <1>3, <2>2, <2>4, <2>5 DEF Dispatched, Accepts
  <2> QED BY <1>1, <1>3, <2>5, <2>6, <2>7, <2>8, BlockStepLemma DEF Blocked
<1> QED BY <1>2, <1>3

(* sys_reply: at most one caller of ours becomes Ready, and we go on. *)
LEMMA ReplyLemma ==
  ASSUME IInv, mode = "user", NEW f \in TrapFrame, sys_reply(f),
         UNCHANGED <<heap, plic_vars>>
  PROVE  IInv'
<1> DEFINE c == CURRENT_PID
           t == f.a0
           called == /\ is_valid_ipc_target(t, c)
                     /\ Called(t, c)
<1>1. /\ c \in PIDs /\ context \in ContextTable
      /\ f.a1 \in Word /\ ERR \in Word /\ 0 \in Word
      /\ is_valid_ipc_target(t, c) => t \in PIDs /\ t # c
  BY EntryLemma
<1>2. CASE ~called
  BY <1>2, <1>1, PlainReturnLemma DEF sys_reply, plic_vars
<1>3. CASE called
  <2>1. /\ state' = [state EXCEPT ![t] = "Ready"]
        /\ context' = [context EXCEPT ![t].a0 = f.a1]
        /\ frame' = [f EXCEPT !.a0 = 0]
        /\ UNCHANGED <<CURRENT_PID, satp, mode, ipc_vars, life_vars, irq_vars>>
    BY <1>3 DEF sys_reply
  <2>2. [context[t] EXCEPT !.a0 = f.a1] \in TrapFrame /\ frame' \in TrapFrame
    BY <1>1, <1>3, <2>1 DEF ContextTable, TrapFrame
  <2>3. context' = [context EXCEPT ![t] = [context[t] EXCEPT !.a0 = f.a1]]
    BY <2>1
  <2> QED BY <1>1, <1>3, <2>1, <2>2, <2>3, WakeLemma DEF Called
<1> QED BY <1>2, <1>3

(***************************************************************************)
(* sys_receive: a pending IRQ, a blocked sender or caller, or, when there  *)
(* is neither, the receiver blocks: that is what NoMissedRendezvous needs. *)
(***************************************************************************)
LEMMA ReceiveLemma ==
  ASSUME IInv, mode = "user", NEW f \in TrapFrame, sys_receive(f),
         UNCHANGED <<heap, plic_vars>>
  PROVE  IInv'
<1> DEFINE c == CURRENT_PID
           from == f.a0
           irq == irq_pending[c] /\ from = 0
           st == [state EXCEPT ![c] = "BlockedRecv"]
<1>1. /\ c \in PIDs /\ state[c] = "Running"
      /\ state \in StateTable /\ context \in ContextTable
      /\ from \in Word /\ 0 \in Word
  BY EntryLemma
<1>2. irq_num[c] \in Word /\ PIDs \subseteq Word
  BY <1>1, WordLemma DEF IInv, TypeOK, ProcTypeOK
<1>3. UNCHANGED <<ipc_value, ipc_arg, irq_num, IRQ_OWNER, life_vars>>
  BY DEF sys_receive
<1>4. CASE /\ irq
           /\ irq_pending' = [irq_pending EXCEPT ![c] = FALSE]
           /\ frame' = [f EXCEPT !.a0 = irq_num[c], !.a1 = 0]
           /\ UNCHANGED <<state, context, CURRENT_PID, satp, mode, ipc_target>>
  <2>1. frame' \in TrapFrame
    BY <1>1, <1>2, <1>4 DEF TrapFrame
  <2>2. SchedTypeOK' /\ SchedInv'
    BY <1>1, <1>4, <2>1, ReturnLemma DEF IInv
  <2>3. TypeOK'
    BY <1>3, <1>4, <2>2 DEF IInv, TypeOK, ProcTypeOK, life_vars, plic_vars
  <2>4. Quiet
    BY <1>1, <1>3, <1>4 DEF Quiet, life_vars, IInv, TypeOK, ProcTypeOK
  <2> QED BY <2>2, <2>3, <2>4, QuietLemma
<1>5. ASSUME NEW i \in PIDs, Offers(i, c, from),
             IF state[i] = "BlockedSend"
             THEN /\ state' = [state EXCEPT ![i] = "Ready"]
                  /\ context' = [context EXCEPT ![i].a0 = 0]
             ELSE UNCHANGED <<state, context>>,
             frame' = [f EXCEPT !.a0 = ipc_value[i], !.a1 = i],
             UNCHANGED <<CURRENT_PID, satp, mode, ipc_target, irq_pending>>
      PROVE  IInv'
  <2>1. frame' \in TrapFrame /\ i # c
    BY <1>1, <1>2, <1>5 DEF TrapFrame, IInv, TypeOK, ProcTypeOK, Offers
  <2>2. CASE state[i] = "BlockedSend"
    <3>1. [context[i] EXCEPT !.a0 = 0] \in TrapFrame
      BY <1>1 DEF ContextTable, TrapFrame
    <3>2. context' = [context EXCEPT ![i] = [context[i] EXCEPT !.a0 = 0]]
      BY <1>5, <2>2
    <3>3. UNCHANGED <<ipc_vars, life_vars, irq_vars>>
      BY <1>3, <1>5 DEF ipc_vars, irq_vars
    <3> QED BY <1>5, <2>1, <2>2, <3>1, <3>2, <3>3, WakeLemma
  <2>3. CASE state[i] # "BlockedSend"
    <3>1. SchedTypeOK' /\ SchedInv'
      BY <1>1, <1>5, <2>1, <2>3, ReturnLemma DEF IInv
    <3>2. TypeOK'
      BY <1>3, <1>5, <2>3, <3>1 DEF IInv, TypeOK, ProcTypeOK, life_vars, plic_vars
    <3>3. Quiet
      BY <1>3, <1>5, <2>3 DEF Quiet, life_vars
    <3> QED BY <3>1, <3>2, <3>3, QuietLemma
  <2> QED BY <2>2, <2>3
<1>6. CASE /\ ~irq
           /\ \A i \in PIDs : ~Offers(i, c, from)
           /\ ipc_target' = [ipc_target EXCEPT ![c] = from]
           /\ schedule(st, context, f, c)
           /\ UNCHANGED irq_pending
  <2>1. st \in StateTable /\ st[c] = "BlockedRecv" /\ \A p \in PIDs : p # c => st[p] = state[p]
    BY <1>1 DEF StateTable, ProcessState
  <2> HIDE DEF st
  <2>2. SchedTypeOK' /\ SchedInv' /\ Dispatched(st)
    BY <1>1, <1>6, <2>1, BlockLemma DEF IInv
  <2>3. TypeOK'
    BY <1>1, <1>3, <1>6, <2>2 DEF IInv, TypeOK, ProcTypeOK, life_vars, plic_vars
  <2>4. BlockStep(c, "BlockedRecv", from)
    BY <1>1, <1>3, <1>6, <2>1, <2>2
    DEF BlockStep, Dispatched, life_vars, IInv, TypeOK, ProcTypeOK
  <2> QED BY <1>1, <1>6, <2>2, <2>3, <2>4, BlockStepLemma DEF Blocked
<1> QED BY <1>4, <1>5, <1>6 DEF sys_receive

(* sys_wait: the caller blocks only on a live child of its own. *)
LEMMA WaitLemma ==
  ASSUME IInv, mode = "user", NEW f \in TrapFrame, sys_wait(f),
         UNCHANGED plic_vars
  PROVE  IInv'
<1> DEFINE c == CURRENT_PID
           t == f.a0
           mine == is_valid_ipc_target(t, c) /\ parent[t] = c
           st == [state EXCEPT ![c] = "BlockedWait"]
<1>1. /\ c \in PIDs /\ state[c] = "Running"
      /\ state \in StateTable /\ context \in ContextTable
      /\ t \in Word /\ ERR \in Word
      /\ is_valid_ipc_target(t, c) => t \in PIDs /\ t # c
  BY EntryLemma
<1>2. UNCHANGED <<ipc_value, ipc_arg, life_vars, irq_vars, heap>>
  BY DEF sys_wait
<1>3. CASE ~mine /\ return(f, ERR) /\ UNCHANGED ipc_target
  BY <1>1, <1>2, <1>3, PlainReturnLemma DEF ipc_vars, plic_vars
<1>4. CASE mine /\ return(f, exit_code[t]) /\ UNCHANGED ipc_target
  <2>1. exit_code[t] \in Word
    BY <1>1, <1>4 DEF IInv, TypeOK, ProcTypeOK
  <2> QED BY <1>2, <1>4, <2>1, PlainReturnLemma DEF ipc_vars, plic_vars
<1>5. CASE /\ mine /\ state[t] # "Free"
           /\ ipc_target' = [ipc_target EXCEPT ![c] = t]
           /\ schedule(st, context, f, c)
  <2>1. st \in StateTable /\ st[c] = "BlockedWait" /\ \A p \in PIDs : p # c => st[p] = state[p]
    BY <1>1 DEF StateTable, ProcessState
  <2> HIDE DEF st
  <2>2. SchedTypeOK' /\ SchedInv' /\ Dispatched(st)
    BY <1>1, <1>5, <2>1, BlockLemma DEF IInv
  <2>3. TypeOK'
    BY <1>1, <1>2, <1>5, <2>2 DEF IInv, TypeOK, ProcTypeOK, life_vars, irq_vars, plic_vars
  <2>4. BlockStep(c, "BlockedWait", t)
    BY <1>1, <1>2, <1>5, <2>1, <2>2
    DEF BlockStep, Dispatched, life_vars, irq_vars, IInv, TypeOK, ProcTypeOK
  <2> QED BY <1>1, <1>5, <2>2, <2>3, <2>4, BlockStepLemma DEF Blocked
<1> QED BY <1>3, <1>4, <1>5 DEF sys_wait, IsChild

(* sys_yield: the caller becomes Ready and the next Ready process runs. *)
LEMMA YieldLemma ==
  ASSUME IInv, mode = "user", NEW f \in TrapFrame, sys_yield(f),
         UNCHANGED <<heap, plic_vars>>
  PROVE  IInv'
<1> DEFINE c == CURRENT_PID
           st == [state EXCEPT ![c] = "Ready"]
           saved == [context EXCEPT ![c] = f]
<1>1. /\ c \in PIDs /\ state[c] = "Running" /\ 0 \in Word
      /\ \A p \in PIDs : p # c => state[p] # "Running"
      /\ state \in StateTable /\ context \in ContextTable
  BY EntryLemma
<1>2. UNCHANGED <<ipc_vars, life_vars, irq_vars>>
  BY DEF sys_yield
<1>3. CASE return(f, 0)
  BY <1>1, <1>2, <1>3, PlainReturnLemma DEF plic_vars
<1>4. ASSUME NEW next \in PIDs, NextReady(st, c, MAX_PROCS - 1, next),
             resume(st, saved, next, [saved[next] EXCEPT !.a0 = 0])
      PROVE  IInv'
  <2>1. /\ st \in StateTable /\ saved \in ContextTable /\ st[next] = "Ready"
        /\ st[c] = "Ready" /\ \A p \in PIDs : p # c => st[p] = state[p]
        /\ [saved[next] EXCEPT !.a0 = 0] \in TrapFrame
    BY <1>1, <1>4 DEF StateTable, ContextTable, ProcessState, TrapFrame, NextReady
  <2> HIDE DEF st, saved
  <2>2. SchedTypeOK' /\ SchedInv' /\ Dispatched(st)
    BY <1>1, <1>4, <2>1, ResumeLemma
  <2>3. TypeOK'
    BY <1>2, <2>2 DEF IInv, TypeOK, ProcTypeOK, ipc_vars, life_vars, irq_vars, plic_vars
  <2>4. Quiet
    BY <1>1, <1>2, <2>1, <2>2 DEF Quiet, Blocked, Dispatched, ipc_vars, life_vars, irq_vars
  <2> QED BY <2>2, <2>3, <2>4, QuietLemma
<1> QED BY <1>3, <1>4 DEF sys_yield

----------------------------------------------------------------------------
(* The last process is gone: the kernel leaves user mode for good. *)
LEMMA FinishLemma ==
  ASSUME NEW st \in StateTable, NEW ctx \in ContextTable, NEW f \in TrapFrame,
         NEW last \in PIDs \cup {0},
         ~AnyAlive(st),
         state' = st, context' = ctx, frame' = f, CURRENT_PID' = last,
         satp' = 0, mode' = "post_process_exit"
  PROVE  SchedTypeOK' /\ SchedInv' /\ Dispatched(st)
  BY DEF SchedTypeOK, SchedInv, Dispatched, RunningIsCurrent, AnyAlive,
         IdleOnlyWhenBlocked, NoSchedulerPanic, StateTable, ContextTable,
         ProcessState, Mode, Panics

(***************************************************************************)
(* The end of a process.  WaitsForLiveChild makes the waiter unique, so    *)
(* waking the first one leaves nobody waiting for the freed slot;          *)
(* AcksItsOwnIrq says no other process has the released IRQ as irq_num.    *)
(***************************************************************************)
LEMMA TerminateLemma ==
  ASSUME IInv, mode = "user", NEW f \in TrapFrame, NEW code \in Word,
         NEW last \in PIDs \cup {0}, terminate(f, code, last),
         UNCHANGED plic_vars
  PROVE  IInv'
<1> DEFINE c == CURRENT_PID
           irq == irq_num[c]
           st == [p \in PIDs |-> IF p = c THEN "Free"
                                 ELSE IF Waiter(c, p) THEN "Ready" ELSE state[p]]
           ctx == [p \in PIDs |-> IF p # c /\ Waiter(c, p)
                                  THEN [context[p] EXCEPT !.a0 = code] ELSE context[p]]
<1>1. /\ c \in PIDs /\ state[c] = "Running"
      /\ \A p \in PIDs : p # c => state[p] # "Running"
      /\ state \in StateTable /\ context \in ContextTable
  BY EntryLemma
<1>2. /\ exit_code' = [exit_code EXCEPT ![c] = code]
      /\ irq_num' = [irq_num EXCEPT ![c] = 0]
      /\ IRQ_OWNER' = IF irq # 0 /\ is_valid_irq(irq)
                      THEN [IRQ_OWNER EXCEPT ![irq] = 0] ELSE IRQ_OWNER
      /\ UNCHANGED <<ipc_vars, parent, irq_pending, heap>>
  BY DEF terminate, Released
<1>3. st \in StateTable /\ ctx \in ContextTable
  BY <1>1 DEF StateTable, ContextTable, ProcessState, TrapFrame
<1>4. /\ st[c] = "Free"
      /\ \A p \in PIDs : p # c => \/ st[p] = state[p] /\ ~Waiter(c, p)
                                  \/ st[p] = "Ready" /\ Waiter(c, p)
  BY <1>1
<1>5. \/ \E next \in PIDs : LowestReady(st, next) /\ switch_to(st, ctx, next)
      \/ ~AnyReady(st) /\ AnyAlive(st) /\ enter_idle(st, ctx, f)
      \/ /\ ~AnyAlive(st)
         /\ state' = st /\ context' = ctx /\ frame' = f /\ CURRENT_PID' = last
         /\ satp' = 0 /\ mode' = "post_process_exit"
  BY DEF terminate
<1> HIDE DEF st, ctx
<1>6. \A p \in PIDs : st[p] # "Running"
  BY <1>1, <1>4
<1>7. SchedTypeOK' /\ SchedInv' /\ Dispatched(st)
  <2>1. ASSUME NEW next \in PIDs, LowestReady(st, next), switch_to(st, ctx, next)
        PROVE  SchedTypeOK' /\ SchedInv' /\ Dispatched(st)
    BY <1>3, <1>6, <2>1, ResumeLemma DEF LowestReady, switch_to, ContextTable
  <2>2. CASE ~AnyReady(st) /\ AnyAlive(st) /\ enter_idle(st, ctx, f)
    BY <1>3, <1>6, <2>2, IdleLemma
  <2>3. CASE /\ ~AnyAlive(st)
             /\ state' = st /\ context' = ctx /\ frame' = f /\ CURRENT_PID' = last
             /\ satp' = 0 /\ mode' = "post_process_exit"
    BY <1>3, <2>3, FinishLemma
  <2> QED BY <1>5, <2>1, <2>2, <2>3
<1>8. 0 \in IRQs /\ irq \in IRQs
  BY <1>1, ProcessAssumption DEF IInv, TypeOK, ProcTypeOK, IRQs
<1>9. TypeOK'
  BY <1>1, <1>2, <1>7, <1>8 DEF IInv, TypeOK, ProcTypeOK, ipc_vars, plic_vars
<1>10. NoMissedRendezvous'
  BY <1>1, <1>2, <1>4, <1>7
  DEF NoMissedRendezvous, Offers, Dispatched, ipc_vars, IInv
<1>11. WaitsForLiveChild'
  <2> SUFFICES ASSUME NEW p \in PIDs, state'[p] = "BlockedWait"
               PROVE  /\ ipc_target'[p] \in PIDs
                      /\ state'[ipc_target'[p]] # "Free"
                      /\ parent'[ipc_target'[p]] = p
    BY DEF WaitsForLiveChild
  <2>1. p # c /\ state[p] = "BlockedWait" /\ ~Waiter(c, p)
    BY <1>1, <1>4, <1>7 DEF Dispatched
  <2>2. /\ ipc_target[p] \in PIDs
        /\ state[ipc_target[p]] # "Free"
        /\ parent[ipc_target[p]] = p
    BY <2>1 DEF WaitsForLiveChild, IInv
  <2>3. ipc_target[p] # c
    <3>1. ASSUME ipc_target[p] = c
          PROVE  \A j \in PIDs : state[j] = "BlockedWait" /\ ipc_target[j] = c => j = p
      BY <2>2, <3>1 DEF WaitsForLiveChild, IInv
    <3> QED BY <2>1, <3>1 DEF Waiter, PIDs
  <2>4. state'[ipc_target[p]] # "Free"
    BY <1>1, <1>4, <1>7, <2>2, <2>3 DEF Dispatched
  <2> QED BY <1>2, <2>2, <2>4 DEF ipc_vars
<1>12. AcksItsOwnIrq'
  <2> SUFFICES ASSUME NEW p \in PIDs, irq_num'[p] # 0
               PROVE  IRQ_OWNER'[irq_num'[p]] = p /\ state'[p] # "Free"
    BY DEF AcksItsOwnIrq
  <2>1. p # c /\ irq_num'[p] = irq_num[p]
    BY <1>1, <1>2 DEF IInv, TypeOK, ProcTypeOK
  <2>2. IRQ_OWNER[irq_num[p]] = p /\ state[p] # "Free" /\ irq_num[p] \in IRQs
    BY <2>1 DEF IInv, AcksItsOwnIrq, TypeOK, ProcTypeOK
  <2>3. irq # 0 => IRQ_OWNER[irq] = c
    BY <1>1 DEF IInv, AcksItsOwnIrq
  <2>4. IRQ_OWNER'[irq_num[p]] = p
    BY <1>2, <1>8, <2>1, <2>2, <2>3 DEF IInv, TypeOK, ProcTypeOK
  <2>5. state'[p] # "Free"
    BY <1>4, <1>7, <2>1, <2>2 DEF Dispatched
  <2> QED BY <2>1, <2>4, <2>5
<1> QED BY <1>7, <1>9, <1>10, <1>11, <1>12 DEF IInv, SchedInv

(* sys_spawn: the new process takes a Free slot, which nobody waits for. *)
LEMMA SpawnLemma ==
  ASSUME IInv, mode = "user", NEW f \in TrapFrame, NEW image \in ElfImage,
         sys_spawn(f, image), UNCHANGED plic_vars
  PROVE  IInv'
<1> DEFINE c == CURRENT_PID
<1>1. /\ c \in PIDs /\ state[c] = "Running" /\ ERR \in Word /\ 0 \in Word
      /\ state \in StateTable /\ context \in ContextTable
  BY EntryLemma
<1>2. CASE return(f, ERR) /\ UNCHANGED <<ipc_vars, life_vars, irq_vars, heap>>
  BY <1>1, <1>2, PlainReturnLemma DEF plic_vars
<1>3. ASSUME NEW which \in {"panic_fault", "panic_oom"}, panic(state, context, which),
             UNCHANGED <<ipc_vars, life_vars, irq_vars, heap>>
      PROVE  IInv'
  <2>1. TypeOK'
    BY <1>3 DEF panic, IInv, TypeOK, ProcTypeOK, SchedTypeOK, Mode, Panics,
                ipc_vars, life_vars, irq_vars, plic_vars
  <2>2. SchedInv'
    BY <1>3 DEF panic, SchedInv, RunningIsCurrent, IdleOnlyWhenBlocked, NoSchedulerPanic
  <2>3. Quiet
    BY <1>3 DEF panic, Quiet, ipc_vars, life_vars, irq_vars
  <2> QED BY <2>1, <2>2, <2>3, QuietLemma
<1>4. ASSUME NEW new \in PIDs, FreeSlot(new), create(f, new), heap > 0, heap' = heap - 1
      PROVE  IInv'
  <2>1. new # c /\ state[new] = "Free" /\ new \in Word
    BY <1>1, <1>4, WordLemma DEF FreeSlot
  <2>2. zero \in TrapFrame /\ 0 \in IRQs /\ [f EXCEPT !.a0 = new] \in TrapFrame
    BY <1>1, <2>1, ProcessAssumption DEF zero, TrapFrame, IRQs
  <2>3. state' \in StateTable /\ context' \in ContextTable /\ frame' \in TrapFrame
    BY <1>1, <1>4, <2>2 DEF create, StateTable, ContextTable, ProcessState
  <2>4. /\ state'[new] = "Ready" /\ \A p \in PIDs : p # new => state'[p] = state[p]
        /\ \A p \in PIDs : p # new => /\ ipc_target'[p] = ipc_target[p]
                                      /\ parent'[p] = parent[p]
                                      /\ irq_num'[p] = irq_num[p]
                                      /\ irq_pending'[p] = irq_pending[p]
        /\ irq_num'[new] = 0
        /\ UNCHANGED <<CURRENT_PID, satp, mode, IRQ_OWNER>>
    BY <1>1, <1>4 DEF create, StateTable, IInv, TypeOK, ProcTypeOK
  <2>5. SchedTypeOK' /\ SchedInv'
    BY <1>1, <2>1, <2>3, <2>4, ReturnLemma DEF IInv
  <2>6. TypeOK'
    BY <1>1, <1>4, <2>2, <2>5 DEF create, IInv, TypeOK, ProcTypeOK, plic_vars
  <2>7. NoMissedRendezvous'
    BY <2>1, <2>4 DEF NoMissedRendezvous, Offers, IInv
  <2>8. WaitsForLiveChild'
    BY <2>1, <2>4 DEF WaitsForLiveChild, IInv
  <2>9. AcksItsOwnIrq'
    BY <2>1, <2>4 DEF AcksItsOwnIrq, IInv
  <2> QED BY <2>5, <2>6, <2>7, <2>8, <2>9 DEF IInv, SchedInv
<1> QED BY <1>2, <1>3, <1>4 DEF sys_spawn, alloc_image

(* sys_irq_register: an unclaimed IRQ gets one owner, in both tables. *)
LEMMA RegisterLemma ==
  ASSUME IInv, mode = "user", NEW f \in TrapFrame, sys_irq_register(f), UNCHANGED heap
  PROVE  IInv'
<1> DEFINE c == CURRENT_PID
           irq == as_u32(f.a0)
           free == is_valid_irq(irq) /\ IRQ_OWNER[irq] = 0
<1>1. /\ c \in PIDs /\ state[c] = "Running" /\ ERR \in Word /\ 0 \in Word
      /\ state \in StateTable /\ context \in ContextTable /\ f.a0 \in Word
  BY EntryLemma
<1>2. UNCHANGED <<ipc_vars, life_vars, irq_pending, plic_pending, plic_claimed>>
  BY DEF sys_irq_register
<1>3. CASE ~free /\ return(f, ERR) /\ UNCHANGED <<irq_num, IRQ_OWNER, plic_enabled>>
  BY <1>1, <1>2, <1>3, PlainReturnLemma DEF irq_vars
<1>4. CASE /\ free
           /\ IRQ_OWNER' = [IRQ_OWNER EXCEPT ![irq] = c]
           /\ irq_num' = [irq_num EXCEPT ![c] = irq]
           /\ plic_enabled' = plic_enabled \cup {irq}
           /\ return(f, 0)
  <2>1. irq \in IRQs
    BY <1>1, <1>4, ProcessAssumption DEF as_u32, is_valid_irq, IRQs, Word
  <2> HIDE DEF irq
  <2>2. frame' \in TrapFrame
    BY <1>1, <1>4 DEF return, TrapFrame
  <2>3. SchedTypeOK' /\ SchedInv'
    BY <1>1, <1>4, <2>2, ReturnLemma DEF return, IInv
  <2>4. TypeOK'
    BY <1>1, <1>2, <1>4, <2>1, <2>3 DEF IInv, TypeOK, ProcTypeOK, ipc_vars, life_vars
  <2>5. NoMissedRendezvous'
    BY <1>2, <1>4 DEF return, NoMissedRendezvous, Offers, ipc_vars, IInv
  <2>6. WaitsForLiveChild'
    BY <1>2, <1>4 DEF return, WaitsForLiveChild, ipc_vars, life_vars, IInv
  <2>7. AcksItsOwnIrq'
    <3>1. /\ irq_num'[c] = irq /\ \A p \in PIDs : p # c => irq_num'[p] = irq_num[p]
          /\ IRQ_OWNER'[irq] = c /\ \A i \in IRQs : i # irq => IRQ_OWNER'[i] = IRQ_OWNER[i]
          /\ \A p \in PIDs : irq_num[p] \in IRQs
      BY <1>1, <1>4, <2>1 DEF IInv, TypeOK, ProcTypeOK
    <3>2. \A p \in PIDs : irq_num[p] # 0 => irq_num[p] # irq
      BY <1>4, ProcessAssumption DEF IInv, AcksItsOwnIrq, PIDs
    <3> QED BY <1>1, <1>4, <3>1, <3>2 DEF return, AcksItsOwnIrq, IInv
  <2> QED BY <2>3, <2>4, <2>5, <2>6, <2>7 DEF IInv, SchedInv
<1> QED BY <1>2, <1>3, <1>4 DEF sys_irq_register, Unclaimed, enable_irq

(* sys_irq_ack only completes an IRQ at the PLIC. *)
LEMMA AckLemma ==
  ASSUME IInv, mode = "user", NEW f \in TrapFrame, sys_irq_ack(f), UNCHANGED heap
  PROVE  IInv'
<1>1. ERR \in Word /\ 0 \in Word
  BY EntryLemma
<1> QED BY <1>1, PlainReturnLemma DEF sys_irq_ack, complete

----------------------------------------------------------------------------
(* Interrupts: the processes st, ctx are switched from user mode ... *)
LEMMA PreemptLemma ==
  ASSUME IInv, mode = "user", preempt(state, context),
         UNCHANGED <<ipc_vars, life_vars, irq_vars, heap, plic_vars>>
  PROVE  IInv'
<1> DEFINE c == CURRENT_PID
           st == [state EXCEPT ![c] = "Ready"]
           saved == [context EXCEPT ![c] = frame]
<1>1. /\ c \in PIDs /\ state[c] = "Running"
      /\ \A p \in PIDs : p # c => state[p] # "Running"
      /\ state \in StateTable /\ context \in ContextTable /\ frame \in TrapFrame
  BY CallerLemma DEF IInv, TypeOK, ProcTypeOK, SchedTypeOK
<1>2. CASE state' = state /\ context' = context /\ UNCHANGED <<CURRENT_PID, frame, satp, mode>>
  <2>1. SchedTypeOK' /\ SchedInv'
    BY <1>1, <1>2, ReturnLemma DEF IInv
  <2>2. TypeOK'
    BY <2>1 DEF IInv, TypeOK, ProcTypeOK, ipc_vars, life_vars, irq_vars, plic_vars
  <2>3. Quiet
    BY <1>2 DEF Quiet, ipc_vars, life_vars, irq_vars
  <2> QED BY <2>1, <2>2, <2>3, QuietLemma
<1>3. ASSUME NEW next \in PIDs, NextReady(state, c, MAX_PROCS - 2, next),
             switch_to(st, saved, next)
      PROVE  IInv'
  <2>1. /\ st \in StateTable /\ saved \in ContextTable /\ st[next] = "Ready"
        /\ st[c] = "Ready" /\ \A p \in PIDs : p # c => st[p] = state[p]
        /\ saved[next] \in TrapFrame
    BY <1>1, <1>3 DEF StateTable, ContextTable, ProcessState, NextReady
  <2> HIDE DEF st, saved
  <2>2. SchedTypeOK' /\ SchedInv' /\ Dispatched(st)
    BY <1>1, <1>3, <2>1, ResumeLemma DEF switch_to
  <2>3. TypeOK'
    BY <2>2 DEF IInv, TypeOK, ProcTypeOK, ipc_vars, life_vars, irq_vars, plic_vars
  <2>4. Quiet
    BY <1>1, <2>1, <2>2 DEF Quiet, Blocked, Dispatched, ipc_vars, life_vars, irq_vars
  <2> QED BY <2>2, <2>3, <2>4, QuietLemma
<1> QED BY <1>2, <1>3 DEF preempt

(* ... or from one of the S-mode loops, where at most `owner` was woken. *)
LEMMA FromIdleLemma ==
  ASSUME IInv, mode \in {"kernel_idle", "post_process_exit"},
         NEW st \in StateTable, NEW ctx \in ContextTable,
         \A p \in PIDs : \/ st[p] = state[p]
                         \/ state[p] = "BlockedRecv" /\ st[p] = "Ready",
         schedule_from_idle(st, ctx)
  PROVE  SchedTypeOK' /\ SchedInv' /\ Dispatched(st)
<1>1. /\ satp = 0 /\ \A p \in PIDs : state[p] # "Running"
      /\ \A p \in PIDs : st[p] # "Running"
  BY DEF IInv, RunningIsCurrent
<1>2. ASSUME NEW next \in PIDs, LowestReady(st, next), switch_to(st, ctx, next)
      PROVE  SchedTypeOK' /\ SchedInv' /\ Dispatched(st)
  BY <1>1, <1>2, ResumeLemma DEF LowestReady, switch_to, ContextTable
<1>3. CASE /\ ~AnyReady(st) /\ state' = st /\ context' = ctx
           /\ UNCHANGED <<CURRENT_PID, frame, satp, mode>>
  <2>1. \A p \in PIDs : st[p] = state[p]
    BY <1>3 DEF AnyReady
  <2>2. SchedTypeOK'
    BY <1>3 DEF SchedTypeOK, IInv, TypeOK, ProcTypeOK, StateTable, ContextTable
  <2>3. SchedInv'
    BY <1>1, <1>3, <2>1 DEF SchedInv, RunningIsCurrent, IdleOnlyWhenBlocked,
                            NoSchedulerPanic, AnyReady, AnyAlive, IInv
  <2> QED BY <1>3, <2>2, <2>3 DEF Dispatched
<1> QED BY <1>2, <1>3 DEF schedule_from_idle

(* The timer interrupt: preempt from user mode, schedule_from_idle otherwise. *)
LEMMA TimerLemma ==
  ASSUME IInv, handle_timer
  PROVE  IInv'
<1>1. UNCHANGED <<ipc_vars, life_vars, irq_vars, heap, plic_vars>>
  BY DEF handle_timer
<1>2. CASE mode = "user" /\ preempt(state, context)
  BY <1>1, <1>2, PreemptLemma
<1>3. CASE /\ mode \in {"kernel_idle", "post_process_exit"}
           /\ schedule_from_idle(state, context)
  <2>1. state \in StateTable /\ context \in ContextTable
    BY DEF IInv, TypeOK, ProcTypeOK, SchedTypeOK, StateTable, ContextTable
  <2>2. SchedTypeOK' /\ SchedInv' /\ Dispatched(state)
    BY <1>3, <2>1, FromIdleLemma
  <2>3. TypeOK'
    BY <1>1, <2>2 DEF IInv, TypeOK, ProcTypeOK, ipc_vars, life_vars, irq_vars, plic_vars
  <2>4. Quiet
    BY <1>1, <2>2 DEF Quiet, Blocked, Dispatched, ipc_vars, life_vars, irq_vars
  <2> QED BY <2>2, <2>3, <2>4, QuietLemma
<1> QED BY <1>2, <1>3 DEF handle_timer

(***************************************************************************)
(* irq_notify(irq, owner): the table keeps its types and at most the owner *)
(* moves, out of BlockedRecv; it becomes pending only when not there.      *)
(***************************************************************************)
LEMMA NotifiedLemma ==
  ASSUME IInv, NEW irq \in IRQs, NEW owner \in PIDs
  PROVE  /\ irq_notify(irq, owner).state \in StateTable
         /\ irq_notify(irq, owner).context \in ContextTable
         /\ irq_notify(irq, owner).irq_pending \in [PIDs -> BOOLEAN]
         /\ \A p \in PIDs :
               \/ irq_notify(irq, owner).state[p] = state[p]
               \/ state[p] = "BlockedRecv" /\ irq_notify(irq, owner).state[p] = "Ready"
         /\ \A p \in PIDs :
               irq_notify(irq, owner).state[p] = "BlockedRecv" =>
                  irq_notify(irq, owner).irq_pending[p] = irq_pending[p]
<1>1. /\ state \in StateTable /\ context \in ContextTable
      /\ irq_pending \in [PIDs -> BOOLEAN] /\ irq \in Word /\ 0 \in Word
  BY WordLemma, ProcessAssumption
  DEF IInv, TypeOK, ProcTypeOK, SchedTypeOK, StateTable, ContextTable, Word
<1>2. [context EXCEPT ![owner].a0 = irq, ![owner].a1 = 0] \in ContextTable
  BY <1>1 DEF ContextTable, TrapFrame
<1>3. CASE state[owner] = "BlockedRecv"
  BY <1>1, <1>2, <1>3 DEF irq_notify, StateTable, ProcessState
<1>4. CASE state[owner] # "BlockedRecv"
  BY <1>1, <1>4 DEF irq_notify, StateTable
<1> QED BY <1>3, <1>4

(***************************************************************************)
(* An external interrupt, with an owner or without: handle_external loses  *)
(* no wake-up, in user mode or in the idle loop.                           *)
(***************************************************************************)
LEMMA ExternalLemma ==
  ASSUME IInv, External
  PROVE  IInv'
<1>1. PICK irq \in Deliverable :
        LET owner == irq_owner(irq)
            table == irq_notify(irq, owner) IN
        /\ Claims(irq)
        /\ plic_pending' = plic_pending \ {irq}
        /\ \/ /\ owner # 0
              /\ plic_claimed' = plic_claimed \cup {irq}
              /\ irq_pending' = table.irq_pending
              /\ \/ /\ mode = "user"
                    /\ state' = table.state
                    /\ context' = table.context
                    /\ UNCHANGED <<CURRENT_PID, frame, satp, mode>>
                 \/ /\ mode # "user"
                    /\ schedule_from_idle(table.state, table.context)
           \/ /\ owner = 0
              /\ UNCHANGED <<plic_claimed, irq_pending, sched_vars>>
        /\ UNCHANGED <<ipc_vars, life_vars, irq_num, IRQ_OWNER, plic_enabled>>
  BY DEF External, handle_external
<1> DEFINE owner == irq_owner(irq)
           table == irq_notify(irq, owner)
<1>2. irq \in IRQs /\ owner \in PIDs \cup {0} /\ UNCHANGED heap
  BY DEF External, Deliverable, IInv, TypeOK, ProcTypeOK, irq_owner
<1>3. CASE owner = 0
  <2>1. UNCHANGED <<plic_claimed, irq_pending, sched_vars>>
    BY <1>1, <1>3
  <2>2. TypeOK'
    BY <1>1, <1>2, <2>1
    DEF IInv, TypeOK, ProcTypeOK, SchedTypeOK, sched_vars, ipc_vars, life_vars
  <2>3. SchedInv'
    BY <2>1 DEF SchedInv, IInv, RunningIsCurrent, IdleOnlyWhenBlocked,
                NoSchedulerPanic, AnyReady, AnyAlive, sched_vars
  <2>4. Quiet
    BY <1>1, <2>1 DEF Quiet, sched_vars, ipc_vars, life_vars
  <2> QED BY <2>2, <2>3, <2>4, QuietLemma
<1>4. CASE owner # 0
  <2>1. /\ table.state \in StateTable /\ table.context \in ContextTable
        /\ table.irq_pending \in [PIDs -> BOOLEAN]
        /\ \A p \in PIDs : \/ table.state[p] = state[p]
                           \/ state[p] = "BlockedRecv" /\ table.state[p] = "Ready"
        /\ \A p \in PIDs : table.state[p] = "BlockedRecv" =>
                              table.irq_pending[p] = irq_pending[p]
    <3> HIDE DEF owner
    <3> QED BY <1>2, <1>4, NotifiedLemma
  <2>2. /\ plic_claimed' = plic_claimed \cup {irq}
        /\ irq_pending' = table.irq_pending
        /\ \/ /\ mode = "user" /\ state' = table.state /\ context' = table.context
              /\ UNCHANGED <<CURRENT_PID, frame, satp, mode>>
           \/ mode # "user" /\ schedule_from_idle(table.state, table.context)
    BY <1>1, <1>4
  <2> HIDE DEF owner, table
  <2>3. SchedTypeOK' /\ SchedInv' /\ Dispatched(table.state)
    <3>1. CASE /\ mode = "user" /\ state' = table.state /\ context' = table.context
               /\ UNCHANGED <<CURRENT_PID, frame, satp, mode>>
      <4>1. /\ CURRENT_PID \in PIDs /\ state[CURRENT_PID] = "Running" /\ frame \in TrapFrame
        BY <3>1, CallerLemma DEF IInv, TypeOK, ProcTypeOK, SchedTypeOK
      <4>2. SchedTypeOK' /\ SchedInv'
        BY <2>1, <3>1, <4>1, ReturnLemma DEF IInv
      <4> QED BY <3>1, <4>2 DEF Dispatched
    <3>2. CASE mode # "user" /\ schedule_from_idle(table.state, table.context)
      <4>1. mode \in {"kernel_idle", "post_process_exit"}
        BY <3>2 DEF External, IInv, TypeOK, ProcTypeOK, SchedTypeOK, Mode
      <4> QED BY <2>1, <3>2, <4>1, FromIdleLemma
    <3> QED BY <2>2, <3>1, <3>2
  <2>4. TypeOK'
    BY <1>1, <1>2, <2>1, <2>2, <2>3 DEF IInv, TypeOK, ProcTypeOK, ipc_vars, life_vars
  <2>5. Quiet
    BY <1>1, <2>1, <2>2, <2>3 DEF Quiet, Blocked, Dispatched, ipc_vars, life_vars
  <2> QED BY <2>3, <2>4, <2>5, QuietLemma
<1> QED BY <1>3, <1>4

(* A step that changes nothing but the pending set of the PLIC. *)
LEMMA DeviceLemma ==
  ASSUME IInv, UNCHANGED <<proc_vars, heap, plic_enabled, plic_claimed>>,
         plic_pending' \subseteq IRQs
  PROVE  IInv'
<1> USE DEF proc_vars, sched_vars, ipc_vars, life_vars, irq_vars
<1>1. TypeOK'
  BY DEF IInv, TypeOK, ProcTypeOK, SchedTypeOK
<1>2. SchedInv'
  BY DEF SchedInv, IInv, RunningIsCurrent, IdleOnlyWhenBlocked,
         NoSchedulerPanic, AnyReady, AnyAlive
<1>3. Quiet
  BY DEF Quiet
<1> QED BY <1>1, <1>2, <1>3, QuietLemma

----------------------------------------------------------------------------
(* The state launch() leaves, at boot and after every reboot. *)
LEMMA InitLemma ==
  ASSUME Init
  PROVE  IInv
<1> USE DEF Init, launch, plic_init, BootState, All, Unowned
<1>1. /\ 0 \in Word /\ 0 \in IRQs /\ zero \in TrapFrame
      /\ 1 \in PIDs /\ 1 \in BootProcs
  BY ProcessAssumption, LifecycleAssumption DEF Word, IRQs, zero, TrapFrame, PIDs
<1>2. TypeOK
  BY <1>1, LifecycleAssumption
  DEF TypeOK, ProcTypeOK, SchedTypeOK, ProcessState, Mode
<1>3. RunningIsCurrent /\ IdleOnlyWhenBlocked /\ NoSchedulerPanic
  BY <1>1 DEF RunningIsCurrent, IdleOnlyWhenBlocked, NoSchedulerPanic
<1>4. NoMissedRendezvous /\ WaitsForLiveChild /\ AcksItsOwnIrq
  BY DEF NoMissedRendezvous, WaitsForLiveChild, AcksItsOwnIrq
<1> QED BY <1>2, <1>3, <1>4 DEF IInv

(* A reset takes the machine back to the state launch() leaves. *)
LEMMA RebootLemma ==
  ASSUME Reboot
  PROVE  IInv'
<1>1. Init'
  BY DEF Reboot, sys_reboot, sbi_system_reset, plic_reset, Init, launch, plic_init
<1> QED BY <1>1, InitLemma, PTL

(* The registers of the workload are machine words. *)
LEMMA ArgsLemma ==
  ASSUME NEW A \in SUBSET Word, NEW B \in SUBSET Word, NEW C \in SUBSET Word
  PROVE  Args(A, B, C) \subseteq TrapFrame
  BY DEF Args, TrapFrame

(* Every step of the kernel preserves the inductive invariant. *)
LEMMA NextLemma ==
  ASSUME IInv, [Next]_vars
  PROVE  IInv'
<1>1. /\ {0} \subseteq Word /\ zero \in TrapFrame /\ ERR \in Word /\ 0 \in Word
      /\ PidArgs \subseteq Word /\ Messages \subseteq Word /\ Extras \subseteq Word
      /\ ExitCodes \subseteq Word /\ IrqArgs \subseteq Word
      /\ \A c \in FaultCodes : 128 + c \in Word
      /\ Images \subseteq ElfImage
  BY KernelAssumption, ProcessAssumption DEF Word, zero, TrapFrame, ERR
<1>2. CASE Putchar
  <2>1. PICK f \in Args(Messages, {0}, {0}) : sys_putchar(f)
    BY <1>2 DEF Putchar
  <2>2. f \in TrapFrame
    BY <1>1, ArgsLemma
  <2> QED BY <1>1, <1>2, <2>1, <2>2, PlainReturnLemma
          DEF Putchar, Ecall, sys_putchar, plic_vars
<1>3. CASE Exit
  <2>1. PICK f \in Args(ExitCodes, {0}, {0}) : sys_exit(f)
    BY <1>3 DEF Exit
  <2>2. f \in TrapFrame /\ f.a0 \in Word
    BY <1>1, ArgsLemma DEF TrapFrame
  <2>3. CURRENT_PID \in PIDs \cup {0}
    BY DEF IInv, TypeOK, ProcTypeOK, SchedTypeOK
  <2> QED BY <1>3, <2>1, <2>2, <2>3, TerminateLemma DEF Exit, Ecall, sys_exit
<1>4. CASE Send
  <2>1. PICK f \in Args(PidArgs, Messages, {0}) : sys_send(f)
    BY <1>4 DEF Send
  <2>2. f \in TrapFrame
    BY <1>1, ArgsLemma
  <2> QED BY <1>4, <2>1, <2>2, SendLemma DEF Send, Ecall
<1>5. CASE Receive
  <2>1. PICK f \in Args(PidArgs, {0}, {0}) : sys_receive(f)
    BY <1>5 DEF Receive
  <2>2. f \in TrapFrame
    BY <1>1, ArgsLemma
  <2> QED BY <1>5, <2>1, <2>2, ReceiveLemma DEF Receive, Ecall
<1>6. CASE Call
  <2>1. PICK f \in Args(PidArgs, Messages, Extras) : sys_call(f)
    BY <1>6 DEF Call
  <2>2. f \in TrapFrame
    BY <1>1, ArgsLemma
  <2> QED BY <1>6, <2>1, <2>2, CallLemma DEF Call, Ecall
<1>7. CASE Reply
  <2>1. PICK f \in Args(PidArgs, Messages, {0}) : sys_reply(f)
    BY <1>7 DEF Reply
  <2>2. f \in TrapFrame
    BY <1>1, ArgsLemma
  <2> QED BY <1>7, <2>1, <2>2, ReplyLemma DEF Reply, Ecall
<1>8. CASE Spawn
  BY <1>1, <1>8, SpawnLemma DEF Spawn, Ecall
<1>9. CASE Wait
  <2>1. PICK f \in Args(PidArgs, {0}, {0}) : sys_wait(f)
    BY <1>9 DEF Wait
  <2>2. f \in TrapFrame
    BY <1>1, ArgsLemma
  <2> QED BY <1>9, <2>1, <2>2, WaitLemma DEF Wait, Ecall
<1>10. CASE Getpid
  <2>1. CURRENT_PID \in Word
    BY <1>10, <1>1, EntryLemma DEF Getpid, Ecall
  <2> QED BY <1>1, <1>10, <2>1, PlainReturnLemma
          DEF Getpid, Ecall, sys_getpid, plic_vars
<1>11. CASE Yield
  BY <1>1, <1>11, YieldLemma DEF Yield, Ecall
<1>12. CASE IrqRegister
  <2>1. PICK f \in Args(IrqArgs, {0}, {0}) : sys_irq_register(f)
    BY <1>12 DEF IrqRegister
  <2>2. f \in TrapFrame
    BY <1>1, ArgsLemma
  <2> QED BY <1>12, <2>1, <2>2, RegisterLemma DEF IrqRegister, Ecall
<1>13. CASE IrqAck
  BY <1>1, <1>13, AckLemma DEF IrqAck, Ecall
<1>14. CASE Reboot
  BY <1>14, RebootLemma
<1>15. CASE Unknown
  <2>1. PICK f \in Args(PidArgs, {0}, {0}) : sys_unknown(f)
    BY <1>15 DEF Unknown
  <2>2. f \in TrapFrame
    BY <1>1, ArgsLemma
  <2> QED BY <1>1, <1>15, <2>1, <2>2, PlainReturnLemma
          DEF Unknown, Ecall, sys_unknown, plic_vars
<1>16. CASE Fault
  <2>1. PICK code \in FaultCodes : kill_current(frame, 128 + code)
    BY <1>16 DEF Fault
  <2>2. CURRENT_PID \in PIDs /\ CURRENT_PID # 0 /\ frame \in TrapFrame
    BY <1>16, CallerLemma DEF Fault, IInv, TypeOK, ProcTypeOK, SchedTypeOK, PIDs
  <2>3. 128 + code \in Word
    BY <1>1
  <2>4. terminate(frame, 128 + code, 0)
    BY <2>1, <2>2 DEF kill_current
  <2> QED BY <1>16, <2>2, <2>3, <2>4, TerminateLemma DEF Fault
<1>17. CASE handle_timer
  BY <1>17, TimerLemma
<1>18. CASE External
  BY <1>18, ExternalLemma
<1>19. CASE Device
  <2>1. PICK irq \in Sources : raise(irq)
    BY <1>19 DEF Device
  <2>2. plic_pending' \subseteq IRQs
    BY <2>1, IrqAssumption DEF raise, IInv, TypeOK
  <2> QED BY <1>19, <2>1, <2>2, DeviceLemma DEF Device, raise
<1>20. CASE UNCHANGED vars
  <2>1. plic_pending' \subseteq IRQs
    BY <1>20 DEF vars, plic_vars, IInv, TypeOK
  <2> QED BY <1>20, <2>1, DeviceLemma DEF vars, plic_vars
<1> QED BY <1>2, <1>3, <1>4, <1>5, <1>6, <1>7, <1>8, <1>9, <1>10, <1>11, <1>12,
           <1>13, <1>14, <1>15, <1>16, <1>17, <1>18, <1>19, <1>20
        DEF Next, Halted

(***************************************************************************)
(* The kernel keeps its inductive invariant, whatever user programs,       *)
(* devices and the timer do.                                               *)
(***************************************************************************)
THEOREM KernelInvariant == Spec => []IInv
<1>1. Init => IInv
  BY InitLemma
<1>2. IInv /\ [Next]_vars => IInv'
  BY NextLemma
<1> QED BY <1>1, <1>2, PTL DEF Spec

(***************************************************************************)
(* Type correctness: no handler indexes PROCS or IRQ_OWNER out of bounds,  *)
(* and none leaves a value in a register or a column that does not fit it. *)
(***************************************************************************)
THEOREM TypeCorrect == Spec => []TypeOK
<1>1. IInv => TypeOK
  BY DEF IInv
<1> QED BY <1>1, KernelInvariant, PTL

(***************************************************************************)
(* sched.rs: user code runs as CURRENT_PID, the only Running process, with *)
(* its own page table in satp.                                             *)
(***************************************************************************)
THEOREM OneRunningProcess == Spec => []RunningIsCurrent
<1>1. IInv => RunningIsCurrent
  BY DEF IInv
<1> QED BY <1>1, KernelInvariant, PTL

(***************************************************************************)
(* kernel_idle is entered, and stays entered, only while no process is     *)
(* Ready; post_process_exit only when no process is left.                  *)
(***************************************************************************)
THEOREM NoLostWakeUp == Spec => []IdleOnlyWhenBlocked
<1>1. IInv => IdleOnlyWhenBlocked
  BY DEF IInv
<1> QED BY <1>1, KernelInvariant, PTL

(***************************************************************************)
(* The panics of schedule() and kill_current() cannot be reached.          *)
(***************************************************************************)
THEOREM SchedulerNeverPanics == Spec => []NoSchedulerPanic
<1>1. IInv => NoSchedulerPanic
  BY DEF IInv
<1> QED BY <1>1, KernelInvariant, PTL

(***************************************************************************)
(* ipc.rs: a sender or caller and a receiver that could meet are never     *)
(* both blocked, and an IRQ is never pending behind a receiver that would  *)
(* take it.                                                                *)
(***************************************************************************)
THEOREM RendezvousNotMissed == Spec => []NoMissedRendezvous
<1>1. IInv => NoMissedRendezvous
  BY DEF IInv
<1> QED BY <1>1, KernelInvariant, PTL

(***************************************************************************)
(* lifecycle.rs: a process in BlockedWait waits for a live child of its    *)
(* own, so the wake-up of sys_exit or kill_current is still to come.       *)
(***************************************************************************)
THEOREM ExitWakesParent == Spec => []WaitsForLiveChild
<1>1. IInv => WaitsForLiveChild
  BY DEF IInv
<1> QED BY <1>1, KernelInvariant, PTL

(***************************************************************************)
(* syscall.rs: the IRQ that SYS_IRQ_ACK completes belongs to its caller.   *)
(***************************************************************************)
THEOREM AckIsOwners == Spec => []AcksItsOwnIrq
<1>1. IInv => AcksItsOwnIrq
  BY DEF IInv
<1> QED BY <1>1, KernelInvariant, PTL

----------------------------------------------------------------------------
(***************************************************************************)
(* What one step of the kernel may do to a process.                        *)
(*                                                                         *)
(* Dispatching is invisible to processes.  So a handler is summarised by   *)
(* the states st and the registers rg it leaves to the processes, whoever  *)
(* the scheduler then puts on the hart.                                    *)
(***************************************************************************)

(* Equal but for who of the processes that can run is running. *)
Same(s, t) == s = t \/ {s, t} \subseteq {"Ready", "Running"}

(* Every process is, up to dispatching, in state st[p] with registers rg[p]. *)
Outcome(st, rg) ==
  \A p \in PIDs : Same(st[p], state'[p]) /\ registers(p)' = rg[p]

(* The registers of all processes. *)
Registers == [p \in PIDs |-> registers(p)]

----------------------------------------------------------------------------
(* Switching to a Ready process, of a table in which nobody is Running. *)
LEMMA SwitchOutcome ==
  ASSUME NEW st \in StateTable, NEW ctx \in ContextTable, NEW next \in PIDs,
         st[next] = "Ready", \A p \in PIDs : st[p] # "Running",
         switch_to(st, ctx, next)
  PROVE  Outcome(st, ctx)
  BY DEF switch_to, resume, Outcome, Same, registers, StateTable

(* Leaving such a table as it is. *)
LEMMA StayOutcome ==
  ASSUME NEW st, NEW ctx, \A p \in PIDs : st[p] # "Running",
         state' = st, context' = ctx
  PROVE  Outcome(st, ctx)
  BY DEF Outcome, Same, registers

(* schedule() saves the registers of the process that blocked, no more. *)
LEMMA ScheduleOutcome ==
  ASSUME NEW st \in StateTable, NEW ctx \in ContextTable, NEW f \in TrapFrame,
         NEW b \in PIDs, \A p \in PIDs : st[p] # "Running",
         schedule(st, ctx, f, b)
  PROVE  Outcome(st, [ctx EXCEPT ![b] = f])
<1> DEFINE saved == [ctx EXCEPT ![b] = f]
<1>1. saved \in ContextTable
  BY DEF ContextTable
<1>2. \/ \E next \in PIDs :
            NextReady(st, b, MAX_PROCS - 1, next) /\ switch_to(st, saved, next)
      \/ state' = st /\ context' = saved
  BY DEF schedule, enter_idle, panic
<1> HIDE DEF saved
<1>3. Outcome(st, saved)
  BY <1>1, <1>2, SwitchOutcome, StayOutcome DEF NextReady
<1> QED BY <1>3 DEF saved

(* schedule_from_idle() changes no register. *)
LEMMA FromIdleOutcome ==
  ASSUME NEW st \in StateTable, NEW ctx \in ContextTable,
         \A p \in PIDs : st[p] # "Running", schedule_from_idle(st, ctx)
  PROVE  Outcome(st, ctx)
  BY SwitchOutcome, StayOutcome DEF schedule_from_idle, LowestReady

(* A handler that goes back to its caller, with frame' in its registers. *)
LEMMA ReturnOutcome ==
  ASSUME IInv, mode = "user", NEW st \in StateTable, NEW ctx \in ContextTable,
         st[CURRENT_PID] = "Running",
         \A p \in PIDs : p # CURRENT_PID => st[p] # "Running",
         state' = st, context' = ctx
  PROVE  Outcome(st, [ctx EXCEPT ![CURRENT_PID] = frame'])
  BY CallerLemma DEF Outcome, Same, registers, ContextTable, IInv

(* A handler that only writes a0. *)
LEMMA PlainOutcome ==
  ASSUME IInv, mode = "user", NEW f, NEW v, return(f, v)
  PROVE  Outcome(state, [context EXCEPT ![CURRENT_PID] = [f EXCEPT !.a0 = v]])
  BY CallerLemma, ReturnOutcome DEF return, IInv

(* A handler that wakes t with registers r and goes back to its caller. *)
LEMMA WakeOutcome ==
  ASSUME IInv, mode = "user", NEW t \in PIDs \ {CURRENT_PID}, NEW r \in TrapFrame,
         state' = [state EXCEPT ![t] = "Ready"],
         context' = [context EXCEPT ![t] = r]
  PROVE  Outcome([state EXCEPT ![t] = "Ready"],
                 [context EXCEPT ![t] = r, ![CURRENT_PID] = frame'])
<1> DEFINE st == [state EXCEPT ![t] = "Ready"]
           ctx == [context EXCEPT ![t] = r]
<1>1. st \in StateTable /\ ctx \in ContextTable
  BY CallerLemma DEF IInv, StateTable, ContextTable, ProcessState
<1>2. /\ st[CURRENT_PID] = "Running"
      /\ \A p \in PIDs : p # CURRENT_PID => st[p] # "Running"
  BY CallerLemma DEF IInv, StateTable
<1>3. Outcome(st, [ctx EXCEPT ![CURRENT_PID] = frame'])
  BY <1>1, <1>2, ReturnOutcome
<1> QED BY <1>3

(* A handler that blocks its caller in state s and schedules. *)
LEMMA BlockOutcome ==
  ASSUME IInv, mode = "user", NEW f \in TrapFrame,
         NEW s \in ProcessState, s # "Running",
         schedule([state EXCEPT ![CURRENT_PID] = s], context, f, CURRENT_PID)
  PROVE  Outcome([state EXCEPT ![CURRENT_PID] = s], [context EXCEPT ![CURRENT_PID] = f])
<1> DEFINE st == [state EXCEPT ![CURRENT_PID] = s]
<1>1. /\ CURRENT_PID \in PIDs /\ context \in ContextTable
      /\ st \in StateTable /\ \A p \in PIDs : st[p] # "Running"
  BY CallerLemma DEF IInv, StateTable
<1> HIDE DEF st
<1>2. schedule(st, context, f, CURRENT_PID)
  BY DEF st
<1>3. Outcome(st, [context EXCEPT ![CURRENT_PID] = f])
  BY <1>1, <1>2, ScheduleOutcome
<1> QED BY <1>3 DEF st

----------------------------------------------------------------------------
(* The outcomes of the system calls.  The caller c trapped with registers f. *)

(* sys_send: an error, a message in the registers of t, or c blocked. *)
LEMMA SendOutcome ==
  ASSUME IInv, mode = "user", NEW f \in TrapFrame, sys_send(f)
  PROVE  LET c == CURRENT_PID
             t == f.a0 IN
         /\ \/ /\ Outcome(state, [context EXCEPT ![c] = [f EXCEPT !.a0 = ERR]])
               /\ UNCHANGED ipc_vars
            \/ /\ t \in PIDs \ {c} /\ Accepts(t, c)
               /\ Outcome([state EXCEPT ![t] = "Ready"],
                          [context EXCEPT ![t] = [context[t] EXCEPT !.a0 = f.a1, !.a1 = c],
                                          ![c] = [f EXCEPT !.a0 = 0]])
               /\ UNCHANGED ipc_vars
            \/ /\ t \in PIDs \ {c} /\ ~Accepts(t, c)
               /\ Outcome([state EXCEPT ![c] = "BlockedSend"], [context EXCEPT ![c] = f])
               /\ ipc_target' = [ipc_target EXCEPT ![c] = t]
               /\ ipc_value' = [ipc_value EXCEPT ![c] = f.a1]
         /\ UNCHANGED <<life_vars, irq_vars>>
<1> DEFINE c == CURRENT_PID
           t == f.a0
<1>1. /\ c \in PIDs /\ c \in Word /\ context \in ContextTable /\ f.a1 \in Word
      /\ is_valid_ipc_target(t, c) => t \in PIDs /\ t # c
  BY EntryLemma
<1>2. CASE return(f, ERR) /\ UNCHANGED ipc_vars
  BY <1>2, PlainOutcome DEF sys_send
<1>3. CASE /\ is_valid_ipc_target(t, c) /\ Accepts(t, c)
           /\ state' = [state EXCEPT ![t] = "Ready"]
           /\ context' = [context EXCEPT ![t].a0 = f.a1, ![t].a1 = c]
           /\ frame' = [f EXCEPT !.a0 = 0]
           /\ UNCHANGED ipc_vars
  <2> DEFINE r == [context[t] EXCEPT !.a0 = f.a1, !.a1 = c]
  <2>1. r \in TrapFrame /\ context' = [context EXCEPT ![t] = r]
    BY <1>1, <1>3 DEF ContextTable, TrapFrame
  <2>2. Outcome([state EXCEPT ![t] = "Ready"], [context EXCEPT ![t] = r, ![c] = frame'])
    <3> HIDE DEF r
    <3> QED BY <1>1, <1>3, <2>1, WakeOutcome
  <2> QED BY <1>1, <1>3, <2>2 DEF sys_send
<1>4. CASE /\ is_valid_ipc_target(t, c) /\ ~Accepts(t, c)
           /\ ipc_target' = [ipc_target EXCEPT ![c] = t]
           /\ ipc_value' = [ipc_value EXCEPT ![c] = f.a1]
           /\ schedule([state EXCEPT ![c] = "BlockedSend"], context, f, c)
  BY <1>1, <1>4, BlockOutcome DEF sys_send, ProcessState
<1> QED BY <1>2, <1>3, <1>4 DEF sys_send

(* sys_call: an error, or c blocked, after its message is given to t if t waits. *)
LEMMA CallOutcome ==
  ASSUME IInv, mode = "user", NEW f \in TrapFrame, sys_call(f)
  PROVE  LET c == CURRENT_PID
             t == f.a0 IN
         /\ \/ /\ ~is_valid_ipc_target(t, c)
               /\ Outcome(state, [context EXCEPT ![c] = [f EXCEPT !.a0 = ERR]])
               /\ UNCHANGED ipc_vars
            \/ /\ t \in PIDs \ {c}
               /\ IF Accepts(t, c)
                  THEN Outcome([state EXCEPT ![c] = "BlockedCall", ![t] = "Ready"],
                               [context EXCEPT
                                  ![t] = [a0 |-> f.a1, a1 |-> c, a2 |-> f.a2], ![c] = f])
                  ELSE Outcome([state EXCEPT ![c] = "BlockedCall"], [context EXCEPT ![c] = f])
               /\ ipc_target' = [ipc_target EXCEPT ![c] = t]
               /\ ipc_value' = [ipc_value EXCEPT ![c] = f.a1]
         /\ UNCHANGED <<life_vars, irq_vars>>
<1> DEFINE c == CURRENT_PID
           t == f.a0
           met == [state EXCEPT ![c] = "BlockedCall", ![t] = "Ready"]
           ctx == [context EXCEPT ![t] = [a0 |-> f.a1, a1 |-> c, a2 |-> f.a2]]
<1>1. /\ c \in PIDs /\ c \in Word /\ state \in StateTable /\ context \in ContextTable
      /\ \A p \in PIDs : p # c => state[p] # "Running"
      /\ f.a1 \in Word /\ f.a2 \in Word
      /\ is_valid_ipc_target(t, c) => t \in PIDs /\ t # c
  BY EntryLemma
<1>2. CASE ~is_valid_ipc_target(t, c) /\ return(f, ERR) /\ UNCHANGED <<ipc_vars, life_vars, irq_vars>>
  BY <1>2, PlainOutcome
<1>3. CASE /\ is_valid_ipc_target(t, c)
           /\ ipc_target' = [ipc_target EXCEPT ![c] = t]
           /\ ipc_value' = [ipc_value EXCEPT ![c] = f.a1]
           /\ IF Accepts(t, c)
              THEN schedule(met, ctx, f, c)
              ELSE schedule([state EXCEPT ![c] = "BlockedCall"], context, f, c)
           /\ UNCHANGED <<life_vars, irq_vars>>
  <2>1. CASE Accepts(t, c)
    <3>1. /\ met \in StateTable /\ ctx \in ContextTable /\ schedule(met, ctx, f, c)
          /\ \A p \in PIDs : met[p] # "Running"
      BY <1>1, <1>3, <2>1 DEF StateTable, ContextTable, ProcessState, TrapFrame
    <3> HIDE DEF met, ctx
    <3>2. Outcome(met, [ctx EXCEPT ![c] = f])
      BY <1>1, <3>1, ScheduleOutcome
    <3> QED BY <1>1, <1>3, <2>1, <3>2 DEF met, ctx
  <2>2. CASE ~Accepts(t, c)
    BY <1>1, <1>3, <2>2, BlockOutcome DEF ProcessState
  <2> QED BY <2>1, <2>2
<1> QED BY <1>2, <1>3 DEF sys_call

(* sys_reply: an error, or the reply in a0 of a process that called us. *)
LEMMA ReplyOutcome ==
  ASSUME IInv, mode = "user", NEW f \in TrapFrame, sys_reply(f)
  PROVE  LET c == CURRENT_PID
             t == f.a0 IN
         /\ \/ /\ ~(is_valid_ipc_target(t, c) /\ Called(t, c))
               /\ Outcome(state, [context EXCEPT ![c] = [f EXCEPT !.a0 = ERR]])
            \/ /\ t \in PIDs \ {c} /\ Called(t, c)
               /\ Outcome([state EXCEPT ![t] = "Ready"],
                          [context EXCEPT ![t] = [context[t] EXCEPT !.a0 = f.a1],
                                          ![c] = [f EXCEPT !.a0 = 0]])
         /\ UNCHANGED <<ipc_vars, life_vars, irq_vars>>
<1> DEFINE c == CURRENT_PID
           t == f.a0
           r == [context[t] EXCEPT !.a0 = f.a1]
<1>1. /\ c \in PIDs /\ context \in ContextTable /\ f.a1 \in Word
      /\ is_valid_ipc_target(t, c) => t \in PIDs /\ t # c
  BY EntryLemma
<1>2. CASE ~(is_valid_ipc_target(t, c) /\ Called(t, c)) /\ return(f, ERR)
  BY <1>2, PlainOutcome DEF sys_reply
<1>3. CASE /\ is_valid_ipc_target(t, c) /\ Called(t, c)
           /\ state' = [state EXCEPT ![t] = "Ready"]
           /\ context' = [context EXCEPT ![t].a0 = f.a1]
           /\ frame' = [f EXCEPT !.a0 = 0]
  <2>1. r \in TrapFrame /\ context' = [context EXCEPT ![t] = r]
    BY <1>1, <1>3 DEF ContextTable, TrapFrame
  <2>2. Outcome([state EXCEPT ![t] = "Ready"], [context EXCEPT ![t] = r, ![c] = frame'])
    <3> HIDE DEF r
    <3> QED BY <1>1, <1>3, <2>1, WakeOutcome
  <2> QED BY <1>1, <1>3, <2>2 DEF sys_reply
<1> QED BY <1>2, <1>3 DEF sys_reply

(***************************************************************************)
(* sys_receive: a pending interrupt, the message of a sender i, who is     *)
(* released if it did not call, or c blocked.                              *)
(***************************************************************************)
LEMMA ReceiveOutcome ==
  ASSUME IInv, mode = "user", NEW f \in TrapFrame, sys_receive(f)
  PROVE  LET c == CURRENT_PID
             from == f.a0 IN
         /\ \/ /\ irq_pending[c] /\ from = 0
               /\ Outcome(state, [context EXCEPT ![c] =
                                    [f EXCEPT !.a0 = irq_num[c], !.a1 = 0]])
               /\ irq_pending' = [irq_pending EXCEPT ![c] = FALSE]
               /\ UNCHANGED ipc_target
            \/ /\ \E i \in PIDs \ {c} :
                     /\ Offers(i, c, from)
                     /\ IF state[i] = "BlockedSend"
                        THEN Outcome([state EXCEPT ![i] = "Ready"],
                                     [context EXCEPT ![i] = [context[i] EXCEPT !.a0 = 0],
                                        ![c] = [f EXCEPT !.a0 = ipc_value[i], !.a1 = i]])
                        ELSE Outcome(state, [context EXCEPT
                                        ![c] = [f EXCEPT !.a0 = ipc_value[i], !.a1 = i]])
               /\ UNCHANGED <<ipc_target, irq_pending>>
            \/ /\ ~(irq_pending[c] /\ from = 0)
               /\ \A i \in PIDs : ~Offers(i, c, from)
               /\ Outcome([state EXCEPT ![c] = "BlockedRecv"], [context EXCEPT ![c] = f])
               /\ ipc_target' = [ipc_target EXCEPT ![c] = from]
               /\ UNCHANGED irq_pending
         /\ UNCHANGED <<ipc_value, irq_num, IRQ_OWNER, life_vars>>
<1> DEFINE c == CURRENT_PID
           from == f.a0
           irq == irq_pending[c] /\ from = 0
<1>1. /\ c \in PIDs /\ state[c] = "Running" /\ 0 \in Word
      /\ \A p \in PIDs : p # c => state[p] # "Running"
      /\ state \in StateTable /\ context \in ContextTable
  BY EntryLemma
<1>2. UNCHANGED <<ipc_value, irq_num, IRQ_OWNER, life_vars>>
  BY DEF sys_receive
<1>3. CASE /\ irq
           /\ irq_pending' = [irq_pending EXCEPT ![c] = FALSE]
           /\ frame' = [f EXCEPT !.a0 = irq_num[c], !.a1 = 0]
           /\ UNCHANGED <<state, context, CURRENT_PID, satp, mode, ipc_target>>
  BY <1>1, <1>2, <1>3, ReturnOutcome
<1>4. ASSUME NEW i \in PIDs, Offers(i, c, from),
             IF state[i] = "BlockedSend"
             THEN /\ state' = [state EXCEPT ![i] = "Ready"]
                  /\ context' = [context EXCEPT ![i].a0 = 0]
             ELSE UNCHANGED <<state, context>>,
             frame' = [f EXCEPT !.a0 = ipc_value[i], !.a1 = i]
      PROVE  /\ i # c
             /\ IF state[i] = "BlockedSend"
                THEN Outcome([state EXCEPT ![i] = "Ready"],
                             [context EXCEPT ![i] = [context[i] EXCEPT !.a0 = 0],
                                ![c] = [f EXCEPT !.a0 = ipc_value[i], !.a1 = i]])
                ELSE Outcome(state, [context EXCEPT
                                ![c] = [f EXCEPT !.a0 = ipc_value[i], !.a1 = i]])
  <2> DEFINE r == [context[i] EXCEPT !.a0 = 0]
  <2>1. i # c
    BY <1>1, <1>4 DEF Offers
  <2>2. CASE state[i] = "BlockedSend"
    <3>1. r \in TrapFrame /\ context' = [context EXCEPT ![i] = r]
      BY <1>1, <1>4, <2>2 DEF ContextTable, TrapFrame
    <3>2. Outcome([state EXCEPT ![i] = "Ready"], [context EXCEPT ![i] = r, ![c] = frame'])
      <4> HIDE DEF r
      <4> QED BY <1>4, <2>1, <2>2, <3>1, WakeOutcome
    <3> QED BY <1>4, <2>1, <2>2, <3>2
  <2>3. CASE state[i] # "BlockedSend"
    <3>1. Outcome(state, [context EXCEPT ![c] = frame'])
      BY <1>1, <1>4, <2>3, ReturnOutcome
    <3> QED BY <1>4, <2>1, <2>3, <3>1
  <2> QED BY <2>2, <2>3
<1>5. CASE /\ ~irq
           /\ \A i \in PIDs : ~Offers(i, c, from)
           /\ ipc_target' = [ipc_target EXCEPT ![c] = from]
           /\ schedule([state EXCEPT ![c] = "BlockedRecv"], context, f, c)
           /\ UNCHANGED irq_pending
  BY <1>2, <1>5, BlockOutcome DEF ProcessState
<1>6. CASE /\ ~irq
           /\ \E i \in PIDs :
                /\ Offers(i, c, from)
                /\ IF state[i] = "BlockedSend"
                   THEN /\ state' = [state EXCEPT ![i] = "Ready"]
                        /\ context' = [context EXCEPT ![i].a0 = 0]
                   ELSE UNCHANGED <<state, context>>
                /\ frame' = [f EXCEPT !.a0 = ipc_value[i], !.a1 = i]
           /\ UNCHANGED <<CURRENT_PID, satp, mode, ipc_target, irq_pending>>
  BY <1>2, <1>4, <1>6
<1> QED BY <1>3, <1>5, <1>6 DEF sys_receive

(* sys_wait: an error, the code of a dead child, or c blocked on a live one. *)
LEMMA WaitOutcome ==
  ASSUME IInv, mode = "user", NEW f \in TrapFrame, sys_wait(f)
  PROVE  LET c == CURRENT_PID
             t == f.a0 IN
         /\ \/ /\ Outcome(state, [context EXCEPT ![c] = [f EXCEPT !.a0 = ERR]])
               /\ UNCHANGED ipc_target
            \/ /\ t \in PIDs \ {c} /\ parent[t] = c /\ state[t] = "Free"
               /\ Outcome(state, [context EXCEPT ![c] = [f EXCEPT !.a0 = exit_code[t]]])
               /\ UNCHANGED ipc_target
            \/ /\ t \in PIDs \ {c} /\ parent[t] = c /\ state[t] # "Free"
               /\ Outcome([state EXCEPT ![c] = "BlockedWait"], [context EXCEPT ![c] = f])
               /\ ipc_target' = [ipc_target EXCEPT ![c] = t]
         /\ UNCHANGED <<ipc_value, life_vars, irq_vars>>
<1> DEFINE c == CURRENT_PID
           t == f.a0
<1>1. IsChild(t, c) => t \in PIDs \ {c} /\ parent[t] = c
  BY EntryLemma DEF IsChild
<1>2. CASE return(f, ERR) /\ UNCHANGED ipc_target
  BY <1>2, PlainOutcome DEF sys_wait
<1>3. CASE IsChild(t, c) /\ state[t] = "Free" /\ return(f, exit_code[t]) /\ UNCHANGED ipc_target
  BY <1>1, <1>3, PlainOutcome DEF sys_wait
<1>4. CASE /\ IsChild(t, c) /\ state[t] # "Free"
           /\ ipc_target' = [ipc_target EXCEPT ![c] = t]
           /\ schedule([state EXCEPT ![c] = "BlockedWait"], context, f, c)
  BY <1>1, <1>4, BlockOutcome DEF sys_wait, ProcessState
<1> QED BY <1>2, <1>3, <1>4 DEF sys_wait

(***************************************************************************)
(* The end of a process wakes whoever waits for it, with its code: there   *)
(* is at most one such process, so waking the first one is enough.         *)
(***************************************************************************)
LEMMA TerminateOutcome ==
  ASSUME IInv, mode = "user", NEW f, NEW code \in Word, NEW last, terminate(f, code, last)
  PROVE  LET c == CURRENT_PID
             Told(p) == state[p] = "BlockedWait" /\ ipc_target[p] = c IN
         /\ Outcome([p \in PIDs |-> IF p = c THEN "Free"
                                    ELSE IF Told(p) THEN "Ready" ELSE state[p]],
                    [p \in PIDs |-> IF Told(p) THEN [context[p] EXCEPT !.a0 = code]
                                    ELSE context[p]])
         /\ exit_code' = [exit_code EXCEPT ![c] = code]
         /\ irq_num' = [irq_num EXCEPT ![c] = 0]
         /\ IRQ_OWNER' = Released(c)
         /\ UNCHANGED <<ipc_vars, parent, irq_pending>>
<1> DEFINE c == CURRENT_PID
           Told(p) == state[p] = "BlockedWait" /\ ipc_target[p] = c
           st == [p \in PIDs |-> IF p = c THEN "Free"
                                 ELSE IF Told(p) THEN "Ready" ELSE state[p]]
           ctx == [p \in PIDs |-> IF Told(p) THEN [context[p] EXCEPT !.a0 = code]
                                  ELSE context[p]]
<1>1. /\ c \in PIDs /\ state[c] = "Running"
      /\ \A p \in PIDs : p # c => state[p] # "Running"
      /\ state \in StateTable /\ context \in ContextTable
  BY CallerLemma DEF IInv
<1>2. ASSUME NEW p \in PIDs
      PROVE  Waiter(c, p) <=> Told(p)
  <2>1. ASSUME NEW q \in PIDs, Told(p), Told(q)
        PROVE  p = q
    BY <2>1 DEF IInv, WaitsForLiveChild
  <2> QED BY <2>1 DEF Waiter, PIDs
<1>3. /\ st = [p \in PIDs |-> IF p = c THEN "Free"
                              ELSE IF Waiter(c, p) THEN "Ready" ELSE state[p]]
      /\ ctx = [p \in PIDs |-> IF p # c /\ Waiter(c, p)
                               THEN [context[p] EXCEPT !.a0 = code] ELSE context[p]]
  BY <1>1, <1>2
<1>4. /\ st \in StateTable /\ ctx \in ContextTable
      /\ \A p \in PIDs : st[p] # "Running"
  BY <1>1 DEF StateTable, ContextTable, ProcessState, TrapFrame
<1> HIDE DEF st, ctx, Told
<1>5. \/ \E next \in PIDs : LowestReady(st, next) /\ switch_to(st, ctx, next)
      \/ state' = st /\ context' = ctx
  BY <1>3 DEF terminate, enter_idle
<1>6. Outcome(st, ctx)
  BY <1>4, <1>5, SwitchOutcome, StayOutcome DEF LowestReady
<1> QED BY <1>6 DEF terminate, st, ctx, Told

(* sys_spawn: an error, a panic that changes no process, or a new process. *)
LEMMA SpawnOutcome ==
  ASSUME IInv, mode = "user", NEW f \in TrapFrame, NEW image, sys_spawn(f, image)
  PROVE  LET c == CURRENT_PID IN
         \/ /\ Outcome(state, [context EXCEPT ![c] = [f EXCEPT !.a0 = ERR]])
            /\ UNCHANGED <<ipc_vars, life_vars, irq_vars>>
         \/ /\ Outcome(state, [context EXCEPT ![c] = frame])
            /\ UNCHANGED <<ipc_vars, life_vars, irq_vars>>
         \/ \E new \in PIDs \ {c} :
              /\ state[new] = "Free"
              /\ Outcome([state EXCEPT ![new] = "Ready"],
                         [context EXCEPT ![new] = zero, ![c] = [f EXCEPT !.a0 = new]])
              /\ ipc_target' = [ipc_target EXCEPT ![new] = 0]
              /\ ipc_value' = [ipc_value EXCEPT ![new] = 0]
              /\ parent' = [parent EXCEPT ![new] = c]
              /\ exit_code' = [exit_code EXCEPT ![new] = 0]
              /\ irq_num' = [irq_num EXCEPT ![new] = 0]
              /\ irq_pending' = [irq_pending EXCEPT ![new] = FALSE]
              /\ UNCHANGED IRQ_OWNER
<1> DEFINE c == CURRENT_PID
<1>1. /\ c \in PIDs /\ state[c] = "Running" /\ 0 \in Word
      /\ \A p \in PIDs : p # c => state[p] # "Running"
      /\ state \in StateTable /\ context \in ContextTable
  BY EntryLemma
<1>2. CASE return(f, ERR) /\ UNCHANGED <<ipc_vars, life_vars, irq_vars>>
  BY <1>2, PlainOutcome
<1>3. ASSUME NEW which, panic(state, context, which)
      PROVE  Outcome(state, [context EXCEPT ![c] = frame])
  BY <1>1, <1>3, ReturnOutcome DEF panic
<1>4. ASSUME NEW new \in PIDs, FreeSlot(new), create(f, new)
      PROVE  /\ new # c /\ state[new] = "Free"
             /\ Outcome([state EXCEPT ![new] = "Ready"],
                        [context EXCEPT ![new] = zero, ![c] = [f EXCEPT !.a0 = new]])
  <2>1. new # c /\ state[new] = "Free" /\ zero \in TrapFrame
    BY <1>1, <1>4 DEF FreeSlot, zero, TrapFrame
  <2>2. Outcome([state EXCEPT ![new] = "Ready"],
                [context EXCEPT ![new] = zero, ![c] = frame'])
    BY <1>4, <2>1, WakeOutcome DEF create
  <2> QED BY <1>4, <2>1, <2>2 DEF create
<1> QED BY <1>2, <1>3, <1>4 DEF sys_spawn, create

(* The timer preempts a process, but changes nothing a process can see. *)
LEMMA TimerOutcome ==
  ASSUME IInv, handle_timer
  PROVE  Outcome(state, Registers)
<1>1. CASE mode = "user" /\ preempt(state, context)
  <2> DEFINE c == CURRENT_PID
             st == [state EXCEPT ![c] = "Ready"]
             saved == [context EXCEPT ![c] = frame]
  <2>1. /\ c \in PIDs /\ state[c] = "Running" /\ frame \in TrapFrame
        /\ \A p \in PIDs : p # c => state[p] # "Running"
        /\ state \in StateTable /\ context \in ContextTable
    BY <1>1, CallerLemma DEF IInv, TypeOK, ProcTypeOK, SchedTypeOK
  <2>2. Registers = saved
    BY <2>1 DEF Registers, registers, ContextTable
  <2>3. CASE state' = state /\ context' = context /\ UNCHANGED frame
    BY <1>1, <2>1, <2>2, <2>3, ReturnOutcome
  <2>4. ASSUME NEW next \in PIDs, NextReady(state, c, MAX_PROCS - 2, next),
               switch_to(st, saved, next)
        PROVE  Outcome(state, saved)
    <3>1. /\ st \in StateTable /\ saved \in ContextTable /\ st[next] = "Ready"
          /\ \A p \in PIDs : st[p] # "Running" /\ Same(state[p], st[p])
      BY <2>1, <2>4 DEF StateTable, ContextTable, ProcessState, NextReady, Same
    <3> HIDE DEF st, saved
    <3>2. Outcome(st, saved)
      BY <2>4, <3>1, SwitchOutcome
    <3> QED BY <3>1, <3>2 DEF Outcome, Same
  <2> QED BY <1>1, <2>2, <2>3, <2>4 DEF preempt
<1>2. CASE /\ mode \in {"kernel_idle", "post_process_exit"}
           /\ schedule_from_idle(state, context)
  <2>1. /\ state \in StateTable /\ context \in ContextTable
        /\ \A p \in PIDs : state[p] # "Running"
    BY <1>2 DEF IInv, RunningIsCurrent, TypeOK, ProcTypeOK, SchedTypeOK, StateTable, ContextTable
  <2>2. Registers = context
    BY <2>1 DEF Registers, registers, ContextTable
  <2> QED BY <1>2, <2>1, <2>2, FromIdleOutcome
<1> QED BY <1>1, <1>2 DEF handle_timer

(* An interrupt handler that returns with the table st, ctx. *)
LEMMA InterruptOutcome ==
  ASSUME IInv, mode \notin Panics, NEW st \in StateTable, NEW ctx \in ContextTable,
         \A p \in PIDs : st[p] = "Running" <=> state[p] = "Running",
         \/ mode = "user" /\ state' = st /\ context' = ctx /\ UNCHANGED frame
         \/ mode # "user" /\ schedule_from_idle(st, ctx)
  PROVE  Outcome(st, [p \in PIDs |-> IF state[p] = "Running" THEN frame ELSE ctx[p]])
<1> DEFINE rg == [p \in PIDs |-> IF state[p] = "Running" THEN frame ELSE ctx[p]]
<1>1. CASE mode = "user" /\ state' = st /\ context' = ctx /\ UNCHANGED frame
  <2>1. /\ CURRENT_PID \in PIDs /\ state[CURRENT_PID] = "Running"
        /\ \A p \in PIDs : p # CURRENT_PID => state[p] # "Running"
    BY <1>1, CallerLemma DEF IInv
  <2>2. rg = [ctx EXCEPT ![CURRENT_PID] = frame]
    BY <2>1 DEF ContextTable
  <2> QED BY <1>1, <2>1, <2>2, ReturnOutcome
<1>2. CASE mode # "user" /\ schedule_from_idle(st, ctx)
  <2>1. \A p \in PIDs : state[p] # "Running" /\ st[p] # "Running"
    BY <1>2 DEF IInv, RunningIsCurrent, TypeOK, ProcTypeOK, SchedTypeOK, Mode
  <2>2. rg = ctx
    BY <2>1 DEF ContextTable
  <2> QED BY <1>2, <2>1, <2>2, FromIdleOutcome
<1> QED BY <1>1, <1>2

(***************************************************************************)
(* handle_external: the owner is woken from SYS_RECEIVE with the IRQ, or   *)
(* the IRQ becomes pending for it, or, without an owner, nothing happens.  *)
(***************************************************************************)
LEMMA ExternalOutcome ==
  ASSUME IInv, External
  PROVE  /\ \/ Outcome(state, Registers) /\ UNCHANGED irq_pending
            \/ \E irq \in IRQs, o \in PIDs :
                 /\ IRQ_OWNER[irq] = o
                 /\ state[o] # "BlockedRecv"
                 /\ Outcome(state, Registers)
                 /\ irq_pending' = [irq_pending EXCEPT ![o] = TRUE]
            \/ \E irq \in IRQs, o \in PIDs :
                 /\ IRQ_OWNER[irq] = o
                 /\ state[o] = "BlockedRecv"
                 /\ Outcome([state EXCEPT ![o] = "Ready"],
                            [Registers EXCEPT ![o] = [context[o] EXCEPT !.a0 = irq, !.a1 = 0]])
                 /\ UNCHANGED irq_pending
         /\ UNCHANGED <<ipc_vars, life_vars, irq_num, IRQ_OWNER>>
<1>1. PICK irq \in Deliverable :
        LET owner == irq_owner(irq)
            table == irq_notify(irq, owner) IN
        /\ \/ /\ owner # 0
              /\ irq_pending' = table.irq_pending
              /\ \/ /\ mode = "user"
                    /\ state' = table.state
                    /\ context' = table.context
                    /\ UNCHANGED frame
                 \/ /\ mode # "user"
                    /\ schedule_from_idle(table.state, table.context)
           \/ /\ owner = 0
              /\ UNCHANGED <<irq_pending, sched_vars>>
        /\ UNCHANGED <<ipc_vars, life_vars, irq_num, IRQ_OWNER>>
  BY DEF External, handle_external
<1> DEFINE o == irq_owner(irq)
           table == irq_notify(irq, o)
           rg(ctx) == [p \in PIDs |-> IF state[p] = "Running" THEN frame ELSE ctx[p]]
<1>2. /\ irq \in IRQs /\ o \in PIDs \cup {0} /\ o = IRQ_OWNER[irq]
      /\ state \in StateTable /\ context \in ContextTable
      /\ mode \notin Panics /\ irq \in Word /\ 0 \in Word
  <2>1. irq \in IRQs
    BY DEF Deliverable, IInv, TypeOK
  <2>2. IRQ_OWNER \in [IRQs -> PIDs \cup {0}]
    BY DEF IInv, TypeOK, ProcTypeOK
  <2>3. is_valid_irq(irq) /\ irq \in Word /\ 0 \in Word
    BY <2>1, ProcessAssumption DEF is_valid_irq, IRQs, Word
  <2>4. o = IRQ_OWNER[irq] /\ o \in PIDs \cup {0}
    BY <2>1, <2>2, <2>3 DEF irq_owner
  <2>5. state \in StateTable /\ context \in ContextTable /\ mode \notin Panics
    BY DEF External, IInv, TypeOK, ProcTypeOK, SchedTypeOK, StateTable, ContextTable
  <2> QED BY <2>1, <2>3, <2>4, <2>5
<1>3. CASE o = 0
  <2>1. UNCHANGED <<irq_pending, state, context, frame>>
    BY <1>1, <1>3 DEF sched_vars
  <2>2. Outcome(state, Registers)
    BY <2>1 DEF Outcome, Same, Registers, registers
  <2> QED BY <1>1, <2>1, <2>2
<1>4. CASE o # 0 /\ state[o] # "BlockedRecv"
  <2>1. /\ irq_pending' = [irq_pending EXCEPT ![o] = TRUE]
        /\ \/ mode = "user" /\ state' = state /\ context' = context /\ UNCHANGED frame
           \/ mode # "user" /\ schedule_from_idle(state, context)
    BY <1>1, <1>4 DEF irq_notify
  <2>2. Outcome(state, rg(context))
    BY <1>2, <2>1, InterruptOutcome
  <2>3. rg(context) = Registers
    BY DEF Registers, registers
  <2> QED BY <1>1, <1>2, <1>4, <2>1, <2>2, <2>3
<1>5. CASE o # 0 /\ state[o] = "BlockedRecv"
  <2> DEFINE st == [state EXCEPT ![o] = "Ready"]
             ctx == [context EXCEPT ![o] = [context[o] EXCEPT !.a0 = irq, !.a1 = 0]]
  <2>1. ctx = [context EXCEPT ![o].a0 = irq, ![o].a1 = 0]
    BY <1>2, <1>5 DEF ContextTable, TrapFrame
  <2>2. /\ st \in StateTable /\ ctx \in ContextTable
        /\ \A p \in PIDs : st[p] = "Running" <=> state[p] = "Running"
    BY <1>2, <1>5 DEF StateTable, ContextTable, ProcessState, TrapFrame
  <2>3. /\ irq_pending' = irq_pending
        /\ \/ mode = "user" /\ state' = st /\ context' = ctx /\ UNCHANGED frame
           \/ mode # "user" /\ schedule_from_idle(st, ctx)
    BY <1>1, <1>5, <2>1 DEF irq_notify
  <2>4. rg(ctx) = [Registers EXCEPT ![o] = [context[o] EXCEPT !.a0 = irq, !.a1 = 0]]
    BY <1>2, <1>5 DEF Registers, registers, ContextTable
  <2>5. Outcome(st, rg(ctx))
    <3> HIDE DEF st, ctx
    <3> QED BY <1>2, <2>2, <2>3, InterruptOutcome
  <2> QED BY <1>1, <1>2, <1>5, <2>3, <2>4, <2>5
<1> QED BY <1>2, <1>3, <1>4, <1>5

(* SYS_YIELD blocks and releases nobody; whose a0 it writes is another matter. *)
LEMMA YieldOutcome ==
  ASSUME IInv, mode = "user", NEW f \in TrapFrame, sys_yield(f)
  PROVE  /\ \A p \in PIDs : Same(state[p], state'[p])
         /\ UNCHANGED <<ipc_vars, life_vars, irq_vars>>
  BY CallerLemma DEF IInv, sys_yield, return, resume, NextReady, Same, StateTable

(* The calls that concern the caller alone. *)
LEMMA LocalOutcome ==
  ASSUME IInv, Putchar \/ Unknown \/ Getpid \/ IrqRegister \/ IrqAck
  PROVE  /\ mode = "user"
         /\ \E r \in TrapFrame : Outcome(state, [context EXCEPT ![CURRENT_PID] = r])
         /\ UNCHANGED <<ipc_vars, life_vars, irq_pending>>
<1>1. /\ {0} \subseteq Word /\ zero \in TrapFrame /\ ERR \in Word /\ 0 \in Word
      /\ PidArgs \subseteq Word /\ Messages \subseteq Word /\ IrqArgs \subseteq Word
      /\ CURRENT_PID \in Word
  BY KernelAssumption, ProcessAssumption, WordLemma
  DEF Word, zero, TrapFrame, ERR, IInv, TypeOK, ProcTypeOK, SchedTypeOK
<1>2. mode = "user"
  BY DEF Putchar, Unknown, Getpid, IrqRegister, IrqAck, Ecall
<1>3. UNCHANGED <<ipc_vars, life_vars, irq_pending>>
  BY DEF Putchar, Unknown, Getpid, IrqRegister, IrqAck, sys_putchar, sys_unknown,
         sys_getpid, sys_irq_register, sys_irq_ack, irq_vars
<1>4. \E f \in TrapFrame, v \in Word : return(f, v)
  <2>1. CASE Putchar
    BY <1>1, <2>1, ArgsLemma DEF Putchar, sys_putchar
  <2>2. CASE Unknown
    BY <1>1, <2>2, ArgsLemma DEF Unknown, sys_unknown
  <2>3. CASE Getpid
    BY <1>1, <2>3 DEF Getpid, sys_getpid
  <2>4. CASE IrqRegister
    BY <1>1, <2>4, ArgsLemma DEF IrqRegister, sys_irq_register
  <2>5. CASE IrqAck
    BY <1>1, <2>5 DEF IrqAck, sys_irq_ack
  <2> QED BY <2>1, <2>2, <2>3, <2>4, <2>5
<1>5. PICK f \in TrapFrame, v \in Word : return(f, v)
  BY <1>4
<1>6. [f EXCEPT !.a0 = v] \in TrapFrame
  BY DEF TrapFrame
<1> QED BY <1>2, <1>3, <1>5, <1>6, PlainOutcome

(* The steps no process notices. *)
LEMMA InvisibleOutcome ==
  ASSUME IInv, handle_timer \/ Device \/ Halted \/ UNCHANGED vars
  PROVE  /\ Outcome(state, Registers)
         /\ UNCHANGED <<ipc_vars, life_vars, irq_vars>>
<1>1. CASE handle_timer
  BY <1>1, TimerOutcome DEF handle_timer
<1>2. CASE UNCHANGED proc_vars
  BY <1>2 DEF proc_vars, sched_vars, Outcome, Same, Registers, registers
<1> QED BY <1>1, <1>2 DEF Device, raise, Halted, vars

(* What the registers of the processes are when a handler is entered. *)
LEMMA RegistersLemma ==
  ASSUME IInv, mode = "user"
  PROVE  Registers = [context EXCEPT ![CURRENT_PID] = frame]
  BY CallerLemma DEF Registers, registers, ContextTable, IInv

(* The arguments of every call are registers. *)
LEMMA ArgumentsLemma ==
  /\ Args(PidArgs, Messages, {0}) \subseteq TrapFrame
  /\ Args(PidArgs, Messages, Extras) \subseteq TrapFrame
  /\ Args(PidArgs, {0}, {0}) \subseteq TrapFrame
  /\ Args(ExitCodes, {0}, {0}) \subseteq TrapFrame
  /\ zero \in TrapFrame
<1>1. /\ PidArgs \in SUBSET Word /\ Messages \in SUBSET Word /\ Extras \in SUBSET Word
      /\ ExitCodes \in SUBSET Word /\ {0} \in SUBSET Word
  BY KernelAssumption, ProcessAssumption DEF Word
<1> QED BY <1>1, ArgsLemma DEF zero, TrapFrame

(* SYS_EXIT and a fault end the caller in the same way. *)
LEMMA EndLemma ==
  ASSUME IInv, Exit \/ Fault
  PROVE  /\ mode = "user"
         /\ \E f \in TrapFrame, code \in ExitCodes \cup {128 + x : x \in FaultCodes},
               last \in PIDs \cup {0} :
               code \in Word /\ terminate(f, code, last)
<1>1. CASE Exit
  <2>1. PICK f \in Args(ExitCodes, {0}, {0}) : sys_exit(f)
    BY <1>1 DEF Exit
  <2>2. f \in TrapFrame /\ f.a0 \in ExitCodes /\ f.a0 \in Word
    BY ArgumentsLemma DEF Args, TrapFrame
  <2>3. CURRENT_PID \in PIDs \cup {0}
    BY DEF IInv, TypeOK, ProcTypeOK, SchedTypeOK
  <2> QED BY <1>1, <2>1, <2>2, <2>3 DEF Exit, Ecall, sys_exit
<1>2. CASE Fault
  <2>1. PICK x \in FaultCodes : kill_current(frame, 128 + x)
    BY <1>2 DEF Fault
  <2>2. CURRENT_PID \in PIDs /\ CURRENT_PID # 0 /\ frame \in TrapFrame
    BY <1>2, CallerLemma DEF Fault, IInv, TypeOK, ProcTypeOK, SchedTypeOK, PIDs
  <2>3. terminate(frame, 128 + x, 0) /\ 128 + x \in Word
    BY <2>1, <2>2, KernelAssumption DEF kill_current
  <2> QED BY <1>2, <2>2, <2>3 DEF Fault
<1> QED BY <1>1, <1>2

(***************************************************************************)
(* Who releases a blocked process: a caller only SYS_REPLY, a sender only  *)
(* SYS_RECEIVE, a waiting parent only the end of a process.                *)
(***************************************************************************)
LEMMA ReleaseLemma ==
  ASSUME IInv, [Next]_vars, ~Reboot, NEW p \in PIDs,
         state[p] \in {"BlockedSend", "BlockedCall", "BlockedWait"},
         state'[p] # state[p]
  PROVE  \/ state[p] = "BlockedCall" /\ Reply
         \/ state[p] = "BlockedSend" /\ Receive
         \/ state[p] = "BlockedWait" /\ (Exit \/ Fault)
<1> DEFINE c == CURRENT_PID
<1> USE DEF Outcome, Same
<1>1. state \in StateTable
  BY DEF IInv, TypeOK, ProcTypeOK, SchedTypeOK, StateTable
<1>2. mode = "user" => c \in PIDs /\ state[c] = "Running"
  BY CallerLemma DEF IInv
<1>3. ~(Putchar \/ Unknown \/ Getpid \/ IrqRegister \/ IrqAck)
  BY LocalOutcome
<1>4. ~(handle_timer \/ Device \/ Halted \/ UNCHANGED vars)
  BY InvisibleOutcome
<1>5. ~Yield
  BY YieldOutcome, ArgumentsLemma DEF Yield, Ecall
<1>6. ~External
  BY <1>1, ExternalOutcome DEF StateTable
<1>7. ~Send
  <2> SUFFICES ASSUME Send PROVE FALSE
    OBVIOUS
  <2>1. PICK f \in TrapFrame : mode = "user" /\ sys_send(f)
    BY ArgumentsLemma DEF Send, Ecall
  <2> QED BY <1>1, <1>2, <2>1, SendOutcome DEF Accepts, StateTable
<1>8. ~Call
  <2> SUFFICES ASSUME Call PROVE FALSE
    OBVIOUS
  <2>1. PICK f \in TrapFrame : mode = "user" /\ sys_call(f)
    BY ArgumentsLemma DEF Call, Ecall
  <2> QED BY <1>1, <1>2, <2>1, CallOutcome DEF Accepts, StateTable
<1>9. ~Wait
  <2> SUFFICES ASSUME Wait PROVE FALSE
    OBVIOUS
  <2>1. PICK f \in TrapFrame : mode = "user" /\ sys_wait(f)
    BY ArgumentsLemma DEF Wait, Ecall
  <2> QED BY <1>1, <1>2, <2>1, WaitOutcome DEF StateTable
<1>10. ~Spawn
  <2> SUFFICES ASSUME Spawn PROVE FALSE
    OBVIOUS
  <2>1. PICK image \in Images : mode = "user" /\ sys_spawn(zero, image)
    BY DEF Spawn, Ecall
  <2> QED BY <1>1, <1>2, <2>1, SpawnOutcome, ArgumentsLemma DEF StateTable
<1>11. CASE Reply
  <2>1. PICK f \in TrapFrame : mode = "user" /\ sys_reply(f)
    BY <1>11, ArgumentsLemma DEF Reply, Ecall
  <2> QED BY <1>1, <1>2, <1>11, <2>1, ReplyOutcome DEF Called, StateTable
<1>12. CASE Receive
  <2>1. PICK f \in TrapFrame : mode = "user" /\ sys_receive(f)
    BY <1>12, ArgumentsLemma DEF Receive, Ecall
  <2> QED BY <1>1, <1>2, <1>12, <2>1, ReceiveOutcome DEF StateTable
<1>13. CASE Exit \/ Fault
  <2>1. PICK f \in TrapFrame, code \in Word, last \in PIDs \cup {0} :
          mode = "user" /\ terminate(f, code, last)
    BY <1>13, EndLemma
  <2> QED BY <1>1, <1>2, <1>13, <2>1, TerminateOutcome DEF StateTable
<1> QED BY <1>3, <1>4, <1>5, <1>6, <1>7, <1>8, <1>9, <1>10, <1>11, <1>12, <1>13
        DEF Next

----------------------------------------------------------------------------
(***************************************************************************)
(* sys_call, sys_reply: a caller stays blocked until the process it called *)
(* replies, whatever else runs, arrives, ends or faults in the meantime.   *)
(***************************************************************************)
THEOREM CallsEndByReply == Spec => CallEndsByReply
<1>1. ASSUME IInv, [Next]_vars, NEW p \in PIDs, ~Reboot,
             state[p] = "BlockedCall", state'[p] # "BlockedCall"
      PROVE  /\ Reply
             /\ CURRENT_PID = ipc_target[p] /\ CURRENT_PID' = ipc_target[p]
             /\ state'[p] = "Ready" /\ context'[p].a0 = frame'.a1
             /\ \A q \in PIDs \ {p} : state'[q] = state[q]
  <2>1. Reply
    BY <1>1, ReleaseLemma
  <2>2. PICK f \in TrapFrame : mode = "user" /\ sys_reply(f)
    BY <2>1, ArgumentsLemma DEF Reply, Ecall
  <2>3. /\ f.a0 \in PIDs /\ state \in StateTable /\ context \in ContextTable
        /\ state' = [state EXCEPT ![f.a0] = "Ready"]
        /\ context' = [context EXCEPT ![f.a0].a0 = f.a1]
        /\ frame' = [f EXCEPT !.a0 = 0]
        /\ UNCHANGED CURRENT_PID
        /\ Called(f.a0, CURRENT_PID)
    BY <1>1, <2>2, EntryLemma DEF sys_reply, return
  <2>4. p = f.a0
    BY <1>1, <2>3 DEF StateTable
  <2>5. context'[p].a0 = frame'.a1
    BY <2>3, <2>4 DEF ContextTable, TrapFrame
  <2> QED BY <2>1, <2>3, <2>4, <2>5 DEF Called, StateTable
<1>2. IInv /\ [Next]_vars =>
        [\A p \in PIDs :
           /\ ~Reboot
           /\ state[p] = "BlockedCall"
           /\ state'[p] # "BlockedCall"
           => /\ Reply
              /\ CURRENT_PID = ipc_target[p] /\ CURRENT_PID' = ipc_target[p]
              /\ state'[p] = "Ready" /\ context'[p].a0 = frame'.a1
              /\ \A q \in PIDs \ {p} : state'[q] = state[q]]_vars
  BY <1>1
<1> QED BY <1>2, KernelInvariant, PTL DEF Spec, CallEndsByReply

(***************************************************************************)
(* sys_send, sys_receive: a blocked sender is released with success only   *)
(* by the process it sent to, in the step that takes its message.          *)
(***************************************************************************)
THEOREM SendsReturnOnDelivery == Spec => SendReturnsOnDelivery
<1>1. ASSUME IInv, [Next]_vars, NEW p \in PIDs, ~Reboot,
             state[p] = "BlockedSend", state'[p] # "BlockedSend"
      PROVE  /\ CURRENT_PID = ipc_target[p] /\ CURRENT_PID' = CURRENT_PID
             /\ frame'.a0 = ipc_value[p] /\ frame'.a1 = p
             /\ context'[p].a0 = 0
  <2>1. PICK f \in TrapFrame : mode = "user" /\ sys_receive(f)
    BY <1>1, ReleaseLemma, ArgumentsLemma DEF Receive, Ecall
  <2>2. /\ CURRENT_PID \in PIDs /\ state[CURRENT_PID] = "Running"
        /\ state \in StateTable /\ context \in ContextTable
    BY <1>1, <2>1, EntryLemma
  <2>3. ~schedule([state EXCEPT ![CURRENT_PID] = "BlockedRecv"], context, f, CURRENT_PID)
    BY <1>1, <2>1, <2>2, BlockOutcome DEF Outcome, Same, StateTable, ProcessState
  <2>4. PICK i \in PIDs :
          /\ Offers(i, CURRENT_PID, f.a0)
          /\ IF state[i] = "BlockedSend"
             THEN /\ state' = [state EXCEPT ![i] = "Ready"]
                  /\ context' = [context EXCEPT ![i].a0 = 0]
             ELSE UNCHANGED <<state, context>>
          /\ frame' = [f EXCEPT !.a0 = ipc_value[i], !.a1 = i]
          /\ UNCHANGED CURRENT_PID
    BY <1>1, <2>1, <2>3 DEF sys_receive
  <2>5. p = i /\ context' = [context EXCEPT ![i].a0 = 0]
    BY <1>1, <2>2, <2>4 DEF StateTable
  <2>6. frame'.a0 = ipc_value[i] /\ frame'.a1 = i /\ context'[i].a0 = 0
    BY <2>2, <2>4, <2>5 DEF ContextTable, TrapFrame
  <2> QED BY <2>4, <2>5, <2>6 DEF Offers
<1>2. IInv /\ [Next]_vars =>
        [\A p \in PIDs :
           /\ ~Reboot
           /\ state[p] = "BlockedSend"
           /\ state'[p] # "BlockedSend"
           => /\ CURRENT_PID = ipc_target[p] /\ CURRENT_PID' = CURRENT_PID
              /\ frame'.a0 = ipc_value[p] /\ frame'.a1 = p
              /\ context'[p].a0 = 0]_vars
  BY <1>1
<1> QED BY <1>2, KernelInvariant, PTL DEF Spec, SendReturnsOnDelivery

(***************************************************************************)
(* sys_wait, sys_exit, kill_current: a parent is woken by the end of the   *)
(* child it waits for and finds that child's exit code in a0.              *)
(***************************************************************************)
THEOREM WaitsReturnExitCode == Spec => WaitReturnsExitCode
<1>1. ASSUME IInv, [Next]_vars, NEW p \in PIDs, ~Reboot,
             state[p] = "BlockedWait", state'[p] # "BlockedWait"
      PROVE  /\ ipc_target[p] = CURRENT_PID
             /\ state'[CURRENT_PID] = "Free"
             /\ registers(p)'.a0 = exit_code'[CURRENT_PID]
  <2>1. PICK f \in TrapFrame, code \in Word, last \in PIDs \cup {0} :
          mode = "user" /\ terminate(f, code, last)
    BY <1>1, ReleaseLemma, EndLemma
  <2>2. /\ CURRENT_PID \in PIDs /\ state[CURRENT_PID] = "Running"
        /\ context \in ContextTable /\ exit_code \in [PIDs -> Word]
    BY <1>1, <2>1, EntryLemma DEF IInv, TypeOK, ProcTypeOK
  <2>3. ipc_target[p] = CURRENT_PID
    BY <1>1, <2>1, <2>2, TerminateOutcome DEF Outcome, Same
  <2>4. /\ registers(p)' = [context[p] EXCEPT !.a0 = code]
        /\ exit_code'[CURRENT_PID] = code
        /\ state'[CURRENT_PID] = "Free"
    BY <1>1, <2>1, <2>2, <2>3, TerminateOutcome DEF Outcome, Same
  <2> QED BY <2>2, <2>3, <2>4 DEF ContextTable, TrapFrame
<1>2. IInv /\ [Next]_vars =>
        [\A p \in PIDs :
           /\ ~Reboot
           /\ state[p] = "BlockedWait"
           /\ state'[p] # "BlockedWait"
           => /\ ipc_target[p] = CURRENT_PID
              /\ state'[CURRENT_PID] = "Free"
              /\ registers(p)'.a0 = exit_code'[CURRENT_PID]]_vars
  BY <1>1
<1> QED BY <1>2, KernelInvariant, PTL DEF Spec, WaitReturnsExitCode

----------------------------------------------------------------------------
(***************************************************************************)
(* The registers of a Ready process: no step but SYS_YIELD changes them,   *)
(* the one that dispatches it included.                                    *)
(***************************************************************************)
LEMMA ReadyLemma ==
  ASSUME IInv, [Next]_vars, ~Reboot, ~Yield, NEW p \in PIDs, state[p] = "Ready"
  PROVE  registers(p)' = registers(p)
<1> DEFINE c == CURRENT_PID
<1> USE DEF Outcome
<1>1. context \in ContextTable /\ registers(p) = context[p]
  BY DEF IInv, TypeOK, ProcTypeOK, SchedTypeOK, ContextTable, registers
<1>2. mode = "user" => c \in PIDs /\ p # c
  BY CallerLemma DEF IInv
<1>3. CASE Putchar \/ Unknown \/ Getpid \/ IrqRegister \/ IrqAck
  BY <1>1, <1>2, <1>3, LocalOutcome DEF ContextTable
<1>4. CASE handle_timer \/ Device \/ Halted \/ UNCHANGED vars
  BY <1>4, InvisibleOutcome DEF Registers
<1>5. CASE External
  BY <1>5, ExternalOutcome DEF Registers
<1>6. CASE Send
  <2>1. PICK f \in TrapFrame : mode = "user" /\ sys_send(f)
    BY <1>6, ArgumentsLemma DEF Send, Ecall
  <2> QED BY <1>1, <1>2, <2>1, SendOutcome DEF Accepts, ContextTable
<1>7. CASE Call
  <2>1. PICK f \in TrapFrame : mode = "user" /\ sys_call(f)
    BY <1>7, ArgumentsLemma DEF Call, Ecall
  <2> QED BY <1>1, <1>2, <2>1, CallOutcome DEF Accepts, ContextTable
<1>8. CASE Reply
  <2>1. PICK f \in TrapFrame : mode = "user" /\ sys_reply(f)
    BY <1>8, ArgumentsLemma DEF Reply, Ecall
  <2> QED BY <1>1, <1>2, <2>1, ReplyOutcome DEF Called, ContextTable
<1>9. CASE Receive
  <2>1. PICK f \in TrapFrame : mode = "user" /\ sys_receive(f)
    BY <1>9, ArgumentsLemma DEF Receive, Ecall
  <2> QED BY <1>1, <1>2, <2>1, ReceiveOutcome DEF Offers, ContextTable
<1>10. CASE Wait
  <2>1. PICK f \in TrapFrame : mode = "user" /\ sys_wait(f)
    BY <1>10, ArgumentsLemma DEF Wait, Ecall
  <2> QED BY <1>1, <1>2, <2>1, WaitOutcome DEF ContextTable
<1>11. CASE Spawn
  <2>1. PICK image \in Images : mode = "user" /\ sys_spawn(zero, image)
    BY <1>11 DEF Spawn, Ecall
  <2> QED BY <1>1, <1>2, <2>1, SpawnOutcome, ArgumentsLemma DEF ContextTable
<1>12. CASE Exit \/ Fault
  <2>1. PICK f \in TrapFrame, code \in Word, last \in PIDs \cup {0} :
          mode = "user" /\ terminate(f, code, last)
    BY <1>12, EndLemma
  <2> QED BY <1>1, <2>1, TerminateOutcome
<1> QED BY <1>3, <1>4, <1>5, <1>6, <1>7, <1>8, <1>9, <1>10, <1>11, <1>12 DEF Next

(* An interrupt is invisible in the registers of the process it interrupts. *)
LEMMA InterruptedLemma ==
  ASSUME IInv, handle_timer \/ External, NEW p \in PIDs, state[p] = "Running"
  PROVE  registers(p)' = registers(p)
  BY TimerOutcome, ExternalOutcome DEF Outcome, Registers

(***************************************************************************)
(* sched.rs: "the TrapFrame on the kernel stack describes the process that *)
(* sret will return to" holds of every workload that does not use          *)
(* SYS_YIELD, the one call that writes the frame after the switch.         *)
(***************************************************************************)
THEOREM FrameIsNextProcess ==
  ASSUME "SYS_YIELD" \notin Syscalls
  PROVE  Spec => ReadyKeepsRegisters
<1>1. ~Yield
  BY DEF Yield, Ecall
<1>2. IInv /\ [Next]_vars =>
        [\A p \in PIDs :
           /\ ~Reboot
           /\ \/ state[p] = "Ready"
              \/ state[p] = "Running" /\ (handle_timer \/ External)
           => registers(p)' = registers(p)]_vars
  BY <1>1, ReadyLemma, InterruptedLemma
<1> QED BY <1>2, KernelInvariant, PTL DEF Spec, ReadyKeepsRegisters

----------------------------------------------------------------------------
(* No IRQ has an owner. *)
NoOwner == \A i \in IRQs : IRQ_OWNER[i] = 0

(* Only sys_irq_register makes a process own an IRQ. *)
LEMMA NoOwnerLemma ==
  ASSUME IInv, NoOwner, [Next]_vars, "SYS_IRQ_REGISTER" \notin Syscalls
  PROVE  NoOwner'
<1>1. ASSUME UNCHANGED IRQ_OWNER PROVE NoOwner'
  BY <1>1 DEF NoOwner
<1>2. CASE Exit \/ Fault
  <2>1. PICK f \in TrapFrame, code \in Word, last \in PIDs \cup {0} :
          mode = "user" /\ terminate(f, code, last)
    BY <1>2, EndLemma
  <2>2. CURRENT_PID \in PIDs /\ irq_num[CURRENT_PID] \in IRQs
    BY <2>1, CallerLemma DEF IInv, TypeOK, ProcTypeOK
  <2> QED BY <2>1, <2>2 DEF terminate, Released, NoOwner, IInv, TypeOK, ProcTypeOK
<1>3. CASE Reboot
  BY <1>3 DEF Reboot, sys_reboot, sbi_system_reset, Unowned, NoOwner
<1>4. ~IrqRegister
  BY DEF IrqRegister, Ecall
<1>5. CASE Putchar \/ Unknown \/ Getpid \/ IrqAck \/ Send \/ Call \/ Reply \/ Receive \/ Wait
  BY <1>1, <1>5
  DEF Putchar, Unknown, Getpid, IrqAck, Send, Call, Reply, Receive, Wait, sys_putchar,
      sys_unknown, sys_getpid, sys_irq_ack, sys_send, sys_call, sys_reply, sys_receive,
      sys_wait, irq_vars
<1>6. CASE Spawn
  BY <1>1, <1>6 DEF Spawn, sys_spawn, create, irq_vars
<1>7. CASE Yield \/ handle_timer \/ External \/ Device \/ Halted \/ UNCHANGED vars
  BY <1>1, <1>7 DEF Yield, sys_yield, handle_timer, External, handle_external,
                    Device, raise, Halted, vars, proc_vars, irq_vars
<1> QED BY <1>2, <1>3, <1>4, <1>5, <1>6, <1>7 DEF Next

(* A blocked receiver wakes up with a message, or with an interrupt it owns. *)
LEMMA ReceivedLemma ==
  ASSUME IInv, [Next]_vars, ~Reboot, NoOwner, NEW p \in PIDs,
         state[p] = "BlockedRecv", state'[p] # "BlockedRecv"
  PROVE  ipc_target[p] \in {0, registers(p)'.a1}
<1> DEFINE c == CURRENT_PID
<1> USE DEF Outcome, Same
<1>1. state \in StateTable /\ context \in ContextTable
  BY DEF IInv, TypeOK, ProcTypeOK, SchedTypeOK, StateTable, ContextTable
<1>2. mode = "user" => c \in PIDs /\ p # c /\ state[c] = "Running"
  BY CallerLemma DEF IInv
<1>3. ~(Putchar \/ Unknown \/ Getpid \/ IrqRegister \/ IrqAck)
  BY LocalOutcome
<1>4. ~(handle_timer \/ Device \/ Halted \/ UNCHANGED vars)
  BY InvisibleOutcome
<1>5. ~Yield
  BY YieldOutcome, ArgumentsLemma DEF Yield, Ecall
<1>6. ~External
  <2>1. \A o \in PIDs : o # 0
    BY DEF PIDs
  <2> QED BY <2>1, ExternalOutcome DEF NoOwner
<1>7. CASE Send
  <2>1. PICK f \in TrapFrame : mode = "user" /\ sys_send(f)
    BY <1>7, ArgumentsLemma DEF Send, Ecall
  <2>2. p = f.a0 /\ Accepts(p, c)
    BY <1>1, <1>2, <2>1, SendOutcome DEF StateTable
  <2>3. registers(p)' = [context[p] EXCEPT !.a0 = f.a1, !.a1 = c]
    BY <1>1, <1>2, <2>1, <2>2, SendOutcome DEF StateTable, ContextTable
  <2> QED BY <1>1, <2>2, <2>3 DEF Accepts, ContextTable, TrapFrame
<1>8. CASE Call
  <2>1. PICK f \in TrapFrame : mode = "user" /\ sys_call(f)
    BY <1>8, ArgumentsLemma DEF Call, Ecall
  <2>2. p = f.a0 /\ Accepts(p, c)
    BY <1>1, <1>2, <2>1, CallOutcome DEF StateTable
  <2>3. registers(p)' = [a0 |-> f.a1, a1 |-> c, a2 |-> f.a2]
    BY <1>1, <1>2, <2>1, <2>2, CallOutcome DEF StateTable, ContextTable
  <2> QED BY <2>2, <2>3 DEF Accepts
<1>9. ~Wait
  <2> SUFFICES ASSUME Wait PROVE FALSE
    OBVIOUS
  <2>1. PICK f \in TrapFrame : mode = "user" /\ sys_wait(f)
    BY ArgumentsLemma DEF Wait, Ecall
  <2> QED BY <1>1, <1>2, <2>1, WaitOutcome DEF StateTable
<1>10. ~Spawn
  <2> SUFFICES ASSUME Spawn PROVE FALSE
    OBVIOUS
  <2>1. PICK image \in Images : mode = "user" /\ sys_spawn(zero, image)
    BY DEF Spawn, Ecall
  <2> QED BY <1>1, <1>2, <2>1, SpawnOutcome, ArgumentsLemma DEF StateTable
<1>11. ~Reply
  <2> SUFFICES ASSUME Reply PROVE FALSE
    OBVIOUS
  <2>1. PICK f \in TrapFrame : mode = "user" /\ sys_reply(f)
    BY ArgumentsLemma DEF Reply, Ecall
  <2> QED BY <1>1, <1>2, <2>1, ReplyOutcome DEF Called, StateTable
<1>12. ~Receive
  <2> SUFFICES ASSUME Receive PROVE FALSE
    OBVIOUS
  <2>1. PICK f \in TrapFrame : mode = "user" /\ sys_receive(f)
    BY ArgumentsLemma DEF Receive, Ecall
  <2> QED BY <1>1, <1>2, <2>1, ReceiveOutcome DEF Offers, StateTable
<1>13. ~(Exit \/ Fault)
  <2> SUFFICES ASSUME Exit \/ Fault PROVE FALSE
    OBVIOUS
  <2>1. PICK f \in TrapFrame, code \in Word, last \in PIDs \cup {0} :
          mode = "user" /\ terminate(f, code, last)
    BY EndLemma
  <2> QED BY <1>1, <1>2, <2>1, TerminateOutcome DEF StateTable
<1> QED BY <1>3, <1>4, <1>5, <1>6, <1>7, <1>8, <1>9, <1>10, <1>11, <1>12, <1>13
        DEF Next

(***************************************************************************)
(* sys_receive: without processes that own IRQs, SYS_RECEIVE(from) returns *)
(* a message of `from` and of nobody else.  (irq_notify ignores `from`, so *)
(* the owner of an IRQ is not promised that.)                              *)
(***************************************************************************)
THEOREM ReceivesAreFromExpected ==
  ASSUME "SYS_IRQ_REGISTER" \notin Syscalls
  PROVE  Spec => ReceivesFromExpected
<1>1. Init => NoOwner
  BY DEF Init, launch, Unowned, NoOwner
<1>2. IInv /\ NoOwner /\ [Next]_vars => NoOwner'
  BY NoOwnerLemma
<1>3. IInv /\ NoOwner /\ [Next]_vars =>
        [\A p \in PIDs :
           /\ ~Reboot
           /\ state[p] = "BlockedRecv"
           /\ state'[p] # "BlockedRecv"
           => ipc_target[p] \in {0, registers(p)'.a1}]_vars
  BY ReceivedLemma
<1> QED BY <1>1, <1>2, <1>3, KernelInvariant, PTL DEF Spec, ReceivesFromExpected

----------------------------------------------------------------------------
(* `the` is the only IRQ that has an owner, and its owner knows it. *)
OwnersKnow(the) ==
  \A i \in IRQs : IRQ_OWNER[i] # 0 => i = the /\ irq_num[IRQ_OWNER[i]] = i

(***************************************************************************)
(* While processes register one IRQ only, irq_num remembers all that a     *)
(* process owns, which is what its exit releases.                          *)
(***************************************************************************)
LEMMA OwnersKnowLemma ==
  ASSUME NEW the \in IRQs \ {0}, \A a \in IrqArgs : is_valid_irq(as_u32(a)) => as_u32(a) = the,
         IInv, OwnersKnow(the), [Next]_vars
  PROVE  OwnersKnow(the)'
<1> DEFINE c == CURRENT_PID
<1>1. ASSUME UNCHANGED <<irq_num, IRQ_OWNER>> PROVE OwnersKnow(the)'
  BY <1>1 DEF OwnersKnow
<1>2. irq_num \in [PIDs -> IRQs] /\ IRQ_OWNER \in [IRQs -> PIDs \cup {0}]
  BY DEF IInv, TypeOK, ProcTypeOK
<1>3. mode = "user" => c \in PIDs
  BY CallerLemma DEF IInv
<1>4. CASE Exit \/ Fault
  <2>1. PICK f \in TrapFrame, code \in Word, last \in PIDs \cup {0} :
          mode = "user" /\ terminate(f, code, last)
    BY <1>4, EndLemma
  <2>2. /\ irq_num' = [irq_num EXCEPT ![c] = 0]
        /\ IRQ_OWNER' = IF irq_num[c] # 0 /\ is_valid_irq(irq_num[c])
                        THEN [IRQ_OWNER EXCEPT ![irq_num[c]] = 0] ELSE IRQ_OWNER
    BY <2>1 DEF terminate, Released
  <2>3. is_valid_irq(irq_num[c])
    BY <1>2, <1>3, <2>1, ProcessAssumption DEF is_valid_irq, IRQs
  <2> QED BY <1>2, <1>3, <2>1, <2>2, <2>3 DEF OwnersKnow
<1>5. CASE Reboot
  BY <1>5 DEF Reboot, sys_reboot, sbi_system_reset, Unowned, OwnersKnow
<1>6. CASE IrqRegister
  <2>1. PICK f \in Args(IrqArgs, {0}, {0}) : sys_irq_register(f)
    BY <1>6 DEF IrqRegister
  <2>2. CASE UNCHANGED <<irq_num, IRQ_OWNER>>
    BY <1>1, <2>2
  <2>3. CASE /\ Unclaimed(as_u32(f.a0))
             /\ IRQ_OWNER' = [IRQ_OWNER EXCEPT ![as_u32(f.a0)] = c]
             /\ irq_num' = [irq_num EXCEPT ![c] = as_u32(f.a0)]
    <3>1. as_u32(f.a0) = the /\ IRQ_OWNER[the] = 0
      BY <2>3 DEF Args, Unclaimed
    <3>2. c \in PIDs
      BY <1>3, <1>6 DEF IrqRegister, Ecall
    <3> QED BY <1>2, <2>3, <3>1, <3>2 DEF OwnersKnow
  <2> QED BY <2>1, <2>2, <2>3 DEF sys_irq_register
<1>7. CASE Putchar \/ Unknown \/ Getpid \/ IrqAck \/ Send \/ Call \/ Reply \/ Receive \/ Wait
  BY <1>1, <1>7
  DEF Putchar, Unknown, Getpid, IrqAck, Send, Call, Reply, Receive, Wait, sys_putchar,
      sys_unknown, sys_getpid, sys_irq_ack, sys_send, sys_call, sys_reply, sys_receive,
      sys_wait, irq_vars
<1>8. CASE Spawn
  <2>1. PICK image \in Images : sys_spawn(zero, image)
    BY <1>8 DEF Spawn
  <2>2. CASE UNCHANGED irq_vars
    BY <1>1, <2>2 DEF irq_vars
  <2>3. ASSUME NEW new \in PIDs, FreeSlot(new), create(zero, new)
        PROVE  OwnersKnow(the)'
    <3>1. irq_num[new] = 0
      BY <2>3 DEF FreeSlot, IInv, AcksItsOwnIrq
    <3>2. irq_num' = [irq_num EXCEPT ![new] = 0] /\ UNCHANGED IRQ_OWNER
      BY <2>3 DEF create
    <3> QED BY <1>2, <3>1, <3>2 DEF OwnersKnow
  <2> QED BY <2>1, <2>2, <2>3 DEF sys_spawn
<1>9. CASE Yield \/ handle_timer \/ External \/ Device \/ Halted \/ UNCHANGED vars
  BY <1>1, <1>9 DEF Yield, sys_yield, handle_timer, External, handle_external,
                    Device, raise, Halted, vars, proc_vars, irq_vars
<1> QED BY <1>4, <1>5, <1>6, <1>7, <1>8, <1>9 DEF Next

(***************************************************************************)
(* sys_exit, kill_current: while one IRQ is all that processes register,   *)
(* as the repository's own servers do, no IRQ belongs to a dead process.   *)
(* (A process that registered two IRQs releases the second only.)          *)
(***************************************************************************)
THEOREM ExitReleasesIrq ==
  ASSUME NEW the \in IRQs \ {0},
         \A a \in IrqArgs : is_valid_irq(as_u32(a)) => as_u32(a) = the
  PROVE  Spec => []OwnersAlive
<1>1. Init => OwnersKnow(the)
  BY DEF Init, launch, Unowned, OwnersKnow
<1>2. IInv /\ OwnersKnow(the) /\ [Next]_vars => OwnersKnow(the)'
  BY OwnersKnowLemma
<1>3. IInv /\ OwnersKnow(the) => OwnersAlive
  BY DEF IInv, TypeOK, ProcTypeOK, OwnersKnow, AcksItsOwnIrq, OwnersAlive
<1> QED BY <1>1, <1>2, <1>3, KernelInvariant, PTL DEF Spec

----------------------------------------------------------------------------
(* The kernel implements Rendezvous, step by step, without SYS_YIELD. *)

(***************************************************************************)
(* What the refinement needs beyond IInv: a blocked process still has the  *)
(* argument registers it trapped with, since the handler that releases it  *)
(* writes a0 only.  (BlockedNet is a state of the `net` build.)            *)
(***************************************************************************)
KeepsArguments(p) ==
  /\ state[p] # "BlockedNet"
  /\ state[p] \in {"BlockedSend", "BlockedCall"} => registers(p).a1 = ipc_value[p]
  /\ state[p] = "BlockedWait" => registers(p).a1 = 0

RefInv == \A p \in PIDs : KeepsArguments(p)

----------------------------------------------------------------------------
(* What a process does and sees, by the state of its slot. *)
LEMMA ActivityLemma ==
  ASSUME NEW p \in PIDs
  PROVE  /\ state[p] = "Free" => Activity(p) = Abstract!dead
         /\ state[p] \in {"Ready", "Running"} => Activity(p) = Abstract!active
         /\ state[p] = "BlockedSend" =>
               Activity(p) = Abstract!sending(ipc_target[p], ipc_value[p])
         /\ state[p] = "BlockedCall" =>
               Activity(p) = Abstract!calling(ipc_target[p], ipc_value[p])
         /\ state[p] = "BlockedRecv" => Activity(p) = Abstract!receiving(ipc_target[p])
         /\ state[p] = "BlockedWait" => Activity(p) = Abstract!waiting(ipc_target[p])
         /\ state[p] \in {"Ready", "Running"} =>
               Result(p) = Abstract!regs(registers(p).a0, registers(p).a1)
         /\ state[p] \notin {"Ready", "Running"} => Result(p) = Abstract!hidden
  BY DEF Activity, Result, Abstract!dead, Abstract!active, Abstract!sending,
         Abstract!calling, Abstract!receiving, Abstract!waiting, Abstract!regs,
         Abstract!hidden

(* The same after a step with outcome st, rg. *)
LEMMA AfterLemma ==
  ASSUME NEW st, NEW rg, Outcome(st, rg), NEW p \in PIDs
  PROVE  /\ st[p] = "Free" => Activity(p)' = Abstract!dead
         /\ st[p] \in {"Ready", "Running"} => Activity(p)' = Abstract!active
         /\ st[p] = "BlockedSend" =>
               Activity(p)' = Abstract!sending(ipc_target'[p], ipc_value'[p])
         /\ st[p] = "BlockedCall" =>
               Activity(p)' = Abstract!calling(ipc_target'[p], ipc_value'[p])
         /\ st[p] = "BlockedRecv" => Activity(p)' = Abstract!receiving(ipc_target'[p])
         /\ st[p] = "BlockedWait" => Activity(p)' = Abstract!waiting(ipc_target'[p])
         /\ st[p] \in {"Ready", "Running"} =>
               Result(p)' = Abstract!regs(rg[p].a0, rg[p].a1)
         /\ st[p] \notin {"Ready", "Running"} => Result(p)' = Abstract!hidden
<1>1. Same(st[p], state'[p]) /\ registers(p)' = rg[p]
  BY DEF Outcome
<1> QED BY <1>1
        DEF Same, Activity, Result, Abstract!dead, Abstract!active, Abstract!sending,
            Abstract!calling, Abstract!receiving, Abstract!waiting, Abstract!regs,
            Abstract!hidden

(* A process that a step with outcome st, rg leaves alone. *)
LEMMA UntouchedLemma ==
  ASSUME IInv, RefInv, NEW st, NEW rg, Outcome(st, rg), NEW p \in PIDs,
         st[p] = state[p], rg[p] = registers(p),
         ipc_target'[p] = ipc_target[p], ipc_value'[p] = ipc_value[p]
  PROVE  /\ Activity(p)' = Activity(p) /\ Result(p)' = Result(p)
         /\ KeepsArguments(p)'
<1>1. state[p] \in ProcessState \ {"BlockedNet"}
  BY DEF IInv, TypeOK, ProcTypeOK, SchedTypeOK, RefInv, KeepsArguments
<1>2. Activity(p)' = Activity(p) /\ Result(p)' = Result(p)
  BY <1>1, ActivityLemma, AfterLemma DEF ProcessState
<1>3. KeepsArguments(p)'
  <2>1. Same(st[p], state'[p]) /\ registers(p)' = rg[p]
    BY DEF Outcome
  <2> QED BY <2>1 DEF RefInv, KeepsArguments, Same
<1> QED BY <1>2, <1>3

(* The process c that makes a call is active. *)
LEMMA CallerIsActive ==
  ASSUME IInv, mode = "user", NEW c, c = CURRENT_PID
  PROVE  /\ c \in PIDs /\ state[c] = "Running"
         /\ c \in Abstract!Active /\ Activity(c) = Abstract!active
         /\ \A p \in PIDs \ {c} : registers(p) = context[p]
         /\ context \in ContextTable /\ state \in StateTable
<1>1. /\ c \in PIDs /\ state[c] = "Running"
      /\ \A p \in PIDs : p # c => state[p] # "Running"
      /\ context \in ContextTable /\ state \in StateTable
  BY CallerLemma DEF IInv
<1>2. Activity(c) = Abstract!active
  BY <1>1, ActivityLemma
<1> QED BY <1>1, <1>2 DEF Abstract!Active, registers

(* A step no process notices is a stuttering step of Rendezvous. *)
LEMMA InvisibleRefines ==
  ASSUME IInv, RefInv, Outcome(state, Registers),
         UNCHANGED <<ipc_vars, life_vars, irq_pending>>
  PROVE  RefInv' /\ UNCHANGED Abstract!vars
<1>1. \A p \in PIDs : /\ Activity(p)' = Activity(p) /\ Result(p)' = Result(p)
                      /\ KeepsArguments(p)'
  BY UntouchedLemma DEF Registers, ipc_vars
<1> QED BY <1>1 DEF RefInv, Abstract!vars, life_vars

(* A call that concerns its caller alone is a Local step. *)
LEMMA LocalRefines ==
  ASSUME IInv, RefInv, mode = "user", NEW c, c = CURRENT_PID, NEW r \in TrapFrame,
         Outcome(state, [context EXCEPT ![c] = r]),
         UNCHANGED <<ipc_vars, life_vars, irq_pending>>
  PROVE  RefInv' /\ Abstract!Local(c)
<1> DEFINE rg == [context EXCEPT ![c] = r]
<1>1. c \in PIDs /\ state[c] = "Running" /\ Activity(c) = Abstract!active
  BY CallerIsActive
<1>2. rg[c] = r /\ \A p \in PIDs \ {c} : rg[p] = registers(p)
  BY CallerIsActive DEF ContextTable
<1> HIDE DEF rg
<1>3. Outcome(state, rg)
  BY DEF rg
<1>4. \A p \in PIDs \ {c} :
        /\ Activity(p)' = Activity(p) /\ Result(p)' = Result(p)
        /\ KeepsArguments(p)'
  BY <1>2, <1>3, UntouchedLemma DEF ipc_vars
<1>5. Activity(c)' = Abstract!active /\ Result(c)' = Abstract!regs(r.a0, r.a1)
  BY <1>1, <1>2, <1>3, AfterLemma
<1>6. KeepsArguments(c)'
  BY <1>1, <1>3 DEF Outcome, Same, KeepsArguments
<1>7. Result(c)' \in Abstract!Registers
  BY <1>5 DEF Abstract!regs, Abstract!Registers, TrapFrame
<1>8. Abstract!Local(c)
  BY <1>1, <1>4, <1>5, <1>7 DEF Abstract!Local, life_vars
<1> QED BY <1>4, <1>6, <1>8 DEF RefInv

(* Awaiting a message, in the table and in Rendezvous. *)
LEMMA AwaitsLemma ==
  ASSUME IInv, RefInv, NEW t \in PIDs, NEW c
  PROVE  Abstract!Awaits(t, c) <=> Accepts(t, c)
<1>1. state[t] \in ProcessState \ {"BlockedNet"}
  BY DEF IInv, TypeOK, ProcTypeOK, SchedTypeOK, RefInv, KeepsArguments
<1> QED BY <1>1, ActivityLemma
        DEF ProcessState, Accepts, Abstract!Awaits, Abstract!dead, Abstract!active,
            Abstract!sending, Abstract!calling, Abstract!receiving, Abstract!waiting

(* Offering a message, in the table and in Rendezvous. *)
LEMMA OffersLemma ==
  ASSUME IInv, RefInv, NEW i \in PIDs, NEW r, NEW from
  PROVE  Abstract!Offers(i, r, from) <=> Offers(i, r, from)
<1>1. state[i] \in ProcessState \ {"BlockedNet"}
  BY DEF IInv, TypeOK, ProcTypeOK, SchedTypeOK, RefInv, KeepsArguments
<1> QED BY <1>1, ActivityLemma
        DEF ProcessState, Offers, Abstract!Offers, Abstract!dead, Abstract!active,
            Abstract!sending, Abstract!calling, Abstract!receiving, Abstract!waiting

(* A caller that blocks on t, and what the other processes see of it: nothing. *)
LEMMA BlockRefines ==
  ASSUME IInv, RefInv, mode = "user", NEW c, c = CURRENT_PID, NEW f \in TrapFrame, NEW t,
         NEW s \in {"BlockedSend", "BlockedCall", "BlockedRecv", "BlockedWait"},
         Outcome([state EXCEPT ![c] = s], [context EXCEPT ![c] = f]),
         ipc_target' = [ipc_target EXCEPT ![c] = t],
         IF s \in {"BlockedSend", "BlockedCall"}
         THEN ipc_value' = [ipc_value EXCEPT ![c] = f.a1] ELSE ipc_value' = ipc_value,
         s = "BlockedWait" => f.a1 = 0
  PROVE  /\ RefInv'
         /\ \A p \in PIDs \ {c} : Activity(p)' = Activity(p) /\ Result(p)' = Result(p)
         /\ Result(c)' = Abstract!hidden
         /\ s = "BlockedSend" => Activity(c)' = Abstract!sending(t, f.a1)
         /\ s = "BlockedCall" => Activity(c)' = Abstract!calling(t, f.a1)
         /\ s = "BlockedRecv" => Activity(c)' = Abstract!receiving(t)
         /\ s = "BlockedWait" => Activity(c)' = Abstract!waiting(t)
<1> DEFINE st == [state EXCEPT ![c] = s]
           rg == [context EXCEPT ![c] = f]
<1>1. /\ c \in PIDs /\ st[c] = s /\ rg[c] = f
      /\ ipc_target'[c] = t
      /\ s \in {"BlockedSend", "BlockedCall"} => ipc_value'[c] = f.a1
      /\ \A p \in PIDs \ {c} : /\ st[p] = state[p] /\ rg[p] = registers(p)
                               /\ ipc_target'[p] = ipc_target[p]
                               /\ ipc_value'[p] = ipc_value[p]
  BY CallerIsActive DEF ContextTable, StateTable, IInv, TypeOK, ProcTypeOK
<1>2. Outcome(st, rg)
  OBVIOUS
<1> HIDE DEF st, rg
<1>3. \A p \in PIDs \ {c} :
        /\ Activity(p)' = Activity(p) /\ Result(p)' = Result(p)
        /\ KeepsArguments(p)'
  BY <1>1, <1>2, UntouchedLemma
<1>4. /\ Result(c)' = Abstract!hidden
      /\ s = "BlockedSend" => Activity(c)' = Abstract!sending(t, f.a1)
      /\ s = "BlockedCall" => Activity(c)' = Abstract!calling(t, f.a1)
      /\ s = "BlockedRecv" => Activity(c)' = Abstract!receiving(t)
      /\ s = "BlockedWait" => Activity(c)' = Abstract!waiting(t)
  BY <1>1, <1>2, AfterLemma
<1>5. KeepsArguments(c)'
  BY <1>1, <1>2 DEF Outcome, Same, KeepsArguments
<1> QED BY <1>3, <1>4, <1>5 DEF RefInv

----------------------------------------------------------------------------
(* SYS_SEND: an error, a delivery or a blocked sender. *)
LEMMA SendRefines ==
  ASSUME IInv, RefInv, Send
  PROVE  RefInv' /\ Abstract!Next
<1>1. PICK f \in Args(PidArgs, Messages, {0}) : sys_send(f)
  BY DEF Send
<1>2. PICK c : c = CURRENT_PID
  OBVIOUS
<1>3. f \in TrapFrame /\ f.a1 \in Messages /\ mode = "user"
  BY ArgumentsLemma DEF Args, Send, Ecall
<1>4. /\ c \in PIDs /\ state[c] = "Running" /\ c \in Abstract!Active
      /\ Activity(c) = Abstract!active
      /\ \A p \in PIDs \ {c} : registers(p) = context[p]
      /\ context \in ContextTable /\ state \in StateTable
  BY <1>2, <1>3, CallerIsActive
<1>5. c \in Word /\ ERR \in Word /\ 0 \in Word /\ f.a1 \in Word
  BY <1>2, <1>3, EntryLemma
<1> DEFINE t == f.a0
<1>6. UNCHANGED <<life_vars, irq_pending>>
  BY <1>1 DEF sys_send, irq_vars
<1>7. CASE /\ Outcome(state, [context EXCEPT ![c] = [f EXCEPT !.a0 = ERR]])
           /\ UNCHANGED ipc_vars
  <2>1. [f EXCEPT !.a0 = ERR] \in TrapFrame
    BY <1>3, <1>5 DEF TrapFrame
  <2>2. RefInv' /\ Abstract!Local(c)
    BY <1>2, <1>3, <1>6, <1>7, <2>1, LocalRefines
  <2> QED BY <1>4, <2>2 DEF Abstract!Next
<1>8. CASE /\ t \in PIDs \ {c} /\ Accepts(t, c)
           /\ Outcome([state EXCEPT ![t] = "Ready"],
                      [context EXCEPT ![t] = [context[t] EXCEPT !.a0 = f.a1, !.a1 = c],
                                      ![c] = [f EXCEPT !.a0 = 0]])
           /\ UNCHANGED ipc_vars
  <2> DEFINE st == [state EXCEPT ![t] = "Ready"]
             rg == [context EXCEPT ![t] = [context[t] EXCEPT !.a0 = f.a1, !.a1 = c],
                                   ![c] = [f EXCEPT !.a0 = 0]]
  <2>1. /\ st[t] = "Ready" /\ st[c] = "Running"
        /\ \A p \in PIDs \ {c, t} : st[p] = state[p] /\ rg[p] = registers(p)
        /\ rg[t].a0 = f.a1 /\ rg[t].a1 = c
        /\ rg[c].a0 = 0 /\ rg[c].a1 = f.a1
    BY <1>3, <1>4, <1>8 DEF ContextTable, StateTable, TrapFrame
  <2>2. Outcome(st, rg)
    BY <1>8
  <2> HIDE DEF st, rg
  <2>3. \A p \in PIDs \ {c, t} :
          /\ Activity(p)' = Activity(p) /\ Result(p)' = Result(p)
          /\ KeepsArguments(p)'
    BY <1>8, <2>1, <2>2, UntouchedLemma DEF ipc_vars
  <2>4. /\ Activity(t)' = Abstract!active /\ Result(t)' = Abstract!regs(f.a1, c)
        /\ Activity(c)' = Abstract!active /\ Result(c)' = Abstract!regs(0, f.a1)
    BY <1>4, <1>8, <2>1, <2>2, AfterLemma
  <2>5. KeepsArguments(t)' /\ KeepsArguments(c)'
    BY <1>4, <1>8, <2>1, <2>2 DEF Outcome, Same, KeepsArguments
  <2>6. Abstract!Awaits(t, c)
    BY <1>8, AwaitsLemma
  <2>7. Abstract!Send(c, t, f.a1)
    BY <1>4, <1>6, <1>8, <2>3, <2>4, <2>6 DEF Abstract!Send, life_vars
  <2> QED BY <1>3, <1>4, <1>8, <2>3, <2>5, <2>7 DEF RefInv, Abstract!Next, Abstract!Meet
<1>9. CASE /\ t \in PIDs \ {c} /\ ~Accepts(t, c)
           /\ Outcome([state EXCEPT ![c] = "BlockedSend"], [context EXCEPT ![c] = f])
           /\ ipc_target' = [ipc_target EXCEPT ![c] = t]
           /\ ipc_value' = [ipc_value EXCEPT ![c] = f.a1]
  <2>1. /\ RefInv'
        /\ \A p \in PIDs \ {c} : Activity(p)' = Activity(p) /\ Result(p)' = Result(p)
        /\ Activity(c)' = Abstract!sending(t, f.a1) /\ Result(c)' = Abstract!hidden
    BY <1>2, <1>3, <1>9, BlockRefines
  <2>2. ~Abstract!Awaits(t, c)
    BY <1>9, AwaitsLemma
  <2>3. Abstract!Send(c, t, f.a1)
    BY <1>4, <1>6, <1>9, <2>1, <2>2 DEF Abstract!Send, life_vars
  <2> QED BY <1>3, <1>4, <1>9, <2>1, <2>3 DEF Abstract!Next, Abstract!Meet
<1> QED BY <1>1, <1>2, <1>3, <1>7, <1>8, <1>9, SendOutcome

(* SYS_CALL: an error, or a blocked caller, and a delivery if it was awaited. *)
LEMMA CallRefines ==
  ASSUME IInv, RefInv, Call
  PROVE  RefInv' /\ Abstract!Next
<1>1. PICK f \in Args(PidArgs, Messages, Extras) : sys_call(f)
  BY DEF Call
<1>2. PICK c : c = CURRENT_PID
  OBVIOUS
<1>3. f \in TrapFrame /\ f.a1 \in Messages /\ mode = "user"
  BY ArgumentsLemma DEF Args, Call, Ecall
<1>4. /\ c \in PIDs /\ state[c] = "Running" /\ c \in Abstract!Active
      /\ \A p \in PIDs \ {c} : registers(p) = context[p]
      /\ context \in ContextTable /\ state \in StateTable
  BY <1>2, <1>3, CallerIsActive
<1>5. c \in Word /\ ERR \in Word /\ f.a1 \in Word /\ f.a2 \in Word
  BY <1>2, <1>3, EntryLemma
<1> DEFINE t == f.a0
<1>6. UNCHANGED <<life_vars, irq_pending>>
  BY <1>1 DEF sys_call, irq_vars
<1>7. CASE /\ Outcome(state, [context EXCEPT ![c] = [f EXCEPT !.a0 = ERR]])
           /\ UNCHANGED ipc_vars
  <2>1. [f EXCEPT !.a0 = ERR] \in TrapFrame
    BY <1>3, <1>5 DEF TrapFrame
  <2>2. RefInv' /\ Abstract!Local(c)
    BY <1>2, <1>3, <1>6, <1>7, <2>1, LocalRefines
  <2> QED BY <1>4, <2>2 DEF Abstract!Next
<1>8. CASE /\ t \in PIDs \ {c} /\ Accepts(t, c)
           /\ Outcome([state EXCEPT ![c] = "BlockedCall", ![t] = "Ready"],
                      [context EXCEPT ![t] = [a0 |-> f.a1, a1 |-> c, a2 |-> f.a2], ![c] = f])
           /\ ipc_target' = [ipc_target EXCEPT ![c] = t]
           /\ ipc_value' = [ipc_value EXCEPT ![c] = f.a1]
  <2> DEFINE st == [state EXCEPT ![c] = "BlockedCall", ![t] = "Ready"]
             rg == [context EXCEPT ![t] = [a0 |-> f.a1, a1 |-> c, a2 |-> f.a2], ![c] = f]
  <2>1. /\ st[c] = "BlockedCall" /\ st[t] = "Ready" /\ rg[c] = f
        /\ ipc_target'[c] = t /\ ipc_value'[c] = f.a1
        /\ \A p \in PIDs \ {c, t} : /\ st[p] = state[p] /\ rg[p] = registers(p)
                                    /\ ipc_target'[p] = ipc_target[p]
                                    /\ ipc_value'[p] = ipc_value[p]
        /\ rg[t].a0 = f.a1 /\ rg[t].a1 = c
    BY <1>4, <1>8 DEF ContextTable, StateTable, IInv, TypeOK, ProcTypeOK
  <2>2. Outcome(st, rg)
    BY <1>8
  <2> HIDE DEF st, rg
  <2>3. \A p \in PIDs \ {c, t} :
          /\ Activity(p)' = Activity(p) /\ Result(p)' = Result(p)
          /\ KeepsArguments(p)'
    BY <2>1, <2>2, UntouchedLemma
  <2>4. /\ Activity(t)' = Abstract!active /\ Result(t)' = Abstract!regs(f.a1, c)
        /\ Activity(c)' = Abstract!calling(t, f.a1) /\ Result(c)' = Abstract!hidden
    BY <1>4, <1>8, <2>1, <2>2, AfterLemma
  <2>5. KeepsArguments(t)' /\ KeepsArguments(c)'
    BY <1>4, <1>8, <2>1, <2>2 DEF Outcome, Same, KeepsArguments
  <2>6. Abstract!Awaits(t, c)
    BY <1>8, AwaitsLemma
  <2>7. Abstract!Call(c, t, f.a1)
    BY <1>4, <1>6, <1>8, <2>3, <2>4, <2>6 DEF Abstract!Call, life_vars
  <2> QED BY <1>3, <1>4, <1>8, <2>3, <2>5, <2>7 DEF RefInv, Abstract!Next, Abstract!Meet
<1>9. CASE /\ t \in PIDs \ {c} /\ ~Accepts(t, c)
           /\ Outcome([state EXCEPT ![c] = "BlockedCall"], [context EXCEPT ![c] = f])
           /\ ipc_target' = [ipc_target EXCEPT ![c] = t]
           /\ ipc_value' = [ipc_value EXCEPT ![c] = f.a1]
  <2>1. /\ RefInv'
        /\ \A p \in PIDs \ {c} : Activity(p)' = Activity(p) /\ Result(p)' = Result(p)
        /\ Activity(c)' = Abstract!calling(t, f.a1) /\ Result(c)' = Abstract!hidden
    BY <1>2, <1>3, <1>9, BlockRefines
  <2>2. ~Abstract!Awaits(t, c)
    BY <1>9, AwaitsLemma
  <2>3. Abstract!Call(c, t, f.a1)
    BY <1>4, <1>6, <1>9, <2>1, <2>2 DEF Abstract!Call, life_vars
  <2> QED BY <1>3, <1>4, <1>9, <2>1, <2>3 DEF Abstract!Next, Abstract!Meet
<1> QED BY <1>1, <1>2, <1>3, <1>7, <1>8, <1>9, CallOutcome

(* SYS_REPLY: an error, or the end of the caller's call. *)
LEMMA ReplyRefines ==
  ASSUME IInv, RefInv, Reply
  PROVE  RefInv' /\ Abstract!Next
<1>1. PICK f \in Args(PidArgs, Messages, {0}) : sys_reply(f)
  BY DEF Reply
<1>2. PICK c : c = CURRENT_PID
  OBVIOUS
<1>3. f \in TrapFrame /\ f.a1 \in Messages /\ mode = "user"
  BY ArgumentsLemma DEF Args, Reply, Ecall
<1>4. /\ c \in PIDs /\ state[c] = "Running" /\ c \in Abstract!Active
      /\ Activity(c) = Abstract!active
      /\ \A p \in PIDs \ {c} : registers(p) = context[p]
      /\ context \in ContextTable /\ state \in StateTable
  BY <1>2, <1>3, CallerIsActive
<1>5. ERR \in Word /\ 0 \in Word /\ f.a1 \in Word
  BY <1>2, <1>3, EntryLemma
<1> DEFINE t == f.a0
<1>6. UNCHANGED <<ipc_vars, life_vars, irq_pending>>
  BY <1>1 DEF sys_reply, irq_vars
<1>7. CASE Outcome(state, [context EXCEPT ![c] = [f EXCEPT !.a0 = ERR]])
  <2>1. [f EXCEPT !.a0 = ERR] \in TrapFrame
    BY <1>3, <1>5 DEF TrapFrame
  <2>2. RefInv' /\ Abstract!Local(c)
    BY <1>2, <1>3, <1>6, <1>7, <2>1, LocalRefines
  <2> QED BY <1>4, <2>2 DEF Abstract!Next
<1>8. CASE /\ t \in PIDs \ {c} /\ Called(t, c)
           /\ Outcome([state EXCEPT ![t] = "Ready"],
                      [context EXCEPT ![t] = [context[t] EXCEPT !.a0 = f.a1],
                                      ![c] = [f EXCEPT !.a0 = 0]])
  <2> DEFINE st == [state EXCEPT ![t] = "Ready"]
             rg == [context EXCEPT ![t] = [context[t] EXCEPT !.a0 = f.a1],
                                   ![c] = [f EXCEPT !.a0 = 0]]
  <2>1. /\ st[t] = "Ready" /\ st[c] = "Running"
        /\ \A p \in PIDs \ {c, t} : st[p] = state[p] /\ rg[p] = registers(p)
        /\ rg[t].a0 = f.a1 /\ rg[t].a1 = registers(t).a1
        /\ rg[c].a0 = 0 /\ rg[c].a1 = f.a1
    BY <1>3, <1>4, <1>8 DEF ContextTable, StateTable, TrapFrame
  <2>2. Outcome(st, rg)
    BY <1>8
  <2> HIDE DEF st, rg
  <2>3. \A p \in PIDs \ {c, t} :
          /\ Activity(p)' = Activity(p) /\ Result(p)' = Result(p)
          /\ KeepsArguments(p)'
    BY <1>6, <2>1, <2>2, UntouchedLemma DEF ipc_vars
  <2>4. registers(t).a1 = ipc_value[t] /\ Activity(t) = Abstract!calling(c, ipc_value[t])
    BY <1>8, ActivityLemma DEF Called, RefInv, KeepsArguments
  <2>5. /\ Activity(t)' = Abstract!active /\ Result(t)' = Abstract!regs(f.a1, ipc_value[t])
        /\ Activity(c)' = Abstract!active /\ Result(c)' = Abstract!regs(0, f.a1)
    BY <1>4, <1>8, <2>1, <2>2, <2>4, AfterLemma
  <2>6. KeepsArguments(t)' /\ KeepsArguments(c)'
    BY <1>4, <1>8, <2>1, <2>2 DEF Outcome, Same, KeepsArguments
  <2>7. /\ Activity(t).is = "calling" /\ Activity(t).to = c
        /\ Activity(t).msg = ipc_value[t]
    BY <2>4 DEF Abstract!calling
  <2>8. Abstract!Reply(c, t, f.a1)
    BY <1>4, <1>6, <1>8, <2>3, <2>5, <2>7 DEF Abstract!Reply, life_vars
  <2> QED BY <1>3, <1>4, <1>8, <2>3, <2>6, <2>8 DEF RefInv, Abstract!Next, Abstract!Meet
<1> QED BY <1>1, <1>2, <1>3, <1>7, <1>8, ReplyOutcome

(***************************************************************************)
(* SYS_RECEIVE: a pending interrupt, the message of a process that offers  *)
(* one (the kernel takes the lowest PID, Rendezvous any), or blocking.     *)
(***************************************************************************)
LEMMA ReceiveRefines ==
  ASSUME IInv, RefInv, Receive
  PROVE  RefInv' /\ Abstract!Next
<1>1. PICK f \in Args(PidArgs, {0}, {0}) : sys_receive(f)
  BY DEF Receive
<1>2. PICK c : c = CURRENT_PID
  OBVIOUS
<1>3. f \in TrapFrame /\ f.a0 \in PidArgs /\ mode = "user"
  BY ArgumentsLemma DEF Args, Receive, Ecall
<1>4. /\ c \in PIDs /\ state[c] = "Running" /\ c \in Abstract!Active
      /\ Activity(c) = Abstract!active
      /\ \A p \in PIDs \ {c} : registers(p) = context[p]
      /\ context \in ContextTable /\ state \in StateTable
  BY <1>2, <1>3, CallerIsActive
<1> DEFINE from == f.a0
<1>5. /\ 0 \in Word /\ irq_num[c] \in Word
      /\ \A i \in PIDs : ipc_value[i] \in Word /\ i \in Word
      /\ irq_pending \in [PIDs -> BOOLEAN]
  BY <1>2, <1>3, <1>4, EntryLemma, WordLemma DEF IInv, TypeOK, ProcTypeOK
<1>6. UNCHANGED <<ipc_value, life_vars>>
  BY <1>1 DEF sys_receive
<1>7. \A r \in PidArgs : Abstract!Receive(c, r) => Abstract!Next
  BY <1>4 DEF Abstract!Next, Abstract!Meet
<1>8. CASE /\ irq_pending[c] /\ from = 0
           /\ Outcome(state, [context EXCEPT ![c] = [f EXCEPT !.a0 = irq_num[c], !.a1 = 0]])
           /\ irq_pending' = [irq_pending EXCEPT ![c] = FALSE]
           /\ UNCHANGED ipc_target
  <2> DEFINE rg == [context EXCEPT ![c] = [f EXCEPT !.a0 = irq_num[c], !.a1 = 0]]
  <2>1. /\ \A p \in PIDs \ {c} : rg[p] = registers(p)
        /\ rg[c].a0 = irq_num[c] /\ rg[c].a1 = 0
    BY <1>3, <1>4 DEF ContextTable, TrapFrame
  <2>2. Outcome(state, rg)
    BY <1>8
  <2> HIDE DEF rg
  <2>3. \A p \in PIDs \ {c} :
          /\ Activity(p)' = Activity(p) /\ Result(p)' = Result(p)
          /\ KeepsArguments(p)'
    BY <1>6, <1>8, <2>1, <2>2, UntouchedLemma
  <2>4. Activity(c)' = Abstract!active /\ Result(c)' = Abstract!regs(irq_num[c], 0)
    BY <1>4, <2>1, <2>2, AfterLemma
  <2>5. KeepsArguments(c)'
    BY <1>4, <2>2 DEF Outcome, Same, KeepsArguments
  <2>6. {p \in PIDs : irq_pending'[p]} = {p \in PIDs : irq_pending[p]} \ {c}
    BY <1>4, <1>5, <1>8
  <2>7. Result(c)' \in Abstract!Registers /\ Result(c)'.a1 = 0
    BY <1>5, <2>4 DEF Abstract!regs, Abstract!Registers
  <2>8. Abstract!Receive(c, from)
    BY <1>4, <1>6, <1>8, <2>3, <2>4, <2>6, <2>7 DEF Abstract!Receive, life_vars
  <2> QED BY <1>3, <1>7, <2>3, <2>5, <2>8 DEF RefInv
<1>9. ASSUME NEW i \in PIDs \ {c}, Offers(i, c, from), state[i] = "BlockedSend",
             Outcome([state EXCEPT ![i] = "Ready"],
                     [context EXCEPT ![i] = [context[i] EXCEPT !.a0 = 0],
                                     ![c] = [f EXCEPT !.a0 = ipc_value[i], !.a1 = i]]),
             UNCHANGED <<ipc_target, irq_pending>>
      PROVE  RefInv' /\ Abstract!Receive(c, from)
  <2> DEFINE st == [state EXCEPT ![i] = "Ready"]
             rg == [context EXCEPT ![i] = [context[i] EXCEPT !.a0 = 0],
                                   ![c] = [f EXCEPT !.a0 = ipc_value[i], !.a1 = i]]
  <2>1. /\ st[i] = "Ready" /\ st[c] = "Running"
        /\ \A p \in PIDs \ {c, i} : st[p] = state[p] /\ rg[p] = registers(p)
        /\ rg[i].a0 = 0 /\ rg[i].a1 = registers(i).a1
        /\ rg[c].a0 = ipc_value[i] /\ rg[c].a1 = i
    BY <1>3, <1>4, <1>9 DEF ContextTable, StateTable, TrapFrame
  <2>2. Outcome(st, rg)
    BY <1>9
  <2> HIDE DEF st, rg
  <2>3. \A p \in PIDs \ {c, i} :
          /\ Activity(p)' = Activity(p) /\ Result(p)' = Result(p)
          /\ KeepsArguments(p)'
    BY <1>6, <1>9, <2>1, <2>2, UntouchedLemma
  <2>4. registers(i).a1 = ipc_value[i] /\ Activity(i) = Abstract!sending(c, ipc_value[i])
    BY <1>9, ActivityLemma DEF Offers, RefInv, KeepsArguments
  <2>5. /\ Activity(i)' = Abstract!active /\ Result(i)' = Abstract!regs(0, ipc_value[i])
        /\ Activity(c)' = Abstract!active /\ Result(c)' = Abstract!regs(ipc_value[i], i)
    BY <1>4, <1>9, <2>1, <2>2, <2>4, AfterLemma
  <2>6. KeepsArguments(i)' /\ KeepsArguments(c)'
    BY <1>4, <1>9, <2>1, <2>2 DEF Outcome, Same, KeepsArguments
  <2>7. Activity(i).is = "sending" /\ Activity(i).msg = ipc_value[i]
    BY <2>4 DEF Abstract!sending
  <2>8. Abstract!Offers(i, c, from)
    BY <1>9, OffersLemma
  <2>9. Abstract!Receive(c, from)
    BY <1>4, <1>6, <1>9, <2>3, <2>5, <2>7, <2>8 DEF Abstract!Receive, life_vars
  <2> QED BY <2>3, <2>6, <2>9 DEF RefInv
<1>10. ASSUME NEW i \in PIDs \ {c}, Offers(i, c, from), state[i] # "BlockedSend",
              Outcome(state, [context EXCEPT
                                ![c] = [f EXCEPT !.a0 = ipc_value[i], !.a1 = i]]),
              UNCHANGED <<ipc_target, irq_pending>>
       PROVE  RefInv' /\ Abstract!Receive(c, from)
  <2> DEFINE rg == [context EXCEPT ![c] = [f EXCEPT !.a0 = ipc_value[i], !.a1 = i]]
  <2>1. /\ \A p \in PIDs \ {c} : rg[p] = registers(p)
        /\ rg[c].a0 = ipc_value[i] /\ rg[c].a1 = i
    BY <1>3, <1>4 DEF ContextTable, TrapFrame
  <2>2. Outcome(state, rg)
    BY <1>10
  <2> HIDE DEF rg
  <2>3. \A p \in PIDs \ {c} :
          /\ Activity(p)' = Activity(p) /\ Result(p)' = Result(p)
          /\ KeepsArguments(p)'
    BY <1>6, <1>10, <2>1, <2>2, UntouchedLemma
  <2>4. Activity(i) = Abstract!calling(c, ipc_value[i])
    BY <1>10, ActivityLemma DEF Offers
  <2>5. Activity(c)' = Abstract!active /\ Result(c)' = Abstract!regs(ipc_value[i], i)
    BY <1>4, <2>1, <2>2, AfterLemma
  <2>6. KeepsArguments(c)'
    BY <1>4, <2>2 DEF Outcome, Same, KeepsArguments
  <2>7. Activity(i).is = "calling" /\ Activity(i).msg = ipc_value[i]
    BY <2>4 DEF Abstract!calling
  <2>8. Abstract!Offers(i, c, from)
    BY <1>10, OffersLemma
  <2>9. Abstract!Receive(c, from)
    BY <1>4, <1>6, <1>10, <2>3, <2>5, <2>7, <2>8 DEF Abstract!Receive, life_vars
  <2> QED BY <2>3, <2>6, <2>9 DEF RefInv
<1>11. CASE /\ ~(irq_pending[c] /\ from = 0)
            /\ \A i \in PIDs : ~Offers(i, c, from)
            /\ Outcome([state EXCEPT ![c] = "BlockedRecv"], [context EXCEPT ![c] = f])
            /\ ipc_target' = [ipc_target EXCEPT ![c] = from]
            /\ UNCHANGED irq_pending
  <2>1. /\ RefInv'
        /\ \A p \in PIDs \ {c} : Activity(p)' = Activity(p) /\ Result(p)' = Result(p)
        /\ Activity(c)' = Abstract!receiving(from) /\ Result(c)' = Abstract!hidden
    BY <1>2, <1>3, <1>6, <1>11, BlockRefines
  <2>2. \A i \in PIDs : ~Abstract!Offers(i, c, from)
    BY <1>11, OffersLemma
  <2>3. Abstract!Receive(c, from)
    BY <1>4, <1>6, <1>11, <2>1, <2>2 DEF Abstract!Receive, life_vars
  <2> QED BY <1>3, <1>7, <2>1, <2>3
<1> QED BY <1>1, <1>2, <1>3, <1>7, <1>8, <1>9, <1>10, <1>11, ReceiveOutcome

(* SYS_WAIT: an error, the code of a dead child, or a blocked parent. *)
LEMMA WaitRefines ==
  ASSUME IInv, RefInv, Wait
  PROVE  RefInv' /\ Abstract!Next
<1>1. PICK f \in Args(PidArgs, {0}, {0}) : sys_wait(f)
  BY DEF Wait
<1>2. PICK c : c = CURRENT_PID
  OBVIOUS
<1>3. f \in TrapFrame /\ f.a1 = 0 /\ mode = "user"
  BY ArgumentsLemma DEF Args, Wait, Ecall
<1>4. /\ c \in PIDs /\ state[c] = "Running" /\ c \in Abstract!Active
      /\ Activity(c) = Abstract!active
      /\ context \in ContextTable
      /\ \A p \in PIDs \ {c} : registers(p) = context[p]
  BY <1>2, <1>3, CallerIsActive
<1>5. ERR \in Word
  BY <1>2, <1>3, EntryLemma
<1> DEFINE t == f.a0
<1>6. UNCHANGED <<ipc_value, ipc_arg, life_vars, irq_pending>>
  BY <1>1 DEF sys_wait, irq_vars
<1>7. CASE /\ Outcome(state, [context EXCEPT ![c] = [f EXCEPT !.a0 = ERR]])
           /\ UNCHANGED ipc_target
  <2>1. [f EXCEPT !.a0 = ERR] \in TrapFrame
    BY <1>3, <1>5 DEF TrapFrame
  <2>2. RefInv' /\ Abstract!Local(c)
    BY <1>2, <1>3, <1>6, <1>7, <2>1, LocalRefines DEF ipc_vars
  <2> QED BY <1>4, <2>2 DEF Abstract!Next
<1>8. CASE /\ t \in PIDs \ {c} /\ parent[t] = c /\ state[t] = "Free"
           /\ Outcome(state, [context EXCEPT ![c] = [f EXCEPT !.a0 = exit_code[t]]])
           /\ UNCHANGED ipc_target
  <2> DEFINE rg == [context EXCEPT ![c] = [f EXCEPT !.a0 = exit_code[t]]]
  <2>1. /\ \A p \in PIDs \ {c} : rg[p] = registers(p)
        /\ rg[c].a0 = exit_code[t] /\ rg[c].a1 = 0
    BY <1>3, <1>4 DEF ContextTable, TrapFrame
  <2>2. Outcome(state, rg)
    BY <1>8
  <2> HIDE DEF rg
  <2>3. \A p \in PIDs \ {c} :
          /\ Activity(p)' = Activity(p) /\ Result(p)' = Result(p)
          /\ KeepsArguments(p)'
    BY <1>6, <1>8, <2>1, <2>2, UntouchedLemma
  <2>4. Activity(c)' = Abstract!active /\ Result(c)' = Abstract!regs(exit_code[t], 0)
    BY <1>4, <2>1, <2>2, AfterLemma
  <2>5. KeepsArguments(c)'
    BY <1>4, <2>2 DEF Outcome, Same, KeepsArguments
  <2>6. Activity(t) = Abstract!dead
    BY <1>8, ActivityLemma
  <2>7. Abstract!Wait(c, t)
    BY <1>4, <1>6, <1>8, <2>3, <2>4, <2>6 DEF Abstract!Wait, life_vars
  <2> QED BY <1>4, <1>8, <2>3, <2>5, <2>7 DEF RefInv, Abstract!Next, Abstract!Meet
<1>9. CASE /\ t \in PIDs \ {c} /\ parent[t] = c /\ state[t] # "Free"
           /\ Outcome([state EXCEPT ![c] = "BlockedWait"], [context EXCEPT ![c] = f])
           /\ ipc_target' = [ipc_target EXCEPT ![c] = t]
  <2>1. /\ RefInv'
        /\ \A p \in PIDs \ {c} : Activity(p)' = Activity(p) /\ Result(p)' = Result(p)
        /\ Activity(c)' = Abstract!waiting(t) /\ Result(c)' = Abstract!hidden
    BY <1>2, <1>3, <1>6, <1>9, BlockRefines
  <2>2. Activity(t) # Abstract!dead
    <3>1. state[t] \in ProcessState \ {"BlockedNet"}
      BY <1>9 DEF IInv, TypeOK, ProcTypeOK, SchedTypeOK, RefInv, KeepsArguments
    <3> QED BY <1>9, <3>1, ActivityLemma
            DEF ProcessState, Abstract!dead, Abstract!active, Abstract!sending,
                Abstract!calling, Abstract!receiving, Abstract!waiting
  <2>3. Abstract!Wait(c, t)
    BY <1>4, <1>6, <1>9, <2>1, <2>2 DEF Abstract!Wait, life_vars
  <2> QED BY <1>4, <1>9, <2>1, <2>3 DEF Abstract!Next, Abstract!Meet
<1> QED BY <1>1, <1>2, <1>3, <1>7, <1>8, <1>9, WaitOutcome

(***************************************************************************)
(* SYS_SPAWN: an error, a panic, in which no process ever runs again, or a *)
(* process in a slot that keeps nothing of its past.                       *)
(***************************************************************************)
LEMMA SpawnRefines ==
  ASSUME IInv, RefInv, Spawn
  PROVE  RefInv' /\ [Abstract!Next]_(Abstract!vars)
<1>1. PICK image \in Images : sys_spawn(zero, image)
  BY DEF Spawn
<1>2. PICK c : c = CURRENT_PID
  OBVIOUS
<1>3. zero \in TrapFrame /\ mode = "user"
  BY ArgumentsLemma DEF Spawn, Ecall
<1>4. /\ c \in PIDs /\ state[c] = "Running" /\ c \in Abstract!Active
      /\ Activity(c) = Abstract!active
      /\ context \in ContextTable /\ state \in StateTable
      /\ \A p \in PIDs \ {c} : registers(p) = context[p]
  BY <1>2, <1>3, CallerIsActive
<1>5. ERR \in Word /\ irq_pending \in [PIDs -> BOOLEAN]
  BY <1>3, EntryLemma DEF IInv, TypeOK, ProcTypeOK
<1>6. CASE /\ Outcome(state, [context EXCEPT ![c] = [zero EXCEPT !.a0 = ERR]])
           /\ UNCHANGED <<ipc_vars, life_vars, irq_vars>>
  <2>1. [zero EXCEPT !.a0 = ERR] \in TrapFrame
    BY <1>3, <1>5 DEF TrapFrame
  <2>2. RefInv' /\ Abstract!Local(c)
    BY <1>2, <1>3, <1>6, <2>1, LocalRefines DEF irq_vars
  <2> QED BY <1>4, <2>2 DEF Abstract!Next
<1>7. CASE /\ Outcome(state, [context EXCEPT ![c] = frame])
           /\ UNCHANGED <<ipc_vars, life_vars, irq_vars>>
  <2>1. Outcome(state, Registers)
    BY <1>2, <1>3, <1>7, RegistersLemma
  <2> QED BY <1>7, <2>1, InvisibleRefines DEF irq_vars
<1>8. ASSUME NEW new \in PIDs \ {c}, state[new] = "Free",
             Outcome([state EXCEPT ![new] = "Ready"],
                     [context EXCEPT ![new] = zero, ![c] = [zero EXCEPT !.a0 = new]]),
             ipc_target' = [ipc_target EXCEPT ![new] = 0],
             ipc_value' = [ipc_value EXCEPT ![new] = 0],
             parent' = [parent EXCEPT ![new] = c],
             exit_code' = [exit_code EXCEPT ![new] = 0],
             irq_pending' = [irq_pending EXCEPT ![new] = FALSE]
      PROVE  RefInv' /\ Abstract!Spawn(c, new)
  <2> DEFINE st == [state EXCEPT ![new] = "Ready"]
             rg == [context EXCEPT ![new] = zero, ![c] = [zero EXCEPT !.a0 = new]]
  <2>1. /\ st[new] = "Ready" /\ st[c] = "Running"
        /\ \A p \in PIDs \ {c, new} : /\ st[p] = state[p] /\ rg[p] = registers(p)
                                      /\ ipc_target'[p] = ipc_target[p]
                                      /\ ipc_value'[p] = ipc_value[p]
        /\ rg[new].a0 = 0 /\ rg[new].a1 = 0
        /\ rg[c].a0 = new /\ rg[c].a1 = 0
    BY <1>3, <1>4, <1>8
    DEF ContextTable, StateTable, TrapFrame, zero, IInv, TypeOK, ProcTypeOK
  <2>2. Outcome(st, rg)
    BY <1>8
  <2> HIDE DEF st, rg
  <2>3. \A p \in PIDs \ {c, new} :
          /\ Activity(p)' = Activity(p) /\ Result(p)' = Result(p)
          /\ KeepsArguments(p)'
    BY <2>1, <2>2, UntouchedLemma
  <2>4. /\ Activity(new)' = Abstract!active /\ Result(new)' = Abstract!regs(0, 0)
        /\ Activity(c)' = Abstract!active /\ Result(c)' = Abstract!regs(new, 0)
    BY <1>4, <2>1, <2>2, AfterLemma
  <2>5. KeepsArguments(new)' /\ KeepsArguments(c)'
    BY <1>4, <2>1, <2>2 DEF Outcome, Same, KeepsArguments
  <2>6. Activity(new) = Abstract!dead /\ Abstract!regs(0, 0) = Abstract!hidden
    BY <1>8, ActivityLemma DEF Abstract!regs, Abstract!hidden
  <2>7. {p \in PIDs : irq_pending'[p]} = {p \in PIDs : irq_pending[p]} \ {new}
    BY <1>5, <1>8
  <2>8. Abstract!Spawn(c, new)
    BY <1>4, <1>8, <2>3, <2>4, <2>6, <2>7 DEF Abstract!Spawn
  <2> QED BY <2>3, <2>5, <2>8 DEF RefInv
<1>9. ASSUME NEW new \in PIDs, Abstract!Spawn(c, new)
      PROVE  Abstract!Next
  BY <1>4, <1>9 DEF Abstract!Next, Abstract!Meet
<1> QED BY <1>1, <1>2, <1>3, <1>6, <1>7, <1>8, <1>9, SpawnOutcome

(* SYS_EXIT and faults: whoever waits for the process learns its code. *)
LEMMA EndRefines ==
  ASSUME IInv, RefInv, Exit \/ Fault
  PROVE  RefInv' /\ Abstract!Next
<1> DEFINE Codes == ExitCodes \cup {128 + x : x \in FaultCodes}
<1>1. PICK f \in TrapFrame, code \in Codes, last \in PIDs \cup {0} :
        mode = "user" /\ code \in Word /\ terminate(f, code, last)
  BY EndLemma
<1>2. PICK c : c = CURRENT_PID
  OBVIOUS
<1>3. /\ c \in PIDs /\ state[c] = "Running" /\ c \in Abstract!Active
      /\ Activity(c) = Abstract!active
      /\ context \in ContextTable /\ state \in StateTable
      /\ \A p \in PIDs \ {c} : registers(p) = context[p]
  BY <1>1, <1>2, CallerIsActive
<1> DEFINE Told(p) == state[p] = "BlockedWait" /\ ipc_target[p] = c
           st == [p \in PIDs |-> IF p = c THEN "Free"
                                 ELSE IF Told(p) THEN "Ready" ELSE state[p]]
           rg == [p \in PIDs |-> IF Told(p) THEN [context[p] EXCEPT !.a0 = code]
                                 ELSE context[p]]
<1>4. /\ Outcome(st, rg)
      /\ exit_code' = [exit_code EXCEPT ![c] = code]
      /\ UNCHANGED <<ipc_vars, parent, irq_pending>>
  BY <1>1, <1>2, TerminateOutcome
<1>5. /\ st[c] = "Free"
      /\ \A p \in PIDs \ {c} : ~Told(p) => st[p] = state[p] /\ rg[p] = registers(p)
      /\ \A p \in PIDs \ {c} : Told(p) =>
           st[p] = "Ready" /\ rg[p].a0 = code /\ rg[p].a1 = registers(p).a1
  BY <1>3 DEF ContextTable, TrapFrame
<1>6. \A p \in PIDs : Told(p) => registers(p).a1 = 0
  BY DEF RefInv, KeepsArguments
<1>7. ASSUME NEW p \in PIDs
      PROVE  Told(p) <=> Activity(p) = Abstract!waiting(c)
  <2>1. state[p] \in ProcessState \ {"BlockedNet"}
    BY DEF IInv, TypeOK, ProcTypeOK, SchedTypeOK, RefInv, KeepsArguments
  <2> QED BY <2>1, ActivityLemma
          DEF ProcessState, Abstract!dead, Abstract!active, Abstract!sending,
              Abstract!calling, Abstract!receiving, Abstract!waiting
<1> HIDE DEF Told, st, rg, Codes
<1>8. \A p \in PIDs \ {c} : ~Told(p) =>
        /\ Activity(p)' = Activity(p) /\ Result(p)' = Result(p)
        /\ KeepsArguments(p)'
  BY <1>4, <1>5, UntouchedLemma DEF ipc_vars
<1>9. \A p \in PIDs \ {c} : Told(p) =>
        Activity(p)' = Abstract!active /\ Result(p)' = Abstract!regs(code, 0)
  BY <1>4, <1>5, <1>6, AfterLemma
<1>10. Activity(c)' = Abstract!dead /\ Result(c)' = Abstract!hidden
  BY <1>3, <1>4, <1>5, AfterLemma
<1>11. /\ KeepsArguments(c)'
       /\ \A p \in PIDs \ {c} : Told(p) => KeepsArguments(p)'
  BY <1>3, <1>4, <1>5 DEF Outcome, Same, KeepsArguments
<1>12. Abstract!End(c, code)
  BY <1>3, <1>4, <1>7, <1>8, <1>9, <1>10 DEF Abstract!End
<1> QED BY <1>1, <1>3, <1>8, <1>11, <1>12 DEF RefInv, Abstract!Next, Abstract!Meet, Codes

(* External interrupts end a receive, wait for the next one, or are nobody's. *)
LEMMA ExternalRefines ==
  ASSUME IInv, RefInv, External
  PROVE  RefInv' /\ [Abstract!Next]_(Abstract!vars)
<1>1. UNCHANGED <<ipc_vars, life_vars>>
  BY ExternalOutcome
<1>2. CASE Outcome(state, Registers) /\ UNCHANGED irq_pending
  BY <1>1, <1>2, InvisibleRefines
<1>3. ASSUME NEW o \in PIDs, state[o] # "BlockedRecv", Outcome(state, Registers),
             irq_pending' = [irq_pending EXCEPT ![o] = TRUE]
      PROVE  RefInv' /\ Abstract!Interrupt(o)
  <2>1. \A p \in PIDs : /\ Activity(p)' = Activity(p) /\ Result(p)' = Result(p)
                        /\ KeepsArguments(p)'
    BY <1>1, <1>3, UntouchedLemma DEF Registers, ipc_vars
  <2>2. Activity(o).is # "receiving"
    <3>1. state[o] \in ProcessState \ {"BlockedNet"}
      BY DEF IInv, TypeOK, ProcTypeOK, SchedTypeOK, RefInv, KeepsArguments
    <3> QED BY <1>3, <3>1, ActivityLemma
            DEF ProcessState, Abstract!dead, Abstract!active, Abstract!sending,
                Abstract!calling, Abstract!receiving, Abstract!waiting
  <2>3. {p \in PIDs : irq_pending'[p]} = {p \in PIDs : irq_pending[p]} \cup {o}
    BY <1>3 DEF IInv, TypeOK, ProcTypeOK
  <2>4. Abstract!Interrupt(o)
    BY <1>1, <2>1, <2>2, <2>3 DEF Abstract!Interrupt, life_vars
  <2> QED BY <2>1, <2>4 DEF RefInv
<1>4. ASSUME NEW irq \in IRQs, NEW o \in PIDs, state[o] = "BlockedRecv",
             Outcome([state EXCEPT ![o] = "Ready"],
                     [Registers EXCEPT ![o] = [context[o] EXCEPT !.a0 = irq, !.a1 = 0]]),
             UNCHANGED irq_pending
      PROVE  RefInv' /\ Abstract!Interrupt(o)
  <2> DEFINE st == [state EXCEPT ![o] = "Ready"]
             rg == [Registers EXCEPT ![o] = [context[o] EXCEPT !.a0 = irq, !.a1 = 0]]
  <2>1. /\ st[o] = "Ready" /\ rg[o].a0 = irq /\ rg[o].a1 = 0
        /\ \A p \in PIDs \ {o} : st[p] = state[p] /\ rg[p] = registers(p)
    BY DEF Registers, IInv, TypeOK, ProcTypeOK, SchedTypeOK, TrapFrame
  <2>2. Outcome(st, rg)
    BY <1>4
  <2> HIDE DEF st, rg
  <2>3. \A p \in PIDs \ {o} :
          /\ Activity(p)' = Activity(p) /\ Result(p)' = Result(p)
          /\ KeepsArguments(p)'
    BY <1>1, <2>1, <2>2, UntouchedLemma DEF ipc_vars
  <2>4. Activity(o)' = Abstract!active /\ Result(o)' = Abstract!regs(irq, 0)
    BY <2>1, <2>2, AfterLemma
  <2>5. KeepsArguments(o)'
    BY <2>1, <2>2 DEF Outcome, Same, KeepsArguments
  <2>6. Activity(o).is = "receiving"
    BY <1>4, ActivityLemma DEF Abstract!receiving
  <2>7. irq \in Word /\ 0 \in Word
    BY WordLemma, ProcessAssumption DEF Word
  <2>8. Result(o)' \in Abstract!Registers /\ Result(o)'.a1 = 0
    BY <2>4, <2>7 DEF Abstract!regs, Abstract!Registers
  <2>9. Abstract!Interrupt(o)
    BY <1>1, <1>4, <2>3, <2>4, <2>6, <2>8 DEF Abstract!Interrupt, life_vars
  <2> QED BY <2>3, <2>5, <2>9 DEF RefInv
<1>5. \A o \in PIDs : Abstract!Interrupt(o) => Abstract!Next
  BY DEF Abstract!Next
<1> QED BY <1>2, <1>3, <1>4, <1>5, ExternalOutcome

(* Booting, for the first time or again. *)
LEMMA BootRefines ==
  /\ Init => Abstract!Init /\ RefInv
  /\ Reboot => Abstract!Reset /\ RefInv'
<1> USE LifecycleAssumption
    DEF BootState, All, zero, Activity, Result, registers, RefInv, KeepsArguments,
        Abstract!dead, Abstract!active, Abstract!hidden
<1>1. Init => Abstract!Init /\ RefInv
  BY DEF Init, launch, Abstract!Init
<1>2. Reboot => Abstract!Reset /\ RefInv'
  BY DEF Reboot, sys_reboot, sbi_system_reset, Abstract!Reset
<1> QED BY <1>1, <1>2

----------------------------------------------------------------------------
(***************************************************************************)
(* The kernel implements Rendezvous, for any number of processes, any      *)
(* messages and any order of traps: every handler of trap.rs is one step   *)
(* of the abstract processes or none.  SYS_YIELD is left out: it writes    *)
(* its result over a0 of the process it switches to (sched.rs), which      *)
(* run YieldClobbers shows.                                                *)
(***************************************************************************)
THEOREM KernelImplementsRendezvous ==
  ASSUME "SYS_YIELD" \notin Syscalls
  PROVE  Spec => ImplementsRendezvous
<1>1. Init => Abstract!Init /\ RefInv
  BY BootRefines
<1>2. IInv /\ RefInv /\ [Next]_vars => RefInv' /\ [Abstract!Next]_(Abstract!vars)
  <2> SUFFICES ASSUME IInv, RefInv, [Next]_vars
               PROVE  RefInv' /\ [Abstract!Next]_(Abstract!vars)
    OBVIOUS
  <2>1. ~Yield
    BY DEF Yield, Ecall
  <2>2. CASE Putchar \/ Unknown \/ Getpid \/ IrqRegister \/ IrqAck
    <3>1. PICK c : c = CURRENT_PID
      OBVIOUS
    <3>2. PICK r \in TrapFrame :
            /\ mode = "user" /\ Outcome(state, [context EXCEPT ![c] = r])
            /\ UNCHANGED <<ipc_vars, life_vars, irq_pending>>
      BY <2>2, <3>1, LocalOutcome
    <3>3. RefInv' /\ Abstract!Local(c) /\ c \in Abstract!Active
      BY <3>1, <3>2, LocalRefines, CallerIsActive
    <3> QED BY <3>3 DEF Abstract!Next
  <2>3. CASE handle_timer \/ Device \/ Halted \/ UNCHANGED vars
    BY <2>3, InvisibleOutcome, InvisibleRefines DEF irq_vars
  <2>4. CASE Send
    BY <2>4, SendRefines
  <2>5. CASE Call
    BY <2>5, CallRefines
  <2>6. CASE Reply
    BY <2>6, ReplyRefines
  <2>7. CASE Receive
    BY <2>7, ReceiveRefines
  <2>8. CASE Wait
    BY <2>8, WaitRefines
  <2>9. CASE Spawn
    BY <2>9, SpawnRefines
  <2>10. CASE Exit \/ Fault
    BY <2>10, EndRefines
  <2>11. CASE External
    BY <2>11, ExternalRefines
  <2>12. CASE Reboot
    BY <2>12, BootRefines DEF Abstract!Next
  <2> QED BY <2>1, <2>2, <2>3, <2>4, <2>5, <2>6, <2>7, <2>8, <2>9, <2>10, <2>11,
             <2>12 DEF Next
<1> QED BY <1>1, <1>2, KernelInvariant, PTL DEF Spec, ImplementsRendezvous, Abstract!Spec

============================================================================

------------------------------- MODULE Sched -------------------------------
(***************************************************************************)
(* The scheduler, kernel/src/sched.rs.  Its functions run at the end of a  *)
(* handler that has already changed the process table, so they take the    *)
(* table's states `st` and saved registers `ctx` as that handler left them.*)
(***************************************************************************)
EXTENDS Process

AnyReady(st) == \E i \in PIDs : st[i] = "Ready"

(* Mutant of AnyAlive: a process blocked in SYS_RECEIVE does not count. *)
AnyAlive_ignores_receivers(st) == \E i \in PIDs : st[i] \notin {"Free", "BlockedRecv"}

AnyAlive(st) == \E i \in PIDs : st[i] # "Free"

(* Mutants of RoundRobin: the last slot is left out; the scan starts at PID 1. *)
RoundRobin_misses_last(p, k) == ((p - 1 + k) % (MAX_PROCS - 2)) + 1
RoundRobin_from_first(p, k) == k

(* The process k slots after p, slot 0 skipped. *)
RoundRobin(p, k) == ((p - 1 + k) % (MAX_PROCS - 1)) + 1

(* `for offset in 1..=limit`: i is the first Ready process after p. *)
NextReady(st, p, limit, i) ==
  /\ st[i] = "Ready"
  /\ \E k \in 1 .. limit :
        /\ i = RoundRobin(p, k)
        /\ \A j \in 1 .. k - 1 : st[RoundRobin(p, j)] # "Ready"

(* The same scan ends without finding one. *)
NoneReady(st, p, limit) ==
  \A k \in 1 .. limit : st[RoundRobin(p, k)] # "Ready"

(* `for i in 1..MAX_PROCS`: i is the Ready process with the lowest PID. *)
LowestReady(st, i) ==
  /\ st[i] = "Ready"
  /\ \A j \in PIDs : j < i => st[j] # "Ready"

(* Mutant of resume: satp is not written. *)
resume_without_satp(st, ctx, next, registers) ==
  /\ state' = [st EXCEPT ![next] = "Running"]
  /\ context' = ctx
  /\ frame' = registers
  /\ CURRENT_PID' = next
  /\ mode' = "user"
  /\ UNCHANGED satp

(* Return to `next` on its page table, with these registers in the frame. *)
resume(st, ctx, next, registers) ==
  /\ state' = [st EXCEPT ![next] = "Running"]
  /\ context' = ctx
  /\ frame' = registers
  /\ CURRENT_PID' = next
  /\ satp' = next
  /\ mode' = "user"

(* Load the saved registers of `next` and return to it. *)
switch_to(st, ctx, next) == resume(st, ctx, next, ctx[next])

(* Return to kernel_idle in S-mode, on the kernel's page table. *)
enter_idle(st, ctx, f) ==
  /\ state' = st
  /\ context' = ctx
  /\ frame' = f
  /\ CURRENT_PID' = 0
  /\ satp' = 0
  /\ mode' = "kernel_idle"

----------------------------------------------------------------------------
(***************************************************************************)
(* Save the registers f of blocked_pid and switch to the next Ready        *)
(* process.  The scan reaches every slot, blocked_pid itself last: it is   *)
(* Ready when the caller is sys_yield.                                     *)
(***************************************************************************)
schedule(st, ctx, f, blocked_pid) ==
  LET saved == [ctx EXCEPT ![blocked_pid] = f] IN
  \/ \E next \in PIDs :
        /\ NextReady(st, blocked_pid, MAX_PROCS - 1, next)
        /\ switch_to(st, saved, next)
  \/ /\ NoneReady(st, blocked_pid, MAX_PROCS - 1)
     /\ IF AnyAlive(st) THEN enter_idle(st, saved, f)
        ELSE panic(st, saved, "panic_deadlock")

(***************************************************************************)
(* SYS_YIELD.  The last line of the handler, `frame.a0 = 0`, runs after    *)
(* schedule has replaced the frame: it writes the a0 of whoever runs next. *)
(***************************************************************************)
sys_yield(f) ==
  LET others == ~NoneReady(state, CURRENT_PID, MAX_PROCS - 2)
      st == [state EXCEPT ![CURRENT_PID] = "Ready"]
      saved == [context EXCEPT ![CURRENT_PID] = f] IN
  /\ \/ ~others /\ return(f, 0)
     \/ /\ others
        /\ \E next \in PIDs :
              /\ NextReady(st, CURRENT_PID, MAX_PROCS - 1, next)
              /\ resume(st, saved, next, [saved[next] EXCEPT !.a0 = 0])
  /\ UNCHANGED <<ipc_vars, life_vars, irq_vars>>

(* Mutant of preempt: the frame of the preempted process is not saved. *)
preempt_without_save(st, ctx) ==
  \/ \E next \in PIDs :
        /\ NextReady(st, CURRENT_PID, MAX_PROCS - 2, next)
        /\ switch_to([st EXCEPT ![CURRENT_PID] = "Ready"], ctx, next)
  \/ /\ NoneReady(st, CURRENT_PID, MAX_PROCS - 2)
     /\ state' = st
     /\ context' = ctx
     /\ UNCHANGED <<CURRENT_PID, frame, satp, mode>>

(* The timer interrupted user code: go to the next Ready process, if any. *)
preempt(st, ctx) ==
  \/ \E next \in PIDs :
        /\ NextReady(st, CURRENT_PID, MAX_PROCS - 2, next)
        /\ switch_to([st EXCEPT ![CURRENT_PID] = "Ready"],
                     [ctx EXCEPT ![CURRENT_PID] = frame], next)
  \/ /\ NoneReady(st, CURRENT_PID, MAX_PROCS - 2)
     /\ state' = st
     /\ context' = ctx
     /\ UNCHANGED <<CURRENT_PID, frame, satp, mode>>

(* An interrupt in S-mode: leave the idle loop if some process is Ready. *)
schedule_from_idle(st, ctx) ==
  \/ \E next \in PIDs : LowestReady(st, next) /\ switch_to(st, ctx, next)
  \/ /\ ~AnyReady(st)
     /\ state' = st
     /\ context' = ctx
     /\ UNCHANGED <<CURRENT_PID, frame, satp, mode>>

============================================================================

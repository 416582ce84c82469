----------------------------- MODULE Rendezvous ----------------------------
(***************************************************************************)
(* What the kernel promises to user programs: processes that run as if     *)
(* each had a machine of its own, exchange messages by rendezvous, and     *)
(* learn how their children end.  There is no scheduler here, no saved     *)
(* context, no page table and no interrupt controller.                     *)
(*                                                                         *)
(* A blocked process carries what it blocked with, so nothing is said of   *)
(* the columns of the process table that mean nothing in its state.        *)
(***************************************************************************)
EXTENDS Naturals

CONSTANTS
  PIDs,          \* process identifiers
  BootProcs,     \* the processes that exist at the start
  Words,         \* what a register can hold
  Peers,         \* whom a process may say it wants to receive from
  Messages,      \* message and reply values
  Codes          \* exit codes

VARIABLES
  doing,     \* [PIDs -> Activity]
  result,    \* [PIDs -> [a0, a1]]  the result registers of active processes
  notified,  \* processes an interrupt waits for
  parent,    \* [PIDs -> PIDs \cup {0}]
  exit_code

vars == <<doing, result, notified, parent, exit_code>>

dead == [is |-> "dead"]
active == [is |-> "active"]
sending(to, msg) == [is |-> "sending", to |-> to, msg |-> msg]
calling(to, msg) == [is |-> "calling", to |-> to, msg |-> msg]
receiving(from) == [is |-> "receiving", from |-> from]
waiting(child) == [is |-> "waiting", child |-> child]

(* The registers of a process that is not active are nobody's business. *)
hidden == [a0 |-> 0, a1 |-> 0]
regs(a0, a1) == [a0 |-> a0, a1 |-> a1]
Registers == [a0 : Words, a1 : Words]

Awaits(r, p) ==
  doing[r].is = "receiving" /\ doing[r].from \in {0, p}

Offers(s, r, from) ==
  doing[s].is \in {"sending", "calling"} /\ doing[s].to = r /\ from \in {0, s}

Init ==
  /\ doing = [p \in PIDs |-> IF p \in BootProcs THEN active ELSE dead]
  /\ result = [p \in PIDs |-> hidden]
  /\ notified = {}
  /\ parent = [p \in PIDs |-> 0]
  /\ exit_code = [p \in PIDs |-> 0]

----------------------------------------------------------------------------
(* p computes, or makes a call that concerns nobody else. *)
Local(p) ==
  /\ result'[p] \in Registers
  /\ result' = [result EXCEPT ![p] = result'[p]]
  /\ UNCHANGED <<doing, notified, parent, exit_code>>

Send(p, t, m) ==
  /\ t # p
  /\ \/ /\ Awaits(t, p)
        /\ doing' = [doing EXCEPT ![t] = active]
        /\ result' = [result EXCEPT ![t] = regs(m, p), ![p] = regs(0, m)]
     \/ /\ ~Awaits(t, p)
        /\ doing' = [doing EXCEPT ![p] = sending(t, m)]
        /\ result' = [result EXCEPT ![p] = hidden]
  /\ UNCHANGED <<notified, parent, exit_code>>

(* A call ends with a reply only, even when the server was waiting for it. *)
Call(p, t, m) ==
  /\ t # p
  /\ IF Awaits(t, p)
     THEN /\ doing' = [doing EXCEPT ![t] = active, ![p] = calling(t, m)]
          /\ result' = [result EXCEPT ![t] = regs(m, p), ![p] = hidden]
     ELSE /\ doing' = [doing EXCEPT ![p] = calling(t, m)]
          /\ result' = [result EXCEPT ![p] = hidden]
  /\ UNCHANGED <<notified, parent, exit_code>>

Reply(p, c, v) ==
  /\ doing[c].is = "calling" /\ doing[c].to = p
  /\ doing' = [doing EXCEPT ![c] = active]
  /\ result' = [result EXCEPT ![c] = regs(v, doing[c].msg), ![p] = regs(0, v)]
  /\ UNCHANGED <<notified, parent, exit_code>>

(* An interrupt, the message of some process that offers one, or blocking. *)
Receive(p, from) ==
  \/ /\ p \in notified /\ from = 0
     /\ notified' = notified \ {p}
     /\ result'[p] \in Registers /\ result'[p].a1 = 0
     /\ result' = [result EXCEPT ![p] = result'[p]]
     /\ UNCHANGED <<doing, parent, exit_code>>
  \/ /\ \E s \in PIDs :
          /\ Offers(s, p, from)
          /\ IF doing[s].is = "sending"
             THEN /\ doing' = [doing EXCEPT ![s] = active]
                  /\ result' = [result EXCEPT ![s] = regs(0, doing[s].msg),
                                              ![p] = regs(doing[s].msg, s)]
             ELSE /\ doing' = doing
                  /\ result' = [result EXCEPT ![p] = regs(doing[s].msg, s)]
     /\ UNCHANGED <<notified, parent, exit_code>>
  \/ /\ \A s \in PIDs : ~Offers(s, p, from)
     /\ ~(p \in notified /\ from = 0)
     /\ doing' = [doing EXCEPT ![p] = receiving(from)]
     /\ result' = [result EXCEPT ![p] = hidden]
     /\ UNCHANGED <<notified, parent, exit_code>>

(* The new process is in nobody's debt: a slot holds nothing of its past. *)
Spawn(p, c) ==
  /\ doing[c] = dead
  /\ doing' = [doing EXCEPT ![c] = active]
  /\ result' = [result EXCEPT ![c] = hidden, ![p] = regs(c, 0)]
  /\ notified' = notified \ {c}
  /\ parent' = [parent EXCEPT ![c] = p]
  /\ exit_code' = [exit_code EXCEPT ![c] = 0]

(* Whoever waits for p learns its code. *)
End(p, code) ==
  LET Told(q) == doing[q] = waiting(p) IN
  /\ doing' = [q \in PIDs |-> IF q = p THEN dead
                              ELSE IF Told(q) THEN active ELSE doing[q]]
  /\ result' = [q \in PIDs |-> IF q = p THEN hidden
                               ELSE IF Told(q) THEN regs(code, 0) ELSE result[q]]
  /\ exit_code' = [exit_code EXCEPT ![p] = code]
  /\ UNCHANGED <<notified, parent>>

Wait(p, c) ==
  /\ c # p /\ parent[c] = p
  /\ \/ /\ doing[c] = dead
        /\ result' = [result EXCEPT ![p] = regs(exit_code[c], 0)]
        /\ UNCHANGED doing
     \/ /\ doing[c] # dead
        /\ doing' = [doing EXCEPT ![p] = waiting(c)]
        /\ result' = [result EXCEPT ![p] = hidden]
  /\ UNCHANGED <<notified, parent, exit_code>>

Reset ==
  /\ doing' = [p \in PIDs |-> IF p \in BootProcs THEN active ELSE dead]
  /\ result' = [p \in PIDs |-> hidden]
  /\ notified' = {}
  /\ parent' = [p \in PIDs |-> 0]
  /\ exit_code' = [p \in PIDs |-> 0]

(* An interrupt for p: it ends a receive, or waits for the next one. *)
Interrupt(p) ==
  /\ \/ /\ doing[p].is = "receiving"
        /\ doing' = [doing EXCEPT ![p] = active]
        /\ result'[p] \in Registers /\ result'[p].a1 = 0
        /\ result' = [result EXCEPT ![p] = result'[p]]
        /\ UNCHANGED notified
     \/ /\ doing[p].is # "receiving"
        /\ notified' = notified \cup {p}
        /\ UNCHANGED <<doing, result>>
  /\ UNCHANGED <<parent, exit_code>>

(* A call of p that concerns others. *)
Meet(p) ==
  \/ \E q \in PIDs : Spawn(p, q) \/ Wait(p, q)
  \/ \E q \in PIDs, m \in Messages : Send(p, q, m) \/ Call(p, q, m) \/ Reply(p, q, m)
  \/ \E from \in Peers : Receive(p, from)
  \/ \E code \in Codes : End(p, code)

Active == {p \in PIDs : doing[p] = active}

Next ==
  \/ \E p \in Active : Local(p)
  \/ \E p \in Active : Meet(p)
  \/ \E p \in PIDs : Interrupt(p)
  \/ Reset

Spec == Init /\ [][Next]_vars

============================================================================

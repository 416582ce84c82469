----------------------------- MODULE UartProofs -----------------------------
(***************************************************************************)
(* Proofs about UartSystem: what comes out of the UART is complete and in  *)
(* order, for a greeting of any length, any keys, FIFOs of any size and    *)
(* every interleaving of init, the server, the timer and the interrupts.   *)
(***************************************************************************)
EXTENDS UartSystem, KernelProofs, SequenceTheorems

Runnable(p) == state[p] \in {"Ready", "Running"}
Calling == state[INIT] = "BlockedCall"

(* The server has a message to look at, or is at work on it. *)
HasMessage == pc = "dispatch" /\ Runnable(SERVER) /\ registers(SERVER).a1 # 0
Writing == pc \in {"tx_wait", "tx_write"}

(***************************************************************************)
(* The two programs and the kernel between them: init is in a call with    *)
(* the last character it sent from its SYS_CALL to the server's SYS_REPLY, *)
(* and only then does the server work on a message, which is that one.     *)
(***************************************************************************)
Processes ==
  /\ \A p \in PIDs \ {INIT, SERVER} : state[p] = "Free"
  /\ state[INIT] \in {"Ready", "Running", "BlockedCall", "Free"}
  /\ state[SERVER] \in {"Ready", "Running", "BlockedRecv"}
  /\ state[SERVER] = "BlockedRecv" => pc = "dispatch"
  /\ Calling => ipc_target[INIT] = SERVER /\ ipc_value[INIT] = sent /\ sent >= 1

Serves ==
  /\ HasMessage => Calling /\ registers(SERVER).a1 = INIT /\ registers(SERVER).a0 = sent
  /\ Writing => Calling /\ s1 = INIT /\ s2 = sent
  /\ pc = "reply" => Calling /\ s1 = INIT

Greets ==
  /\ sent \in 0 .. HELLO_LEN
  /\ greeting \in Seq(Nat) /\ \A i \in 1 .. Len(greeting) : greeting[i] = i
  /\ Len(greeting) = IF Calling /\ pc # "reply" THEN sent - 1 ELSE sent

(***************************************************************************)
(* The server and the terminal: what is typed is echoed, in the server's   *)
(* hand, or in the receive FIFO.                                           *)
(***************************************************************************)
Echoing == pc \in {"echo_wait", "echo_write"}
InHand == Echoing \/ pc \in {"reboot_wait", "reboot"}
LineFeed == pc \in {"lf_wait", "lf_write"}

Echoes(n) ==
  /\ typed \in Seq(Word) /\ rx \in Seq(Word) /\ echo \in Seq(Seq(Nat)) /\ s2 \in Word
  /\ n \in Nat /\ Len(typed) = n + Len(rx)
  /\ \A i \in 1 .. Len(rx) : rx[i] = typed[n + i]
  /\ Len(echo) = IF InHand THEN n - 1 ELSE n
  /\ InHand \/ LineFeed => n >= 1
  /\ Echoing => s2 = typed[n]
  /\ LineFeed => typed[n] = CR /\ echo[n] = <<CR>>
  /\ \A i \in 1 .. Len(echo) : (LineFeed /\ i = n) \/ echo[i] = Shown(typed[i])

(* A store to THR finds at most what the kernel printed after the look at LSR. *)
HasRoom ==
  /\ thr \in 0 .. 2
  /\ pc \in {"tx_write", "echo_write", "lf_write"} => thr <= 1

(* The inductive invariant. *)
UartInv ==
  /\ IInv
  /\ Processes /\ Serves /\ Greets
  /\ \E n \in Nat : Echoes(n)
  /\ HasRoom

----------------------------------------------------------------------------
(* init and the server are processes, and what is Same can run or is equal. *)
LEMMA ProgramsLemma ==
  /\ INIT \in PIDs /\ SERVER \in PIDs /\ INIT # SERVER /\ INIT # 0
  /\ is_valid_ipc_target(SERVER, INIT) /\ is_valid_ipc_target(INIT, SERVER)
<1>1. INIT \in PIDs /\ SERVER \in PIDs
  BY UartAssumption, LifecycleAssumption
<1> QED BY <1>1, ProcessAssumption DEF INIT, SERVER, PIDs, is_valid_ipc_target

LEMMA SameLemma ==
  ASSUME NEW s, NEW t, Same(s, t)
  PROVE  /\ s \in {"Ready", "Running"} <=> t \in {"Ready", "Running"}
         /\ s \notin {"Ready", "Running"} => t = s
  BY DEF Same

(* A program that runs, runs as the Running process, with its registers in the frame. *)
LEMMA RunsLemma ==
  ASSUME IInv, NEW p \in PIDs, Runs(p)
  PROVE  /\ mode = "user" /\ CURRENT_PID = p /\ state[p] = "Running" /\ registers(p) = frame
         /\ \A q \in PIDs : q # p => state[q] # "Running"
  BY CallerLemma DEF IInv, Runs, registers

----------------------------------------------------------------------------
(* Steps that the programs do not see. *)
Steady ==
  /\ \A p \in PIDs : Same(state[p], state'[p])
  /\ Runnable(SERVER) => registers(SERVER)' = registers(SERVER)
  /\ UNCHANGED <<ipc_target, ipc_value>>

LEMMA OutcomeSteady ==
  ASSUME Outcome(state, Registers), UNCHANGED ipc_vars
  PROVE  Steady
  BY ProgramsLemma DEF Outcome, Registers, Steady, ipc_vars

LEMMA UnchangedSteady ==
  ASSUME UNCHANGED proc_vars
  PROVE  Steady
  BY DEF Steady, Same, registers, proc_vars, sched_vars, ipc_vars

LEMMA SteadyStates ==
  ASSUME Processes, Steady
  PROVE  /\ Runnable(SERVER)' <=> Runnable(SERVER)
         /\ Calling' <=> Calling
         /\ state'[SERVER] = "BlockedRecv" => state[SERVER] = "BlockedRecv"
         /\ state'[INIT] \in {"Ready", "Running", "BlockedCall", "Free"}
         /\ state'[SERVER] \in {"Ready", "Running", "BlockedRecv"}
         /\ \A p \in PIDs \ {INIT, SERVER} : state'[p] = "Free"
  BY ProgramsLemma, SameLemma DEF Processes, Steady, Runnable, Calling

LEMMA SteadyLemma ==
  ASSUME Processes, Serves, Greets, Steady, UNCHANGED <<sent, pc, s1, s2, greeting>>
  PROVE  Processes' /\ Serves' /\ Greets'
<1>1. Processes'
  BY SteadyStates DEF Processes, Steady
<1>2. Serves'
  BY SteadyStates DEF Serves, HasMessage, Writing, Steady
<1>3. Greets'
  BY SteadyStates DEF Greets
<1> QED BY <1>1, <1>2, <1>3

(* A step of the server's that the kernel does not see, to where it has no message. *)
LEMMA EchoesSame ==
  ASSUME NEW n, Echoes(n), UNCHANGED <<typed, rx, echo, s2>>,
         InHand' <=> InHand, Echoing' <=> Echoing, LineFeed' <=> LineFeed
  PROVE  Echoes(n)'
  BY DEF Echoes, Shown

----------------------------------------------------------------------------
(* The timer and the interrupts. *)

LEMMA TimerInv ==
  ASSUME UartInv, Timer
  PROVE  UartInv'
<1>1. IInv /\ handle_timer /\ UNCHANGED <<program_vars, rx, greeting, echo, typed, keys>>
      /\ thr' \in {1, thr}
  BY DEF UartInv, Timer, kernel_prints
<1>2. Outcome(state, Registers) /\ UNCHANGED ipc_vars
  BY <1>1, TimerOutcome DEF handle_timer
<1>3. UNCHANGED <<sent, pc, s1, s2>>
  BY <1>1 DEF program_vars
<1>4. Processes' /\ Serves' /\ Greets'
  BY <1>1, <1>2, <1>3, OutcomeSteady, SteadyLemma DEF UartInv
<1>5. \A n : Echoes(n) => Echoes(n)'
  BY <1>1, <1>3, EchoesSame DEF InHand, Echoing, LineFeed
<1>6. HasRoom'
  BY <1>1, <1>3 DEF UartInv, HasRoom
<1> QED BY <1>1, <1>4, <1>5, <1>6, TimerLemma DEF UartInv

(* The server is woken, with a1 = 0: this is no message. *)
LEMMA WokenLemma ==
  ASSUME Processes, Serves, Greets, UNCHANGED <<sent, pc, s1, s2, greeting>>, UNCHANGED ipc_vars,
         NEW o \in PIDs, state[o] = "BlockedRecv", NEW rg,
         Outcome([state EXCEPT ![o] = "Ready"], rg), rg[SERVER].a1 = 0,
         state \in StateTable
  PROVE  Processes' /\ Serves' /\ Greets'
<1>1. o = SERVER
  BY ProgramsLemma DEF Processes
<1>2. /\ \A p \in PIDs \ {SERVER} : Same(state[p], state'[p])
      /\ Runnable(SERVER)' /\ registers(SERVER)'.a1 = 0
  BY <1>1, ProgramsLemma DEF Outcome, Same, Runnable, StateTable
<1>3. /\ Calling' <=> Calling
      /\ state'[INIT] \in {"Ready", "Running", "BlockedCall", "Free"}
      /\ \A p \in PIDs \ {INIT, SERVER} : state'[p] = "Free"
  BY <1>2, ProgramsLemma, SameLemma DEF Processes, Calling
<1>4. Processes'
  BY <1>2, <1>3 DEF Processes, Runnable, ipc_vars
<1>5. Serves'
  BY <1>2, <1>3 DEF Serves, HasMessage, Writing
<1>6. Greets'
  BY <1>3 DEF Greets
<1> QED BY <1>4, <1>5, <1>6

LEMMA InterruptInv ==
  ASSUME UartInv, Interrupt
  PROVE  UartInv'
<1>1. IInv /\ External /\ UNCHANGED <<sent, pc, s1, s2, rx, thr, greeting, echo, typed>>
  BY DEF UartInv, Interrupt, program_vars, uart_vars
<1>2. context \in ContextTable /\ state \in StateTable
  BY <1>1 DEF IInv, TypeOK, ProcTypeOK, SchedTypeOK, ContextTable, StateTable
<1>3. UNCHANGED ipc_vars
  BY <1>1, ExternalOutcome
<1>4. Processes' /\ Serves' /\ Greets'
  <2>1. CASE Outcome(state, Registers)
    BY <1>1, <1>3, <2>1, OutcomeSteady, SteadyLemma DEF UartInv
  <2>2. ASSUME NEW irq \in IRQs, NEW o \in PIDs, state[o] = "BlockedRecv",
               Outcome([state EXCEPT ![o] = "Ready"],
                       [Registers EXCEPT ![o] = [context[o] EXCEPT !.a0 = irq, !.a1 = 0]])
        PROVE  Processes' /\ Serves' /\ Greets'
    <3> DEFINE rg == [Registers EXCEPT ![o] = [context[o] EXCEPT !.a0 = irq, !.a1 = 0]]
    <3>1. o = SERVER
      BY <2>2, ProgramsLemma DEF UartInv, Processes
    <3>2. rg[SERVER].a1 = 0
      BY <1>2, <3>1, ProgramsLemma DEF Registers, ContextTable, TrapFrame
    <3> HIDE DEF rg
    <3>3. Outcome([state EXCEPT ![o] = "Ready"], rg)
      BY <2>2 DEF rg
    <3> QED BY <1>1, <1>2, <1>3, <2>2, <3>2, <3>3, WokenLemma DEF UartInv
  <2> QED BY <1>1, <2>1, <2>2, ExternalOutcome
<1>5. \A n : Echoes(n) => Echoes(n)'
  BY <1>1, EchoesSame DEF InHand, Echoing, LineFeed
<1>6. HasRoom'
  BY <1>1 DEF UartInv, HasRoom
<1> QED BY <1>1, <1>4, <1>5, <1>6, ExternalLemma DEF UartInv

----------------------------------------------------------------------------
(* The terminal, the transmitter and the interrupt line. *)

LEMMA AppendedLemma ==
  ASSUME NEW S, NEW s \in Seq(S), NEW e \in S
  PROVE  /\ Append(s, e) \in Seq(S) /\ Len(Append(s, e)) = Len(s) + 1
         /\ \A i \in 1 .. Len(s) : Append(s, e)[i] = s[i]
         /\ Append(s, e)[Len(s) + 1] = e
  OBVIOUS

(* One more character is typed. *)
LEMMA TypedEchoes ==
  ASSUME NEW n, Echoes(n), NEW c \in Word,
         rx' = Append(rx, c), typed' = Append(typed, c), UNCHANGED <<pc, echo, s2>>
  PROVE  Echoes(n)'
<1>1. /\ typed \in Seq(Word) /\ rx \in Seq(Word) /\ echo \in Seq(Seq(Nat)) /\ n \in Nat
      /\ Len(typed) = n + Len(rx) /\ Len(rx) \in Nat
      /\ Len(echo) = (IF InHand THEN n - 1 ELSE n)
  BY DEF Echoes
<1>2. /\ typed' \in Seq(Word) /\ rx' \in Seq(Word)
      /\ Len(typed') = Len(typed) + 1 /\ Len(rx') = Len(rx) + 1
      /\ \A i \in 1 .. Len(typed) : typed'[i] = typed[i]
      /\ \A i \in 1 .. Len(rx) : rx'[i] = rx[i]
      /\ typed'[Len(typed) + 1] = c /\ rx'[Len(rx) + 1] = c
  <2>1. /\ typed' \in Seq(Word) /\ Len(typed') = Len(typed) + 1
        /\ \A i \in 1 .. Len(typed) : typed'[i] = typed[i]
        /\ typed'[Len(typed) + 1] = c
    <3>1. /\ Append(typed, c) \in Seq(Word) /\ Len(Append(typed, c)) = Len(typed) + 1
          /\ \A i \in 1 .. Len(typed) : Append(typed, c)[i] = typed[i]
          /\ Append(typed, c)[Len(typed) + 1] = c
      BY <1>1, AppendedLemma
    <3> QED BY <3>1
  <2>2. /\ rx' \in Seq(Word) /\ Len(rx') = Len(rx) + 1
        /\ \A i \in 1 .. Len(rx) : rx'[i] = rx[i]
        /\ rx'[Len(rx) + 1] = c
    <3>1. /\ Append(rx, c) \in Seq(Word) /\ Len(Append(rx, c)) = Len(rx) + 1
          /\ \A i \in 1 .. Len(rx) : Append(rx, c)[i] = rx[i]
          /\ Append(rx, c)[Len(rx) + 1] = c
      BY <1>1, AppendedLemma
    <3> QED BY <3>1
  <2> QED BY <2>1, <2>2
<1>3. (InHand' <=> InHand) /\ (Echoing' <=> Echoing) /\ (LineFeed' <=> LineFeed)
  BY DEF InHand, Echoing, LineFeed
<1>4. \A i \in 1 .. Len(rx') : rx'[i] = typed'[n + i]
  <2> SUFFICES ASSUME NEW i \in 1 .. Len(rx')
               PROVE  rx'[i] = typed'[n + i]
    OBVIOUS
  <2>1. CASE i = Len(rx) + 1
    BY <1>1, <1>2, <2>1
  <2>2. CASE i \in 1 .. Len(rx)
    <3>1. n + i \in 1 .. Len(typed)
      BY <1>1, <2>2
    <3> QED BY <1>2, <2>2, <3>1 DEF Echoes
  <2>3. ASSUME NEW m \in Nat, i \in 1 .. m + 1
        PROVE  i = m + 1 \/ i \in 1 .. m
    BY <2>3
  <2> QED BY <1>1, <1>2, <2>1, <2>2, <2>3
<1>5. n \in 1 .. Len(typed) => typed'[n] = typed[n]
  BY <1>2
<1>6. InHand \/ LineFeed => n >= 1 /\ n \in 1 .. Len(typed)
  BY <1>1 DEF Echoes
<1>7. \A i \in 1 .. Len(echo) : typed'[i] = typed[i]
  BY <1>1, <1>2
<1>8. \A i \in 1 .. Len(echo') : (LineFeed' /\ i = n) \/ echo'[i] = Shown(typed'[i])
  BY <1>3, <1>7 DEF Echoes, Shown
<1>9. Len(typed') = n + Len(rx') /\ Len(echo') = (IF InHand' THEN n - 1 ELSE n)
  BY <1>1, <1>2, <1>3
<1>10. /\ InHand' \/ LineFeed' => n >= 1
       /\ Echoing' => s2' = typed'[n]
       /\ LineFeed' => typed'[n] = CR /\ echo'[n] = <<CR>>
  BY <1>3, <1>5, <1>6 DEF Echoes, InHand
<1> QED BY <1>1, <1>2, <1>4, <1>8, <1>9, <1>10 DEF Echoes

LEMMA KeyTypedInv ==
  ASSUME UartInv, KeyTyped
  PROVE  UartInv'
<1>1. UNCHANGED <<proc_vars, heap, plic_vars>> /\ UNCHANGED <<sent, pc, s1, s2, thr, greeting, echo>>
  BY DEF KeyTyped, vars, program_vars
<1>2. IInv'
  BY <1>1, DeviceLemma DEF UartInv, IInv, TypeOK, plic_vars
<1>3. Processes' /\ Serves' /\ Greets'
  BY <1>1, UnchangedSteady, SteadyLemma DEF UartInv
<1>4. \E n \in Nat : Echoes(n)'
  <2>1. PICK n \in Nat : Echoes(n)
    BY DEF UartInv
  <2>2. CASE UNCHANGED <<rx, typed>>
    BY <1>1, <2>1, <2>2, EchoesSame DEF InHand, Echoing, LineFeed
  <2>3. ASSUME NEW c \in Keys, rx' = Append(rx, c), typed' = Append(typed, c)
        PROVE  Echoes(n)'
    BY <1>1, <2>1, <2>3, UartAssumption, TypedEchoes
  <2> QED BY <2>1, <2>2, <2>3 DEF KeyTyped
<1>5. HasRoom'
  BY <1>1 DEF UartInv, HasRoom
<1> QED BY <1>2, <1>3, <1>4, <1>5 DEF UartInv

LEMMA TransmitsInv ==
  ASSUME UartInv, Transmits
  PROVE  UartInv'
<1>1. UNCHANGED <<proc_vars, heap, plic_vars>>
      /\ UNCHANGED <<sent, pc, s1, s2, rx, greeting, echo, typed>>
  BY DEF Transmits, vars, program_vars
<1>2. IInv'
  BY <1>1, DeviceLemma DEF UartInv, IInv, TypeOK, plic_vars
<1>3. Processes' /\ Serves' /\ Greets'
  BY <1>1, UnchangedSteady, SteadyLemma DEF UartInv
<1>4. \A n : Echoes(n) => Echoes(n)'
  BY <1>1, EchoesSame DEF InHand, Echoing, LineFeed
<1>5. HasRoom'
  BY <1>1 DEF UartInv, HasRoom, Transmits
<1> QED BY <1>2, <1>3, <1>4, <1>5 DEF UartInv

LEMMA AssertsInv ==
  ASSUME UartInv, Asserts
  PROVE  UartInv'
<1>1. UNCHANGED <<proc_vars, heap, plic_enabled, plic_claimed>>
      /\ UNCHANGED <<sent, pc, s1, s2, rx, thr, greeting, echo, typed>>
  BY DEF Asserts, raise, program_vars, uart_vars
<1>2. plic_pending' \subseteq IRQs
  BY UartAssumption, IrqAssumption DEF UartInv, IInv, TypeOK, Asserts, raise
<1>3. IInv'
  BY <1>1, <1>2, DeviceLemma DEF UartInv
<1>4. Processes' /\ Serves' /\ Greets'
  BY <1>1, UnchangedSteady, SteadyLemma DEF UartInv
<1>5. \A n : Echoes(n) => Echoes(n)'
  BY <1>1, EchoesSame DEF InHand, Echoing, LineFeed
<1>6. HasRoom'
  BY <1>1 DEF UartInv, HasRoom
<1> QED BY <1>3, <1>4, <1>5, <1>6 DEF UartInv


----------------------------------------------------------------------------
(* Steps of the server that the kernel does not see. *)

LEMMA LocalLemma ==
  ASSUME UartInv, Runs(SERVER), UNCHANGED <<vars, sent>>
  PROVE  /\ IInv' /\ Processes' /\ (Calling' <=> Calling)
         /\ Runnable(SERVER) /\ Runnable(SERVER)'
         /\ registers(SERVER) = frame /\ registers(SERVER)' = frame
<1>1. UNCHANGED <<proc_vars, heap, plic_vars>>
  BY DEF vars
<1>2. IInv'
  BY <1>1, DeviceLemma DEF UartInv, IInv, TypeOK, plic_vars
<1>3. state[SERVER] = "Running" /\ registers(SERVER) = frame
  BY ProgramsLemma, RunsLemma DEF UartInv
<1>4. UNCHANGED <<state, context, frame, ipc_target, ipc_value>>
  BY <1>1 DEF proc_vars, sched_vars, ipc_vars
<1> QED BY <1>2, <1>3, <1>4 DEF UartInv, Processes, Calling, Runnable, registers

LEMMA DispatchInv ==
  ASSUME UartInv, Dispatch
  PROVE  UartInv'
<1>1. /\ Runs(SERVER) /\ UNCHANGED <<vars, sent, typed>>
      /\ pc = "dispatch" /\ UNCHANGED <<rx, thr, greeting, echo>>
  BY DEF Dispatch, At, Local
<1>2. PICK n \in Nat : Echoes(n)
  BY DEF UartInv
<1>3. ASSUME frame.a1 = 0, pc' = "rx_loop", UNCHANGED <<s1, s2>>
      PROVE  Serves' /\ Greets' /\ Echoes(n)' /\ HasRoom'
  <2>1. Serves' /\ Greets' /\ HasRoom'
    BY <1>1, <1>3, LocalLemma DEF UartInv, Serves, HasMessage, Writing, Greets, HasRoom
  <2>2. Echoes(n)'
    BY <1>1, <1>2, <1>3, EchoesSame DEF InHand, Echoing, LineFeed
  <2> QED BY <2>1, <2>2
<1>4. ASSUME frame.a1 # 0, pc' = "tx_wait", s1' = frame.a1, s2' = frame.a0
      PROVE  Serves' /\ Greets' /\ Echoes(n)' /\ HasRoom'
  <2>1. Calling /\ s1' = INIT /\ s2' = sent
    BY <1>1, <1>4, LocalLemma DEF UartInv, Serves, HasMessage
  <2>2. Serves'
    BY <1>1, <1>4, <2>1, LocalLemma DEF Serves, HasMessage, Writing
  <2>3. Greets' /\ HasRoom'
    BY <1>1, <1>4, LocalLemma DEF UartInv, Greets, HasRoom
  <2>4. s2' \in Word
    <3>1. sent \in 0 .. HELLO_LEN
      BY DEF UartInv, Greets
    <3> QED BY <2>1, <3>1, UartAssumption, ProcessAssumption DEF Word
  <2>5. ~InHand /\ ~InHand' /\ ~Echoing' /\ ~LineFeed /\ ~LineFeed'
    BY <1>1, <1>4 DEF InHand, Echoing, LineFeed
  <2>6. Echoes(n)'
    BY <1>1, <1>2, <2>4, <2>5 DEF Echoes, Shown
  <2> QED BY <2>2, <2>3, <2>6
<1> QED BY <1>1, <1>2, <1>3, <1>4, LocalLemma DEF UartInv, Dispatch

LEMMA WaitThrInv ==
  ASSUME UartInv, WaitThr
  PROVE  UartInv'
<1>1. /\ Runs(SERVER) /\ UNCHANGED <<vars, sent, typed, s1, s2, rx, thr, greeting, echo>>
      /\ thr = 0
      /\ \/ pc = "tx_wait" /\ pc' = "tx_write"
         \/ pc = "echo_wait" /\ pc' = "echo_write"
         \/ pc = "lf_wait" /\ pc' = "lf_write"
         \/ pc = "reboot_wait" /\ pc' = "reboot"
  BY DEF WaitThr, Local, WaitLoops, may_write, thr_empty
<1>2. Serves' /\ Greets' /\ HasRoom'
  BY <1>1, LocalLemma DEF UartInv, Serves, HasMessage, Writing, Greets, HasRoom
<1>3. \A n : Echoes(n) => Echoes(n)'
  BY <1>1, EchoesSame DEF InHand, Echoing, LineFeed
<1> QED BY <1>1, <1>2, <1>3, LocalLemma DEF UartInv

(* The character of init's call is written: the greeting is complete as far as it is sent. *)
LEMMA TxWriteInv ==
  ASSUME UartInv, TxWrite
  PROVE  UartInv'
<1>1. /\ Runs(SERVER) /\ UNCHANGED <<vars, sent, typed, s1, s2, rx, echo>>
      /\ pc = "tx_write" /\ pc' = "reply"
      /\ thr' = thr + 1 /\ greeting' = Append(greeting, s2)
  BY DEF TxWrite, At, Local, write_thr, for_caller
<1>2. Calling /\ s1 = INIT /\ s2 = sent
  BY <1>1 DEF UartInv, Serves, Writing
<1>3. Serves'
  BY <1>1, <1>2, LocalLemma DEF Serves, HasMessage, Writing
<1>4. Greets'
  <2>1. /\ sent \in 0 .. HELLO_LEN /\ greeting \in Seq(Nat) /\ Len(greeting) = sent - 1
        /\ \A i \in 1 .. Len(greeting) : greeting[i] = i
    BY <1>1, <1>2 DEF UartInv, Greets
  <2>2. sent \in Nat /\ sent >= 1
    BY <1>2, <2>1, UartAssumption, ProcessAssumption DEF UartInv, Processes, Word
  <2>3. /\ Append(greeting, s2) \in Seq(Nat) /\ Len(Append(greeting, s2)) = Len(greeting) + 1
        /\ \A i \in 1 .. Len(greeting) : Append(greeting, s2)[i] = greeting[i]
        /\ Append(greeting, s2)[Len(greeting) + 1] = s2
    BY <1>2, <2>1, <2>2, AppendedLemma
  <2>4. Len(greeting') = sent /\ \A i \in 1 .. sent : greeting'[i] = i
    BY <1>1, <1>2, <2>1, <2>2, <2>3
  <2> QED BY <1>1, <2>1, <2>3, <2>4 DEF Greets
<1>5. \A n : Echoes(n) => Echoes(n)'
  BY <1>1, EchoesSame DEF InHand, Echoing, LineFeed
<1>6. HasRoom'
  BY <1>1 DEF UartInv, HasRoom
<1> QED BY <1>1, <1>3, <1>4, <1>5, <1>6, LocalLemma DEF UartInv

(* A character goes from the receive FIFO to the server's hand. *)
LEMMA TakenEchoes ==
  ASSUME NEW n \in Nat, Echoes(n), pc = "rx_loop", rx # << >>,
         s2' = Head(rx), rx' = Tail(rx), UNCHANGED <<typed, echo>>,
         pc' \in {"reboot_wait", "echo_wait"}
  PROVE  Echoes(n + 1)'
<1>1. /\ rx \in Seq(Word) /\ Len(typed) = n + Len(rx) /\ Len(echo) = n
      /\ \A i \in 1 .. Len(rx) : rx[i] = typed[n + i]
      /\ \A i \in 1 .. Len(echo) : echo[i] = Shown(typed[i])
  BY DEF Echoes, InHand, Echoing, LineFeed
<1>2. /\ Len(rx) \in Nat /\ Len(rx) >= 1 /\ Head(rx) = rx[1] /\ rx[1] \in Word
      /\ Tail(rx) \in Seq(Word) /\ Len(Tail(rx)) = Len(rx) - 1
      /\ \A i \in 1 .. Len(rx) - 1 : Tail(rx)[i] = rx[i + 1]
  BY <1>1
<1>3. rx[1] = typed[n + 1]
  BY <1>1, <1>2
<1>4. Len(typed') = (n + 1) + Len(rx')
  BY <1>1, <1>2
<1>5. \A i \in 1 .. Len(rx') : rx'[i] = typed'[(n + 1) + i]
  <2> SUFFICES ASSUME NEW i \in 1 .. Len(rx) - 1
               PROVE  Tail(rx)[i] = typed[(n + 1) + i]
    BY <1>2
  <2>1. i + 1 \in 1 .. Len(rx) /\ n + (i + 1) = (n + 1) + i
    BY <1>2
  <2> QED BY <1>1, <1>2, <2>1
<1>6. InHand' /\ ~LineFeed'
  BY DEF InHand, Echoing, LineFeed
<1>7. \A i \in 1 .. Len(echo') : echo'[i] = Shown(typed'[i])
  BY <1>1 DEF Shown
<1>8. n + 1 \in Nat /\ n + 1 >= 1 /\ Len(echo') = (n + 1) - 1
  BY <1>1
<1>9. /\ typed' \in Seq(Word) /\ rx' \in Seq(Word) /\ echo' \in Seq(Seq(Nat)) /\ s2' \in Word
      /\ s2' = typed'[n + 1]
  BY <1>2, <1>3 DEF Echoes
<1> QED BY <1>4, <1>5, <1>6, <1>7, <1>8, <1>9 DEF Echoes

LEMMA RxLoopInv ==
  ASSUME UartInv, RxLoop
  PROVE  UartInv'
<1>1. /\ Runs(SERVER) /\ UNCHANGED <<vars, sent, typed, s1, thr, greeting, echo>>
      /\ pc = "rx_loop" /\ pc' \in {"ack", "reboot_wait", "echo_wait"}
  BY DEF RxLoop, At, Local
<1>2. Serves' /\ Greets' /\ HasRoom'
  BY <1>1, LocalLemma DEF UartInv, Serves, HasMessage, Writing, Greets, HasRoom
<1>3. PICK n \in Nat : Echoes(n)
  BY DEF UartInv
<1>4. CASE pc' = "ack" /\ UNCHANGED <<s2, rx>>
  BY <1>1, <1>2, <1>3, <1>4, EchoesSame, LocalLemma DEF UartInv, InHand, Echoing, LineFeed
<1>5. CASE /\ rx # << >> /\ s2' = Head(rx) /\ rx' = Tail(rx)
           /\ pc' \in {"reboot_wait", "echo_wait"}
  <2>1. Echoes(n + 1)'
    BY <1>1, <1>3, <1>5, TakenEchoes
  <2>2. n + 1 \in Nat
    OBVIOUS
  <2>3. \E m \in Nat : Echoes(m)'
    BY <2>1, <2>2
  <2> QED BY <1>1, <1>2, <2>3, LocalLemma DEF UartInv
<1> QED BY <1>4, <1>5 DEF RxLoop

(* The character in hand is written for whom it was typed. *)
LEMMA EchoInv ==
  ASSUME UartInv, Echo
  PROVE  UartInv'
<1>1. /\ Runs(SERVER) /\ UNCHANGED <<vars, sent, typed, s1, s2, rx, greeting>>
      /\ pc = "echo_write" /\ pc' = (IF s2 = CR THEN "lf_wait" ELSE "rx_loop")
      /\ thr' = thr + 1 /\ echo' = Append(echo, <<s2>>)
  BY DEF Echo, At, Local, write_thr, for_typist, after_echo
<1>2. Serves' /\ Greets'
  BY <1>1, LocalLemma DEF UartInv, Serves, HasMessage, Writing, Greets
<1>3. HasRoom'
  BY <1>1 DEF UartInv, HasRoom
<1>4. PICK n \in Nat : Echoes(n)
  BY DEF UartInv
<1>5. /\ echo \in Seq(Seq(Nat)) /\ Len(echo) = n - 1 /\ n >= 1 /\ s2 = typed[n]
      /\ \A i \in 1 .. Len(echo) : echo[i] = Shown(typed[i])
      /\ s2 \in Word
  BY <1>1, <1>4 DEF Echoes, InHand, Echoing, LineFeed
<1>6. <<s2>> \in Seq(Nat)
  <2>1. s2 \in Nat
    BY <1>5, ProcessAssumption DEF Word
  <2> QED BY <2>1
<1>7. /\ Append(echo, <<s2>>) \in Seq(Seq(Nat)) /\ Len(Append(echo, <<s2>>)) = Len(echo) + 1
      /\ \A i \in 1 .. Len(echo) : Append(echo, <<s2>>)[i] = echo[i]
      /\ Append(echo, <<s2>>)[Len(echo) + 1] = <<s2>>
  BY <1>5, <1>6, AppendedLemma
<1>8. /\ echo' \in Seq(Seq(Nat)) /\ Len(echo') = n /\ echo'[n] = <<s2>>
      /\ \A i \in 1 .. n - 1 : echo'[i] = Shown(typed[i])
  BY <1>1, <1>5, <1>7
<1>9. /\ ~InHand' /\ ~Echoing' /\ (LineFeed' <=> s2 = CR)
  BY <1>1 DEF InHand, Echoing, LineFeed
<1>10. \A i \in 1 .. Len(echo') : (LineFeed' /\ i = n) \/ echo'[i] = Shown(typed'[i])
  <2> SUFFICES ASSUME NEW i \in 1 .. n
               PROVE  (s2 = CR /\ i = n) \/ echo'[i] = Shown(typed[i])
    BY <1>1, <1>8, <1>9 DEF Shown
  <2>1. CASE i = n
    BY <1>5, <1>8, <2>1 DEF Shown
  <2>2. CASE i \in 1 .. n - 1
    BY <1>8, <2>2
  <2> QED BY <2>1, <2>2
<1>11. Echoes(n)'
  BY <1>1, <1>4, <1>5, <1>8, <1>9, <1>10 DEF Echoes
<1> QED BY <1>1, <1>2, <1>3, <1>11, LocalLemma DEF UartInv

(* After a CR, its LF. *)
LEMMA EchoLfInv ==
  ASSUME UartInv, EchoLf
  PROVE  UartInv'
<1>1. /\ Runs(SERVER) /\ UNCHANGED <<vars, sent, typed, s1, s2, rx, greeting>>
      /\ pc = "lf_write" /\ pc' = "rx_loop" /\ thr' = thr + 1
      /\ echo' = [echo EXCEPT ![Len(echo)] = Append(@, LF)]
  BY DEF EchoLf, At, Local, write_thr, for_typist, after_echo
<1>2. Serves' /\ Greets'
  BY <1>1, LocalLemma DEF UartInv, Serves, HasMessage, Writing, Greets
<1>3. HasRoom'
  BY <1>1 DEF UartInv, HasRoom
<1>4. PICK n \in Nat : Echoes(n)
  BY DEF UartInv
<1>5. /\ echo \in Seq(Seq(Nat)) /\ Len(echo) = n /\ n >= 1
      /\ typed[n] = CR /\ echo[n] = <<CR>>
      /\ \A i \in 1 .. n : i = n \/ echo[i] = Shown(typed[i])
  BY <1>1, <1>4 DEF Echoes, InHand, Echoing, LineFeed
<1>6. Append(<<CR>>, LF) = <<CR, LF>> /\ <<CR, LF>> \in Seq(Nat)
  <2>1. CR \in Nat /\ LF \in Nat
    BY DEF CR, LF
  <2>2. <<CR>> \in Seq(Nat) /\ Len(<<CR>>) = 1 /\ <<CR>>[1] = CR
    BY <2>1
  <2>3. <<CR, LF>> \in Seq(Nat) /\ Len(<<CR, LF>>) = 2
    BY <2>1
  <2>4. /\ Append(<<CR>>, LF) \in Seq(Nat) /\ Len(Append(<<CR>>, LF)) = 2
        /\ Append(<<CR>>, LF)[1] = CR /\ Append(<<CR>>, LF)[2] = LF
    BY <2>1, <2>2, AppendedLemma
  <2>5. \A i \in 1 .. 2 : Append(<<CR>>, LF)[i] = <<CR, LF>>[i]
    BY <2>4
  <2> QED BY <2>3, <2>4, <2>5, SeqEqual
<1>7. echo' = [echo EXCEPT ![n] = <<CR, LF>>]
  BY <1>1, <1>5, <1>6
<1>8. /\ echo' \in Seq(Seq(Nat)) /\ Len(echo') = n /\ echo'[n] = <<CR, LF>>
      /\ \A i \in 1 .. n : i # n => echo'[i] = echo[i]
  BY <1>5, <1>6, <1>7
<1>9. ~InHand' /\ ~Echoing' /\ ~LineFeed'
  BY <1>1 DEF InHand, Echoing, LineFeed
<1>10. \A i \in 1 .. n : echo'[i] = Shown(typed[i])
  BY <1>5, <1>8 DEF Shown
<1>11. \A i \in 1 .. Len(echo') : echo'[i] = Shown(typed'[i])
  BY <1>1, <1>8, <1>10 DEF Shown
<1>12. Echoes(n)'
  BY <1>1, <1>4, <1>8, <1>9, <1>11 DEF Echoes
<1> QED BY <1>1, <1>2, <1>3, <1>12, LocalLemma DEF UartInv


----------------------------------------------------------------------------
(* System calls of the server. *)

LEMMA FrameLemma ==
  ASSUME NEW a \in Word, NEW b \in Word
  PROVE  [a0 |-> a, a1 |-> b, a2 |-> 0] \in TrapFrame
  BY ProcessAssumption DEF TrapFrame, Word

(* A call that returns to the server and changes nothing else that the programs see. *)
LEMMA ReturnedLemma ==
  ASSUME Processes, Greets, NEW rg, Outcome(state, rg), state[SERVER] = "Running",
         UNCHANGED ipc_vars, UNCHANGED <<sent, greeting>>, pc # "reply", pc' = "receive"
  PROVE  Processes' /\ Serves' /\ Greets'
<1>1. \A p \in PIDs : Same(state[p], state'[p])
  BY DEF Outcome
<1>2. /\ Calling' <=> Calling
      /\ state'[SERVER] \in {"Ready", "Running"}
      /\ state'[INIT] \in {"Ready", "Running", "BlockedCall", "Free"}
      /\ \A p \in PIDs \ {INIT, SERVER} : state'[p] = "Free"
  BY <1>1, ProgramsLemma, SameLemma DEF Processes, Calling
<1>3. Processes'
  BY <1>2 DEF Processes, ipc_vars
<1>4. Serves'
  BY DEF Serves, HasMessage, Writing
<1>5. Greets'
  BY <1>2 DEF Greets
<1> QED BY <1>3, <1>4, <1>5

(* Echoes and HasRoom where the server makes a call. *)
LEMMA CallingLemma ==
  ASSUME UartInv, UNCHANGED <<s2, rx, thr, echo, typed>>,
         pc \in {"start", "receive", "reply", "ack"}, pc' \in {"receive", "dispatch"}
  PROVE  HasRoom' /\ \E n \in Nat : Echoes(n)'
<1>1. \A n : Echoes(n) => Echoes(n)'
  BY EchoesSame DEF InHand, Echoing, LineFeed
<1> QED BY <1>1 DEF UartInv, HasRoom

LEMMA RegisterInv ==
  ASSUME UartInv, Register
  PROVE  UartInv'
<1> DEFINE f == [a0 |-> UART_IRQ_NUM, a1 |-> 0, a2 |-> 0]
<1>1. /\ Runs(SERVER) /\ pc = "start" /\ pc' = "receive" /\ sys_irq_register(f)
      /\ UNCHANGED <<heap, sent, s1, s2, rx, thr, greeting, echo, typed>>
  BY DEF Register, At, uart_vars
<1>2. f \in TrapFrame
  <2>1. UART_IRQ_NUM \in Word /\ 0 \in Word
    BY UartAssumption, IrqAssumption, WordLemma, ProcessAssumption DEF Word
  <2> QED BY <2>1, FrameLemma
<1> HIDE DEF f
<1>3. mode = "user" /\ state[SERVER] = "Running" /\ IInv
  BY <1>1, ProgramsLemma, RunsLemma DEF UartInv
<1>4. \E v : return(f, v)
  BY <1>1 DEF sys_irq_register
<1>5. UNCHANGED ipc_vars
  BY <1>1 DEF sys_irq_register
<1>6. \E rg : Outcome(state, rg)
  BY <1>3, <1>4, PlainOutcome
<1>7. Processes' /\ Serves' /\ Greets'
  BY <1>1, <1>3, <1>5, <1>6, ReturnedLemma DEF UartInv
<1>8. IInv'
  BY <1>1, <1>2, <1>3, RegisterLemma
<1> QED BY <1>1, <1>7, <1>8, CallingLemma DEF UartInv

LEMMA AckInv ==
  ASSUME UartInv, Ack
  PROVE  UartInv'
<1>1. /\ Runs(SERVER) /\ pc = "ack" /\ pc' = "receive" /\ sys_irq_ack(zero)
      /\ UNCHANGED <<heap, sent, s1, s2, rx, thr, greeting, echo, typed>>
  BY DEF Ack, At, uart_vars
<1>2. zero \in TrapFrame
  BY ProcessAssumption DEF zero, TrapFrame, Word
<1>3. mode = "user" /\ state[SERVER] = "Running" /\ IInv
  BY <1>1, ProgramsLemma, RunsLemma DEF UartInv
<1>4. \E v : return(zero, v)
  BY <1>1 DEF sys_irq_ack
<1>5. UNCHANGED ipc_vars
  BY <1>1 DEF sys_irq_ack
<1>6. \E rg : Outcome(state, rg)
  BY <1>3, <1>4, PlainOutcome
<1>7. Processes' /\ Serves' /\ Greets'
  BY <1>1, <1>3, <1>5, <1>6, ReturnedLemma DEF UartInv
<1>8. IInv'
  BY <1>1, <1>2, <1>3, AckLemma
<1> QED BY <1>1, <1>7, <1>8, CallingLemma DEF UartInv

(* The server gets an interrupt, takes the message of a call that waits, or blocks. *)
LEMMA ReceiveAnyInv ==
  ASSUME UartInv, ReceiveAny
  PROVE  UartInv'
<1> DEFINE f == [a0 |-> 0, a1 |-> 0, a2 |-> 0]
<1>1. /\ Runs(SERVER) /\ pc = "receive" /\ pc' = "dispatch" /\ sys_receive(f)
      /\ UNCHANGED <<heap, plic_vars>>
      /\ UNCHANGED <<sent, s1, s2, rx, thr, greeting, echo, typed>>
  BY DEF ReceiveAny, At, uart_vars, accepts_from
<1>2. f \in TrapFrame
  BY ProcessAssumption, FrameLemma DEF Word
<1>3. /\ mode = "user" /\ CURRENT_PID = SERVER /\ state[SERVER] = "Running" /\ IInv
      /\ state \in StateTable /\ context \in ContextTable
  BY <1>1, ProgramsLemma, RunsLemma, CallerLemma DEF UartInv, IInv
<1>4. IInv'
  BY <1>1, <1>2, <1>3, ReceiveLemma
<1>5. UNCHANGED ipc_value
  BY <1>1 DEF sys_receive
<1>6. f.a0 = 0 /\ f.a1 = 0
  OBVIOUS
<1> HIDE DEF f
<1>7. \/ /\ Outcome(state, [context EXCEPT ![SERVER] =
                              [f EXCEPT !.a0 = irq_num[SERVER], !.a1 = 0]])
         /\ UNCHANGED ipc_target
      \/ \E i \in PIDs \ {SERVER} :
           /\ Offers(i, SERVER, 0)
           /\ state[i] # "BlockedSend" =>
                 Outcome(state, [context EXCEPT
                            ![SERVER] = [f EXCEPT !.a0 = ipc_value[i], !.a1 = i]])
           /\ UNCHANGED ipc_target
      \/ /\ Outcome([state EXCEPT ![SERVER] = "BlockedRecv"], [context EXCEPT ![SERVER] = f])
         /\ ipc_target' = [ipc_target EXCEPT ![SERVER] = 0]
  BY <1>1, <1>2, <1>3, <1>6, ReceiveOutcome, ZenonT(60)
<1>8. Processes /\ Serves /\ Greets
  BY DEF UartInv
<1>9. ASSUME NEW a, NEW b,
             Outcome(state, [context EXCEPT ![SERVER] = [f EXCEPT !.a0 = a, !.a1 = b]]),
             UNCHANGED ipc_target,
             b = 0 \/ (Calling /\ b = INIT /\ a = sent)
      PROVE  Processes' /\ Serves' /\ Greets'
  <2>1. /\ \A p \in PIDs : Same(state[p], state'[p])
        /\ registers(SERVER)'.a0 = a /\ registers(SERVER)'.a1 = b
    BY <1>2, <1>3, <1>9, ProgramsLemma DEF Outcome, ContextTable, TrapFrame
  <2>2. /\ Calling' <=> Calling
        /\ state'[SERVER] \in {"Ready", "Running"}
        /\ state'[INIT] \in {"Ready", "Running", "BlockedCall", "Free"}
        /\ \A p \in PIDs \ {INIT, SERVER} : state'[p] = "Free"
    BY <1>3, <1>8, <2>1, ProgramsLemma, SameLemma DEF Processes, Calling
  <2>3. Processes'
    BY <1>1, <1>5, <1>8, <1>9, <2>2 DEF Processes
  <2>4. Serves'
    BY <1>1, <1>9, <2>1, <2>2 DEF Serves, HasMessage, Writing
  <2>5. Greets'
    BY <1>1, <1>8, <2>2 DEF Greets
  <2> QED BY <2>3, <2>4, <2>5
<1>10. ASSUME Outcome([state EXCEPT ![SERVER] = "BlockedRecv"], [context EXCEPT ![SERVER] = f]),
              ipc_target' = [ipc_target EXCEPT ![SERVER] = 0]
       PROVE  Processes' /\ Serves' /\ Greets'
  <2>1. /\ \A p \in PIDs \ {SERVER} : Same(state[p], state'[p])
        /\ state'[SERVER] = "BlockedRecv"
    BY <1>3, <1>10, ProgramsLemma, SameLemma DEF Outcome, StateTable
  <2>2. /\ Calling' <=> Calling
        /\ state'[INIT] \in {"Ready", "Running", "BlockedCall", "Free"}
        /\ \A p \in PIDs \ {INIT, SERVER} : state'[p] = "Free"
    BY <1>8, <2>1, ProgramsLemma, SameLemma DEF Processes, Calling
  <2>3. ipc_target'[INIT] = ipc_target[INIT]
    BY <1>3, <1>10, ProgramsLemma DEF IInv, TypeOK, ProcTypeOK
  <2>4. Processes'
    BY <1>1, <1>5, <1>8, <2>1, <2>2, <2>3 DEF Processes
  <2>5. Serves'
    BY <1>1, <2>1 DEF Serves, HasMessage, Writing, Runnable
  <2>6. Greets'
    BY <1>1, <1>8, <2>2 DEF Greets
  <2> QED BY <2>4, <2>5, <2>6
<1>11. ASSUME NEW i \in PIDs \ {SERVER}, Offers(i, SERVER, 0)
       PROVE  i = INIT /\ Calling /\ state[i] # "BlockedSend" /\ ipc_value[i] = sent
  BY <1>8, <1>11, ProgramsLemma DEF Offers, Processes, Calling
<1>12. Processes' /\ Serves' /\ Greets'
  BY <1>7, <1>9, <1>10, <1>11
<1> QED BY <1>1, <1>4, <1>12, CallingLemma DEF UartInv

(* The reply ends init's call, with the character written. *)
LEMMA ReplyToSenderInv ==
  ASSUME UartInv, ReplyToSender
  PROVE  UartInv'
<1> DEFINE f == [a0 |-> s1, a1 |-> 0, a2 |-> 0]
<1>1. /\ Runs(SERVER) /\ pc = "reply" /\ pc' = "receive" /\ sys_reply(f)
      /\ UNCHANGED <<heap, plic_vars>>
      /\ UNCHANGED <<sent, s1, s2, rx, thr, greeting, echo, typed>>
  BY DEF ReplyToSender, At, uart_vars
<1>2. Processes /\ Serves /\ Greets /\ Calling /\ s1 = INIT
  BY <1>1 DEF UartInv, Serves
<1>3. f \in TrapFrame /\ f.a0 = INIT
  <2>1. INIT \in Word /\ 0 \in Word
    BY ProgramsLemma, WordLemma, ProcessAssumption DEF Word
  <2> QED BY <1>2, <2>1, FrameLemma
<1> HIDE DEF f
<1>4. /\ mode = "user" /\ CURRENT_PID = SERVER /\ state[SERVER] = "Running" /\ IInv
      /\ state \in StateTable
  BY <1>1, ProgramsLemma, RunsLemma, CallerLemma DEF UartInv, IInv
<1>5. Called(INIT, SERVER)
  BY <1>2 DEF Called, Processes, Calling
<1>6. UNCHANGED ipc_vars /\ \E rg : Outcome([state EXCEPT ![INIT] = "Ready"], rg)
  BY <1>1, <1>3, <1>4, <1>5, ProgramsLemma, ReplyOutcome
<1>7. /\ \A p \in PIDs \ {INIT} : Same(state[p], state'[p])
      /\ Runnable(INIT)'
  BY <1>4, <1>6, ProgramsLemma DEF Outcome, Same, Runnable, StateTable
<1>8. /\ ~Calling' /\ state'[SERVER] \in {"Ready", "Running"}
      /\ \A p \in PIDs \ {INIT, SERVER} : state'[p] = "Free"
  BY <1>2, <1>4, <1>7, ProgramsLemma, SameLemma DEF Processes, Calling, Runnable
<1>9. Processes'
  BY <1>7, <1>8 DEF Processes, Runnable
<1>10. Serves'
  BY <1>1 DEF Serves, HasMessage, Writing
<1>11. Greets'
  BY <1>1, <1>2, <1>8 DEF Greets
<1>12. IInv'
  BY <1>1, <1>3, <1>4, ReplyLemma
<1> QED BY <1>1, <1>9, <1>10, <1>11, <1>12, CallingLemma DEF UartInv


----------------------------------------------------------------------------
(* System calls of init. *)

(* init does not run while it is in a call, and the server has no message then. *)
LEMMA InitRunsLemma ==
  ASSUME UartInv, Runs(INIT)
  PROVE  /\ mode = "user" /\ CURRENT_PID = INIT /\ state[INIT] = "Running" /\ IInv
         /\ state[SERVER] # "Running" /\ registers(SERVER) = context[SERVER]
         /\ ~Calling /\ ~HasMessage /\ ~Writing /\ pc # "reply"
         /\ state \in StateTable /\ context \in ContextTable
<1>1. /\ mode = "user" /\ CURRENT_PID = INIT /\ state[INIT] = "Running" /\ IInv
      /\ state[SERVER] # "Running"
  BY ProgramsLemma, RunsLemma DEF UartInv
<1>2. state \in StateTable /\ context \in ContextTable
  BY <1>1, CallerLemma DEF IInv
<1>3. ~Calling
  BY <1>1 DEF Calling
<1> QED BY <1>1, <1>2, <1>3 DEF UartInv, Serves, registers

LEMMA InitCallInv ==
  ASSUME UartInv, InitCall
  PROVE  UartInv'
<1> DEFINE f == [a0 |-> SERVER, a1 |-> sent + 1, a2 |-> 0]
<1>1. /\ Runs(INIT) /\ sent < HELLO_LEN /\ sys_call(f) /\ sent' = sent + 1
      /\ UNCHANGED <<heap, plic_vars>>
      /\ UNCHANGED <<pc, s1, s2, rx, thr, greeting, echo, typed>>
  BY DEF InitCall, uart_vars
<1>2. sent \in 0 .. HELLO_LEN /\ HELLO_LEN \in Word /\ HELLO_LEN \in Nat /\ sent \in Nat
  BY UartAssumption, ProcessAssumption DEF UartInv, Greets, Word
<1>3. sent + 1 \in Word /\ sent + 1 \in 0 .. HELLO_LEN /\ sent + 1 >= 1
  BY <1>1, <1>2, ProcessAssumption DEF Word
<1>4. f \in TrapFrame /\ f.a0 = SERVER /\ f.a1 = sent + 1
  BY <1>3, ProgramsLemma, WordLemma, FrameLemma
<1> HIDE DEF f
<1>5. Processes /\ Serves /\ Greets
  BY DEF UartInv
<1>6. /\ IF Accepts(SERVER, INIT)
         THEN Outcome([state EXCEPT ![INIT] = "BlockedCall", ![SERVER] = "Ready"],
                      [context EXCEPT
                         ![SERVER] = [a0 |-> sent + 1, a1 |-> INIT, a2 |-> f.a2], ![INIT] = f])
         ELSE Outcome([state EXCEPT ![INIT] = "BlockedCall"], [context EXCEPT ![INIT] = f])
      /\ ipc_target' = [ipc_target EXCEPT ![INIT] = SERVER]
      /\ ipc_value' = [ipc_value EXCEPT ![INIT] = sent + 1]
  BY <1>1, <1>4, InitRunsLemma, ProgramsLemma, CallOutcome
<1>7. ipc_target'[INIT] = SERVER /\ ipc_value'[INIT] = sent' /\ sent' >= 1
  BY <1>1, <1>3, <1>6, InitRunsLemma, ProgramsLemma DEF IInv, TypeOK, ProcTypeOK
<1>8. /\ state'[INIT] = "BlockedCall" /\ \A p \in PIDs \ {INIT, SERVER} : state'[p] = "Free"
      /\ state'[SERVER] \in {"Ready", "Running", "BlockedRecv"}
      /\ state'[SERVER] = "BlockedRecv" => pc = "dispatch"
      /\ HasMessage' => registers(SERVER)'.a1 = INIT /\ registers(SERVER)'.a0 = sent'
  <2>1. CASE Accepts(SERVER, INIT)
    <3>1. Outcome([state EXCEPT ![INIT] = "BlockedCall", ![SERVER] = "Ready"],
                  [context EXCEPT
                     ![SERVER] = [a0 |-> sent + 1, a1 |-> INIT, a2 |-> f.a2], ![INIT] = f])
      BY <1>6, <2>1
    <3>2. /\ \A p \in PIDs \ {INIT, SERVER} : Same(state[p], state'[p])
          /\ Same("BlockedCall", state'[INIT]) /\ Same("Ready", state'[SERVER])
          /\ registers(SERVER)' = [a0 |-> sent + 1, a1 |-> INIT, a2 |-> f.a2]
      BY <1>1, <3>1, InitRunsLemma, ProgramsLemma DEF Outcome, StateTable, ContextTable
    <3> QED BY <1>1, <1>5, <3>2, SameLemma DEF Processes
  <2>2. CASE ~Accepts(SERVER, INIT)
    <3>1. Outcome([state EXCEPT ![INIT] = "BlockedCall"], [context EXCEPT ![INIT] = f])
      BY <1>6, <2>2
    <3>2. /\ \A p \in PIDs \ {INIT} : Same(state[p], state'[p])
          /\ Same("BlockedCall", state'[INIT])
          /\ registers(SERVER)' = registers(SERVER)
      BY <1>1, <3>1, InitRunsLemma, ProgramsLemma DEF Outcome, StateTable, ContextTable
    <3>3. /\ state'[INIT] = "BlockedCall" /\ \A p \in PIDs \ {INIT, SERVER} : state'[p] = "Free"
          /\ state'[SERVER] \in {"Ready", "Running", "BlockedRecv"}
          /\ state'[SERVER] = "BlockedRecv" => state[SERVER] = "BlockedRecv"
          /\ Runnable(SERVER)' <=> Runnable(SERVER)
      BY <1>5, <3>2, ProgramsLemma, SameLemma DEF Processes, Runnable
    <3>4. ~HasMessage'
      BY <1>1, <3>2, <3>3, InitRunsLemma DEF HasMessage
    <3> QED BY <1>5, <3>3, <3>4 DEF Processes
  <2> QED BY <2>1, <2>2
<1>9. Processes' /\ Calling'
  BY <1>1, <1>7, <1>8 DEF Processes, Calling
<1>10. Serves'
  BY <1>1, <1>8, <1>9, InitRunsLemma DEF Serves, Writing
<1>11. Greets'
  <2>1. Len(greeting) = sent' - 1 /\ sent' \in 0 .. HELLO_LEN
    BY <1>1, <1>2, <1>3, <1>5, InitRunsLemma DEF Greets
  <2> QED BY <1>1, <1>5, <1>9, <2>1, InitRunsLemma DEF Greets
<1>12. \A n : Echoes(n) => Echoes(n)'
  BY <1>1, EchoesSame DEF InHand, Echoing, LineFeed
<1>13. HasRoom'
  BY <1>1 DEF UartInv, HasRoom
<1>14. IInv'
  BY <1>1, <1>4, InitRunsLemma, CallLemma
<1> QED BY <1>9, <1>10, <1>11, <1>12, <1>13, <1>14 DEF UartInv

LEMMA InitExitInv ==
  ASSUME UartInv, InitExit
  PROVE  UartInv'
<1>1. /\ Runs(INIT) /\ terminate(zero, 0, CURRENT_PID) /\ thr' = 1 /\ UNCHANGED plic_vars
      /\ UNCHANGED <<sent, pc, s1, s2, rx, greeting, echo, typed>>
  BY DEF InitExit, sys_exit, zero, kernel_prints, program_vars
<1>2. zero \in TrapFrame /\ 0 \in Word
  BY ProcessAssumption DEF zero, TrapFrame, Word
<1>3. Processes /\ Serves /\ Greets
  BY DEF UartInv
<1>4. \A p \in PIDs : state[p] # "BlockedWait"
  BY <1>3, ProgramsLemma DEF Processes
<1>5. /\ \A p \in PIDs \ {INIT} : Same(state[p], state'[p]) /\ registers(p)' = context[p]
      /\ Same("Free", state'[INIT])
      /\ UNCHANGED ipc_vars
  BY <1>1, <1>2, <1>4, InitRunsLemma, ProgramsLemma, TerminateOutcome DEF Outcome
<1>6. /\ state'[INIT] = "Free" /\ \A p \in PIDs \ {INIT, SERVER} : state'[p] = "Free"
      /\ state'[SERVER] \in {"Ready", "Running", "BlockedRecv"}
      /\ state'[SERVER] = "BlockedRecv" => state[SERVER] = "BlockedRecv"
      /\ Runnable(SERVER)' <=> Runnable(SERVER)
  BY <1>3, <1>5, ProgramsLemma, SameLemma DEF Processes, Runnable
<1>7. Processes' /\ ~Calling'
  BY <1>1, <1>3, <1>6 DEF Processes, Calling
<1>8. Serves'
  <2>1. ~HasMessage'
    BY <1>1, <1>5, <1>6, InitRunsLemma, ProgramsLemma DEF HasMessage
  <2> QED BY <1>1, <2>1, InitRunsLemma DEF Serves, Writing
<1>9. Greets'
  BY <1>1, <1>3, <1>7, InitRunsLemma DEF Greets
<1>10. \A n : Echoes(n) => Echoes(n)'
  BY <1>1, EchoesSame DEF InHand, Echoing, LineFeed
<1>11. HasRoom'
  BY <1>1 DEF UartInv, HasRoom
<1>12. IInv'
  BY <1>1, <1>2, InitRunsLemma, ProgramsLemma, TerminateLemma
<1> QED BY <1>7, <1>8, <1>9, <1>10, <1>11, <1>12 DEF UartInv

----------------------------------------------------------------------------
(* The state after boot, and after the reboot that Ctrl-R asks for. *)
LEMMA BootInv ==
  ASSUME Init, sent = 0, pc = "start", s2 = 0, uart_init
  PROVE  UartInv
<1>1. IInv
  BY InitLemma
<1>2. /\ state[INIT] = "Running" /\ state[SERVER] = "Ready"
      /\ \A p \in PIDs \ {INIT, SERVER} : state[p] = "Free"
  BY ProgramsLemma, UartAssumption DEF Init, launch, BootState, INIT, SERVER
<1>3. Processes /\ Serves
  BY <1>2 DEF Processes, Calling, Serves, HasMessage, Writing
<1>4. Greets
  <2>1. HELLO_LEN \in Nat
    BY UartAssumption, ProcessAssumption DEF Word
  <2> QED BY <1>2, <2>1 DEF Greets, Calling, uart_init
<1>5. Echoes(0)
  <2>1. 0 \in Word
    BY ProcessAssumption DEF Word
  <2> QED BY <2>1 DEF Echoes, uart_init, InHand, Echoing, LineFeed
<1>6. HasRoom
  BY DEF HasRoom, uart_init
<1> QED BY <1>1, <1>3, <1>4, <1>5, <1>6 DEF UartInv

LEMMA RebootNowInv ==
  ASSUME RebootNow
  PROVE  UartInv'
<1>1. Init'
  BY DEF RebootNow, sys_reboot, sbi_system_reset, plic_reset, Init, launch, plic_init
<1>2. sent' = 0 /\ pc' = "start" /\ s2' = 0 /\ uart_init'
  BY DEF RebootNow, uart_reset, uart_init
<1>3. (Init /\ sent = 0 /\ pc = "start" /\ s2 = 0 /\ uart_init => UartInv)'
  BY BootInv, PTL
<1> QED BY <1>1, <1>2, <1>3

LEMMA StutterInv ==
  ASSUME UartInv, UNCHANGED system_vars
  PROVE  UartInv'
<1>1. UNCHANGED <<proc_vars, heap, plic_vars>>
      /\ UNCHANGED <<sent, pc, s1, s2, rx, thr, greeting, echo, typed>>
  BY DEF system_vars, vars, program_vars, uart_vars
<1>2. IInv'
  BY <1>1, DeviceLemma DEF UartInv, IInv, TypeOK, plic_vars
<1>3. Processes' /\ Serves' /\ Greets'
  BY <1>1, UnchangedSteady, SteadyLemma DEF UartInv
<1>4. \A n : Echoes(n) => Echoes(n)'
  BY <1>1, EchoesSame DEF InHand, Echoing, LineFeed
<1>5. HasRoom'
  BY <1>1 DEF UartInv, HasRoom
<1> QED BY <1>2, <1>3, <1>4, <1>5 DEF UartInv

LEMMA UartNextInv ==
  ASSUME UartInv, [SystemNext]_system_vars
  PROVE  UartInv'
<1>1. CASE InitStep
  BY <1>1, InitCallInv, InitExitInv DEF InitStep
<1>2. CASE ServerStep
  BY <1>2, RegisterInv, ReceiveAnyInv, DispatchInv, WaitThrInv, TxWriteInv,
     ReplyToSenderInv, RxLoopInv, EchoInv, EchoLfInv, AckInv, RebootNowInv
  DEF ServerStep
<1>3. CASE Timer \/ Interrupt \/ KeyTyped \/ Transmits \/ Asserts
  BY <1>3, TimerInv, InterruptInv, KeyTypedInv, TransmitsInv, AssertsInv
<1>4. CASE UNCHANGED system_vars
  BY <1>4, StutterInv
<1> QED BY <1>1, <1>2, <1>3, <1>4 DEF SystemNext

(* In order is what UartInv says of the greeting and of the echo, and the FIFO holds two. *)
LEMMA InOrderLemma ==
  ASSUME UartInv
  PROVE  OutputInOrder
<1>1. PICK n \in Nat : Echoes(n)
  BY DEF UartInv
<1>2. /\ typed \in Seq(Word) /\ rx \in Seq(Word) /\ echo \in Seq(Seq(Nat))
      /\ Len(typed) = n + Len(rx) /\ Len(rx) \in Nat /\ Len(echo) \in {n - 1, n}
      /\ LineFeed => Len(echo) = n /\ typed[n] = CR /\ echo[n] = <<CR>>
      /\ \A i \in 1 .. Len(echo) : (LineFeed /\ i = n) \/ echo[i] = Shown(typed[i])
  BY <1>1 DEF Echoes, InHand, Echoing, LineFeed
<1>3. Len(echo) <= Len(typed)
  BY <1>2
<1>4. ASSUME NEW i \in 1 .. Len(echo)
      PROVE  \/ echo[i] = Expected[i]
             \/ i = Len(echo) /\ typed[i] = CR /\ echo[i] = <<CR>>
  <2>1. i \in 1 .. Len(typed)
    BY <1>2, <1>3
  <2>2. Expected[i] = Shown(typed[i])
    BY <2>1 DEF Expected
  <2> QED BY <1>2, <1>4, <2>2
<1>5. EchoInOrder
  BY <1>3, <1>4 DEF EchoInOrder
<1>6. greeting = [i \in 1 .. Len(greeting) |-> i]
  BY DEF UartInv, Greets
<1>7. /\ Len(greeting) \in {sent - 1, sent}
      /\ state[INIT] # "BlockedCall" => Len(greeting) = sent
  BY DEF UartInv, Greets, Calling
<1>8. thr <= TX_FIFO
  BY UartAssumption DEF UartInv, HasRoom
<1> QED BY <1>5, <1>6, <1>7, <1>8 DEF OutputInOrder

(***************************************************************************)
(* What comes out of the UART is complete and in order (the programs of    *)
(* lifecycle.rs over the kernel's SYS_CALL, SYS_RECEIVE and SYS_REPLY):    *)
(* each character of the greeting once, written before init's call ends,   *)
(* every character typed echoed once, CR as CR LF, and no store to THR     *)
(* finds the transmit FIFO full, whatever the timer and the keyboard do.   *)
(***************************************************************************)
THEOREM UartOutputInOrder == SystemSpec => []OutputInOrder
<1>1. SystemInit => UartInv
  BY BootInv DEF SystemInit
<1>2. UartInv /\ [SystemNext]_system_vars => UartInv'
  BY UartNextInv
<1>3. UartInv => OutputInOrder
  BY InOrderLemma
<1> QED BY <1>1, <1>2, <1>3, PTL DEF SystemSpec


=============================================================================

---------------------------- MODULE UartSystem -----------------------------
(***************************************************************************)
(* The system that boots: the kernel with the two programs of              *)
(* kernel/src/lifecycle.rs, init (PID 1) and the UART server (PID 2), and  *)
(* the UART they end at.  Each program is its assembly, one action per     *)
(* system call, device access or branch that another actor can come        *)
(* between; its s-registers are variables here, its a-registers those of   *)
(* the kernel's trap frame.                                                *)
(***************************************************************************)
EXTENDS Kernel, Sequences

CONSTANTS
  UART_IRQ_NUM,
  HELLO_LEN,      \* the greeting is the characters 1 .. HELLO_LEN
  Keys,           \* characters typed at the terminal
  MAX_KEYS,       \* how many are typed in all
  RX_FIFO,        \* characters the receive FIFO holds
  TX_FIFO         \* characters the transmit FIFO holds

CR == 13
LF == 10
CTRL_R == 18

INIT == 1
SERVER == 2

(* The FIFOs of a 16550 hold 16 characters. *)
ASSUME UartAssumption ==
  /\ BootProcs = {INIT, SERVER}
  /\ UART_IRQ_NUM \in Sources
  /\ HELLO_LEN \in Word \ {0}
  /\ Keys \subseteq Word
  /\ MAX_KEYS \in Nat /\ RX_FIFO \in Nat \ {0} /\ TX_FIFO \in Nat \ {0, 1}

VARIABLES
  sent,       \* init: characters of the greeting it has called the server with
  pc,         \* the server: where it is
  s1, s2,     \* the server: sender to reply to, character in hand
  rx,         \* the UART's receive FIFO
  thr,        \* characters in its transmit FIFO
  greeting,   \* what the server has written to THR for its callers since boot
  echo,       \* for each character typed, what it has written for it
  typed,      \* what has entered the receive FIFO since boot
  keys        \* characters typed in all

program_vars == <<sent, pc, s1, s2>>
uart_vars == <<rx, thr, greeting, echo, typed, keys>>
system_vars == <<vars, program_vars, uart_vars>>

Runs(p) == mode = "user" /\ CURRENT_PID = p

----------------------------------------------------------------------------
(* uart.rs *)

thr_empty == thr = 0

(* sb c, 0(s0), and whom c is written for. *)
write_thr == thr' = thr + 1
for_caller(c) == greeting' = Append(greeting, c) /\ UNCHANGED echo
for_typist(shown) == echo' = shown /\ UNCHANGED greeting

(* puts: every putc spins until THR is empty, so one character is left. *)
kernel_prints == thr' = 1

uart_init ==
  rx = << >> /\ thr = 0 /\ greeting = << >> /\ echo = << >> /\ typed = << >>
uart_reset ==
  rx' = << >> /\ thr' = 0 /\ greeting' = << >> /\ echo' = << >> /\ typed' = << >>

(* A key arrives; with the FIFO full it is lost. *)
KeyTyped ==
  /\ keys < MAX_KEYS
  /\ keys' = keys + 1
  /\ \E c \in Keys :
        IF Len(rx) < RX_FIFO
        THEN rx' = Append(rx, c) /\ typed' = Append(typed, c)
        ELSE UNCHANGED <<rx, typed>>
  /\ UNCHANGED <<vars, program_vars, thr, greeting, echo>>

(* A character leaves the transmit FIFO. *)
Transmits ==
  /\ thr > 0
  /\ thr' = thr - 1
  /\ UNCHANGED <<vars, program_vars, rx, greeting, echo, typed, keys>>

(***************************************************************************)
(* Received data asserts the line; the PLIC's gateway forwards one request *)
(* until the last one is completed.                                        *)
(***************************************************************************)
Asserts ==
  /\ rx # << >>
  /\ UART_IRQ_NUM \notin plic_claimed
  /\ raise(UART_IRQ_NUM)
  /\ UNCHANGED <<heap, program_vars, uart_vars>>

----------------------------------------------------------------------------
(* Program 1: init. *)

InitCall ==
  /\ Runs(INIT) /\ sent < HELLO_LEN
  /\ sys_call([a0 |-> SERVER, a1 |-> sent + 1, a2 |-> 0])
  /\ sent' = sent + 1
  /\ UNCHANGED <<heap, plic_vars, pc, s1, s2, uart_vars>>

(* Mutant of InitExit: a7 holds another number. *)
InitExit_unknown ==
  /\ Runs(INIT) /\ sent = HELLO_LEN
  /\ sys_unknown(zero)
  /\ UNCHANGED <<heap, plic_vars, program_vars, uart_vars>>

(* sys_exit prints a line. *)
InitExit ==
  /\ Runs(INIT) /\ sent = HELLO_LEN
  /\ sys_exit(zero)
  /\ kernel_prints
  /\ UNCHANGED <<plic_vars, program_vars, rx, greeting, echo, typed, keys>>

----------------------------------------------------------------------------
(* Program 2: the UART server. *)

At(here) == Runs(SERVER) /\ pc = here

(* A step that only the program's registers and the UART see. *)
Local == UNCHANGED <<vars, sent, typed, keys>>

Register ==
  /\ At("start")
  /\ sys_irq_register([a0 |-> UART_IRQ_NUM, a1 |-> 0, a2 |-> 0])
  /\ pc' = "receive"
  /\ UNCHANGED <<heap, sent, s1, s2, uart_vars>>

(* Mutant of accepts_from: the server listens to init only. *)
accepts_from_init == INIT

accepts_from == 0

ReceiveAny ==
  /\ At("receive")
  /\ sys_receive([a0 |-> accepts_from, a1 |-> 0, a2 |-> 0])
  /\ pc' = "dispatch"
  /\ UNCHANGED <<heap, plic_vars, sent, s1, s2, uart_vars>>

(* beqz a1, .uart_handle_irq *)
Dispatch ==
  /\ At("dispatch")
  /\ \/ frame.a1 = 0 /\ pc' = "rx_loop" /\ UNCHANGED <<s1, s2>>
     \/ frame.a1 # 0 /\ pc' = "tx_wait" /\ s1' = frame.a1 /\ s2' = frame.a0
  /\ Local /\ UNCHANGED <<rx, thr, greeting, echo>>

(* LSR bit 5. *)
may_write == thr_empty

(* The wait loops in front of each store to THR, and where they end. *)
WaitLoops == [tx_wait |-> "tx_write", echo_wait |-> "echo_write",
              lf_wait |-> "lf_write", reboot_wait |-> "reboot"]

WaitThr ==
  /\ Runs(SERVER) /\ pc \in DOMAIN WaitLoops
  /\ may_write
  /\ pc' = WaitLoops[pc]
  /\ Local /\ UNCHANGED <<s1, s2, rx, thr, greeting, echo>>

(* Mutant of TxWrite: the character in hand is an old one. *)
TxWrite_first ==
  /\ At("tx_write")
  /\ write_thr /\ for_caller(1)
  /\ pc' = "reply"
  /\ Local /\ UNCHANGED <<s1, s2, rx>>

TxWrite ==
  /\ At("tx_write")
  /\ write_thr /\ for_caller(s2)
  /\ pc' = "reply"
  /\ Local /\ UNCHANGED <<s1, s2, rx>>

ReplyToSender ==
  /\ At("reply")
  /\ sys_reply([a0 |-> s1, a1 |-> 0, a2 |-> 0])
  /\ pc' = "receive"
  /\ UNCHANGED <<heap, plic_vars, sent, s1, s2, uart_vars>>

(* Where the server goes when a character is echoed. *)
after_echo == "rx_loop"

(* LSR bit 0 and RBR: only the server reads them. *)
RxLoop ==
  /\ At("rx_loop")
  /\ \/ rx = << >> /\ pc' = "ack" /\ UNCHANGED <<s2, rx>>
     \/ /\ rx # << >>
        /\ s2' = Head(rx) /\ rx' = Tail(rx)
        /\ pc' = IF Head(rx) = CTRL_R THEN "reboot_wait" ELSE "echo_wait"
  /\ Local /\ UNCHANGED <<s1, thr, greeting, echo>>

Echo ==
  /\ At("echo_write")
  /\ write_thr /\ for_typist(Append(echo, <<s2>>))
  /\ pc' = IF s2 = CR THEN "lf_wait" ELSE after_echo
  /\ Local /\ UNCHANGED <<s1, s2, rx>>

EchoLf ==
  /\ At("lf_write")
  /\ write_thr /\ for_typist([echo EXCEPT ![Len(echo)] = Append(@, LF)])
  /\ pc' = after_echo
  /\ Local /\ UNCHANGED <<s1, s2, rx>>

Ack ==
  /\ At("ack")
  /\ sys_irq_ack(zero)
  /\ pc' = "receive"
  /\ UNCHANGED <<heap, sent, s1, s2, uart_vars>>

(* The message before it is left out; the machine starts again. *)
RebootNow ==
  /\ At("reboot")
  /\ sys_reboot
  /\ sent' = 0 /\ pc' = "start" /\ s1' = 0 /\ s2' = 0
  /\ uart_reset
  /\ UNCHANGED keys

----------------------------------------------------------------------------
SystemInit ==
  /\ Init
  /\ sent = 0 /\ pc = "start" /\ s1 = 0 /\ s2 = 0
  /\ uart_init /\ keys = 0

InitStep == InitCall \/ InitExit

ServerStep ==
  \/ Register \/ ReceiveAny \/ Dispatch \/ WaitThr \/ TxWrite \/ ReplyToSender
  \/ RxLoop \/ Echo \/ EchoLf \/ Ack \/ RebootNow

(* Every thousandth timer interrupt prints the time. *)
Timer ==
  /\ handle_timer
  /\ kernel_prints \/ UNCHANGED thr
  /\ UNCHANGED <<program_vars, rx, greeting, echo, typed, keys>>

Interrupt == External /\ UNCHANGED <<program_vars, uart_vars>>

SystemNext ==
  \/ InitStep \/ ServerStep \/ Timer \/ Interrupt
  \/ KeyTyped \/ Transmits \/ Asserts

SystemSpec == SystemInit /\ [][SystemNext]_system_vars

(***************************************************************************)
(* Interrupts and the UART do not stop, and a program that gets time       *)
(* slices for ever executes instructions in them.                          *)
(***************************************************************************)
SystemFairSpec ==
  /\ SystemSpec
  /\ WF_system_vars(Timer) /\ WF_system_vars(Interrupt)
  /\ WF_system_vars(Transmits) /\ WF_system_vars(Asserts)
  /\ SF_system_vars(InitStep) /\ SF_system_vars(ServerStep)

----------------------------------------------------------------------------
(* What the terminal should show for a character typed. *)
Shown(c) == IF c = CR THEN <<CR, LF>> ELSE <<c>>
Expected == [i \in 1 .. Len(typed) |-> Shown(typed[i])]

EchoInOrder ==
  /\ Len(echo) <= Len(typed)
  /\ \A i \in 1 .. Len(echo) :
        \/ echo[i] = Expected[i]
        \/ i = Len(echo) /\ typed[i] = CR /\ echo[i] = <<CR>>

(***************************************************************************)
(* What comes out is complete and in order.  init's SYS_CALL "blocks until *)
(* server replies": the greeting reaches the UART, each character once,    *)
(* and when init goes on after a call its character has been written.      *)
(* What is typed is echoed, CR as CR LF, nothing twice and no character of *)
(* the receive FIFO skipped.  And a store to THR finds room: nobody but    *)
(* the server and the kernel's own prints writes it, and a print between   *)
(* the server's look at LSR and its store leaves one character behind.     *)
(***************************************************************************)
OutputInOrder ==
  /\ greeting = [i \in 1 .. Len(greeting) |-> i]
  /\ Len(greeting) \in {sent - 1, sent}
  /\ state[INIT] # "BlockedCall" => Len(greeting) = sent
  /\ EchoInOrder
  /\ thr <= TX_FIFO

(***************************************************************************)
(* Everything typed is echoed in the end, or Ctrl-R restarts the machine;  *)
(* a key that arrives while the server drains the FIFO or acknowledges     *)
(* raises the interrupt again.                                             *)
(***************************************************************************)
InputIsEchoed == echo # Expected ~> echo = Expected

(* The greeting is completed and init leaves, whatever is typed meanwhile. *)
GreetingCompletes ==
  <>[](Len(greeting) = HELLO_LEN /\ state[INIT] = "Free")

============================================================================

-------------------------------- MODULE Net --------------------------------
(***************************************************************************)
(* The in-kernel network server, kernel/src/net.rs, in the `net` build of  *)
(* the kernel: SYS_CALL to NET_SERVER_PID is served by handle_request      *)
(* instead of IPC, NET_CONNECT and NET_RECV park their caller in           *)
(* BlockedNet, and wake_blocked, after the polls of the timer and of the   *)
(* device's interrupt, completes what has become possible.                 *)
(*                                                                         *)
(* smoltcp is external: a socket is its state and the lengths of what its  *)
(* receive buffer holds (one byte a piece for TCP, one datagram for UDP),  *)
(* and a poll gives every socket at most one event of the network.         *)
(***************************************************************************)
EXTENDS Kernel, Sequences, Functions, FiniteSets

CONSTANTS
  NET_SERVER_PID,    \* the PID that stands for the server
  MAX_TCP_SOCKETS,
  MAX_UDP_SOCKETS,
  STAGING_SIZE,      \* size of the kernel's copy buffer
  POLL_TICKS,        \* ticks between two polls of the timer (10)
  VIRTIO_IRQ,        \* IRQ of the network device
  RX_CAPACITY,       \* pieces of data a receive buffer holds
  Opcodes,           \* the requests clients make
  HandleArgs,        \* socket handles they name
  LengthArgs         \* buffer lengths they give

OpcodeNames ==
  {"NET_STATUS", "NET_SOCKET_TCP", "NET_SOCKET_UDP", "NET_BIND", "NET_LISTEN",
   "NET_CLOSE", "NET_SEND", "NET_CONNECT", "NET_RECV", "unknown"}

ASSUME NetAssumption ==
  /\ NET_SERVER_PID \in Word
  /\ MAX_TCP_SOCKETS \in Nat \ {0} /\ MAX_UDP_SOCKETS \in Nat
  /\ STAGING_SIZE \in Word \ {0, ERR}
  /\ POLL_TICKS \in Nat /\ POLL_TICKS >= 2
  /\ VIRTIO_IRQ \in Sources
  /\ RX_CAPACITY \in Nat \ {0}
  /\ Opcodes \subseteq OpcodeNames
  /\ HandleArgs \subseteq Nat
  /\ LengthArgs \subseteq Nat

VARIABLES
  net,               \* [PIDs -> the net_* columns of the process table]
  sockets,           \* NET_SOCKETS through TCP_HANDLES and UDP_HANDLES
  TCP_ALLOC_COUNT,
  UDP_ALLOC_COUNT,
  NET_READY,
  TICKS              \* modulo POLL_TICKS

net_vars == <<net, sockets, TCP_ALLOC_COUNT, UDP_ALLOC_COUNT, NET_READY, TICKS>>
all_vars == <<vars, net_vars>>

Tcp == 0 .. MAX_TCP_SOCKETS - 1
Udp == MAX_TCP_SOCKETS .. MAX_TCP_SOCKETS + MAX_UDP_SOCKETS - 1

(* NetOp, the socket, whether the user buffer is mapped and writable, its size. *)
Columns == [op : {"None", "Recv", "Connect"}, socket : Tcp \cup Udp,
            buf : {"ok", "bad"}, len : 0 .. STAGING_SIZE]
no_net_op == [op |-> "None", socket |-> 0, buf |-> "bad", len |-> 0]

----------------------------------------------------------------------------
(* smoltcp: a TCP socket is in a state of DOMAIN TcpEvents, a UDP socket   *)
(* "Unbound" or "Bound"; a handle that was never given out has none.       *)

no_socket == [st |-> "None", rx |-> << >>]
Exists(s) == s \in Tcp \cup Udp /\ sockets[s].st # "None"

is_open(st) == st \notin {"Closed", "TimeWait"}
is_active(st) == st \notin {"Closed", "TimeWait", "Listen"}
may_send(st) == st \in {"Established", "CloseWait"}
may_recv(so) == so.st \in {"Established", "FinWait"} \/ so.rx # << >>

LongestDatagram == 2

(* What one event of the network makes of a TCP socket's state. *)
TcpEvents ==
  [Closed |-> {}, Listen |-> {"SynReceived"},
   SynSent |-> {"SynReceived", "Established", "Closed"},
   SynReceived |-> {"Established", "Listen", "Closed"},
   Established |-> {"CloseWait", "Closed"}, FinWait |-> {"TimeWait", "Closed"},
   CloseWait |-> {"Closed"}, LastAck |-> {"Closed"}, TimeWait |-> {"Closed"}]

Events(s, so) ==
  LET room == Len(so.rx) < RX_CAPACITY IN
  IF s \in Tcp
  THEN (IF so.st \in DOMAIN TcpEvents
        THEN {[so EXCEPT !.st = st] : st \in TcpEvents[so.st]} ELSE {})
       \cup (IF so.st \in {"Established", "FinWait"} /\ room
             THEN {[so EXCEPT !.rx = Append(@, 1)]} ELSE {})
  ELSE IF so.st = "Bound" /\ room
       THEN {[so EXCEPT !.rx = Append(@, n)] : n \in 0 .. LongestDatagram} ELSE {}

(* iface.poll: the values of the socket table `sk` that a poll can leave. *)
Polled(sk) ==
  LET outcomes == [s \in Tcp \cup Udp |-> {sk[s]} \cup Events(s, sk[s])] IN
  {new \in [Tcp \cup Udp -> UNION Range(outcomes)] :
     \A s \in Tcp \cup Udp : new[s] \in outcomes[s]}

(* Socket::close. *)
closed(s, so) ==
  IF s \in Udp THEN [st |-> "Unbound", rx |-> << >>]
  ELSE [so EXCEPT !.st =
          CASE @ \in {"Listen", "SynSent"} -> "Closed"
            [] @ \in {"SynReceived", "Established"} -> "FinWait"
            [] @ = "CloseWait" -> "LastAck"
            [] OTHER -> @]

----------------------------------------------------------------------------
(* net.rs: waking up. *)

(***************************************************************************)
(* One attempt to take at most `len` bytes from socket s: its kind, its    *)
(* length and what is left.  A datagram longer than the buffer is dropped  *)
(* with an error; an empty one is Data of length 0.                        *)
(***************************************************************************)
try_recv_once(sk, s, len) ==
  LET so == sk[s]
      queued == Len(so.rx)
      bytes == IF queued < len THEN queued ELSE len
      Attempt(kind, n, taken) ==
        [kind |-> kind, n |-> n, so |-> [so EXCEPT !.rx = SubSeq(@, taken + 1, queued)]] IN
  IF s \in Tcp
  THEN CASE ~may_recv(so) -> Attempt("Err", 0, 0)
         [] may_recv(so) /\ queued = 0 -> Attempt("Empty", 0, 0)
         [] OTHER -> Attempt("Data", bytes, bytes)
  ELSE CASE queued = 0 -> Attempt("Empty", 0, 0)
         [] queued > 0 /\ so.rx[1] > len -> Attempt("Err", 0, 1)
         [] OTHER -> Attempt("Data", so.rx[1], 1)

(* Mutant of copied: the copy to the user buffer is taken to succeed. *)
copied_always(attempt, buf) == IF attempt.kind = "Data" THEN attempt.n ELSE ERR

(***************************************************************************)
(* The result of an attempt that is not Empty: copy_to_user may fail, but  *)
(* not when there is nothing to copy.                                      *)
(***************************************************************************)
copied(attempt, buf) ==
  IF attempt.kind = "Data" /\ (buf = "ok" \/ attempt.n = 0) THEN attempt.n ELSE ERR

(* Mutant of complete_blocked: net_op is left as it was. *)
complete_blocked_keeps_op(k, p, a0) ==
  [k EXCEPT !.context[p].a0 = a0, !.state[p] = "Ready"]

(***************************************************************************)
(* The kernel tables k, with process p Ready again and a0 as its result.   *)
(* Only net_op is reset in the code; the other columns are read only while *)
(* it is set, so their old values are forgotten here.                      *)
(***************************************************************************)
complete_blocked(k, p, a0) ==
  [k EXCEPT !.context[p].a0 = a0, !.net[p] = no_net_op, !.state[p] = "Ready"]

wake_one_recv(k, p) ==
  LET s == k.net[p].socket
      attempt == try_recv_once(k.sockets, s, k.net[p].len)
      taken == [k EXCEPT !.sockets[s] = attempt.so] IN
  IF attempt.kind = "Empty" THEN k
  ELSE complete_blocked(taken, p, copied(attempt, k.net[p].buf))

(* Mutant of wake_one_connect: the failure of a connection goes unnoticed. *)
wake_one_connect_hopeful(k, p) ==
  IF may_send(k.sockets[k.net[p].socket].st) THEN complete_blocked(k, p, 0) ELSE k

wake_one_connect(k, p) ==
  LET st == k.sockets[k.net[p].socket].st IN
  CASE may_send(st) -> complete_blocked(k, p, 0)
    [] ~may_send(st) /\ ~is_active(st) -> complete_blocked(k, p, ERR)
    [] OTHER -> k

(* `for pid in 1..MAX_PROCS`: every process sees what the last one left. *)
wake_blocked(sk) ==
  LET woken[p \in 0 .. MAX_PROCS - 1] ==
        IF p = 0
        THEN [state |-> state, context |-> context, net |-> net, sockets |-> sk]
        ELSE LET k == woken[p - 1] IN
             CASE state[p] = "BlockedNet" /\ net[p].op = "Recv" -> wake_one_recv(k, p)
               [] state[p] = "BlockedNet" /\ net[p].op = "Connect" -> wake_one_connect(k, p)
               [] OTHER -> k IN
  woken[MAX_PROCS - 1]

----------------------------------------------------------------------------
(* net.rs: requests.  The opcode and its arguments arrive in a1 .. a6. *)

Request(opcode) ==
  Ecall("SYS_CALL") /\ opcode \in Opcodes

request == [a0 |-> NET_SERVER_PID, a1 |-> 0, a2 |-> 0]

(* NetOutcome::Done(v), with this socket table. *)
Done(v, sk) ==
  /\ return(request, v)
  /\ sockets' = sk
  /\ UNCHANGED <<net, TCP_ALLOC_COUNT, UDP_ALLOC_COUNT>>

(* NetOutcome::Blocked: park the caller with this operation. *)
Blocked(columns, sk) ==
  /\ net' = [net EXCEPT ![CURRENT_PID] = columns]
  /\ sockets' = sk
  /\ schedule([state EXCEPT ![CURRENT_PID] = "BlockedNet"], context, request, CURRENT_PID)
  /\ UNCHANGED <<TCP_ALLOC_COUNT, UDP_ALLOC_COUNT>>

(* What no request touches. *)
Unserved == UNCHANGED <<ipc_vars, life_vars, irq_vars, heap, plic_vars, NET_READY, TICKS>>

(* `!is_ready()`, NET_STATUS and an opcode the server does not know. *)
handle_request_simple ==
  \E opcode \in Opcodes :
     /\ Request(opcode)
     /\ ~NET_READY \/ opcode \in {"NET_STATUS", "unknown"}
     /\ Done(IF NET_READY /\ opcode = "NET_STATUS" THEN 1 ELSE ERR, sockets)
     /\ Unserved

handle_socket_tcp ==
  LET idx == TCP_ALLOC_COUNT IN
  /\ Request("NET_SOCKET_TCP") /\ NET_READY
  /\ \/ idx >= MAX_TCP_SOCKETS /\ Done(ERR, sockets)
     \/ /\ idx < MAX_TCP_SOCKETS
        /\ return(request, idx)
        /\ sockets' = [sockets EXCEPT ![idx] = [st |-> "Closed", rx |-> << >>]]
        /\ TCP_ALLOC_COUNT' = idx + 1
        /\ UNCHANGED <<net, UDP_ALLOC_COUNT>>
  /\ Unserved

(* UDP handles follow the TCP handles. *)
udp_handle(idx) == MAX_TCP_SOCKETS + idx

handle_socket_udp ==
  LET idx == UDP_ALLOC_COUNT IN
  /\ Request("NET_SOCKET_UDP") /\ NET_READY
  /\ \/ idx >= MAX_UDP_SOCKETS /\ Done(ERR, sockets)
     \/ /\ idx < MAX_UDP_SOCKETS
        /\ return(request, udp_handle(idx))
        /\ sockets' = [sockets EXCEPT ![udp_handle(idx)] =
                         [st |-> "Unbound", rx |-> << >>]]
        /\ UDP_ALLOC_COUNT' = idx + 1
        /\ UNCHANGED <<net, TCP_ALLOC_COUNT>>
  /\ Unserved

(* A TCP handle needs no bind, whether or not the socket exists. *)
handle_bind ==
  /\ Request("NET_BIND") /\ NET_READY
  /\ \E s \in HandleArgs, port \in {0, 1} :
        LET ok == Exists(s) /\ sockets[s].st = "Unbound" /\ port # 0 IN
        \/ s < MAX_TCP_SOCKETS /\ Done(0, sockets)
        \/ s >= MAX_TCP_SOCKETS /\ ~ok /\ Done(ERR, sockets)
        \/ /\ s >= MAX_TCP_SOCKETS /\ ok
           /\ Done(0, [sockets EXCEPT ![s].st = "Bound"])
  /\ Unserved

(* Listening again on the same port is allowed; connect and listen reset rx. *)
handle_listen ==
  /\ Request("NET_LISTEN") /\ NET_READY
  /\ \E s \in HandleArgs, port \in {0, 1} :
        LET ok == s \in Tcp /\ Exists(s) /\ port # 0
                  /\ (sockets[s].st = "Listen" \/ ~is_open(sockets[s].st)) IN
        \/ ~ok /\ Done(ERR, sockets)
        \/ ok /\ Done(0, [sockets EXCEPT ![s] = [st |-> "Listen", rx |-> << >>]])
  /\ Unserved

handle_close ==
  /\ Request("NET_CLOSE") /\ NET_READY
  /\ \E s \in HandleArgs :
        \/ ~Exists(s) /\ Done(ERR, sockets)
        \/ Exists(s) /\ Done(0, [sockets EXCEPT ![s] = closed(s, sockets[s])])
  /\ Unserved

(***************************************************************************)
(* The transmit buffer has room for `sent` of the bytes: TCP sends those,  *)
(* UDP refuses the datagram unless it has room for all of it.              *)
(***************************************************************************)
handle_send ==
  /\ Request("NET_SEND") /\ NET_READY
  /\ \E s \in HandleArgs, len \in LengthArgs, buf \in {"ok", "bad"} :
        LET ok == /\ len > 0 /\ len <= STAGING_SIZE /\ buf = "ok"
                  /\ Exists(s)
                  /\ sockets[s].st \in {"Established", "CloseWait", "Bound"} IN
        \/ ~ok /\ Done(ERR, sockets)
        \/ /\ ok
           /\ \E sent \in 0 .. len :
                 \/ s \in Udp /\ sent < len /\ Done(ERR, sockets)
                 \/ /\ s \in Tcp \/ sent = len
                    /\ \E sk \in Polled(sockets) : Done(sent, sk)
  /\ Unserved

handle_connect ==
  /\ Request("NET_CONNECT") /\ NET_READY
  /\ \E s \in HandleArgs, port \in {0, 1} :
        LET ok == s \in Tcp /\ Exists(s) /\ port # 0 /\ ~is_open(sockets[s].st)
            syn == [sockets EXCEPT ![s] = [st |-> "SynSent", rx |-> << >>]] IN
        \/ ~ok /\ Done(ERR, sockets)
        \/ /\ ok
           /\ \E sk \in Polled(syn) :
                 \/ may_send(sk[s].st) /\ Done(0, sk)
                 \/ ~may_send(sk[s].st) /\ ~is_active(sk[s].st) /\ Done(ERR, sk)
                 \/ /\ ~may_send(sk[s].st) /\ is_active(sk[s].st)
                    /\ Blocked([op |-> "Connect", socket |-> s, buf |-> "bad", len |-> 0], sk)
  /\ Unserved

handle_recv ==
  /\ Request("NET_RECV") /\ NET_READY
  /\ \E s \in HandleArgs, len \in LengthArgs, buf \in {"ok", "bad"} :
        \/ (len = 0 \/ len > STAGING_SIZE) /\ Done(ERR, sockets)
        \/ /\ len > 0 /\ len <= STAGING_SIZE
           /\ \E sk \in Polled(sockets) :
                \/ ~Exists(s) /\ Done(ERR, sk)
                \/ /\ Exists(s)
                   /\ LET attempt == try_recv_once(sk, s, len) IN
                      \/ /\ attempt.kind # "Empty"
                         /\ Done(copied(attempt, buf), [sk EXCEPT ![s] = attempt.so])
                      \/ /\ attempt.kind = "Empty"
                         /\ Blocked([op |-> "Recv", socket |-> s, buf |-> buf, len |-> len], sk)
  /\ Unserved

handle_request ==
  \/ handle_request_simple \/ handle_socket_tcp \/ handle_socket_udp
  \/ handle_bind \/ handle_listen \/ handle_close \/ handle_send
  \/ handle_connect \/ handle_recv

----------------------------------------------------------------------------
(* trap.rs in the `net` build. *)

(* Mutant of PollsNow: the timer leaves the network alone. *)
PollsNow_never == FALSE

(* This tick is one of those that poll the network. *)
PollsNow == (TICKS + 1) % POLL_TICKS = 0 /\ NET_READY

(* The tables after a poll and wake_blocked, or as they are. *)
AfterPoll(polls) ==
  IF polls THEN {wake_blocked(sk) : sk \in Polled(sockets)}
  ELSE {[state |-> state, context |-> context, net |-> net, sockets |-> sockets]}

net_handle_timer ==
  /\ TICKS' = (TICKS + 1) % POLL_TICKS
  /\ \E k \in AfterPoll(PollsNow) :
        /\ net' = k.net /\ sockets' = k.sockets
        /\ \/ mode = "user" /\ preempt(k.state, k.context)
           \/ /\ mode \in {"kernel_idle", "post_process_exit"}
              /\ schedule_from_idle(k.state, k.context)
  /\ UNCHANGED <<ipc_vars, life_vars, irq_vars, heap, plic_vars>>
  /\ UNCHANGED <<TCP_ALLOC_COUNT, UDP_ALLOC_COUNT, NET_READY>>

(***************************************************************************)
(* handle_external with an interrupt of the network device that no process *)
(* owns: serve it and complete it.  An idle kernel stays in its loop, also *)
(* when a process has become Ready.                                        *)
(***************************************************************************)
net_handle_external ==
  /\ mode \notin Panics
  /\ Claims(VIRTIO_IRQ) /\ irq_owner(VIRTIO_IRQ) = 0 /\ NET_READY
  /\ plic_pending' = plic_pending \ {VIRTIO_IRQ}
  /\ \E k \in AfterPoll(TRUE) :
        /\ state' = k.state /\ context' = k.context
        /\ net' = k.net /\ sockets' = k.sockets
  /\ UNCHANGED <<CURRENT_PID, frame, satp, mode>>
  /\ UNCHANGED <<ipc_vars, life_vars, irq_vars, heap, plic_enabled, plic_claimed>>
  /\ UNCHANGED <<TCP_ALLOC_COUNT, UDP_ALLOC_COUNT, NET_READY, TICKS>>

(* sys_exit and kill_current also clear the net_* columns of the process. *)
NetExit ==
  /\ Exit
  /\ net' = [net EXCEPT ![CURRENT_PID] = no_net_op]
  /\ UNCHANGED <<sockets, TCP_ALLOC_COUNT, UDP_ALLOC_COUNT, NET_READY, TICKS>>

NetFault ==
  /\ Fault
  /\ net' = [net EXCEPT ![CURRENT_PID] = no_net_op]
  /\ UNCHANGED <<sockets, TCP_ALLOC_COUNT, UDP_ALLOC_COUNT, NET_READY, TICKS>>

(***************************************************************************)
(* stage_network and net::init: the device is there and its interrupt is   *)
(* enabled, or there is no network.                                        *)
(***************************************************************************)
net_init ==
  /\ net = [p \in PIDs |-> no_net_op]
  /\ sockets = [s \in Tcp \cup Udp |-> no_socket]
  /\ TCP_ALLOC_COUNT = 0 /\ UDP_ALLOC_COUNT = 0
  /\ NET_READY \in BOOLEAN
  /\ TICKS = 0
  /\ plic_enabled = IF NET_READY THEN {VIRTIO_IRQ} ELSE {}

NetInit == launch /\ net_init /\ plic_pending = {} /\ plic_claimed = {}

NetNext ==
  \/ handle_request
  \/ net_handle_timer
  \/ net_handle_external
  \/ NetExit
  \/ NetFault
  \/ UNCHANGED net_vars /\ Device

NetSpec == NetInit /\ [][NetNext]_all_vars

(***************************************************************************)
(* As in Kernel, the timer is always re-armed and nothing is assumed of    *)
(* users.  A step that counts a tick is a step of net_handle_timer, which  *)
(* is possible in every mode but a panic.                                  *)
(***************************************************************************)
Tick == mode \notin Panics /\ TICKS' = (TICKS + 1) % POLL_TICKS
NetFairSpec == NetSpec /\ WF_TICKS(Tick)

----------------------------------------------------------------------------
(***************************************************************************)
(* "net_op: NetOp::None when not blocked on a net event" (process.rs):     *)
(* wake_blocked finds an operation, and a socket of the right kind, for    *)
(* every process parked in BlockedNet, and no operation outlives its wait. *)
(***************************************************************************)
ParkedHasOperation ==
  \A p \in PIDs :
     /\ net[p] \in Columns
     /\ state[p] = "BlockedNet" <=> net[p].op # "None"
     /\ net[p].op = "Recv" => Exists(net[p].socket) /\ net[p].len > 0
     /\ net[p].op = "Connect" => net[p].socket \in Tcp /\ Exists(net[p].socket)

(* p's parked operation ends in this step. *)
Wakes(p) == state[p] = "BlockedNet" /\ state'[p] # "BlockedNet"

(* The place of p among those whose NET_RECV on the same socket ends with its own. *)
Place(p) ==
  1 + Cardinality({q \in PIDs : /\ q < p /\ Wakes(q) /\ net[q].op = "Recv"
                                /\ net[q].socket = net[p].socket})

(***************************************************************************)
(* What p is given, when the poll left the sockets sk: NET_CONNECT tells   *)
(* whether the socket can send.  NET_RECV on UDP gets the length of the    *)
(* datagram in p's place of the queue, an error if that does not fit the   *)
(* buffer or the buffer is bad.  NET_RECV on TCP gets a number of bytes    *)
(* that fit the buffer and have left the queue, an error if the buffer is  *)
(* bad or the stream is over.                                              *)
(***************************************************************************)
OwnResult(p, sk) ==
  LET c == net[p]
      s == c.socket
      queue == sk[s].rx
      left == sockets'[s]
      a0 == registers(p)'.a0 IN
  \/ /\ c.op = "Connect"
     /\ a0 = IF may_send(left.st) THEN 0 ELSE ERR
     /\ a0 = ERR => ~is_active(left.st)
  \/ /\ c.op = "Recv" /\ s \in Udp
     /\ Place(p) <= Len(queue)
     /\ LET n == queue[Place(p)]
        IN a0 = IF n <= c.len /\ (c.buf = "ok" \/ n = 0) THEN n ELSE ERR
  \/ /\ c.op = "Recv" /\ s \in Tcp
     /\ a0 # ERR => c.buf = "ok" /\ a0 \in 1 .. c.len /\ a0 + Len(left.rx) <= Len(queue)
     /\ a0 = ERR => c.buf = "bad" \/ ~may_recv(left)

(***************************************************************************)
(* A parked operation ends with its own result (wake_blocked): what its    *)
(* own socket held after one poll, each datagram to one process, lowest    *)
(* PID first, and never the result of a process served before it in the    *)
(* loop.  The saved result is what the process gets when it runs.          *)
(***************************************************************************)
ResultIsOwn ==
  [][(\E p \in PIDs : Wakes(p)) =>
       \E sk \in Polled(sockets) : \A p \in PIDs : Wakes(p) => OwnResult(p, sk)]_all_vars

(***************************************************************************)
(* "At least one byte available" (RecvAttempt::Data) and "n > 0 bytes      *)
(* copied into user buffer, success" (handle_recv): a receive that ends    *)
(* without an error ends with data.                                        *)
(***************************************************************************)
ReceiveReturnsBytes ==
  [][\A p \in PIDs :
       Wakes(p) /\ net[p].op = "Recv" => registers(p)'.a0 > 0]_all_vars

(* A receive on s would not find it empty. *)
Readable(s, len) == try_recv_once(sockets, s, len).kind # "Empty"

(***************************************************************************)
(* A process parked in NET_RECV returns once its socket has data for it or *)
(* its TCP stream is over, unless others keep taking the data: the timer   *)
(* polls even when no interrupt of the device reaches the kernel.          *)
(***************************************************************************)
ReceiverIsServed ==
  \A p \in PIDs : \A s \in Tcp \cup Udp :
     LET waits == net[p].op = "Recv" /\ net[p].socket = s /\ Readable(s, net[p].len) IN
     waits ~> ~waits

(* The handshake or the shutdown of the connection is still going on. *)
Pending(s) == is_active(sockets[s].st) /\ ~may_send(sockets[s].st)

(***************************************************************************)
(* NET_CONNECT "blocks the caller until the socket reaches Established or  *)
(* Closed": the caller does not sleep through either.                      *)
(***************************************************************************)
ConnectEnds ==
  \A p \in PIDs : \A s \in Tcp :
     LET waits == net[p].op = "Connect" /\ net[p].socket = s /\ ~Pending(s) IN
     waits ~> ~waits

(***************************************************************************)
(* No starvation in the net build, where a process can become Ready in an  *)
(* interrupt that leaves the kernel idle.                                  *)
(***************************************************************************)
WokenRuns ==
  \A p \in PIDs : state[p] = "Ready" ~> state[p] = "Running"

(***************************************************************************)
(* "set context.a0 = bytes_copied (or usize::MAX on copy failure / closed  *)
(* socket), mark Ready" (wake_blocked): a process parked in NET_RECV does  *)
(* not stay parked on a socket that was closed.                            *)
(***************************************************************************)
ClosedSocketEndsRecv ==
  \A p \in PIDs : \A s \in Tcp \cup Udp :
     LET waits == net[p].op = "Recv" /\ net[p].socket = s
                  /\ sockets[s].st \in {"Closed", "Unbound"} IN
     waits ~> ~waits

============================================================================

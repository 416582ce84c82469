----------------------------- MODULE NetProofs ------------------------------
(***************************************************************************)
(* Proofs about the network server, for every number of processes and of   *)
(* sockets: a parked process has its operation, and an operation ends with *)
(* its own result.                                                         *)
(*                                                                         *)
(* The heart is the loop of wake_blocked, in which every process sees the  *)
(* tables the one before left: Woken says what holds after each turn.  A   *)
(* UDP queue is then the queue of the poll without its first datagrams,    *)
(* as many as there are processes that have received from it.              *)
(***************************************************************************)
EXTENDS Net, DataLemmas

Handles == Tcp \cup Udp
SocketState ==
  {"None", "Unbound", "Bound", "Closed", "Listen", "SynSent", "SynReceived",
   "Established", "FinWait", "CloseWait", "LastAck", "TimeWait"}
Socket == [st : SocketState, rx : Seq(0 .. LongestDatagram)]
SocketTable == [Handles -> Socket]

(* Registers hold numbers; that these fit in a word matters nowhere here. *)
Regs == [a0 : Int, a1 : Int, a2 : Int]

(* The tables wake_blocked works on. *)
Tables == [state : [PIDs -> ProcessState], context : [PIDs -> Regs],
           net : [PIDs -> Columns], sockets : SocketTable]

(* A socket that was given out stays. *)
KeepsSockets(tbl, new) ==
  \A s \in Handles : tbl[s].st # "None" => new[s].st # "None"

LEMMA Numbers ==
  /\ PIDs \subseteq Nat /\ ERR \in Nat /\ ERR > 0
  /\ STAGING_SIZE \in Nat /\ STAGING_SIZE < ERR /\ LongestDatagram = 2
  /\ no_net_op \in Columns /\ no_net_op.op = "None"
  /\ Tcp \subseteq Nat /\ Tcp \cap Udp = {}
<1>1. PIDs \subseteq Nat /\ ERR \in Nat /\ ERR > 0
  BY ProcessAssumption DEF PIDs, ERR
<1>2. STAGING_SIZE \in Nat /\ STAGING_SIZE < ERR
  BY NetAssumption, ProcessAssumption DEF Word, ERR
<1>3. 0 \in Tcp /\ Tcp \subseteq Nat /\ Tcp \cap Udp = {}
  BY NetAssumption DEF Tcp, Udp
<1>4. no_net_op \in Columns /\ no_net_op.op = "None"
  BY <1>2, <1>3 DEF no_net_op, Columns
<1> QED BY <1>1, <1>2, <1>3, <1>4 DEF LongestDatagram

----------------------------------------------------------------------------
(* smoltcp. *)

LEMMA TcpEventsLemma ==
  ASSUME NEW st \in DOMAIN TcpEvents
  PROVE  TcpEvents[st] \subseteq SocketState \ {"None"} /\ st # "None"
  BY DEF TcpEvents, SocketState

LEMMA EventsLemma ==
  ASSUME NEW s \in Handles, NEW so \in Socket, NEW new \in Events(s, so)
  PROVE  new \in Socket /\ (so.st # "None" => new.st # "None")
<1>1. so.rx \in Seq(0 .. LongestDatagram) /\ so.st \in SocketState
  BY DEF Socket
<1>2. \A n \in 0 .. LongestDatagram : Append(so.rx, n) \in Seq(0 .. LongestDatagram)
  BY <1>1, AppendProperties
<1>3. 1 \in 0 .. LongestDatagram
  BY DEF LongestDatagram
<1>4. \/ \E st \in SocketState \ {"None"} : new = [so EXCEPT !.st = st]
      \/ \E n \in 0 .. LongestDatagram : new = [so EXCEPT !.rx = Append(@, n)]
  BY <1>3, TcpEventsLemma DEF Events
<1> QED BY <1>1, <1>2, <1>4 DEF Socket

LEMMA PolledLemma ==
  ASSUME NEW tbl \in SocketTable, NEW sk \in Polled(tbl)
  PROVE  sk \in SocketTable /\ KeepsSockets(tbl, sk)
<1>1. /\ DOMAIN sk = Handles /\ sk = [s \in Handles |-> sk[s]]
      /\ \A s \in Handles : sk[s] \in {tbl[s]} \cup Events(s, tbl[s])
  BY DEF Polled, Handles
<1>2. \A s \in Handles : sk[s] \in Socket /\ (tbl[s].st # "None" => sk[s].st # "None")
  BY <1>1, EventsLemma DEF SocketTable
<1> QED BY <1>1, <1>2 DEF SocketTable, KeepsSockets

(* A poll may find nothing. *)
LEMMA PolledSelf ==
  ASSUME NEW tbl \in SocketTable
  PROVE  tbl \in Polled(tbl)
<1> DEFINE outcomes == [s \in Handles |-> {tbl[s]} \cup Events(s, tbl[s])]
<1>1. \A s \in Handles : tbl[s] \in outcomes[s] /\ outcomes[s] \in Range(outcomes)
  BY DEF Range
<1>2. tbl \in [Handles -> UNION Range(outcomes)]
  <2>1. DOMAIN tbl = Handles /\ tbl = [s \in Handles |-> tbl[s]]
    BY DEF SocketTable
  <2> HIDE DEF outcomes
  <2>2. \A s \in Handles : tbl[s] \in UNION Range(outcomes)
    BY <1>1
  <2> QED BY <2>1, <2>2
<1> QED BY <1>1, <1>2 DEF Polled, Handles

LEMMA ClosedLemma ==
  ASSUME NEW s \in Handles, NEW so \in Socket, so.st # "None"
  PROVE  closed(s, so) \in Socket /\ closed(s, so).st # "None"
<1>1. << >> \in Seq(0 .. LongestDatagram)
  BY EmptySeq
<1> QED BY <1>1 DEF closed, Socket, SocketState

(* `new` is `old` without its first n elements. *)
Shift(old, new, n) ==
  Len(old) = Len(new) + n /\ \A i \in 1 .. Len(new) : new[i] = old[n + i]

LEMMA ShiftTrans ==
  ASSUME NEW S, NEW old \in Seq(S), NEW mid \in Seq(S), NEW new \in Seq(S), NEW n \in Nat,
         Shift(old, mid, n), Shift(mid, new, 1)
  PROVE  Shift(old, new, n + 1)
<1>1. Len(old) \in Nat /\ Len(mid) \in Nat /\ Len(new) \in Nat
  BY LenProperties
<1>2. Len(old) = Len(new) + (n + 1)
  BY <1>1 DEF Shift
<1>3. ASSUME NEW i \in 1 .. Len(new)
      PROVE  new[i] = old[(n + 1) + i]
  <2>1. new[i] = mid[1 + i]
    BY DEF Shift
  <2>2. 1 + i \in 1 .. Len(mid)
    BY <1>1 DEF Shift
  <2>3. mid[1 + i] = old[n + (1 + i)]
    BY <2>2 DEF Shift
  <2>4. n + (1 + i) = (n + 1) + i
    BY <1>1
  <2> QED BY <2>1, <2>3, <2>4
<1> QED BY <1>2, <1>3 DEF Shift

(***************************************************************************)
(* One attempt to receive: it takes from the socket's buffer and no more.  *)
(* The bytes of TCP are not looked at; from UDP it is the first datagram.  *)
(***************************************************************************)
LEMMA AttemptLemma ==
  ASSUME NEW tbl \in SocketTable, NEW s \in Handles, NEW len \in 1 .. STAGING_SIZE
  PROVE  LET a == try_recv_once(tbl, s, len)
             so == tbl[s] IN
         /\ a.so \in Socket /\ a.so.st = so.st
         /\ so.rx = << >> => a.so.rx = << >>
         /\ Len(a.so.rx) <= Len(so.rx)
         /\ \/ a.kind = "Empty"
            \/ /\ s \in Tcp /\ a.kind = "Data" /\ a.n \in 1 .. len
               /\ a.n + Len(a.so.rx) <= Len(so.rx)
            \/ a.kind = "Err" /\ s \in Tcp /\ ~may_recv(so)
            \/ /\ s \in Udp /\ Len(so.rx) > 0 /\ Shift(so.rx, a.so.rx, 1)
               /\ \/ so.rx[1] > len /\ a.kind = "Err"
                  \/ so.rx[1] <= len /\ a.kind = "Data" /\ a.n = so.rx[1]
<1> DEFINE so == tbl[s]
           queued == Len(so.rx)
           bytes == IF queued < len THEN queued ELSE len
           Attempt(kind, n, taken) ==
             [kind |-> kind, n |-> n, so |-> [so EXCEPT !.rx = SubSeq(@, taken + 1, queued)]]
           a == try_recv_once(tbl, s, len)
<1>1. /\ so \in Socket /\ so.rx \in Seq(0 .. LongestDatagram)
      /\ queued \in Nat /\ DOMAIN so.rx = 1 .. queued
      /\ len \in Nat /\ len > 0
      /\ \A k \in 1 .. queued : so.rx[k] \in 0 .. LongestDatagram
  <2>1. so \in Socket /\ so.rx \in Seq(0 .. LongestDatagram)
    BY DEF SocketTable, Socket
  <2> QED BY <2>1, LenProperties, ElementOfSeq, Numbers
<1>2. ASSUME NEW taken \in 0 .. queued, NEW kind, NEW n
      PROVE  LET r == Attempt(kind, n, taken) IN
             /\ r.kind = kind /\ r.n = n
             /\ r.so \in Socket /\ r.so.st = so.st
             /\ so.rx = << >> => r.so.rx = << >>
             /\ Len(r.so.rx) <= queued /\ taken + Len(r.so.rx) <= queued
             /\ Shift(so.rx, r.so.rx, taken)
  <2> DEFINE rest == SubSeq(so.rx, taken + 1, queued)
  <2>1. /\ rest \in Seq(0 .. LongestDatagram) /\ Len(rest) = queued - taken
        /\ \A i \in 1 .. queued - taken : rest[i] = so.rx[taken + i]
    <3>1. \A i \in (taken + 1) .. queued : so.rx[i] \in 0 .. LongestDatagram
      BY <1>1
    <3>2. taken + 1 \in 1 .. queued + 1 /\ queued \in 0 .. queued
      BY <1>1
    <3>3. rest = [i \in 1 .. queued - taken |-> so.rx[taken + i]]
      BY <1>1
    <3> QED BY <1>1, <3>1, <3>3
  <2>2. so.rx = << >> => rest = << >>
    BY <1>1
  <2> HIDE DEF rest, queued
  <2>3. Shift(so.rx, rest, taken)
    BY <1>1, <2>1 DEF Shift, queued
  <2>4. Len(rest) <= queued /\ taken + Len(rest) <= queued
    BY <1>1, <2>1
  <2> QED BY <1>1, <2>1, <2>2, <2>3, <2>4 DEF Socket, rest
<1>3. CASE s \in Tcp
  <2>1. \/ ~may_recv(so) /\ a = Attempt("Err", 0, 0)
        \/ a = Attempt("Empty", 0, 0)
        \/ queued # 0 /\ a = Attempt("Data", bytes, bytes)
    BY <1>3 DEF try_recv_once
  <2>2. queued # 0 => bytes \in 1 .. len
    BY <1>1
  <2>3. bytes \in 0 .. queued /\ 0 \in 0 .. queued
    BY <1>1
  <2> HIDE DEF a, Attempt, bytes, so, queued
  <2>4. /\ a.so \in Socket /\ a.so.st = so.st
        /\ so.rx = << >> => a.so.rx = << >>
        /\ Len(a.so.rx) <= queued
    <3>1. CASE a = Attempt("Err", 0, 0)
      BY <1>2, <2>3, <3>1
    <3>2. CASE a = Attempt("Empty", 0, 0)
      BY <1>2, <2>3, <3>2
    <3>3. CASE a = Attempt("Data", bytes, bytes)
      BY <1>2, <2>3, <3>3
    <3> QED BY <2>1, <3>1, <3>2, <3>3
  <2>5. \/ ~may_recv(so) /\ a.kind = "Err"
        \/ a.kind = "Empty"
        \/ a.kind = "Data" /\ a.n \in 1 .. len /\ a.n + Len(a.so.rx) <= queued
    BY <1>2, <2>1, <2>2, <2>3
  <2> QED BY <1>3, <2>4, <2>5 DEF a, so, queued
<1>4. CASE s \notin Tcp
  <2>1. \/ a = Attempt("Empty", 0, 0)
        \/ queued > 0 /\ so.rx[1] > len /\ a = Attempt("Err", 0, 1)
        \/ queued > 0 /\ ~(so.rx[1] > len) /\ a = Attempt("Data", so.rx[1], 1)
    BY <1>1, <1>4 DEF try_recv_once
  <2>2. queued > 0 => so.rx[1] \in 0 .. LongestDatagram /\ 1 \in 0 .. queued
    BY <1>1
  <2>3. s \in Udp
    BY <1>4 DEF Handles
  <2>4. 0 \in 0 .. queued
    BY <1>1
  <2> HIDE DEF a, Attempt
  <2>5. /\ a.so \in Socket /\ a.so.st = so.st
        /\ so.rx = << >> => a.so.rx = << >>
        /\ Len(a.so.rx) <= queued
        /\ \/ a.kind = "Empty"
           \/ /\ queued > 0 /\ Shift(so.rx, a.so.rx, 1)
              /\ \/ so.rx[1] > len /\ a.kind = "Err"
                 \/ ~(so.rx[1] > len) /\ a.kind = "Data" /\ a.n = so.rx[1]
    <3> HIDE DEF so, queued
    <3>1. CASE a = Attempt("Empty", 0, 0)
      BY <1>2, <2>4, <3>1
    <3>2. CASE queued > 0 /\ so.rx[1] > len /\ a = Attempt("Err", 0, 1)
      BY <1>2, <2>2, <3>2
    <3>3. CASE queued > 0 /\ ~(so.rx[1] > len) /\ a = Attempt("Data", so.rx[1], 1)
      BY <1>2, <2>2, <3>3
    <3> QED BY <2>1, <3>1, <3>2, <3>3
  <2>6. queued > 0 => (so.rx[1] <= len <=> ~(so.rx[1] > len))
    BY <1>1, <2>2, Numbers
  <2> QED BY <2>3, <2>5, <2>6 DEF a
<1> QED BY <1>3, <1>4

----------------------------------------------------------------------------
(* wake_blocked. *)

(***************************************************************************)
(* a0 is a result of the operation c: `queue` is what its socket held      *)
(* after the poll, `left` its socket now, `place` the caller's place among *)
(* the receivers.                                                          *)
(***************************************************************************)
IsResult(c, a0, place, queue, left) ==
  \/ /\ c.op = "Connect"
     /\ a0 = IF may_send(left.st) THEN 0 ELSE ERR
     /\ a0 = ERR => ~is_active(left.st)
  \/ /\ c.op = "Recv" /\ c.socket \in Udp
     /\ place <= Len(queue)
     /\ LET n == queue[place]
        IN a0 = IF n <= c.len /\ (c.buf = "ok" \/ n = 0) THEN n ELSE ERR
  \/ /\ c.op = "Recv" /\ c.socket \in Tcp
     /\ a0 # ERR => c.buf = "ok" /\ a0 \in 1 .. c.len /\ a0 + Len(left.rx) <= Len(queue)
     /\ a0 = ERR => c.buf = "bad" \/ ~may_recv(left)

(* The processes that have received from s in the tables k, and those before p. *)
Takers(k, s) ==
  {q \in PIDs : /\ state[q] = "BlockedNet" /\ k.state[q] # "BlockedNet"
                /\ net[q].op = "Recv" /\ net[q].socket = s}
Ahead(k, p) == {q \in Takers(k, net[p].socket) : q < p}

(* Only data was taken from the sockets of `tbl`. *)
Less(so, new) ==
  /\ new.st = so.st /\ (so.rx = << >> => new.rx = << >>)
  /\ Len(new.rx) <= Len(so.rx)
Drained(tbl, new) == \A s \in Handles : Less(tbl[s], new[s])

Untouched(k, q) ==
  k.state[q] = state[q] /\ k.net[q] = net[q] /\ k.context[q] = context[q]

Completed(k, q, sk) ==
  /\ state[q] = "BlockedNet"
  /\ k.state[q] = "Ready" /\ k.net[q] = no_net_op
  /\ IsResult(net[q], k.context[q].a0, 1 + Cardinality(Ahead(k, q)),
              sk[net[q].socket].rx, k.sockets[net[q].socket])

(* The tables after the loop's turn for process n, from the sockets sk. *)
Woken(k, n, sk) ==
  /\ k \in Tables
  /\ Drained(sk, k.sockets)
  /\ \A s \in Udp : Shift(sk[s].rx, k.sockets[s].rx, Cardinality(Takers(k, s)))
  /\ \A q \in PIDs : Untouched(k, q) \/ (q <= n /\ Completed(k, q, sk))

LEMMA SocketLen ==
  ASSUME NEW so \in Socket
  PROVE  so.rx \in Seq(0 .. LongestDatagram) /\ Len(so.rx) \in Nat
  BY LenProperties DEF Socket

LEMMA DrainedTrans ==
  ASSUME NEW a \in SocketTable, NEW b \in SocketTable, NEW c \in SocketTable,
         Drained(a, b), Drained(b, c)
  PROVE  Drained(a, c)
<1>1. \A s \in Handles : Len(a[s].rx) \in Nat /\ Len(b[s].rx) \in Nat /\ Len(c[s].rx) \in Nat
  BY SocketLen DEF SocketTable
<1>2. ASSUME NEW s \in Handles
      PROVE  Less(a[s], c[s])
  <2>1. Less(a[s], b[s]) /\ Less(b[s], c[s])
    BY DEF Drained
  <2>2. PICK x \in Nat, y \in Nat, z \in Nat :
          x = Len(a[s].rx) /\ y = Len(b[s].rx) /\ z = Len(c[s].rx)
    BY <1>1
  <2>3. z <= y /\ y <= x
    BY <2>1, <2>2 DEF Less
  <2>4. z <= x
    BY <2>3
  <2> QED BY <2>1, <2>2, <2>4 DEF Less
<1> QED BY <1>2 DEF Drained

(* Results stay valid while others take data. *)
LEMMA ResultStays ==
  ASSUME NEW so \in Socket, NEW new \in Socket, Less(so, new),
         NEW c \in Columns, NEW a0 \in Int, NEW place, NEW queue, Len(queue) \in Nat,
         IsResult(c, a0, place, queue, so)
  PROVE  IsResult(c, a0, place, queue, new)
<1>1. Len(so.rx) \in Nat /\ Len(new.rx) \in Nat
  BY SocketLen
<1>2. CASE c.op = "Connect"
  BY <1>2 DEF IsResult, Less
<1>3. CASE c.op = "Recv" /\ c.socket \in Udp
  BY <1>3, Numbers DEF IsResult
<1>4. CASE c.op = "Recv" /\ c.socket \in Tcp
  <2>1. c.socket \notin Udp
    BY <1>4, Numbers
  <2>2. a0 + Len(so.rx) <= Len(queue) => a0 + Len(new.rx) <= Len(queue)
    BY <1>1 DEF Less
  <2>3. ~may_recv(so) => ~may_recv(new)
    BY DEF Less, may_recv
  <2> QED BY <1>4, <2>1, <2>2, <2>3 DEF IsResult
<1> QED BY <1>2, <1>3, <1>4 DEF IsResult

(* Sets of processes are finite. *)
LEMMA CountPIDs ==
  ASSUME NEW S, S \subseteq PIDs, NEW p \in PIDs, p \notin S
  PROVE  /\ Cardinality(S) \in Nat /\ Cardinality(S \cup {p}) = Cardinality(S) + 1
<1>1. IsFiniteSet(PIDs)
  BY ProcessAssumption, FS_Interval DEF PIDs
<1>2. IsFiniteSet(S)
  BY <1>1, FS_Subset
<1> QED BY <1>2, FS_CardinalityType, FS_AddElement

(* complete_blocked gives p its result and touches nobody else. *)
LEMMA CompleteLemma ==
  ASSUME NEW k \in Tables, NEW p \in PIDs, NEW v \in Int
  PROVE  LET c == complete_blocked(k, p, v) IN
         /\ c \in Tables /\ c.sockets = k.sockets
         /\ c.state[p] = "Ready" /\ c.net[p] = no_net_op /\ c.context[p].a0 = v
         /\ \A q \in PIDs \ {p} :
              c.state[q] = k.state[q] /\ c.net[q] = k.net[q] /\ c.context[q] = k.context[q]
<1>1. /\ k.state \in [PIDs -> ProcessState] /\ k.context \in [PIDs -> Regs]
      /\ k.net \in [PIDs -> Columns] /\ k.sockets \in SocketTable
  BY DEF Tables
<1>2. [k.context[p] EXCEPT !.a0 = v] \in Regs /\ [k.context[p] EXCEPT !.a0 = v].a0 = v
  BY <1>1 DEF Regs
<1> DEFINE c == complete_blocked(k, p, v)
<1>3. /\ c.state = [k.state EXCEPT ![p] = "Ready"]
      /\ c.net = [k.net EXCEPT ![p] = no_net_op]
      /\ c.context = [k.context EXCEPT ![p] = [k.context[p] EXCEPT !.a0 = v]]
      /\ c.sockets = k.sockets
      /\ c = [state |-> c.state, context |-> c.context, net |-> c.net, sockets |-> c.sockets]
  <2>1. k = [state |-> k.state, context |-> k.context, net |-> k.net, sockets |-> k.sockets]
    BY DEF Tables
  <2>2. c = [state |-> [k.state EXCEPT ![p] = "Ready"],
             context |-> [k.context EXCEPT ![p].a0 = v],
             net |-> [k.net EXCEPT ![p] = no_net_op], sockets |-> k.sockets]
    <3> DEFINE a == k.state
               b == k.context
               d == k.net
               e == k.sockets
               r == [state |-> a, context |-> b, net |-> d, sockets |-> e]
    <3>1. c = [r EXCEPT !.context[p].a0 = v, !.net[p] = no_net_op, !.state[p] = "Ready"]
      BY <2>1 DEF complete_blocked
    <3> HIDE DEF a, b, d, e, c
    <3>2. c = [state |-> [a EXCEPT ![p] = "Ready"], context |-> [b EXCEPT ![p].a0 = v],
               net |-> [d EXCEPT ![p] = no_net_op], sockets |-> e]
      BY <3>1
    <3> QED BY <3>2 DEF a, b, d, e
  <2> HIDE DEF c
  <2>3. [k.context EXCEPT ![p].a0 = v] = [k.context EXCEPT ![p] = [k.context[p] EXCEPT !.a0 = v]]
    OBVIOUS
  <2> QED BY <2>2, <2>3
<1> HIDE DEF c
<1>4. /\ c.state \in [PIDs -> ProcessState] /\ c.context \in [PIDs -> Regs]
      /\ c.net \in [PIDs -> Columns]
  BY <1>1, <1>2, <1>3, Numbers DEF ProcessState
<1>5. c \in Tables
  BY <1>1, <1>3, <1>4 DEF Tables
<1>6. /\ c.state[p] = "Ready" /\ c.net[p] = no_net_op /\ c.context[p].a0 = v
      /\ \A q \in PIDs \ {p} :
              c.state[q] = k.state[q] /\ c.net[q] = k.net[q] /\ c.context[q] = k.context[q]
  BY <1>1, <1>2, <1>3
<1> QED BY <1>3, <1>5, <1>6 DEF c

(* One turn of the loop. *)
WakeStep(k, p) ==
  CASE state[p] = "BlockedNet" /\ net[p].op = "Recv" -> wake_one_recv(k, p)
    [] state[p] = "BlockedNet" /\ net[p].op = "Connect" -> wake_one_connect(k, p)
    [] OTHER -> k

(* What completing n + 1 has taken from the sockets. *)
Taken(p, old, new) ==
  \A s \in Udp : IF net[p].op = "Recv" /\ s = net[p].socket
                 THEN Shift(old[s].rx, new[s].rx, 1) ELSE new[s] = old[s]

(* Completing p after data was taken is a turn of the loop. *)
LEMMA CompleteTurn ==
  ASSUME ParkedHasOperation,
         NEW sk \in SocketTable, NEW n \in Nat, NEW k, Woken(k, n, sk),
         n + 1 \in PIDs, state[n + 1] = "BlockedNet",
         NEW t \in Tables, Drained(k.sockets, t.sockets), Taken(n + 1, k.sockets, t.sockets),
         t.state = k.state, t.net = k.net, t.context = k.context,
         NEW v \in Int,
         IsResult(net[n + 1], v, 1 + Cardinality(Takers(k, net[n + 1].socket)),
                  sk[net[n + 1].socket].rx, t.sockets[net[n + 1].socket])
  PROVE  Woken(complete_blocked(t, n + 1, v), n + 1, sk)
<1>0. PICK p \in PIDs : p = n + 1
  OBVIOUS
<1> DEFINE c == complete_blocked(t, p, v)
<1>1. /\ c \in Tables /\ c.sockets = t.sockets
      /\ c.state[p] = "Ready" /\ c.net[p] = no_net_op /\ c.context[p].a0 = v
      /\ \A q \in PIDs \ {p} :
           c.state[q] = t.state[q] /\ c.net[q] = t.net[q] /\ c.context[q] = t.context[q]
  BY CompleteLemma, ZenonT(40)
<1> HIDE DEF c
<1>2. k.sockets \in SocketTable /\ c.sockets \in SocketTable /\ k \in Tables
  BY <1>1 DEF Woken, Tables
<1>3. Drained(sk, c.sockets)
  BY <1>1, <1>2, DrainedTrans DEF Woken
<1>4. k.state[p] = "BlockedNet" /\ \A q \in PIDs : k.state[q] # state[q] => q < p
  <2>1. \A q \in PIDs : ~(q <= n) => Untouched(k, q)
    BY DEF Woken
  <2>2. ~(p <= n) /\ \A q \in PIDs : q <= n => q < p
    BY <1>0, Numbers
  <2> QED BY <1>0, <2>1, <2>2 DEF Untouched
<1>5. ASSUME NEW s
      PROVE  /\ Takers(k, s) \subseteq PIDs /\ p \notin Takers(k, s)
             /\ \A q \in Takers(k, s) : q < p
             /\ Takers(c, s) = IF net[p].op = "Recv" /\ net[p].socket = s
                               THEN Takers(k, s) \cup {p} ELSE Takers(k, s)
  <2>1. /\ Takers(k, s) \subseteq PIDs /\ p \notin Takers(k, s)
        /\ \A q \in Takers(k, s) : q < p
    BY <1>4 DEF Takers
  <2>2. \A q \in PIDs : q # p => (q \in Takers(c, s) <=> q \in Takers(k, s))
    BY <1>1 DEF Takers
  <2>3. p \in Takers(c, s) <=> net[p].op = "Recv" /\ net[p].socket = s
    BY <1>0, <1>1 DEF Takers
  <2>4. Takers(c, s) \subseteq PIDs
    BY DEF Takers
  <2> DEFINE now == Takers(c, s)
             before == Takers(k, s)
  <2> HIDE DEF now, before
  <2>5. CASE net[p].op = "Recv" /\ net[p].socket = s
    <3>1. now = before \cup {p}
      BY <2>1, <2>2, <2>3, <2>4, <2>5 DEF now, before
    <3> QED BY <2>1, <2>5, <3>1 DEF now, before
  <2>6. CASE ~(net[p].op = "Recv" /\ net[p].socket = s)
    <3>1. now = before
      BY <2>1, <2>2, <2>3, <2>4, <2>6 DEF now, before
    <3> QED BY <2>1, <2>6, <3>1 DEF now, before
  <2> QED BY <2>5, <2>6
<1>6. ASSUME NEW s \in Udp
      PROVE  Shift(sk[s].rx, c.sockets[s].rx, Cardinality(Takers(c, s)))
  <2>1. Shift(sk[s].rx, k.sockets[s].rx, Cardinality(Takers(k, s)))
    BY DEF Woken
  <2>2. CASE net[p].op = "Recv" /\ s = net[p].socket
    <3>1. Shift(k.sockets[s].rx, c.sockets[s].rx, 1)
      BY <1>0, <1>1, <2>2 DEF Taken
    <3>2. /\ Cardinality(Takers(k, s)) \in Nat
          /\ Cardinality(Takers(c, s)) = Cardinality(Takers(k, s)) + 1
      BY <1>5, <2>2, CountPIDs
    <3>3. /\ sk[s].rx \in Seq(0 .. LongestDatagram)
          /\ k.sockets[s].rx \in Seq(0 .. LongestDatagram)
          /\ c.sockets[s].rx \in Seq(0 .. LongestDatagram)
      BY <1>2, SocketLen DEF SocketTable, Handles
    <3> QED BY <2>1, <3>1, <3>2, <3>3, ShiftTrans
  <2>3. CASE ~(net[p].op = "Recv" /\ s = net[p].socket)
    <3>1. c.sockets[s] = k.sockets[s]
      BY <1>0, <1>1, <2>3 DEF Taken
    <3>2. Takers(c, s) = Takers(k, s)
      BY <1>5, <2>3
    <3> QED BY <2>1, <3>1, <3>2
  <2> QED BY <2>2, <2>3
<1>7. ASSUME NEW q \in PIDs
      PROVE  Untouched(c, q) \/ (q <= p /\ Completed(c, q, sk))
  <2>1. CASE q = p
    <3>1. p <= p
      BY Numbers
    <3>2. Ahead(c, p) = Takers(k, net[p].socket)
      <4>1. ~(p < p)
        BY Numbers
      <4> QED BY <1>5, <4>1 DEF Ahead
    <3> QED BY <1>0, <1>1, <2>1, <3>1, <3>2 DEF Completed
  <2>2. CASE q # p /\ Untouched(k, q)
    BY <1>1, <2>2 DEF Untouched
  <2>3. CASE q # p /\ q <= n /\ Completed(k, q, sk)
    <3> DEFINE s == net[q].socket
    <3>1. net[q] \in Columns /\ s \in Handles
      BY DEF ParkedHasOperation, Columns, Handles
    <3>2. q < p
      BY <1>0, <2>3, Numbers
    <3>3. Ahead(c, q) = Ahead(k, q)
      <4>1. \A r \in PIDs : r < q => r # p
        BY <3>2, Numbers
      <4>2. \A r \in PIDs : r < q => (r \in Takers(c, s) <=> r \in Takers(k, s))
        BY <1>1, <4>1 DEF Takers
      <4>3. Takers(c, s) \subseteq PIDs /\ Takers(k, s) \subseteq PIDs
        BY DEF Takers
      <4> QED BY <4>2, <4>3 DEF Ahead
    <3>4. /\ k.sockets[s] \in Socket /\ c.sockets[s] \in Socket
          /\ Less(k.sockets[s], c.sockets[s]) /\ Len(sk[s].rx) \in Nat
      BY <1>1, <1>2, <3>1, SocketLen DEF SocketTable, Drained
    <3>5. k.context[q].a0 \in Int
      BY <1>2 DEF Tables, Regs
    <3>6. IsResult(net[q], k.context[q].a0, 1 + Cardinality(Ahead(c, q)), sk[s].rx, c.sockets[s])
      BY <2>3, <3>1, <3>3, <3>4, <3>5, ResultStays DEF Completed
    <3>7. q <= p
      BY <3>2, Numbers
    <3> QED BY <1>1, <2>3, <3>6, <3>7 DEF Completed
  <2> QED BY <2>2, <2>1, <2>3 DEF Woken
<1> QED BY <1>0, <1>1, <1>3, <1>6, <1>7 DEF Woken, c

LEMMA WakeTurn ==
  ASSUME ParkedHasOperation,
         NEW sk \in SocketTable, NEW n \in Nat, NEW k, Woken(k, n, sk), n + 1 \in PIDs
  PROVE  Woken(WakeStep(k, n + 1), n + 1, sk)
<1> DEFINE p == n + 1
<1>1. Woken(k, p, sk)
  BY Numbers DEF Woken
<1>2. /\ k \in Tables /\ k.sockets \in SocketTable /\ k.net[p] = net[p] /\ net[p] \in Columns
      /\ net[p].socket \in Handles /\ Untouched(k, p)
  <2>1. Untouched(k, p)
    BY Numbers DEF Woken
  <2> QED BY <2>1 DEF Woken, Untouched, Tables, ParkedHasOperation, Columns, Handles
<1>3. CASE state[p] = "BlockedNet" /\ net[p].op = "Recv"
  <2> DEFINE s == net[p].socket
             a == try_recv_once(k.sockets, s, net[p].len)
             t == [k EXCEPT !.sockets[s] = a.so]
  <2>1. net[p].len \in 1 .. STAGING_SIZE
    BY <1>2, <1>3, Numbers DEF ParkedHasOperation, Columns
  <2>2. /\ a.so \in Socket /\ Less(k.sockets[s], a.so)
        /\ \/ a.kind = "Empty"
           \/ /\ s \in Tcp /\ a.kind = "Data" /\ a.n \in 1 .. net[p].len
              /\ a.n + Len(a.so.rx) <= Len(k.sockets[s].rx)
           \/ a.kind = "Err" /\ s \in Tcp /\ ~may_recv(k.sockets[s])
           \/ /\ s \in Udp /\ Len(k.sockets[s].rx) > 0 /\ Shift(k.sockets[s].rx, a.so.rx, 1)
              /\ \/ k.sockets[s].rx[1] > net[p].len /\ a.kind = "Err"
                 \/ k.sockets[s].rx[1] <= net[p].len /\ a.kind = "Data" /\ a.n = k.sockets[s].rx[1]
    BY <1>2, <2>1, AttemptLemma DEF Less
  <2>3. WakeStep(k, p) =
          IF a.kind = "Empty" THEN k ELSE complete_blocked(t, p, copied(a, net[p].buf))
    BY <1>2, <1>3 DEF WakeStep, wake_one_recv
  <2> HIDE DEF a
  <2>4. /\ t \in Tables /\ t.state = k.state /\ t.net = k.net /\ t.context = k.context
        /\ t.sockets = [k.sockets EXCEPT ![s] = a.so]
    BY <1>2, <2>2 DEF Tables, SocketTable
  <2>5. /\ t.sockets[s] = a.so /\ \A x \in Handles \ {s} : t.sockets[x] = k.sockets[x]
        /\ \A x \in Handles : Len(k.sockets[x].rx) \in Nat /\ Len(sk[x].rx) \in Nat
        /\ Len(a.so.rx) \in Nat
    <3>1. \A x \in Handles : Len(k.sockets[x].rx) \in Nat /\ Len(sk[x].rx) \in Nat
      BY <1>2, SocketLen DEF SocketTable
    <3>2. Len(a.so.rx) \in Nat
      BY <2>2, SocketLen
    <3> HIDE DEF t
    <3>3. t.sockets[s] = a.so /\ \A x \in Handles \ {s} : t.sockets[x] = k.sockets[x]
      BY <1>2, <2>4 DEF SocketTable
    <3> QED BY <3>1, <3>2, <3>3
  <2>6. Drained(k.sockets, t.sockets)
    <3> HIDE DEF t
    <3>1. \A x \in Handles \ {s} : Less(k.sockets[x], t.sockets[x])
      BY <2>5 DEF Less
    <3>2. Less(k.sockets[s], t.sockets[s])
      BY <2>2, <2>5
    <3> QED BY <3>1, <3>2 DEF Drained
  <2>7. CASE a.kind = "Empty"
    BY <1>1, <2>3, <2>7
  <2>8. CASE a.kind # "Empty"
    <3> DEFINE v == copied(a, net[p].buf)
               place == 1 + Cardinality(Takers(k, s))
    <3>1. Less(sk[s], k.sockets[s]) /\ Len(k.sockets[s].rx) <= Len(sk[s].rx)
      BY <1>2 DEF Woken, Drained, Less
    <3>2. ASSUME s \in Tcp /\ a.kind = "Data"
          PROVE  v \in Int /\ IsResult(net[p], v, place, sk[s].rx, t.sockets[s]) /\ Taken(p, k.sockets, t.sockets)
      <4>1. a.n \in 1 .. net[p].len /\ a.n + Len(a.so.rx) <= Len(k.sockets[s].rx)
        BY <2>2, <3>2, Numbers
      <4>2. a.n \in Nat /\ a.n # ERR /\ a.n # 0 /\ a.n + Len(a.so.rx) <= Len(sk[s].rx)
        <5>1. PICK x \in Nat : x = Len(a.so.rx)
          BY <2>5
        <5>2. PICK y \in Nat : y = Len(k.sockets[s].rx)
          BY <1>2, <2>5
        <5>3. PICK z \in Nat : z = Len(sk[s].rx)
          BY <1>2, <2>5
        <5>4. PICK len \in 1 .. STAGING_SIZE : len = net[p].len
          BY <2>1
        <5>5. a.n \in 1 .. len /\ a.n + x <= y /\ y <= z
          BY <3>1, <4>1, <5>1, <5>2, <5>3, <5>4
        <5>6. STAGING_SIZE \in Nat /\ STAGING_SIZE < ERR /\ ERR \in Nat
          BY Numbers
        <5>7. a.n \in Nat /\ a.n # ERR /\ a.n # 0 /\ a.n + x <= z
          BY <5>5, <5>6
        <5> QED BY <5>1, <5>3, <5>7
      <4>3. v = (IF net[p].buf = "ok" THEN a.n ELSE ERR) /\ net[p].buf \in {"ok", "bad"}
        BY <1>2, <3>2, <4>2 DEF copied, Columns
      <4>4. v \in Int
        BY <4>2, <4>3, Numbers
      <4> HIDE DEF v, place, t
      <4>5. IsResult(net[p], v, place, sk[s].rx, t.sockets[s])
        BY <1>3, <2>5, <3>2, <4>1, <4>2, <4>3 DEF IsResult
      <4>6. Taken(p, k.sockets, t.sockets)
        BY <2>5, <3>2, Numbers DEF Taken, Handles
      <4> QED BY <4>4, <4>5, <4>6
    <3>3. ASSUME s \in Tcp /\ a.kind = "Err"
          PROVE  v \in Int /\ IsResult(net[p], v, place, sk[s].rx, t.sockets[s]) /\ Taken(p, k.sockets, t.sockets)
      <4>1. ~may_recv(k.sockets[s])
        BY <2>2, <3>3, Numbers
      <4>2. v = ERR /\ v \in Int /\ ~may_recv(t.sockets[s])
        BY <2>2, <2>5, <3>3, <4>1, Numbers DEF copied, may_recv, Less
      <4> HIDE DEF v, place, t
      <4>3. IsResult(net[p], v, place, sk[s].rx, t.sockets[s])
        BY <1>3, <3>3, <4>2 DEF IsResult
      <4>4. Taken(p, k.sockets, t.sockets)
        BY <2>5, <3>3, Numbers DEF Taken, Handles
      <4> QED BY <4>2, <4>3, <4>4
    <3>4. ASSUME s \in Udp
          PROVE  v \in Int /\ IsResult(net[p], v, place, sk[s].rx, t.sockets[s]) /\ Taken(p, k.sockets, t.sockets)
      <4> DEFINE d == k.sockets[s].rx[1]
      <4>1. /\ Len(k.sockets[s].rx) > 0 /\ Shift(k.sockets[s].rx, a.so.rx, 1)
            /\ \/ d > net[p].len /\ a.kind = "Err"
               \/ d <= net[p].len /\ a.kind = "Data" /\ a.n = d
        BY <2>2, <2>8, <3>4, Numbers
      <4>2. d \in Nat
        <5>1. k.sockets[s].rx \in Seq(0 .. LongestDatagram)
          BY <1>2, SocketLen DEF SocketTable
        <5>2. 1 \in 1 .. Len(k.sockets[s].rx)
          BY <2>5, <4>1
        <5>3. d \in 0 .. LongestDatagram
          BY <5>1, <5>2, ElementOfSeq
        <5> QED BY <5>3, Numbers
      <4>3. net[p].len \in Nat /\ net[p].buf \in {"ok", "bad"}
        BY <1>2, <2>1, Numbers DEF Columns
      <4>4. v = (IF d <= net[p].len /\ (net[p].buf = "ok" \/ d = 0) THEN d ELSE ERR) /\ v \in Int
        <5> HIDE DEF d
        <5> QED BY <4>1, <4>2, <4>3, Numbers DEF copied
      <4>5. place <= Len(sk[s].rx) /\ sk[s].rx[place] = d
        <5>1. Cardinality(Takers(k, s)) \in Nat
          <6>1. Takers(k, s) \subseteq PIDs /\ p \notin Takers(k, s)
            BY <1>2 DEF Takers, Untouched
          <6> QED BY <6>1, CountPIDs
        <5>2. Shift(sk[s].rx, k.sockets[s].rx, Cardinality(Takers(k, s)))
          BY <3>4 DEF Woken
        <5>3. 1 \in 1 .. Len(k.sockets[s].rx)
          BY <2>5, <4>1
        <5>4. d = sk[s].rx[Cardinality(Takers(k, s)) + 1]
          BY <5>2, <5>3 DEF Shift
        <5>5. Cardinality(Takers(k, s)) + 1 = place
          BY <5>1
        <5>6. place <= Len(sk[s].rx)
          <6>1. PICK x \in Nat, y \in Nat, z \in Nat :
                  x = Len(k.sockets[s].rx) /\ y = Cardinality(Takers(k, s)) /\ z = Len(sk[s].rx)
            BY <1>2, <2>5, <5>1
          <6>2. x > 0 /\ z = x + y /\ place = y + 1
            BY <4>1, <5>2, <5>5, <6>1 DEF Shift
          <6>3. y + 1 <= z
            BY <6>2
          <6> QED BY <6>1, <6>2, <6>3
        <5> QED BY <5>4, <5>5, <5>6
      <4> HIDE DEF v, place, t, d
      <4>6. IsResult(net[p], v, place, sk[s].rx, t.sockets[s])
        BY <1>3, <3>4, <4>4, <4>5 DEF IsResult
      <4>7. Taken(p, k.sockets, t.sockets)
        <5>1. Shift(k.sockets[s].rx, t.sockets[s].rx, 1)
          BY <2>5, <4>1
        <5>2. \A x \in Udp : x \in Handles
          BY DEF Handles
        <5> QED BY <2>5, <1>3, <5>1, <5>2 DEF Taken
      <4> QED BY <4>4, <4>6, <4>7
    <3>5. v \in Int /\ IsResult(net[p], v, place, sk[s].rx, t.sockets[s]) /\ Taken(p, k.sockets, t.sockets)
      BY <1>2, <2>2, <2>8, <3>2, <3>3, <3>4 DEF Handles
    <3>6. WakeStep(k, p) = complete_blocked(t, p, v)
      BY <2>3, <2>8
    <3>7. IsResult(net[n + 1], v, 1 + Cardinality(Takers(k, net[n + 1].socket)),
                   sk[net[n + 1].socket].rx, t.sockets[net[n + 1].socket])
      BY <3>5
    <3> HIDE DEF t, v, place
    <3>8. Woken(complete_blocked(t, n + 1, v), n + 1, sk)
      BY <1>3, <2>4, <2>6, <3>5, <3>7, CompleteTurn
    <3> QED BY <3>6, <3>8
  <2> QED BY <2>7, <2>8
<1>4. CASE state[p] = "BlockedNet" /\ net[p].op = "Connect"
  <2> DEFINE st == k.sockets[net[p].socket].st
  <2>1. \/ WakeStep(k, p) = k
        \/ may_send(st) /\ WakeStep(k, p) = complete_blocked(k, p, 0)
        \/ ~may_send(st) /\ ~is_active(st) /\ WakeStep(k, p) = complete_blocked(k, p, ERR)
    BY <1>2, <1>4 DEF WakeStep, wake_one_connect
  <2> DEFINE place == 1 + Cardinality(Takers(k, net[p].socket))
             queue == sk[net[p].socket].rx
             left == k.sockets[net[p].socket]
  <2>2. Drained(k.sockets, k.sockets) /\ Taken(p, k.sockets, k.sockets)
    <3>1. \A s \in Handles : Len(k.sockets[s].rx) \in Nat
      BY <1>2, SocketLen DEF SocketTable
    <3> QED BY <1>4, <3>1 DEF Drained, Less, Taken
  <2>3. may_send(st) => IsResult(net[p], 0, place, queue, left)
    BY <1>4, Numbers DEF IsResult
  <2>4. ~may_send(st) /\ ~is_active(st) => IsResult(net[p], ERR, place, queue, left)
    BY <1>4, Numbers DEF IsResult
  <2>5. 0 \in Int /\ ERR \in Int
    BY Numbers
  <2> HIDE DEF st
  <2> QED BY <1>1, <1>2, <1>4, <2>1, <2>2, <2>3, <2>4, <2>5, CompleteTurn
<1>5. CASE ~(state[p] = "BlockedNet" /\ net[p].op \in {"Recv", "Connect"})
  <2>1. WakeStep(k, p) = k
    BY <1>5 DEF WakeStep
  <2> QED BY <1>1, <2>1
<1> QED BY <1>3, <1>4, <1>5

(* The tables the loop starts from, and the equation of its turns up to n. *)
Start(sk) == [state |-> state, context |-> context, net |-> net, sockets |-> sk]
Turns(sk, n, w) ==
  w = [p \in 0 .. n |-> IF p = 0 THEN Start(sk) ELSE WakeStep(w[p - 1], p)]

(* The loop is well defined: there is a function that satisfies it. *)
LEMMA TurnsExist ==
  ASSUME NEW sk, NEW N \in Nat
  PROVE  \E w : Turns(sk, N, w)
<1> DEFINE T == {n \in 0 .. N : \E w : Turns(sk, n, w)}
<1>1. 0 \in T
  <2>1. PICK w : w = [p \in 0 .. 0 |-> Start(sk)]
    OBVIOUS
  <2>2. \A p \in 0 .. 0 : p = 0
    OBVIOUS
  <2>3. w = [p \in 0 .. 0 |-> IF p = 0 THEN Start(sk) ELSE WakeStep(w[p - 1], p)]
    BY <2>1, <2>2
  <2> QED BY <2>3 DEF Turns
<1>2. ASSUME NEW n \in 0 .. N - 1, n \in T
      PROVE  n + 1 \in T
  <2>1. PICK w : w = [p \in 0 .. n |-> IF p = 0 THEN Start(sk) ELSE WakeStep(w[p - 1], p)]
    BY <1>2 DEF Turns
  <2> DEFINE v == [p \in 0 .. n + 1 |-> IF p = n + 1 THEN WakeStep(w[n], p) ELSE w[p]]
  <2>2. ASSUME NEW p \in 0 .. n + 1
        PROVE  v[p] = IF p = 0 THEN Start(sk) ELSE WakeStep(v[p - 1], p)
    <3>1. CASE p = n + 1
      <4>1. v[p] = WakeStep(w[n], p) /\ v[p - 1] = w[n] /\ p # 0
        BY <3>1
      <4> QED BY <4>1
    <3>2. CASE p # n + 1
      <4>1. p \in 0 .. n /\ v[p] = w[p]
        BY <3>2
      <4>2. p # 0 => v[p - 1] = w[p - 1]
        BY <4>1
      <4>3. w[p] = IF p = 0 THEN Start(sk) ELSE WakeStep(w[p - 1], p)
        BY <2>1, <4>1
      <4> QED BY <4>1, <4>2, <4>3
    <3> QED BY <3>1, <3>2
  <2>3. v = [p \in 0 .. n + 1 |-> IF p = 0 THEN Start(sk) ELSE WakeStep(v[p - 1], p)]
    BY <2>2
  <2> HIDE DEF v
  <2>4. n + 1 \in 0 .. N
    OBVIOUS
  <2> QED BY <2>3, <2>4 DEF Turns
<1> HIDE DEF T
<1>3. 0 .. N \subseteq T
  BY <1>1, <1>2, Upward
<1>4. N \in T
  BY <1>3
<1> QED BY <1>4 DEF T

(* Before the first turn nothing is taken. *)
LEMMA StartLemma ==
  ASSUME NEW sk \in SocketTable, Start(sk) \in Tables, NEW n
  PROVE  Woken(Start(sk), n, sk)
<1>1. \A s \in Handles : Len(sk[s].rx) \in Nat
  BY SocketLen DEF SocketTable
<1>2. Drained(sk, Start(sk).sockets) /\ \A q \in PIDs : Untouched(Start(sk), q)
  BY <1>1 DEF Drained, Less, Start, Untouched
<1>3. ASSUME NEW s \in Udp
      PROVE  Shift(sk[s].rx, Start(sk).sockets[s].rx, Cardinality(Takers(Start(sk), s)))
  <2>1. Takers(Start(sk), s) = {}
    BY DEF Takers, Start
  <2>2. Cardinality(Takers(Start(sk), s)) = 0
    BY <2>1, FS_EmptySet
  <2>3. Start(sk).sockets = sk /\ Len(sk[s].rx) \in Nat
    BY <1>1 DEF Start, Handles
  <2>4. \A i \in 1 .. Len(sk[s].rx) : 0 + i = i
    BY <2>3
  <2> QED BY <2>2, <2>3, <2>4 DEF Shift
<1> QED BY <1>2, <1>3 DEF Woken

(* What wake_blocked leaves. *)
LEMMA WakeBlockedLemma ==
  ASSUME ParkedHasOperation, NEW sk \in SocketTable, Start(sk) \in Tables
  PROVE  Woken(wake_blocked(sk), MAX_PROCS - 1, sk)
<1> DEFINE N == MAX_PROCS - 1
           w == CHOOSE u : Turns(sk, N, u)
           T == {n \in 0 .. N : Woken(w[n], n, sk)}
<1>1. N \in Nat /\ \A n \in 0 .. N - 1 : n + 1 \in PIDs /\ n \in Nat
  BY ProcessAssumption DEF PIDs
<1>2. wake_blocked(sk) = w[N]
  BY DEF wake_blocked, Turns, WakeStep, Start
<1>3. Turns(sk, N, w)
  <2> HIDE DEF N
  <2> QED BY <1>1, TurnsExist
<1> HIDE DEF w, N
<1>4. \A p \in 0 .. N : w[p] = IF p = 0 THEN Start(sk) ELSE WakeStep(w[p - 1], p)
  BY <1>3 DEF Turns
<1>5. 0 \in T
  <2>1. w[0] = Start(sk) /\ 0 \in 0 .. N
    BY <1>1, <1>4
  <2>2. Woken(Start(sk), 0, sk)
    BY StartLemma
  <2> QED BY <2>1, <2>2
<1>6. ASSUME NEW n \in 0 .. N - 1, n \in T
      PROVE  n + 1 \in T
  <2>1. Woken(WakeStep(w[n], n + 1), n + 1, sk)
    BY <1>1, <1>6, WakeTurn
  <2>2. n + 1 \in 0 .. N /\ n + 1 # 0 /\ (n + 1) - 1 = n
    BY <1>1
  <2>3. w[n + 1] = WakeStep(w[n], n + 1)
    BY <1>4, <2>2
  <2> QED BY <2>1, <2>2, <2>3
<1> HIDE DEF T
<1>7. N \in T
  <2>1. 0 .. N \subseteq T
    BY <1>1, <1>5, <1>6, Upward
  <2> QED BY <1>1, <2>1
<1> QED BY <1>2, <1>7 DEF T, N

----------------------------------------------------------------------------
(***************************************************************************)
(* The inductive invariant: the types, a process of its own for user mode, *)
(* and an operation for every parked process.  That TCP_ALLOC_COUNT counts *)
(* the sockets given out is not needed: no handler takes one back.         *)
(***************************************************************************)
UserRuns == mode = "user" => CURRENT_PID \in PIDs /\ state[CURRENT_PID] = "Running"

KernelTypes ==
  state \in [PIDs -> ProcessState] /\ context \in [PIDs -> Regs] /\ frame \in Regs

NetTypes ==
  /\ net \in [PIDs -> Columns]
  /\ sockets \in SocketTable
  /\ TCP_ALLOC_COUNT \in Nat /\ UDP_ALLOC_COUNT \in Nat

NetInv == KernelTypes /\ UserRuns /\ NetTypes /\ ParkedHasOperation

(* A process parked with the columns c, among the sockets tbl. *)
Parked(c, tbl) ==
  /\ c \in Columns /\ c.op # "None"
  /\ c.op = "Recv" => tbl[c.socket].st # "None" /\ c.len > 0
  /\ c.op = "Connect" => c.socket \in Tcp /\ tbl[c.socket].st # "None"

(* What a step does to p: nothing, park it, or let it go. *)
Stays(p) == (state'[p] = "BlockedNet" <=> state[p] = "BlockedNet") /\ net'[p] = net[p]
Parks(p) == /\ state[p] # "BlockedNet" /\ state'[p] = "BlockedNet"
            /\ Parked(net'[p], sockets')
Goes(p) == state'[p] # "BlockedNet" /\ net'[p] = no_net_op

OwnResults ==
  (\E p \in PIDs : Wakes(p)) =>
    \E sk \in Polled(sockets) : \A p \in PIDs : Wakes(p) => OwnResult(p, sk)

(* What every step keeps to. *)
NetStep ==
  /\ KernelTypes' /\ UserRuns' /\ NetTypes'
  /\ KeepsSockets(sockets, sockets')
  /\ \A p \in PIDs : Stays(p) \/ Parks(p) \/ Goes(p)
  /\ OwnResults

LEMMA NetStepKeeps ==
  ASSUME NetInv, NetStep
  PROVE  NetInv'
<1>1. ASSUME NEW p \in PIDs
      PROVE  /\ net'[p] \in Columns
             /\ state'[p] = "BlockedNet" <=> net'[p].op # "None"
             /\ net'[p].op # "None" => Parked(net'[p], sockets')
  <2>1. CASE Stays(p)
    <3>1. /\ net[p] \in Columns /\ net[p].socket \in Handles
          /\ state[p] = "BlockedNet" <=> net[p].op # "None"
          /\ net[p].op # "None" => Parked(net[p], sockets)
      BY DEF NetInv, ParkedHasOperation, Parked, Exists, Columns, Handles
    <3>2. net[p].op # "None" => Parked(net[p], sockets')
      BY <3>1 DEF Parked, NetStep, KeepsSockets
    <3> QED BY <2>1, <3>1, <3>2 DEF Stays
  <2>2. CASE Parks(p)
    BY <2>2 DEF Parks, Parked
  <2>3. CASE Goes(p)
    BY <2>3, Numbers DEF Goes
  <2> QED BY <2>1, <2>2, <2>3 DEF NetStep
<1>2. ParkedHasOperation'
  <2>1. \A p \in PIDs : net'[p].socket \in Tcp \cup Udp
    BY <1>1 DEF Columns
  <2>2. ASSUME NEW p \in PIDs
        PROVE  /\ net'[p].op = "Recv" => sockets'[net'[p].socket].st # "None" /\ net'[p].len > 0
               /\ net'[p].op = "Connect" =>
                    net'[p].socket \in Tcp /\ sockets'[net'[p].socket].st # "None"
    BY <1>1 DEF Parked
  <2> QED BY <1>1, <2>1, <2>2 DEF ParkedHasOperation, Exists
<1> QED BY <1>2 DEF NetInv, NetStep

----------------------------------------------------------------------------
(***************************************************************************)
(* The scheduler, given the states st and the registers ctx that a handler *)
(* left: it parks and releases nobody, and a process that was Ready has    *)
(* the registers of ctx, saved or in the frame.                            *)
(***************************************************************************)
Dispatches(st, ctx) ==
  /\ KernelTypes' /\ UserRuns'
  /\ \A p \in PIDs : state'[p] = "BlockedNet" <=> st[p] = "BlockedNet"
  /\ \A p \in PIDs : st[p] = "Ready" => registers(p)' = ctx[p]

StateTable == [PIDs -> ProcessState]
ContextTable == [PIDs -> Regs]

LEMMA SwitchLemma ==
  ASSUME NEW st \in StateTable, NEW ctx \in ContextTable, NEW next \in PIDs,
         st[next] = "Ready", switch_to(st, ctx, next)
  PROVE  Dispatches(st, ctx)
<1>1. /\ state' = [st EXCEPT ![next] = "Running"] /\ context' = ctx /\ frame' = ctx[next]
      /\ CURRENT_PID' = next
  BY DEF switch_to, resume
<1>2. KernelTypes' /\ UserRuns'
  BY <1>1 DEF KernelTypes, UserRuns, StateTable, ContextTable, ProcessState
<1>3. \A p \in PIDs : st[p] = "Ready" => registers(p)' = ctx[p]
  BY <1>1 DEF registers, StateTable
<1> QED BY <1>1, <1>2, <1>3 DEF Dispatches, StateTable

(* Going back to the kernel's loops, or nowhere. *)
LEMMA KernelLemma ==
  ASSUME NEW st \in StateTable, NEW ctx \in ContextTable,
         state' = st, context' = ctx, frame' \in Regs, mode' # "user"
  PROVE  Dispatches(st, ctx)
  BY DEF Dispatches, KernelTypes, UserRuns, registers, StateTable, ContextTable

LEMMA ScheduleLemma ==
  ASSUME NEW st \in StateTable, NEW ctx \in ContextTable, NEW f \in Regs, frame \in Regs,
         NEW b \in PIDs, st[b] = "BlockedNet", schedule(st, ctx, f, b)
  PROVE  Dispatches(st, [ctx EXCEPT ![b] = f])
<1> DEFINE saved == [ctx EXCEPT ![b] = f]
<1>1. saved \in ContextTable
  BY DEF ContextTable
<1>2. CASE \E next \in PIDs : NextReady(st, b, MAX_PROCS - 1, next) /\ switch_to(st, saved, next)
  <2> HIDE DEF saved
  <2> QED BY <1>1, <1>2, SwitchLemma DEF NextReady, saved
<1>3. CASE enter_idle(st, saved, f) \/ panic(st, saved, "panic_deadlock")
  <2> HIDE DEF saved
  <2>1. state' = st /\ context' = saved /\ frame' \in Regs /\ mode' # "user"
    BY <1>3 DEF enter_idle, panic
  <2>2. Dispatches(st, saved)
    BY <1>1, <2>1, KernelLemma
  <2> QED BY <2>2 DEF saved
<1> QED BY <1>2, <1>3 DEF schedule

(* Staying where the interrupt came from. *)
LEMMA StayLemma ==
  ASSUME KernelTypes, UserRuns, NEW st \in StateTable, NEW ctx \in ContextTable,
         mode = "user" => st[CURRENT_PID] = "Running",
         state' = st, context' = ctx, UNCHANGED <<CURRENT_PID, frame, mode>>
  PROVE  Dispatches(st, ctx)
  BY DEF Dispatches, KernelTypes, UserRuns, registers, StateTable, ContextTable

LEMMA PreemptLemma ==
  ASSUME KernelTypes, UserRuns, mode = "user",
         NEW st \in StateTable, NEW ctx \in ContextTable,
         st[CURRENT_PID] = "Running", preempt(st, ctx)
  PROVE  Dispatches(st, ctx)
<1> DEFINE c == CURRENT_PID
           given == [st EXCEPT ![c] = "Ready"]
           saved == [ctx EXCEPT ![c] = frame]
<1>1. /\ c \in PIDs /\ given \in StateTable /\ saved \in ContextTable
      /\ \A p \in PIDs : st[p] = "Ready" => p # c /\ given[p] = "Ready" /\ saved[p] = ctx[p]
      /\ \A p \in PIDs : given[p] = "BlockedNet" <=> st[p] = "BlockedNet"
  BY DEF KernelTypes, UserRuns, StateTable, ContextTable, ProcessState
<1>2. CASE \E next \in PIDs : NextReady(st, c, MAX_PROCS - 2, next) /\ switch_to(given, saved, next)
  <2> HIDE DEF given, saved
  <2>1. Dispatches(given, saved)
    BY <1>1, <1>2, SwitchLemma DEF NextReady
  <2> QED BY <1>1, <2>1 DEF Dispatches
<1>3. CASE state' = st /\ context' = ctx /\ UNCHANGED <<CURRENT_PID, frame, satp, mode>>
  BY <1>3, StayLemma
<1> QED BY <1>2, <1>3 DEF preempt

LEMMA IdleLemma ==
  ASSUME KernelTypes, UserRuns, mode # "user",
         NEW st \in StateTable, NEW ctx \in ContextTable, schedule_from_idle(st, ctx)
  PROVE  Dispatches(st, ctx)
<1>1. CASE \E next \in PIDs : LowestReady(st, next) /\ switch_to(st, ctx, next)
  BY <1>1, SwitchLemma DEF LowestReady
<1>2. CASE state' = st /\ context' = ctx /\ UNCHANGED <<CURRENT_PID, frame, satp, mode>>
  BY <1>2, StayLemma
<1> QED BY <1>1, <1>2 DEF schedule_from_idle

----------------------------------------------------------------------------
(* Requests. *)

(* A step that leaves the process table alone. *)
LEMMA DoneLemma ==
  ASSUME NetInv, NEW v \in Int, return(request, v), UNCHANGED net,
         sockets' \in SocketTable, KeepsSockets(sockets, sockets'),
         TCP_ALLOC_COUNT' \in Nat, UDP_ALLOC_COUNT' \in Nat
  PROVE  NetStep
<1>1. frame' \in Regs
  BY NetAssumption DEF return, request, Regs, Word
<1>2. KernelTypes' /\ UserRuns' /\ \A p \in PIDs : Stays(p)
  BY <1>1 DEF return, NetInv, KernelTypes, UserRuns, Stays
<1>3. OwnResults
  BY <1>2 DEF OwnResults, Wakes, Stays
<1> QED BY <1>2, <1>3 DEF NetStep, NetInv, NetTypes

(* Done, with a socket table that forgets no socket. *)
LEMMA DoneStep ==
  ASSUME NetInv, NEW v \in Int, NEW sk \in SocketTable, KeepsSockets(sockets, sk), Done(v, sk)
  PROVE  NetStep
<1>1. /\ return(request, v) /\ UNCHANGED net
      /\ sockets' \in SocketTable /\ KeepsSockets(sockets, sockets')
      /\ TCP_ALLOC_COUNT' \in Nat /\ UDP_ALLOC_COUNT' \in Nat
  BY DEF Done, NetInv, NetTypes
<1> QED BY <1>1, DoneLemma

(* Done with the sockets as they are. *)
LEMMA PlainDone ==
  ASSUME NetInv, NEW v \in Int, Done(v, sockets)
  PROVE  NetStep
<1>1. sockets \in SocketTable /\ KeepsSockets(sockets, sockets)
  BY DEF NetInv, NetTypes, KeepsSockets
<1> QED BY <1>1, DoneStep

(* One socket of the table gets the value so. *)
LEMMA SetSocket ==
  ASSUME NEW tbl \in SocketTable, NEW s \in Handles, NEW so \in Socket, so.st # "None"
  PROVE  LET new == [tbl EXCEPT ![s] = so] IN new \in SocketTable /\ KeepsSockets(tbl, new)
  BY DEF SocketTable, KeepsSockets

LEMMA KeepsTrans ==
  ASSUME NEW a, NEW b, NEW c, KeepsSockets(a, b), KeepsSockets(b, c)
  PROVE  KeepsSockets(a, c)
  BY DEF KeepsSockets

(* NetOutcome::Blocked parks the caller. *)
LEMMA BlockedStep ==
  ASSUME NetInv, mode = "user", NEW columns, NEW sk \in SocketTable, KeepsSockets(sockets, sk),
         Parked(columns, sk), Blocked(columns, sk)
  PROVE  NetStep
<1> DEFINE c == CURRENT_PID
           st == [state EXCEPT ![c] = "BlockedNet"]
<1>1. /\ c \in PIDs /\ state[c] = "Running" /\ st \in StateTable /\ context \in ContextTable
      /\ frame \in Regs /\ request \in Regs
      /\ st[c] = "BlockedNet" /\ \A p \in PIDs \ {c} : st[p] = state[p]
  BY NetAssumption DEF NetInv, KernelTypes, UserRuns, StateTable, ContextTable, ProcessState,
     request, Regs, Word
<1>2. schedule(st, context, request, c)
  BY DEF Blocked
<1>3. Dispatches(st, [context EXCEPT ![c] = request])
  <2> HIDE DEF st
  <2> QED BY <1>1, <1>2, ScheduleLemma
<1> HIDE DEF st
<1>4. net' = [net EXCEPT ![c] = columns] /\ sockets' = sk
      /\ UNCHANGED <<TCP_ALLOC_COUNT, UDP_ALLOC_COUNT>>
  BY DEF Blocked
<1>5. net \in [PIDs -> Columns] /\ columns \in Columns
  BY DEF NetInv, NetTypes, Parked
<1>6. NetTypes'
  BY <1>4, <1>5 DEF NetInv, NetTypes
<1>7. ASSUME NEW p \in PIDs
      PROVE  Stays(p) \/ Parks(p)
  <2>1. state'[p] = "BlockedNet" <=> st[p] = "BlockedNet"
    BY <1>3 DEF Dispatches
  <2>2. CASE p = c
    BY <1>1, <1>4, <1>5, <2>1, <2>2 DEF Parks
  <2>3. CASE p # c
    BY <1>1, <1>4, <1>5, <2>1, <2>3 DEF Stays
  <2> QED BY <2>2, <2>3
<1>8. OwnResults
  BY <1>7 DEF OwnResults, Wakes, Stays, Parks
<1> QED BY <1>3, <1>4, <1>6, <1>7, <1>8 DEF NetStep, Dispatches

(* Socket values the handlers store. *)
LEMMA FreshSocket ==
  ASSUME NEW st \in SocketState
  PROVE  [st |-> st, rx |-> << >>] \in Socket
<1>1. << >> \in Seq(0 .. LongestDatagram)
  BY EmptySeq
<1> QED BY <1>1 DEF Socket

LEMMA SocketsTyped ==
  ASSUME NetInv
  PROVE  /\ sockets \in SocketTable
         /\ \A s \in Handles : sockets[s] \in Socket
         /\ \A s : Exists(s) <=> s \in Handles /\ sockets[s].st # "None"
         /\ ERR \in Int /\ 0 \in Int
  BY Numbers DEF NetInv, NetTypes, SocketTable, Exists, Handles

LEMMA SimpleStep ==
  ASSUME NetInv, handle_request_simple
  PROVE  NetStep
<1>1. PICK v \in Int : Done(v, sockets)
  BY Numbers DEF handle_request_simple
<1> QED BY <1>1, PlainDone

LEMMA SocketTcpStep ==
  ASSUME NetInv, handle_socket_tcp
  PROVE  NetStep
<1> DEFINE idx == TCP_ALLOC_COUNT
           new == [st |-> "Closed", rx |-> << >>]
<1>1. CASE Done(ERR, sockets)
  BY <1>1, PlainDone, SocketsTyped
<1>2. CASE /\ idx < MAX_TCP_SOCKETS /\ return(request, idx)
           /\ sockets' = [sockets EXCEPT ![idx] = new]
           /\ TCP_ALLOC_COUNT' = idx + 1 /\ UNCHANGED <<net, UDP_ALLOC_COUNT>>
  <2>1. idx \in Handles /\ idx \in Int
    BY <1>2, NetAssumption DEF NetInv, NetTypes, Handles, Tcp
  <2>2. new \in Socket /\ new.st # "None"
    BY FreshSocket DEF SocketState
  <2> HIDE DEF new
  <2>3. sockets' \in SocketTable /\ KeepsSockets(sockets, sockets')
    BY <1>2, <2>1, <2>2, SocketsTyped, SetSocket
  <2>4. TCP_ALLOC_COUNT' \in Nat /\ UDP_ALLOC_COUNT' \in Nat
    BY <1>2 DEF NetInv, NetTypes
  <2> QED BY <1>2, <2>1, <2>3, <2>4, DoneLemma
<1> QED BY <1>1, <1>2 DEF handle_socket_tcp

LEMMA SocketUdpStep ==
  ASSUME NetInv, handle_socket_udp
  PROVE  NetStep
<1> DEFINE idx == UDP_ALLOC_COUNT
           new == [st |-> "Unbound", rx |-> << >>]
<1>1. CASE Done(ERR, sockets)
  BY <1>1, PlainDone, SocketsTyped
<1>2. CASE /\ idx < MAX_UDP_SOCKETS /\ return(request, udp_handle(idx))
           /\ sockets' = [sockets EXCEPT ![udp_handle(idx)] = new]
           /\ UDP_ALLOC_COUNT' = idx + 1 /\ UNCHANGED <<net, TCP_ALLOC_COUNT>>
  <2>1. udp_handle(idx) \in Handles /\ udp_handle(idx) \in Int
    BY <1>2, NetAssumption DEF NetInv, NetTypes, Handles, Udp, udp_handle
  <2>2. new \in Socket /\ new.st # "None"
    BY FreshSocket DEF SocketState
  <2> HIDE DEF new
  <2>3. sockets' \in SocketTable /\ KeepsSockets(sockets, sockets')
    BY <1>2, <2>1, <2>2, SocketsTyped, SetSocket
  <2>4. TCP_ALLOC_COUNT' \in Nat /\ UDP_ALLOC_COUNT' \in Nat
    BY <1>2 DEF NetInv, NetTypes
  <2> QED BY <1>2, <2>1, <2>3, <2>4, DoneLemma
<1> QED BY <1>1, <1>2 DEF handle_socket_udp

LEMMA BindStep ==
  ASSUME NetInv, handle_bind
  PROVE  NetStep
<1>1. CASE \E v \in Int : Done(v, sockets)
  BY <1>1, PlainDone
<1>2. CASE \E s : Exists(s) /\ Done(0, [sockets EXCEPT ![s].st = "Bound"])
  <2>1. PICK s : Exists(s) /\ Done(0, [sockets EXCEPT ![s].st = "Bound"])
    BY <1>2
  <2> DEFINE new == [sockets[s] EXCEPT !.st = "Bound"]
  <2>2. s \in Handles /\ new \in Socket /\ new.st # "None"
    BY <2>1, SocketsTyped DEF Socket, SocketState
  <2>3. [sockets EXCEPT ![s].st = "Bound"] = [sockets EXCEPT ![s] = new]
    OBVIOUS
  <2> HIDE DEF new
  <2> QED BY <2>1, <2>2, <2>3, SocketsTyped, SetSocket, DoneStep
<1> QED BY <1>1, <1>2, SocketsTyped DEF handle_bind

LEMMA ListenStep ==
  ASSUME NetInv, handle_listen
  PROVE  NetStep
<1> DEFINE new == [st |-> "Listen", rx |-> << >>]
<1>1. CASE Done(ERR, sockets)
  BY <1>1, PlainDone, SocketsTyped
<1>2. CASE \E s \in Tcp : Done(0, [sockets EXCEPT ![s] = new])
  <2>1. PICK s \in Handles : Done(0, [sockets EXCEPT ![s] = new])
    BY <1>2 DEF Handles
  <2>2. new \in Socket /\ new.st # "None"
    BY FreshSocket DEF SocketState
  <2> HIDE DEF new
  <2> QED BY <2>1, <2>2, SocketsTyped, SetSocket, DoneStep
<1> QED BY <1>1, <1>2 DEF handle_listen

LEMMA CloseStep ==
  ASSUME NetInv, handle_close
  PROVE  NetStep
<1>1. CASE Done(ERR, sockets)
  BY <1>1, PlainDone, SocketsTyped
<1>2. CASE \E s : Exists(s) /\ Done(0, [sockets EXCEPT ![s] = closed(s, sockets[s])])
  <2>1. PICK s : Exists(s) /\ Done(0, [sockets EXCEPT ![s] = closed(s, sockets[s])])
    BY <1>2
  <2>2. /\ s \in Handles /\ closed(s, sockets[s]) \in Socket
        /\ closed(s, sockets[s]).st # "None"
    BY <2>1, SocketsTyped, ClosedLemma
  <2> QED BY <2>1, <2>2, SocketsTyped, SetSocket, DoneStep
<1> QED BY <1>1, <1>2 DEF handle_close

LEMMA SendStep ==
  ASSUME NetInv, handle_send
  PROVE  NetStep
<1>1. CASE Done(ERR, sockets)
  BY <1>1, PlainDone, SocketsTyped
<1>2. CASE \E sent \in Int : \E sk \in Polled(sockets) : Done(sent, sk)
  BY <1>2, SocketsTyped, PolledLemma, DoneStep
<1>3. \A len \in LengthArgs : 0 .. len \subseteq Int
  BY NetAssumption
<1> QED BY <1>1, <1>2, <1>3 DEF handle_send

LEMMA ConnectStep ==
  ASSUME NetInv, handle_connect
  PROVE  NetStep
<1> DEFINE syn(s) == [sockets EXCEPT ![s] = [st |-> "SynSent", rx |-> << >>]]
           columns(s) == [op |-> "Connect", socket |-> s, buf |-> "bad", len |-> 0]
<1>1. CASE Done(ERR, sockets)
  BY <1>1, PlainDone, SocketsTyped
<1>2. ASSUME NEW s \in Tcp
      PROVE  syn(s) \in SocketTable /\ KeepsSockets(sockets, syn(s)) /\ syn(s)[s].st # "None"
  <2>1. [st |-> "SynSent", rx |-> << >>] \in Socket
    BY FreshSocket DEF SocketState
  <2>2. sockets \in SocketTable /\ s \in Handles
    BY SocketsTyped DEF Handles
  <2> QED BY <2>1, <2>2, SetSocket DEF SocketTable
<1>3. ASSUME NEW s \in Tcp, NEW sk \in Polled(syn(s))
      PROVE  sk \in SocketTable /\ KeepsSockets(sockets, sk) /\ Parked(columns(s), sk)
  <2> HIDE DEF syn
  <2>1. sk \in SocketTable /\ KeepsSockets(syn(s), sk)
    BY <1>2, PolledLemma
  <2>2. s \in Handles /\ sk[s].st # "None"
    BY <1>2, <2>1 DEF KeepsSockets, Handles
  <2>3. columns(s) \in Columns
    BY Numbers DEF Columns
  <2> QED BY <1>2, <2>1, <2>2, <2>3, KeepsTrans DEF Parked
<1>4. CASE \E s \in Tcp : \E sk \in Polled(syn(s)) : Done(0, sk) \/ Done(ERR, sk)
  <2> HIDE DEF syn
  <2> QED BY <1>3, <1>4, SocketsTyped, DoneStep
<1>5. CASE \E s \in Tcp : \E sk \in Polled(syn(s)) : Blocked(columns(s), sk)
  <2> HIDE DEF syn, columns
  <2>1. mode = "user"
    BY DEF handle_connect, Request, Ecall
  <2> QED BY <1>3, <1>5, <2>1, BlockedStep
<1> QED BY <1>1, <1>4, <1>5 DEF handle_connect

LEMMA RecvStep ==
  ASSUME NetInv, handle_recv
  PROVE  NetStep
<1> DEFINE columns(s, b, n) == [op |-> "Recv", socket |-> s, buf |-> b, len |-> n]
           attempt(sk, s, n) == try_recv_once(sk, s, n)
<1>1. CASE Done(ERR, sockets)
  BY <1>1, PlainDone, SocketsTyped
<1>2. CASE \E sk \in Polled(sockets) : Done(ERR, sk)
  BY <1>2, SocketsTyped, PolledLemma, DoneStep
<1>3. CASE \E s \in HandleArgs, len \in LengthArgs, buf \in {"ok", "bad"} :
             /\ len > 0 /\ len <= STAGING_SIZE /\ Exists(s)
             /\ \E sk \in Polled(sockets) :
                  \/ /\ attempt(sk, s, len).kind # "Empty"
                     /\ Done(copied(attempt(sk, s, len), buf),
                             [sk EXCEPT ![s] = attempt(sk, s, len).so])
                  \/ Blocked(columns(s, buf, len), sk)
  <2>1. PICK s \in HandleArgs, len \in LengthArgs, buf \in {"ok", "bad"} :
             /\ len > 0 /\ len <= STAGING_SIZE /\ Exists(s)
             /\ \E sk \in Polled(sockets) :
                  \/ /\ attempt(sk, s, len).kind # "Empty"
                     /\ Done(copied(attempt(sk, s, len), buf),
                             [sk EXCEPT ![s] = attempt(sk, s, len).so])
                  \/ Blocked(columns(s, buf, len), sk)
    BY <1>3
  <2>2. PICK sk \in Polled(sockets) :
             \/ /\ attempt(sk, s, len).kind # "Empty"
                /\ Done(copied(attempt(sk, s, len), buf), [sk EXCEPT ![s] = attempt(sk, s, len).so])
             \/ Blocked(columns(s, buf, len), sk)
    BY <2>1
  <2> DEFINE a == attempt(sk, s, len)
  <2>3. s \in Handles /\ len \in 1 .. STAGING_SIZE
    BY <2>1, SocketsTyped, NetAssumption, Numbers
  <2>4. sk \in SocketTable /\ KeepsSockets(sockets, sk) /\ sk[s].st # "None"
    BY <2>1, SocketsTyped, PolledLemma DEF KeepsSockets
  <2>5. /\ a.so \in Socket /\ a.so.st # "None"
        /\ \/ a.kind = "Empty"
           \/ a.kind = "Data" /\ a.n \in Nat
           \/ a.kind = "Err"
    <3>1. /\ a.so \in Socket /\ a.so.st = sk[s].st
          /\ \/ a.kind = "Empty"
             \/ a.kind = "Data" /\ a.n \in 1 .. len
             \/ a.kind = "Err"
             \/ a.kind = "Data" /\ Len(sk[s].rx) > 0 /\ a.n = sk[s].rx[1]
      BY <2>3, <2>4, AttemptLemma
    <3>2. sk[s].rx \in Seq(0 .. LongestDatagram) /\ Len(sk[s].rx) \in Nat
      BY <2>3, <2>4, SocketLen DEF SocketTable
    <3>3. Len(sk[s].rx) > 0 => sk[s].rx[1] \in 0 .. LongestDatagram
      <4>1. Len(sk[s].rx) > 0 => 1 \in 1 .. Len(sk[s].rx)
        BY <3>2
      <4> QED BY <3>2, <4>1, ElementOfSeq
    <3> HIDE DEF a
    <3>4. \A n : n \in 1 .. len \/ n \in 0 .. LongestDatagram => n \in Nat
      BY <2>3, Numbers
    <3> QED BY <2>4, <3>1, <3>3, <3>4
  <2> HIDE DEF attempt
  <2>6. CASE a.kind # "Empty" /\ Done(copied(a, buf), [sk EXCEPT ![s] = a.so])
    <3>1. copied(a, buf) \in Int
      BY <2>3, <2>5, <2>6, Numbers DEF copied
    <3>2. /\ [sk EXCEPT ![s] = a.so] \in SocketTable
          /\ KeepsSockets(sockets, [sk EXCEPT ![s] = a.so])
      BY <2>3, <2>4, <2>5, SetSocket, KeepsTrans
    <3> QED BY <2>6, <3>1, <3>2, DoneStep
  <2>7. CASE Blocked(columns(s, buf, len), sk)
    <3>1. mode = "user"
      BY DEF handle_recv, Request, Ecall
    <3>2. Parked(columns(s, buf, len), sk)
      BY <2>1, <2>3, <2>4, Numbers DEF Parked, Columns, Handles
    <3> HIDE DEF columns
    <3> QED BY <2>4, <2>7, <3>1, <3>2, BlockedStep
  <2> QED BY <2>2, <2>6, <2>7
<1>4. PICK s \in HandleArgs, len \in LengthArgs, buf \in {"ok", "bad"} :
        \/ Done(ERR, sockets)
        \/ /\ len > 0 /\ len <= STAGING_SIZE
           /\ \E sk \in Polled(sockets) :
                \/ Done(ERR, sk)
                \/ /\ Exists(s)
                   /\ \/ /\ attempt(sk, s, len).kind # "Empty"
                         /\ Done(copied(attempt(sk, s, len), buf),
                                 [sk EXCEPT ![s] = attempt(sk, s, len).so])
                      \/ Blocked(columns(s, buf, len), sk)
  <2>1. PICK s \in HandleArgs, len \in LengthArgs, buf \in {"ok", "bad"} :
          \/ (len = 0 \/ len > STAGING_SIZE) /\ Done(ERR, sockets)
          \/ /\ len > 0 /\ len <= STAGING_SIZE
             /\ \E sk \in Polled(sockets) :
                  \/ ~Exists(s) /\ Done(ERR, sk)
                  \/ /\ Exists(s)
                     /\ \/ /\ attempt(sk, s, len).kind # "Empty"
                           /\ Done(copied(attempt(sk, s, len), buf),
                                   [sk EXCEPT ![s] = attempt(sk, s, len).so])
                        \/ /\ attempt(sk, s, len).kind = "Empty"
                           /\ Blocked(columns(s, buf, len), sk)
    BY DEF handle_recv
  <2> HIDE DEF columns, attempt
  <2> QED BY <2>1, Zenon
<1> HIDE DEF columns, attempt
<1> QED BY <1>1, <1>2, <1>3, <1>4, Zenon

LEMMA RequestStep ==
  ASSUME NetInv, handle_request
  PROVE  NetStep
  BY SimpleStep, SocketTcpStep, SocketUdpStep, BindStep, ListenStep, CloseStep, SendStep,
     ConnectStep, RecvStep
  DEF handle_request

----------------------------------------------------------------------------
(* The timer, the device and the end of a process. *)

(* Once the scheduler has run on woken tables, every step is one of NetStep. *)
LEMMA WokenStep ==
  ASSUME NetInv, NEW sk \in Polled(sockets), KeepsSockets(sockets, sk),
         NEW k, NEW n, Woken(k, n, sk), net' = k.net, sockets' = k.sockets,
         Dispatches(k.state, k.context), UNCHANGED <<TCP_ALLOC_COUNT, UDP_ALLOC_COUNT>>
  PROVE  NetStep
<1>1. k \in Tables /\ k.net \in [PIDs -> Columns] /\ k.sockets \in SocketTable
  BY DEF Woken, Tables
<1>2. NetTypes'
  BY <1>1 DEF NetInv, NetTypes
<1>3. KeepsSockets(sockets, sockets')
  BY DEF Woken, Drained, Less, KeepsSockets
<1>4. ASSUME NEW p \in PIDs
      PROVE  (Stays(p) \/ Goes(p)) /\ (Wakes(p) => OwnResult(p, sk))
  <2>1. /\ state'[p] = "BlockedNet" <=> k.state[p] = "BlockedNet"
        /\ k.state[p] = "Ready" => registers(p)' = k.context[p]
    BY DEF Dispatches
  <2>2. CASE Untouched(k, p)
    BY <2>1, <2>2 DEF Untouched, Stays, Wakes
  <2>3. CASE Completed(k, p, sk)
    <3>1. registers(p)'.a0 = k.context[p].a0
      BY <2>1, <2>3 DEF Completed
    <3>2. Place(p) = 1 + Cardinality(Ahead(k, p))
      <4>1. \A q \in PIDs : state'[q] = "BlockedNet" <=> k.state[q] = "BlockedNet"
        BY DEF Dispatches
      <4>2. Ahead(k, p) = {q \in PIDs : /\ q < p /\ Wakes(q) /\ net[q].op = "Recv"
                                        /\ net[q].socket = net[p].socket}
        BY <4>1 DEF Ahead, Takers, Wakes
      <4> QED BY <4>2 DEF Place
    <3>3. IsResult(net[p], registers(p)'.a0, Place(p), sk[net[p].socket].rx, sockets'[net[p].socket])
      BY <2>3, <3>1, <3>2 DEF Completed
    <3>4. OwnResult(p, sk)
      BY <3>3, Zenon DEF IsResult, OwnResult
    <3> QED BY <2>1, <2>3, <3>4 DEF Completed, Goes
  <2> QED BY <2>2, <2>3 DEF Woken
<1>5. OwnResults
  BY <1>4 DEF OwnResults
<1> QED BY <1>2, <1>3, <1>4, <1>5 DEF NetStep, Dispatches

(* What a poll leaves: woken tables, in which the running process still runs. *)
LEMMA AfterPollLemma ==
  ASSUME NetInv, NEW polls, NEW k \in AfterPoll(polls)
  PROVE  /\ \E sk \in Polled(sockets), n \in Int : KeepsSockets(sockets, sk) /\ Woken(k, n, sk)
         /\ k.state \in StateTable /\ k.context \in ContextTable
         /\ mode = "user" => CURRENT_PID \in PIDs /\ k.state[CURRENT_PID] = "Running"
<1>1. ASSUME NEW sk \in SocketTable
      PROVE  Start(sk) \in Tables
  BY DEF Start, Tables, NetInv, KernelTypes, NetTypes
<1>2. MAX_PROCS - 1 \in Int /\ sockets \in SocketTable /\ KeepsSockets(sockets, sockets)
  BY ProcessAssumption DEF NetInv, NetTypes, KeepsSockets
<1>3. \E sk \in Polled(sockets), n \in Int : KeepsSockets(sockets, sk) /\ Woken(k, n, sk)
  <2>1. CASE polls
    <3>1. PICK sk \in Polled(sockets) : k = wake_blocked(sk)
      BY <2>1 DEF AfterPoll
    <3>2. sk \in SocketTable /\ KeepsSockets(sockets, sk)
      BY <1>2, PolledLemma
    <3> QED BY <1>1, <1>2, <3>1, <3>2, WakeBlockedLemma DEF NetInv
  <2>2. CASE ~polls
    <3>1. k = Start(sockets)
      BY <2>2 DEF AfterPoll, Start
    <3>2. Woken(Start(sockets), MAX_PROCS - 1, sockets)
      BY <1>1, <1>2, StartLemma
    <3>3. sockets \in Polled(sockets)
      BY <1>2, PolledSelf
    <3> QED BY <1>2, <3>1, <3>2, <3>3
  <2> QED BY <2>1, <2>2
<1>4. k.state \in StateTable /\ k.context \in ContextTable
  BY <1>3 DEF Woken, Tables, StateTable, ContextTable
<1>5. ASSUME mode = "user"
      PROVE  CURRENT_PID \in PIDs /\ k.state[CURRENT_PID] = "Running"
  BY <1>3, <1>5 DEF Woken, Untouched, Completed, NetInv, UserRuns
<1> QED BY <1>3, <1>4, <1>5

LEMMA TimerStep ==
  ASSUME NetInv, net_handle_timer
  PROVE  NetStep
<1>1. PICK k \in AfterPoll(PollsNow) :
        /\ net' = k.net /\ sockets' = k.sockets
        /\ \/ mode = "user" /\ preempt(k.state, k.context)
           \/ /\ mode \in {"kernel_idle", "post_process_exit"}
              /\ schedule_from_idle(k.state, k.context)
  BY DEF net_handle_timer
<1>2. Dispatches(k.state, k.context)
  BY <1>1, AfterPollLemma, PreemptLemma, IdleLemma DEF NetInv
<1>3. UNCHANGED <<TCP_ALLOC_COUNT, UDP_ALLOC_COUNT>>
  BY DEF net_handle_timer
<1> QED BY <1>1, <1>2, <1>3, AfterPollLemma, WokenStep

LEMMA ExternalStep ==
  ASSUME NetInv, net_handle_external
  PROVE  NetStep
<1>1. PICK k \in AfterPoll(TRUE) :
        /\ state' = k.state /\ context' = k.context
        /\ net' = k.net /\ sockets' = k.sockets
  BY DEF net_handle_external
<1>2. UNCHANGED <<CURRENT_PID, frame, mode>> /\ UNCHANGED <<TCP_ALLOC_COUNT, UDP_ALLOC_COUNT>>
  BY DEF net_handle_external
<1>3. Dispatches(k.state, k.context)
  BY <1>1, <1>2, AfterPollLemma, StayLemma DEF NetInv
<1> QED BY <1>1, <1>2, <1>3, AfterPollLemma, WokenStep

(* The end of the running process parks and releases nobody. *)
LEMMA TerminateStep ==
  ASSUME NetInv, mode = "user", NEW f \in Regs, NEW code \in Int, NEW last,
         terminate(f, code, last),
         net' = [net EXCEPT ![CURRENT_PID] = no_net_op],
         UNCHANGED <<sockets, TCP_ALLOC_COUNT, UDP_ALLOC_COUNT>>
  PROVE  NetStep
<1> DEFINE c == CURRENT_PID
           st == [p \in PIDs |-> IF p = c THEN "Free"
                                 ELSE IF Waiter(c, p) THEN "Ready" ELSE state[p]]
           ctx == [p \in PIDs |-> IF p # c /\ Waiter(c, p)
                                  THEN [context[p] EXCEPT !.a0 = code] ELSE context[p]]
<1>1. c \in PIDs /\ state[c] = "Running"
  BY DEF NetInv, UserRuns
<1>2. st \in StateTable /\ \A p \in PIDs : st[p] = "BlockedNet" <=> state[p] = "BlockedNet"
  BY <1>1 DEF NetInv, KernelTypes, StateTable, ProcessState, Waiter
<1>3. ctx \in ContextTable
  <2>1. \A p \in PIDs : context[p] \in Regs /\ [context[p] EXCEPT !.a0 = code] \in Regs
    BY DEF NetInv, KernelTypes, Regs
  <2> QED BY <2>1 DEF ContextTable
<1>4. \/ \E next \in PIDs : LowestReady(st, next) /\ switch_to(st, ctx, next)
      \/ state' = st /\ context' = ctx /\ frame' \in Regs /\ mode' # "user"
  BY DEF terminate, enter_idle
<1> HIDE DEF st, ctx
<1>5. Dispatches(st, ctx)
  BY <1>2, <1>3, <1>4, SwitchLemma, KernelLemma DEF LowestReady
<1>6. ASSUME NEW p \in PIDs
      PROVE  Stays(p) \/ Goes(p)
  <2>1. state'[p] = "BlockedNet" <=> state[p] = "BlockedNet"
    BY <1>2, <1>5 DEF Dispatches
  <2>2. net \in [PIDs -> Columns]
    BY DEF NetInv, NetTypes
  <2> QED BY <1>1, <2>1, <2>2 DEF Stays, Goes
<1>7. NetTypes' /\ KeepsSockets(sockets, sockets')
  BY <1>1, Numbers DEF NetInv, NetTypes, KeepsSockets
<1>8. OwnResults
  BY <1>2, <1>5 DEF OwnResults, Wakes, Dispatches
<1> QED BY <1>5, <1>6, <1>7, <1>8 DEF NetStep, Dispatches

LEMMA ExitStep ==
  ASSUME NetInv, NetExit
  PROVE  NetStep
<1>1. PICK f \in Args(ExitCodes, {0}, {0}) : sys_exit(f)
  BY DEF NetExit, Exit
<1>2. mode = "user" /\ f \in Regs /\ f.a0 \in Int
  <2>1. ExitCodes \subseteq Int /\ {0} \subseteq Int
    BY KernelAssumption, ProcessAssumption DEF Word
  <2>2. f \in [a0 : ExitCodes, a1 : {0}, a2 : {0}]
    BY DEF Args
  <2> QED BY <2>1, <2>2 DEF NetExit, Exit, Ecall, Regs
<1>3. /\ net' = [net EXCEPT ![CURRENT_PID] = no_net_op]
      /\ UNCHANGED <<sockets, TCP_ALLOC_COUNT, UDP_ALLOC_COUNT>>
  BY DEF NetExit
<1> QED BY <1>1, <1>2, <1>3, TerminateStep DEF sys_exit

LEMMA FaultStep ==
  ASSUME NetInv, NetFault
  PROVE  NetStep
<1>1. PICK code \in FaultCodes : kill_current(frame, 128 + code)
  BY DEF NetFault, Fault
<1>2. mode = "user" /\ frame \in Regs /\ 128 + code \in Int
  BY KernelAssumption DEF NetFault, Fault, NetInv, KernelTypes
<1>3. CURRENT_PID # 0
  BY <1>2, ProcessAssumption DEF NetInv, UserRuns, PIDs
<1>4. /\ net' = [net EXCEPT ![CURRENT_PID] = no_net_op]
      /\ UNCHANGED <<sockets, TCP_ALLOC_COUNT, UDP_ALLOC_COUNT>>
  BY DEF NetFault
<1>5. terminate(frame, 128 + code, 0)
  BY <1>1, <1>3 DEF kill_current
<1> QED BY <1>2, <1>4, <1>5, TerminateStep

(* A step that changes neither the processes nor the server. *)
LEMMA QuietStep ==
  ASSUME NetInv, UNCHANGED net_vars, UNCHANGED <<state, context, frame, CURRENT_PID, mode>>
  PROVE  NetStep
<1>1. KernelTypes' /\ UserRuns' /\ NetTypes' /\ KeepsSockets(sockets, sockets')
  BY DEF NetInv, KernelTypes, UserRuns, NetTypes, KeepsSockets, net_vars
<1>2. OwnResults
  BY DEF OwnResults, Wakes
<1> QED BY <1>1, <1>2 DEF NetStep, Stays, net_vars

LEMMA EveryNetStep ==
  ASSUME NetInv, [NetNext]_all_vars
  PROVE  NetStep
<1>1. CASE UNCHANGED net_vars /\ Device
  BY <1>1, QuietStep DEF Device, raise, proc_vars, sched_vars
<1>2. CASE UNCHANGED all_vars
  BY <1>2, QuietStep DEF all_vars, vars, proc_vars, sched_vars
<1> QED BY <1>1, <1>2, RequestStep, TimerStep, ExternalStep, ExitStep, FaultStep DEF NetNext

LEMMA NetInitLemma == NetInit => NetInv
<1> SUFFICES ASSUME NetInit
             PROVE  NetInv
  OBVIOUS
<1>1. KernelTypes /\ UserRuns
  BY ProcessAssumption DEF NetInit, launch, KernelTypes, UserRuns, BootState, All, zero, Regs,
     ProcessState, PIDs
<1>2. no_socket \in Socket
  BY FreshSocket DEF no_socket, SocketState
<1>3. NetTypes
  BY <1>2, Numbers DEF NetInit, net_init, NetTypes, SocketTable, Handles
<1>4. ParkedHasOperation
  <2>1. \A p \in PIDs : net[p] = no_net_op /\ state[p] # "BlockedNet"
    BY DEF NetInit, net_init, launch, BootState
  <2> QED BY <2>1, Numbers DEF ParkedHasOperation
<1> QED BY <1>1, <1>3, <1>4 DEF NetInv

LEMMA NetInvariant == NetSpec => []NetInv
<1>1. NetInv /\ [NetNext]_all_vars => NetInv'
  BY EveryNetStep, NetStepKeeps
<1> QED BY <1>1, NetInitLemma, PTL DEF NetSpec

(***************************************************************************)
(* A process is in BlockedNet exactly while it has an operation, on a      *)
(* socket of the right kind that exists: for every number of processes and *)
(* sockets, whatever clients ask and the network does.                     *)
(***************************************************************************)
THEOREM ParkedProcesses == NetSpec => []ParkedHasOperation
<1>1. NetInv => ParkedHasOperation
  BY DEF NetInv
<1> QED BY <1>1, NetInvariant, PTL

(***************************************************************************)
(* wake_blocked hands every process the result of its own operation: one   *)
(* poll fills the queues, and each datagram goes to one process, in the    *)
(* order of their PIDs, whatever number of them waits on a socket, empty   *)
(* datagrams and bad buffers included.  The scheduler that runs next gives *)
(* the result to no other process.                                         *)
(***************************************************************************)
THEOREM ResultsAreOwn == NetSpec => ResultIsOwn
<1>1. NetInv /\ [NetNext]_all_vars =>
        [(\E p \in PIDs : Wakes(p)) =>
           \E sk \in Polled(sockets) : \A p \in PIDs : Wakes(p) => OwnResult(p, sk)]_all_vars
  BY EveryNetStep DEF NetStep, OwnResults
<1> QED BY <1>1, NetInvariant, PTL DEF NetSpec, ResultIsOwn

=============================================================================

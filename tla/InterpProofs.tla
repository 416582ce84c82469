---------------------------- MODULE InterpProofs ----------------------------
(***************************************************************************)
(* Type soundness of the WASM interpreter, for code of any length and      *)
(* stacks of any size: what validation says of an instruction is what the  *)
(* interpreter has when it comes to it.  The two constructs that the       *)
(* interpreter gets wrong, a loop with a result and a branch out to a loop *)
(* or to the function's own label, are excluded (Supported).               *)
(***************************************************************************)
EXTENDS Validated, DataLemmas

(* The code this module is about. *)
Supported == LoopResults \subseteq {0} /\ Targets \subseteq {"block", "inner_loop"}

----------------------------------------------------------------------------
(* What validation says of a body, one rule per instruction. *)

Entry == [kind : {"func", "block", "loop", "if", "else"}, height : Nat, results : {0, 1}, at : Nat]
ValidationState == [control : Seq(Entry), height : Nat, dead : BOOLEAN]
OpNames ==
  DOMAIN PlainOps \cup {"const", "local_get", "call", "block", "loop", "if", "else", "end", "br",
                        "br_if", "return", "unreachable"}
Instruction == [op : OpNames, arg : Nat]

Typed(cs, h, d) == [control |-> cs, height |-> h, dead |-> d]
OpenAt(s) == s.control[Len(s.control)]
Operands(s) == s.height - OpenAt(s).height
Complete(s) == s.dead \/ Operands(s) = OpenAt(s).results

PlainRule(ins, s, t) ==
  /\ ins.op \in DOMAIN PlainOps /\ ins.arg = 0 /\ ~s.dead
  /\ Operands(s) >= PlainOps[ins.op][1]
  /\ t = Typed(s.control, s.height - PlainOps[ins.op][1] + PlainOps[ins.op][2], FALSE)

PushRule(ins, s, t) ==
  /\ \/ ins.op = "const" /\ ins.arg = 1
     \/ ins.op = "local_get" /\ ins.arg = 0
  /\ ~s.dead
  /\ t = Typed(s.control, s.height + 1, FALSE)

CallRule(ins, s, t) ==
  /\ ins.op = "call" /\ ins.arg \in {0, 1} /\ ~s.dead
  /\ Operands(s) >= 1
  /\ t = Typed(s.control, s.height, FALSE)

(* The operands below a block. *)
Below(ins, s) == IF ins.op = "if" THEN s.height - 1 ELSE s.height

(* The block that ins opens, and the one that its else leaves. *)
NewEntry(ins, i, s) ==
  [kind |-> ins.op, height |-> Below(ins, s), results |-> ins.arg, at |-> i]
ElseEntry(e) == [e EXCEPT !.kind = "else"]

OpenRule(ins, i, s, t) ==
  /\ ins.op \in {"block", "loop", "if"} /\ ins.arg \in {0, 1} /\ ~s.dead
  /\ ins.op = "loop" => ins.arg = 0
  /\ ins.op = "if" => Operands(s) >= 1
  /\ t = Typed(Append(s.control, NewEntry(ins, i, s)), Below(ins, s), FALSE)

ElseRule(ins, s, t) ==
  /\ ins.op = "else" /\ OpenAt(s).kind = "if" /\ Complete(s)
  /\ t = Typed([s.control EXCEPT ![Len(s.control)] = ElseEntry(OpenAt(s))], OpenAt(s).height, FALSE)

EndRule(ins, s, t) ==
  /\ ins.op = "end" /\ Len(s.control) > 1 /\ Complete(s)
  /\ OpenAt(s).kind = "if" => OpenAt(s).results = 0
  /\ t = Typed(SubSeq(s.control, 1, Len(s.control) - 1),
               OpenAt(s).height + OpenAt(s).results, FALSE)

BranchRule(ins, s, t) ==
  /\ ins.op \in {"br", "br_if"} /\ ~s.dead
  /\ ins.arg \in 0 .. Len(s.control) - 2
  /\ LET target == s.control[Len(s.control) - ins.arg]
         carries == IF target.kind = "loop" THEN 0 ELSE target.results IN
     /\ target.kind = "loop" => ins.arg = 0
     /\ \/ /\ ins.op = "br" /\ Operands(s) >= carries
           /\ t = Typed(s.control, s.height, TRUE)
        \/ /\ ins.op = "br_if" /\ Operands(s) >= carries + 1
           /\ t = Typed(s.control, s.height - 1, FALSE)

LeaveRule(ins, s, t) ==
  /\ ins.op \in {"return", "unreachable"} /\ ~s.dead
  /\ ins.op = "return" => Operands(s) >= 1
  /\ t = Typed(s.control, s.height, TRUE)

Checks(ins, i, s, t) ==
  \/ PlainRule(ins, s, t) \/ PushRule(ins, s, t) \/ CallRule(ins, s, t)
  \/ OpenRule(ins, i, s, t) \/ ElseRule(ins, s, t) \/ EndRule(ins, s, t)
  \/ BranchRule(ins, s, t) \/ LeaveRule(ins, s, t)

Func == [kind |-> "func", height |-> 0, results |-> 1, at |-> 0]

(* The states ts that validation goes through along the instructions cs. *)
Validates(cs, ts) ==
  /\ cs \in Seq(Instruction) /\ ts \in Seq(ValidationState)
  /\ Len(ts) >= 1 /\ Len(ts) <= Len(cs) + 1
  /\ ts[1] = Typed(<<Func>>, 0, FALSE)
  /\ \A i \in 1 .. Len(ts) - 1 : Checks(cs[i], i, ts[i], ts[i + 1])

(* While a body is built, and when it is complete. *)
Building ==
  /\ Len(code) = Len(types) /\ types \in Seq(ValidationState) /\ here \in ValidationState
  /\ Validates(code, Append(types, here))

Body ==
  /\ Len(code) = Len(types) /\ Validates(code, types)
  /\ code[Len(code)].op = "end"
  /\ Len(types[Len(code)].control) = 1 /\ Complete(types[Len(code)])

----------------------------------------------------------------------------
(* What the open blocks of an instruction are. *)

Level(ts, i) == Len(ts[i].control)
OpenBlock(ts, i, k) == ts[i].control[k]

(* The k-th block that is open at instruction i was opened by instruction o, is what o made it,   *)
(* and has been open since.                                                                       *)
OpenedBy(cs, ts, i, k, o) ==
  /\ o \in 1 .. i - 1
  /\ Level(ts, o) = k - 1
  /\ \A l \in 1 .. k - 1 : OpenBlock(ts, o, l) = OpenBlock(ts, i, l)
  /\ OpenRule(cs[o], o, ts[o], ts[o + 1])
  /\ OpenBlock(ts, i, k) = NewEntry(cs[o], o, ts[o])
     \/ /\ OpenBlock(ts, i, k) = ElseEntry(NewEntry(cs[o], o, ts[o])) /\ cs[o].op = "if"
        /\ \E j \in o + 1 .. i - 1 : cs[j].op = "else" /\ Level(ts, j) = k
  /\ \A j \in o + 1 .. i : Level(ts, j) >= k /\ OpenBlock(ts, j, k).at = o

Nested(cs, ts, i) ==
  /\ Level(ts, i) \in Nat \ {0}
  /\ OpenBlock(ts, i, 1) = Func
  /\ \A k \in 2 .. Level(ts, i) : \E o \in Nat : OpenedBy(cs, ts, i, k, o)

----------------------------------------------------------------------------
(* What the interpreter has for each active call. *)

(* skip_to_end in the code cs. *)
EndAfter(cs, from) ==
  1 + CHOOSE j \in from .. Len(cs) :
        /\ 1 + Cardinality({i \in from .. j : cs[i].op \in {"block", "loop", "if"}})
             - Cardinality({i \in from .. j : cs[i].op = "end"}) = 0
        /\ \A k \in from .. j - 1 :
             1 + Cardinality({i \in from .. k : cs[i].op \in {"block", "loop", "if"}})
               - Cardinality({i \in from .. k : cs[i].op = "end"}) # 0

(* The label of an open block, in a frame whose operands start at depth. *)
LabelOf(cs, e, depth) ==
  IF e.kind = "loop" THEN label(e.at + 1, depth + e.height, 0, TRUE)
  ELSE label(EndAfter(cs, e.at + 1), depth + e.height, e.results, FALSE)

(* The frame f is at instruction p, its labels and its operands end at le and oe. *)
Matches(cs, ts, f, p, lbs, le, oe) ==
  /\ p \in 1 .. Len(cs) /\ ~ts[p].dead
  /\ le = f.label_base + Level(ts, p)
  /\ oe = f.stack_depth + ts[p].height
  /\ \A k \in 2 .. Level(ts, p) :
       lbs[f.label_base + k] = LabelOf(cs, OpenBlock(ts, p, k), f.stack_depth)

PcOf(m) == IF m = Len(frames) THEN pc ELSE frames[m + 1].return_pc
LabelsOf(m) == IF m = Len(frames) THEN Len(labels) ELSE frames[m + 1].label_base
OperandsOf(m) == IF m = Len(frames) THEN Len(stack) ELSE frames[m + 1].stack_depth + 1

FramesMatch ==
  /\ frames # << >>
  /\ frames[1].stack_depth = 0 /\ frames[1].label_base = 0
  /\ \A m \in 1 .. Len(frames) :
       /\ Matches(code, types, frames[m], PcOf(m), labels, LabelsOf(m), OperandsOf(m))
       /\ frames[m].locals_base = m - 1 /\ frames[m].local_count = 1
       /\ frames[m].result_count = 1
       /\ m < Len(frames) => types[PcOf(m)].height >= 1
  /\ \A l, m \in 1 .. Len(frames) : l <= m =>
       /\ frames[l].label_base <= frames[m].label_base
       /\ frames[l].stack_depth <= frames[m].stack_depth

(* What the callers had is still there. *)
CallerState == [stack : Seq(Val), labels : Seq(Label), local : Val, pc : Nat]

CallersSaved ==
  /\ saved \in Seq(CallerState) /\ Len(saved) = Len(frames) - 1
  /\ \A m \in 1 .. Len(saved) :
       /\ saved[m].stack = SubSeq(stack, 1, frames[m + 1].stack_depth)
       /\ saved[m].labels = SubSeq(labels, 1, frames[m + 1].label_base)
       /\ saved[m].local = locals[m - 1]
       /\ saved[m].pc = frames[m + 1].return_pc

MachineOK ==
  /\ pc \in Nat \ {0}
  /\ stack \in Seq(Val) /\ Len(stack) <= MAX_STACK
  /\ labels \in Seq(Label) /\ Len(labels) <= MAX_LABELS
  /\ frames \in Seq(CallFrame) /\ Len(frames) <= MAX_CALL_DEPTH
  /\ locals \in [0 .. MAX_LOCALS * MAX_CALL_DEPTH - 1 -> Val]
  /\ outcome \in Traps \cup {"running", "ok"}

(* The inductive invariant. *)
Sound ==
  /\ MachineOK
  /\ phase \in {"build", "ready", "run"}
  /\ phase = "build" => Building
  /\ phase # "build" => Body
  /\ phase # "run" => new /\ saved = << >>
  /\ Running => FramesMatch /\ CallersSaved
  /\ ValidCodeDoesNotTrap

----------------------------------------------------------------------------
(* Validation. *)

LEMMA StateTypes ==
  ASSUME NEW s \in ValidationState
  PROVE  /\ s.control \in Seq(Entry) /\ Len(s.control) \in Nat
         /\ s.height \in Nat /\ s.dead \in BOOLEAN
         /\ \A k \in 1 .. Len(s.control) : s.control[k] \in Entry
  BY DEF ValidationState

(* Every rule leaves the open blocks alone, opens one, closes one, or turns an if into its else. *)
LEMMA ControlChanges ==
  ASSUME NEW ins, NEW i, NEW s, NEW t, Checks(ins, i, s, t)
  PROVE  \/ t.control = s.control /\ ins.op \notin {"block", "loop", "if", "else", "end"}
         \/ OpenRule(ins, i, s, t)
         \/ ElseRule(ins, s, t)
         \/ EndRule(ins, s, t)
<1>1. CASE PlainRule(ins, s, t)
  <2>1. ins.op \notin {"block", "loop", "if", "else", "end"}
    BY <1>1 DEF PlainRule, PlainOps
  <2> QED BY <1>1, <2>1 DEF PlainRule, Typed
<1>2. CASE PushRule(ins, s, t)
  BY <1>2 DEF PushRule, Typed
<1>3. CASE CallRule(ins, s, t)
  BY <1>3 DEF CallRule, Typed
<1>4. CASE BranchRule(ins, s, t)
  BY <1>4 DEF BranchRule, Typed
<1>5. CASE LeaveRule(ins, s, t)
  BY <1>5 DEF LeaveRule, Typed
<1> QED BY <1>1, <1>2, <1>3, <1>4, <1>5 DEF Checks

(* What the open blocks are after an instruction, entry by entry. *)
LEMMA OpenedControl ==
  ASSUME NEW ins \in Instruction, NEW i \in Nat, NEW s \in ValidationState, NEW t,
         OpenRule(ins, i, s, t)
  PROVE  /\ Len(t.control) = Len(s.control) + 1
         /\ \A k \in 1 .. Len(s.control) : t.control[k] = s.control[k]
         /\ t.control[Len(s.control) + 1] = NewEntry(ins, i, s)
<1> DEFINE e == NewEntry(ins, i, s)
<1>1. s.control \in Seq(Entry) /\ Len(s.control) \in Nat
  BY StateTypes
<1>2. t = Typed(Append(s.control, e), Below(ins, s), FALSE)
  BY DEF OpenRule
<1>3. s.control \in Seq(Entry \cup {e}) /\ e \in Entry \cup {e}
  BY <1>1, SeqMonotonic
<1> HIDE DEF e
<1>4. /\ Len(Append(s.control, e)) = Len(s.control) + 1
      /\ \A k \in 1 .. Len(s.control) : Append(s.control, e)[k] = s.control[k]
      /\ Append(s.control, e)[Len(s.control) + 1] = e
  BY <1>3, AppendProperties
<1>5. t.control = Append(s.control, e)
  BY <1>2 DEF Typed
<1> QED BY <1>4, <1>5 DEF e

LEMMA ClosedControl ==
  ASSUME NEW ins, NEW s \in ValidationState, NEW t, EndRule(ins, s, t)
  PROVE  /\ Len(s.control) > 1 /\ Len(t.control) = Len(s.control) - 1
         /\ \A k \in 1 .. Len(s.control) - 1 : t.control[k] = s.control[k]
<1>1. s.control \in Seq(Entry) /\ Len(s.control) \in Nat /\ Len(s.control) > 1
  BY StateTypes DEF EndRule
<1>2. \A k \in 1 .. Len(s.control) - 1 : s.control[k] \in Entry
  BY StateTypes
<1>3. /\ Len(SubSeq(s.control, 1, Len(s.control) - 1)) = Len(s.control) - 1
      /\ \A k \in 1 .. Len(s.control) - 1 :
            SubSeq(s.control, 1, Len(s.control) - 1)[k] = s.control[k]
  BY <1>1, <1>2, SubSeqProperties
<1> QED BY <1>1, <1>3 DEF EndRule, Typed

LEMMA ElseControl ==
  ASSUME NEW ins, NEW s \in ValidationState, NEW t, ElseRule(ins, s, t), Len(s.control) >= 1
  PROVE  /\ Len(t.control) = Len(s.control)
         /\ \A k \in 1 .. Len(s.control) - 1 : t.control[k] = s.control[k]
         /\ t.control[Len(s.control)] = ElseEntry(OpenAt(s))
<1> DEFINE n == Len(s.control)
           e == ElseEntry(s.control[n])
<1>1. s.control \in Seq(Entry) /\ n \in Nat /\ n \in 1 .. n
  BY StateTypes
<1>2. s.control[n] \in Entry
  BY <1>1, StateTypes
<1>3. e \in Entry
  BY <1>2 DEF Entry, ElseEntry
<1>4. t.control = [s.control EXCEPT ![n] = e]
  BY DEF ElseRule, OpenAt, Typed
<1> HIDE DEF e
<1>5. /\ Len([s.control EXCEPT ![n] = e]) = n
      /\ \A k \in 1 .. n : [s.control EXCEPT ![n] = e][k] = IF k = n THEN e ELSE s.control[k]
  BY <1>1, <1>3, ExceptSeq
<1> QED BY <1>1, <1>4, <1>5 DEF OpenAt, e

(* How an instruction changes the open blocks. *)
Kept(ts, i, n) == \A l \in 1 .. n : OpenBlock(ts, i + 1, l) = OpenBlock(ts, i, l)

LEMMA ControlStep ==
  ASSUME NEW cs \in Seq(Instruction), NEW ts \in Seq(ValidationState),
         NEW i \in 1 .. Len(ts) - 1, i <= Len(cs), Level(ts, i) \in Nat \ {0},
         Checks(cs[i], i, ts[i], ts[i + 1])
  PROVE  \/ /\ Level(ts, i + 1) = Level(ts, i) /\ Kept(ts, i, Level(ts, i))
            /\ cs[i].op \notin {"block", "loop", "if", "else", "end"}
         \/ /\ OpenRule(cs[i], i, ts[i], ts[i + 1])
            /\ Level(ts, i + 1) = Level(ts, i) + 1 /\ Kept(ts, i, Level(ts, i))
            /\ OpenBlock(ts, i + 1, Level(ts, i) + 1) = NewEntry(cs[i], i, ts[i])
            /\ cs[i].op \in {"block", "loop", "if"}
         \/ /\ ElseRule(cs[i], ts[i], ts[i + 1])
            /\ Level(ts, i + 1) = Level(ts, i) /\ Kept(ts, i, Level(ts, i) - 1)
            /\ OpenBlock(ts, i, Level(ts, i)).kind = "if"
            /\ OpenBlock(ts, i + 1, Level(ts, i)) = ElseEntry(OpenBlock(ts, i, Level(ts, i)))
            /\ cs[i].op = "else"
         \/ /\ EndRule(cs[i], ts[i], ts[i + 1])
            /\ Level(ts, i) > 1
            /\ Level(ts, i + 1) = Level(ts, i) - 1 /\ Kept(ts, i, Level(ts, i) - 1)
            /\ cs[i].op = "end"
<1>1. PICK s \in ValidationState, t \in ValidationState, ins \in Instruction :
         s = ts[i] /\ t = ts[i + 1] /\ ins = cs[i]
  BY ElementOfSeq
<1>2. i \in Nat
  OBVIOUS
<1>3. Checks(ins, i, s, t) /\ Len(s.control) >= 1
  BY <1>1, StateTypes DEF Level
<1>4. CASE t.control = s.control /\ ins.op \notin {"block", "loop", "if", "else", "end"}
  BY <1>1, <1>4 DEF Level, OpenBlock, Kept
<1>5. CASE OpenRule(ins, i, s, t)
  <2>1. ins.op \in {"block", "loop", "if"}
    BY <1>5 DEF OpenRule
  <2>2. /\ Len(t.control) = Len(s.control) + 1
        /\ \A k \in 1 .. Len(s.control) : t.control[k] = s.control[k]
        /\ t.control[Len(s.control) + 1] = NewEntry(ins, i, s)
    BY <1>2, <1>5, OpenedControl, ZenonT(60)
  <2> QED BY <1>1, <1>5, <2>1, <2>2, Zenon DEF Level, OpenBlock, Kept
<1>6. CASE ElseRule(ins, s, t)
  <2>1. ins.op = "else" /\ OpenAt(s).kind = "if"
    BY <1>6 DEF ElseRule
  <2>2. /\ Len(t.control) = Len(s.control)
        /\ \A k \in 1 .. Len(s.control) - 1 : t.control[k] = s.control[k]
        /\ t.control[Len(s.control)] = ElseEntry(OpenAt(s))
    BY <1>3, <1>6, ElseControl
  <2> QED BY <1>1, <1>6, <2>1, <2>2, Zenon DEF Level, OpenBlock, Kept, OpenAt
<1>7. CASE EndRule(ins, s, t)
  <2>1. ins.op = "end"
    BY <1>7 DEF EndRule
  <2>2. /\ Len(s.control) > 1 /\ Len(t.control) = Len(s.control) - 1
        /\ \A k \in 1 .. Len(s.control) - 1 : t.control[k] = s.control[k]
    BY <1>7, ClosedControl
  <2> QED BY <1>1, <1>7, <2>1, <2>2, Zenon DEF Level, OpenBlock, Kept
<1> QED BY <1>3, <1>4, <1>5, <1>6, <1>7, ControlChanges

(* The blocks that an instruction leaves open stay what they are. *)
LEMMA StaysOpen ==
  ASSUME NEW cs, NEW ts, NEW i \in Nat, i >= 1, NEW k \in Nat, k >= 1, NEW o \in Nat,
         OpenedBy(cs, ts, i, k, o), Level(ts, i + 1) >= k, Kept(ts, i, k)
  PROVE  OpenedBy(cs, ts, i + 1, k, o)
<1>1. OpenBlock(ts, i + 1, k) = OpenBlock(ts, i, k)
  BY DEF Kept
<1>2. o \in 1 .. i /\ o \in 1 .. (i + 1) - 1 /\ i \in o + 1 .. i
  BY DEF OpenedBy
<1>3. \A l \in 1 .. k - 1 : OpenBlock(ts, o, l) = OpenBlock(ts, i + 1, l)
  BY DEF OpenedBy, Kept
<1>4. OpenBlock(ts, i + 1, k) = NewEntry(cs[o], o, ts[o])
      \/ /\ OpenBlock(ts, i + 1, k) = ElseEntry(NewEntry(cs[o], o, ts[o])) /\ cs[o].op = "if"
         /\ \E j \in o + 1 .. (i + 1) - 1 : cs[j].op = "else" /\ Level(ts, j) = k
  BY <1>1 DEF OpenedBy
<1>5. \A j \in o + 1 .. i + 1 : Level(ts, j) >= k /\ OpenBlock(ts, j, k).at = o
  <2> TAKE j \in o + 1 .. i + 1
  <2>1. CASE j = i + 1
    <3>1. OpenBlock(ts, i, k).at = o
      BY <1>2 DEF OpenedBy
    <3> QED BY <1>1, <2>1, <3>1
  <2>2. CASE j \in o + 1 .. i
    BY <2>2 DEF OpenedBy
  <2> QED BY <2>1, <2>2
<1> QED BY <1>2, <1>3, <1>4, <1>5 DEF OpenedBy

LEMMA NewlyOpened ==
  ASSUME NEW cs, NEW ts, NEW i \in Nat, i >= 1, NEW n \in Nat,
         n = Level(ts, i), Level(ts, i + 1) = n + 1, Kept(ts, i, n),
         OpenRule(cs[i], i, ts[i], ts[i + 1]),
         OpenBlock(ts, i + 1, n + 1) = NewEntry(cs[i], i, ts[i])
  PROVE  OpenedBy(cs, ts, i + 1, n + 1, i)
<1>1. NewEntry(cs[i], i, ts[i]).at = i
  BY DEF NewEntry
<1>2. \A j \in i + 1 .. i + 1 : Level(ts, j) >= n + 1 /\ OpenBlock(ts, j, n + 1).at = i
  BY <1>1
<1>3. \A l \in 1 .. (n + 1) - 1 : OpenBlock(ts, i, l) = OpenBlock(ts, i + 1, l)
  BY DEF Kept
<1>4. i \in 1 .. (i + 1) - 1 /\ Level(ts, i) = (n + 1) - 1
  OBVIOUS
<1> QED BY <1>2, <1>3, <1>4 DEF OpenedBy

(* ElseRule is for a block that is still an if. *)
LEMMA NewlyElse ==
  ASSUME NEW cs, NEW ts, NEW i \in Nat, i >= 1, NEW n \in Nat, n >= 2, NEW o \in Nat,
         n = Level(ts, i), Level(ts, i + 1) = n, Kept(ts, i, n - 1),
         OpenedBy(cs, ts, i, n, o), cs[i].op = "else",
         OpenBlock(ts, i, n).kind = "if",
         OpenBlock(ts, i + 1, n) = ElseEntry(OpenBlock(ts, i, n))
  PROVE  OpenedBy(cs, ts, i + 1, n, o)
<1> DEFINE e == NewEntry(cs[o], o, ts[o])
<1>1. ElseEntry(e).kind = "else" /\ ElseEntry(e).at = o /\ e.kind = cs[o].op
  BY DEF NewEntry, ElseEntry
<1> HIDE DEF e
<1>2. OpenBlock(ts, i, n) = e /\ cs[o].op = "if"
  BY <1>1 DEF OpenedBy, e
<1>3. o \in 1 .. i - 1 /\ o \in 1 .. (i + 1) - 1 /\ i \in o + 1 .. (i + 1) - 1
  BY DEF OpenedBy
<1>4. \E j \in o + 1 .. (i + 1) - 1 : cs[j].op = "else" /\ Level(ts, j) = n
  BY <1>3
<1>5. OpenBlock(ts, i + 1, n) = ElseEntry(NewEntry(cs[o], o, ts[o]))
  BY <1>2 DEF e
<1>6. \A l \in 1 .. n - 1 : OpenBlock(ts, o, l) = OpenBlock(ts, i + 1, l)
  BY DEF OpenedBy, Kept
<1>7. \A j \in o + 1 .. i + 1 : Level(ts, j) >= n /\ OpenBlock(ts, j, n).at = o
  <2> TAKE j \in o + 1 .. i + 1
  <2>1. CASE j = i + 1
    BY <1>1, <1>2, <2>1
  <2>2. CASE j \in o + 1 .. i
    BY <2>2 DEF OpenedBy
  <2> QED BY <1>3, <2>1, <2>2
<1>8. Level(ts, o) = n - 1 /\ OpenRule(cs[o], o, ts[o], ts[o + 1])
  BY DEF OpenedBy
<1> QED BY <1>2, <1>3, <1>4, <1>5, <1>6, <1>7, <1>8 DEF OpenedBy

LEMMA NestedStep ==
  ASSUME NEW cs \in Seq(Instruction), NEW ts \in Seq(ValidationState),
         NEW i \in 1 .. Len(ts) - 1, i <= Len(cs),
         Checks(cs[i], i, ts[i], ts[i + 1]), Nested(cs, ts, i)
  PROVE  Nested(cs, ts, i + 1)
<1>1. PICK n \in Nat \ {0} : n = Level(ts, i)
  BY DEF Nested
<1>2. i \in Nat /\ i >= 1
  OBVIOUS
<1>3. OpenBlock(ts, i, 1) = Func /\ \A k \in 2 .. n : \E o \in Nat : OpenedBy(cs, ts, i, k, o)
  BY <1>1 DEF Nested
<1>4. ASSUME NEW m \in 1 .. n, NEW k \in 2 .. m, Level(ts, i + 1) >= m, Kept(ts, i, m),
             Level(ts, i + 1) \in Nat
      PROVE  \E o \in Nat : OpenedBy(cs, ts, i + 1, k, o)
  <2>1. PICK o \in Nat : OpenedBy(cs, ts, i, k, o)
    BY <1>1, <1>3
  <2>2. Level(ts, i + 1) >= k /\ Kept(ts, i, k) /\ k \in Nat /\ k >= 1
    BY <1>1, <1>4 DEF Kept
  <2> QED BY <1>2, <2>1, <2>2, StaysOpen
<1>5. ASSUME NEW m \in 1 .. n, Kept(ts, i, m)
      PROVE  OpenBlock(ts, i + 1, 1) = Func
  BY <1>3, <1>5 DEF Kept
<1>6. CASE Level(ts, i + 1) = n /\ Kept(ts, i, n)
  BY <1>1, <1>4, <1>5, <1>6 DEF Nested
<1>7. CASE /\ OpenRule(cs[i], i, ts[i], ts[i + 1])
           /\ Level(ts, i + 1) = n + 1 /\ Kept(ts, i, n)
           /\ OpenBlock(ts, i + 1, n + 1) = NewEntry(cs[i], i, ts[i])
  <2>1. OpenedBy(cs, ts, i + 1, n + 1, i)
    BY <1>1, <1>2, <1>7, NewlyOpened
  <2>2. OpenBlock(ts, i + 1, 1) = Func
    BY <1>5, <1>7
  <2>3. ASSUME NEW k \in 2 .. n + 1
        PROVE  \E o \in Nat : OpenedBy(cs, ts, i + 1, k, o)
    <3>1. CASE k = n + 1
      BY <1>2, <2>1, <3>1
    <3>2. CASE k \in 2 .. n
      BY <1>4, <1>7, <3>2
    <3> QED BY <3>1, <3>2
  <2> QED BY <1>7, <2>2, <2>3, SMTT(30) DEF Nested
<1>8. CASE /\ Level(ts, i + 1) = n /\ Kept(ts, i, n - 1) /\ OpenBlock(ts, i, n).kind = "if"
           /\ OpenBlock(ts, i + 1, n) = ElseEntry(OpenBlock(ts, i, n)) /\ cs[i].op = "else"
  <2>1. n >= 2
    BY <1>3, <1>8 DEF Func
  <2>2. PICK o \in Nat : OpenedBy(cs, ts, i, n, o)
    BY <1>3, <2>1
  <2>3. OpenedBy(cs, ts, i + 1, n, o)
    BY <1>1, <1>2, <1>8, <2>1, <2>2, NewlyElse
  <2>4. OpenBlock(ts, i + 1, 1) = Func
    BY <1>5, <1>8, <2>1
  <2>5. ASSUME NEW k \in 2 .. n
        PROVE  \E oo \in Nat : OpenedBy(cs, ts, i + 1, k, oo)
    <3>1. CASE k = n
      BY <2>3, <3>1
    <3>2. CASE k \in 2 .. n - 1
      BY <1>4, <1>8, <3>2, <2>1
    <3> QED BY <3>1, <3>2
  <2> QED BY <1>8, <2>4, <2>5 DEF Nested
<1>9. CASE n > 1 /\ Level(ts, i + 1) = n - 1 /\ Kept(ts, i, n - 1)
  <2>1. OpenBlock(ts, i + 1, 1) = Func
    BY <1>5, <1>9
  <2>2. ASSUME NEW k \in 2 .. n - 1
        PROVE  \E o \in Nat : OpenedBy(cs, ts, i + 1, k, o)
    BY <1>4, <1>9, <2>2
  <2> QED BY <1>9, <2>1, <2>2 DEF Nested
<1> QED BY <1>1, <1>6, <1>7, <1>8, <1>9, ControlStep

(* The blocks around an instruction are those that were opened before it and not closed. *)
LEMMA BlocksNest ==
  ASSUME NEW cs, NEW ts, Validates(cs, ts)
  PROVE  \A i \in 1 .. Len(ts) : Nested(cs, ts, i)
<1> DEFINE N == Len(ts) - 1
           T == {n \in Nat : n + 1 \in 1 .. Len(ts) => Nested(cs, ts, n + 1)}
<1>1. /\ cs \in Seq(Instruction) /\ ts \in Seq(ValidationState)
      /\ Len(ts) \in Nat /\ Len(cs) \in Nat /\ Len(ts) >= 1 /\ Len(ts) <= Len(cs) + 1
      /\ ts[1] = Typed(<<Func>>, 0, FALSE)
      /\ \A i \in 1 .. Len(ts) - 1 : Checks(cs[i], i, ts[i], ts[i + 1])
  BY DEF Validates
<1>2. N \in Nat
  BY <1>1
<1>3. 0 \in T
  <2>1. ts[1].control = <<Func>>
    BY <1>1 DEF Typed
  <2>2. Len(<<Func>>) = 1 /\ <<Func>>[1] = Func
    OBVIOUS
  <2>3. Level(ts, 1) = 1 /\ OpenBlock(ts, 1, 1) = Func
    BY <2>1, <2>2, Zenon DEF Level, OpenBlock
  <2>4. Nested(cs, ts, 1)
    BY <2>3 DEF Nested
  <2> QED BY <2>4
<1>4. ASSUME NEW n \in 0 .. N - 1, n \in T
      PROVE  n + 1 \in T
  <2>1. n + 1 \in 1 .. Len(ts) - 1 /\ n + 1 <= Len(cs) /\ n + 1 \in 1 .. Len(ts)
        /\ n + 1 \in Nat
    BY <1>1
  <2>2. Nested(cs, ts, n + 1)
    BY <1>4, <2>1
  <2>3. Nested(cs, ts, (n + 1) + 1)
    BY <1>1, <2>1, <2>2, NestedStep
  <2> QED BY <2>1, <2>3
<1> HIDE DEF T
<1>5. 0 .. N \subseteq T
  BY <1>2, <1>3, <1>4, Upward
<1>6. ASSUME NEW i \in 1 .. Len(ts) PROVE Nested(cs, ts, i)
  <2>1. i - 1 \in 0 .. N /\ (i - 1) + 1 = i
    BY <1>1
  <2> QED BY <1>5, <2>1 DEF T
<1> QED BY <1>6

----------------------------------------------------------------------------
(* Where blocks end. *)

LEMMA BodyFacts ==
  ASSUME Body
  PROVE  /\ code \in Seq(Instruction) /\ types \in Seq(ValidationState)
         /\ Len(code) = Len(types) /\ Len(code) \in Nat \ {0}
         /\ \A i \in 1 .. Len(code) : /\ code[i] \in Instruction /\ types[i] \in ValidationState
                                      /\ Nested(code, types, i)
         /\ \A i \in 1 .. Len(code) - 1 : Checks(code[i], i, types[i], types[i + 1])
         /\ code[Len(code)].op = "end" /\ Level(types, Len(code)) = 1
         /\ Complete(types[Len(code)])
<1>1. /\ code \in Seq(Instruction) /\ types \in Seq(ValidationState)
      /\ Len(code) = Len(types) /\ Len(code) \in Nat \ {0}
      /\ \A i \in 1 .. Len(code) - 1 : Checks(code[i], i, types[i], types[i + 1])
      /\ code[Len(code)].op = "end" /\ Level(types, Len(code)) = 1
      /\ Complete(types[Len(code)])
  <2>1. /\ code \in Seq(Instruction) /\ types \in Seq(ValidationState)
        /\ Len(code) = Len(types) /\ Len(types) >= 1
        /\ \A i \in 1 .. Len(types) - 1 : Checks(code[i], i, types[i], types[i + 1])
    BY DEF Body, Validates
  <2>2. Len(code) \in Nat \ {0}
    BY <2>1, LenProperties
  <2>3. code[Len(code)].op = "end" /\ Level(types, Len(code)) = 1 /\ Complete(types[Len(code)])
    BY DEF Body, Level
  <2> QED BY <2>1, <2>2, <2>3
<1>2. \A i \in 1 .. Len(code) : Nested(code, types, i)
  BY <1>1, BlocksNest DEF Body
<1>3. \A i \in 1 .. Len(code) : code[i] \in Instruction /\ types[i] \in ValidationState
  BY <1>1, ElementOfSeq
<1> QED BY <1>1, <1>2, <1>3

LEMMA LevelTypes ==
  ASSUME Body
  PROVE  \A i \in 1 .. Len(code) : Level(types, i) \in Nat \ {0}
  BY BodyFacts DEF Nested

LEMMA BodyStep ==
  ASSUME Body, NEW i \in 1 .. Len(code) - 1
  PROVE  \/ /\ Level(types, i + 1) = Level(types, i) /\ Kept(types, i, Level(types, i))
            /\ code[i].op \notin {"block", "loop", "if", "else", "end"}
         \/ /\ OpenRule(code[i], i, types[i], types[i + 1])
            /\ Level(types, i + 1) = Level(types, i) + 1 /\ Kept(types, i, Level(types, i))
            /\ OpenBlock(types, i + 1, Level(types, i) + 1) = NewEntry(code[i], i, types[i])
            /\ code[i].op \in {"block", "loop", "if"}
         \/ /\ ElseRule(code[i], types[i], types[i + 1])
            /\ Level(types, i + 1) = Level(types, i) /\ Kept(types, i, Level(types, i) - 1)
            /\ OpenBlock(types, i, Level(types, i)).kind = "if"
            /\ OpenBlock(types, i + 1, Level(types, i)) = ElseEntry(OpenBlock(types, i, Level(types, i)))
            /\ code[i].op = "else"
         \/ /\ EndRule(code[i], types[i], types[i + 1])
            /\ Level(types, i) > 1
            /\ Level(types, i + 1) = Level(types, i) - 1 /\ Kept(types, i, Level(types, i) - 1)
            /\ code[i].op = "end"
<1>1. /\ code \in Seq(Instruction) /\ types \in Seq(ValidationState)
      /\ Len(code) = Len(types) /\ Len(code) \in Nat
      /\ Checks(code[i], i, types[i], types[i + 1])
  BY BodyFacts
<1>2. i \in 1 .. Len(types) - 1 /\ i <= Len(code) /\ i \in 1 .. Len(code)
  BY <1>1
<1>3. Level(types, i) \in Nat \ {0}
  BY <1>2, LevelTypes
<1> HIDE DEF Body
<1> QED BY <1>1, <1>2, <1>3, ControlStep, Zenon

(* The level changes by what Depth counts. *)
LEMMA LevelStep ==
  ASSUME Body, NEW i \in 1 .. Len(code) - 1
  PROVE  Level(types, i + 1) = Level(types, i) + (IF Opens(i) THEN 1 ELSE 0)
                                               - (IF code[i].op = "end" THEN 1 ELSE 0)
<1>1. Len(code) \in Nat /\ i \in 1 .. Len(code)
  BY BodyFacts
<1>2. Level(types, i) \in Nat
  BY <1>1, LevelTypes
<1> QED BY <1>2, BodyStep DEF Opens

CountIn(S, a, b) == Cardinality({i \in a .. b : i \in S})

LEMMA CountNext ==
  ASSUME NEW S, NEW a \in Int, NEW b \in Int, a <= b
  PROVE  /\ CountIn(S, a, b - 1) \in Nat
         /\ b \in S => CountIn(S, a, b) = CountIn(S, a, b - 1) + 1
         /\ b \notin S => CountIn(S, a, b) = CountIn(S, a, b - 1)
<1> DEFINE B == {i \in a .. b - 1 : i \in S}
<1>1. IsFiniteSet(B)
  <2>1. IsFiniteSet(a .. b - 1)
    BY FS_Interval
  <2> QED BY <2>1, FS_Subset
<1>2. Cardinality(B) \in Nat
  BY <1>1, FS_CardinalityType
<1>3. CASE b \in S
  <2>1. {i \in a .. b : i \in S} = B \cup {b} /\ b \notin B
    BY <1>3
  <2>2. Cardinality(B \cup {b}) = Cardinality(B) + 1
    <3> HIDE DEF B
    <3> QED BY <1>1, <2>1, FS_AddElement
  <2> QED BY <1>2, <1>3, <2>1, <2>2, Zenon DEF CountIn
<1>4. CASE b \notin S
  <2>1. {i \in a .. b : i \in S} = B
    BY <1>4
  <2> QED BY <1>2, <1>4, <2>1, Zenon DEF CountIn
<1> QED BY <1>3, <1>4

(* skip_to_end counts the levels. *)
LEMMA DepthIsLevel ==
  ASSUME Body, NEW o \in 1 .. Len(code) - 1, NEW j \in o .. Len(code) - 1
  PROVE  Depth(o + 1, j) = 1 + Level(types, j + 1) - Level(types, o + 1)
<1> DEFINE A == {i \in Nat : Opens(i)}
           E == {i \in Nat : code[i].op = "end"}
           CA(b) == CountIn(A, o + 1, b)
           CE(b) == CountIn(E, o + 1, b)
           N == (Len(code) - 1) - o
           T == {n \in Nat : o + n \in o .. Len(code) - 1 =>
                   /\ CA(o + n) \in Nat /\ CE(o + n) \in Nat
                   /\ CA(o + n) + Level(types, o + 1) = CE(o + n) + Level(types, (o + n) + 1)}
<1>1. Len(code) \in Nat /\ o \in Nat /\ N \in Nat /\ o + 1 \in Int
  BY BodyFacts
<1>2. Level(types, o + 1) \in Nat
  BY <1>1, LevelTypes
<1>3. 0 \in T
  <2>1. {i \in o + 1 .. o + 0 : i \in A} = {} /\ {i \in o + 1 .. o + 0 : i \in E} = {}
    BY <1>1
  <2>2. CA(o + 0) = 0 /\ CE(o + 0) = 0
    <3> HIDE DEF A, E
    <3> QED BY <2>1, FS_EmptySet, Zenon DEF CountIn
  <2>3. (o + 0) + 1 = o + 1
    BY <1>1
  <2> HIDE DEF CA, CE
  <2> QED BY <1>2, <2>2, <2>3
<1>4. ASSUME NEW n \in 0 .. N - 1, n \in T
      PROVE  n + 1 \in T
  <2>1. PICK b \in Int : b = o + (n + 1)
    BY <1>1
  <2>2. b \in 1 .. Len(code) - 1 /\ o + 1 <= b /\ b - 1 = o + n /\ n \in Nat /\ b \in Nat
        /\ o + n \in o .. Len(code) - 1 /\ (b - 1) + 1 = b /\ b \in 1 .. Len(code)
    BY <1>1, <2>1
  <2>3. /\ CA(b - 1) \in Nat /\ (b \in A => CA(b) = CA(b - 1) + 1)
        /\ (b \notin A => CA(b) = CA(b - 1))
    <3> HIDE DEF A
    <3> QED BY <1>1, <2>2, CountNext
  <2>4. /\ CE(b - 1) \in Nat /\ (b \in E => CE(b) = CE(b - 1) + 1)
        /\ (b \notin E => CE(b) = CE(b - 1))
    <3> HIDE DEF E
    <3> QED BY <1>1, <2>2, CountNext
  <2>5. (b \in A <=> Opens(b)) /\ (b \in E <=> code[b].op = "end")
    BY <2>2
  <2>6. Level(types, b + 1) = Level(types, b) + (IF Opens(b) THEN 1 ELSE 0)
                                              - (IF code[b].op = "end" THEN 1 ELSE 0)
    BY <2>2, LevelStep
  <2>7. Level(types, b) \in Nat
    BY <2>2, LevelTypes
  <2> HIDE DEF CA, CE, A, E
  <2>8. CA(b - 1) + Level(types, o + 1) = CE(b - 1) + Level(types, b)
    BY <1>4, <2>2
  <2>9. CA(b) + Level(types, o + 1) = CE(b) + Level(types, b + 1)
    <3>1. CASE Opens(b)
      <4>1. code[b].op # "end"
        BY <3>1 DEF Opens
      <4>2. CA(b) = CA(b - 1) + 1 /\ CE(b) = CE(b - 1)
        BY <2>3, <2>4, <2>5, <3>1, <4>1
      <4>3. Level(types, b + 1) = Level(types, b) + 1
        BY <2>6, <2>7, <3>1, <4>1
      <4> QED BY <1>2, <2>3, <2>4, <2>7, <2>8, <4>2, <4>3, SMTT(30)
    <3>2. CASE ~Opens(b) /\ code[b].op = "end"
      <4>2. CA(b) = CA(b - 1) /\ CE(b) = CE(b - 1) + 1
        BY <2>3, <2>4, <2>5, <3>2
      <4>3. Level(types, b + 1) = Level(types, b) - 1
        BY <2>6, <2>7, <3>2
      <4> QED BY <1>2, <2>3, <2>4, <2>7, <2>8, <4>2, <4>3
    <3>3. CASE ~Opens(b) /\ code[b].op # "end"
      <4>2. CA(b) = CA(b - 1) /\ CE(b) = CE(b - 1)
        BY <2>3, <2>4, <2>5, <3>3
      <4>3. Level(types, b + 1) = Level(types, b)
        BY <2>6, <2>7, <3>3
      <4> QED BY <1>2, <2>3, <2>4, <2>7, <2>8, <4>2, <4>3
    <3> QED BY <3>1, <3>2, <3>3
  <2>10. CA(b) \in Nat /\ CE(b) \in Nat
    BY <2>3, <2>4
  <2> QED BY <1>1, <2>1, <2>2, <2>9, <2>10
<1>5. 0 .. N \subseteq T
  <2> HIDE DEF T, N
  <2> QED BY <1>1, <1>3, <1>4, Upward
<1>6. j - o \in 0 .. N /\ o + (j - o) = j /\ o + (j - o) \in o .. Len(code) - 1
  BY <1>1
<1>7. CA(j) \in Nat /\ CE(j) \in Nat /\ CA(j) + Level(types, o + 1) = CE(j) + Level(types, j + 1)
  <2> HIDE DEF CA, CE, N
  <2>1. j - o \in T
    BY <1>5, <1>6
  <2> QED BY <1>6, <2>1
<1>8. /\ {i \in o + 1 .. j : i \in A} = {i \in o + 1 .. j : Opens(i)}
      /\ {i \in o + 1 .. j : i \in E} = {i \in o + 1 .. j : code[i].op = "end"}
  BY <1>1
<1>9. Depth(o + 1, j) = 1 + CA(j) - CE(j)
  <2> HIDE DEF A, E
  <2> QED BY <1>8, Zenon DEF Depth, CountIn
<1>10. Level(types, j + 1) \in Nat
  BY <1>1, LevelTypes
<1> HIDE DEF CA, CE
<1> QED BY <1>2, <1>7, <1>9, <1>10

(* The instruction j closes the block that instruction o opens. *)
Closes(o, j) ==
  /\ j \in o + 1 .. Len(code) - 1
  /\ EndRule(code[j], types[j], types[j + 1])
  /\ Level(types, j) = Level(types, o) + 1 /\ Level(types, j + 1) = Level(types, o)
  /\ Kept(types, j, Level(types, o))
  /\ \A i \in o + 1 .. j : Level(types, i) >= Level(types, o) + 1

LEMMA ClosingExists ==
  ASSUME Body, NEW o \in 1 .. Len(code) - 1, Opens(o)
  PROVE  Level(types, o + 1) = Level(types, o) + 1 /\ \E j \in Nat : Closes(o, j)
<1> DEFINE n == Len(code)
           T == {j \in o + 1 .. n - 1 : Level(types, j + 1) < Level(types, o) + 1}
<1>1. n \in Nat /\ o \in 1 .. n /\ Level(types, n) = 1
  BY BodyFacts
<1>2. \A i \in 1 .. n : Level(types, i) \in Nat \ {0}
  BY LevelTypes
<1>3. Level(types, o + 1) = Level(types, o) + 1
  BY <1>1, <1>2, LevelStep, SMTT(30) DEF Opens
<1>4. o + 1 \in 1 .. n /\ o + 1 # n /\ n - 1 \in o + 1 .. n - 1 /\ (n - 1) + 1 = n
  BY <1>1, <1>2, <1>3
<1>5. n - 1 \in T
  <2>0. Level(types, (n - 1) + 1) = 1 /\ Level(types, o) \in Nat \ {0}
    BY <1>1, <1>2, <1>4, Zenon
  <2>1. Level(types, (n - 1) + 1) < Level(types, o) + 1
    BY <2>0
  <2> QED BY <1>4, <2>1
<1>6. T \subseteq Nat /\ T # {}
  <2>1. T \subseteq Nat
    BY <1>1
  <2> QED BY <1>5, <2>1
<1>7. PICK j \in T : \A i \in T : j <= i
  <2> HIDE DEF T
  <2> QED BY <1>6, LeastNumber
<1>8. j \in o + 1 .. n - 1 /\ j \in 1 .. n - 1 /\ j \in 1 .. n /\ Level(types, j + 1) < Level(types, o) + 1
      /\ j \in Nat
  BY <1>1, <1>7
<1>9. ASSUME NEW i \in o + 1 .. j
      PROVE  Level(types, i) >= Level(types, o) + 1
  <2>1. CASE i = o + 1
    BY <1>1, <1>2, <1>3, <2>1
  <2>2. CASE i > o + 1
    <3>1. i - 1 \in o + 1 .. n - 1 /\ (i - 1) + 1 = i /\ ~(j <= i - 1) /\ i \in 1 .. n
      BY <1>1, <1>8, <2>2
    <3>2. i - 1 \notin T
      BY <1>7, <3>1
    <3>3. ~(Level(types, i) < Level(types, o) + 1)
      BY <3>1, <3>2
    <3> QED BY <1>1, <1>2, <3>1, <3>3
  <2> QED BY <2>1, <2>2, <1>1
<1>10. Level(types, j) >= Level(types, o) + 1 /\ Level(types, j) \in Nat /\ Level(types, o) \in Nat
  BY <1>1, <1>2, <1>8, <1>9
<1>11. /\ EndRule(code[j], types[j], types[j + 1])
       /\ Level(types, j + 1) = Level(types, j) - 1 /\ Kept(types, j, Level(types, j) - 1)
  <2>1. ~(Level(types, j + 1) >= Level(types, j))
    BY <1>2, <1>8, <1>10
  <2> QED BY <1>8, <1>10, <2>1, BodyStep
<1>12. Level(types, j + 1) = Level(types, o) /\ Level(types, j) = Level(types, o) + 1
       /\ Level(types, j) - 1 = Level(types, o)
  BY <1>8, <1>10, <1>11
<1> QED BY <1>3, <1>8, <1>9, <1>11, <1>12 DEF Closes

(* skip_to_end finds it. *)
LEMMA SkipToEnd ==
  ASSUME Body, NEW o \in 1 .. Len(code) - 1, Opens(o), NEW j \in Nat, Closes(o, j)
  PROVE  skip_to_end(o + 1) = j + 1
<1> DEFINE First(i) == Depth(o + 1, i) = 0 /\ \A k \in o + 1 .. i - 1 : Depth(o + 1, k) # 0
<1>1. Len(code) \in Nat /\ \A i \in 1 .. Len(code) : Level(types, i) \in Nat \ {0}
  BY BodyFacts, LevelTypes
<1>2. Level(types, o + 1) = Level(types, o) + 1
  BY ClosingExists
<1>3. \A i \in o .. Len(code) - 1 : Depth(o + 1, i) = 1 + Level(types, i + 1) - Level(types, o + 1)
  BY DepthIsLevel
<1>4. j \in o + 1 .. Len(code) - 1 /\ Level(types, j + 1) = Level(types, o)
      /\ \A i \in o + 1 .. j : Level(types, i) >= Level(types, o) + 1
  BY DEF Closes
<1>5. Level(types, o) \in Nat
  BY <1>1
<1>6. Depth(o + 1, j) = 0
  <2>1. Depth(o + 1, j) = 1 + Level(types, j + 1) - Level(types, o + 1)
    BY <1>1, <1>3, <1>4
  <2> QED BY <1>2, <1>4, <1>5, <2>1
<1>7. ASSUME NEW k \in o + 1 .. j - 1
      PROVE  Depth(o + 1, k) # 0
  <2>1. k \in o .. Len(code) - 1 /\ k + 1 \in o + 1 .. j /\ k + 1 \in 1 .. Len(code)
    BY <1>1, <1>4
  <2>2. Depth(o + 1, k) = 1 + Level(types, k + 1) - Level(types, o + 1)
    BY <1>3, <2>1
  <2>3. Level(types, k + 1) >= Level(types, o) + 1 /\ Level(types, k + 1) \in Nat
    BY <1>1, <1>4, <2>1
  <2> QED BY <1>2, <1>5, <2>2, <2>3
<1>8. First(j) /\ j \in o + 1 .. Len(code)
  BY <1>1, <1>4, <1>6, <1>7
<1>9. ASSUME NEW i \in o + 1 .. Len(code), First(i)
      PROVE  i = j
  <2>1. CASE i < j
    <3>1. i \in o + 1 .. j - 1
      BY <1>4, <2>1
    <3> QED BY <1>7, <1>9, <3>1
  <2>2. CASE j < i
    <3>1. j \in o + 1 .. i - 1
      BY <1>4, <2>2
    <3> QED BY <1>6, <1>9, <3>1
  <2> QED BY <1>4, <2>1, <2>2
<1>10. (CHOOSE i \in o + 1 .. Len(code) : First(i)) = j
  <2> HIDE DEF First
  <2> QED BY <1>8, <1>9
<1>11. skip_to_end(o + 1) = 1 + j
  BY <1>10, Zenon DEF skip_to_end
<1> QED BY <1>11

(* While the level stays above o's, the block is open. *)
LEMMA OpenWithin ==
  ASSUME Body, NEW o \in 1 .. Len(code) - 1, NEW i \in o + 1 .. Len(code),
         \A l \in o + 1 .. i : Level(types, l) >= Level(types, o) + 1
  PROVE  OpenedBy(code, types, i, Level(types, o) + 1, o)
<1>1. PICK k \in Nat : k = Level(types, o) + 1 /\ k >= 2
  BY BodyFacts, LevelTypes
<1>2. Len(code) \in Nat /\ i \in 1 .. Len(code) /\ i \in o + 1 .. i
  BY BodyFacts
<1>3. Level(types, i) >= k /\ Level(types, i) \in Nat
  BY <1>1, <1>2, LevelTypes
<1>4. PICK p \in Nat : OpenedBy(code, types, i, k, p)
  <2>1. k \in 2 .. Level(types, i)
    BY <1>1, <1>3
  <2>2. Nested(code, types, i)
    BY <1>2, BodyFacts
  <2> QED BY <2>1, <2>2 DEF Nested
<1>5. p \in 1 .. i - 1 /\ Level(types, p) = k - 1 /\ \A l \in p + 1 .. i : Level(types, l) >= k
  BY <1>4 DEF OpenedBy
<1>6. p = o
  <2>1. CASE p < o
    <3>1. o \in p + 1 .. i
      BY <1>2, <1>5, <2>1
    <3>2. Level(types, o) >= k /\ Level(types, o) \in Nat
      BY <1>2, <1>5, <3>1, LevelTypes
    <3> QED BY <1>1, <3>2
  <2>2. CASE o < p
    <3>1. p \in o + 1 .. i
      BY <1>2, <1>5, <2>2
    <3> QED BY <1>1, <1>5, <3>1
  <2> QED BY <1>5, <2>1, <2>2
<1> QED BY <1>1, <1>4, <1>6

(* What a branch out of a block, its END or an if without else come to. *)
LEMMA AfterBlock ==
  ASSUME Body, NEW o \in 1 .. Len(code) - 1, Opens(o)
  PROVE  /\ skip_to_end(o + 1) \in o + 2 .. Len(code)
         /\ Level(types, skip_to_end(o + 1)) = Level(types, o)
         /\ \A l \in 1 .. Level(types, o) :
               OpenBlock(types, skip_to_end(o + 1), l) = OpenBlock(types, o, l)
         /\ types[skip_to_end(o + 1)].height = Below(code[o], types[o]) + code[o].arg
         /\ ~types[skip_to_end(o + 1)].dead
<1>1. PICK j \in Nat : Closes(o, j)
  BY ClosingExists
<1>2. skip_to_end(o + 1) = j + 1
  BY <1>1, SkipToEnd
<1>3. /\ j \in o + 1 .. Len(code) - 1 /\ EndRule(code[j], types[j], types[j + 1])
      /\ Level(types, j) = Level(types, o) + 1 /\ Level(types, j + 1) = Level(types, o)
      /\ Kept(types, j, Level(types, o))
      /\ \A i \in o + 1 .. j : Level(types, i) >= Level(types, o) + 1
  BY <1>1 DEF Closes
<1>4. Len(code) \in Nat /\ j \in o + 1 .. Len(code) /\ j + 1 \in o + 2 .. Len(code)
      /\ Level(types, o) \in Nat
  BY <1>3, BodyFacts, LevelTypes
<1>5. OpenedBy(code, types, j, Level(types, o) + 1, o)
  BY <1>3, <1>4, OpenWithin
<1>6. \A l \in 1 .. Level(types, o) : OpenBlock(types, o, l) = OpenBlock(types, j, l)
  <2>1. \A l \in 1 .. (Level(types, o) + 1) - 1 : OpenBlock(types, o, l) = OpenBlock(types, j, l)
    BY <1>5, Zenon DEF OpenedBy
  <2> QED BY <1>4, <2>1
<1>7. \A l \in 1 .. Level(types, o) : OpenBlock(types, j + 1, l) = OpenBlock(types, o, l)
  BY <1>3, <1>6 DEF Kept
<1>8. /\ OpenBlock(types, j, Level(types, j)).height = Below(code[o], types[o])
      /\ OpenBlock(types, j, Level(types, j)).results = code[o].arg
  <2>1. \/ OpenBlock(types, j, Level(types, j)) = NewEntry(code[o], o, types[o])
        \/ OpenBlock(types, j, Level(types, j)) = ElseEntry(NewEntry(code[o], o, types[o]))
    BY <1>3, <1>5 DEF OpenedBy
  <2> QED BY <2>1 DEF NewEntry, ElseEntry
<1>9. /\ types[j + 1].height = OpenBlock(types, j, Level(types, j)).height
                                 + OpenBlock(types, j, Level(types, j)).results
      /\ ~types[j + 1].dead
  BY <1>3 DEF EndRule, Typed, OpenAt, OpenBlock, Level
<1> QED BY <1>2, <1>3, <1>4, <1>7, <1>8, <1>9

(* What an if with a false condition comes to: its else, or what follows it if it has none and *)
(* hence no result.                                                                            *)
Stops(o, j) == Depth(o + 1, j) = 0 \/ (code[j].op = "else" /\ Depth(o + 1, j) = 1)
FirstStop(o, j) == Stops(o, j) /\ \A k \in o + 1 .. j - 1 : ~Stops(o, k)

LEMMA SkipStops ==
  ASSUME NEW o \in Nat, NEW j, j \in o + 1 .. Len(code), FirstStop(o, j)
  PROVE  /\ skip_to_else_or_end(o + 1).pc = j + 1
         /\ skip_to_else_or_end(o + 1).has_else <=> (code[j].op = "else" /\ Depth(o + 1, j) = 1)
<1>1. ASSUME NEW i \in o + 1 .. Len(code), FirstStop(o, i)
      PROVE  i = j
  <2>1. CASE i < j
    <3>1. i \in o + 1 .. j - 1
      BY <2>1
    <3> QED BY <1>1, <3>1 DEF FirstStop
  <2>2. CASE j < i
    <3>1. j \in o + 1 .. i - 1
      BY <2>2
    <3> QED BY <1>1, <3>1 DEF FirstStop
  <2> QED BY <2>1, <2>2
<1>2. (CHOOSE i \in o + 1 .. Len(code) : FirstStop(o, i)) = j
  BY <1>1
<1>3. (CHOOSE i \in o + 1 .. Len(code) :
          /\ Depth(o + 1, i) = 0 \/ (code[i].op = "else" /\ Depth(o + 1, i) = 1)
          /\ \A k \in o + 1 .. i - 1 :
               ~(Depth(o + 1, k) = 0 \/ (code[k].op = "else" /\ Depth(o + 1, k) = 1))) = j
  BY <1>2, Zenon DEF FirstStop, Stops
<1>4. skip_to_else_or_end(o + 1) =
        [pc |-> j + 1, has_else |-> code[j].op = "else" /\ Depth(o + 1, j) = 1]
  BY <1>3, Zenon DEF skip_to_else_or_end
<1> DEFINE b == code[j].op = "else" /\ Depth(o + 1, j) = 1
<1>5. skip_to_else_or_end(o + 1) = [pc |-> j + 1, has_else |-> b]
  BY <1>4
<1> HIDE DEF b
<1>6. skip_to_else_or_end(o + 1).pc = j + 1 /\ skip_to_else_or_end(o + 1).has_else = b
  BY <1>5
<1>7. skip_to_else_or_end(o + 1).has_else <=> b
  BY <1>6
<1> QED BY <1>6, <1>7 DEF b

LEMMA ElseOrEnd ==
  ASSUME Body, NEW o \in 1 .. Len(code) - 1, code[o].op = "if", NEW skip,
         skip = skip_to_else_or_end(o + 1)
  PROVE  \/ /\ skip.has_else
            /\ skip.pc \in o + 2 .. Len(code)
            /\ Level(types, skip.pc) = Level(types, o) + 1
            /\ \A l \in 1 .. Level(types, o) :
                  OpenBlock(types, skip.pc, l) = OpenBlock(types, o, l)
            /\ OpenBlock(types, skip.pc, Level(types, o) + 1) =
                 ElseEntry(NewEntry(code[o], o, types[o]))
            /\ types[skip.pc].height = Below(code[o], types[o])
            /\ ~types[skip.pc].dead
         \/ ~skip.has_else /\ skip.pc = skip_to_end(o + 1) /\ code[o].arg = 0
<1>0. Opens(o)
  BY DEF Opens
<1>1. PICK e \in Nat : Closes(o, e)
  BY <1>0, ClosingExists
<1>2. skip_to_end(o + 1) = e + 1
  BY <1>0, <1>1, SkipToEnd
<1>3. /\ e \in o + 1 .. Len(code) - 1 /\ EndRule(code[e], types[e], types[e + 1])
      /\ Level(types, e) = Level(types, o) + 1 /\ Level(types, e + 1) = Level(types, o)
      /\ \A i \in o + 1 .. e : Level(types, i) >= Level(types, o) + 1
  BY <1>1 DEF Closes
<1>4. Len(code) \in Nat /\ o \in Nat /\ \A i \in 1 .. Len(code) : Level(types, i) \in Nat \ {0}
  BY BodyFacts, LevelTypes
<1>5. Level(types, o) \in Nat /\ Level(types, o + 1) = Level(types, o) + 1
  BY <1>0, <1>4, ClosingExists
<1>6. ASSUME NEW i \in o + 1 .. Len(code) - 1
      PROVE  /\ Depth(o + 1, i) = 0 <=> Level(types, i + 1) = Level(types, o)
             /\ Depth(o + 1, i) = 1 <=> Level(types, i + 1) = Level(types, o) + 1
  <2>1. i \in o .. Len(code) - 1 /\ i + 1 \in 1 .. Len(code)
    BY <1>4
  <2>2. Depth(o + 1, i) = 1 + Level(types, i + 1) - Level(types, o + 1)
    BY <2>1, DepthIsLevel
  <2>3. Level(types, i + 1) \in Nat
    BY <1>4, <2>1
  <2> QED BY <1>5, <2>2, <2>3
<1> DEFINE T == {i \in o + 1 .. e : Stops(o, i)}
<1>7. e \in T /\ T \subseteq Nat
  BY <1>3, <1>4, <1>6 DEF Stops
<1>8. PICK j \in T : \A i \in T : j <= i
  <2> HIDE DEF T
  <2> QED BY <1>7, LeastNumber
<1>9. j \in o + 1 .. e /\ j \in o + 1 .. Len(code) - 1 /\ j \in o + 1 .. Len(code) /\ Stops(o, j)
  BY <1>3, <1>4, <1>8
<1>10. FirstStop(o, j)
  <2>1. ASSUME NEW k \in o + 1 .. j - 1 PROVE ~Stops(o, k)
    <3>1. k \in o + 1 .. e /\ ~(j <= k)
      BY <1>3, <1>9
    <3> QED BY <1>8, <3>1
  <2> QED BY <1>9, <2>1 DEF FirstStop
<1>11. /\ skip.pc = j + 1
       /\ skip.has_else <=> (code[j].op = "else" /\ Depth(o + 1, j) = 1)
  BY <1>4, <1>9, <1>10, SkipStops
<1>12. CASE code[j].op = "else" /\ Depth(o + 1, j) = 1
  <2>1. Level(types, j + 1) = Level(types, o) + 1
    BY <1>6, <1>9, <1>12
  <2>2. j \in 1 .. Len(code) - 1 /\ j + 1 \in o + 2 .. Len(code)
    BY <1>4, <1>9
  <2>3. /\ ElseRule(code[j], types[j], types[j + 1])
        /\ Level(types, j + 1) = Level(types, j) /\ Kept(types, j, Level(types, j) - 1)
        /\ OpenBlock(types, j, Level(types, j)).kind = "if"
        /\ OpenBlock(types, j + 1, Level(types, j)) = ElseEntry(OpenBlock(types, j, Level(types, j)))
    BY <1>12, <2>2, BodyStep
  <2>4. Level(types, j) = Level(types, o) + 1 /\ Level(types, j) - 1 = Level(types, o)
    BY <1>5, <2>1, <2>3
  <2>5. OpenedBy(code, types, j, Level(types, o) + 1, o)
    <3>1. \A l \in o + 1 .. j : Level(types, l) >= Level(types, o) + 1
      BY <1>3, <1>4, <1>9
    <3> QED BY <1>9, <3>1, OpenWithin
  <2>6. OpenBlock(types, j, Level(types, o) + 1) = NewEntry(code[o], o, types[o])
    <3>1. ElseEntry(NewEntry(code[o], o, types[o])).kind = "else"
      BY DEF ElseEntry, NewEntry
    <3> QED BY <2>3, <2>4, <2>5, <3>1 DEF OpenedBy
  <2>7. OpenBlock(types, j + 1, Level(types, o) + 1) = ElseEntry(NewEntry(code[o], o, types[o]))
    BY <2>3, <2>4, <2>6
  <2>8. \A l \in 1 .. Level(types, o) : OpenBlock(types, j + 1, l) = OpenBlock(types, o, l)
    <3>1. \A l \in 1 .. (Level(types, o) + 1) - 1 : OpenBlock(types, o, l) = OpenBlock(types, j, l)
      BY <2>5, Zenon DEF OpenedBy
    <3> QED BY <1>5, <2>3, <2>4, <3>1 DEF Kept
  <2>9. types[j + 1].height = Below(code[o], types[o]) /\ ~types[j + 1].dead
    <3>1. types[j + 1].height = OpenBlock(types, j, Level(types, j)).height /\ ~types[j + 1].dead
      BY <2>3 DEF ElseRule, Typed, OpenAt, OpenBlock, Level
    <3>2. NewEntry(code[o], o, types[o]).height = Below(code[o], types[o])
      BY DEF NewEntry
    <3> QED BY <2>4, <2>6, <3>1, <3>2
  <2> QED BY <1>11, <1>12, <2>1, <2>2, <2>7, <2>8, <2>9
<1>13. CASE ~(code[j].op = "else" /\ Depth(o + 1, j) = 1)
  <2>1. Level(types, j + 1) = Level(types, o)
    BY <1>6, <1>9, <1>13 DEF Stops
  <2>2. j = e
    <3>1. CASE j < e
      <4>1. j + 1 \in o + 1 .. e
        BY <1>3, <1>9, <3>1
      <4> QED BY <1>3, <1>5, <2>1, <4>1
    <3> QED BY <1>3, <1>9, <3>1
  <2>3. OpenedBy(code, types, e, Level(types, o) + 1, o)
    BY <1>3, <1>4, OpenWithin
  <2>4. OpenBlock(types, e, Level(types, e)) = NewEntry(code[o], o, types[o])
    <3>1. ASSUME NEW i \in o + 1 .. e - 1, code[i].op = "else", Level(types, i) = Level(types, o) + 1
          PROVE  FALSE
      <4>1. i \in o + 1 .. j - 1 /\ i \in 1 .. Len(code) - 1 /\ i \in o + 1 .. Len(code) - 1
        BY <1>3, <1>4, <2>2
      <4>2. Level(types, i + 1) = Level(types, i)
        BY <3>1, <4>1, BodyStep
      <4>3. Stops(o, i)
        BY <1>6, <3>1, <4>1, <4>2 DEF Stops
      <4> QED BY <1>10, <4>1, <4>3 DEF FirstStop
    <3> QED BY <1>3, <2>3, <3>1 DEF OpenedBy
  <2>5. OpenBlock(types, e, Level(types, e)).kind = "if"
        => OpenBlock(types, e, Level(types, e)).results = 0
    BY <1>3 DEF EndRule, OpenAt, OpenBlock, Level
  <2>6. NewEntry(code[o], o, types[o]).kind = "if" /\ NewEntry(code[o], o, types[o]).results = code[o].arg
    BY DEF NewEntry
  <2>7. code[o].arg = 0
    BY <2>4, <2>5, <2>6
  <2> QED BY <1>2, <1>11, <1>13, <2>2, <2>7
<1> QED BY <1>12, <1>13

----------------------------------------------------------------------------
(* Frames. *)

LEMMA SkipIsEnd ==
  ASSUME NEW x
  PROVE  skip_to_end(x) = EndAfter(code, x)
  BY Zenon DEF skip_to_end, EndAfter, Depth, Opens

LEMMA SamePrefix ==
  ASSUME NEW S, NEW s \in Seq(S), NEW t \in Seq(S), NEW d \in Nat, d <= Len(s), d <= Len(t),
         \A i \in 1 .. d : s[i] = t[i]
  PROVE  SubSeq(s, 1, d) = SubSeq(t, 1, d)
<1>1. /\ SubSeq(s, 1, d) \in Seq(S) /\ Len(SubSeq(s, 1, d)) = d
      /\ \A i \in 1 .. d : SubSeq(s, 1, d)[i] = s[i]
  <2>1. \A i \in 1 .. d : s[i] \in S
    BY ElementOfSeq, LenProperties
  <2> QED BY <2>1, SubSeqProperties
<1>2. /\ SubSeq(t, 1, d) \in Seq(S) /\ Len(SubSeq(t, 1, d)) = d
      /\ \A i \in 1 .. d : SubSeq(t, 1, d)[i] = t[i]
  <2>1. \A i \in 1 .. d : t[i] \in S
    BY ElementOfSeq, LenProperties
  <2> QED BY <2>1, SubSeqProperties
<1> QED BY <1>1, <1>2, SeqEqual

LEMMA MatchesSame ==
  ASSUME NEW cs, NEW ts, NEW f, NEW p, NEW lbs, NEW lbs2, NEW le, NEW oe, NEW b \in Nat,
         Matches(cs, ts, f, p, lbs, le, oe), f.label_base \in Nat, Level(ts, p) \in Nat,
         le <= b, \A i \in 1 .. b : lbs2[i] = lbs[i]
  PROVE  Matches(cs, ts, f, p, lbs2, le, oe)
<1>1. ASSUME NEW k \in 2 .. Level(ts, p)
      PROVE  lbs2[f.label_base + k] = LabelOf(cs, OpenBlock(ts, p, k), f.stack_depth)
  <2>1. f.label_base + k \in 1 .. b
    BY DEF Matches
  <2> QED BY <2>1 DEF Matches
<1> QED BY <1>1 DEF Matches

LEMMA FrameTypes ==
  ASSUME frames \in Seq(CallFrame)
  PROVE  /\ Len(frames) \in Nat
         /\ \A m \in 1 .. Len(frames) :
              /\ frames[m] \in CallFrame
              /\ frames[m].label_base \in Nat /\ frames[m].stack_depth \in Nat
              /\ frames[m].return_pc \in Nat /\ frames[m].locals_base \in Nat
<1>1. \A m \in 1 .. Len(frames) : frames[m] \in CallFrame
  BY ElementOfSeq
<1>2. ASSUME NEW f \in CallFrame
      PROVE  /\ f.label_base \in Nat /\ f.stack_depth \in Nat
             /\ f.return_pc \in Nat /\ f.locals_base \in Nat
  <2>1. f.label_base \in 0 .. MAX_LABELS /\ f.stack_depth \in 0 .. MAX_STACK
    BY DEF CallFrame
  <2>2. f.return_pc \in Nat /\ f.locals_base \in Nat
    BY DEF CallFrame
  <2> QED BY <2>1, <2>2
<1>3. Len(frames) \in Nat
  BY LenProperties
<1> QED BY <1>1, <1>2, <1>3

(* The current frame, and what the invariant says of it. *)
LEMMA CurrentFrame ==
  ASSUME Sound, Running
  PROVE  /\ Len(frames) \in Nat \ {0} /\ frame = frames[Len(frames)] /\ frame \in CallFrame
         /\ frame.label_base \in Nat /\ frame.stack_depth \in Nat
         /\ frame.locals_base = Len(frames) - 1 /\ frame.local_count = 1
         /\ frame.result_count = 1
         /\ Matches(code, types, frame, pc, labels, Len(labels), Len(stack))
         /\ Body /\ MachineOK /\ FramesMatch /\ CallersSaved
<1>1. MachineOK /\ FramesMatch /\ CallersSaved /\ Body
  BY DEF Sound, Running
<1>2. frames \in Seq(CallFrame) /\ frames # << >>
  BY <1>1 DEF MachineOK, FramesMatch
<1>3. Len(frames) \in Nat \ {0}
  BY <1>2, EmptySeq
<1>4. Len(frames) \in 1 .. Len(frames)
  BY <1>3
<1>5. frame = frames[Len(frames)]
  BY DEF frame, Top
<1>6. frame \in CallFrame /\ frame.label_base \in Nat /\ frame.stack_depth \in Nat
  BY <1>2, <1>4, <1>5, FrameTypes
<1>7. /\ Matches(code, types, frames[Len(frames)], PcOf(Len(frames)), labels,
                 LabelsOf(Len(frames)), OperandsOf(Len(frames)))
      /\ frames[Len(frames)].locals_base = Len(frames) - 1
      /\ frames[Len(frames)].local_count = 1 /\ frames[Len(frames)].result_count = 1
  BY <1>1, <1>4 DEF FramesMatch
<1>8. PcOf(Len(frames)) = pc /\ LabelsOf(Len(frames)) = Len(labels)
      /\ OperandsOf(Len(frames)) = Len(stack)
  BY DEF PcOf, LabelsOf, OperandsOf
<1> QED BY <1>1, <1>3, <1>5, <1>6, <1>7, <1>8

(* Where the instruction and the stacks are. *)
LEMMA CurrentPlace ==
  ASSUME Sound, Running
  PROVE  /\ pc \in 1 .. Len(code) /\ Len(code) \in Nat \ {0}
         /\ types[pc] \in ValidationState /\ code[pc] \in Instruction
         /\ types[pc].height \in Nat /\ ~types[pc].dead
         /\ Level(types, pc) \in Nat \ {0}
         /\ stack \in Seq(Val) /\ Len(stack) \in Nat /\ Len(stack) <= MAX_STACK
         /\ Len(stack) = frame.stack_depth + types[pc].height
         /\ labels \in Seq(Label) /\ Len(labels) \in Nat /\ Len(labels) <= MAX_LABELS
         /\ Len(labels) = frame.label_base + Level(types, pc)
         /\ \A k \in 2 .. Level(types, pc) :
              labels[frame.label_base + k] = LabelOf(code, OpenBlock(types, pc, k), frame.stack_depth)
<1>1. Matches(code, types, frame, pc, labels, Len(labels), Len(stack)) /\ Body /\ MachineOK
  BY CurrentFrame
<1>2. pc \in 1 .. Len(code) /\ ~types[pc].dead
  BY <1>1 DEF Matches
<1>3. types[pc] \in ValidationState /\ code[pc] \in Instruction /\ Len(code) \in Nat \ {0}
      /\ Level(types, pc) \in Nat \ {0}
  BY <1>1, <1>2, BodyFacts, LevelTypes
<1>4. types[pc].height \in Nat
  BY <1>3, StateTypes
<1>5. stack \in Seq(Val) /\ Len(stack) <= MAX_STACK /\ labels \in Seq(Label)
      /\ Len(labels) <= MAX_LABELS /\ Len(stack) \in Nat /\ Len(labels) \in Nat
  BY <1>1, LenProperties DEF MachineOK
<1>6. /\ Len(stack) = frame.stack_depth + types[pc].height
      /\ Len(labels) = frame.label_base + Level(types, pc)
      /\ \A k \in 2 .. Level(types, pc) :
           labels[frame.label_base + k] = LabelOf(code, OpenBlock(types, pc, k), frame.stack_depth)
  BY <1>1 DEF Matches
<1> QED BY <1>2, <1>3, <1>4, <1>5, <1>6

----------------------------------------------------------------------------
(* Steps within the current frame. *)

(* Only what belongs to the current frame changes, and it still matches. *)
TopOnly ==
  /\ frames' = frames /\ outcome' = outcome
  /\ stack' \in Seq(Val) /\ Len(stack') <= MAX_STACK
  /\ \A i \in 1 .. frame.stack_depth : stack'[i] = stack[i]
  /\ labels' \in Seq(Label) /\ Len(labels') <= MAX_LABELS
  /\ \A i \in 1 .. frame.label_base : labels'[i] = labels[i]
  /\ locals' \in [0 .. MAX_LOCALS * MAX_CALL_DEPTH - 1 -> Val]
  /\ \A i \in 0 .. Len(frames) - 2 : locals'[i] = locals[i]
  /\ Matches(code, types, frame, pc', labels', Len(labels'), Len(stack'))

Rest == UNCHANGED <<build_vars, phase, saved>>

(* What the invariant says while code runs, and when it has stopped. *)
LEMMA SoundRunning ==
  ASSUME UNCHANGED build_vars, phase' = "run", Body, MachineOK', outcome' = "running",
         FramesMatch', CallersSaved'
  PROVE  Sound'
<1>1. phase' = "run" /\ Body'
  BY DEF build_vars, Body, Validates
<1>2. ValidCodeDoesNotTrap'
  BY DEF ValidCodeDoesNotTrap
<1> QED BY <1>1, <1>2, Zenon DEF Sound

LEMMA SoundStopped ==
  ASSUME UNCHANGED build_vars, phase' = "run", Body, MachineOK', outcome' # "running",
         ValidCodeDoesNotTrap'
  PROVE  Sound'
<1>1. phase' = "run" /\ Body'
  BY DEF build_vars, Body, Validates
<1>2. ~Running'
  BY DEF Running
<1> QED BY <1>1, <1>2, Zenon DEF Sound

LEMMA TrapSound ==
  ASSUME Sound, Running, UNCHANGED <<build_vars, phase>>, NEW kind, trap(kind),
         kind \in {"Unreachable", "StackOverflow", "CallStackOverflow", "OutOfBounds",
                   "DivisionByZero", "IntegerOverflow", "LabelStackOverflow", "HostCallError"}
  PROVE  Sound'
<1>1. Body /\ MachineOK /\ phase = "run"
  BY CurrentFrame DEF Running
<1>2. MachineOK'
  BY <1>1 DEF MachineOK, trap, Traps
<1>3. outcome' # "running" /\ ValidCodeDoesNotTrap'
  BY DEF trap, ValidCodeDoesNotTrap
<1> QED BY <1>1, <1>2, <1>3, SoundStopped

LEMMA SameFrames ==
  ASSUME Sound, Running, TopOnly, Rest
  PROVE  Sound'
<1> DEFINE n == Len(frames)
<1>1. n \in Nat \ {0} /\ Body /\ MachineOK /\ FramesMatch /\ CallersSaved /\ phase = "run"
      /\ frame = frames[n] /\ outcome = "running"
  BY CurrentFrame DEF Running
<1>2. frames \in Seq(CallFrame) /\ frames' = frames /\ code' = code /\ types' = types
      /\ saved' = saved
  BY <1>1 DEF MachineOK, TopOnly, Rest, build_vars
<1>3. \A m \in 1 .. n : /\ frames[m].label_base \in Nat /\ frames[m].stack_depth \in Nat
                        /\ frames[m].return_pc \in Nat
  BY <1>2, FrameTypes
<1>4. /\ stack \in Seq(Val) /\ Len(stack) \in Nat /\ stack' \in Seq(Val) /\ Len(stack') \in Nat
      /\ labels \in Seq(Label) /\ Len(labels) \in Nat /\ labels' \in Seq(Label) /\ Len(labels') \in Nat
  BY <1>1, LenProperties DEF MachineOK, TopOnly
<1>5. /\ pc' \in 1 .. Len(code) /\ Len(code) \in Nat
      /\ Len(labels') = frame.label_base + Level(types, pc')
      /\ Len(stack') = frame.stack_depth + types[pc'].height
  BY <1>1, BodyFacts DEF TopOnly, Matches
<1>6. Level(types, pc') \in Nat /\ types[pc'].height \in Nat /\ types[pc'] \in ValidationState
  BY <1>1, <1>5, LevelTypes, BodyFacts, StateTypes
<1>7. MachineOK'
  BY <1>1, <1>2, <1>5 DEF MachineOK, TopOnly
<1>8. ASSUME NEW m \in 1 .. n - 1
      PROVE  /\ PcOf(m)' = PcOf(m) /\ LabelsOf(m)' = LabelsOf(m) /\ OperandsOf(m)' = OperandsOf(m)
             /\ LabelsOf(m) = frames[m + 1].label_base /\ PcOf(m) = frames[m + 1].return_pc
             /\ m + 1 \in 1 .. n
  BY <1>1, <1>2 DEF PcOf, LabelsOf, OperandsOf
<1>9. /\ PcOf(n)' = pc' /\ LabelsOf(n)' = Len(labels') /\ OperandsOf(n)' = Len(stack')
  BY <1>2 DEF PcOf, LabelsOf, OperandsOf
<1>10. \A l, m \in 1 .. n : l <= m => /\ frames[l].label_base <= frames[m].label_base
                                      /\ frames[l].stack_depth <= frames[m].stack_depth
  BY <1>1 DEF FramesMatch
<1>11. ASSUME NEW m \in 1 .. n
       PROVE  /\ Matches(code, types, frames[m], PcOf(m)', labels', LabelsOf(m)', OperandsOf(m)')
              /\ frames[m].locals_base = m - 1 /\ frames[m].local_count = 1
              /\ frames[m].result_count = 1
              /\ m < n => types[PcOf(m)'].height >= 1
  <2>1. /\ frames[m].locals_base = m - 1 /\ frames[m].local_count = 1
        /\ frames[m].result_count = 1
        /\ m < n => types[PcOf(m)].height >= 1
        /\ Matches(code, types, frames[m], PcOf(m), labels, LabelsOf(m), OperandsOf(m))
    BY <1>1, <1>11 DEF FramesMatch
  <2>2. CASE m = n
    BY <1>1, <1>9, <2>1, <2>2 DEF TopOnly
  <2>3. CASE m # n
    <3>1. m \in 1 .. n - 1
      BY <1>1, <1>11, <2>3
    <3>2. LabelsOf(m) <= frame.label_base /\ frame.label_base \in Nat
      <4>1. n \in 1 .. n
        BY <1>1
      <4>2. LabelsOf(m) = frames[m + 1].label_base /\ m + 1 \in 1 .. n
        BY <1>8, <3>1
      <4> QED BY <1>1, <1>3, <1>10, <3>1, <4>1, <4>2
    <3>3. PcOf(m) \in 1 .. Len(code)
      BY <2>1 DEF Matches
    <3>4. Level(types, PcOf(m)) \in Nat
      BY <1>1, <3>3, LevelTypes
    <3>5. \A i \in 1 .. frame.label_base : labels'[i] = labels[i]
      BY DEF TopOnly
    <3>6. frames[m].label_base \in Nat
      BY <1>3, <1>11
    <3>7. Matches(code, types, frames[m], PcOf(m), labels', LabelsOf(m), OperandsOf(m))
      BY <2>1, <3>2, <3>4, <3>5, <3>6, MatchesSame
    <3> QED BY <1>8, <2>1, <3>1, <3>7
  <2> QED BY <2>2, <2>3
<1>12. FramesMatch'
  <2>1. frames # << >> /\ frames[1].stack_depth = 0 /\ frames[1].label_base = 0
    BY <1>1 DEF FramesMatch
  <2> QED BY <1>2, <1>10, <1>11, <2>1, Zenon DEF FramesMatch
<1>13. CallersSaved'
  <2>1. saved \in Seq(CallerState) /\ Len(saved) = n - 1
    BY <1>1 DEF CallersSaved
  <2>2. ASSUME NEW m \in 1 .. Len(saved)
        PROVE  /\ saved[m].stack = SubSeq(stack', 1, frames[m + 1].stack_depth)
               /\ saved[m].labels = SubSeq(labels', 1, frames[m + 1].label_base)
               /\ saved[m].local = locals'[m - 1]
               /\ saved[m].pc = frames[m + 1].return_pc
    <3>1. /\ saved[m].stack = SubSeq(stack, 1, frames[m + 1].stack_depth)
          /\ saved[m].labels = SubSeq(labels, 1, frames[m + 1].label_base)
          /\ saved[m].local = locals[m - 1]
          /\ saved[m].pc = frames[m + 1].return_pc
      BY <1>1, <2>2 DEF CallersSaved
    <3>2. m + 1 \in 1 .. n /\ n \in 1 .. n /\ m - 1 \in 0 .. n - 2
      BY <1>1, <2>1, <2>2
    <3>3. /\ frames[m + 1].stack_depth \in Nat /\ frames[m + 1].stack_depth <= frame.stack_depth
          /\ frames[m + 1].label_base \in Nat /\ frames[m + 1].label_base <= frame.label_base
          /\ frame.stack_depth \in Nat /\ frame.label_base \in Nat
      BY <1>1, <1>3, <1>10, <3>2
    <3>4. /\ frame.stack_depth <= Len(stack) /\ frame.stack_depth <= Len(stack')
          /\ frame.label_base <= Len(labels) /\ frame.label_base <= Len(labels')
      <4>1. Len(stack) = frame.stack_depth + types[pc].height /\ types[pc].height \in Nat
            /\ Len(labels) = frame.label_base + Level(types, pc) /\ Level(types, pc) \in Nat
        BY CurrentPlace
      <4>2. \A a, b \in Nat : a <= a + b
        OBVIOUS
      <4>3. frame.stack_depth <= Len(stack) /\ frame.label_base <= Len(labels)
        BY <3>3, <4>1, <4>2, Zenon
      <4>4. frame.stack_depth <= Len(stack') /\ frame.label_base <= Len(labels')
        BY <1>5, <1>6, <3>3, <4>2, Zenon
      <4> QED BY <4>3, <4>4
    <3>5. SubSeq(stack', 1, frames[m + 1].stack_depth) = SubSeq(stack, 1, frames[m + 1].stack_depth)
      <4>1. \A i \in 1 .. frames[m + 1].stack_depth : stack'[i] = stack[i]
        BY <3>3 DEF TopOnly
      <4>2. frames[m + 1].stack_depth <= Len(stack) /\ frames[m + 1].stack_depth <= Len(stack')
        BY <1>4, <3>3, <3>4
      <4> QED BY <1>4, <3>3, <4>1, <4>2, SamePrefix
    <3>6. SubSeq(labels', 1, frames[m + 1].label_base) = SubSeq(labels, 1, frames[m + 1].label_base)
      <4>1. \A i \in 1 .. frames[m + 1].label_base : labels'[i] = labels[i]
        BY <3>3 DEF TopOnly
      <4>2. frames[m + 1].label_base <= Len(labels) /\ frames[m + 1].label_base <= Len(labels')
        BY <1>4, <3>3, <3>4
      <4> QED BY <1>4, <3>3, <4>1, <4>2, SamePrefix
    <3>7. locals'[m - 1] = locals[m - 1]
      BY <3>2 DEF TopOnly
    <3> QED BY <3>1, <3>5, <3>6, <3>7
  <2> QED BY <1>2, <2>1, <2>2, Zenon DEF CallersSaved
<1>14. outcome' = "running"
  BY <1>1 DEF TopOnly
<1>15. UNCHANGED build_vars /\ phase' = "run"
  BY <1>1 DEF Rest
<1> QED BY <1>1, <1>7, <1>12, <1>13, <1>14, <1>15, SoundRunning


(* Cutting a stack to one of its depths. *)
LEMMA CutStack ==
  ASSUME NEW s \in Seq(Val), NEW top \in Nat, top <= Len(s), NEW d \in Nat, d <= top, NEW cut,
         cut = [i \in 1 .. d |-> IF i <= top THEN s[i] ELSE 0]
  PROVE  cut \in Seq(Val) /\ Len(cut) = d /\ \A i \in 1 .. d : cut[i] = s[i]
<1>1. \A i \in 1 .. d : i <= top /\ i \in 1 .. Len(s)
  BY LenProperties
<1>2. \A i \in 1 .. d : s[i] \in Val
  BY <1>1, ElementOfSeq
<1>3. cut \in [1 .. d -> Val]
  BY <1>1, <1>2
<1>4. cut \in Seq(Val)
  BY <1>3, SeqDef
<1>5. Len(cut) = d
  BY <1>3, <1>4, LenProperties
<1> QED BY <1>1, <1>4, <1>5

LEMMA SpSet ==
  ASSUME Sound, Running, NEW d \in Nat, d <= Len(stack)
  PROVE  /\ sp_set(d) \in Seq(Val) /\ Len(sp_set(d)) = d
         /\ \A i \in 1 .. d : sp_set(d)[i] = stack[i]
<1>1. stack \in Seq(Val) /\ Len(stack) \in Nat
  BY CurrentPlace
<1> QED BY <1>1, CutStack DEF sp_set

(* A value pushed on a stack that was cut to d. *)
LEMMA PushOn ==
  ASSUME Sound, Running, NEW d \in Nat, d <= Len(stack), NEW v \in Val, NEW st \in Seq(Val),
         Len(st) = d, \A i \in 1 .. d : st[i] = stack[i]
  PROVE  /\ Append(st, v) \in Seq(Val) /\ Len(Append(st, v)) = d + 1
         /\ \A i \in 1 .. d : Append(st, v)[i] = stack[i]
<1>1. /\ Append(st, v) \in Seq(Val) /\ Len(Append(st, v)) = Len(st) + 1
      /\ \A i \in 1 .. Len(st) : Append(st, v)[i] = st[i]
  BY AppendProperties
<1> QED BY <1>1

(* The next instruction follows, and the operands change as its type says. *)
Straight(pops, pushes) ==
  /\ pc + 1 \in 1 .. Len(code) /\ ~types[pc + 1].dead
  /\ types[pc].height >= pops
  /\ types[pc + 1].height + pops = types[pc].height + pushes
  /\ Level(types, pc + 1) = Level(types, pc)
  /\ Kept(types, pc, Level(types, pc))

(* With a stack of the right height, a step to the next instruction is sound. *)
LEMMA StraightMatches ==
  ASSUME Sound, Running, NEW a \in Nat, NEW b \in Nat, Straight(a, b), NEW h \in Nat,
         h + a = Len(stack) + b
  PROVE  Matches(code, types, frame, pc + 1, labels, Len(labels), h)
<1>1. /\ Len(stack) = frame.stack_depth + types[pc].height
      /\ Len(labels) = frame.label_base + Level(types, pc)
      /\ frame.stack_depth \in Nat /\ types[pc].height \in Nat
      /\ pc \in 1 .. Len(code)
  BY CurrentPlace, CurrentFrame
<1>2. Body /\ pc + 1 \in 1 .. Len(code)
  BY CurrentFrame DEF Straight
<1>3. types[pc + 1] \in ValidationState
  BY <1>2, BodyFacts
<1>4. types[pc + 1].height \in Nat
  BY <1>3, StateTypes
<1>5. h = frame.stack_depth + types[pc + 1].height
  <2>1. types[pc + 1].height + a = types[pc].height + b
    BY DEF Straight
  <2>2. \A d, x, y \in Nat : h + a = (d + x) + b /\ y + a = x + b => h = d + y
    OBVIOUS
  <2>3. h + a = (frame.stack_depth + types[pc].height) + b
    BY <1>1
  <2> QED BY <1>1, <1>4, <2>1, <2>2, <2>3, Zenon
<1>6. \A k \in 2 .. Level(types, pc + 1) :
         labels[frame.label_base + k] = LabelOf(code, OpenBlock(types, pc + 1, k), frame.stack_depth)
  <2>1. Level(types, pc) \in Nat \ {0} /\ Level(types, pc + 1) = Level(types, pc)
    BY CurrentPlace DEF Straight
  <2>2. \A k \in 2 .. Level(types, pc + 1) :
           k \in 2 .. Level(types, pc) /\ OpenBlock(types, pc + 1, k) = OpenBlock(types, pc, k)
    BY <2>1 DEF Straight, Kept
  <2> QED BY <2>2, CurrentPlace
<1> QED BY <1>1, <1>2, <1>5, <1>6, Zenon DEF Matches, Straight

LEMMA StraightStep ==
  ASSUME Sound, Running, Rest, NEW a \in Nat, NEW b \in Nat, Straight(a, b),
         stack' \in Seq(Val), Len(stack') + a = Len(stack) + b, Len(stack') <= MAX_STACK,
         \A i \in 1 .. Len(stack) - a : stack'[i] = stack[i],
         locals' \in [0 .. MAX_LOCALS * MAX_CALL_DEPTH - 1 -> Val],
         \A i \in 0 .. Len(frames) - 2 : locals'[i] = locals[i],
         pc' = pc + 1, UNCHANGED <<labels, frames, outcome>>
  PROVE  Sound'
<1>1. Len(stack') \in Nat
  BY LenProperties
<1>2. Matches(code, types, frame, pc + 1, labels, Len(labels), Len(stack'))
  BY <1>1, StraightMatches
<1>3. /\ Len(stack) = frame.stack_depth + types[pc].height
      /\ frame.stack_depth \in Nat /\ types[pc].height \in Nat
      /\ labels \in Seq(Label) /\ Len(labels) <= MAX_LABELS
  BY CurrentPlace, CurrentFrame
<1>4. types[pc].height >= a
  BY DEF Straight
<1>5. \A i \in 1 .. frame.stack_depth : stack'[i] = stack[i]
  BY <1>3, <1>4, SMTT(30)
<1>6. TopOnly
  BY <1>2, <1>3, <1>5 DEF TopOnly
<1> QED BY <1>6, SameFrames

(* What replace, discard and the instructions without operands need. *)
LEMMA ReplaceSound ==
  ASSUME Sound, Running, Rest, NEW n \in Nat, NEW v \in Val, Straight(n, 1), replace(n, v)
  PROVE  Sound'
<1>1. /\ Len(stack) = frame.stack_depth + types[pc].height /\ Len(stack) \in Nat
      /\ frame.stack_depth \in Nat /\ types[pc].height \in Nat /\ types[pc].height >= n
      /\ locals \in [0 .. MAX_LOCALS * MAX_CALL_DEPTH - 1 -> Val]
  BY CurrentPlace, CurrentFrame DEF Straight, MachineOK
<1>2. n <= Len(stack) /\ Len(stack) - n \in Nat /\ Len(stack) - n <= Len(stack)
  BY <1>1
<1> DEFINE st == sp_set(Len(stack) - n)
<1>3. st \in Seq(Val) /\ Len(st) = Len(stack) - n
      /\ \A i \in 1 .. Len(stack) - n : st[i] = stack[i]
  BY <1>2, SpSet
<1> HIDE DEF st
<1>4. CASE Full(st)
  <2>1. trap("StackOverflow")
    BY <1>1, <1>2, <1>4 DEF replace, st
  <2>2. UNCHANGED <<build_vars, phase>>
    BY DEF Rest
  <2> QED BY <2>1, <2>2, TrapSound
<1>5. CASE ~Full(st)
  <2>1. stack' = Append(st, v) /\ pc' = pc + 1 /\ UNCHANGED <<locals, labels, frames, outcome>>
    BY <1>1, <1>2, <1>5 DEF replace, st, Next_pc
  <2>2. /\ stack' \in Seq(Val) /\ Len(stack') = Len(stack) - n + 1
        /\ \A i \in 1 .. Len(stack) - n : stack'[i] = stack[i]
    BY <1>2, <1>3, <2>1, PushOn
  <2>3. Len(stack') <= MAX_STACK
    <3>1. ~(Len(st) >= MAX_STACK)
      BY <1>5 DEF Full
    <3> QED BY <1>2, <1>3, <2>2, <3>1, InterpAssumption
  <2>4. Len(stack') + n = Len(stack) + 1
    BY <1>1, <2>2
  <2> QED BY <1>1, <2>1, <2>2, <2>3, <2>4, StraightStep
<1> QED BY <1>4, <1>5

LEMMA DiscardSound ==
  ASSUME Sound, Running, Rest, NEW n \in Nat, Straight(n, 0), discard(n)
  PROVE  Sound'
<1>1. /\ Len(stack) = frame.stack_depth + types[pc].height /\ Len(stack) \in Nat
      /\ frame.stack_depth \in Nat /\ types[pc].height \in Nat /\ types[pc].height >= n
      /\ locals \in [0 .. MAX_LOCALS * MAX_CALL_DEPTH - 1 -> Val] /\ Len(stack) <= MAX_STACK
  BY CurrentPlace, CurrentFrame DEF Straight, MachineOK
<1>2. n <= Len(stack) /\ Len(stack) - n \in Nat /\ Len(stack) - n <= Len(stack)
  BY <1>1
<1> DEFINE st == sp_set(Len(stack) - n)
<1>3. st \in Seq(Val) /\ Len(st) = Len(stack) - n
      /\ \A i \in 1 .. Len(stack) - n : st[i] = stack[i]
  BY <1>2, SpSet
<1> HIDE DEF st
<1>4. stack' = st /\ pc' = pc + 1 /\ UNCHANGED <<locals, labels, frames, outcome>>
  BY <1>1, <1>2 DEF discard, st, Next_pc
<1>5. Len(stack') + n = Len(stack) + 0 /\ Len(stack') <= MAX_STACK
  <2>1. Len(stack') = Len(stack) - n
    BY <1>3, <1>4
  <2> QED BY <1>1, <2>1, InterpAssumption
<1> QED BY <1>1, <1>3, <1>4, <1>5, StraightStep


----------------------------------------------------------------------------
(* Which rule let the current instruction in. *)

LEMMA NotLast ==
  ASSUME Sound, Running, code[pc].op # "end"
  PROVE  /\ pc \in 1 .. Len(code) - 1 /\ pc + 1 \in 1 .. Len(code)
         /\ Checks(code[pc], pc, types[pc], types[pc + 1])
<1>1. Body /\ pc \in 1 .. Len(code) /\ Len(code) \in Nat
  BY CurrentFrame, CurrentPlace
<1>2. code[Len(code)].op = "end"
  BY <1>1, BodyFacts
<1>3. pc # Len(code)
  BY <1>2
<1>4. pc \in 1 .. Len(code) - 1 /\ pc + 1 \in 1 .. Len(code)
  BY <1>1, <1>3
<1> QED BY <1>1, <1>4, BodyFacts

(* The operands of an instruction are among those of its block, and of its function. *)
LEMMA OperandsBelow ==
  ASSUME NEW s \in ValidationState, Len(s.control) >= 1, NEW n \in Nat, Operands(s) >= n
  PROVE  s.height >= n
<1>1. s.control \in Seq(Entry) /\ Len(s.control) \in 1 .. Len(s.control) /\ s.height \in Nat
  BY StateTypes
<1>2. OpenAt(s) \in Entry
  BY <1>1, ElementOfSeq DEF OpenAt
<1>3. OpenAt(s).height \in Nat
  BY <1>2 DEF Entry
<1> QED BY <1>1, <1>3 DEF Operands

LEMMA StraightRule ==
  ASSUME Sound, Running, code[pc].op \notin {"block", "loop", "if", "else", "end"},
         NEW a \in Nat, NEW b \in Nat, Operands(types[pc]) >= a,
         types[pc + 1] = Typed(types[pc].control, types[pc].height - a + b, FALSE)
  PROVE  Straight(a, b)
<1>1. pc \in 1 .. Len(code) - 1 /\ pc + 1 \in 1 .. Len(code) /\ Body
  BY NotLast, CurrentFrame
<1>2. Level(types, pc + 1) = Level(types, pc) /\ Kept(types, pc, Level(types, pc))
  BY <1>1, BodyStep
<1>3. types[pc] \in ValidationState /\ Len(types[pc].control) >= 1 /\ types[pc].height \in Nat
  BY CurrentPlace DEF Level
<1>4. types[pc].height >= a
  BY <1>3, OperandsBelow
<1>5. types[pc + 1].height = types[pc].height - a + b /\ ~types[pc + 1].dead
  BY DEF Typed
<1>6. types[pc + 1].height + a = types[pc].height + b
  <2>1. \A x \in Nat : (x - a + b) + a = x + b
    OBVIOUS
  <2> QED BY <1>3, <1>5, <2>1, Zenon
<1> QED BY <1>1, <1>2, <1>4, <1>5, <1>6 DEF Straight

LEMMA PlainOpNames ==
  /\ DOMAIN PlainOps = {"nop", "drop", "select", "local_set", "local_tee", "load", "store",
                        "memory_size", "memory_grow", "eqz", "convert", "compare", "binop32",
                        "binop64", "div", "popcnt", "global_get", "global_set"}
  /\ \A op \in DOMAIN PlainOps : PlainOps[op][1] \in Nat /\ PlainOps[op][2] \in Nat
<1>1. DOMAIN PlainOps = {"nop", "drop", "select", "local_set", "local_tee", "load", "store",
                         "memory_size", "memory_grow", "eqz", "convert", "compare", "binop32",
                         "binop64", "div", "popcnt", "global_get", "global_set"}
  BY DEF PlainOps
<1> QED BY <1>1 DEF PlainOps

LEMMA PlainStraight ==
  ASSUME Sound, Running, NEW op, code[pc].op = op, op \in DOMAIN PlainOps
  PROVE  Straight(PlainOps[op][1], PlainOps[op][2]) /\ code[pc].arg = 0
<1>1. op \notin {"block", "loop", "if", "else", "end", "const", "local_get", "call", "br", "br_if",
                 "return", "unreachable"}
      /\ PlainOps[op][1] \in Nat /\ PlainOps[op][2] \in Nat
  BY PlainOpNames
<1>2. Checks(code[pc], pc, types[pc], types[pc + 1])
  BY <1>1, NotLast
<1>3. PlainRule(code[pc], types[pc], types[pc + 1])
  BY <1>1, <1>2 DEF Checks, PushRule, CallRule, OpenRule, ElseRule, EndRule, BranchRule, LeaveRule
<1>4. /\ Operands(types[pc]) >= PlainOps[op][1] /\ code[pc].arg = 0
      /\ types[pc + 1] = Typed(types[pc].control, types[pc].height - PlainOps[op][1] + PlainOps[op][2], FALSE)
  BY <1>3 DEF PlainRule
<1> QED BY <1>1, <1>4, StraightRule

LEMMA OtherStraight ==
  ASSUME Sound, Running
  PROVE  /\ code[pc].op \in {"const", "local_get"} => Straight(0, 1)
         /\ code[pc].op = "const" => code[pc].arg = 1
         /\ code[pc].op = "local_get" => code[pc].arg = 0
         /\ code[pc].op = "call" => Straight(1, 1) /\ code[pc].arg \in {0, 1}
<1>1. code[pc].op \in {"const", "local_get", "call"}
      => code[pc].op \notin {"block", "loop", "if", "else", "end", "br", "br_if", "return", "unreachable"}
         /\ code[pc].op \notin DOMAIN PlainOps
  BY PlainOpNames
<1>2. /\ types[pc] \in ValidationState /\ types[pc].height \in Nat /\ Level(types, pc) \in Nat \ {0}
  BY CurrentPlace
<1>3. ASSUME code[pc].op \in {"const", "local_get"}
      PROVE  /\ Straight(0, 1)
             /\ code[pc].op = "const" => code[pc].arg = 1
             /\ code[pc].op = "local_get" => code[pc].arg = 0
  <2>1. PushRule(code[pc], types[pc], types[pc + 1])
    BY <1>1, <1>3, NotLast
       DEF Checks, PlainRule, CallRule, OpenRule, ElseRule, EndRule, BranchRule, LeaveRule
  <2>2. pc \in 1 .. Len(code) - 1 /\ pc + 1 \in 1 .. Len(code) /\ Body
    BY <1>1, <1>3, NotLast, CurrentFrame
  <2>3. Level(types, pc + 1) = Level(types, pc) /\ Kept(types, pc, Level(types, pc))
    BY <1>1, <1>3, <2>2, BodyStep
  <2>4. types[pc + 1].height = types[pc].height + 1 /\ ~types[pc + 1].dead
    BY <2>1 DEF PushRule, Typed
  <2>5. Straight(0, 1)
    BY <1>2, <2>2, <2>3, <2>4 DEF Straight
  <2> QED BY <2>1, <2>5 DEF PushRule
<1>4. ASSUME code[pc].op = "call"
      PROVE  Straight(1, 1) /\ code[pc].arg \in {0, 1}
  <2>1. CallRule(code[pc], types[pc], types[pc + 1])
    BY <1>1, <1>4, NotLast
       DEF Checks, PlainRule, PushRule, OpenRule, ElseRule, EndRule, BranchRule, LeaveRule
  <2>2. types[pc].height - 1 + 1 = types[pc].height
    BY <1>2
  <2>3. /\ Operands(types[pc]) >= 1 /\ code[pc].arg \in {0, 1}
        /\ types[pc + 1] = Typed(types[pc].control, types[pc].height - 1 + 1, FALSE)
    BY <2>1, <2>2 DEF CallRule
  <2> QED BY <1>1, <1>4, <2>3, StraightRule
<1> QED BY <1>3, <1>4

LEMMA BranchOf ==
  ASSUME Sound, Running, code[pc].op \in {"br", "br_if"}
  PROVE  BranchRule(code[pc], types[pc], types[pc + 1]) /\ pc + 1 \in 1 .. Len(code)
<1>1. /\ code[pc].op \notin {"block", "loop", "if", "else", "end", "return", "unreachable",
                             "const", "local_get", "call"}
      /\ code[pc].op \notin DOMAIN PlainOps
  BY PlainOpNames
<1> QED BY <1>1, NotLast DEF Checks, PlainRule, PushRule, CallRule, OpenRule, ElseRule, EndRule, LeaveRule

LEMMA ReturnOf ==
  ASSUME Sound, Running, code[pc].op = "return"
  PROVE  types[pc].height >= 1
<1>1. /\ code[pc].op \notin {"block", "loop", "if", "else", "end", "br", "br_if",
                             "const", "local_get", "call"}
      /\ code[pc].op \notin DOMAIN PlainOps
  BY PlainOpNames
<1>2. LeaveRule(code[pc], types[pc], types[pc + 1])
  BY <1>1, NotLast DEF Checks, PlainRule, PushRule, CallRule, OpenRule, ElseRule, EndRule, BranchRule
<1>3. types[pc] \in ValidationState /\ Len(types[pc].control) >= 1
  BY CurrentPlace DEF Level
<1> QED BY <1>2, <1>3, OperandsBelow DEF LeaveRule


----------------------------------------------------------------------------
(* The instructions without control flow. *)

LEMMA Popped ==
  ASSUME Sound, Running
  PROVE  /\ \A i \in 1 .. Len(stack) : stack[i] \in Val
         /\ Len(stack) \in Nat /\ Len(stack) >= types[pc].height /\ types[pc].height \in Nat
         /\ stack # << >> => Len(stack) >= 1
         /\ Len(stack) >= 1 => stack # << >>
         /\ Len(stack) >= 1 => Top(stack) \in Val
<1>1. /\ stack \in Seq(Val) /\ Len(stack) \in Nat /\ types[pc].height \in Nat
      /\ Len(stack) = frame.stack_depth + types[pc].height /\ frame.stack_depth \in Nat
  BY CurrentPlace, CurrentFrame
<1>2. \A i \in 1 .. Len(stack) : stack[i] \in Val
  BY <1>1, ElementOfSeq
<1>3. Len(stack) >= types[pc].height
  BY <1>1
<1>4. stack # << >> => Len(stack) >= 1
  BY <1>1, EmptySeq
<1>5. Len(stack) >= 1 => stack # << >>
  BY <1>1, EmptySeq
<1>6. Len(stack) >= 1 => Top(stack) \in Val
  <2>1. Len(stack) >= 1 => Len(stack) \in 1 .. Len(stack)
    BY <1>1
  <2> QED BY <1>2, <2>1 DEF Top
<1> QED BY <1>1, <1>2, <1>3, <1>4, <1>5, <1>6

(* One value for another, whatever it is computed from. *)
LEMMA ComputeSound ==
  ASSUME Sound, Running, Rest,
         Load \/ MemorySize \/ MemoryGrow \/ Const \/ Eqz \/ Convert \/ Compare \/ Arithmetic32
           \/ Arithmetic64 \/ Divide \/ Select \/ CallHost
  PROVE  Sound'
<1> USE DEF Val, Fetched
<1>0. UNCHANGED <<build_vars, phase>>
  BY DEF Rest
<1>1. /\ "load" \in DOMAIN PlainOps /\ "memory_size" \in DOMAIN PlainOps
      /\ "memory_grow" \in DOMAIN PlainOps /\ "eqz" \in DOMAIN PlainOps
      /\ "convert" \in DOMAIN PlainOps /\ "compare" \in DOMAIN PlainOps
      /\ "binop32" \in DOMAIN PlainOps /\ "binop64" \in DOMAIN PlainOps
      /\ "div" \in DOMAIN PlainOps /\ "select" \in DOMAIN PlainOps
  BY PlainOpNames
<1>2. /\ PlainOps["load"][1] = 1 /\ PlainOps["load"][2] = 1
      /\ PlainOps["memory_size"][1] = 0 /\ PlainOps["memory_size"][2] = 1
      /\ PlainOps["memory_grow"][1] = 1 /\ PlainOps["memory_grow"][2] = 1
      /\ PlainOps["eqz"][1] = 1 /\ PlainOps["eqz"][2] = 1
      /\ PlainOps["convert"][1] = 1 /\ PlainOps["convert"][2] = 1
      /\ PlainOps["compare"][1] = 2 /\ PlainOps["compare"][2] = 1
      /\ PlainOps["binop32"][1] = 2 /\ PlainOps["binop32"][2] = 1
      /\ PlainOps["binop64"][1] = 2 /\ PlainOps["binop64"][2] = 1
      /\ PlainOps["div"][1] = 2 /\ PlainOps["div"][2] = 1
      /\ PlainOps["select"][1] = 3 /\ PlainOps["select"][2] = 1
  BY DEF PlainOps
<1>3. ASSUME NEW n \in Nat, NEW v \in Val, replace(n, v), Straight(n, 1)
      PROVE  Sound'
  BY <1>3, ReplaceSound
<1>4. CASE Load
  <2>1. code[pc].op = "load"
    BY <1>4 DEF Load
  <2>2. Straight(1, 1)
    BY <1>1, <1>2, <2>1, PlainStraight
  <2>3. CASE trap("OutOfBounds")
    BY <1>0, <2>3, TrapSound
  <2> QED BY <1>3, <1>4, <2>2, <2>3 DEF Load
<1>5. CASE MemorySize
  <2>1. code[pc].op = "memory_size"
    BY <1>5 DEF MemorySize
  <2>2. Straight(0, 1)
    BY <1>1, <1>2, <2>1, PlainStraight
  <2> QED BY <1>3, <1>5, <2>2 DEF MemorySize
<1>6. CASE MemoryGrow
  <2>1. code[pc].op = "memory_grow"
    BY <1>6 DEF MemoryGrow
  <2>2. Straight(1, 1)
    BY <1>1, <1>2, <2>1, PlainStraight
  <2> QED BY <1>3, <1>6, <2>2 DEF MemoryGrow
<1>7. CASE Const
  <2>1. code[pc].op = "const"
    BY <1>7 DEF Const
  <2>2. Straight(0, 1) /\ code[pc].arg = 1
    BY <2>1, OtherStraight
  <2> QED BY <1>3, <1>7, <2>2 DEF Const
<1>8. CASE Eqz
  <2>1. code[pc].op = "eqz"
    BY <1>8 DEF Eqz
  <2>2. Straight(1, 1)
    BY <1>1, <1>2, <2>1, PlainStraight
  <2> QED BY <1>3, <1>8, <2>2 DEF Eqz
<1>9. CASE Convert
  <2>1. code[pc].op = "convert"
    BY <1>9 DEF Convert
  <2>2. Straight(1, 1)
    BY <1>1, <1>2, <2>1, PlainStraight
  <2> QED BY <1>3, <1>9, <2>2 DEF Convert
<1>10. CASE Compare
  <2>1. code[pc].op = "compare"
    BY <1>10 DEF Compare
  <2>2. Straight(2, 1)
    BY <1>1, <1>2, <2>1, PlainStraight
  <2> QED BY <1>3, <1>10, <2>2 DEF Compare
<1>11. CASE Arithmetic32
  <2>1. code[pc].op = "binop32"
    BY <1>11 DEF Arithmetic32
  <2>2. Straight(2, 1)
    BY <1>1, <1>2, <2>1, PlainStraight
  <2> QED BY <1>3, <1>11, <2>2 DEF Arithmetic32
<1>12. CASE Arithmetic64
  <2>1. code[pc].op = "binop64"
    BY <1>12 DEF Arithmetic64
  <2>2. Straight(2, 1)
    BY <1>1, <1>2, <2>1, PlainStraight
  <2> QED BY <1>3, <1>12, <2>2 DEF Arithmetic64
<1>13. CASE Divide
  <2>1. code[pc].op = "div"
    BY <1>13 DEF Divide
  <2>2. Straight(2, 1)
    BY <1>1, <1>2, <2>1, PlainStraight
  <2>3. CASE trap("DivisionByZero")
    BY <1>0, <2>3, TrapSound
  <2>4. CASE trap("IntegerOverflow")
    BY <1>0, <2>4, TrapSound
  <2> QED BY <1>3, <1>13, <2>2, <2>3, <2>4 DEF Divide
<1>14. CASE Select
  <2>1. code[pc].op = "select"
    BY <1>14 DEF Select
  <2>2. Straight(3, 1)
    BY <1>1, <1>2, <2>1, PlainStraight
  <2>3. Len(stack) \in Nat /\ Len(stack) >= 3 /\ \A i \in 1 .. Len(stack) : stack[i] \in Val
    BY <2>2, Popped DEF Straight
  <2>4. Len(stack) - 2 \in 1 .. Len(stack) /\ Len(stack) - 1 \in 1 .. Len(stack) /\ ~(Len(stack) < 3)
    BY <2>3
  <2>5. stack[Len(stack) - 2] \in Val /\ stack[Len(stack) - 1] \in Val
    BY <2>3, <2>4
  <2>6. replace(3, IF Top(stack) # 0 THEN stack[Len(stack) - 2] ELSE stack[Len(stack) - 1])
    BY <1>14, <2>4 DEF Select
  <2> QED BY <1>3, <2>2, <2>5, <2>6
<1>15. CASE CallHost
  <2>1. code[pc].op = "call"
    BY <1>15 DEF CallHost
  <2>2. Straight(1, 1)
    BY <2>1, OtherStraight
  <2>3. CASE trap("HostCallError")
    BY <1>0, <2>3, TrapSound
  <2> QED BY <1>3, <1>15, <2>2, <2>3 DEF CallHost, PARAMS
<1> QED BY <1>4, <1>5, <1>6, <1>7, <1>8, <1>9, <1>10, <1>11, <1>12, <1>13, <1>14, <1>15

(* Control never runs past the body; an instruction without a case stops the run. *)
LEMMA UndecodedSound ==
  ASSUME Sound, Running, UNCHANGED <<build_vars, phase>>, Undecoded
  PROVE  Sound'
<1>1. Body /\ MachineOK /\ phase = "run" /\ pc \in 1 .. Len(code) /\ Len(code) \in Nat
  BY CurrentFrame, CurrentPlace DEF Running
<1>2. code[pc].op \in Unimplemented /\ trap("UnknownOpcode")
  <2>1. ~(pc > Len(code))
    BY <1>1
  <2> QED BY <2>1 DEF Undecoded
<1>3. outcome' = "UnknownOpcode" /\ UNCHANGED <<pc, stack, locals, labels, frames>> /\ code' = code
  BY <1>2 DEF trap, build_vars
<1>4. MachineOK'
  BY <1>1, <1>3 DEF MachineOK, Traps
<1>5. outcome' # "running" /\ ValidCodeDoesNotTrap'
  BY <1>2, <1>3 DEF ValidCodeDoesNotTrap
<1> QED BY <1>1, <1>4, <1>5, SoundStopped

LEMMA SimpleSound ==
  ASSUME Sound, Running, Rest, Nop \/ Unreachable \/ Drop \/ Store
  PROVE  Sound'
<1> USE DEF Fetched
<1>0. UNCHANGED <<build_vars, phase>>
  BY DEF Rest
<1>1. /\ "nop" \in DOMAIN PlainOps /\ PlainOps["nop"][1] = 0 /\ PlainOps["nop"][2] = 0
      /\ "drop" \in DOMAIN PlainOps /\ PlainOps["drop"][1] = 1 /\ PlainOps["drop"][2] = 0
      /\ "store" \in DOMAIN PlainOps /\ PlainOps["store"][1] = 2 /\ PlainOps["store"][2] = 0
  <2>1. "nop" \in DOMAIN PlainOps /\ "drop" \in DOMAIN PlainOps /\ "store" \in DOMAIN PlainOps
    BY PlainOpNames
  <2> QED BY <2>1 DEF PlainOps
<1>2. CASE Nop
  <2>1. Straight(0, 0)
    BY <1>1, <1>2, PlainStraight DEF Nop
  <2>2. /\ stack \in Seq(Val) /\ Len(stack) \in Nat /\ Len(stack) <= MAX_STACK
        /\ locals \in [0 .. MAX_LOCALS * MAX_CALL_DEPTH - 1 -> Val]
    BY CurrentPlace, CurrentFrame DEF MachineOK
  <2>3. pc' = pc + 1 /\ UNCHANGED <<stack, locals, labels, frames, outcome>>
    BY <1>2 DEF Nop, Next_pc
  <2> QED BY <2>1, <2>2, <2>3, StraightStep
<1>3. CASE Unreachable
  BY <1>0, <1>3, TrapSound DEF Unreachable
<1>4. CASE Drop
  <2>1. Straight(1, 0)
    BY <1>1, <1>4, PlainStraight DEF Drop
  <2> QED BY <1>4, <2>1, DiscardSound DEF Drop
<1>5. CASE Store
  <2>1. Straight(2, 0)
    BY <1>1, <1>5, PlainStraight DEF Store
  <2>2. CASE trap("OutOfBounds")
    BY <1>0, <2>2, TrapSound
  <2> QED BY <1>5, <2>1, <2>2, DiscardSound DEF Store
<1> QED BY <1>2, <1>3, <1>4, <1>5


(* Every frame that fits on the call stack has its local. *)
LEMMA LocalSlots ==
  ASSUME NEW m \in Nat, m < MAX_CALL_DEPTH
  PROVE  /\ m \in 0 .. MAX_LOCALS * MAX_CALL_DEPTH - 1
         /\ m + 1 <= MAX_LOCALS * MAX_CALL_DEPTH /\ MAX_LOCALS * MAX_CALL_DEPTH \in Nat
<1>1. MAX_LOCALS \in Nat /\ MAX_CALL_DEPTH \in Nat /\ MAX_LOCALS >= 1
  BY InterpAssumption
<1>2. PICK k \in Nat : MAX_LOCALS = k + 1
  <2>1. MAX_LOCALS - 1 \in Nat /\ MAX_LOCALS = (MAX_LOCALS - 1) + 1
    BY <1>1
  <2> QED BY <2>1
<1>3. MAX_LOCALS * MAX_CALL_DEPTH = k * MAX_CALL_DEPTH + MAX_CALL_DEPTH
  BY <1>1, <1>2
<1>4. k * MAX_CALL_DEPTH \in Nat
  BY <1>1
<1> QED BY <1>1, <1>3, <1>4

LEMMA LocalSound ==
  ASSUME Sound, Running, Rest, LocalGet \/ LocalSet
  PROVE  Sound'
<1> USE DEF Fetched
<1> DEFINE b == Len(frames) - 1
<1>1. /\ Len(frames) \in Nat \ {0} /\ frame.locals_base = b /\ frame.local_count = 1
      /\ Len(frames) <= MAX_CALL_DEPTH
      /\ locals \in [0 .. MAX_LOCALS * MAX_CALL_DEPTH - 1 -> Val]
  BY CurrentFrame DEF MachineOK
<1>2. b \in 0 .. MAX_LOCALS * MAX_CALL_DEPTH - 1
  <2>1. b \in Nat /\ b < MAX_CALL_DEPTH
    BY <1>1, InterpAssumption
  <2> QED BY <2>1, LocalSlots
<1>3. ASSUME code[pc].arg = 0
      PROVE  IsLocal(code[pc].arg) /\ frame.locals_base + code[pc].arg = b
  BY <1>1, <1>3 DEF IsLocal
<1>4. CASE LocalGet
  <2>1. Straight(0, 1) /\ code[pc].arg = 0
    BY <1>4, OtherStraight DEF LocalGet
  <2>2. replace(0, locals[b])
    BY <1>3, <1>4, <2>1 DEF LocalGet
  <2>3. locals[b] \in Val
    BY <1>1, <1>2
  <2> QED BY <2>1, <2>2, <2>3, ReplaceSound
<1>5. ASSUME NEW op \in {"local_set", "local_tee"}, code[pc].op = op,
             IF stack = << >> THEN trap("StackUnderflow")
             ELSE IF ~IsLocal(code[pc].arg) THEN trap("InvalidLocal")
             ELSE /\ locals' = [locals EXCEPT ![frame.locals_base + code[pc].arg] = Top(stack)]
                  /\ stack' = IF op = "local_set" THEN sp_set(Len(stack) - 1) ELSE stack
                  /\ Next_pc
                  /\ UNCHANGED <<labels, frames, outcome>>
      PROVE  Sound'
  <2>1. /\ "local_set" \in DOMAIN PlainOps /\ PlainOps["local_set"][1] = 1 /\ PlainOps["local_set"][2] = 0
        /\ "local_tee" \in DOMAIN PlainOps /\ PlainOps["local_tee"][1] = 1 /\ PlainOps["local_tee"][2] = 1
    <3>1. "local_set" \in DOMAIN PlainOps /\ "local_tee" \in DOMAIN PlainOps
      BY PlainOpNames
    <3> QED BY <3>1 DEF PlainOps
  <2>2. /\ op = "local_set" => Straight(1, 0)
        /\ op = "local_tee" => Straight(1, 1)
        /\ code[pc].arg = 0
    BY <1>5, <2>1, PlainStraight
  <2>3. types[pc].height >= 1
    BY <1>5, <2>2 DEF Straight
  <2>4. /\ Len(stack) \in Nat /\ Len(stack) >= 1 /\ stack # << >> /\ Top(stack) \in Val
    BY <2>3, Popped
  <2>5. /\ locals' = [locals EXCEPT ![b] = Top(stack)]
        /\ stack' = IF op = "local_set" THEN sp_set(Len(stack) - 1) ELSE stack
        /\ pc' = pc + 1 /\ UNCHANGED <<labels, frames, outcome>>
    BY <1>3, <1>5, <2>2, <2>4 DEF Next_pc
  <2>6. /\ locals' \in [0 .. MAX_LOCALS * MAX_CALL_DEPTH - 1 -> Val]
        /\ \A i \in 0 .. Len(frames) - 2 : locals'[i] = locals[i]
    <3>1. locals' \in [0 .. MAX_LOCALS * MAX_CALL_DEPTH - 1 -> Val]
      BY <1>1, <2>4, <2>5
    <3>2. ASSUME NEW i \in 0 .. Len(frames) - 2
          PROVE  locals'[i] = locals[i]
      <4>1. i # b /\ i \in Nat
        BY <1>1
      <4>2. i < MAX_CALL_DEPTH
        BY <1>1, InterpAssumption
      <4>3. i \in 0 .. MAX_LOCALS * MAX_CALL_DEPTH - 1
        BY <4>1, <4>2, LocalSlots
      <4> QED BY <1>1, <2>5, <4>1, <4>3
    <3> QED BY <3>1, <3>2
  <2>7. stack \in Seq(Val) /\ Len(stack) <= MAX_STACK /\ MAX_STACK \in Nat
    BY CurrentPlace, InterpAssumption
  <2>8. CASE op = "local_set"
    <3>1. stack' = sp_set(Len(stack) - 1) /\ Len(stack) - 1 \in Nat /\ Len(stack) - 1 <= Len(stack)
      BY <2>4, <2>5, <2>8
    <3>2. stack' \in Seq(Val) /\ Len(stack') = Len(stack) - 1
          /\ \A i \in 1 .. Len(stack) - 1 : stack'[i] = stack[i]
      BY <3>1, SpSet
    <3>3. Len(stack') + 1 = Len(stack) + 0 /\ Len(stack') <= MAX_STACK
      BY <2>4, <2>7, <3>2
    <3>4. 1 \in Nat /\ 0 \in Nat
      OBVIOUS
    <3> QED BY <2>2, <2>5, <2>6, <2>8, <3>2, <3>3, <3>4, StraightStep, Zenon
  <2>9. CASE op = "local_tee"
    <3>1. stack' = stack
      BY <2>5, <2>9
    <3>2. Len(stack') + 1 = Len(stack) + 1 /\ Len(stack') <= MAX_STACK /\ stack' \in Seq(Val)
          /\ \A i \in 1 .. Len(stack) - 1 : stack'[i] = stack[i]
      BY <2>7, <3>1
    <3> QED BY <2>2, <2>5, <2>6, <2>9, <3>2, StraightStep
  <2> QED BY <1>5, <2>8, <2>9
<1> QED BY <1>4, <1>5 DEF LocalSet


----------------------------------------------------------------------------
(* Entering and leaving blocks. *)

(* The label of the block that instruction o opens. *)
LabelFrom(o, d) ==
  IF code[o].op = "loop" THEN label(o + 1, d + Below(code[o], types[o]), 0, TRUE)
  ELSE label(skip_to_end(o + 1), d + Below(code[o], types[o]), code[o].arg, FALSE)

LEMMA LabelOfNew ==
  ASSUME NEW o, NEW d
  PROVE  /\ LabelOf(code, NewEntry(code[o], o, types[o]), d) = LabelFrom(o, d)
         /\ code[o].op = "if"
            => LabelOf(code, ElseEntry(NewEntry(code[o], o, types[o])), d) = LabelFrom(o, d)
<1> DEFINE e == NewEntry(code[o], o, types[o])
           f == ElseEntry(e)
<1>1. /\ e.kind = code[o].op /\ e.height = Below(code[o], types[o])
      /\ e.results = code[o].arg /\ e.at = o
  BY DEF NewEntry
<1>2. f.kind = "else" /\ f.height = e.height /\ f.results = e.results /\ f.at = e.at
  BY DEF NewEntry, ElseEntry
<1> HIDE DEF e, f
<1>3. skip_to_end(o + 1) = EndAfter(code, o + 1)
  BY SkipIsEnd
<1>4. LabelOf(code, e, d) = LabelFrom(o, d)
  BY <1>1, <1>3 DEF LabelOf, LabelFrom
<1>5. code[o].op = "if" => LabelOf(code, f, d) = LabelFrom(o, d)
  BY <1>1, <1>2, <1>3 DEF LabelOf, LabelFrom
<1> QED BY <1>4, <1>5 DEF e, f

(* The rule of an instruction that opens a block, and the depth of its label. *)
LEMMA OpenerOf ==
  ASSUME Sound, Running, code[pc].op \in {"block", "loop", "if"}
  PROVE  /\ OpenRule(code[pc], pc, types[pc], types[pc + 1])
         /\ pc \in 1 .. Len(code) - 1 /\ pc + 1 \in 1 .. Len(code) /\ Opens(pc)
         /\ Below(code[pc], types[pc]) \in Nat
         /\ code[pc].op = "if" => /\ types[pc].height >= 1
                                  /\ Below(code[pc], types[pc]) + 1 = types[pc].height
         /\ code[pc].op # "if" => Below(code[pc], types[pc]) = types[pc].height
         /\ code[pc].arg \in {0, 1}
<1>1. pc \in 1 .. Len(code) - 1 /\ pc + 1 \in 1 .. Len(code) /\ Body
  BY NotLast, CurrentFrame
<1>2. OpenRule(code[pc], pc, types[pc], types[pc + 1])
  BY <1>1, BodyStep
<1>3. types[pc] \in ValidationState /\ Len(types[pc].control) >= 1 /\ types[pc].height \in Nat
  BY CurrentPlace DEF Level
<1>4. code[pc].op = "if" => types[pc].height >= 1
  BY <1>2, <1>3, OperandsBelow DEF OpenRule
<1>5. code[pc].op = "if" => Below(code[pc], types[pc]) = types[pc].height - 1
  BY DEF Below
<1>6. code[pc].op # "if" => Below(code[pc], types[pc]) = types[pc].height
  BY DEF Below
<1>7. Opens(pc) /\ code[pc].arg \in {0, 1}
  BY <1>2 DEF Opens, OpenRule
<1> QED BY <1>1, <1>2, <1>3, <1>4, <1>5, <1>6, <1>7

LEMMA LabelInRange ==
  ASSUME Sound, Running, code[pc].op \in {"block", "loop", "if"}
  PROVE  LabelFrom(pc, frame.stack_depth) \in Label
<1>1. /\ Body /\ pc \in 1 .. Len(code) - 1 /\ Opens(pc) /\ Below(code[pc], types[pc]) \in Nat
      /\ code[pc].arg \in {0, 1}
      /\ Below(code[pc], types[pc]) <= types[pc].height
  <2>1. types[pc].height \in Nat
    BY CurrentPlace
  <2> QED BY <2>1, OpenerOf, CurrentFrame
<1>2. /\ Len(stack) = frame.stack_depth + types[pc].height /\ Len(stack) <= MAX_STACK
      /\ frame.stack_depth \in Nat /\ types[pc].height \in Nat /\ Len(code) \in Nat
  BY CurrentPlace, CurrentFrame
<1> DEFINE d == frame.stack_depth + Below(code[pc], types[pc])
<1>3. d \in 0 .. MAX_STACK
  BY <1>1, <1>2, InterpAssumption
<1>4. skip_to_end(pc + 1) \in Nat /\ pc + 1 \in Nat
  <2>1. skip_to_end(pc + 1) \in pc + 2 .. Len(code)
    BY <1>1, AfterBlock
  <2> QED BY <1>1, <1>2, <2>1
<1> HIDE DEF d
<1>5. label(pc + 1, d, 0, TRUE) \in Label
  BY <1>3, <1>4 DEF label, Label
<1>6. label(skip_to_end(pc + 1), d, code[pc].arg, FALSE) \in Label
  BY <1>1, <1>3, <1>4 DEF label, Label
<1> QED BY <1>5, <1>6 DEF LabelFrom, d

LEMMA LabelIndex ==
  ASSUME NEW a \in Nat, NEW b \in Nat, NEW n, n = a + b
  PROVE  /\ n \in Nat /\ a <= n /\ a + (b + 1) = n + 1
         /\ \A k \in 1 .. b : a + k \in 1 .. n
  OBVIOUS

LEMMA CurrentLabels ==
  ASSUME Sound, Running
  PROVE  /\ frame.label_base + (Level(types, pc) + 1) = Len(labels) + 1
         /\ \A k \in 1 .. Level(types, pc) : frame.label_base + k \in 1 .. Len(labels)
         /\ frame.label_base <= Len(labels)
<1>1. frame.label_base \in Nat /\ Level(types, pc) \in Nat
  BY CurrentFrame, CurrentPlace
<1>2. Len(labels) = frame.label_base + Level(types, pc)
  BY CurrentPlace
<1> QED BY <1>1, <1>2, LabelIndex

LEMMA EnterSound ==
  ASSUME Sound, Running, Rest, code[pc].op \in {"block", "loop", "if"},
         NEW st \in Seq(Val), Len(st) = frame.stack_depth + Below(code[pc], types[pc]),
         Len(st) <= Len(stack), \A i \in 1 .. Len(st) : st[i] = stack[i],
         NEW q \in 1 .. Len(code), Level(types, q) = Level(types, pc) + 1,
         \A l \in 1 .. Level(types, pc) : OpenBlock(types, q, l) = OpenBlock(types, pc, l),
         LabelOf(code, OpenBlock(types, q, Level(types, pc) + 1), frame.stack_depth) =
           LabelFrom(pc, frame.stack_depth),
         types[q].height = Below(code[pc], types[pc]), ~types[q].dead,
         push_label(LabelFrom(pc, frame.stack_depth), st, q)
  PROVE  Sound'
<1> DEFINE lb == LabelFrom(pc, frame.stack_depth)
<1>1. lb \in Label
  BY LabelInRange
<1>2. UNCHANGED <<build_vars, phase>>
  BY DEF Rest
<1> HIDE DEF lb
<1>3. CASE Len(labels) >= MAX_LABELS
  <2>1. trap("LabelStackOverflow")
    BY <1>3 DEF push_label
  <2> QED BY <1>2, <2>1, TrapSound
<1>4. CASE ~(Len(labels) >= MAX_LABELS)
  <2>1. /\ labels' = Append(labels, lb) /\ stack' = st /\ pc' = q
        /\ UNCHANGED <<locals, frames, outcome>>
    BY <1>4 DEF push_label, lb
  <2>2. /\ Len(labels) \in Nat /\ labels \in Seq(Label)
        /\ Len(labels) = frame.label_base + Level(types, pc)
        /\ Level(types, pc) \in Nat /\ frame.label_base \in Nat /\ frame.stack_depth \in Nat
        /\ Len(stack) \in Nat /\ Len(stack) <= MAX_STACK /\ Below(code[pc], types[pc]) \in Nat
        /\ locals \in [0 .. MAX_LOCALS * MAX_CALL_DEPTH - 1 -> Val]
    BY CurrentPlace, CurrentFrame, OpenerOf DEF MachineOK
  <2>3. /\ labels' \in Seq(Label) /\ Len(labels') = Len(labels) + 1
        /\ \A i \in 1 .. Len(labels) : labels'[i] = labels[i]
        /\ labels'[Len(labels) + 1] = lb
    BY <1>1, <2>1, <2>2, AppendProperties, SMTT(30)
  <2>9. /\ frame.label_base + (Level(types, pc) + 1) = Len(labels) + 1
        /\ \A k \in 1 .. Level(types, pc) : frame.label_base + k \in 1 .. Len(labels)
    BY CurrentLabels
  <2>4. ASSUME NEW k \in 2 .. Level(types, q)
        PROVE  labels'[frame.label_base + k] = LabelOf(code, OpenBlock(types, q, k), frame.stack_depth)
    <3>1. CASE k = Level(types, pc) + 1
      <4>1. frame.label_base + k = Len(labels) + 1
        BY <3>1, <2>9
      <4> QED BY <2>3, <3>1, <4>1 DEF lb
    <3>2. CASE k # Level(types, pc) + 1
      <4>1. k \in 2 .. Level(types, pc) /\ k \in 1 .. Level(types, pc)
        BY <2>2, <2>4, <3>2
      <4>2. frame.label_base + k \in 1 .. Len(labels)
        BY <2>9, <4>1
      <4>3. OpenBlock(types, q, k) = OpenBlock(types, pc, k)
        BY <4>1
      <4>4. labels[frame.label_base + k] = LabelOf(code, OpenBlock(types, pc, k), frame.stack_depth)
        BY <4>1, CurrentPlace
      <4> QED BY <2>3, <4>2, <4>3, <4>4
    <3> QED BY <3>1, <3>2
  <2>5. Matches(code, types, frame, pc', labels', Len(labels'), Len(stack'))
    <3>1. Len(labels') = frame.label_base + Level(types, q)
      BY <2>3, <2>9
    <3>2. Len(stack') = frame.stack_depth + types[q].height
      BY <2>1
    <3> QED BY <2>1, <2>4, <3>1, <3>2, Zenon DEF Matches
  <2>6. /\ Len(stack') <= MAX_STACK
        /\ \A i \in 1 .. frame.stack_depth : stack'[i] = stack[i]
        /\ Len(labels') <= MAX_LABELS
        /\ \A i \in 1 .. frame.label_base : labels'[i] = labels[i]
    <3>1. Len(st) \in Nat /\ frame.stack_depth <= Len(st)
      BY <2>2, LenProperties
    <3>2. Len(st) <= MAX_STACK /\ \A i \in 1 .. frame.stack_depth : st[i] = stack[i]
      <4>1. Len(st) <= MAX_STACK
        BY <2>2, <3>1, InterpAssumption
      <4>2. \A i \in 1 .. frame.stack_depth : i \in 1 .. Len(st)
        BY <2>2, <3>1
      <4> QED BY <4>1, <4>2
    <3>3. Len(labels) + 1 <= MAX_LABELS
      BY <1>4, <2>2, InterpAssumption, SMTT(30)
    <3>4. \A i \in 1 .. frame.label_base : i \in 1 .. Len(labels)
      BY <2>2
    <3> QED BY <2>1, <2>3, <3>2, <3>3, <3>4
  <2>7. TopOnly
    BY <2>1, <2>2, <2>3, <2>5, <2>6 DEF TopOnly
  <2> QED BY <2>7, SameFrames
<1> QED BY <1>3, <1>4


(* Going on at q, with the labels of the blocks around q only. *)
LEMMA JumpSound ==
  ASSUME Sound, Running, Rest, NEW q \in 1 .. Len(code), ~types[q].dead,
         Level(types, q) <= Level(types, pc),
         \A l \in 1 .. Level(types, q) : OpenBlock(types, q, l) = OpenBlock(types, pc, l),
         labels' \in Seq(Label), Len(labels') = frame.label_base + Level(types, q),
         \A i \in 1 .. Len(labels') : labels'[i] = labels[i],
         stack' \in Seq(Val), Len(stack') = frame.stack_depth + types[q].height,
         Len(stack') <= MAX_STACK, \A i \in 1 .. frame.stack_depth : stack'[i] = stack[i],
         pc' = q, UNCHANGED <<locals, frames, outcome>>
  PROVE  Sound'
<1>1. /\ frame.label_base \in Nat /\ Level(types, pc) \in Nat /\ Len(labels) \in Nat
      /\ Len(labels) <= MAX_LABELS /\ Len(labels) = frame.label_base + Level(types, pc)
      /\ locals \in [0 .. MAX_LOCALS * MAX_CALL_DEPTH - 1 -> Val]
  BY CurrentPlace, CurrentFrame DEF MachineOK
<1>2. Level(types, q) \in Nat
  BY CurrentFrame, LevelTypes
<1>3. Len(labels') \in Nat /\ frame.label_base <= Len(labels')
      /\ \A k \in 1 .. Level(types, q) : frame.label_base + k \in 1 .. Len(labels')
  BY <1>1, <1>2, LabelIndex
<1>4. Len(labels') <= MAX_LABELS
  <2>1. \A a, b, c \in Nat : b <= c => a + b <= a + c
    OBVIOUS
  <2>2. Len(labels') <= Len(labels)
    BY <1>1, <1>2, <2>1, Zenon
  <2> QED BY <1>1, <1>3, <2>2, InterpAssumption
<1>5. ASSUME NEW k \in 2 .. Level(types, q)
      PROVE  labels'[frame.label_base + k] = LabelOf(code, OpenBlock(types, q, k), frame.stack_depth)
  <2>1. k \in 2 .. Level(types, pc) /\ k \in 1 .. Level(types, q)
    BY <1>1, <1>2
  <2>2. OpenBlock(types, q, k) = OpenBlock(types, pc, k)
    BY <2>1
  <2>3. labels[frame.label_base + k] = LabelOf(code, OpenBlock(types, pc, k), frame.stack_depth)
    BY <2>1, CurrentPlace
  <2>4. labels'[frame.label_base + k] = labels[frame.label_base + k]
    BY <1>3, <2>1
  <2> QED BY <2>2, <2>3, <2>4
<1>6. Matches(code, types, frame, pc', labels', Len(labels'), Len(stack'))
  BY <1>5, Zenon DEF Matches
<1>7. \A i \in 1 .. frame.label_base : labels'[i] = labels[i]
  <2>1. \A i \in 1 .. frame.label_base : i \in 1 .. Len(labels')
    BY <1>1, <1>3
  <2> QED BY <2>1
<1>8. TopOnly
  BY <1>1, <1>4, <1>6, <1>7 DEF TopOnly
<1> QED BY <1>8, SameFrames

(* What the blocks are at the start of a block's body. *)
LEMMA AtBody ==
  ASSUME Sound, Running, code[pc].op \in {"block", "loop", "if"}
  PROVE  /\ Level(types, pc + 1) = Level(types, pc) + 1
         /\ \A l \in 1 .. Level(types, pc) : OpenBlock(types, pc + 1, l) = OpenBlock(types, pc, l)
         /\ LabelOf(code, OpenBlock(types, pc + 1, Level(types, pc) + 1), frame.stack_depth) =
              LabelFrom(pc, frame.stack_depth)
         /\ types[pc + 1].height = Below(code[pc], types[pc])
         /\ ~types[pc + 1].dead
<1>1. Body /\ pc \in 1 .. Len(code) - 1 /\ OpenRule(code[pc], pc, types[pc], types[pc + 1])
  BY OpenerOf, CurrentFrame
<1>2. /\ Level(types, pc + 1) = Level(types, pc) + 1
      /\ Kept(types, pc, Level(types, pc))
      /\ OpenBlock(types, pc + 1, Level(types, pc) + 1) = NewEntry(code[pc], pc, types[pc])
  BY <1>1, BodyStep
<1>3. types[pc + 1].height = Below(code[pc], types[pc]) /\ ~types[pc + 1].dead
  BY <1>1 DEF OpenRule, Typed
<1> QED BY <1>2, <1>3, LabelOfNew DEF Kept

LEMMA BlockSound ==
  ASSUME Sound, Running, Rest, Block \/ Loop
  PROVE  Sound'
<1>1. code[pc].op \in {"block", "loop"}
  BY DEF Block, Loop, Fetched
<1>2. /\ stack \in Seq(Val) /\ Len(stack) \in Nat
      /\ Len(stack) = frame.stack_depth + types[pc].height
  BY CurrentPlace
<1>3. pc + 1 \in 1 .. Len(code) /\ Below(code[pc], types[pc]) = types[pc].height
  BY <1>1, OpenerOf
<1>4. push_label(LabelFrom(pc, frame.stack_depth), stack, pc + 1)
  <2>1. CASE Block
    BY <1>2, <1>3, <2>1 DEF Block, LabelFrom, Fetched
  <2>2. CASE Loop
    BY <1>2, <1>3, <2>2 DEF Loop, LabelFrom, Fetched
  <2> QED BY <2>1, <2>2
<1>5. code[pc].op \in {"block", "loop", "if"}
  BY <1>1
<1> QED BY <1>2, <1>3, <1>4, <1>5, AtBody, EnterSound

LEMMA IfSound ==
  ASSUME Sound, Running, Rest, If
  PROVE  Sound'
<1>1. code[pc].op = "if"
  BY DEF If, Fetched
<1>2. /\ stack \in Seq(Val) /\ Len(stack) \in Nat /\ types[pc].height \in Nat
      /\ Len(stack) = frame.stack_depth + types[pc].height /\ frame.stack_depth \in Nat
      /\ Len(stack) <= MAX_STACK /\ labels \in Seq(Label)
      /\ Len(labels) = frame.label_base + Level(types, pc) /\ Body
      /\ Level(types, pc) \in Nat
  BY CurrentPlace, CurrentFrame
<1>3. /\ pc \in 1 .. Len(code) - 1 /\ pc + 1 \in 1 .. Len(code) /\ Opens(pc)
      /\ Below(code[pc], types[pc]) \in Nat
      /\ types[pc].height >= 1 /\ Below(code[pc], types[pc]) + 1 = types[pc].height
  BY <1>1, OpenerOf
<1> DEFINE st == SubSeq(stack, 1, Len(stack) - 1)
           skip == skip_to_else_or_end(pc + 1)
<1>4. /\ st \in Seq(Val) /\ Len(st) = Len(stack) - 1
      /\ \A i \in 1 .. Len(stack) - 1 : st[i] = stack[i]
  <2>1. \A i \in 1 .. Len(stack) - 1 : stack[i] \in Val
    BY <1>2, ElementOfSeq
  <2>2. Len(stack) >= 1
    BY <1>2, <1>3
  <2> QED BY <1>2, <2>1, <2>2, SubSeqProperties
<1>5. Len(st) = frame.stack_depth + Below(code[pc], types[pc]) /\ Len(st) <= Len(stack)
      /\ Len(st) <= MAX_STACK
  BY <1>2, <1>3, <1>4, InterpAssumption, SMTT(30)
<1>6. stack # << >>
  BY <1>3, Popped
<1>7. label(skip_to_end(pc + 1), Len(st), code[pc].arg, FALSE) = LabelFrom(pc, frame.stack_depth)
  BY <1>1, <1>5 DEF LabelFrom
<1>8. \/ push_label(LabelFrom(pc, frame.stack_depth), st, pc + 1)
      \/ skip.has_else /\ push_label(LabelFrom(pc, frame.stack_depth), st, skip.pc)
      \/ /\ ~skip.has_else /\ stack' = st /\ pc' = skip.pc
         /\ UNCHANGED <<locals, labels, frames, outcome>>
  BY <1>6, <1>7 DEF If
<1>9. ASSUME NEW s, s = skip
      PROVE  \/ /\ s.has_else
                /\ s.pc \in pc + 2 .. Len(code)
                /\ Level(types, s.pc) = Level(types, pc) + 1
                /\ \A l \in 1 .. Level(types, pc) :
                      OpenBlock(types, s.pc, l) = OpenBlock(types, pc, l)
                /\ OpenBlock(types, s.pc, Level(types, pc) + 1) =
                     ElseEntry(NewEntry(code[pc], pc, types[pc]))
                /\ types[s.pc].height = Below(code[pc], types[pc])
                /\ ~types[s.pc].dead
             \/ ~s.has_else /\ s.pc = skip_to_end(pc + 1) /\ code[pc].arg = 0
  BY <1>1, <1>2, <1>3, <1>9, ElseOrEnd
<1> HIDE DEF st, skip
<1>10. CASE push_label(LabelFrom(pc, frame.stack_depth), st, pc + 1)
  <2>1. code[pc].op \in {"block", "loop", "if"}
    BY <1>1
  <2>2. \A i \in 1 .. Len(st) : st[i] = stack[i]
    BY <1>4
  <2> QED BY <1>3, <1>4, <1>5, <1>10, <2>1, <2>2, AtBody, EnterSound
<1>11. CASE skip.has_else /\ push_label(LabelFrom(pc, frame.stack_depth), st, skip.pc)
  <2>1. code[pc].op \in {"block", "loop", "if"}
    BY <1>1
  <2>2. \A i \in 1 .. Len(st) : st[i] = stack[i]
    BY <1>4
  <2>3. PICK q : q = skip.pc
    OBVIOUS
  <2>4. /\ q \in pc + 2 .. Len(code)
        /\ Level(types, q) = Level(types, pc) + 1
        /\ \A l \in 1 .. Level(types, pc) : OpenBlock(types, q, l) = OpenBlock(types, pc, l)
        /\ OpenBlock(types, q, Level(types, pc) + 1) = ElseEntry(NewEntry(code[pc], pc, types[pc]))
        /\ types[q].height = Below(code[pc], types[pc])
        /\ ~types[q].dead
    BY <1>9, <1>11, <2>3
  <2>5. q \in 1 .. Len(code)
    BY <1>3, <2>4
  <2>6. LabelOf(code, OpenBlock(types, q, Level(types, pc) + 1), frame.stack_depth) =
          LabelFrom(pc, frame.stack_depth)
    BY <1>1, <2>4, LabelOfNew
  <2>7. push_label(LabelFrom(pc, frame.stack_depth), st, q)
    BY <1>11, <2>3
  <2> QED BY <1>4, <1>5, <2>1, <2>2, <2>4, <2>5, <2>6, <2>7, EnterSound
<1>12. CASE /\ ~skip.has_else /\ stack' = st /\ pc' = skip.pc
            /\ UNCHANGED <<locals, labels, frames, outcome>>
  <2>1. pc' = skip_to_end(pc + 1) /\ code[pc].arg = 0
    BY <1>9, <1>12
  <2>2. PICK q : q = skip_to_end(pc + 1)
    OBVIOUS
  <2>3. /\ q \in pc + 2 .. Len(code) /\ Level(types, q) = Level(types, pc)
        /\ \A l \in 1 .. Level(types, pc) : OpenBlock(types, q, l) = OpenBlock(types, pc, l)
        /\ types[q].height = Below(code[pc], types[pc]) + code[pc].arg
        /\ ~types[q].dead
    BY <1>2, <1>3, <2>2, AfterBlock
  <2>4. q \in 1 .. Len(code) /\ pc' = q
    BY <1>3, <2>1, <2>2, <2>3
  <2>5. types[q].height = Below(code[pc], types[pc])
    BY <1>3, <2>1, <2>3
  <2>6. \A i \in 1 .. frame.stack_depth : st[i] = stack[i]
    BY <1>2, <1>3, <1>4, SMTT(30)
  <2>7. labels' = labels /\ Level(types, q) <= Level(types, pc)
    BY <1>2, <1>12, <2>3
  <2> QED BY <1>2, <1>4, <1>5, <1>12, <2>3, <2>4, <2>5, <2>6, <2>7, JumpSound
<1> QED BY <1>8, <1>10, <1>11, <1>12


(* The k-th block around the current instruction, and its label. *)
InBlock(k, o) ==
  /\ o \in 1 .. Len(code) - 1 /\ Opens(o) /\ Level(types, o) + 1 = k
  /\ OpenRule(code[o], o, types[o], types[o + 1])
  /\ \A l \in 1 .. Level(types, o) : OpenBlock(types, o, l) = OpenBlock(types, pc, l)
  /\ code[o].op = "loop" => OpenBlock(types, pc, k) = NewEntry(code[o], o, types[o])
  /\ Below(code[o], types[o]) \in Nat /\ code[o].arg \in {0, 1}
  /\ code[o].op = "loop" => code[o].arg = 0
  /\ labels[frame.label_base + k] = LabelFrom(o, frame.stack_depth)
  /\ OpenBlock(types, pc, k).height = Below(code[o], types[o])
  /\ OpenBlock(types, pc, k).results = code[o].arg
  /\ OpenBlock(types, pc, k).kind = "loop" <=> code[o].op = "loop"

LEMMA BlockAround ==
  ASSUME Sound, Running, NEW k \in 2 .. Level(types, pc)
  PROVE  \E o \in Nat : InBlock(k, o)
<1>1. Body /\ pc \in 1 .. Len(code) /\ Level(types, pc) \in Nat /\ Len(code) \in Nat
  BY CurrentFrame, CurrentPlace
<1>2. Nested(code, types, pc)
  BY <1>1, BodyFacts
<1>3. PICK o \in Nat : OpenedBy(code, types, pc, k, o)
  BY <1>2 DEF Nested
<1>4. o \in 1 .. pc - 1 /\ Level(types, o) = k - 1 /\ OpenRule(code[o], o, types[o], types[o + 1])
  BY <1>3 DEF OpenedBy
<1>5. o \in 1 .. Len(code) - 1 /\ o \in 1 .. Len(code) /\ Level(types, o) + 1 = k
  BY <1>1, <1>4
<1>6. code[o].op \in {"block", "loop", "if"} /\ code[o].arg \in {0, 1} /\ Opens(o)
      /\ (code[o].op = "loop" => code[o].arg = 0)
  BY <1>4 DEF OpenRule, Opens
<1>7. \A l \in 1 .. Level(types, o) : OpenBlock(types, o, l) = OpenBlock(types, pc, l)
  BY <1>3, <1>4 DEF OpenedBy
<1> DEFINE e == NewEntry(code[o], o, types[o])
           f == ElseEntry(e)
<1>8. OpenBlock(types, pc, k) = e \/ (OpenBlock(types, pc, k) = f /\ code[o].op = "if")
  BY <1>3 DEF OpenedBy
<1>9. e.kind = code[o].op /\ e.height = Below(code[o], types[o]) /\ e.results = code[o].arg
  BY DEF NewEntry
<1>10. f.kind = "else" /\ f.height = e.height /\ f.results = e.results
  BY DEF NewEntry, ElseEntry
<1>11. LabelOf(code, OpenBlock(types, pc, k), frame.stack_depth) = LabelFrom(o, frame.stack_depth)
  BY <1>8, LabelOfNew
<1>12. labels[frame.label_base + k] = LabelFrom(o, frame.stack_depth)
  BY <1>11, CurrentPlace
<1> HIDE DEF e, f
<1>13. /\ OpenBlock(types, pc, k).height = Below(code[o], types[o])
       /\ OpenBlock(types, pc, k).results = code[o].arg
       /\ OpenBlock(types, pc, k).kind = "loop" <=> code[o].op = "loop"
       /\ code[o].op = "loop" => OpenBlock(types, pc, k) = e
  BY <1>6, <1>8, <1>9, <1>10
<1>14. Below(code[o], types[o]) \in Nat
  <2>1. types[o] \in ValidationState /\ Len(types[o].control) >= 1
    BY <1>1, <1>5, BodyFacts, LevelTypes DEF Level
  <2>2. types[o].height \in Nat
    BY <2>1, StateTypes
  <2>3. code[o].op = "if" => types[o].height >= 1
    BY <1>4, <2>1, OperandsBelow DEF OpenRule
  <2> QED BY <2>2, <2>3 DEF Below
<1>15. InBlock(k, o)
  BY <1>4, <1>5, <1>6, <1>7, <1>12, <1>13, <1>14 DEF InBlock, e
<1> QED BY <1>15

(* The operands of a completed block are its results. *)
LEMMA CompletedBlock ==
  ASSUME Sound, Running, Complete(types[pc]), NEW o \in Nat, InBlock(Level(types, pc), o)
  PROVE  /\ types[pc].height = Below(code[o], types[o]) + code[o].arg
         /\ Len(stack) = (frame.stack_depth + Below(code[o], types[o])) + code[o].arg
         /\ frame.stack_depth + Below(code[o], types[o]) \in Nat
<1>1. /\ types[pc].height \in Nat /\ ~types[pc].dead /\ frame.stack_depth \in Nat
      /\ Len(stack) = frame.stack_depth + types[pc].height
  BY CurrentPlace, CurrentFrame
<1>2. /\ OpenBlock(types, pc, Level(types, pc)).height = Below(code[o], types[o])
      /\ OpenBlock(types, pc, Level(types, pc)).results = code[o].arg
      /\ Below(code[o], types[o]) \in Nat /\ code[o].arg \in {0, 1}
  BY DEF InBlock
<1>3. types[pc].height - OpenBlock(types, pc, Level(types, pc)).height =
        OpenBlock(types, pc, Level(types, pc)).results
  BY <1>1 DEF Complete, Operands, OpenAt, OpenBlock, Level
<1>4. types[pc].height - Below(code[o], types[o]) = code[o].arg
  BY <1>2, <1>3
<1>5. types[pc].height = Below(code[o], types[o]) + code[o].arg
  BY <1>1, <1>2, <1>4
<1> QED BY <1>1, <1>2, <1>5, SMTT(30)

(* What the END or the ELSE of such a block leaves. *)
LEMMA KeptResult ==
  ASSUME Sound, Running, NEW d \in Nat, NEW r \in {0, 1}, Len(stack) = d + r, NEW st,
         st = kept(d, r > 0 /\ Len(stack) > d) \/ (r = 0 /\ st = stack)
  PROVE  st \in Seq(Val) /\ Len(st) = d + r /\ \A i \in 1 .. d : st[i] = stack[i]
<1>1. stack \in Seq(Val) /\ Len(stack) \in Nat /\ d <= Len(stack)
  BY CurrentPlace
<1>2. sp_set(d) \in Seq(Val) /\ Len(sp_set(d)) = d /\ \A i \in 1 .. d : sp_set(d)[i] = stack[i]
  BY <1>1, SpSet
<1>3. CASE r = 0
  <2>1. st = sp_set(d) \/ st = stack
    BY <1>1, <1>3 DEF kept
  <2> QED BY <1>1, <1>2, <1>3, <2>1
<1>4. CASE r = 1
  <2>1. st = Append(sp_set(d), Top(stack))
    BY <1>1, <1>4 DEF kept
  <2>2. Top(stack) \in Val
    BY <1>1, <1>4, Popped
  <2> QED BY <1>1, <1>2, <1>4, <2>1, <2>2, PushOn
<1> QED BY <1>3, <1>4

LEMMA PoppedLabels ==
  ASSUME Sound, Running, NEW n \in Nat, n <= Level(types, pc), NEW lbs,
         lbs = SubSeq(labels, 1, Len(labels) - n)
  PROVE  /\ lbs \in Seq(Label) /\ Len(lbs) + n = frame.label_base + Level(types, pc)
         /\ \A i \in 1 .. Len(lbs) : lbs[i] = labels[i]
<1>1. /\ labels \in Seq(Label) /\ Len(labels) \in Nat /\ Level(types, pc) \in Nat
      /\ frame.label_base \in Nat /\ Len(labels) = frame.label_base + Level(types, pc)
  BY CurrentPlace, CurrentFrame
<1>2. Len(labels) - n \in Nat /\ Len(labels) - n <= Len(labels)
  BY <1>1
<1>3. \A i \in 1 .. Len(labels) - n : labels[i] \in Label
  BY <1>1, <1>2, ElementOfSeq
<1>4. /\ lbs \in Seq(Label) /\ Len(lbs) = Len(labels) - n
      /\ \A i \in 1 .. Len(labels) - n : lbs[i] = labels[i]
  BY <1>2, <1>3, SubSeqProperties
<1>5. (Len(labels) - n) + n = Len(labels)
  BY <1>1
<1>6. Len(lbs) + n = frame.label_base + Level(types, pc)
  BY <1>1, <1>4, <1>5, Zenon
<1> QED BY <1>4, <1>6


LEMMA ElseSound ==
  ASSUME Sound, Running, Rest, Else
  PROVE  Sound'
<1> DEFINE k == Level(types, pc)
<1>1. code[pc].op = "else"
  BY DEF Else, Fetched
<1>2. /\ Body /\ pc \in 1 .. Len(code) - 1 /\ k \in Nat \ {0} /\ frame.stack_depth \in Nat
      /\ frame.label_base \in Nat /\ Len(labels) = frame.label_base + k /\ Len(labels) \in Nat
      /\ Len(stack) <= MAX_STACK /\ Len(stack) \in Nat
  BY <1>1, NotLast, CurrentFrame, CurrentPlace
<1>3. ElseRule(code[pc], types[pc], types[pc + 1]) /\ OpenBlock(types, pc, k).kind = "if"
  BY <1>1, <1>2, BodyStep
<1>4. Complete(types[pc])
  BY <1>3 DEF ElseRule
<1>5. k \in 2 .. k
  <2>1. pc \in 1 .. Len(code)
    BY CurrentPlace
  <2>2. OpenBlock(types, pc, 1) = Func
    BY <1>2, <2>1, BodyFacts DEF Nested
  <2>3. Func.kind = "func"
    BY DEF Func
  <2>4. k # 1
    BY <1>3, <2>2, <2>3
  <2> QED BY <1>2, <2>4
<1>6. PICK o \in Nat : InBlock(k, o)
  BY <1>5, BlockAround
<1>7. code[o].op # "loop"
  BY <1>3, <1>6 DEF InBlock
<1> DEFINE d == frame.stack_depth + Below(code[o], types[o])
           r == code[o].arg
           lb == Top(labels)
<1>8. lb = LabelFrom(o, frame.stack_depth)
  BY <1>2, <1>6 DEF InBlock, Top
<1>9. /\ lb.target_pc = skip_to_end(o + 1) /\ lb.stack_depth = d /\ lb.result_count = r
  BY <1>7, <1>8 DEF LabelFrom, label
<1>10. d \in Nat /\ r \in {0, 1} /\ Len(stack) = d + r
       /\ types[pc].height = Below(code[o], types[o]) + r
  BY <1>4, <1>6, CompletedBlock DEF InBlock
<1>11. /\ stack' = kept(d, r > 0 /\ Len(stack) > d)
       /\ labels' = SubSeq(labels, 1, Len(labels) - 1)
       /\ pc' = skip_to_end(o + 1) /\ UNCHANGED <<locals, frames, outcome>>
  BY <1>9 DEF Else
<1>12. stack' \in Seq(Val) /\ Len(stack') = d + r /\ \A i \in 1 .. d : stack'[i] = stack[i]
  BY <1>10, <1>11, KeptResult
<1>13. PICK q : q = skip_to_end(o + 1)
  OBVIOUS
<1>14. /\ q \in o + 2 .. Len(code) /\ Level(types, q) = Level(types, o)
       /\ \A l \in 1 .. Level(types, o) : OpenBlock(types, q, l) = OpenBlock(types, o, l)
       /\ types[q].height = Below(code[o], types[o]) + r
       /\ ~types[q].dead /\ Level(types, o) + 1 = k
       /\ \A l \in 1 .. Level(types, o) : OpenBlock(types, o, l) = OpenBlock(types, pc, l)
  BY <1>2, <1>6, <1>13, AfterBlock DEF InBlock
<1>15. q \in 1 .. Len(code) /\ pc' = q
  BY <1>2, <1>11, <1>13, <1>14
<1>16. Level(types, q) \in Nat
  BY <1>2, <1>15, LevelTypes
<1>17. /\ labels' \in Seq(Label) /\ Len(labels') + 1 = frame.label_base + k
       /\ \A i \in 1 .. Len(labels') : labels'[i] = labels[i]
  <2>1. 1 \in Nat /\ 1 <= k
    BY <1>2
  <2> QED BY <1>11, <2>1, PoppedLabels
<1>18. Len(labels') = frame.label_base + Level(types, q) /\ Level(types, q) <= k
  <2>1. Len(labels') \in Nat
    BY <1>17, LenProperties
  <2>2. Level(types, q) + 1 = k
    BY <1>14
  <2>3. ASSUME NEW a \in Nat, NEW b \in Nat, NEW c \in Nat, a + 1 = b + k, c + 1 = k
        PROVE  a = b + c /\ c <= k
    BY <1>2, <2>3
  <2> QED BY <1>2, <1>16, <1>17, <2>1, <2>2, <2>3
<1>19. Len(stack') = frame.stack_depth + types[q].height /\ Len(stack') <= MAX_STACK
  <2>1. Len(stack') = Len(stack)
    BY <1>10, <1>12
  <2>2. types[q].height = types[pc].height
    BY <1>10, <1>14
  <2>3. Len(stack) = frame.stack_depth + types[pc].height
    BY CurrentPlace
  <2> QED BY <1>2, <2>1, <2>2, <2>3
<1>20. \A i \in 1 .. frame.stack_depth : stack'[i] = stack[i]
  <2>1. \A i \in 1 .. frame.stack_depth : i \in 1 .. d
    BY <1>2, <1>6 DEF InBlock
  <2> QED BY <1>12, <2>1
<1>21. \A l \in 1 .. Level(types, q) : OpenBlock(types, q, l) = OpenBlock(types, pc, l)
  BY <1>14
<1> QED BY <1>11, <1>12, <1>14, <1>15, <1>17, <1>18, <1>19, <1>20, <1>21, JumpSound

(* The END of a block, loop or if. *)
LEMMA EndBlockSound ==
  ASSUME Sound, Running, Rest, End, Level(types, pc) # 1
  PROVE  Sound'
<1> DEFINE k == Level(types, pc)
<1>1. code[pc].op = "end"
  BY DEF End, Fetched
<1>2. /\ Body /\ pc \in 1 .. Len(code) /\ k \in Nat \ {0} /\ frame.stack_depth \in Nat
      /\ frame.label_base \in Nat /\ Len(labels) = frame.label_base + k /\ Len(labels) \in Nat
      /\ Len(stack) <= MAX_STACK /\ Len(stack) \in Nat /\ Len(code) \in Nat
      /\ Len(stack) = frame.stack_depth + types[pc].height
  BY CurrentFrame, CurrentPlace
<1>3. pc \in 1 .. Len(code) - 1 /\ k \in 2 .. k
  <2>1. pc # Len(code)
    BY <1>2, BodyFacts
  <2> QED BY <1>2, <2>1
<1>4. /\ EndRule(code[pc], types[pc], types[pc + 1])
      /\ Level(types, pc + 1) = k - 1 /\ Kept(types, pc, k - 1)
  BY <1>1, <1>3, <1>2, BodyStep
<1>5. Complete(types[pc])
  BY <1>4 DEF EndRule
<1>6. PICK o \in Nat : InBlock(k, o)
  BY <1>3, BlockAround
<1> DEFINE d == frame.stack_depth + Below(code[o], types[o])
           r == code[o].arg
           lb == Top(labels)
<1>7. lb = LabelFrom(o, frame.stack_depth)
  BY <1>2, <1>6 DEF InBlock, Top
<1>8. lb.stack_depth = d /\ lb.result_count = r /\ (r = 0 \/ ~lb.is_loop)
  <2>1. code[o].op = "loop" => r = 0
    BY <1>6 DEF InBlock
  <2> QED BY <1>7, <2>1 DEF LabelFrom, label
<1>9. d \in Nat /\ r \in {0, 1} /\ Len(stack) = d + r
      /\ types[pc].height = Below(code[o], types[o]) + r
  BY <1>5, <1>6, CompletedBlock DEF InBlock
<1> HIDE DEF lb, d, r
<1>10. ~(Len(labels) - 1 = frame.label_base)
  BY <1>2
<1>11. /\ stack' = end_of_block(lb) /\ labels' = SubSeq(labels, 1, Len(labels) - 1)
       /\ pc' = pc + 1 /\ UNCHANGED <<locals, frames, outcome>>
  BY <1>10 DEF End, Next_pc, lb
<1>12. end_of_block(lb) = kept(d, r > 0 /\ Len(stack) > d) \/ (r = 0 /\ end_of_block(lb) = stack)
  <2>1. CASE r = 0
    <3>1. ~(lb.result_count > 0) /\ ~(Len(stack) > lb.stack_depth + lb.result_count)
      BY <1>8, <1>9, <2>1
    <3>2. end_of_block(lb) = stack
      BY <3>1 DEF end_of_block
    <3> QED BY <2>1, <3>2
  <2>2. CASE r = 1
    <3>1. ~lb.is_loop /\ lb.result_count > 0 /\ Len(stack) > lb.stack_depth
      BY <1>8, <1>9, <2>2
    <3>2. ASSUME Len(stack) > lb.stack_depth + lb.result_count
          PROVE  FALSE
      BY <1>8, <1>9, <3>2, <2>2
    <3>3. end_of_block(lb) = kept(lb.stack_depth, TRUE)
      BY <3>1, <3>2 DEF end_of_block
    <3>4. r > 0 /\ Len(stack) > d
      BY <1>9, <2>2
    <3> QED BY <1>8, <3>3, <3>4
  <2> QED BY <1>9, <2>1, <2>2
<1>13. stack' \in Seq(Val) /\ Len(stack') = d + r /\ \A i \in 1 .. d : stack'[i] = stack[i]
  BY <1>9, <1>11, <1>12, KeptResult
<1>14. types[pc + 1].height = types[pc].height /\ ~types[pc + 1].dead
  <2>1. /\ types[pc + 1].height = OpenBlock(types, pc, k).height + OpenBlock(types, pc, k).results
        /\ ~types[pc + 1].dead
    BY <1>4 DEF EndRule, Typed, OpenAt, OpenBlock, Level
  <2> QED BY <1>6, <1>9, <2>1 DEF InBlock, r
<1>15. pc + 1 \in 1 .. Len(code)
  BY <1>2, <1>3
<1>16. Level(types, pc + 1) \in Nat
  BY <1>2, <1>15, LevelTypes
<1>17. /\ labels' \in Seq(Label) /\ Len(labels') + 1 = frame.label_base + k
       /\ \A i \in 1 .. Len(labels') : labels'[i] = labels[i]
  <2>1. 1 \in Nat /\ 1 <= k
    BY <1>2
  <2> QED BY <1>11, <2>1, PoppedLabels
<1>18. Len(labels') = frame.label_base + Level(types, pc + 1) /\ Level(types, pc + 1) <= k
  <2>1. Len(labels') \in Nat
    BY <1>17, LenProperties
  <2>3. ASSUME NEW a \in Nat, NEW b \in Nat, NEW c \in Nat, a + 1 = b + k, c = k - 1
        PROVE  a = b + c /\ c <= k
    BY <1>2, <2>3, SMTT(30)
  <2> QED BY <1>2, <1>4, <1>16, <1>17, <2>1, <2>3
<1>19. Len(stack') = frame.stack_depth + types[pc + 1].height /\ Len(stack') <= MAX_STACK
  BY <1>2, <1>9, <1>13, <1>14
<1>20. \A i \in 1 .. frame.stack_depth : stack'[i] = stack[i]
  <2>1. \A i \in 1 .. frame.stack_depth : i \in 1 .. d
    BY <1>2, <1>6 DEF InBlock, d
  <2> QED BY <1>13, <2>1
<1>21. \A l \in 1 .. Level(types, pc + 1) : OpenBlock(types, pc + 1, l) = OpenBlock(types, pc, l)
  BY <1>4 DEF Kept
<1> QED BY <1>11, <1>13, <1>14, <1>15, <1>17, <1>18, <1>19, <1>20, <1>21, JumpSound


(* A branch: n values are popped first. *)
LEMMA BranchSound ==
  ASSUME Sound, Running, Rest, NEW d \in Nat, NEW n \in {0, 1}, NEW k \in 2 .. Level(types, pc),
         d + k = Level(types, pc), types[pc].height >= n,
         OpenBlock(types, pc, k).kind = "loop" => d = 0,
         OpenBlock(types, pc, k).kind # "loop" =>
           types[pc].height >= OpenBlock(types, pc, k).results + n,
         do_branch(d, n)
  PROVE  Sound'
<1>1. /\ Body /\ Level(types, pc) \in Nat /\ frame.stack_depth \in Nat
      /\ frame.label_base \in Nat /\ Len(labels) = frame.label_base + Level(types, pc)
      /\ Len(labels) \in Nat /\ labels \in Seq(Label) /\ stack \in Seq(Val)
      /\ Len(stack) <= MAX_STACK /\ Len(stack) \in Nat /\ types[pc].height \in Nat
      /\ Len(stack) = frame.stack_depth + types[pc].height
  BY CurrentFrame, CurrentPlace
<1>2. PICK o \in Nat : InBlock(k, o)
  BY BlockAround
<1>3. PICK lb : lb = labels[Len(labels) - d]
  OBVIOUS
<1>4. Len(labels) - d = frame.label_base + k /\ Len(labels) - d \in 1 .. Len(labels)
  BY <1>1, SMTT(30)
<1>5. lb = LabelFrom(o, frame.stack_depth) /\ lb \in Label
  BY <1>1, <1>2, <1>3, <1>4, ElementOfSeq DEF InBlock
<1>6. HasLabel(d)
  <2>1. ASSUME NEW b \in Nat, NEW e \in Nat, NEW l \in Nat, l = b + e, d + k = e
        PROVE  d < l /\ l - 1 - d >= b
    BY <2>1
  <2> QED BY <1>1, <2>1 DEF HasLabel
<1> DEFINE top == Len(stack) - n
           keeps == lb.result_count > 0 /\ top > 0
           cut == unwound(lb, top)
           sd == frame.stack_depth + Below(code[o], types[o])
<1>7. /\ lb.stack_depth = sd /\ lb.stack_depth \in 0 .. MAX_STACK /\ sd \in Nat
      /\ frame.stack_depth <= sd
      /\ lb.result_count = code[o].arg /\ code[o].arg \in {0, 1}
      /\ lb.is_loop <=> code[o].op = "loop"
      /\ code[o].op = "loop" => lb.target_pc = o + 1
      /\ code[o].op # "loop" => lb.target_pc = skip_to_end(o + 1)
  <2>1. Below(code[o], types[o]) \in Nat /\ code[o].arg \in {0, 1}
        /\ (code[o].op = "loop" => code[o].arg = 0)
    BY <1>2 DEF InBlock
  <2>2. /\ lb.stack_depth = sd /\ lb.result_count = code[o].arg
        /\ lb.is_loop <=> code[o].op = "loop"
        /\ code[o].op = "loop" => lb.target_pc = o + 1
        /\ code[o].op # "loop" => lb.target_pc = skip_to_end(o + 1)
    BY <1>5, <2>1 DEF LabelFrom, label
  <2>3. lb.stack_depth \in 0 .. MAX_STACK
    BY <1>5 DEF Label
  <2>4. sd \in Nat /\ frame.stack_depth <= sd
    BY <1>1, <2>1, SMTT(30)
  <2> QED BY <2>1, <2>2, <2>3, <2>4
<1>8. top \in Nat /\ top <= Len(stack) /\ frame.stack_depth <= top
  <2>1. ASSUME NEW b \in Nat, NEW h \in Nat, NEW l \in Nat, l = b + h, h >= n
        PROVE  l - n \in Nat /\ l - n <= l /\ b <= l - n
    BY <2>1
  <2> QED BY <1>1, <2>1
<1>9. /\ cut \in Seq(Val) /\ Len(cut) = sd
      /\ \A i \in 1 .. frame.stack_depth : cut[i] = stack[i]
  <2>1. cut = [i \in 1 .. sd |-> IF i <= top THEN stack[i] ELSE 0]
    BY <1>7 DEF unwound
  <2>2. \A i \in 1 .. sd : (IF i <= top THEN stack[i] ELSE 0) \in Val
    <3>1. ASSUME NEW i \in 1 .. sd, i <= top
          PROVE  stack[i] \in Val
      <4>1. i \in 1 .. Len(stack)
        BY <1>7, <1>8, <3>1
      <4> QED BY <1>1, <4>1, ElementOfSeq
    <3> QED BY <3>1 DEF Val
  <2>3. cut \in [1 .. sd -> Val]
    BY <2>1, <2>2
  <2>4. cut \in Seq(Val)
    BY <1>7, <2>3, SeqDef
  <2>5. Len(cut) = sd
    BY <1>7, <2>3, <2>4, LenProperties
  <2>6. \A i \in 1 .. frame.stack_depth : i \in 1 .. sd /\ i <= top
    <3>1. ASSUME NEW b \in Nat, NEW x \in Nat, NEW y \in Nat, b <= x, b <= y
          PROVE  \A i \in 1 .. b : i \in 1 .. x /\ i <= y
      BY <3>1
    <3> HIDE DEF sd, top
    <3> QED BY <1>1, <1>7, <1>8, <3>1
  <2> QED BY <2>1, <2>4, <2>5, <2>6
<1> HIDE DEF cut, sd, top
<1>10. CASE code[o].op = "loop"
  <2>1. stack' = cut /\ pc' = o + 1 /\ UNCHANGED <<labels, locals, frames, outcome>>
    BY <1>3, <1>6, <1>7, <1>10 DEF do_branch, cut, top
  <2>2. d = 0 /\ k = Level(types, pc)
    BY <1>1, <1>2, <1>10 DEF InBlock
  <2>3. /\ o \in 1 .. Len(code) - 1 /\ OpenRule(code[o], o, types[o], types[o + 1])
        /\ Level(types, o) + 1 = k
    BY <1>2 DEF InBlock
  <2>4. /\ Level(types, o + 1) = Level(types, o) + 1 /\ Kept(types, o, Level(types, o))
        /\ OpenBlock(types, o + 1, Level(types, o) + 1) = NewEntry(code[o], o, types[o])
    BY <1>1, <1>10, <2>3, BodyStep
  <2>5. o + 1 \in 1 .. Len(code) /\ Level(types, o) \in Nat
    <3>1. Len(code) \in Nat /\ o \in 1 .. Len(code)
      BY <1>1, <2>3, BodyFacts
    <3> QED BY <1>1, <2>3, <3>1, LevelTypes
  <2>6. \A l \in 1 .. Level(types, o + 1) : OpenBlock(types, o + 1, l) = OpenBlock(types, pc, l)
    <3>1. \A l \in 1 .. Level(types, o) : OpenBlock(types, o + 1, l) = OpenBlock(types, pc, l)
      BY <1>2, <2>4 DEF InBlock, Kept
    <3>2. OpenBlock(types, o + 1, k) = OpenBlock(types, pc, k)
      BY <1>2, <1>10, <2>3, <2>4 DEF InBlock
    <3>3. \A l \in 1 .. Level(types, o + 1) : l = k \/ l \in 1 .. Level(types, o)
      BY <2>3, <2>4, <2>5
    <3> QED BY <3>1, <3>2, <3>3
  <2>7. types[o + 1].height = Below(code[o], types[o]) /\ ~types[o + 1].dead
    BY <2>3 DEF OpenRule, Typed
  <2>8. Level(types, o + 1) = Level(types, pc)
    BY <2>2, <2>3, <2>4
  <2>9. Len(stack') = frame.stack_depth + types[o + 1].height /\ Len(stack') <= MAX_STACK
    BY <1>7, <1>9, <2>1, <2>7, InterpAssumption DEF sd
  <2>10. Level(types, o + 1) <= Level(types, pc) /\ Len(labels') = frame.label_base + Level(types, o + 1)
         /\ labels' \in Seq(Label) /\ \A i \in 1 .. Len(labels') : labels'[i] = labels[i]
    BY <1>1, <2>1, <2>8, SMTT(30)
  <2> QED BY <1>9, <2>1, <2>5, <2>6, <2>7, <2>9, <2>10, JumpSound
<1>11. CASE code[o].op # "loop" /\ keeps /\ Full(cut)
  <2>1. trap("StackOverflow")
    BY <1>3, <1>6, <1>7, <1>11 DEF do_branch, cut, top
  <2>2. UNCHANGED <<build_vars, phase>>
    BY DEF Rest
  <2> QED BY <2>1, <2>2, TrapSound
<1>12. CASE code[o].op # "loop" /\ ~(keeps /\ Full(cut))
  <2>1. /\ stack' = IF keeps THEN Append(cut, stack[top]) ELSE cut
        /\ labels' = labels_left(d) /\ pc' = skip_to_end(o + 1)
        /\ UNCHANGED <<locals, frames, outcome>>
    BY <1>3, <1>6, <1>7, <1>12 DEF do_branch, cut, top
  <2>2. keeps <=> code[o].arg = 1
    <3>1. code[o].arg = 1 => types[pc].height >= 1 + n
      BY <1>2, <1>12 DEF InBlock
    <3>2. code[o].arg = 1 => top > 0
      <4>1. ASSUME NEW b \in Nat, NEW h \in Nat, NEW l \in Nat, l = b + h, h >= 1 + n
            PROVE  l - n > 0
        BY <4>1
      <4> QED BY <1>1, <3>1, <4>1 DEF top
    <3> QED BY <1>7, <3>2
  <2>3. /\ stack' \in Seq(Val) /\ Len(stack') = sd + code[o].arg /\ Len(stack') <= MAX_STACK
        /\ \A i \in 1 .. frame.stack_depth : stack'[i] = stack[i]
    <3>1. CASE code[o].arg = 0
      <4>1. stack' = cut
        BY <2>1, <2>2, <3>1
      <4> QED BY <1>7, <1>9, <3>1, <4>1
    <3>2. CASE code[o].arg = 1
      <4>1. stack' = Append(cut, stack[top])
        BY <2>1, <2>2, <3>2
      <4>2. top \in 1 .. Len(stack)
        BY <1>1, <1>8, <2>2, <3>2
      <4>3. stack[top] \in Val
        BY <1>1, <4>2, ElementOfSeq
      <4>4. /\ stack' \in Seq(Val) /\ Len(stack') = Len(cut) + 1
            /\ \A i \in 1 .. Len(cut) : stack'[i] = cut[i]
        BY <1>9, <4>1, <4>3, AppendProperties
      <4>5. ~(Len(cut) >= MAX_STACK)
        BY <1>12, <2>2, <3>2 DEF Full
      <4>6. Len(stack') = sd + 1 /\ Len(stack') <= MAX_STACK
        BY <1>7, <1>9, <4>4, <4>5, InterpAssumption
      <4>7. \A i \in 1 .. frame.stack_depth : i \in 1 .. Len(cut)
        BY <1>1, <1>7, <1>9
      <4> QED BY <1>9, <3>2, <4>4, <4>6, <4>7
    <3> QED BY <1>7, <3>1, <3>2
  <2>4. PICK q : q = skip_to_end(o + 1)
    OBVIOUS
  <2>5. /\ q \in o + 2 .. Len(code) /\ Level(types, q) = Level(types, o)
        /\ \A l \in 1 .. Level(types, o) : OpenBlock(types, q, l) = OpenBlock(types, o, l)
        /\ types[q].height = Below(code[o], types[o]) + code[o].arg
        /\ ~types[q].dead /\ Level(types, o) + 1 = k /\ Below(code[o], types[o]) \in Nat
        /\ \A l \in 1 .. Level(types, o) : OpenBlock(types, o, l) = OpenBlock(types, pc, l)
    BY <1>1, <1>2, <2>4, AfterBlock DEF InBlock
  <2>6. q \in 1 .. Len(code) /\ pc' = q
    <3>1. Len(code) \in Nat
      BY <1>1, BodyFacts
    <3> QED BY <2>1, <2>4, <2>5, <3>1
  <2>7. Level(types, q) \in Nat
    BY <1>1, <2>6, LevelTypes
  <2>8. /\ labels' \in Seq(Label) /\ Len(labels') + (d + 1) = frame.label_base + Level(types, pc)
        /\ \A i \in 1 .. Len(labels') : labels'[i] = labels[i]
    <3>1. d + 1 \in Nat /\ d + 1 <= Level(types, pc)
      BY <1>1
    <3>2. labels' = SubSeq(labels, 1, Len(labels) - (d + 1))
      BY <2>1 DEF labels_left
    <3> QED BY <3>1, <3>2, PoppedLabels
  <2>9. Len(labels') = frame.label_base + Level(types, q) /\ Level(types, q) <= Level(types, pc)
    <3>1. Len(labels') \in Nat
      BY <2>8, LenProperties
    <3>2. Level(types, q) + 1 = k
      BY <2>5
    <3>3. ASSUME NEW a \in Nat, NEW b \in Nat, NEW c \in Nat, NEW l \in Nat,
                 a + (d + 1) = b + l, c + 1 = k, d + k = l
          PROVE  a = b + c /\ c <= l
      BY <3>3
    <3> QED BY <1>1, <2>7, <2>8, <3>1, <3>2, <3>3
  <2>10. Len(stack') = frame.stack_depth + types[q].height
    <3>1. \A a, b, c \in Nat : (a + b) + c = a + (b + c)
      OBVIOUS
    <3>2. code[o].arg \in Nat
      BY <1>7
    <3>3. Len(stack') = (frame.stack_depth + Below(code[o], types[o])) + code[o].arg
      BY <2>3 DEF sd
    <3>4. (frame.stack_depth + Below(code[o], types[o])) + code[o].arg
            = frame.stack_depth + (Below(code[o], types[o]) + code[o].arg)
      <4>1. frame.stack_depth \in Nat /\ Below(code[o], types[o]) \in Nat
        BY <1>1, <2>5
      <4> QED BY <3>1, <3>2, <4>1, ZenonT(40)
    <3> QED BY <2>5, <3>3, <3>4
  <2>11. \A l \in 1 .. Level(types, q) : OpenBlock(types, q, l) = OpenBlock(types, pc, l)
    BY <2>5
  <2> QED BY <2>1, <2>3, <2>5, <2>6, <2>8, <2>9, <2>10, <2>11, JumpSound
<1> QED BY <1>10, <1>11, <1>12

(* What validation says of a branch. *)
LEMMA BranchTarget ==
  ASSUME Sound, Running, code[pc].op \in {"br", "br_if"}, NEW n \in {0, 1},
         n = IF code[pc].op = "br" THEN 0 ELSE 1
  PROVE  \E k \in 2 .. Level(types, pc) :
           /\ code[pc].arg \in Nat /\ code[pc].arg + k = Level(types, pc) /\ types[pc].height >= n
           /\ OpenBlock(types, pc, k).kind = "loop" => code[pc].arg = 0
           /\ OpenBlock(types, pc, k).kind # "loop" =>
                types[pc].height >= OpenBlock(types, pc, k).results + n
<1>1. /\ types[pc] \in ValidationState /\ Len(types[pc].control) >= 1 /\ types[pc].height \in Nat
      /\ Len(types[pc].control) \in Nat
  BY CurrentPlace DEF Level
<1>2. BranchRule(code[pc], types[pc], types[pc + 1])
  BY BranchOf
<1>3. code[pc].arg \in 0 .. Len(types[pc].control) - 2
  BY <1>2 DEF BranchRule
<1> DEFINE k == Len(types[pc].control) - code[pc].arg
           target == types[pc].control[k]
           carries == IF target.kind = "loop" THEN 0 ELSE target.results
<1>4. k \in 2 .. Len(types[pc].control) /\ k \in 1 .. Len(types[pc].control) /\ code[pc].arg \in Nat
      /\ code[pc].arg + k = Len(types[pc].control)
  BY <1>1, <1>3
<1>5. target.results \in {0, 1}
  <2>1. target \in Entry
    BY <1>1, <1>4, StateTypes
  <2> QED BY <2>1 DEF Entry
<1>6. target.kind = "loop" => code[pc].arg = 0
  BY <1>2 DEF BranchRule
<1>7. Operands(types[pc]) >= carries + n
  <2>1. CASE code[pc].op = "br"
    <3>1. Operands(types[pc]) >= carries
      BY <1>2, <2>1 DEF BranchRule
    <3>2. carries + n = carries
      BY <1>5, <2>1
    <3> QED BY <3>1, <3>2
  <2>2. CASE code[pc].op = "br_if"
    <3>1. Operands(types[pc]) >= carries + 1
      BY <1>2, <2>2 DEF BranchRule
    <3>2. n = 1
      BY <2>2
    <3> QED BY <3>1, <3>2
  <2> QED BY <2>1, <2>2
<1>8. carries + n \in Nat /\ n <= carries + n
  BY <1>5
<1> HIDE DEF carries
<1>9. types[pc].height >= carries + n
  BY <1>1, <1>7, <1>8, OperandsBelow
<1>10. types[pc].height >= n
  BY <1>1, <1>8, <1>9
<1>11. target = OpenBlock(types, pc, k) /\ Len(types[pc].control) = Level(types, pc)
  BY DEF OpenBlock, Level
<1>12. target.kind # "loop" => types[pc].height >= target.results + n
  BY <1>9 DEF carries
<1> HIDE DEF k, target
<1> QED BY <1>4, <1>6, <1>10, <1>11, <1>12

LEMMA BrSound ==
  ASSUME Sound, Running, Rest, Br \/ BrIf
  PROVE  Sound'
<1>1. CASE Br
  <2>1. code[pc].op = "br" /\ do_branch(code[pc].arg, 0)
    BY <1>1 DEF Br, Fetched
  <2>2. PICK k \in 2 .. Level(types, pc) :
           /\ code[pc].arg \in Nat /\ code[pc].arg + k = Level(types, pc) /\ types[pc].height >= 0
           /\ OpenBlock(types, pc, k).kind = "loop" => code[pc].arg = 0
           /\ OpenBlock(types, pc, k).kind # "loop" =>
                types[pc].height >= OpenBlock(types, pc, k).results + 0
    BY <2>1, BranchTarget
  <2> QED BY <2>1, <2>2, BranchSound
<1>2. CASE BrIf
  <2>1. code[pc].op = "br_if" /\ (do_branch(code[pc].arg, 1) \/ discard(1))
    BY <1>2 DEF BrIf, Fetched
  <2>2. PICK k \in 2 .. Level(types, pc) :
           /\ code[pc].arg \in Nat /\ code[pc].arg + k = Level(types, pc) /\ types[pc].height >= 1
           /\ OpenBlock(types, pc, k).kind = "loop" => code[pc].arg = 0
           /\ OpenBlock(types, pc, k).kind # "loop" =>
                types[pc].height >= OpenBlock(types, pc, k).results + 1
    BY <2>1, BranchTarget
  <2>3. CASE do_branch(code[pc].arg, 1)
    BY <2>2, <2>3, BranchSound
  <2>4. CASE discard(1)
    <3>1. BranchRule(code[pc], types[pc], types[pc + 1]) /\ pc + 1 \in 1 .. Len(code)
      BY <2>1, BranchOf
    <3>2. types[pc + 1] = Typed(types[pc].control, types[pc].height - 1, FALSE)
      BY <2>1, <3>1 DEF BranchRule
    <3>3. types[pc + 1].height = types[pc].height - 1 /\ ~types[pc + 1].dead
      BY <3>2 DEF Typed
    <3>4. pc \in 1 .. Len(code) - 1 /\ Body /\ types[pc].height \in Nat
      BY <2>1, NotLast, CurrentFrame, CurrentPlace
    <3>5. Level(types, pc + 1) = Level(types, pc) /\ Kept(types, pc, Level(types, pc))
      BY <2>1, <3>4, BodyStep
    <3>6. types[pc + 1].height + 1 = types[pc].height + 0
      BY <3>3, <3>4
    <3>7. Straight(1, 0)
      BY <2>2, <3>1, <3>3, <3>5, <3>6 DEF Straight
    <3> QED BY <2>4, <3>7, DiscardSound
  <2> QED BY <2>1, <2>3, <2>4
<1> QED BY <1>1, <1>2


----------------------------------------------------------------------------
(* Calls and returns. *)

NewFrame(return_pc, depth) ==
  [return_pc |-> return_pc, locals_base |-> Len(frames), local_count |-> 1,
   stack_depth |-> depth, result_count |-> 1, label_base |-> Len(labels)]

Entered1(st, return_pc) ==
  /\ Len(frames) < MAX_CALL_DEPTH /\ Len(labels) < MAX_LABELS
  /\ stack' = SubSeq(st, 1, Len(st) - 1)
  /\ frames' = Append(frames, NewFrame(return_pc, Len(st) - 1))
  /\ labels' = Append(labels, label(BODY_END, Len(st) - 1, 1, FALSE))
  /\ pc' = 1 /\ outcome' = outcome
  /\ locals' \in [0 .. MAX_LOCALS * MAX_CALL_DEPTH - 1 -> Val]
  /\ \A i \in 0 .. Len(frames) - 1 : locals'[i] = locals[i]

LEMMA EnterEffect ==
  ASSUME NEW st \in Seq(Val), Len(st) >= 1, NEW r, enter_function(1, st, r),
         Len(frames) \in Nat, Len(labels) \in Nat, locals_base = Len(frames),
         locals \in [0 .. MAX_LOCALS * MAX_CALL_DEPTH - 1 -> Val]
  PROVE  trap("CallStackOverflow") \/ trap("LabelStackOverflow") \/ Entered1(st, r)
<1>0. 1 \in NUM_IMPORTS .. NUM_IMPORTS + FUNC_COUNT - 1
  BY DEF NUM_IMPORTS, FUNC_COUNT
<1>1. Len(st) \in Nat /\ Len(st) \in 1 .. Len(st)
  BY LenProperties
<1>2. st[Len(st)] \in Val
  BY <1>1, ElementOfSeq
<1>3. CASE Len(frames) >= MAX_CALL_DEPTH
  BY <1>3 DEF enter_function
<1>4. CASE ~(Len(frames) >= MAX_CALL_DEPTH) /\ Len(labels) >= MAX_LABELS
  <2>1. ~(LOCAL_COUNT > MAX_LOCALS \/ locals_base + LOCAL_COUNT > MAX_LOCALS * MAX_CALL_DEPTH)
    <3>1. Len(frames) < MAX_CALL_DEPTH
      BY <1>4, InterpAssumption
    <3>2. Len(frames) + 1 <= MAX_LOCALS * MAX_CALL_DEPTH /\ MAX_LOCALS * MAX_CALL_DEPTH \in Nat
      BY <3>1, LocalSlots
    <3>3. ~(LOCAL_COUNT > MAX_LOCALS)
      BY InterpAssumption DEF LOCAL_COUNT
    <3> QED BY <3>2, <3>3 DEF LOCAL_COUNT
  <2>2. ~(Len(st) < PARAMS)
    BY <1>1 DEF PARAMS
  <2> QED BY <1>0, <1>4, <2>1, <2>2 DEF enter_function
<1>5. CASE ~(Len(frames) >= MAX_CALL_DEPTH) /\ ~(Len(labels) >= MAX_LABELS)
  <2>1. Len(frames) < MAX_CALL_DEPTH /\ Len(labels) < MAX_LABELS
    BY <1>5, InterpAssumption
  <2>2. ~(LOCAL_COUNT > MAX_LOCALS \/ locals_base + LOCAL_COUNT > MAX_LOCALS * MAX_CALL_DEPTH)
    <3>2. Len(frames) + 1 <= MAX_LOCALS * MAX_CALL_DEPTH /\ MAX_LOCALS * MAX_CALL_DEPTH \in Nat
      BY <2>1, LocalSlots
    <3>3. ~(LOCAL_COUNT > MAX_LOCALS)
      BY InterpAssumption DEF LOCAL_COUNT
    <3> QED BY <3>2, <3>3 DEF LOCAL_COUNT
  <2>3. ~(Len(st) < PARAMS)
    BY <1>1 DEF PARAMS
  <2>4. /\ locals' = [i \in DOMAIN locals |->
                        IF i \in locals_base .. locals_base + 1 - 1
                        THEN st[Len(st) - 1 + 1 + i - locals_base] ELSE locals[i]]
        /\ stack' = SubSeq(st, 1, Len(st) - 1)
        /\ frames' = Append(frames, NewFrame(r, Len(st) - 1))
        /\ labels' = Append(labels, label(BODY_END, Len(st) - 1, 1, FALSE))
        /\ pc' = 1 /\ outcome' = outcome
    BY <1>0, <1>5, <2>2, <2>3 DEF enter_function, NewFrame, PARAMS, LOCAL_COUNT
  <2>5. ASSUME NEW i \in 0 .. MAX_LOCALS * MAX_CALL_DEPTH - 1
        PROVE  locals'[i] = IF i = Len(frames) THEN st[Len(st)] ELSE locals[i]
    <3>1. i \in Int
      OBVIOUS
    <3>2. i \in Len(frames) .. Len(frames) + 1 - 1 <=> i = Len(frames)
      BY <3>1
    <3>3. Len(st) - 1 + 1 + Len(frames) - Len(frames) = Len(st)
      BY <1>1
    <3>4. locals'[i] = IF i \in locals_base .. locals_base + 1 - 1
                       THEN st[Len(st) - 1 + 1 + i - locals_base] ELSE locals[i]
      BY <2>4
    <3> QED BY <3>2, <3>3, <3>4
  <2>6. DOMAIN locals' = 0 .. MAX_LOCALS * MAX_CALL_DEPTH - 1
        /\ locals' = [i \in DOMAIN locals' |-> locals'[i]]
    BY <2>4
  <2>7. \A i \in 0 .. MAX_LOCALS * MAX_CALL_DEPTH - 1 : locals'[i] \in Val
    BY <1>2, <2>5
  <2>8. locals' \in [0 .. MAX_LOCALS * MAX_CALL_DEPTH - 1 -> Val]
    BY <2>6, <2>7
  <2>9. ASSUME NEW i \in 0 .. Len(frames) - 1
        PROVE  locals'[i] = locals[i]
    <3>1. i \in Nat /\ i < MAX_CALL_DEPTH /\ i # Len(frames)
      BY <2>1, InterpAssumption
    <3>2. i \in 0 .. MAX_LOCALS * MAX_CALL_DEPTH - 1
      BY <3>1, LocalSlots
    <3> QED BY <2>5, <3>1, <3>2
  <2> QED BY <2>1, <2>4, <2>8, <2>9 DEF Entered1
<1> QED BY <1>3, <1>4, <1>5

(* Valid code calls the host's function or the module's own. *)
LEMMA CallsOne ==
  ASSUME Sound, Running, Call
  PROVE  code[pc].op = "call" /\ enter_function(1, stack, pc + 1)
<1>1. code[pc].op = "call" /\ code[pc].arg >= NUM_IMPORTS /\ enter_function(code[pc].arg, stack, pc + 1)
  BY DEF Call, Fetched
<1>2. code[pc].arg \in {0, 1}
  BY <1>1, OtherStraight
<1>3. code[pc].arg = 1
  BY <1>1, <1>2 DEF NUM_IMPORTS
<1> QED BY <1>1, <1>3

(* What a function starts with. *)
LEMMA FirstInstruction ==
  ASSUME Body
  PROVE  1 \in 1 .. Len(code) /\ Level(types, 1) = 1 /\ types[1].height = 0 /\ ~types[1].dead
<1>1. types[1] = Typed(<<Func>>, 0, FALSE)
  BY DEF Body, Validates
<1>2. Len(types[1].control) = 1 /\ types[1].height = 0 /\ ~types[1].dead
  BY <1>1 DEF Typed
<1>3. Len(code) \in Nat \ {0}
  BY BodyFacts
<1> QED BY <1>2, <1>3 DEF Level

LEMMA EnteredTyped ==
  ASSUME MachineOK, Body, NEW st \in Seq(Val), Len(st) >= 1, Len(st) <= MAX_STACK,
         NEW r \in Nat, Entered1(st, r)
  PROVE  /\ MachineOK'
         /\ Len(stack') = Len(st) - 1 /\ \A i \in 1 .. Len(st) - 1 : stack'[i] = st[i]
         /\ Len(frames') = Len(frames) + 1 /\ frames'[Len(frames) + 1] = NewFrame(r, Len(st) - 1)
         /\ \A m \in 1 .. Len(frames) : frames'[m] = frames[m]
         /\ Len(labels') = Len(labels) + 1 /\ \A i \in 1 .. Len(labels) : labels'[i] = labels[i]
<1>1. /\ frames \in Seq(CallFrame) /\ Len(frames) \in Nat /\ labels \in Seq(Label)
      /\ Len(labels) \in Nat /\ Len(st) \in Nat /\ Len(code) \in Nat
  BY LenProperties, BodyFacts DEF MachineOK
<1>2. \A i \in 1 .. Len(st) - 1 : st[i] \in Val
  BY <1>1, ElementOfSeq
<1>3. /\ stack' \in Seq(Val) /\ Len(stack') = Len(st) - 1
      /\ \A i \in 1 .. Len(st) - 1 : stack'[i] = st[i]
  <2>0. Len(st) - 1 \in Nat
    BY <1>1
  <2>1. PICK n \in Nat : n = Len(st) - 1
    BY <2>0, Zenon
  <2>2. stack' = SubSeq(st, 1, n)
    BY <2>1 DEF Entered1
  <2>3. \A i \in 1 .. n : st[i] \in Val
    BY <1>2, <2>1
  <2>4. stack' \in Seq(Val) /\ Len(stack') = n /\ \A i \in 1 .. n : stack'[i] = st[i]
    BY <2>2, <2>3, SubSeqProperties
  <2> QED BY <2>1, <2>4
<1> DEFINE fr == NewFrame(r, Len(st) - 1)
           lb == label(BODY_END, Len(st) - 1, 1, FALSE)
<1>4. Len(st) - 1 \in 0 .. MAX_STACK /\ Len(labels) \in 0 .. MAX_LABELS
  BY <1>1, InterpAssumption DEF Entered1
<1>5. fr \in CallFrame
  BY <1>1, <1>4 DEF NewFrame, CallFrame
<1>6. lb \in Label
  BY <1>1, <1>4 DEF label, Label, BODY_END
<1>7. frames' = Append(frames, fr) /\ labels' = Append(labels, lb)
  BY DEF Entered1
<1> HIDE DEF fr, lb
<1>8. /\ frames' \in Seq(CallFrame) /\ Len(frames') = Len(frames) + 1
      /\ frames'[Len(frames) + 1] = fr
      /\ \A m \in 1 .. Len(frames) : frames'[m] = frames[m]
  BY <1>1, <1>5, <1>7, AppendProperties
<1>9. /\ labels' \in Seq(Label) /\ Len(labels') = Len(labels) + 1
      /\ \A i \in 1 .. Len(labels) : labels'[i] = labels[i]
  BY <1>1, <1>6, <1>7, AppendProperties
<1>10. /\ Len(stack') <= MAX_STACK /\ Len(frames') <= MAX_CALL_DEPTH /\ Len(labels') <= MAX_LABELS
  BY <1>1, <1>3, <1>4, <1>8, <1>9, InterpAssumption DEF Entered1
<1>11. MachineOK'
  <2>1. /\ locals' \in [0 .. MAX_LOCALS * MAX_CALL_DEPTH - 1 -> Val] /\ pc' = 1
        /\ outcome' \in Traps \cup {"running", "ok"}
    BY DEF Entered1, MachineOK
  <2>2. pc' \in Nat \ {0}
    BY <2>1
  <2> QED BY <1>3, <1>8, <1>9, <1>10, <2>1, <2>2 DEF MachineOK
<1> QED BY <1>3, <1>8, <1>9, <1>11 DEF fr


(* The current frame becomes a caller, and the new one is at the first instruction. *)
LEMMA CallSound ==
  ASSUME Sound, Running, UNCHANGED <<build_vars, phase>>, code[pc].op = "call",
         Entered1(stack, pc + 1), saved' = Append(saved, Caller)
  PROVE  Sound'
<1>0. PICK n : n = Len(frames)
  OBVIOUS
<1> DEFINE d == Len(stack) - 1
<1>1. /\ n = Len(frames) /\ n \in Nat \ {0} /\ Body /\ MachineOK /\ FramesMatch /\ CallersSaved /\ phase = "run"
      /\ frame = frames[n] /\ outcome = "running" /\ frame.stack_depth \in Nat
      /\ frame.label_base \in Nat /\ frame.locals_base = n - 1
  BY <1>0, CurrentFrame DEF Running
<1>2. /\ stack \in Seq(Val) /\ Len(stack) \in Nat /\ Len(stack) <= MAX_STACK
      /\ labels \in Seq(Label) /\ Len(labels) \in Nat /\ pc \in 1 .. Len(code) /\ Len(code) \in Nat
      /\ frames \in Seq(CallFrame) /\ types[pc].height \in Nat
      /\ Len(stack) = frame.stack_depth + types[pc].height
      /\ locals \in [0 .. MAX_LOCALS * MAX_CALL_DEPTH - 1 -> Val]
      /\ Len(frames) <= MAX_CALL_DEPTH
  BY CurrentPlace, CurrentFrame DEF MachineOK
<1>3. Straight(1, 1)
  BY OtherStraight
<1>4. types[pc].height >= 1 /\ types[pc + 1].height = types[pc].height
      /\ pc + 1 \in 1 .. Len(code)
  <2>1. types[pc + 1] \in ValidationState
    BY <1>1, <1>3, BodyFacts DEF Straight
  <2>2. types[pc + 1].height \in Nat
    BY <2>1, StateTypes
  <2>3. types[pc + 1].height + 1 = types[pc].height + 1 /\ types[pc].height >= 1
        /\ pc + 1 \in 1 .. Len(code)
    BY <1>3 DEF Straight
  <2> QED BY <1>2, <2>2, <2>3, SMTT(30)
<1>5. Len(stack) >= 1 /\ d \in Nat /\ pc + 1 \in Nat /\ d + 1 = Len(stack) /\ frame.stack_depth <= d
  <2>1. ASSUME NEW a \in Nat, NEW h \in Nat, NEW l \in Nat, l = a + h, h >= 1
        PROVE  l >= 1 /\ l - 1 \in Nat /\ (l - 1) + 1 = l /\ a <= l - 1
    BY <2>1
  <2>2. pc + 1 \in Nat
    BY <1>2
  <2>3. Len(stack) >= 1 /\ Len(stack) - 1 \in Nat /\ (Len(stack) - 1) + 1 = Len(stack)
        /\ frame.stack_depth <= Len(stack) - 1
    <3>1. frame.stack_depth \in Nat /\ types[pc].height \in Nat /\ Len(stack) \in Nat
          /\ Len(stack) = frame.stack_depth + types[pc].height /\ types[pc].height >= 1
      BY <1>1, <1>2, <1>4
    <3> QED BY <2>1, <3>1
  <2> QED BY <2>2, <2>3
<1>6. /\ MachineOK'
      /\ Len(stack') = d /\ \A i \in 1 .. d : stack'[i] = stack[i]
      /\ Len(frames') = n + 1 /\ frames'[n + 1] = NewFrame(pc + 1, d)
      /\ \A m \in 1 .. n : frames'[m] = frames[m]
      /\ Len(labels') = Len(labels) + 1 /\ \A i \in 1 .. Len(labels) : labels'[i] = labels[i]
  BY <1>1, <1>2, <1>5, EnteredTyped
<1>7. /\ NewFrame(pc + 1, d).return_pc = pc + 1 /\ NewFrame(pc + 1, d).locals_base = n
      /\ NewFrame(pc + 1, d).local_count = 1 /\ NewFrame(pc + 1, d).result_count = 1
      /\ NewFrame(pc + 1, d).stack_depth = d /\ NewFrame(pc + 1, d).label_base = Len(labels)
  BY <1>1 DEF NewFrame
<1>8. code' = code /\ types' = types /\ pc' = 1 /\ outcome' = "running" /\ phase' = "run"
  BY <1>1 DEF Entered1, build_vars
<1> HIDE DEF d
<1>9. /\ frames'[n + 1].return_pc = pc + 1 /\ frames'[n + 1].stack_depth = d
      /\ frames'[n + 1].label_base = Len(labels) /\ frames'[n + 1].locals_base = n
      /\ frames'[n + 1].local_count = 1 /\ frames'[n + 1].result_count = 1
  BY <1>6, <1>7
<1>10. /\ PcOf(n + 1)' = 1 /\ LabelsOf(n + 1)' = Len(labels') /\ OperandsOf(n + 1)' = Len(stack')
  BY <1>6, <1>8 DEF PcOf, LabelsOf, OperandsOf
<1>11. /\ PcOf(n)' = pc + 1 /\ LabelsOf(n)' = Len(labels) /\ OperandsOf(n)' = Len(stack)
  <2>1. n # n + 1
    BY <1>1
  <2> QED BY <1>5, <1>6, <1>9, <2>1 DEF PcOf, LabelsOf, OperandsOf
<1>12. ASSUME NEW m \in 1 .. n - 1
       PROVE  /\ PcOf(m)' = PcOf(m) /\ LabelsOf(m)' = LabelsOf(m) /\ OperandsOf(m)' = OperandsOf(m)
              /\ LabelsOf(m) = frames[m + 1].label_base
  <2>1. m # n /\ m # n + 1 /\ m + 1 \in 1 .. n
    BY <1>1
  <2>2. m # Len(frames) /\ m # Len(frames') /\ frames'[m + 1] = frames[m + 1]
    BY <1>1, <1>6, <2>1
  <2> QED BY <2>2 DEF PcOf, LabelsOf, OperandsOf
<1>13. \A m \in 1 .. n : frames[m].label_base \in Nat /\ frames[m].stack_depth \in Nat
  BY <1>1, <1>2, FrameTypes
<1>14. \A l, m \in 1 .. n : l <= m => /\ frames[l].label_base <= frames[m].label_base
                                      /\ frames[l].stack_depth <= frames[m].stack_depth
  BY <1>1 DEF FramesMatch
<1>15. frame.label_base <= Len(labels) /\ n \in 1 .. n
  BY <1>1, CurrentLabels
<1>16. ASSUME NEW m \in 1 .. n + 1
       PROVE  /\ Matches(code, types, frames'[m], PcOf(m)', labels', LabelsOf(m)', OperandsOf(m)')
              /\ frames'[m].locals_base = m - 1 /\ frames'[m].local_count = 1
              /\ frames'[m].result_count = 1
              /\ m < n + 1 => types[PcOf(m)'].height >= 1
  <2>1. CASE m = n + 1
    <3>1. /\ 1 \in 1 .. Len(code) /\ Level(types, 1) = 1 /\ types[1].height = 0 /\ ~types[1].dead
      BY <1>1, FirstInstruction
    <3>2. Len(labels') = frames'[m].label_base + Level(types, 1)
          /\ Len(stack') = frames'[m].stack_depth + types[1].height
          /\ \A k \in 2 .. Level(types, 1) : FALSE
      <4>1. d + 0 = d
        BY <1>5
      <4>2. frames'[m].label_base = Len(labels) /\ frames'[m].stack_depth = d
        BY <1>9, <2>1
      <4>3. \A k \in 2 .. 1 : FALSE
        OBVIOUS
      <4> QED BY <1>6, <3>1, <4>1, <4>2, <4>3
    <3>3. Matches(code, types, frames'[m], 1, labels', Len(labels'), Len(stack'))
      BY <3>1, <3>2, Zenon DEF Matches
    <3>4. m - 1 = n /\ ~(m < n + 1)
      BY <1>1, <2>1
    <3> QED BY <1>9, <1>10, <2>1, <3>3, <3>4
  <2>2. ASSUME m \in 1 .. n
        PROVE  /\ frames'[m] = frames[m]
               /\ Matches(code, types, frames[m], PcOf(m), labels, LabelsOf(m), OperandsOf(m))
               /\ frames[m].locals_base = m - 1 /\ frames[m].local_count = 1
               /\ frames[m].result_count = 1
               /\ m < n => types[PcOf(m)].height >= 1
    BY <1>1, <1>6, <2>2 DEF FramesMatch
  <2>3. CASE m = n
    <3>1. Matches(code, types, frame, pc + 1, labels, Len(labels), Len(stack))
      BY <1>2, <1>3, StraightMatches
    <3>2. Level(types, pc + 1) \in Nat
      BY <1>1, <1>4, LevelTypes
    <3>3. Len(labels) <= Len(labels)
      BY <1>2
    <3>4. Matches(code, types, frame, pc + 1, labels', Len(labels), Len(stack))
      BY <1>1, <1>2, <1>6, <3>1, <3>2, <3>3, MatchesSame
    <3>5. types[pc + 1].height >= 1
      BY <1>4
    <3> QED BY <1>1, <1>11, <1>15, <2>2, <2>3, <3>4, <3>5
  <2>4. CASE m \in 1 .. n - 1
    <3>1. m \in 1 .. n /\ m + 1 \in 1 .. n /\ m < n
      BY <1>1, <2>4
    <3>2. LabelsOf(m) <= Len(labels)
      <4>1. LabelsOf(m) = frames[m + 1].label_base
        BY <1>12, <2>4
      <4>2. frames[m + 1].label_base <= frame.label_base
        BY <1>1, <1>14, <1>15, <3>1
      <4>3. frames[m + 1].label_base \in Nat
        BY <1>13, <3>1
      <4>4. \A a, b, c \in Nat : a <= b /\ b <= c => a <= c
        OBVIOUS
      <4> QED BY <1>1, <1>2, <1>15, <4>1, <4>2, <4>3, <4>4
    <3>3. PcOf(m) \in 1 .. Len(code)
      BY <2>2, <3>1 DEF Matches
    <3>4. Level(types, PcOf(m)) \in Nat
      BY <1>1, <3>3, LevelTypes
    <3>5. frames[m].label_base \in Nat
      BY <1>13, <3>1
    <3>6. Matches(code, types, frames[m], PcOf(m), labels', LabelsOf(m), OperandsOf(m))
      BY <1>2, <1>6, <2>2, <3>1, <3>2, <3>4, <3>5, MatchesSame
    <3> QED BY <1>12, <2>2, <2>4, <3>1, <3>6
  <2>5. m = n + 1 \/ m = n \/ m \in 1 .. n - 1
    BY <1>1
  <2> QED BY <2>1, <2>3, <2>4, <2>5
<1>17. ASSUME NEW l \in 1 .. n + 1, NEW m \in 1 .. n + 1, l <= m
       PROVE  /\ frames'[l].label_base <= frames'[m].label_base
              /\ frames'[l].stack_depth <= frames'[m].stack_depth
  <2>1. CASE m \in 1 .. n
    <3>1. l \in 1 .. n
      BY <1>1, <1>17, <2>1
    <3> QED BY <1>6, <1>14, <1>17, <2>1, <3>1
  <2>2. CASE m = n + 1 /\ l = n + 1
    BY <1>2, <1>5, <1>9, <2>2, SMTT(30)
  <2>3. CASE m = n + 1 /\ l \in 1 .. n
    <3>1. l <= n
      BY <1>1, <2>3
    <3>2. frames[l].label_base <= frame.label_base /\ frames[l].stack_depth <= frame.stack_depth
      BY <1>1, <1>14, <1>15, <2>3, <3>1
    <3>3. frames[l].label_base \in Nat /\ frames[l].stack_depth \in Nat /\ frames'[l] = frames[l]
      BY <1>6, <1>13, <2>3
    <3>4. \A a, b, c \in Nat : a <= b /\ b <= c => a <= c
      OBVIOUS
    <3>5. frames[l].label_base <= Len(labels) /\ frames[l].stack_depth <= d
      BY <1>1, <1>2, <1>5, <1>15, <3>2, <3>3, <3>4, Zenon
    <3> QED BY <1>9, <2>3, <3>3, <3>5
  <2>4. (m \in 1 .. n) \/ m = n + 1
    BY <1>1
  <2>5. (l \in 1 .. n) \/ l = n + 1
    BY <1>1
  <2> QED BY <2>1, <2>2, <2>3, <2>4, <2>5
<1>18. FramesMatch'
  <2>1. 1 \in 1 .. n
    BY <1>1
  <2>2. frames'[1].stack_depth = 0 /\ frames'[1].label_base = 0
    BY <1>1, <1>6, <2>1 DEF FramesMatch
  <2>3. frames' # << >>
    <3>1. Len(frames') # 0
      BY <1>1, <1>6
    <3> QED BY <3>1, EmptySeq
  <2> QED BY <1>6, <1>8, <1>16, <1>17, <2>2, <2>3, Zenon DEF FramesMatch
<1>19. CallersSaved'
  <2>1. saved \in Seq(CallerState) /\ Len(saved) = n - 1 /\ Len(saved) \in Nat
    BY <1>1, LenProperties DEF CallersSaved
  <2>2. /\ Caller.stack = SubSeq(stack, 1, d) /\ Caller.labels = labels
        /\ Caller.local = locals[n - 1] /\ Caller.pc = pc + 1
    BY <1>1 DEF Caller, d, PARAMS
  <2>3. Caller \in CallerState
    <3>1. n - 1 \in 0 .. MAX_LOCALS * MAX_CALL_DEPTH - 1
      <4>1. n - 1 \in Nat /\ n - 1 < MAX_CALL_DEPTH
        BY <1>1, <1>2, InterpAssumption, SMTT(30)
      <4> QED BY <4>1, LocalSlots
    <3>2. locals[frame.locals_base] \in Val
      BY <1>1, <1>2, <3>1
    <3>3. \A i \in 1 .. d : stack[i] \in Val
      <4>1. \A i \in 1 .. d : i \in 1 .. Len(stack)
        BY <1>2, <1>5
      <4> QED BY <1>2, <4>1, ElementOfSeq
    <3>4. SubSeq(stack, 1, d) \in Seq(Val)
      BY <1>5, <3>3, SubSeqProperties
    <3>5. Caller = [stack |-> SubSeq(stack, 1, d), labels |-> labels,
                    local |-> locals[frame.locals_base], pc |-> pc + 1]
      BY DEF Caller, d, PARAMS
    <3> QED BY <1>2, <1>5, <3>2, <3>4, <3>5 DEF CallerState
  <2>4. /\ saved' \in Seq(CallerState) /\ Len(saved') = n
        /\ \A m \in 1 .. n - 1 : saved'[m] = saved[m]
        /\ saved'[n] = Caller
    <3>1. /\ saved' \in Seq(CallerState) /\ Len(saved') = Len(saved) + 1
          /\ \A m \in 1 .. Len(saved) : saved'[m] = saved[m]
          /\ saved'[Len(saved) + 1] = Caller
      BY <2>1, <2>3, AppendProperties
    <3>2. Len(saved) + 1 = n
      BY <1>1, <2>1
    <3> QED BY <2>1, <3>1, <3>2
  <2>5. ASSUME NEW m \in 1 .. n
        PROVE  /\ saved'[m].stack = SubSeq(stack', 1, frames'[m + 1].stack_depth)
               /\ saved'[m].labels = SubSeq(labels', 1, frames'[m + 1].label_base)
               /\ saved'[m].local = locals'[m - 1]
               /\ saved'[m].pc = frames'[m + 1].return_pc
    <3>0. stack' \in Seq(Val) /\ labels' \in Seq(Label) /\ Len(stack') \in Nat /\ Len(labels') \in Nat
      BY <1>6, LenProperties DEF MachineOK
    <3>1. CASE m = n
      <4>1. SubSeq(stack', 1, d) = SubSeq(stack, 1, d)
        <5>1. d <= Len(stack) /\ d <= Len(stack')
          BY <1>2, <1>5, <1>6
        <5> QED BY <1>2, <1>5, <1>6, <3>0, <5>1, SamePrefix
      <4>2. SubSeq(labels', 1, Len(labels)) = labels
        <5>1. Len(labels) <= Len(labels) /\ Len(labels) <= Len(labels')
          BY <1>2, <1>6
        <5>2. SubSeq(labels', 1, Len(labels)) = SubSeq(labels, 1, Len(labels))
          BY <1>2, <1>6, <3>0, <5>1, SamePrefix
        <5>3. SubSeq(labels, 1, Len(labels)) = labels
          BY <1>2, SubSeqFull
        <5> QED BY <5>2, <5>3
      <4>3. locals'[n - 1] = locals[n - 1]
        <5>1. n - 1 \in 0 .. n - 1
          BY <1>1
        <5> QED BY <1>1, <5>1 DEF Entered1
      <4> QED BY <1>9, <2>2, <2>4, <3>1, <4>1, <4>2, <4>3
    <3>2. CASE m \in 1 .. n - 1
      <4>1. /\ saved[m].stack = SubSeq(stack, 1, frames[m + 1].stack_depth)
            /\ saved[m].labels = SubSeq(labels, 1, frames[m + 1].label_base)
            /\ saved[m].local = locals[m - 1]
            /\ saved[m].pc = frames[m + 1].return_pc
        BY <1>1, <2>1, <3>2 DEF CallersSaved
      <4>2. m + 1 \in 1 .. n /\ m - 1 \in 0 .. n - 1 /\ m + 1 <= n
        BY <1>1, <3>2
      <4>3. frames'[m + 1] = frames[m + 1] /\ saved'[m] = saved[m]
        BY <1>6, <2>4, <3>2, <4>2
      <4>4. /\ frames[m + 1].stack_depth \in Nat /\ frames[m + 1].stack_depth <= frame.stack_depth
            /\ frames[m + 1].label_base \in Nat /\ frames[m + 1].label_base <= frame.label_base
        BY <1>1, <1>13, <1>14, <1>15, <4>2
      <4>5. /\ frames[m + 1].stack_depth <= d /\ frames[m + 1].stack_depth <= Len(stack)
            /\ frames[m + 1].label_base <= Len(labels)
        <5>1. \A a, b, c \in Nat : a <= b /\ b <= c => a <= c
          OBVIOUS
        <5>2. d <= Len(stack)
          BY <1>2, <1>5
        <5>3. frames[m + 1].stack_depth <= d
          BY <1>1, <1>5, <4>4, <5>1
        <5> QED BY <1>1, <1>2, <1>5, <1>15, <4>4, <5>1, <5>2, <5>3
      <4>6. SubSeq(stack', 1, frames[m + 1].stack_depth) = SubSeq(stack, 1, frames[m + 1].stack_depth)
        <5>1. \A i \in 1 .. frames[m + 1].stack_depth : stack'[i] = stack[i]
          BY <1>5, <1>6, <4>4, <4>5
        <5>2. frames[m + 1].stack_depth <= Len(stack')
          BY <1>6, <4>5
        <5> QED BY <1>2, <3>0, <4>4, <4>5, <5>1, <5>2, SamePrefix
      <4>7. SubSeq(labels', 1, frames[m + 1].label_base) = SubSeq(labels, 1, frames[m + 1].label_base)
        <5>1. \A i \in 1 .. frames[m + 1].label_base : labels'[i] = labels[i]
          BY <1>2, <1>6, <4>4, <4>5, SMTT(30)
        <5>2. frames[m + 1].label_base <= Len(labels')
          BY <1>2, <1>6, <4>4, <4>5, SMTT(30)
        <5> QED BY <1>2, <3>0, <4>4, <4>5, <5>1, <5>2, SamePrefix
      <4>8. locals'[m - 1] = locals[m - 1]
        BY <1>1, <4>2 DEF Entered1
      <4> QED BY <4>1, <4>3, <4>6, <4>7, <4>8
    <3>3. m = n \/ m \in 1 .. n - 1
      BY <1>1
    <3> QED BY <3>1, <3>2, <3>3
  <2>6. Len(frames') - 1 = n
    BY <1>1, <1>6
  <2> QED BY <2>4, <2>5, <2>6, Zenon DEF CallersSaved
<1>20. UNCHANGED build_vars
  OBVIOUS
<1> QED BY <1>1, <1>6, <1>8, <1>18, <1>19, <1>20, SoundRunning


(* What a return does to the stacks. *)
LEMMA LeaveEffect ==
  ASSUME Sound, Running, types[pc].height >= 1, leave_function
  PROVE  /\ stack' \in Seq(Val) /\ Len(stack') = frame.stack_depth + 1 /\ Len(stack') <= MAX_STACK
         /\ \A i \in 1 .. frame.stack_depth : stack'[i] = stack[i]
         /\ labels' \in Seq(Label) /\ Len(labels') = frame.label_base /\ Len(labels') <= MAX_LABELS
         /\ \A i \in 1 .. frame.label_base : labels'[i] = labels[i]
         /\ frames' \in Seq(CallFrame) /\ Len(frames') = Len(frames) - 1
         /\ \A m \in 1 .. Len(frames) - 1 : frames'[m] = frames[m]
         /\ frame.stack_depth <= Len(stack) /\ frame.label_base <= Len(labels)
<1>1. /\ Len(frames) \in Nat \ {0} /\ frame.stack_depth \in Nat /\ frame.label_base \in Nat
      /\ frame.result_count = 1 /\ frames \in Seq(CallFrame)
  BY CurrentFrame DEF MachineOK
<1>2. /\ stack \in Seq(Val) /\ Len(stack) \in Nat /\ Len(stack) <= MAX_STACK
      /\ labels \in Seq(Label) /\ Len(labels) \in Nat /\ Len(labels) <= MAX_LABELS
      /\ types[pc].height \in Nat /\ Len(stack) = frame.stack_depth + types[pc].height
      /\ frame.label_base <= Len(labels)
  BY CurrentPlace, CurrentLabels
<1>3. Len(stack) > 0 /\ frame.stack_depth <= Len(stack) /\ frame.stack_depth + 1 <= Len(stack)
  <2>1. ASSUME NEW a \in Nat, NEW h \in Nat, NEW l \in Nat, l = a + h, h >= 1
        PROVE  l > 0 /\ a <= l /\ a + 1 <= l
    BY <2>1
  <2> QED BY <1>1, <1>2, <2>1
<1>4. stack' = Append(sp_set(frame.stack_depth), Top(stack))
  BY <1>1, <1>3 DEF leave_function, kept
<1>5. Top(stack) \in Val
  BY <1>2, <1>3, Popped
<1>6. /\ stack' \in Seq(Val) /\ Len(stack') = frame.stack_depth + 1
      /\ \A i \in 1 .. frame.stack_depth : stack'[i] = stack[i]
  BY <1>1, <1>3, <1>4, <1>5, SpSet, PushOn
<1>7. Len(stack') <= MAX_STACK
  BY <1>1, <1>2, <1>3, <1>6, InterpAssumption
<1>8. /\ labels' \in Seq(Label) /\ Len(labels') = frame.label_base
      /\ \A i \in 1 .. frame.label_base : labels'[i] = labels[i]
  <2>1. \A i \in 1 .. frame.label_base : labels[i] \in Label
    <3>1. \A i \in 1 .. frame.label_base : i \in 1 .. Len(labels)
      BY <1>1, <1>2
    <3> QED BY <1>2, <3>1, ElementOfSeq
  <2>2. labels' = SubSeq(labels, 1, frame.label_base)
    BY DEF leave_function
  <2> QED BY <1>1, <2>1, <2>2, SubSeqProperties
<1>9. Len(labels') <= MAX_LABELS
  BY <1>1, <1>2, <1>8, InterpAssumption
<1>10. /\ frames' \in Seq(CallFrame) /\ Len(frames') = Len(frames) - 1
       /\ \A m \in 1 .. Len(frames) - 1 : frames'[m] = frames[m]
  <2>1. PICK n \in Nat : Len(frames) = n + 1
    <3>1. Len(frames) - 1 \in Nat /\ Len(frames) = (Len(frames) - 1) + 1
      BY <1>1
    <3> QED BY <3>1
  <2>2. n = Len(frames) - 1
    BY <2>1
  <2>3. \A m \in 1 .. n : frames[m] \in CallFrame
    BY <1>1, <2>1, ElementOfSeq
  <2>4. frames' = SubSeq(frames, 1, n)
    BY <2>2 DEF leave_function
  <2>5. frames' \in Seq(CallFrame) /\ Len(frames') = n /\ \A m \in 1 .. n : frames'[m] = frames[m]
    BY <2>3, <2>4, SubSeqProperties
  <2> QED BY <2>2, <2>5
<1> QED BY <1>2, <1>3, <1>6, <1>7, <1>8, <1>9, <1>10

(* The outermost call returns: the run ends with its one result. *)
LEMMA LastLeaveSound ==
  ASSUME Sound, Running, UNCHANGED <<build_vars, phase>>, types[pc].height >= 1, leave_function,
         Len(frames) = 1
  PROVE  Sound'
<1>1. Body /\ MachineOK /\ phase = "run" /\ frame = frames[Len(frames)] /\ FramesMatch
  BY CurrentFrame DEF Running
<1>2. frame.stack_depth = 0 /\ frame.label_base = 0
  BY <1>1 DEF FramesMatch
<1>3. /\ stack' \in Seq(Val) /\ Len(stack') = frame.stack_depth + 1 /\ Len(stack') <= MAX_STACK
      /\ labels' \in Seq(Label) /\ Len(labels') = frame.label_base /\ Len(labels') <= MAX_LABELS
      /\ frames' \in Seq(CallFrame) /\ Len(frames') = Len(frames) - 1
  BY LeaveEffect
<1>4. outcome' = "ok" /\ UNCHANGED <<pc, locals>>
  BY DEF leave_function
<1>5. Len(stack') = 1 /\ Len(labels') = 0 /\ Len(frames') = 0
  BY <1>2, <1>3
<1>6. labels' = << >> /\ frames' = << >>
  BY <1>3, <1>5, EmptySeq
<1>7. MachineOK'
  <2>1. Len(frames') <= MAX_CALL_DEPTH
    BY <1>5, InterpAssumption
  <2> QED BY <1>1, <1>3, <1>4, <2>1 DEF MachineOK
<1>8. ValidCodeDoesNotTrap' /\ outcome' # "running"
  BY <1>4, <1>5, <1>6 DEF ValidCodeDoesNotTrap
<1> QED BY <1>1, <1>7, <1>8, SoundStopped

(* A call returns to its caller. *)
LEMMA LeaveSound ==
  ASSUME Sound, Running, UNCHANGED <<build_vars, phase>>, types[pc].height >= 1, leave_function,
         Len(frames) # 1, saved' = SubSeq(saved, 1, Len(saved) - 1)
  PROVE  Sound'
<1>0. PICK n : n = Len(frames) - 1
  OBVIOUS
<1>1. /\ Len(frames) = n + 1 /\ n \in Nat \ {0} /\ Body /\ MachineOK /\ FramesMatch /\ CallersSaved
      /\ phase = "run" /\ frame = frames[n + 1] /\ outcome = "running"
      /\ frame.stack_depth \in Nat /\ frame.label_base \in Nat
  <2>1. Len(frames) \in Nat \ {0} /\ frame = frames[Len(frames)]
    BY CurrentFrame
  <2>2. Len(frames) = n + 1 /\ n \in Nat \ {0}
    BY <1>0, <2>1
  <2> QED BY <2>1, <2>2, CurrentFrame DEF Running
<1>2. /\ stack' \in Seq(Val) /\ Len(stack') = frame.stack_depth + 1 /\ Len(stack') <= MAX_STACK
      /\ \A i \in 1 .. frame.stack_depth : stack'[i] = stack[i]
      /\ labels' \in Seq(Label) /\ Len(labels') = frame.label_base /\ Len(labels') <= MAX_LABELS
      /\ \A i \in 1 .. frame.label_base : labels'[i] = labels[i]
      /\ frames' \in Seq(CallFrame) /\ Len(frames') = n
      /\ \A m \in 1 .. n : frames'[m] = frames[m]
      /\ frame.stack_depth <= Len(stack) /\ frame.label_base <= Len(labels)
  BY <1>0, LeaveEffect
<1>3. pc' = frame.return_pc /\ UNCHANGED <<locals, outcome>>
  BY DEF leave_function
<1>4. code' = code /\ types' = types /\ phase' = "run" /\ outcome' = "running"
  BY <1>1, <1>3 DEF build_vars
<1>5. frames \in Seq(CallFrame)
  BY <1>1 DEF MachineOK
<1>6. \A m \in 1 .. n + 1 : frames[m].label_base \in Nat /\ frames[m].stack_depth \in Nat
  BY <1>1, <1>5, FrameTypes
<1>7. \A l, m \in 1 .. n + 1 : l <= m => /\ frames[l].label_base <= frames[m].label_base
                                          /\ frames[l].stack_depth <= frames[m].stack_depth
  BY <1>1 DEF FramesMatch
<1>8. ASSUME NEW m \in 1 .. n
      PROVE  /\ PcOf(m)' = PcOf(m) /\ LabelsOf(m)' = LabelsOf(m) /\ OperandsOf(m)' = OperandsOf(m)
             /\ LabelsOf(m) = frames[m + 1].label_base
  <2>1. m # n + 1 /\ n \in 1 .. n
    BY <1>1
  <2>2. PcOf(m) = frames[m + 1].return_pc /\ LabelsOf(m) = frames[m + 1].label_base
        /\ OperandsOf(m) = frames[m + 1].stack_depth + 1
    BY <1>1, <2>1 DEF PcOf, LabelsOf, OperandsOf
  <2>3. CASE m = n
    BY <1>1, <1>2, <1>3, <2>2, <2>3 DEF PcOf, LabelsOf, OperandsOf
  <2>4. CASE m # n
    <3>1. m + 1 \in 1 .. n
      BY <1>1, <2>4
    <3>2. PcOf(m)' = frames'[m + 1].return_pc /\ LabelsOf(m)' = frames'[m + 1].label_base
          /\ OperandsOf(m)' = frames'[m + 1].stack_depth + 1
      BY <1>2, <2>4 DEF PcOf, LabelsOf, OperandsOf
    <3> QED BY <1>2, <2>2, <3>1, <3>2
  <2> QED BY <2>2, <2>3, <2>4
<1>9. ASSUME NEW m \in 1 .. n
      PROVE  /\ frames'[m] = frames[m]
             /\ Matches(code, types, frames[m], PcOf(m), labels, LabelsOf(m), OperandsOf(m))
             /\ frames[m].locals_base = m - 1 /\ frames[m].local_count = 1
             /\ frames[m].result_count = 1
             /\ types[PcOf(m)].height >= 1
  <2>1. m \in 1 .. n + 1 /\ m < n + 1
    BY <1>1
  <2> QED BY <1>1, <1>2, <2>1 DEF FramesMatch
<1>10. ASSUME NEW m \in 1 .. n
       PROVE  Matches(code, types, frames'[m], PcOf(m)', labels', LabelsOf(m)', OperandsOf(m)')
  <2>1. m \in 1 .. n + 1 /\ m + 1 \in 1 .. n + 1 /\ n + 1 \in 1 .. n + 1 /\ m + 1 <= n + 1
    BY <1>1
  <2>2. LabelsOf(m) <= frame.label_base
    BY <1>1, <1>7, <1>8, <2>1
  <2>3. PcOf(m) \in 1 .. Len(code)
    BY <1>9 DEF Matches
  <2>4. Level(types, PcOf(m)) \in Nat
    BY <1>1, <2>3, LevelTypes
  <2>5. frames[m].label_base \in Nat
    BY <1>6, <2>1
  <2>6. Matches(code, types, frames[m], PcOf(m), labels', LabelsOf(m), OperandsOf(m))
    BY <1>1, <1>2, <1>9, <2>2, <2>4, <2>5, MatchesSame
  <2> QED BY <1>8, <1>9, <2>6
<1>11. MachineOK'
  <2>1. n \in 1 .. n
    BY <1>1
  <2>2. PcOf(n)' = pc'
    BY <1>2 DEF PcOf
  <2>3. pc' \in 1 .. Len(code)
    BY <1>10, <2>1, <2>2 DEF Matches
  <2>4. pc' \in Nat \ {0}
    <3>1. Len(code) \in Nat
      BY <1>1, BodyFacts
    <3> QED BY <2>3, <3>1
  <2>5. Len(frames') <= MAX_CALL_DEPTH
    <3>1. n + 1 <= MAX_CALL_DEPTH
      BY <1>1 DEF MachineOK
    <3> QED BY <1>1, <1>2, <3>1, InterpAssumption
  <2> QED BY <1>1, <1>2, <1>3, <2>4, <2>5 DEF MachineOK
<1>12. FramesMatch'
  <2>1. 1 \in 1 .. n
    BY <1>1
  <2>2. frames'[1].stack_depth = 0 /\ frames'[1].label_base = 0
    BY <1>1, <1>2, <2>1 DEF FramesMatch
  <2>3. frames' # << >>
    <3>1. Len(frames') # 0
      BY <1>1, <1>2
    <3> QED BY <3>1, EmptySeq
  <2>4. \A l, m \in 1 .. n : l <= m => /\ frames'[l].label_base <= frames'[m].label_base
                                       /\ frames'[l].stack_depth <= frames'[m].stack_depth
    <3>1. \A m \in 1 .. n : m \in 1 .. n + 1
      BY <1>1
    <3> QED BY <1>2, <1>7, <3>1
  <2>5. ASSUME NEW m \in 1 .. n
        PROVE  /\ Matches(code, types, frames'[m], PcOf(m)', labels', LabelsOf(m)', OperandsOf(m)')
               /\ frames'[m].locals_base = m - 1 /\ frames'[m].local_count = 1
               /\ frames'[m].result_count = 1
               /\ m < n => types[PcOf(m)'].height >= 1
    BY <1>8, <1>9, <1>10
  <2> QED BY <1>2, <1>4, <2>2, <2>3, <2>4, <2>5, Zenon DEF FramesMatch
<1>13. CallersSaved'
  <2>1. saved \in Seq(CallerState) /\ Len(saved) = n
    BY <1>1 DEF CallersSaved
  <2>2. PICK k \in Nat : k + 1 = n
    <3>1. n - 1 \in Nat /\ (n - 1) + 1 = n
      BY <1>1
    <3> QED BY <3>1
  <2>3. saved' \in Seq(CallerState) /\ Len(saved') = k /\ \A m \in 1 .. k : saved'[m] = saved[m]
    <3>1. \A m \in 1 .. k : m \in 1 .. Len(saved)
      BY <2>1, <2>2
    <3>2. \A m \in 1 .. k : saved[m] \in CallerState
      BY <2>1, <3>1, ElementOfSeq
    <3>3. saved' = SubSeq(saved, 1, k)
      <4>1. Len(saved) - 1 = k
        BY <1>1, <2>1, <2>2
      <4> QED BY <4>1
    <3> QED BY <3>2, <3>3, SubSeqProperties
  <2>4. ASSUME NEW m \in 1 .. k
        PROVE  /\ saved'[m].stack = SubSeq(stack', 1, frames'[m + 1].stack_depth)
               /\ saved'[m].labels = SubSeq(labels', 1, frames'[m + 1].label_base)
               /\ saved'[m].local = locals'[m - 1]
               /\ saved'[m].pc = frames'[m + 1].return_pc
    <3>1. m \in 1 .. n /\ m + 1 \in 1 .. n /\ m + 1 \in 1 .. n + 1 /\ n + 1 \in 1 .. n + 1
          /\ m + 1 <= n + 1
      BY <1>1, <2>2
    <3>2. /\ saved[m].stack = SubSeq(stack, 1, frames[m + 1].stack_depth)
          /\ saved[m].labels = SubSeq(labels, 1, frames[m + 1].label_base)
          /\ saved[m].local = locals[m - 1]
          /\ saved[m].pc = frames[m + 1].return_pc
      BY <1>1, <2>1, <3>1 DEF CallersSaved
    <3>3. frames'[m + 1] = frames[m + 1]
      BY <1>2, <3>1
    <3>4. /\ frames[m + 1].stack_depth \in Nat /\ frames[m + 1].stack_depth <= frame.stack_depth
          /\ frames[m + 1].label_base \in Nat /\ frames[m + 1].label_base <= frame.label_base
      BY <1>1, <1>6, <1>7, <3>1
    <3>5. stack \in Seq(Val) /\ labels \in Seq(Label) /\ Len(stack) \in Nat /\ Len(labels) \in Nat
      BY CurrentPlace
    <3>6. SubSeq(stack', 1, frames[m + 1].stack_depth) = SubSeq(stack, 1, frames[m + 1].stack_depth)
      <4>1. \A i \in 1 .. frames[m + 1].stack_depth : stack'[i] = stack[i]
        <5>1. \A i \in 1 .. frames[m + 1].stack_depth : i \in 1 .. frame.stack_depth
          BY <1>1, <3>4
        <5> QED BY <1>2, <5>1
      <4>2. frames[m + 1].stack_depth <= Len(stack)
        <5>1. \A a, b, c \in Nat : a <= b /\ b <= c => a <= c
          OBVIOUS
        <5> QED BY <1>1, <1>2, <3>4, <3>5, <5>1
      <4>3. frames[m + 1].stack_depth <= Len(stack')
        <5>1. \A a, b \in Nat : a <= b => a <= b + 1
          OBVIOUS
        <5> QED BY <1>1, <1>2, <3>4, <5>1
      <4> QED BY <1>2, <3>4, <3>5, <4>1, <4>2, <4>3, SamePrefix
    <3>7. SubSeq(labels', 1, frames[m + 1].label_base) = SubSeq(labels, 1, frames[m + 1].label_base)
      <4>1. \A i \in 1 .. frames[m + 1].label_base : labels'[i] = labels[i]
        BY <1>1, <1>2, <3>4, SMTT(30)
      <4>2. frames[m + 1].label_base <= Len(labels)
        <5>1. \A a, b, c \in Nat : a <= b /\ b <= c => a <= c
          OBVIOUS
        <5> QED BY <1>1, <1>2, <3>4, <3>5, <5>1
      <4>3. frames[m + 1].label_base <= Len(labels')
        BY <1>2, <3>4
      <4> QED BY <1>2, <3>4, <3>5, <4>1, <4>2, <4>3, SamePrefix
    <3> QED BY <1>3, <2>3, <3>2, <3>3, <3>6, <3>7
  <2>5. Len(frames') - 1 = k
    BY <1>1, <1>2, <2>2
  <2> QED BY <2>3, <2>4, <2>5, Zenon DEF CallersSaved
<1>14. UNCHANGED build_vars
  OBVIOUS
<1> QED BY <1>1, <1>4, <1>11, <1>12, <1>13, <1>14, SoundRunning


----------------------------------------------------------------------------
(* The run. *)

Simple ==
  \/ Nop \/ Unreachable \/ Block \/ Loop \/ If \/ Else \/ Br \/ BrIf \/ CallHost \/ Drop \/ Select
  \/ LocalGet \/ LocalSet \/ Load \/ Store \/ MemorySize \/ MemoryGrow \/ Const \/ Eqz \/ Convert
  \/ Compare \/ Arithmetic32 \/ Arithmetic64 \/ Divide \/ Undecoded

LEMMA FramesKept ==
  ASSUME Simple
  PROVE  frames' = frames
<1>1. \A kind : trap(kind) => frames' = frames
  BY DEF trap
<1>2. \A n, v : replace(n, v) => frames' = frames
  BY <1>1 DEF replace
<1>3. \A n : discard(n) => frames' = frames
  BY <1>1 DEF discard
<1>4. \A lb, st, q : push_label(lb, st, q) => frames' = frames
  BY <1>1 DEF push_label
<1>5. \A d, n : do_branch(d, n) => frames' = frames
  BY <1>1 DEF do_branch
<1>6. CASE Nop \/ Unreachable \/ Else \/ Drop \/ Store \/ Undecoded
  BY <1>1, <1>3, <1>6 DEF Nop, Unreachable, Else, Drop, Store, Undecoded
<1>7. CASE Block \/ Loop
  BY <1>4, <1>7 DEF Block, Loop
<1>8. CASE If
  BY <1>1, <1>4, <1>8 DEF If
<1>9. CASE Br \/ BrIf
  BY <1>3, <1>5, <1>9 DEF Br, BrIf
<1>10. CASE LocalGet \/ LocalSet
  BY <1>1, <1>2, <1>10 DEF LocalGet, LocalSet
<1>11. CASE CallHost \/ Select \/ Load \/ Divide
  BY <1>1, <1>2, <1>11 DEF CallHost, Select, Load, Divide
<1>12. CASE MemorySize \/ MemoryGrow \/ Const \/ Eqz \/ Convert \/ Compare \/ Arithmetic32
            \/ Arithmetic64
  BY <1>2, <1>12 DEF MemorySize, MemoryGrow, Const, Eqz, Convert, Compare, Arithmetic32, Arithmetic64
<1> QED BY <1>6, <1>7, <1>8, <1>9, <1>10, <1>11, <1>12 DEF Simple

LEMMA RunIs ==
  ASSUME run
  PROVE  outcome = "running" /\ (Simple \/ Call \/ Return \/ End)
<1>1. Simple \/ Call \/ Return \/ End
  BY DEF run, Simple
<1>2. Call \/ Return \/ End => outcome = "running"
  BY DEF Call, Return, End, Fetched
<1>3. Simple => outcome = "running"
  BY DEF Simple, Fetched, Nop, Unreachable, Block, Loop, If, Else, Br, BrIf, CallHost, Drop, Select,
         LocalGet, LocalSet, Load, Store, MemorySize, MemoryGrow, Const, Eqz, Convert, Compare,
         Arithmetic32, Arithmetic64, Divide, Undecoded
<1> QED BY <1>1, <1>2, <1>3

LEMMA SimpleRunSound ==
  ASSUME Sound, Running, Rest, Simple
  PROVE  Sound'
<1>1. CASE Nop \/ Unreachable \/ Drop \/ Store
  BY <1>1, SimpleSound
<1>2. CASE Block \/ Loop
  BY <1>2, BlockSound
<1>3. CASE If
  BY <1>3, IfSound
<1>4. CASE Else
  BY <1>4, ElseSound
<1>5. CASE Br \/ BrIf
  BY <1>5, BrSound
<1>6. CASE LocalGet \/ LocalSet
  BY <1>6, LocalSound
<1>7. CASE Load \/ MemorySize \/ MemoryGrow \/ Const \/ Eqz \/ Convert \/ Compare \/ Arithmetic32
             \/ Arithmetic64 \/ Divide \/ Select \/ CallHost
  BY <1>7, ComputeSound
<1>8. CASE Undecoded
  BY <1>8, UndecodedSound DEF Rest
<1> QED BY <1>1, <1>2, <1>3, <1>4, <1>5, <1>6, <1>7, <1>8 DEF Simple

(* RETURN and the END of the body leave the function with its result on the stack. *)
LEMMA Leaves ==
  ASSUME Sound, Running, Return \/ (End /\ Level(types, pc) = 1)
  PROVE  leave_function /\ types[pc].height >= 1
<1>1. CASE Return
  BY <1>1, ReturnOf DEF Return, Fetched
<1>2. CASE End /\ Level(types, pc) = 1
  <2>1. /\ Body /\ pc \in 1 .. Len(code) /\ Len(code) \in Nat /\ code[pc].op = "end"
        /\ ~types[pc].dead /\ types[pc].height \in Nat
        /\ frame.label_base \in Nat /\ Len(labels) = frame.label_base + 1
    BY <1>2, CurrentFrame, CurrentPlace DEF End, Fetched
  <2>2. leave_function
    BY <1>2, <2>1 DEF End
  <2>3. pc = Len(code)
    <3>1. ASSUME pc \in 1 .. Len(code) - 1
          PROVE  FALSE
      BY <1>2, <2>1, <3>1, BodyStep
    <3> QED BY <2>1, <3>1
  <2>4. Complete(types[pc]) /\ OpenBlock(types, pc, 1) = Func
    BY <2>1, <2>3, BodyFacts DEF Nested
  <2>5. OpenAt(types[pc]) = Func
    BY <1>2, <2>4 DEF OpenAt, OpenBlock, Level
  <2>6. types[pc].height - Func.height = Func.results
    BY <2>1, <2>4, <2>5 DEF Complete, Operands
  <2>7. Func.height = 0 /\ Func.results = 1
    BY DEF Func
  <2> QED BY <2>1, <2>2, <2>6, <2>7
<1> QED BY <1>1, <1>2

LEMMA RunSound ==
  ASSUME Sound, Run
  PROVE  Sound'
<1>1. /\ phase = "run" /\ run /\ UNCHANGED <<build_vars, phase>>
      /\ saved' = CASE Len(frames') > Len(frames) -> Append(saved, Caller)
                    [] Len(frames') < Len(frames) /\ saved # << >> ->
                         SubSeq(saved, 1, Len(saved) - 1)
                    [] OTHER -> saved
  BY DEF Run
<1>2. Running
  BY <1>1, RunIs DEF Running
<1>3. Len(frames) \in Nat \ {0} /\ Len(labels) \in Nat
  BY <1>2, CurrentFrame, CurrentPlace
<1>4. frames' = frames => Rest
  BY <1>1, <1>3 DEF Rest
<1>5. CASE Simple
  BY <1>2, <1>4, <1>5, FramesKept, SimpleRunSound
<1>6. CASE Call
  <2>1. code[pc].op = "call" /\ enter_function(1, stack, pc + 1)
    BY <1>2, <1>6, CallsOne
  <2>2. Len(stack) >= 1 /\ stack \in Seq(Val) /\ Len(stack) <= MAX_STACK
    <3>1. types[pc].height >= 1
      BY <1>2, <2>1, OtherStraight DEF Straight
    <3> QED BY <1>2, <3>1, Popped, CurrentPlace
  <2>3. locals_base = Len(frames) /\ locals \in [0 .. MAX_LOCALS * MAX_CALL_DEPTH - 1 -> Val]
    <3>1. frames # << >> /\ frame.locals_base = Len(frames) - 1 /\ frame.local_count = 1
      BY <1>2, CurrentFrame DEF FramesMatch
    <3> QED BY <1>2, <1>3, <3>1, CurrentFrame DEF locals_base, MachineOK
  <2>4. CASE trap("CallStackOverflow") \/ trap("LabelStackOverflow")
    BY <1>1, <1>2, <2>4, TrapSound
  <2>5. CASE Entered1(stack, pc + 1)
    <3>1. Body /\ MachineOK /\ pc + 1 \in Nat
      BY <1>2, CurrentFrame DEF MachineOK
    <3>2. Len(frames') = Len(frames) + 1
      BY <2>2, <2>5, <3>1, EnteredTyped
    <3>3. Len(frames') > Len(frames)
      BY <1>3, <3>2
    <3>4. saved' = Append(saved, Caller)
      <4>1. ~(Len(frames') < Len(frames))
        BY <1>3, <3>2
      <4> QED BY <1>1, <3>3, <4>1
    <3> QED BY <1>1, <1>2, <2>1, <2>5, <3>4, CallSound
  <2> QED BY <1>3, <2>1, <2>2, <2>3, <2>4, <2>5, EnterEffect
<1>7. CASE Return \/ (End /\ Level(types, pc) = 1)
  <2>1. leave_function /\ types[pc].height >= 1
    BY <1>2, <1>7, Leaves
  <2>2. CASE Len(frames) = 1
    BY <1>1, <1>2, <2>1, <2>2, LastLeaveSound
  <2>3. CASE Len(frames) # 1
    <3>1. Len(frames') = Len(frames) - 1
      BY <1>2, <2>1, LeaveEffect
    <3>2. saved # << >>
      <4>1. Len(saved) = Len(frames) - 1
        BY <1>2, CurrentFrame DEF CallersSaved
      <4>2. Len(saved) # 0
        BY <1>3, <2>3, <4>1
      <4> QED BY <4>2, EmptySeq
    <3>3. saved' = SubSeq(saved, 1, Len(saved) - 1)
      BY <1>1, <1>3, <3>1, <3>2
    <3> QED BY <1>1, <1>2, <2>1, <2>3, <3>3, LeaveSound
  <2> QED BY <2>2, <2>3
<1>8. CASE End /\ Level(types, pc) # 1
  <2>1. ~(Len(labels) - 1 = frame.label_base)
    <3>1. /\ frame.label_base \in Nat /\ Level(types, pc) \in Nat
          /\ Len(labels) = frame.label_base + Level(types, pc)
      BY <1>2, CurrentFrame, CurrentPlace
    <3> QED BY <1>8, <3>1
  <2>2. frames' = frames
    BY <1>8, <2>1 DEF End
  <2> QED BY <1>2, <1>4, <1>8, <2>2, EndBlockSound
<1> QED BY <1>1, <1>5, <1>6, <1>7, <1>8, RunIs


----------------------------------------------------------------------------
(* Building a body. *)

(* One more instruction, with the state of validation before and after it. *)
LEMMA ValidatesAppend ==
  ASSUME NEW cs, NEW ts, NEW s, NEW ins \in Instruction, NEW t \in ValidationState,
         Len(cs) = Len(ts), ts \in Seq(ValidationState), s \in ValidationState,
         Validates(cs, Append(ts, s)), Checks(ins, Len(cs) + 1, s, t)
  PROVE  Validates(Append(cs, ins), Append(Append(ts, s), t))
<1> DEFINE us == Append(ts, s)
           vs == Append(us, t)
           ds == Append(cs, ins)
           n == Len(cs)
<1>1. /\ cs \in Seq(Instruction) /\ us \in Seq(ValidationState)
      /\ us[1] = Typed(<<Func>>, 0, FALSE)
      /\ \A i \in 1 .. Len(us) - 1 : Checks(cs[i], i, us[i], us[i + 1])
  BY DEF Validates
<1>2. n \in Nat /\ Len(us) = n + 1 /\ us[n + 1] = s
  BY <1>1, AppendProperties, LenProperties
<1> HIDE DEF us
<1>3. /\ vs \in Seq(ValidationState) /\ Len(vs) = n + 2
      /\ \A i \in 1 .. n + 1 : vs[i] = us[i]
      /\ vs[n + 2] = t
  <2>1. /\ vs \in Seq(ValidationState) /\ Len(vs) = Len(us) + 1
        /\ \A i \in 1 .. Len(us) : vs[i] = us[i]
        /\ vs[Len(us) + 1] = t
    BY <1>1, AppendProperties
  <2>2. (n + 1) + 1 = n + 2
    BY <1>2
  <2> QED BY <1>2, <2>1, <2>2
<1>4. /\ ds \in Seq(Instruction) /\ Len(ds) = n + 1
      /\ \A i \in 1 .. n : ds[i] = cs[i]
      /\ ds[n + 1] = ins
  BY <1>1, AppendProperties
<1> HIDE DEF vs, ds, n
<1>5. ASSUME NEW i \in 1 .. Len(vs) - 1
      PROVE  Checks(ds[i], i, vs[i], vs[i + 1])
  <2>1. CASE i = n + 1
    <3>1. n + 1 \in 1 .. n + 1 /\ (n + 1) + 1 = n + 2
      BY <1>2
    <3>2. vs[i] = s /\ ds[i] = ins /\ vs[i + 1] = t
      BY <1>2, <1>3, <1>4, <2>1, <3>1
    <3> QED BY <2>1, <3>2 DEF n
  <2>2. CASE i # n + 1
    <3>1. i \in 1 .. n /\ i \in 1 .. n + 1 /\ i + 1 \in 1 .. n + 1 /\ i \in 1 .. Len(us) - 1
      BY <1>2, <1>3, <2>2
    <3>2. ds[i] = cs[i] /\ vs[i] = us[i] /\ vs[i + 1] = us[i + 1]
      BY <1>3, <1>4, <3>1
    <3> QED BY <1>1, <3>1, <3>2
  <2> QED BY <2>1, <2>2
<1>6. Len(vs) >= 1 /\ Len(vs) <= Len(ds) + 1 /\ 1 \in 1 .. n + 1
  BY <1>2, <1>3, <1>4
<1>7. vs[1] = Typed(<<Func>>, 0, FALSE)
  BY <1>1, <1>3, <1>6
<1>8. Validates(ds, vs)
  BY <1>3, <1>4, <1>5, <1>6, <1>7 DEF Validates
<1> QED BY <1>8 DEF ds, vs, us


(* What is built so far, and its open blocks. *)
LEMMA BuildingFacts ==
  ASSUME Building
  PROVE  /\ types \in Seq(ValidationState) /\ here \in ValidationState
         /\ Len(code) = Len(types) /\ Validates(code, Append(types, here))
         /\ code \in Seq(Instruction) /\ Len(code) \in Nat
         /\ control \in Seq(Entry) /\ height \in Nat /\ dead \in BOOLEAN
         /\ Len(control) \in Nat \ {0} /\ control[1] = Func
         /\ here.control = control /\ here.height = height /\ here.dead = dead
<1> DEFINE us == Append(types, here)
           n == Len(code)
<1>1. /\ Len(code) = Len(types) /\ Validates(code, us)
      /\ types \in Seq(ValidationState) /\ here \in ValidationState
  BY DEF Building
<1>2. code \in Seq(Instruction) /\ n \in Nat
  BY <1>1, LenProperties DEF Validates
<1>3. Len(us) = n + 1 /\ us[n + 1] = here
  BY <1>1, AppendProperties
<1>4. n + 1 \in 1 .. Len(us)
  BY <1>2, <1>3
<1>5. Nested(code, us, n + 1)
  BY <1>1, <1>4, BlocksNest
<1>6. here.control = control /\ here.height = height /\ here.dead = dead
  BY DEF here
<1>7. control \in Seq(Entry) /\ height \in Nat /\ dead \in BOOLEAN
  BY <1>1, <1>6, StateTypes
<1>8. Len(control) \in Nat \ {0} /\ control[1] = Func
  BY <1>3, <1>5, <1>6 DEF Nested, Level, OpenBlock
<1> QED BY <1>1, <1>2, <1>6, <1>7, <1>8

LEMMA OpenFacts ==
  ASSUME Building
  PROVE  /\ open \in Entry /\ open.height \in Nat /\ open.results \in {0, 1}
         /\ OpenAt(here) = open /\ Operands(here) = Available
         /\ Complete(here) <=> Completed
<1>1. /\ control \in Seq(Entry) /\ Len(control) \in Nat \ {0} /\ here.control = control
      /\ here.height = height /\ here.dead = dead
  BY BuildingFacts
<1>2. Len(control) \in 1 .. Len(control)
  BY <1>1
<1>3. open \in Entry
  BY <1>1, <1>2, ElementOfSeq DEF open, Top
<1>4. open.height \in Nat /\ open.results \in {0, 1}
  BY <1>3 DEF Entry
<1>5. OpenAt(here) = open
  BY <1>1 DEF OpenAt, open, Top
<1>6. Operands(here) = Available
  BY <1>1, <1>5 DEF Operands, Available
<1>7. Complete(here) <=> Completed
  BY <1>1, <1>5, <1>6 DEF Complete, Completed
<1> QED BY <1>3, <1>4, <1>5, <1>6, <1>7

LEMMA EmitSound ==
  ASSUME Sound, NEW op \in OpNames, NEW arg \in Nat, NEW cs \in Seq(Entry), NEW h \in Nat,
         NEW d \in BOOLEAN, Emit(op, arg, cs, h, d),
         Checks([op |-> op, arg |-> arg], Len(code) + 1, here, Typed(cs, h, d))
  PROVE  Sound'
<1> DEFINE ins == [op |-> op, arg |-> arg]
<1>1. phase = "build" /\ Building /\ MachineOK /\ new /\ saved = << >> /\ ValidCodeDoesNotTrap
  BY DEF Emit, Sound
<1>2. /\ types \in Seq(ValidationState) /\ here \in ValidationState
      /\ Len(code) = Len(types) /\ Validates(code, Append(types, here))
      /\ code \in Seq(Instruction)
  BY <1>1, BuildingFacts
<1>3. ins \in Instruction /\ Typed(cs, h, d) \in ValidationState
  BY DEF Instruction, Typed, ValidationState
<1>4. code' = Append(code, ins) /\ types' = Append(types, here) /\ here' = Typed(cs, h, d)
  BY DEF Emit, here, Typed
<1>5. UNCHANGED <<machine_vars, phase, saved>>
  BY DEF Emit
<1> HIDE DEF ins
<1>6. Validates(Append(code, ins), Append(Append(types, here), Typed(cs, h, d)))
  BY <1>2, <1>3, ValidatesAppend DEF ins
<1>7. Len(code') = Len(types') /\ types' \in Seq(ValidationState)
  BY <1>2, <1>3, <1>4, AppendProperties
<1>8. Building'
  <2>1. Validates(code', Append(types', here'))
    BY <1>4, <1>6
  <2> QED BY <1>3, <1>4, <1>7, <2>1 DEF Building
<1>9. MachineOK' /\ new' /\ saved' = << >> /\ ValidCodeDoesNotTrap' /\ phase' = "build"
  BY <1>1, <1>5 DEF machine_vars, MachineOK, new, ValidCodeDoesNotTrap
<1>10. ~Running'
  BY <1>9 DEF Running
<1> QED BY <1>8, <1>9, <1>10, Zenon DEF Sound

LEMMA EmitPlainSound ==
  ASSUME Sound, EmitPlain
  PROVE  Sound'
<1>1. PICK op \in DOMAIN PlainOps :
         /\ ~dead /\ Available >= PlainOps[op][1]
         /\ Emit(op, 0, control, height - PlainOps[op][1] + PlainOps[op][2], FALSE)
  BY DEF EmitPlain
<1>2. Building
  BY <1>1 DEF Emit, Sound
<1>3. op \in OpNames /\ PlainOps[op][1] \in Nat /\ PlainOps[op][2] \in Nat
  BY PlainOpNames DEF OpNames
<1>4. /\ open.height \in Nat /\ Operands(here) = Available /\ height \in Nat
      /\ control \in Seq(Entry) /\ here.control = control /\ here.height = height /\ ~here.dead
  BY <1>1, <1>2, BuildingFacts, OpenFacts
<1> DEFINE h == height - PlainOps[op][1] + PlainOps[op][2]
<1>5. h \in Nat
  <2>1. PICK a \in Nat, b \in Nat : a = PlainOps[op][1] /\ b = PlainOps[op][2]
    BY <1>3
  <2>2. height - open.height >= a
    BY <1>1, <2>1 DEF Available
  <2>3. height - a + b \in Nat
    BY <1>4, <2>2
  <2> QED BY <2>1, <2>3
<1>6. Checks([op |-> op, arg |-> 0], Len(code) + 1, here, Typed(control, h, FALSE))
  <2>1. PlainRule([op |-> op, arg |-> 0], here, Typed(control, h, FALSE))
    BY <1>1, <1>4 DEF PlainRule
  <2> QED BY <2>1 DEF Checks
<1> QED BY <1>1, <1>3, <1>4, <1>5, <1>6, EmitSound

LEMMA EmitPushSound ==
  ASSUME Sound, EmitPush
  PROVE  Sound'
<1>1. PICK op \in {"const", "local_get"}, arg \in {0, 1} :
         /\ ~dead /\ Emit(op, arg, control, height + 1, FALSE)
         /\ (op = "const" /\ arg = 1) \/ (op = "local_get" /\ arg = 0)
  BY DEF EmitPush
<1>2. Building
  BY <1>1 DEF Emit, Sound
<1>3. /\ control \in Seq(Entry) /\ here.control = control /\ here.height = height /\ ~here.dead
      /\ height \in Nat
  BY <1>1, <1>2, BuildingFacts
<1>4. Checks([op |-> op, arg |-> arg], Len(code) + 1, here, Typed(control, height + 1, FALSE))
  <2>1. PushRule([op |-> op, arg |-> arg], here, Typed(control, height + 1, FALSE))
    BY <1>1, <1>3 DEF PushRule
  <2> QED BY <2>1 DEF Checks
<1>5. op \in OpNames /\ arg \in Nat /\ height + 1 \in Nat
  BY <1>3 DEF OpNames
<1> QED BY <1>1, <1>3, <1>4, <1>5, EmitSound

LEMMA EmitCallSound ==
  ASSUME Sound, EmitCall
  PROVE  Sound'
<1>1. PICK f \in {0, 1} : ~dead /\ Available >= 1 /\ Emit("call", f, control, height, FALSE)
  BY DEF EmitCall
<1>2. Building
  BY <1>1 DEF Emit, Sound
<1>3. /\ control \in Seq(Entry) /\ here.control = control /\ here.height = height /\ ~here.dead
      /\ height \in Nat /\ Operands(here) = Available
  BY <1>1, <1>2, BuildingFacts, OpenFacts
<1>4. Checks([op |-> "call", arg |-> f], Len(code) + 1, here, Typed(control, height, FALSE))
  <2>1. CallRule([op |-> "call", arg |-> f], here, Typed(control, height, FALSE))
    BY <1>1, <1>3 DEF CallRule
  <2> QED BY <2>1 DEF Checks
<1>5. f \in Nat /\ "call" \in OpNames
  BY DEF OpNames
<1> QED BY <1>1, <1>3, <1>4, <1>5, EmitSound

LEMMA EmitLeaveSound ==
  ASSUME Sound, EmitLeave
  PROVE  Sound'
<1>1. PICK op \in {"return", "unreachable"} :
         ~dead /\ (op = "return" => Available >= 1) /\ Emit(op, 0, control, height, TRUE)
  BY DEF EmitLeave
<1>2. Building
  BY <1>1 DEF Emit, Sound
<1>3. /\ control \in Seq(Entry) /\ here.control = control /\ here.height = height /\ ~here.dead
      /\ height \in Nat /\ Operands(here) = Available
  BY <1>1, <1>2, BuildingFacts, OpenFacts
<1>4. Checks([op |-> op, arg |-> 0], Len(code) + 1, here, Typed(control, height, TRUE))
  <2>1. LeaveRule([op |-> op, arg |-> 0], here, Typed(control, height, TRUE))
    BY <1>1, <1>3 DEF LeaveRule
  <2> QED BY <2>1 DEF Checks
<1>5. op \in OpNames
  BY DEF OpNames
<1> QED BY <1>1, <1>3, <1>4, <1>5, EmitSound


LEMMA EmitBlockSound ==
  ASSUME Supported, Sound, EmitBlock
  PROVE  Sound'
<1>1. PICK op \in {"block", "loop", "if"}, r \in {0, 1}, h \in {height - 1, height} :
         /\ ~dead /\ Emit(op, r, Entered(op, h, r), h, FALSE)
         /\ op = "loop" => r = 0
         /\ op = "if" => Available >= 1
         /\ h = IF op = "if" THEN height - 1 ELSE height
  <2>1. ~dead
    BY DEF EmitBlock
  <2>2. CASE \E r \in {0, 1} : Emit("block", r, Entered("block", height, r), height, FALSE)
    BY <2>1, <2>2
  <2>3. CASE \E r \in LoopResults : Emit("loop", r, Entered("loop", height, r), height, FALSE)
    BY <2>1, <2>3 DEF Supported
  <2>4. CASE Available >= 1 /\ \E r \in {0, 1} :
                Emit("if", r, Entered("if", height - 1, r), height - 1, FALSE)
    BY <2>1, <2>4
  <2> QED BY <2>2, <2>3, <2>4 DEF EmitBlock
<1>2. Building
  BY <1>1 DEF Emit, Sound
<1>3. /\ control \in Seq(Entry) /\ here.control = control /\ here.height = height /\ ~here.dead
      /\ height \in Nat /\ Operands(here) = Available /\ open.height \in Nat /\ Len(code) \in Nat
  BY <1>1, <1>2, BuildingFacts, OpenFacts
<1>4. h \in Nat
  <2>1. op = "if" => height - open.height >= 1
    BY <1>1 DEF Available
  <2> QED BY <1>1, <1>3, <2>1
<1> DEFINE ins == [op |-> op, arg |-> r]
           e == NewEntry(ins, Len(code) + 1, here)
<1>5. Below(ins, here) = h
  BY <1>1, <1>3 DEF Below
<1>6. e = [kind |-> op, height |-> h, results |-> r, at |-> Len(code) + 1]
  BY <1>5 DEF NewEntry
<1>7. Entered(op, h, r) = Append(control, e)
  BY <1>6 DEF Entered
<1>8. e \in Entry
  BY <1>3, <1>4, <1>6 DEF Entry
<1>9. Append(control, e) \in Seq(Entry)
  BY <1>3, <1>8, AppendProperties
<1>10. OpenRule(ins, Len(code) + 1, here, Typed(Append(control, e), h, FALSE))
  BY <1>1, <1>3, <1>5 DEF OpenRule
<1> HIDE DEF e
<1>11. Checks(ins, Len(code) + 1, here, Typed(Append(control, e), h, FALSE))
  BY <1>10 DEF Checks
<1>12. op \in OpNames /\ r \in Nat
  BY DEF OpNames
<1> QED BY <1>1, <1>4, <1>7, <1>9, <1>11, <1>12, EmitSound

LEMMA EmitElseSound ==
  ASSUME Sound, EmitElse
  PROVE  Sound'
<1> DEFINE cs == [control EXCEPT ![Len(control)].kind = "else"]
<1>1. open.kind = "if" /\ Completed /\ Emit("else", 0, cs, open.height, FALSE)
  BY DEF EmitElse
<1>2. Building
  BY <1>1 DEF Emit, Sound
<1>3. /\ control \in Seq(Entry) /\ here.control = control /\ open.height \in Nat
      /\ OpenAt(here) = open /\ Complete(here) /\ open \in Entry /\ Len(control) \in Nat \ {0}
  BY <1>1, <1>2, BuildingFacts, OpenFacts
<1>4. cs = [control EXCEPT ![Len(control)] = ElseEntry(open)]
  BY DEF ElseEntry, open, Top
<1>5. ElseEntry(open) \in Entry
  BY <1>3 DEF ElseEntry, Entry
<1> HIDE DEF cs
<1>6. cs \in Seq(Entry)
  <2>1. Len(control) \in 1 .. Len(control)
    BY <1>3
  <2> QED BY <1>3, <1>4, <1>5, <2>1, ExceptSeq
<1>7. ElseRule([op |-> "else", arg |-> 0], here, Typed(cs, open.height, FALSE))
  BY <1>1, <1>3, <1>4 DEF ElseRule
<1>8. Checks([op |-> "else", arg |-> 0], Len(code) + 1, here, Typed(cs, open.height, FALSE))
  BY <1>7 DEF Checks
<1>9. "else" \in OpNames
  BY DEF OpNames
<1> QED BY <1>1, <1>3, <1>6, <1>8, <1>9, EmitSound

LEMMA EmitEndSound ==
  ASSUME Sound, EmitEnd
  PROVE  Sound'
<1> DEFINE cs == SubSeq(control, 1, Len(control) - 1)
           h == open.height + open.results
<1>1. Completed /\ (open.kind = "if" => open.results = 0) /\ Len(control) > 1
      /\ Emit("end", 0, cs, h, FALSE)
  BY DEF EmitEnd
<1>2. Building
  BY <1>1 DEF Emit, Sound
<1>3. /\ control \in Seq(Entry) /\ here.control = control /\ open.height \in Nat
      /\ open.results \in {0, 1} /\ OpenAt(here) = open /\ Complete(here) /\ Len(control) \in Nat
  BY <1>1, <1>2, BuildingFacts, OpenFacts
<1>4. cs \in Seq(Entry)
  <2>1. \A i \in 1 .. Len(control) - 1 : control[i] \in Entry
    BY <1>3, ElementOfSeq
  <2> QED BY <1>3, <2>1, SubSeqProperties
<1>5. h \in Nat
  BY <1>3
<1>6. EndRule([op |-> "end", arg |-> 0], here, Typed(cs, h, FALSE))
  BY <1>1, <1>3 DEF EndRule
<1>7. Checks([op |-> "end", arg |-> 0], Len(code) + 1, here, Typed(cs, h, FALSE))
  BY <1>6 DEF Checks
<1>8. "end" \in OpNames
  BY DEF OpNames
<1> QED BY <1>1, <1>4, <1>5, <1>7, <1>8, EmitSound

LEMMA EmitBranchSound ==
  ASSUME Supported, Sound, EmitBranch
  PROVE  Sound'
<1>1. PICK d \in 0 .. Len(control) - 1 :
         /\ ~dead /\ TargetKind(d) \in Targets
         /\ \/ Available >= Carries(d) /\ Emit("br", d, control, height, TRUE)
            \/ Available >= Carries(d) + 1 /\ Emit("br_if", d, control, height - 1, FALSE)
  BY DEF EmitBranch
<1>2. Building
  BY <1>1 DEF Emit, Sound
<1>3. /\ control \in Seq(Entry) /\ here.control = control /\ here.height = height /\ ~here.dead
      /\ height \in Nat /\ Operands(here) = Available /\ open.height \in Nat
      /\ Len(control) \in Nat \ {0}
  BY <1>1, <1>2, BuildingFacts, OpenFacts
<1>4. TargetKind(d) \in {"block", "inner_loop"}
  BY <1>1 DEF Supported
<1>5. d # Len(control) - 1
  <2>1. ASSUME d = Len(control) - 1
        PROVE  TargetKind(d) = "function"
    <3>1. ~(d < Len(control) - 1)
      BY <1>3, <2>1
    <3> QED BY <2>1, <3>1 DEF TargetKind
  <2> QED BY <1>4, <2>1
<1>6. d \in 0 .. Len(control) - 2 /\ d \in Nat /\ d < Len(control) - 1
      /\ Len(control) - d \in 1 .. Len(control)
  BY <1>3, <1>5
<1>7. Target(d).kind = "loop" => d = 0
  <2>1. ASSUME Target(d).kind = "loop", d # 0
        PROVE  TargetKind(d) = "outer_loop"
    BY <1>5, <1>6, <2>1 DEF TargetKind
  <2> QED BY <1>4, <2>1
<1>8. Target(d) \in Entry /\ Target(d).results \in {0, 1}
  <2>1. Target(d) \in Entry
    BY <1>3, <1>6, ElementOfSeq DEF Target
  <2> QED BY <2>1 DEF Entry
<1>9. Carries(d) \in {0, 1}
  BY <1>8 DEF Carries
<1>10. Target(d) = here.control[Len(here.control) - d]
  BY <1>3 DEF Target
<1>11. CASE Available >= Carries(d) /\ Emit("br", d, control, height, TRUE)
  <2>1. BranchRule([op |-> "br", arg |-> d], here, Typed(control, height, TRUE))
    BY <1>3, <1>6, <1>7, <1>10, <1>11 DEF BranchRule, Carries
  <2>2. Checks([op |-> "br", arg |-> d], Len(code) + 1, here, Typed(control, height, TRUE))
    BY <2>1 DEF Checks
  <2>3. "br" \in OpNames
    BY DEF OpNames
  <2> QED BY <1>3, <1>6, <1>11, <2>2, <2>3, EmitSound
<1>12. CASE Available >= Carries(d) + 1 /\ Emit("br_if", d, control, height - 1, FALSE)
  <2>1. BranchRule([op |-> "br_if", arg |-> d], here, Typed(control, height - 1, FALSE))
    BY <1>3, <1>6, <1>7, <1>10, <1>12 DEF BranchRule, Carries
  <2>2. Checks([op |-> "br_if", arg |-> d], Len(code) + 1, here, Typed(control, height - 1, FALSE))
    BY <2>1 DEF Checks
  <2>3. "br_if" \in OpNames
    BY DEF OpNames
  <2>4. height - 1 \in Nat
    <3>1. height - open.height >= Carries(d) + 1
      BY <1>12 DEF Available
    <3> QED BY <1>3, <1>9, <3>1
  <2> QED BY <1>3, <1>6, <1>12, <2>2, <2>3, <2>4, EmitSound
<1> QED BY <1>1, <1>11, <1>12

LEMMA FinishSound ==
  ASSUME Sound, Finish
  PROVE  Sound'
<1> DEFINE n == Len(code)
           ins == [op |-> "end", arg |-> 0]
<1>1. /\ phase = "build" /\ Len(control) = 1 /\ Completed /\ code' = Append(code, ins)
      /\ types' = Append(types, here) /\ phase' = "ready" /\ UNCHANGED <<machine_vars, saved>>
  BY DEF Finish
<1>2. Building /\ MachineOK /\ new /\ saved = << >> /\ ValidCodeDoesNotTrap
  BY <1>1 DEF Sound
<1>3. /\ types \in Seq(ValidationState) /\ here \in ValidationState
      /\ n = Len(types) /\ Validates(code, Append(types, here))
      /\ code \in Seq(Instruction) /\ n \in Nat /\ here.control = control
      /\ Complete(here)
  BY <1>1, <1>2, BuildingFacts, OpenFacts
<1>4. ins \in Instruction /\ ins.op = "end"
  BY DEF Instruction, OpNames
<1> HIDE DEF ins
<1>5. /\ code' \in Seq(Instruction) /\ Len(code') = n + 1 /\ code'[n + 1] = ins
      /\ \A i \in 1 .. n : code'[i] = code[i]
  BY <1>1, <1>3, <1>4, AppendProperties
<1>6. types' \in Seq(ValidationState) /\ Len(types') = n + 1 /\ types'[n + 1] = here
  BY <1>1, <1>3, AppendProperties
<1>7. Validates(code', types')
  <2>1. /\ types'[1] = Typed(<<Func>>, 0, FALSE)
        /\ \A i \in 1 .. Len(types') - 1 : Checks(code[i], i, types'[i], types'[i + 1])
    BY <1>1, <1>3 DEF Validates
  <2>2. \A i \in 1 .. Len(types') - 1 : i \in 1 .. n
    BY <1>3, <1>6
  <2>3. \A i \in 1 .. Len(types') - 1 : Checks(code'[i], i, types'[i], types'[i + 1])
    BY <1>5, <2>1, <2>2
  <2>4. Len(types') >= 1 /\ Len(types') <= Len(code') + 1
    BY <1>3, <1>5, <1>6
  <2> QED BY <1>5, <1>6, <2>1, <2>3, <2>4 DEF Validates
<1>8. Body'
  <2>1. Len(here.control) = 1
    BY <1>1, <1>3
  <2> QED BY <1>3, <1>4, <1>5, <1>6, <1>7, <2>1 DEF Body
<1>9. MachineOK' /\ new' /\ saved' = << >> /\ ValidCodeDoesNotTrap'
  BY <1>1, <1>2 DEF machine_vars, MachineOK, new, ValidCodeDoesNotTrap
<1>10. ~Running'
  BY <1>1 DEF Running
<1> QED BY <1>1, <1>8, <1>9, <1>10, Zenon DEF Sound


(* The first call, of an interpreter that is new. *)
LEMMA StartSound ==
  ASSUME Sound, Start
  PROVE  Sound'
<1>1. PICK arg \in Val : call_function(arg)
  BY DEF Start
<1>2. phase = "ready" /\ phase' = "run" /\ UNCHANGED <<build_vars, saved>>
  BY DEF Start
<1>3. Body /\ MachineOK /\ new /\ saved = << >>
  BY <1>2 DEF Sound
<1>4. /\ stack = << >> /\ labels = << >> /\ frames = << >> /\ outcome = "running"
      /\ locals \in [0 .. MAX_LOCALS * MAX_CALL_DEPTH - 1 -> Val]
  BY <1>3 DEF new, MachineOK
<1> DEFINE st == Append(stack, arg)
<1>5. st \in Seq(Val) /\ Len(st) = 1
  <2>1. << >> \in Seq(Val) /\ Len(<< >>) = 0
    BY EmptySeq
  <2> QED BY <1>4, <2>1, AppendProperties
<1>6. enter_function(1, st, 0)
  BY <1>1 DEF call_function
<1> HIDE DEF st
<1>7. Len(frames) = 0 /\ Len(labels) = 0 /\ locals_base = 0
  <2>1. Len(<< >>) = 0
    BY EmptySeq
  <2> QED BY <1>4, <2>1 DEF locals_base
<1>8. trap("CallStackOverflow") \/ trap("LabelStackOverflow") \/ Entered1(st, 0)
  <2>1. Len(frames) \in Nat /\ Len(labels) \in Nat /\ locals_base = Len(frames) /\ Len(st) >= 1
    BY <1>5, <1>7
  <2> QED BY <1>4, <1>5, <1>6, <2>1, EnterEffect
<1>9. ASSUME NEW kind \in {"CallStackOverflow", "LabelStackOverflow"}, trap(kind)
      PROVE  Sound'
  <2>1. MachineOK'
    BY <1>3, <1>9 DEF MachineOK, trap, Traps
  <2>2. outcome' # "running" /\ ValidCodeDoesNotTrap'
    BY <1>9 DEF trap, ValidCodeDoesNotTrap
  <2> QED BY <1>2, <1>3, <2>1, <2>2, SoundStopped
<1>10. CASE Entered1(st, 0)
  <2>1. Len(st) >= 1 /\ Len(st) <= MAX_STACK /\ 0 \in Nat
    BY <1>5, InterpAssumption
  <2>2. /\ MachineOK' /\ Len(stack') = 0 /\ Len(frames') = 1 /\ frames'[1] = NewFrame(0, 0)
        /\ Len(labels') = 1
    <3>1. /\ MachineOK' /\ Len(stack') = Len(st) - 1
          /\ Len(frames') = Len(frames) + 1 /\ frames'[Len(frames) + 1] = NewFrame(0, Len(st) - 1)
          /\ Len(labels') = Len(labels) + 1
      BY <1>3, <1>5, <1>10, <2>1, EnteredTyped
    <3>2. Len(st) - 1 = 0 /\ Len(frames) + 1 = 1 /\ Len(labels) + 1 = 1
      BY <1>5, <1>7
    <3> QED BY <3>1, <3>2
  <2>3. /\ NewFrame(0, 0).stack_depth = 0 /\ NewFrame(0, 0).label_base = 0
        /\ NewFrame(0, 0).locals_base = 0 /\ NewFrame(0, 0).local_count = 1
        /\ NewFrame(0, 0).result_count = 1
    BY <1>7 DEF NewFrame
  <2>4. /\ frames'[1].stack_depth = 0 /\ frames'[1].label_base = 0
        /\ frames'[1].locals_base = 0 /\ frames'[1].local_count = 1 /\ frames'[1].result_count = 1
    BY <2>2, <2>3
  <2>5. code' = code /\ types' = types /\ pc' = 1 /\ outcome' = "running"
    BY <1>2, <1>4, <1>10 DEF Entered1, build_vars
  <2>6. PcOf(1)' = 1 /\ LabelsOf(1)' = 1 /\ OperandsOf(1)' = 0
    BY <2>2, <2>5 DEF PcOf, LabelsOf, OperandsOf
  <2>7. Matches(code, types, frames'[1], 1, labels', 1, 0)
    <3>1. 1 \in 1 .. Len(code) /\ Level(types, 1) = 1 /\ types[1].height = 0 /\ ~types[1].dead
      BY <1>3, FirstInstruction
    <3>2. /\ 1 = frames'[1].label_base + Level(types, 1)
          /\ 0 = frames'[1].stack_depth + types[1].height
          /\ \A k \in 2 .. Level(types, 1) : FALSE
      BY <2>4, <3>1
    <3> QED BY <3>1, <3>2, Zenon DEF Matches
  <2>8. FramesMatch'
    <3>1. frames' # << >>
      BY <2>2, EmptySeq
    <3>2. ASSUME NEW m \in 1 .. 1
          PROVE  /\ Matches(code, types, frames'[m], PcOf(m)', labels', LabelsOf(m)', OperandsOf(m)')
                 /\ frames'[m].locals_base = m - 1 /\ frames'[m].local_count = 1
                 /\ frames'[m].result_count = 1
                 /\ m < 1 => types[PcOf(m)'].height >= 1
      <4>1. m = 1
        OBVIOUS
      <4> QED BY <2>4, <2>6, <2>7, <4>1
    <3>3. \A l, m \in 1 .. 1 : l <= m => /\ frames'[l].label_base <= frames'[m].label_base
                                         /\ frames'[l].stack_depth <= frames'[m].stack_depth
      BY <2>4
    <3> QED BY <2>2, <2>4, <2>5, <3>1, <3>2, <3>3, Zenon DEF FramesMatch
  <2>9. CallersSaved'
    <3>1. saved' = << >> /\ << >> \in Seq(CallerState) /\ Len(<< >>) = 0
      BY <1>2, <1>3, EmptySeq
    <3>2. Len(frames') - 1 = 0 /\ \A m \in 1 .. 0 : FALSE
      BY <2>2
    <3> QED BY <3>1, <3>2, Zenon DEF CallersSaved
  <2> QED BY <1>2, <1>3, <2>2, <2>5, <2>8, <2>9, SoundRunning
<1> QED BY <1>8, <1>9, <1>10

LEMMA InitSound ==
  ASSUME Init
  PROVE  Sound
<1>1. /\ code = << >> /\ types = << >> /\ control = <<Func>> /\ height = 0 /\ dead = FALSE
      /\ new /\ phase = "build" /\ saved = << >>
  BY DEF Init, Func
<1>2. MachineOK
  <2>1. /\ pc = 1 /\ stack = << >> /\ labels = << >> /\ frames = << >> /\ outcome = "running"
        /\ locals = [i \in 0 .. MAX_LOCALS * MAX_CALL_DEPTH - 1 |-> 0]
    BY <1>1 DEF new
  <2>2. /\ << >> \in Seq(Val) /\ << >> \in Seq(Label) /\ << >> \in Seq(CallFrame) /\ Len(<< >>) = 0
    BY EmptySeq
  <2>3. 0 <= MAX_STACK /\ 0 <= MAX_LABELS /\ 0 <= MAX_CALL_DEPTH
    BY InterpAssumption
  <2>4. locals \in [0 .. MAX_LOCALS * MAX_CALL_DEPTH - 1 -> Val]
    BY <2>1 DEF Val
  <2>5. pc \in Nat \ {0}
    BY <2>1
  <2> QED BY <2>1, <2>2, <2>3, <2>4, <2>5 DEF MachineOK
<1>3. here = Typed(<<Func>>, 0, FALSE)
  BY <1>1 DEF here, Typed
<1>4. Func \in Entry
  BY DEF Func, Entry
<1>5. <<Func>> \in Seq(Entry)
  BY <1>4
<1>6. Typed(<<Func>>, 0, FALSE) \in ValidationState
  BY <1>5 DEF Typed, ValidationState
<1>7. Building
  <2>1. /\ << >> \in Seq(ValidationState) /\ << >> \in Seq(Instruction) /\ Len(<< >>) = 0
    BY EmptySeq
  <2> DEFINE us == Append(<< >>, here)
  <2>2. us \in Seq(ValidationState) /\ Len(us) = 1 /\ us[1] = here
    <3>1. here \in ValidationState
      BY <1>3, <1>6
    <3>2. /\ us \in Seq(ValidationState) /\ Len(us) = Len(<< >>) + 1
          /\ us[Len(<< >>) + 1] = here
      BY <2>1, <3>1, AppendProperties
    <3> HIDE DEF us
    <3>3. Len(<< >>) + 1 = 1
      BY <2>1
    <3> QED BY <3>2, <3>3, Zenon
  <2> HIDE DEF us
  <2>3. Validates(<< >>, us)
    BY <1>3, <2>1, <2>2 DEF Validates
  <2> QED BY <1>1, <1>3, <1>6, <2>1, <2>3 DEF Building, us
<1>8. ~Running /\ ValidCodeDoesNotTrap
  BY <1>1 DEF Running, ValidCodeDoesNotTrap, new
<1> QED BY <1>1, <1>2, <1>7, <1>8 DEF Sound

LEMMA SoundUnchanged ==
  ASSUME Sound, UNCHANGED all_vars
  PROVE  Sound'
<1>1. /\ UNCHANGED <<code, control, height, dead, types, pc, stack, locals, labels, frames, outcome,
                     phase, saved>>
  BY DEF all_vars, build_vars, machine_vars
<1>2. /\ MachineOK => MachineOK'
      /\ Building => Building'
      /\ Body => Body'
      /\ new => new'
      /\ CallersSaved => CallersSaved'
      /\ ValidCodeDoesNotTrap => ValidCodeDoesNotTrap'
      /\ Running' => Running
  BY <1>1 DEF MachineOK, Building, Body, Validates, here, new, CallersSaved, ValidCodeDoesNotTrap, Running
<1>3. FramesMatch => FramesMatch'
  BY <1>1 DEF FramesMatch, PcOf, LabelsOf, OperandsOf
<1> QED BY <1>1, <1>2, <1>3 DEF Sound

LEMMA SoundStep ==
  ASSUME Supported, Sound, [Next]_all_vars
  PROVE  Sound'
<1>1. CASE EmitPlain
  BY <1>1, EmitPlainSound
<1>2. CASE EmitPush
  BY <1>2, EmitPushSound
<1>3. CASE EmitCall
  BY <1>3, EmitCallSound
<1>4. CASE EmitBlock
  BY <1>4, EmitBlockSound
<1>5. CASE EmitElse
  BY <1>5, EmitElseSound
<1>6. CASE EmitEnd
  BY <1>6, EmitEndSound
<1>7. CASE EmitBranch
  BY <1>7, EmitBranchSound
<1>8. CASE EmitLeave
  BY <1>8, EmitLeaveSound
<1>9. CASE Finish
  BY <1>9, FinishSound
<1>10. CASE Start
  BY <1>10, StartSound
<1>11. CASE Run
  BY <1>11, RunSound
<1>12. CASE UNCHANGED all_vars
  BY <1>12, SoundUnchanged
<1> QED BY <1>1, <1>2, <1>3, <1>4, <1>5, <1>6, <1>7, <1>8, <1>9, <1>10, <1>11, <1>12 DEF Next


----------------------------------------------------------------------------
(* The theorems. *)

LEMMA SoundInvariant ==
  ASSUME Supported
  PROVE  Spec => []Sound
<1>1. Init => Sound
  BY InitSound
<1>2. Sound /\ [Next]_all_vars => Sound'
  BY SoundStep
<1> QED BY <1>1, <1>2, PTL DEF Spec

(***************************************************************************)
(* Interpreter: the operand stack, the label stack and the call stack stay *)
(* within the interpreter's fixed arrays, and hold what push, push_label   *)
(* and enter_function put there, in every run of every valid body.         *)
(***************************************************************************)
THEOREM InterpTypeOK ==
  ASSUME Supported
  PROVE  Spec => []TypeOK
<1>1. Sound => TypeOK
  <2> SUFFICES ASSUME MachineOK
               PROVE  TypeOK
    BY DEF Sound
  <2>1. /\ \A i \in DOMAIN stack : stack[i] \in Val
        /\ \A i \in DOMAIN labels : labels[i] \in Label
        /\ \A i \in DOMAIN frames : frames[i] \in CallFrame
    BY ElementOfSeq, LenProperties DEF MachineOK
  <2>2. \A i \in DOMAIN locals : locals[i] \in Val
    BY DEF MachineOK
  <2> QED BY <2>1, <2>2 DEF MachineOK, TypeOK
<1> QED BY <1>1, SoundInvariant, PTL

(***************************************************************************)
(* However control comes to an instruction (falling through, do_branch,    *)
(* skip_to_else_or_end, a return), the interpreter has one label for each  *)
(* block that encloses it, for bodies of any length and nesting.           *)
(***************************************************************************)
THEOREM InterpLabelsMatchNesting ==
  ASSUME Supported
  PROVE  Spec => []LabelsMatchNesting
<1>1. Sound => LabelsMatchNesting
  <2> SUFFICES ASSUME Sound, Running
               PROVE  pc <= Len(code) /\ Len(labels) - frame.label_base = Len(types[pc].control)
    BY DEF LabelsMatchNesting
  <2>1. /\ pc \in 1 .. Len(code) /\ Len(code) \in Nat /\ Level(types, pc) \in Nat
        /\ Len(labels) = frame.label_base + Level(types, pc) /\ frame.label_base \in Nat
    BY CurrentFrame, CurrentPlace
  <2>2. Len(labels) - frame.label_base = Level(types, pc)
    BY <2>1
  <2> QED BY <2>1, <2>2 DEF Level
<1> QED BY <1>1, SoundInvariant, PTL

(***************************************************************************)
(* However control comes to an instruction, the operands of the current    *)
(* frame are as many as validation says: every block, branch and call      *)
(* leaves its results and nothing else.                                    *)
(***************************************************************************)
THEOREM InterpStackMatchesType ==
  ASSUME Supported
  PROVE  Spec => []StackMatchesType
<1>1. Sound => StackMatchesType
  <2> SUFFICES ASSUME Sound, Running
               PROVE  Len(stack) - frame.stack_depth = types[pc].height
    BY DEF StackMatchesType
  <2>1. /\ types[pc].height \in Nat /\ frame.stack_depth \in Nat
        /\ Len(stack) = frame.stack_depth + types[pc].height
    BY CurrentFrame, CurrentPlace
  <2> QED BY <2>1
<1> QED BY <1>1, SoundInvariant, PTL

(***************************************************************************)
(* The interpreter's checks for malformed code (StackUnderflow,            *)
(* InvalidBranch, InvalidLocal, InvalidFunction, UnexpectedEnd) never stop *)
(* a valid body, an opcode it does not know is a global's or POPCNT, and a *)
(* run that ends well leaves exactly one result.                           *)
(***************************************************************************)
THEOREM InterpValidCodeDoesNotTrap ==
  ASSUME Supported
  PROVE  Spec => []ValidCodeDoesNotTrap
<1>1. Sound => ValidCodeDoesNotTrap
  BY DEF Sound
<1> QED BY <1>1, SoundInvariant, PTL

(* A call either traps or adds a frame. *)
LEMMA CallAddsFrame ==
  ASSUME Sound, Running, Call
  PROVE  frames' = frames \/ Len(frames') = Len(frames) + 1
<1>1. code[pc].op = "call" /\ enter_function(1, stack, pc + 1)
  BY CallsOne
<1>2. Len(stack) >= 1 /\ stack \in Seq(Val) /\ Len(stack) <= MAX_STACK
  <2>1. types[pc].height >= 1
    BY <1>1, OtherStraight DEF Straight
  <2> QED BY <2>1, Popped, CurrentPlace
<1>3. /\ Len(frames) \in Nat \ {0} /\ Body /\ MachineOK /\ pc + 1 \in Nat
      /\ frames # << >> /\ frame.locals_base = Len(frames) - 1 /\ frame.local_count = 1
  BY CurrentFrame DEF FramesMatch, MachineOK
<1>4. locals_base = Len(frames) /\ locals \in [0 .. MAX_LOCALS * MAX_CALL_DEPTH - 1 -> Val]
  BY <1>3 DEF locals_base, MachineOK
<1>5. CASE trap("CallStackOverflow") \/ trap("LabelStackOverflow")
  BY <1>5 DEF trap
<1>6. CASE Entered1(stack, pc + 1)
  BY <1>2, <1>3, <1>6, EnteredTyped
<1> QED BY <1>1, <1>2, <1>3, <1>4, <1>5, <1>6, EnterEffect

(* Only leaving a function removes a frame. *)
LEMMA OnlyLeavingPops ==
  ASSUME Sound, Running, run, Len(frames') < Len(frames)
  PROVE  leave_function /\ types[pc].height >= 1
<1>1. Len(frames) \in Nat
  BY CurrentFrame
<1>2. frames' # frames /\ Len(frames') # Len(frames) + 1
  BY <1>1
<1>3. CASE Simple
  BY <1>2, <1>3, FramesKept
<1>4. CASE Call
  BY <1>2, <1>4, CallAddsFrame
<1>5. CASE Return \/ (End /\ Level(types, pc) = 1)
  BY <1>5, Leaves
<1>6. CASE End /\ Level(types, pc) # 1
  <2>1. ~(Len(labels) - 1 = frame.label_base)
    <3>1. /\ frame.label_base \in Nat /\ Level(types, pc) \in Nat
          /\ Len(labels) = frame.label_base + Level(types, pc)
      BY CurrentFrame, CurrentPlace
    <3> QED BY <1>6, <3>1
  <2> QED BY <1>2, <1>6, <2>1 DEF End
<1> QED BY <1>3, <1>4, <1>5, <1>6, RunIs

(* What the caller finds when its callee has left. *)
LEMMA ReturnRestores ==
  ASSUME Sound, Running, types[pc].height >= 1, leave_function, frames' # << >>
  PROVE  /\ SubSeq(stack', 1, Len(stack') - 1) = Top(saved).stack
         /\ labels' = Top(saved).labels
         /\ locals'[Top(frames').locals_base] = Top(saved).local
         /\ pc' = Top(saved).pc
<1>0. PICK n : n = Len(frames) - 1
  OBVIOUS
<1>1. /\ stack' \in Seq(Val) /\ Len(stack') = frame.stack_depth + 1
      /\ \A i \in 1 .. frame.stack_depth : stack'[i] = stack[i]
      /\ labels' \in Seq(Label) /\ Len(labels') = frame.label_base
      /\ \A i \in 1 .. frame.label_base : labels'[i] = labels[i]
      /\ frames' \in Seq(CallFrame) /\ Len(frames') = n
      /\ \A m \in 1 .. n : frames'[m] = frames[m]
      /\ frame.stack_depth <= Len(stack) /\ frame.label_base <= Len(labels)
  BY <1>0, LeaveEffect
<1>2. /\ Len(frames) = n + 1 /\ n \in Nat \ {0} /\ FramesMatch /\ CallersSaved
      /\ frame = frames[n + 1] /\ frame.stack_depth \in Nat /\ frame.label_base \in Nat
      /\ stack \in Seq(Val) /\ labels \in Seq(Label)
  <2>1. Len(frames) \in Nat \ {0} /\ frame = frames[Len(frames)]
    BY CurrentFrame
  <2>2. n # 0
    BY <1>1, EmptySeq
  <2>3. Len(frames) = n + 1 /\ n \in Nat \ {0}
    BY <1>0, <2>1, <2>2
  <2> QED BY <2>1, <2>3, CurrentFrame, CurrentPlace
<1>3. n \in 1 .. n /\ n \in 1 .. n + 1 /\ Len(frames) # 1
  BY <1>2
<1>4. Len(saved) = n
  BY <1>0, <1>2 DEF CallersSaved
<1>5. /\ Top(saved).stack = SubSeq(stack, 1, frame.stack_depth)
      /\ Top(saved).labels = SubSeq(labels, 1, frame.label_base)
      /\ Top(saved).local = locals[n - 1]
      /\ Top(saved).pc = frame.return_pc
  BY <1>2, <1>3, <1>4 DEF CallersSaved, Top
<1>6. pc' = frame.return_pc /\ locals' = locals
  BY <1>3 DEF leave_function
<1>7. Top(frames').locals_base = n - 1
  BY <1>1, <1>2, <1>3 DEF FramesMatch, Top
<1>8. SubSeq(stack', 1, Len(stack') - 1) = SubSeq(stack, 1, frame.stack_depth)
  <2>1. Len(stack') - 1 = frame.stack_depth /\ frame.stack_depth <= Len(stack')
    BY <1>1, <1>2
  <2>2. SubSeq(stack', 1, frame.stack_depth) = SubSeq(stack, 1, frame.stack_depth)
    BY <1>1, <1>2, <2>1, SamePrefix
  <2> QED BY <2>1, <2>2
<1>9. labels' = SubSeq(labels, 1, frame.label_base)
  <2>1. frame.label_base <= Len(labels')
    BY <1>1, <1>2
  <2>2. SubSeq(labels', 1, Len(labels')) = SubSeq(labels, 1, frame.label_base)
    BY <1>1, <1>2, <2>1, SamePrefix
  <2>3. SubSeq(labels', 1, Len(labels')) = labels'
    BY <1>1
  <2> QED BY <2>2, <2>3
<1> QED BY <1>5, <1>6, <1>7, <1>8, <1>9

(***************************************************************************)
(* A call is transparent: when a callee leaves, by RETURN or at the END of *)
(* its body and after any number of nested calls, the caller has the       *)
(* operands, labels and locals that it had at the CALL, and goes on at the *)
(* instruction after it.                                                   *)
(***************************************************************************)
THEOREM InterpCallerUndisturbed ==
  ASSUME Supported
  PROVE  Spec => CallerUndisturbed
<1> DEFINE Restored == Len(frames') < Len(frames) /\ frames' # << >> =>
                         /\ SubSeq(stack', 1, Len(stack') - 1) = Top(saved).stack
                         /\ labels' = Top(saved).labels
                         /\ locals'[Top(frames').locals_base] = Top(saved).local
                         /\ pc' = Top(saved).pc
<1>1. Sound /\ [Next]_all_vars => [Restored]_all_vars
  <2> SUFFICES ASSUME Sound, Next, Len(frames') < Len(frames), frames' # << >>
               PROVE  Restored
    OBVIOUS
  <2>1. Len(frames) \in Nat
    BY LenProperties DEF Sound, MachineOK
  <2>2. frames' # frames
    BY <2>1
  <2>3. \A op, arg, cs, h, d : Emit(op, arg, cs, h, d) => frames' = frames
    BY DEF Emit, machine_vars
  <2>4. CASE EmitPlain \/ EmitPush \/ EmitCall \/ EmitBlock \/ EmitElse \/ EmitEnd \/ EmitBranch
             \/ EmitLeave
    BY <2>2, <2>3, <2>4
       DEF EmitPlain, EmitPush, EmitCall, EmitBlock, EmitElse, EmitEnd, EmitBranch, EmitLeave
  <2>5. CASE Finish
    BY <2>2, <2>5 DEF Finish, machine_vars
  <2>6. CASE Start
    <3>1. frames = << >> /\ Len(frames) = 0
      BY <2>6, EmptySeq DEF Start, Sound, new
    <3>2. Len(frames') \in Nat
      <4>1. Sound'
        BY <2>6, StartSound
      <4> QED BY <4>1, LenProperties DEF Sound, MachineOK
    <3> QED BY <3>1, <3>2
  <2>7. CASE Run
    <3>1. Running /\ run
      BY <2>7, RunIs DEF Run, Running
    <3>2. leave_function /\ types[pc].height >= 1
      BY <3>1, OnlyLeavingPops
    <3> QED BY <3>1, <3>2, ReturnRestores
  <2> QED BY <2>4, <2>5, <2>6, <2>7 DEF Next
<1>2. [][Restored]_all_vars => CallerUndisturbed
  BY DEF CallerUndisturbed
<1> QED BY <1>1, <1>2, SoundInvariant, PTL DEF Spec

=============================================================================

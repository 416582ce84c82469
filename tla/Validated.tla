----------------------------- MODULE Validated -----------------------------
(***************************************************************************)
(* The interpreter runs what a WASM compiler emits: code that the          *)
(* validation algorithm of the WASM specification accepts.  This module    *)
(* builds every such body up to MAX_CODE instructions, of the kinds        *)
(* interp.rs says it implements, by the rules of that algorithm, notes the *)
(* nesting and the operand height it assigns to each instruction, and then *)
(* runs the body.  Neither the parser nor the interpreter validates: the   *)
(* static types are the reference the dynamic stacks are compared with.    *)
(***************************************************************************)
EXTENDS Interp

CONSTANTS
  MAX_CODE,       \* instructions of the body
  MAX_PLAIN,      \* of these, instructions of PlainOps
  LoopResults,    \* results a loop may have
  Targets         \* what a branch may go to

ASSUME ValidatedAssumption ==
  /\ MAX_CODE \in Nat \ {0} /\ MAX_PLAIN \in Nat
  /\ LoopResults \subseteq {0, 1}
  /\ Targets \subseteq {"block", "inner_loop", "outer_loop", "function"}

VARIABLES
  control,   \* the open blocks, with where they start, their operand height and results
  height,    \* the operand height
  dead,      \* code here is unreachable
  types,     \* control, height and dead before each instruction
  phase,     \* "build", "ready" or "run"
  saved      \* for each active call, what its caller had when it called

build_vars == <<code, control, height, dead, types>>
all_vars == <<build_vars, machine_vars, phase, saved>>

(***************************************************************************)
(* The specification's types of the instructions without control flow that *)
(* interp.rs:5-11 says it implements.                                      *)
(***************************************************************************)
PlainOps ==
  [nop |-> <<0, 0>>, drop |-> <<1, 0>>, select |-> <<3, 1>>, local_set |-> <<1, 0>>,
   local_tee |-> <<1, 1>>, load |-> <<1, 1>>, store |-> <<2, 0>>,
   memory_size |-> <<0, 1>>, memory_grow |-> <<1, 1>>, eqz |-> <<1, 1>>,
   convert |-> <<1, 1>>, compare |-> <<2, 1>>, binop32 |-> <<2, 1>>,
   binop64 |-> <<2, 1>>, div |-> <<2, 1>>, popcnt |-> <<1, 1>>,
   global_get |-> <<0, 1>>, global_set |-> <<1, 0>>]

open == Top(control)
Available == height - open.height

plain == Cardinality({i \in DOMAIN code : code[i].op \in DOMAIN PlainOps})

here == [control |-> control, height |-> height, dead |-> dead]

(* Append an instruction that leaves room for the END of every open block. *)
Emit(op, arg, cs, h, d) ==
  /\ phase = "build" /\ Len(code) + 1 + Len(cs) <= MAX_CODE
  /\ code' = Append(code, [op |-> op, arg |-> arg])
  /\ types' = Append(types, here)
  /\ control' = cs /\ height' = h /\ dead' = d
  /\ UNCHANGED <<machine_vars, phase, saved>>

EmitPlain ==
  \E op \in DOMAIN PlainOps :
     /\ ~dead /\ plain < MAX_PLAIN
     /\ Available >= PlainOps[op][1]
     /\ Emit(op, 0, control, height - PlainOps[op][1] + PlainOps[op][2], FALSE)

(* A local holds the argument, which is either value; a constant is 1. *)
EmitPush ==
  /\ ~dead
  /\ \/ Emit("const", 1, control, height + 1, FALSE)
     \/ Emit("local_get", 0, control, height + 1, FALSE)

EmitCall ==
  /\ ~dead /\ Available >= 1
  /\ \E f \in {0, 1} : Emit("call", f, control, height, FALSE)

Entered(kind, h, results) ==
  Append(control, [kind |-> kind, height |-> h, results |-> results, at |-> Len(code) + 1])

EmitBlock ==
  /\ ~dead
  /\ \/ \E r \in {0, 1} : Emit("block", r, Entered("block", height, r), height, FALSE)
     \/ \E r \in LoopResults : Emit("loop", r, Entered("loop", height, r), height, FALSE)
     \/ /\ Available >= 1
        /\ \E r \in {0, 1} :
              Emit("if", r, Entered("if", height - 1, r), height - 1, FALSE)

(* The operands of the open block are exactly its results. *)
Completed == dead \/ Available = open.results

EmitElse ==
  /\ open.kind = "if" /\ Completed
  /\ Emit("else", 0, [control EXCEPT ![Len(control)].kind = "else"], open.height, FALSE)

(* An if without else has no result. *)
EmitEnd ==
  /\ Completed
  /\ open.kind = "if" => open.results = 0
  /\ Len(control) > 1
  /\ Emit("end", 0, SubSeq(control, 1, Len(control) - 1), open.height + open.results, FALSE)

Target(d) == control[Len(control) - d]
TargetKind(d) ==
  CASE d = Len(control) - 1 -> "function"
    [] d < Len(control) - 1 /\ Target(d).kind = "loop" ->
         IF d = 0 THEN "inner_loop" ELSE "outer_loop"
    [] OTHER -> "block"

(* A branch to a loop carries no values. *)
Carries(d) == IF Target(d).kind = "loop" THEN 0 ELSE Target(d).results

EmitBranch ==
  \E d \in 0 .. Len(control) - 1 :
     /\ ~dead /\ TargetKind(d) \in Targets
     /\ \/ Available >= Carries(d) /\ Emit("br", d, control, height, TRUE)
        \/ Available >= Carries(d) + 1 /\ Emit("br_if", d, control, height - 1, FALSE)

EmitLeave ==
  /\ ~dead
  /\ \/ Available >= 1 /\ Emit("return", 0, control, height, TRUE)
     \/ Emit("unreachable", 0, control, height, TRUE)

(* The END of the body. *)
Finish ==
  /\ phase = "build" /\ Len(control) = 1 /\ Completed
  /\ code' = Append(code, [op |-> "end", arg |-> 0])
  /\ types' = Append(types, here)
  /\ phase' = "ready"
  /\ height' = 0 /\ dead' = FALSE
  /\ UNCHANGED <<control, machine_vars, saved>>

(* run_wasm calls the function once. *)
Start ==
  /\ phase = "ready"
  /\ \E arg \in Val : call_function(arg)
  /\ phase' = "run"
  /\ UNCHANGED <<build_vars, saved>>

(* What the caller has besides the arguments, and where it goes on. *)
Caller ==
  [stack |-> SubSeq(stack, 1, Len(stack) - PARAMS), labels |-> labels,
   local |-> locals[frame.locals_base], pc |-> pc + 1]

Run ==
  /\ phase = "run"
  /\ run
  /\ saved' = CASE Len(frames') > Len(frames) -> Append(saved, Caller)
                [] Len(frames') < Len(frames) /\ saved # << >> ->
                     SubSeq(saved, 1, Len(saved) - 1)
                [] OTHER -> saved
  /\ UNCHANGED <<build_vars, phase>>

Init ==
  /\ code = << >> /\ types = << >>
  /\ control = <<[kind |-> "func", height |-> 0, results |-> 1, at |-> 0]>>
  /\ height = 0 /\ dead = FALSE
  /\ new
  /\ phase = "build" /\ saved = << >>

Next ==
  \/ EmitPlain \/ EmitPush \/ EmitCall \/ EmitBlock \/ EmitElse \/ EmitEnd
  \/ EmitBranch \/ EmitLeave \/ Finish \/ Start \/ Run

Spec == Init /\ [][Next]_all_vars

----------------------------------------------------------------------------
Running == phase = "run" /\ outcome = "running"

(* The stacks stay within their arrays, and every variable has its type. *)
TypeOK ==
  /\ pc \in Nat \ {0}
  /\ Len(stack) <= MAX_STACK /\ \A i \in DOMAIN stack : stack[i] \in Val
  /\ Len(labels) <= MAX_LABELS /\ \A i \in DOMAIN labels : labels[i] \in Label
  /\ Len(frames) <= MAX_CALL_DEPTH /\ \A i \in DOMAIN frames : frames[i] \in CallFrame
  /\ \A i \in DOMAIN locals : locals[i] \in Val
  /\ outcome \in Traps \cup {"running", "ok"}

(***************************************************************************)
(* "Label stack (for block/loop/if nesting)" (Interpreter): whatever way   *)
(* control came to an instruction, falling through, branching, skipping to *)
(* an else or returning from a call, the current frame has exactly one     *)
(* label for each block that encloses it.                                  *)
(***************************************************************************)
LabelsMatchNesting ==
  Running => /\ pc <= Len(code)
             /\ Len(labels) - frame.label_base = Len(types[pc].control)

(***************************************************************************)
(* Whatever way control came to an instruction, the operand stack of the   *)
(* current frame has the height validation gave it: each block leaves its  *)
(* results and nothing else.                                               *)
(***************************************************************************)
StackMatchesType ==
  Running => Len(stack) - frame.stack_depth = types[pc].height

(***************************************************************************)
(* Valid code runs into the interpreter's limits, a division, an address,  *)
(* a host error or `unreachable`, and nothing else: the checks of the      *)
(* stacks, branches, locals, functions and of the end of the code do not   *)
(* fire, and an opcode is unknown only if it is one without a case.  A run *)
(* that ends well leaves one result.                                       *)
(***************************************************************************)
ValidCodeDoesNotTrap ==
  /\ outcome \notin {"StackUnderflow", "InvalidBranch", "InvalidLocal",
                     "InvalidFunction", "UnexpectedEnd"}
  /\ outcome = "UnknownOpcode" => code[pc].op \in Unimplemented
  /\ outcome = "ok" => Len(stack) = 1 /\ labels = << >> /\ frames = << >>

(***************************************************************************)
(* "Implements ... local.get, local.set, local.tee, global.get,            *)
(* global.set" (interp.rs:5-9).  Does not hold: the globals have no case   *)
(* in run (GlobalsTrap.cfg).                                               *)
(***************************************************************************)
ClaimedOpcodesRun == outcome # "UnknownOpcode"

(***************************************************************************)
(* A call is transparent to its caller: when it returns, by RETURN or at   *)
(* the END of the body, after any number of nested calls, the caller has   *)
(* its operands, labels and locals back and goes on after the call.        *)
(***************************************************************************)
CallerUndisturbed ==
  [][Len(frames') < Len(frames) /\ frames' # << >> =>
       LET caller == Top(saved) IN
       /\ SubSeq(stack', 1, Len(stack') - 1) = caller.stack
       /\ labels' = caller.labels
       /\ locals'[Top(frames').locals_base] = caller.local
       /\ pc' = caller.pc]_all_vars

============================================================================

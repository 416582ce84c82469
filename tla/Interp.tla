------------------------------- MODULE Interp ------------------------------
(***************************************************************************)
(* The WASM interpreter, kernel/src/interp.rs: its operand, label and call *)
(* stacks and what each instruction does to them.  `code` is a function    *)
(* body as a sequence of decoded instructions, so pc counts instructions.  *)
(* The module has one host import, function 0, and one function of its     *)
(* own, function 1, both of type i32 -> i32, so calls are recursive.  Its  *)
(* body is the last thing in the binary: a pc past it is past the end.     *)
(*                                                                         *)
(* A value is 0 or 1: control depends only on whether a value is zero.     *)
(* What an arithmetic instruction or a load computes is any value.         *)
(***************************************************************************)
EXTENDS Integers, Sequences, FiniteSets

CONSTANTS
  MAX_STACK,
  MAX_CALL_DEPTH,
  MAX_LABELS,
  MAX_LOCALS

ASSUME InterpAssumption ==
  /\ MAX_STACK \in Nat \ {0} /\ MAX_CALL_DEPTH \in Nat \ {0}
  /\ MAX_LABELS \in Nat \ {0} /\ MAX_LOCALS \in Nat \ {0}

VARIABLES
  code,     \* the body of function 1, with its final END
  pc,       \* the next instruction
  stack,    \* the operand stack, stack[0 .. sp - 1] of the code
  locals,   \* shared by all active frames
  labels,   \* label stack
  frames,   \* call stack
  outcome   \* "running", "ok" or the TrapKind

machine_vars == <<pc, stack, locals, labels, frames, outcome>>

Val == {0, 1}
PARAMS == 1          \* parameters of both functions
LOCAL_COUNT == 1     \* total_locals of function 1: its parameter
NUM_IMPORTS == 1
FUNC_COUNT == 1
BODY_END == Len(code) + 1

Traps == {"Unreachable", "StackOverflow", "StackUnderflow", "CallStackOverflow",
          "OutOfBounds", "DivisionByZero", "IntegerOverflow", "UnknownOpcode",
          "InvalidLocal", "InvalidFunction", "TypeMismatch",
          "LabelStackOverflow", "InvalidBranch", "UnexpectedEnd", "HostCallError"}

Label == [target_pc : Nat, stack_depth : 0 .. MAX_STACK, result_count : {0, 1},
          is_loop : BOOLEAN]
CallFrame == [return_pc : Nat, locals_base : Nat, local_count : Nat,
              stack_depth : 0 .. MAX_STACK, result_count : {0, 1}, label_base : 0 .. MAX_LABELS]

Top(s) == s[Len(s)]
frame == Top(frames)

(* A trap ends the run; the stacks are not looked at again. *)
trap(kind) ==
  /\ outcome' = kind
  /\ UNCHANGED <<pc, stack, locals, labels, frames>>

Next_pc == pc' = pc + 1
Fetched(op) == outcome = "running" /\ pc <= Len(code) /\ code[pc].op = op

----------------------------------------------------------------------------
(* Stack operations. *)

(* Mutant of Full: one value too many is accepted. *)
Full_off_by_one(s) == Len(s) > MAX_STACK

Full(s) == Len(s) >= MAX_STACK

(* self.sp = depth; a slot above the old top holds a stale value, here 0. *)
sp_set(depth) == [i \in 1 .. depth |-> IF i <= Len(stack) THEN stack[i] ELSE 0]

(* Pop n values, then push v. *)
replace(n, v) ==
  IF Len(stack) < n THEN trap("StackUnderflow")
  ELSE IF Full(sp_set(Len(stack) - n)) THEN trap("StackOverflow")
  ELSE /\ stack' = Append(sp_set(Len(stack) - n), v)
       /\ Next_pc
       /\ UNCHANGED <<locals, labels, frames, outcome>>

(* Pop n values. *)
discard(n) ==
  IF Len(stack) < n THEN trap("StackUnderflow")
  ELSE /\ stack' = sp_set(Len(stack) - n)
       /\ Next_pc
       /\ UNCHANGED <<locals, labels, frames, outcome>>

(* The value on top, if one is wanted and there is one, on a cut stack. *)
kept(depth, wanted) ==
  IF wanted THEN Append(sp_set(depth), Top(stack)) ELSE sp_set(depth)

----------------------------------------------------------------------------
(* Labels and branches. *)

Opens(i) == code[i].op \in {"block", "loop", "if"}
Depth(from, to) ==
  1 + Cardinality({i \in from .. to : Opens(i)})
    - Cardinality({i \in from .. to : code[i].op = "end"})

(* The pc after the END that matches a block whose body starts at `from`. *)
skip_to_end(from) ==
  1 + CHOOSE j \in from .. Len(code) :
        Depth(from, j) = 0 /\ \A k \in from .. j - 1 : Depth(from, k) # 0

(* The pc after the ELSE of that block, or after its END if it has none. *)
skip_to_else_or_end(from) ==
  LET Else(j) == code[j].op = "else" /\ Depth(from, j) = 1
      Stops(j) == Depth(from, j) = 0 \/ Else(j)
      j == CHOOSE j \in from .. Len(code) : Stops(j) /\ \A k \in from .. j - 1 : ~Stops(k) IN
  [pc |-> j + 1, has_else |-> Else(j)]

label(target, depth, results, loop) ==
  [target_pc |-> target, stack_depth |-> depth, result_count |-> results, is_loop |-> loop]

(* Enter a block with this label, its body at `next`, the stack cut to st. *)
push_label(lb, st, next) ==
  IF Len(labels) >= MAX_LABELS THEN trap("LabelStackOverflow")
  ELSE /\ labels' = Append(labels, lb)
       /\ stack' = st
       /\ pc' = next
       /\ UNCHANGED <<locals, frames, outcome>>

(* get_label: labels of the current frame only. *)
HasLabel(depth) == depth < Len(labels) /\ Len(labels) - 1 - depth >= frame.label_base

(* Mutant of labels_left: the label branched to stays. *)
labels_left_target(depth) == SubSeq(labels, 1, Len(labels) - depth)

(* Labels below the target of a branch out of blocks. *)
labels_left(depth) == SubSeq(labels, 1, Len(labels) - (depth + 1))

(* Mutant of unwound: the operands of the blocks left stay. *)
unwound_not(lb, top) == SubSeq(stack, 1, top)

(* The first `top` operands, unwound to the label's depth. *)
unwound(lb, top) ==
  [i \in 1 .. lb.stack_depth |-> IF i <= top THEN stack[i] ELSE 0]

(***************************************************************************)
(* A branch to a loop keeps all labels; a branch out of a block pops the   *)
(* target's and those above it, and keeps the block's result.  n is 1 for  *)
(* br_if, whose condition is popped first.                                 *)
(***************************************************************************)
do_branch(depth, n) ==
  LET lb == labels[Len(labels) - depth]
      top == Len(stack) - n
      keeps == lb.result_count > 0 /\ top > 0
      cut == unwound(lb, top) IN
  IF ~HasLabel(depth) THEN trap("InvalidBranch")
  ELSE IF lb.is_loop
  THEN /\ stack' = cut
       /\ pc' = lb.target_pc
       /\ UNCHANGED <<labels, locals, frames, outcome>>
  ELSE IF keeps /\ Full(cut) THEN trap("StackOverflow")
  ELSE /\ stack' = IF keeps THEN Append(cut, stack[top]) ELSE cut
       /\ labels' = labels_left(depth)
       /\ pc' = lb.target_pc
       /\ UNCHANGED <<locals, frames, outcome>>

----------------------------------------------------------------------------
(* Function entry and return. *)

(* Mutant of locals_base: the callee starts where its caller does. *)
locals_base_shared == IF frames = << >> THEN 0 ELSE frame.locals_base

(* The callee's locals follow those of its caller. *)
locals_base == IF frames = << >> THEN 0 ELSE frame.locals_base + frame.local_count

(***************************************************************************)
(* The arguments are on top of st; the body has no declared locals.  The   *)
(* check of the function's type index (TypeMismatch) is left out: there is *)
(* one type.                                                               *)
(***************************************************************************)
enter_function(func_idx, st, return_pc) ==
  LET depth == Len(st) - PARAMS IN
  IF Len(frames) >= MAX_CALL_DEPTH THEN trap("CallStackOverflow")
  ELSE IF func_idx \notin NUM_IMPORTS .. NUM_IMPORTS + FUNC_COUNT - 1
  THEN trap("InvalidFunction")
  ELSE IF \/ LOCAL_COUNT > MAX_LOCALS
          \/ locals_base + LOCAL_COUNT > MAX_LOCALS * MAX_CALL_DEPTH
  THEN trap("InvalidLocal")
  ELSE IF Len(st) < PARAMS THEN trap("StackUnderflow")
  ELSE IF Len(labels) >= MAX_LABELS THEN trap("LabelStackOverflow")
  ELSE /\ locals' = [i \in DOMAIN locals |->
                       IF i \in locals_base .. locals_base + PARAMS - 1
                       THEN st[depth + 1 + i - locals_base] ELSE locals[i]]
       /\ stack' = SubSeq(st, 1, depth)
       /\ frames' = Append(frames,
            [return_pc |-> return_pc, locals_base |-> locals_base,
             local_count |-> LOCAL_COUNT, stack_depth |-> depth,
             result_count |-> 1, label_base |-> Len(labels)])
       /\ labels' = Append(labels, label(BODY_END, depth, 1, FALSE))
       /\ pc' = 1
       /\ UNCHANGED outcome

(* RETURN, and the END of the function's body; the argument made room for   *)
(* the result.                                                             *)
leave_function ==
  /\ stack' = kept(frame.stack_depth, frame.result_count > 0 /\ Len(stack) > 0)
  /\ labels' = SubSeq(labels, 1, frame.label_base)
  /\ frames' = SubSeq(frames, 1, Len(frames) - 1)
  /\ IF Len(frames) = 1
     THEN outcome' = "ok" /\ UNCHANGED pc
     ELSE pc' = frame.return_pc /\ UNCHANGED outcome
  /\ UNCHANGED locals

----------------------------------------------------------------------------
(* run: control instructions. *)

Nop == Fetched("nop") /\ Next_pc /\ UNCHANGED <<stack, locals, labels, frames, outcome>>

Unreachable == Fetched("unreachable") /\ trap("Unreachable")

Block ==
  /\ Fetched("block")
  /\ push_label(label(skip_to_end(pc + 1), Len(stack), code[pc].arg, FALSE), stack, pc + 1)

(* The block type of a loop is ignored: its label has no result. *)
Loop ==
  /\ Fetched("loop")
  /\ push_label(label(pc + 1, Len(stack), 0, TRUE), stack, pc + 1)

If ==
  /\ Fetched("if")
  /\ IF stack = << >> THEN trap("StackUnderflow")
     ELSE LET st == SubSeq(stack, 1, Len(stack) - 1)
              lb == label(skip_to_end(pc + 1), Len(st), code[pc].arg, FALSE)
              skip == skip_to_else_or_end(pc + 1) IN
          \/ Top(stack) # 0 /\ push_label(lb, st, pc + 1)
          \/ Top(stack) = 0 /\ skip.has_else /\ push_label(lb, st, skip.pc)
          \/ /\ Top(stack) = 0 /\ ~skip.has_else
             /\ stack' = st /\ pc' = skip.pc
             /\ UNCHANGED <<locals, labels, frames, outcome>>

(* Reached at the end of the true branch. *)
Else ==
  /\ Fetched("else") /\ labels # << >>
  /\ LET lb == Top(labels) IN
     /\ stack' = kept(lb.stack_depth, lb.result_count > 0 /\ Len(stack) > lb.stack_depth)
     /\ labels' = SubSeq(labels, 1, Len(labels) - 1)
     /\ pc' = lb.target_pc
  /\ UNCHANGED <<locals, frames, outcome>>

(* The stack after the END of a block, loop or if. *)
end_of_block(lb) ==
  CASE ~lb.is_loop /\ lb.result_count > 0 /\ Len(stack) > lb.stack_depth ->
         kept(lb.stack_depth, TRUE)
    [] Len(stack) > lb.stack_depth + lb.result_count -> sp_set(lb.stack_depth)
    [] OTHER -> stack

End ==
  /\ Fetched("end") /\ labels # << >>
  /\ IF Len(labels) - 1 = frame.label_base THEN leave_function
     ELSE /\ stack' = end_of_block(Top(labels))
          /\ labels' = SubSeq(labels, 1, Len(labels) - 1)
          /\ Next_pc
          /\ UNCHANGED <<locals, frames, outcome>>

Br == Fetched("br") /\ do_branch(code[pc].arg, 0)

BrIf ==
  /\ Fetched("br_if")
  /\ IF Len(stack) > 0 /\ Top(stack) # 0 THEN do_branch(code[pc].arg, 1) ELSE discard(1)

Return == Fetched("return") /\ leave_function

(* Function 0 is the host's: it returns a value or an error. *)
CallHost ==
  /\ Fetched("call") /\ code[pc].arg < NUM_IMPORTS
  /\ \/ Len(stack) >= PARAMS /\ trap("HostCallError")
     \/ \E v \in Val : replace(PARAMS, v)

Call ==
  /\ Fetched("call") /\ code[pc].arg >= NUM_IMPORTS
  /\ enter_function(code[pc].arg, stack, pc + 1)

----------------------------------------------------------------------------
(* run: the other instructions. *)

Drop == Fetched("drop") /\ discard(1)

Select ==
  /\ Fetched("select")
  /\ IF Len(stack) < 3 THEN trap("StackUnderflow")
     ELSE replace(3, IF Top(stack) # 0 THEN stack[Len(stack) - 2] ELSE stack[Len(stack) - 1])

(* Mutant of IsLocal: the last local is out of range. *)
IsLocal_short(idx) == idx + 1 < frame.local_count

IsLocal(idx) == idx < frame.local_count

LocalGet ==
  /\ Fetched("local_get")
  /\ IF IsLocal(code[pc].arg) THEN replace(0, locals[frame.locals_base + code[pc].arg])
     ELSE trap("InvalidLocal")

(* LOCAL_SET pops the value, LOCAL_TEE leaves it. *)
LocalSet ==
  \E op \in {"local_set", "local_tee"} :
    /\ Fetched(op)
    /\ IF stack = << >> THEN trap("StackUnderflow")
       ELSE IF ~IsLocal(code[pc].arg) THEN trap("InvalidLocal")
       ELSE /\ locals' = [locals EXCEPT ![frame.locals_base + code[pc].arg] = Top(stack)]
            /\ stack' = IF op = "local_set" THEN sp_set(Len(stack) - 1) ELSE stack
            /\ Next_pc
            /\ UNCHANGED <<labels, frames, outcome>>

(* The loads of all widths; the address may be outside the memory. *)
Load ==
  /\ Fetched("load")
  /\ \/ Len(stack) >= 1 /\ trap("OutOfBounds")
     \/ \E v \in Val : replace(1, v)

Store ==
  /\ Fetched("store")
  /\ \/ Len(stack) >= 2 /\ trap("OutOfBounds")
     \/ discard(2)

(* MEMORY_GROW is refused: it always returns -1. *)
MemorySize == Fetched("memory_size") /\ \E v \in Val : replace(0, v)
MemoryGrow == Fetched("memory_grow") /\ replace(1, 1)

Const == Fetched("const") /\ replace(0, code[pc].arg)

(* EQZ, CLZ, CTZ and the conversions; the comparisons and the arithmetic. *)
Eqz == Fetched("eqz") /\ replace(1, IF Len(stack) > 0 /\ Top(stack) = 0 THEN 1 ELSE 0)
Convert == Fetched("convert") /\ \E v \in Val : replace(1, v)
Compare == Fetched("compare") /\ \E v \in Val : replace(2, v)
Arithmetic32 == Fetched("binop32") /\ \E v \in Val : replace(2, v)
Arithmetic64 == Fetched("binop64") /\ \E v \in Val : replace(2, v)

(* DIV and REM. *)
Divide ==
  /\ Fetched("div")
  /\ \/ Len(stack) >= 2 /\ Top(stack) = 0 /\ trap("DivisionByZero")
     \/ Len(stack) >= 2 /\ Top(stack) # 0 /\ trap("IntegerOverflow")
     \/ (Len(stack) < 2 \/ Top(stack) # 0) /\ \E v \in Val : replace(2, v)

(***************************************************************************)
(* Instructions that fall to the last case of the match: "global.get,      *)
(* global.set" (interp.rs:9) and POPCNT, one of its "bitwise" ones.  The   *)
(* forward scans take the index of a global for an opcode; that of global  *)
(* 0, the one used here, means nothing to them.                            *)
(***************************************************************************)
Unimplemented == {"global_get", "global_set", "popcnt"}

(* read_byte at the end of the binary, and an opcode without a case. *)
Undecoded ==
  /\ outcome = "running"
  /\ IF pc > Len(code) THEN trap("UnexpectedEnd")
     ELSE code[pc].op \in Unimplemented /\ trap("UnknownOpcode")

run ==
  \/ Nop \/ Unreachable \/ Block \/ Loop \/ If \/ Else \/ End \/ Br \/ BrIf
  \/ Return \/ CallHost \/ Call \/ Drop \/ Select \/ LocalGet \/ LocalSet
  \/ Load \/ Store \/ MemorySize \/ MemoryGrow \/ Const \/ Eqz \/ Convert
  \/ Compare \/ Arithmetic32 \/ Arithmetic64 \/ Divide \/ Undecoded

(* Interpreter::new *)
new ==
  /\ pc = 1
  /\ stack = << >>
  /\ locals = [i \in 0 .. MAX_LOCALS * MAX_CALL_DEPTH - 1 |-> 0]
  /\ labels = << >>
  /\ frames = << >>
  /\ outcome = "running"

(* call_function(1, [arg]), up to the call of run. *)
call_function(arg) == enter_function(1, Append(stack, arg), 0)

============================================================================

----------------------------- MODULE Agreement -----------------------------
(***************************************************************************)
(* Two routes to one result: a source run by the source interpreter, and    *)
(* the same source assembled and linked (NASM and ld, external) and run by  *)
(* the bounded interpreter, instruction by instruction side by side. The    *)
(* assembler places instructions and data where the source interpreter      *)
(* does, and the two stacks begin at the same pointer, so that the states   *)
(* can be compared.                                                         *)
(***************************************************************************)
EXTENDS SourceMachine

CONSTANTS ImageStackTop, ImageStackBytes, ImageBudget, ImageIoLimit

VARIABLES image, imageCpu, imageStatus, imageCount, imageLast,
          imageExit, imageOut, imageErr, imageIn, imageCursor

M == INSTANCE BoundedMachine WITH
       Programs <- {}, IoLimit <- ImageIoLimit, StackTop <- ImageStackTop, StackBytes <- ImageStackBytes,
       PageBudget <- ImageBudget, program <- image, cpu <- imageCpu, status <- imageStatus,
       instructionCount <- imageCount, lastInstruction <- imageLast, exitCode <- imageExit,
       stdout <- imageOut, stderr <- imageErr, stdinBytes <- imageIn, stdinCursor <- imageCursor

allVars == <<vars, image, imageCpu, imageStatus, imageCount, imageLast,
             imageExit, imageOut, imageErr, imageIn, imageCursor>>

Transfers == Branches \cup {"call", "jmp"}

(* A name the assembler does not know has no image; the source interpreter   *)
(* refuses it when it gets there.                                           *)
Resolved(o) == IF Known(o) THEN ValueOf(o) ELSE 0

(* A memory operand without a size has that of the register beside it.      *)
SizeOf(o, args) ==
  LET sized == {k \in DOMAIN args : args[k].kind = "register"}
  IN  IF o.as # "none" THEN o.as ELSE IF sized = {} THEN "q" ELSE args[CHOOSE k \in sized : TRUE].as

Displacement(tokens) ==
  LET term(k) == IF tokens[k].kind # "value" THEN 0
                 ELSE ValueOf(tokens[k]) * (IF k > 1 /\ tokens[k - 1].kind = "sign" THEN tokens[k - 1].value ELSE 1)
      upTo[k \in 0..Len(tokens)] == IF k = 0 THEN 0 ELSE upTo[k - 1] + term(k)
  IN  upTo[Len(tokens)]

Assembled(o, args) ==
  LET registers == SelectSeq(IF o.kind = "memory" THEN o.tokens ELSE << >>, LAMBDA t : t.kind = "register")
  IN  CASE o.kind = "register"  -> o
        [] o.kind = "immediate" -> [kind |-> "immediate", value |-> Resolved(o), as |-> "q"]
        [] o.kind = "memory"    ->
             [kind |-> "memory", thread |-> FALSE, as |-> SizeOf(o, args), disp |-> Displacement(o.tokens),
              baseAs |-> "q", indexAs |-> "q",
              base  |-> IF registers = << >> THEN "none" ELSE registers[1].name,
              index |-> IF Len(registers) < 2 THEN "none" ELSE registers[2].name,
              scale |-> IF Len(registers) < 2 THEN 1 ELSE registers[2].value]

Image ==
  [code |-> [k \in DOMAIN program.code |->
               LET i == program.code[k]
               IN  [op |-> i.op, args |-> [n \in DOMAIN i.args |-> Assembled(i.args[n], i.args)],
                    target |-> IF i.op \in Transfers THEN Resolved(i.args[1]) ELSE None]],
   base |-> CodeBase, stride |-> CodeStride, entry |-> Entry(program), path |-> 20,
   segments |-> <<[address |-> CodeBase, size |-> Len(program.code) * CodeStride, perms |-> {"r", "x"}, bytes |-> << >>],
                  [address |-> DataBase, size |-> Len(program.data), perms |-> {"r", "w"}, bytes |-> program.data]>>]

BothNext == Step /\ M!Step

(* As long as neither interpreter has refused an instruction, both are in   *)
(* the same state: registers, flags, data and stack, output, and the  *)
(* way they ended (the instruction semantics of both sessions).              *)
Compared == {x \in DOMAIN cpu.mem.cell \cap DOMAIN imageCpu.mem.cell : x < StackTop - 16}
Agree ==
  "trapped" \notin {status, imageStatus} =>
    /\ status = imageStatus /\ cpu.regs = imageCpu.regs /\ cpu.flags = imageCpu.flags
    /\ \A x \in Compared : cpu.mem.cell[x] = imageCpu.mem.cell[x]
    /\ stdout = imageOut /\ stderr = imageErr /\ exitCode = imageExit /\ stdinCursor = imageCursor
=============================================================================

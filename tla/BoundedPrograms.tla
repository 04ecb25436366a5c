-------------------------- MODULE BoundedPrograms --------------------------
(* Programs for the bounded interpreter: arithmetic on boundary values,     *)
(* stack and memory accesses across pages, an echo loop that is typed to,   *)
(* and loops that end in time, too late or never.                           *)
EXTENDS Integers, Sequences

None == -1
R(name, as) == [kind |-> "register", name |-> name, as |-> as]
I(v) == [kind |-> "immediate", value |-> v, as |-> "q"]
M(base, disp, as) ==
  [kind |-> "memory", base |-> base, baseAs |-> "q", index |-> "none", indexAs |-> "q", scale |-> 1,
   disp |-> disp, as |-> as, thread |-> FALSE]
Op(op, args) == [op |-> op, args |-> args, target |-> None]
To(op, target) == [op |-> op, args |-> <<I(target)>>, target |-> target]
Mov(name, v) == Op("mov", <<R(name, "q"), I(v)>>)

Base == 32
Stride == 2
Line(k) == Base + k * Stride
Data == 64

CodeSegment == [address |-> Base, size |-> 30, perms |-> {"r", "x"}, bytes |-> <<0, 1, 2, 3>>]
DataSegment == [address |-> Data, size |-> 16, perms |-> {"r", "w"}, bytes |-> <<1, 2, 3, 0, 0, 0, 0, 0>>]
Program(code) ==
  [code |-> code, base |-> Base, stride |-> Stride, entry |-> Base, path |-> 4,
   segments |-> <<CodeSegment, DataSegment>>]

(* Accesses of every width around the edges of the pages, with the stack.   *)
Addresses == {30, 33, 60, 64, 88, 93, 95, 96, 4088, 4093, 8190}
Storing ==
  {Program(<<Mov("rbx", a), Mov("rax", 54321), op>>) : a \in Addresses,
     op \in {Op("mov", <<M("rbx", 0, as), R("rax", as)>>) : as \in {"q", "d", "w", "b"}}
            \cup {Op("xchg", <<M("rbx", 0, "d"), R("rax", "d")>>), Op("add", <<R("rax", "q"), M("rbx", 0, "q")>>),
                  Op("pop", <<M("rbx", 0, "q")>>), Op("push", <<M("rbx", 1, "q")>>), Op("inc", <<M("rbx", 0, "w")>>),
                  Op("lea", <<R("rax", "d"), M("rbx", -40, "q")>>), Op("jmp", <<M("rbx", 0, "b")>>),
                  Op("mov", <<R("rax", "q"), [M("rbx", 0, "q") EXCEPT !.thread = TRUE]>>)}}
Stacking ==
  {Program(<<Mov("rbp", a), To("call", Line(4)), Op("push", <<R("rbp", "q")>>), last>> \o
           <<Op("nop", << >>), Op("ret", << >>)>>) : a \in Addresses,
     last \in {Op("leave", << >>), Op("ret", <<I(8)>>), Op("pop", <<R("rsp", "q")>>), Op("pop", <<R("rax", "q")>>), Op("cld", << >>)}}
Returning == {Program(<<To("call", Line(2)), Op("hlt", << >>), Op("ret", << >>)>>)}
(* The last page of the code is also the first of the data.                 *)
Sharing == {[Program(<<Mov("rax", 7), Op("mov", <<M("none", 56, "q"), R("rax", "q")>>)>>) EXCEPT
               !.segments = <<[CodeSegment EXCEPT !.size = 20], [DataSegment EXCEPT !.address = 56]>>]}
Reading == {Program(<<Mov("rdi", fd), Mov("rsi", a), Mov("rdx", n), Mov("rax", number), Op("syscall", << >>)>>) :
              fd \in 0..2, a \in {62, 64, 94}, n \in {2, 9}, number \in {0, 1, 60, 7}}

(* A page that may be written before one that may only be read, and stores  *)
(* from the one into the other: by an instruction, a push and a read.       *)
ReadOnly == [address |-> 96, size |-> 8, perms |-> {"r"}, bytes |-> <<3, 2, 1, 0>>]
Guarded(code) == [Program(code) EXCEPT !.segments = Append(@, ReadOnly)]
Crossing ==
  {Guarded(<<Mov("rbx", a), Mov("rax", 54321), op>>) : a \in {88, 89, 92, 95, 96},
     op \in {Op("mov", <<M("rbx", 0, as), R("rax", as)>>) : as \in {"q", "d", "w", "b"}}
            \cup {Op("xchg", <<M("rbx", 0, "q"), R("rax", "q")>>), Op("add", <<M("rbx", 0, "d"), R("rax", "d")>>),
                  Op("pop", <<M("rbx", 0, "q")>>), Op("neg", <<M("rbx", 0, "q")>>),
                  Op("inc", <<[M("rbx", 0, "w") EXCEPT !.index = "rax", !.indexAs = "h", !.scale = 2]>>),
                  Op("mov", <<[M("rax", 0, "w") EXCEPT !.baseAs = "b"], R("rbx", "w")>>),
                  Op("lea", <<R("rcx", "q"), [M("rax", 1, "q") EXCEPT !.baseAs = "d", !.index = "rbx"]>>)}}
ReadingInto ==
  {Guarded(<<Mov("rdi", 0), Mov("rsi", a), Mov("rdx", 3), Mov("rax", 0), Op("syscall", << >>)>>) : a \in {93, 94, 95, 96}}

(* Two calls with values pushed around the inner one, on a stack anywhere.  *)
Nested ==
  {Guarded(<<Mov("rsp", a), Mov("rax", 11), Op("push", <<I(5)>>), To("call", Line(6)), Op("pop", <<R("rdx", "q")>>),
             Op("hlt", << >>),
             Op("push", <<R("rax", "q")>>), To("call", Line(12)), Op("push", <<I(7)>>), Op("pop", <<R("rcx", "q")>>),
             Op("pop", <<R("rdi", "q")>>), Op("ret", << >>),
             Op("push", <<R("rsp", "q")>>), Op("pop", <<R("rbx", "q")>>), Op("ret", << >>)>>) :
     a \in {64, 70, 80, 88, 90, 96, 100, 104, 106, 4000, 4096}}

Accesses == Storing \cup Stacking \cup Returning \cup Sharing \cup Reading \cup Crossing \cup ReadingInto \cup Nested

(* Reads two bytes at a time and writes what it read, for ever.             *)
Echo == Program(<<Mov("rsi", Data), Mov("rdx", 2), Mov("rdi", 0), Mov("rax", 0), Op("syscall", << >>),
                  Op("mov", <<R("rdx", "q"), R("rax", "q")>>), Mov("rdi", 1), Mov("rax", 1), Op("syscall", << >>),
                  To("jmp", Line(1))>>)
Looping == {Program(<<Mov("rax", x), Op("dec", <<R("rax", "q")>>), To("jne", Line(1)), Op("hlt", << >>)>>) : x \in 0..30}
           \cup {Program(<<To("jmp", Line(0))>>), Echo}

(* Two boundary values are loaded and computed with in registers of every   *)
(* width, with the conditional jumps after a comparison.                    *)
Edges == {0, 1, 6, 8, 127, 128, 255, 32767, 32768, 65535}
Aliases == {"q", "d", "w", "b", "h"}
Counterparts == [q |-> "q", d |-> "d", w |-> "w", b |-> "b", h |-> "b"]

Loaded(x, y, rest) == Program(<<Mov("rax", x), Mov("rbx", y)>> \o rest)
Computing ==
  {Loaded(x, y, <<Op("std", << >>), Op(op, <<R("rax", as), R("rbx", Counterparts[as])>>)>>) :
     x \in Edges, y \in Edges, as \in Aliases, op \in {"add", "sub", "xor", "imul"}}
(* A jump next to its comparison, or after the operands were overwritten.   *)
Later == {<< >>, <<Mov("rax", 1), Op("lea", <<R("rbx", "q"), M("rax", 9, "q")>>), Op("not", <<R("rax", "w")>>)>>}
Comparing ==
  {Loaded(x, y, <<Op("cmp", <<R("rax", as), R("rbx", as)>>)>> \o between \o <<To(jump, Line(0)), Op("nop", << >>)>>) :
     x \in Edges, y \in Edges, as \in {"q", "d"}, between \in Later,
     jump \in {"je", "jne", "ja", "jbe", "jae", "jb", "jg", "jle", "jge", "jl"}}
Counting ==
  {Loaded(x, y, <<Op("add", <<R("rbx", "q"), R("rax", "q")>>), Op(op, <<R("rax", as)>>)>>) :
     x \in Edges, y \in {1, 32768}, as \in Aliases, op \in {"inc", "dec", "neg", "not"}}
Shifting ==
  {Loaded(x, y, <<Op("cmp", <<R("rax", "q"), I(8)>>), Op(op, <<R("rax", as), R("rbx", "b")>>),
                  Op(op, <<R("rax", as), I(y)>>)>>) :
     x \in Edges, y \in 0..17, as \in Aliases, op \in {"shl", "shr", "sar"}}
Testing ==
  {Loaded(x, 3, <<Op(op, <<R("rax", "w"), I(-2)>>), Op("movzx", <<R("rdx", "d"), R("rax", "h")>>),
                  Op("movsx", <<R("rdx", "w"), R("rax", "b")>>), Op("cdqe", << >>), Op("cqo", << >>),
                  Op("imul", <<R("rcx", "d"), R("rax", "w"), I(-3)>>), To(jump, Line(0))>>) :
     x \in Edges, op \in {"and", "or", "test"}, jump \in {"js", "jns", "jo", "jno", "jp", "jnp", "jrcxz"}}
Arithmetic == Computing \cup Comparing \cup Counting \cup Shifting \cup Testing
=============================================================================

------------------------------ MODULE X86State ------------------------------
(***************************************************************************)
(* The state both interpreters execute on: the register file with its      *)
(* aliases (registers.ts), the flags, and the sparse paged memory with      *)
(* permissions (memory.ts).                                                 *)
(*                                                                         *)
(* Widths are scaled by four: a 64-bit register has 16 bits, a 32-bit one  *)
(* 8, a 16-bit one 4 and a byte 2 bits, so that a memory cell holds 0..3,   *)
(* a quadword is 8 cells and the browser-safe addresses end at 2^13.        *)
(***************************************************************************)
EXTENDS Integers, Sequences, FiniteSets

CONSTANTS PageSize,   \* cells in a page (4096)
          SafeLimit   \* the last browser-safe address (2^53 - 1)

ASSUME PageAssumption == PageSize \in Nat \ {0} /\ SafeLimit \in Nat

CellBits == 2
Width == [q |-> 16, d |-> 8, w |-> 4, b |-> 2, h |-> 2]
Lowest == [q |-> 0, d |-> 0, w |-> 0, b |-> 0, h |-> 2]
Cells(as) == Width[as] \div CellBits
Word == 2 ^ Width["q"]

Names == {"rax", "rbx", "rcx", "rdx", "rsi", "rdi", "rbp", "rsp", "rip", "r11"}

Clip(v, bits) == v % 2 ^ bits
SignedValue(v, bits) ==
  LET c == Clip(v, bits) IN IF c >= 2 ^ (bits - 1) THEN c - 2 ^ bits ELSE c

ReadAs(word, as) == (word \div 2 ^ Lowest[as]) % 2 ^ Width[as]

(* A 32-bit write clears the upper half; the narrower ones merge.          *)
WriteAs(word, as, v) ==
  LET c == Clip(v, Width[as])
  IN  IF as \in {"q", "d"} THEN c
      ELSE word + (c - ReadAs(word, as)) * 2 ^ Lowest[as]

(*************************** the flags register ***************************)
NoFlags == [cf |-> FALSE, pf |-> FALSE, zf |-> FALSE, sf |-> FALSE, df |-> FALSE, of |-> FALSE]
FlagWord(f) ==
  LET bit(x, n) == IF x THEN 2 ^ n ELSE 0
  IN  2 + bit(f.cf, 0) + bit(f.pf, 2) + bit(f.zf, 6) + bit(f.sf, 7) + bit(f.df, 10) + bit(f.of, 11)

(******************************** memory ********************************)
PageOf(a) == a \div PageSize
Span(a, size) == a .. (a + size - 1)

EmptyMemory == [page |-> << >>, cell |-> << >>]

(* map: pages that exist already are shared, their permissions added.      *)
MapPages(mem, a, size, perms) ==
  LET touched == {PageOf(x) : x \in Span(a, size)}
      pages   == DOMAIN mem.page \cup touched
      cells   == UNION {Span(p * PageSize, PageSize) : p \in pages}
  IN  [page |-> [p \in pages |-> (IF p \in DOMAIN mem.page THEN mem.page[p] ELSE {})
                                 \cup (IF p \in touched THEN perms ELSE {})],
       cell |-> [x \in cells |-> IF x \in DOMAIN mem.cell THEN mem.cell[x] ELSE 0]]

LoadCells(mem, a, bytes) ==
  [mem EXCEPT !.cell = [x \in DOMAIN @ |-> IF x \in Span(a, Len(bytes)) THEN bytes[x - a + 1] ELSE @[x]]]

Allowed(mem, x, access) == PageOf(x) \in DOMAIN mem.page /\ access \in mem.page[PageOf(x)]

(* read, write and readExecutableWindow check every cell.                  *)
CanAccess(mem, a, size, access) ==
  a <= SafeLimit /\ \A x \in Span(a, size) : Allowed(mem, x, access)

CellsAt(mem, a, size) == [k \in 1..size |-> mem.cell[a + k - 1]]

ReadUnsigned(mem, a, size) ==
  LET value[n \in 0..size] == IF n = 0 THEN 0
                              ELSE mem.cell[a + n - 1] * 4 ^ (n - 1) + value[n - 1]
  IN  value[size]

(* A write that looks at the mapping alone.                                 *)
WrittenMapped(mem, a, bytes) ==
  [mem EXCEPT !.cell = [x \in DOMAIN @ |-> IF x \in Span(a, Len(bytes)) THEN bytes[x - a + 1] ELSE @[x]]]
(* A write stops at the first cell it may not write: those before it stay  *)
(* written.                                                                *)
Written(mem, a, bytes) ==
  LET before == {x \in Span(a, Len(bytes)) : CanAccess(mem, a, x - a + 1, "w")}
  IN  [mem EXCEPT !.cell = [x \in DOMAIN @ |-> IF x \in before THEN bytes[x - a + 1] ELSE @[x]]]

Digits(v, size) == [k \in 1..size |-> (v \div 4 ^ (k - 1)) % 4]

(****************************** the processor ******************************)
(* cpu.fault: the instruction threw; what it did before stays done.        *)
Fault(c) == [c EXCEPT !.fault = TRUE]
SetRegister(c, name, as, v) == [c EXCEPT !.regs[name] = WriteAs(@, as, v)]
Register(c, name, as) == ReadAs(c.regs[name], as)

StoreBytes(c, a, bytes) ==
  [c EXCEPT !.mem = Written(@, a, bytes),
            !.fault = @ \/ ~CanAccess(c.mem, a, Len(bytes), "w")]

(********************** TextDecoder of one written chunk **********************)
(* Cells 0 and 1 are characters of one byte; 3 followed by 2 is one of two  *)
(* bytes (4); a lead or a continuation alone becomes the replacement (5).   *)
Decoded(bytes) ==
  LET from[k \in 1..(Len(bytes) + 2)] ==
        IF k > Len(bytes) THEN << >>
        ELSE IF bytes[k] = 3 /\ k < Len(bytes) /\ bytes[k + 1] = 2 THEN <<4>> \o from[k + 2]
        ELSE <<IF bytes[k] < 2 THEN bytes[k] ELSE 5>> \o from[k + 1]
  IN  from[1]
=============================================================================

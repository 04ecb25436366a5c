------------------------------ MODULE MCProviders ------------------------------
(***************************************************************************)
(* Instances of Providers: the Unicorn session has a setup for each        *)
(* question asked of it, the engine of the Blink session a prompt that is  *)
(* the expected one or another, the machine session three segments.        *)
(***************************************************************************)
EXTENDS Providers

Setup(p, budget, kept, bytes, descriptors, does) ==
  [provider |-> p, limit |-> budget, slice |-> 2, events |-> kept, io |-> 2, file |-> 2,
   typed |-> bytes, fds |-> descriptors, served |-> does]
SetupsMC ==
  {Setup("linux", 5, 4, 0, 0, {"exit", "unserved", "immediate", "futex"}),
   Setup("linux", 3, 0, 3, 0, {"read", "write", "writev", "immediate"}),
   Setup("linux", 4, 0, 0, 2, {"read", "open", "close", "pread", "lseek", "refuse", "path"}),
   Setup("machine", 4, 2, 2, 0, {"read", "write", "exit", "unserved", "immediate"})}
RestingMC == CHOOSE s \in SetupsMC : s.provider = "machine"

PromptMC == <<1, 2, 1>>
PromptsMC == {PromptMC, <<1, 2, 2>>}

\* Two segments that share a page, one that ends at a page and one behind the stack.
SegmentsMC == {[from |-> 0, to |-> 1, perm |-> {"r", "x"}], [from |-> 1, to |-> 2, perm |-> {"r", "w"}],
               [from |-> 9, to |-> 10, perm |-> {"r", "x"}]}
=============================================================================

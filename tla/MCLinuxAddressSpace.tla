-------------------------- MODULE MCLinuxAddressSpace --------------------------
(***************************************************************************)
(* Values for model checking: one page of the program image at 2, the heap *)
(* from 3, the mmap cursor at 4, so that heap growth, fixed mappings and   *)
(* the cursor meet within a few pages and under a budget of as many.       *)
(***************************************************************************)
EXTENDS LinuxAddressSpace, TLC

CONSTANTS f1, z, d1

MCImage == 2 :> [perm |-> "rw", data |-> d1]
MCContent == f1 :> <<d1>>
MCNoContent == [f \in {} |-> <<>>]
MCAddresses == 2 .. 4

=============================================================================

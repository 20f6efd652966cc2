------------------------------- MODULE MCNetboot ------------------------------
(* Instances of Netboot: three blocks, the last overlapping the first.     *)
EXTENDS Netboot

MCBlocks == << [addr |-> 0, data |-> "a"], [addr |-> 1, data |-> "b"],
               [addr |-> 0, data |-> "c"] >>
===============================================================================

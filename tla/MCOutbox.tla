------------------------------ MODULE MCOutbox -------------------------------
(* Two processes (a runtime and an offline sender), two keys, two contents.   *)
EXTENDS Outbox, TLC

Symmetry == Permutations(Process) \cup Permutations(Key) \cup Permutations(Text) \cup Permutations(Chat)
=============================================================================

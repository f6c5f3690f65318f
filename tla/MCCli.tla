------------------------------- MODULE MCCli -------------------------------
(***************************************************************************)
(* Cli on a small host: every pid, and every inode, is like another.       *)
(***************************************************************************)
EXTENDS Cli, TLC

Symmetry == Permutations(Pids) \cup Permutations(Inodes)
=============================================================================

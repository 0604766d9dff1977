---------------------------- MODULE MCToolRunner ----------------------------
(* Instances of ToolRunner for TLC. *)
EXTENDS ToolRunner, TLC

\* Requests are alike, and so are the tools that can be run.
Symmetry == Permutations(Requests) \cup Permutations(Configured \cap Installed)

=============================================================================

---------------------------- MODULE MC_Admission ----------------------------
(* Model values and symmetry for the runs of Admission. *)
EXTENDS Admission

\* Task identities and agent ids are only compared for equality.
Symmetric == Permutations(Tasks) \cup Permutations(Agents)

=============================================================================

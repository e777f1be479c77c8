---------------------------- MODULE MCScopeServer ----------------------------
(* ScopeServer for TLC: two commands that differ in id and in value. *)
EXTENDS ScopeServer, TLC

Duty      == [id |-> "Set_Send_Field_1", value |-> "duty"]
Frequency == [id |-> "Set_Send_Field_2", value |-> "frequency"]

OneCommand  == {Duty}
TwoCommands == {Duty, Frequency}
Zero        == [id |-> "none", value |-> "zero"]

Symmetry == Permutations(Fds)
=============================================================================

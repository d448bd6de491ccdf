---------------------------- MODULE MCSettingsSync ----------------------------
(* Small instances of SettingsSync for TLC: three accepted pairs, and one  *)
(* pair whose stale timeout is too short.                                  *)
EXTENDS SettingsSync, TLC

DefaultSettings == [poll |-> 3, stale |-> 12]

Symmetry == Permutations(Entries)
=============================================================================

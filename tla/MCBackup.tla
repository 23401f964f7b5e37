------------------------------ MODULE MCBackup ------------------------------
(* Small instances of Backup: setup runs and daily runs of two dates.      *)
EXTENDS Backup, TLC

CONSTANTS first, second

MCSlots == {1}
MCSymmetry == Permutations(Destinations)
=============================================================================

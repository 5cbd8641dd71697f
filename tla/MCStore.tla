------------------------------ MODULE MCStore ------------------------------
(* Store on two request tasks, with DRIVE_MAX_FILE_LIMIT scaled to 1 so    *)
(* that a drive fills after one or two uploads.                            *)
EXTENDS Store, TLC

CONSTANTS p1, p2

MCProcs == {p1, p2}

(* Tasks are interchangeable: none is named in Init or in an action. *)
MCSymmetry == Permutations(MCProcs)

=============================================================================

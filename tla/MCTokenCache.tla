---------------------------- MODULE MCTokenCache ----------------------------
(* The token cache shared by two request tasks.  The 10 s margin is scaled *)
(* to 2 clock units; expires_in ranges over Margin (trusted for the margin  *)
(* itself) and 2 * Margin (trusted for expires_in - 10), the two branches  *)
(* of the clamp that keep the cached expiry within the real one.           *)
EXTENDS TokenCache, TLC

CONSTANTS k1, k2, NoK

MCTasks == {k1, k2}

(* Tasks are interchangeable: none is named in Init or in an action. *)
MCSymmetry == Permutations(MCTasks)

=============================================================================

------------------------- MODULE MCBandwidthLimiter -------------------------
(* The bandwidth limiter shared by two uploads.  Unit is scaled to 4 bytes *)
(* and a buffer is either short (1: the multipart prefix or suffix, or a   *)
(* final short chunk) or a full ciphertext chunk (5 = unit + 1, standing   *)
(* for CHUNK_SIZE + TAG_SIZE = 1 MiB + 16 bytes), so that the residual     *)
(* crosses a unit boundary within a few buffers.                           *)
EXTENDS BandwidthLimiter, TLC

CONSTANTS t1, t2

MCTasks == {t1, t2}

(* Tasks are interchangeable: none is named in Init or in an action. *)
MCSymmetry == Permutations(MCTasks)

=============================================================================

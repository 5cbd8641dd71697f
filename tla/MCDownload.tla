---------------------------- MODULE MCDownload ----------------------------
(* Download with CHUNK_SIZE 2 and TAG_SIZE 1, a file of 3 bytes (a full   *)
(* chunk and a partial one, 5 ciphertext bytes), body items of 1 or 2     *)
(* bytes, and a nonce counter that wraps between the two chunks.          *)
EXTENDS Download
=============================================================================

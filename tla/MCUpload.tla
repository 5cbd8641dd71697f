----------------------------- MODULE MCUpload -----------------------------
(* Upload with CHUNK_SIZE 2 and TAG_SIZE 1, request bodies of 3 or 5     *)
(* bytes (full chunks and a partial one) and 4 bytes (a multiple of the  *)
(* chunk size, where encrypted_size's `size - 1` matters), client items  *)
(* of 1 to 3 bytes so that items straddle chunk boundaries, and a nonce  *)
(* counter that wraps between chunks.                                    *)
EXTENDS Upload
=============================================================================

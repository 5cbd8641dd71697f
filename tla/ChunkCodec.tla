----------------------------- MODULE ChunkCodec -----------------------------
(***************************************************************************)
(* The chunked encryption format shared by uploads and downloads           *)
(* (src/store.rs: CHUNK_SIZE, ChunkStreamCipher, encrypt_stream,           *)
(* get_chunk_nonce, encrypted_size) and the chunk_stream adapter of        *)
(* src/stream.rs that frames a byte stream into chunks.                    *)
(*                                                                         *)
(* Bytes are abstract.  Plaintext byte i of a file is the number i; its    *)
(* ciphertext under nonce n is <<"c", n, i>>; a tag byte of the chunk with *)
(* plaintext m sealed under n is <<"t", n, m>> (an ideal AEAD: a chunk     *)
(* opens under n only if it is exactly the sealing of some m under n).     *)
(* CHUNK_SIZE and TAG_SIZE are scaled down to ChunkSize and TagSize.       *)
(***************************************************************************)
EXTENDS Naturals, Sequences, SequencesExt

CONSTANTS
    ChunkSize,      \* CHUNK_SIZE (store.rs:39)
    TagSize,        \* ChunkStreamCipher::TAG_SIZE
    NonceBase,      \* last 4 bytes of the file's base nonce, as a u32
    NonceModulus    \* 2^32, scaled down

ASSUME CodecAssumption ==
    /\ ChunkSize \in Nat \ {0}
    /\ TagSize \in Nat \ {0}
    /\ NonceModulus \in Nat \ {0}
    /\ NonceBase \in 0..NonceModulus - 1

EncChunkSize == ChunkSize + TagSize     \* ENCRYPTED_CHUNK_SIZE (store.rs:40)

MinOf(x, y) == IF x <= y THEN x ELSE y

-----------------------------------------------------------------------------
(* The file and its encryption (encrypt_stream, get_chunk_nonce). *)

Plaintext(s) == [i \in 1..s |-> i - 1]

(* get_chunk_nonce: the base nonce's last 4 bytes plus chunk_id, wrapping. *)
Nonce(cid) == (NonceBase + cid) % NonceModulus

Seal(n, m) ==
    [i \in 1..Len(m) |-> <<"c", n, m[i]>>] \o [i \in 1..TagSize |-> <<"t", n, m>>]

(* ChunkStreamCipher::decrypt of chunk c under nonce n: it succeeds only  *)
(* if c is the sealing of some plaintext under n, and then yields it.      *)
Unseal(c) == [i \in 1..Len(c) - TagSize |-> IF c[i][1] = "c" THEN c[i][3] ELSE -1]

Opens(n, c) == Len(c) >= TagSize /\ Seal(n, Unseal(c)) = c

NumChunks(s) == (s - 1) \div ChunkSize + 1

PlainChunk(s, j) == SubSeq(Plaintext(s), j * ChunkSize + 1, MinOf(s, (j + 1) * ChunkSize))

(* What Store::upload stores: chunk j sealed under Nonce(j). *)
Ciphertext(s) == FlattenSeq([j \in 1..NumChunks(s) |-> Seal(Nonce(j - 1), PlainChunk(s, j - 1))])

(* Mutant: one tag per started chunk counted as size / CHUNK_SIZE + 1,    *)
(* without the `saturating_sub(1)`.                                        *)
EncryptedSizeNoSub(s) == s + (s \div ChunkSize + 1) * TagSize

(* encrypted_size (store.rs:206-208, 131-134) *)
EncryptedSize(s) == s + ((IF s = 0 THEN 0 ELSE s - 1) \div ChunkSize + 1) * TagSize

-----------------------------------------------------------------------------
(* Messages between stages: a poll, and the three answers of a stream. *)

Call == [k |-> "call", v |-> <<>>]
End == [k |-> "end", v |-> <<>>]
Err == [k |-> "err", v |-> <<>>]
Item(c) == [k |-> "item", v |-> c]

-----------------------------------------------------------------------------
(* chunk_stream's State is [buf, remaining, chunkSize]: the StreamReader's *)
(* leftover bytes, the bytes still to read and the chunk_size argument.   *)

(* Mutant: chunks framed at the plaintext CHUNK_SIZE whatever chunk_size  *)
(* the caller passed.                                                      *)
ChunkReadPlain(st) == MinOf(st.remaining, ChunkSize)

(* remaining.min(chunk_size) *)
ChunkRead(st) == MinOf(st.remaining, st.chunkSize)

(* chunk_stream: read_exact of min(remaining, chunk_size) bytes from a     *)
(* StreamReader, whose buffer `buf` keeps what an item left over.  EOF     *)
(* before the read is complete is an UnexpectedEof error.                  *)
ChunkPoll(st, in) ==
    LET buf == IF in.k = "item" THEN st.buf \o in.v ELSE st.buf
        read == ChunkRead(st)
    IN CASE read = 0 ->
              [st |-> st, out |-> End]
         [] read # 0 /\ in.k \in {"end", "err"} ->
              [st |-> st, out |-> Err]
         [] read # 0 /\ in.k \in {"call", "item"} /\ Len(buf) >= read ->
              [st |-> [st EXCEPT !.buf = SubSeq(buf, read + 1, Len(buf)),
                                 !.remaining = st.remaining - read],
               out |-> Item(SubSeq(buf, 1, read))]
         [] read # 0 /\ in.k \in {"call", "item"} /\ Len(buf) < read ->
              [st |-> [st EXCEPT !.buf = buf], out |-> Call]

=============================================================================

------------------------------ MODULE Upload ------------------------------
(***************************************************************************)
(* The body of one upload: Store::upload (src/store.rs) chains             *)
(*   client body -> chunk_stream -> encrypt_stream -> create_file's body   *)
(* (src/stream.rs, src/store.rs, src/drive.rs).  warp hands the request    *)
(* body as a stream of items of any length; chunk_stream(size, ..,         *)
(* CHUNK_SIZE) reframes it into plaintext chunks with read_exact;          *)
(* encrypt_stream seals chunk i under get_chunk_nonce(i); hyper sends the  *)
(* items as the media part of a request whose content-length was computed *)
(* beforehand from encrypted_size.  As in Download, every adapter is a     *)
(* try_unfold stream that runs only when polled: `active` is the running   *)
(* stage and `msg` what it was handed.  The multipart prefix and suffix    *)
(* add the same count to the body and to content-length and are left out; *)
(* throttle_stream passes items unchanged (module BandwidthLimiter).       *)
(***************************************************************************)
EXTENDS ChunkCodec

CONSTANTS
    UploadSizes,    \* the Content-Length values of upload requests (NonZeroU64)
    MaxItem         \* bound: bytes in one item of the client's body stream

ASSUME UploadAssumption ==
    /\ UploadSizes \subseteq Nat \ {0}
    /\ MaxItem \in Nat \ {0}

(* Mutant: the chunk counter not advanced between chunks. *)
EncryptPollSameId(cid, in) ==
    CASE in.k = "call" -> [st |-> cid, out |-> Call]
      [] in.k \in {"end", "err"} -> [st |-> cid, out |-> in]
      [] in.k = "item" -> [st |-> cid, out |-> Item(Seal(Nonce(cid), in.v))]

(* encrypt_stream: seal the next chunk under chunk_id and go on with       *)
(* chunk_id + 1; the end and errors of the chunk stream pass through.      *)
EncryptPoll(cid, in) ==
    CASE in.k = "call" -> [st |-> cid, out |-> Call]
      [] in.k \in {"end", "err"} -> [st |-> cid, out |-> in]
      [] in.k = "item" -> [st |-> cid + 1, out |-> Item(Seal(Nonce(cid), in.v))]

VARIABLES
    status,     \* "idle", "stream", then "ok", "err" or "mismatch"
    size,       \* the declared size, size.get() of the request
    client,     \* body bytes the client has not sent yet
    fault,      \* the client's body stream failed (connection lost)
    active,     \* the running stage: 0 client body .. 2 encrypt, 3 hyper
    msg,        \* what the running stage was handed
    chunker,    \* State of chunk_stream
    chunkId,    \* State of encrypt_stream: the next chunk_id
    sent,       \* media bytes hyper has written
    stored      \* the object the provider keeps once the request succeeds

vars == <<status, size, client, fault, active, msg, chunker, chunkId, sent, stored>>

TypeOK ==
    /\ status \in {"idle", "stream", "ok", "err", "mismatch"}
    /\ size \in Nat
    /\ fault \in BOOLEAN
    /\ active \in 0..3
    /\ msg.k \in {"call", "end", "err", "item"}
    /\ chunker.remaining \in Nat
    /\ chunkId \in Nat
    /\ Len(sent) \in Nat

NoChunker == [buf |-> <<>>, remaining |-> 0, chunkSize |-> ChunkSize]

Init ==
    /\ status = "idle" /\ size = 0 /\ client = <<>> /\ fault = FALSE
    /\ active = 3 /\ msg = Call /\ chunker = NoChunker /\ chunkId = 0
    /\ sent = <<>> /\ stored = <<>>

(* Store::upload, once allocate_file returned a drive: build the chain     *)
(* with encrypt_stream starting at chunk 0 and hand it to create_file,     *)
(* whose hyper body polls it.                                              *)
Start ==
    /\ status = "idle"
    /\ \E s \in UploadSizes :
          /\ size' = s
          /\ client' = Plaintext(s)
          /\ chunker' = [buf |-> <<>>, remaining |-> s, chunkSize |-> ChunkSize]
    /\ chunkId' = 0
    /\ status' = "stream"
    /\ active' = 2 /\ msg' = Call
    /\ UNCHANGED <<fault, sent, stored>>

(* The stage that was polled or answered hands `o` on. *)
Pass(i, o) ==
    /\ active' = IF o = Call THEN i - 1 ELSE i + 1
    /\ msg' = o

(* warp's body stream: the next item of the bytes the client sent, the     *)
(* end of the body, or an error when the connection breaks first (hyper    *)
(* never yields more than Content-Length).                                 *)
ClientBody ==
    /\ status = "stream" /\ active = 0
    /\ \/ /\ client = <<>>
          /\ Pass(0, End)
          /\ UNCHANGED <<client, fault>>
       \/ \E n \in 1..MaxItem :
            /\ n <= Len(client)
            /\ Pass(0, Item(SubSeq(client, 1, n)))
            /\ client' = SubSeq(client, n + 1, Len(client))
            /\ UNCHANGED fault
       \/ /\ client # <<>>
          /\ Pass(0, Err)
          /\ fault' = TRUE
          /\ UNCHANGED client
    /\ UNCHANGED <<status, size, chunker, chunkId, sent, stored>>

Chunk ==
    /\ status = "stream" /\ active = 1
    /\ chunker' = ChunkPoll(chunker, msg).st
    /\ Pass(1, ChunkPoll(chunker, msg).out)
    /\ UNCHANGED <<status, size, client, fault, chunkId, sent, stored>>

Encrypt ==
    /\ status = "stream" /\ active = 2
    /\ chunkId' = EncryptPoll(chunkId, msg).st
    /\ Pass(2, EncryptPoll(chunkId, msg).out)
    /\ UNCHANGED <<status, size, client, fault, chunker, sent, stored>>

(* hyper writes each item of Body::wrap_stream under the content-length    *)
(* encrypted_size(size); a body longer or shorter than that fails the      *)
(* request, an error of the stream aborts it, and a body of exactly that   *)
(* length completes it and the provider keeps the bytes.                   *)
Send ==
    /\ status = "stream" /\ active = 3
    /\ \/ /\ msg.k = "item"
          /\ Len(sent) + Len(msg.v) <= EncryptedSize(size)
          /\ sent' = sent \o msg.v
          /\ active' = 2 /\ msg' = Call
          /\ UNCHANGED <<status, stored>>
       \/ /\ msg.k = "item"
          /\ Len(sent) + Len(msg.v) > EncryptedSize(size)
          /\ status' = "mismatch"
          /\ UNCHANGED <<sent, stored, active, msg>>
       \/ /\ msg.k = "end"
          /\ Len(sent) = EncryptedSize(size)
          /\ status' = "ok"
          /\ stored' = sent
          /\ UNCHANGED <<sent, active, msg>>
       \/ /\ msg.k = "end"
          /\ Len(sent) # EncryptedSize(size)
          /\ status' = "mismatch"
          /\ UNCHANGED <<sent, stored, active, msg>>
       \/ /\ msg.k = "err"
          /\ status' = "err"
          /\ UNCHANGED <<sent, stored, active, msg>>
    /\ UNCHANGED <<size, client, fault, chunker, chunkId>>

(* create_file returned; the next upload starts from scratch. *)
Done ==
    /\ status \in {"ok", "err", "mismatch"}
    /\ status' = "idle" /\ size' = 0 /\ client' = <<>> /\ fault' = FALSE
    /\ active' = 3 /\ msg' = Call /\ chunker' = NoChunker /\ chunkId' = 0
    /\ sent' = <<>> /\ stored' = <<>>

Next == Start \/ ClientBody \/ Chunk \/ Encrypt \/ Send \/ Done

Spec == Init /\ [][Next]_vars

-----------------------------------------------------------------------------
(* Whatever the client's item boundaries and wherever its body breaks, the *)
(* bytes hyper sends are a prefix of the format Download reads back        *)
(* (ChunkCodec's Ciphertext: chunk j sealed under nonce j), and a request  *)
(* that completes leaves exactly that object at the provider.              *)
SendsCiphertext ==
    /\ IsPrefix(sent, Ciphertext(size))
    /\ status = "ok" => stored = Ciphertext(size)

(* An upload fails only when the client's body breaks: a complete body     *)
(* always produces exactly encrypted_size bytes, the content-length        *)
(* create_file declared (spec 4.2, "ciphertext expansion").                *)
UploadErrorsOnlyOnFault == status \in {"err", "mismatch"} => fault

=============================================================================

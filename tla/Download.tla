----------------------------- MODULE Download -----------------------------
(***************************************************************************)
(* One ranged read of an encrypted file: Store::get (src/store.rs) plans   *)
(* the ciphertext range, Drive::get_file (src/drive.rs) answers with a     *)
(* byte stream and its declared range, and the stream is read through the  *)
(* chain                                                                   *)
(*   network -> slice_stream -> chunk_stream -> decrypt_stream             *)
(*           -> slice_stream -> consumer (the HTTP body)                  *)
(* (src/stream.rs, src/store.rs).  Every adapter is a try_unfold stream:   *)
(* it runs only when the stage below polls it, so exactly one stage is     *)
(* running at a time.  `active` is that stage and `msg` what it was handed:*)
(* Call (it was polled) or the item, end or error its upstream returned.   *)
(*                                                                         *)
(* Bytes are abstract.  Plaintext byte i of the file is the number i; its  *)
(* ciphertext under nonce n is <<"c", n, i>>; a tag byte of the chunk with *)
(* plaintext m sealed under n is <<"t", n, m>> (an ideal AEAD: a chunk     *)
(* opens under n only if it is exactly the sealing of some m under n); a   *)
(* byte altered in transit is <<"x">>.  CHUNK_SIZE and TAG_SIZE are scaled *)
(* down to ChunkSize and TagSize.                                          *)
(***************************************************************************)
EXTENDS ChunkCodec

CONSTANTS
    Sizes,          \* plaintext sizes of stored files (upload needs size > 0)
    MaxNet          \* bound: bytes in one item of the response body stream

ASSUME DownloadAssumption ==
    /\ Sizes \subseteq Nat \ {0}
    /\ MaxNet \in Nat \ {0}

-----------------------------------------------------------------------------
(* The range planner of Store::get. *)

(* A bound of parse_single_range_header: Unbounded, or Included(v).       *)
Unbounded == <<>>
Included(v) == <<v>>
Bounds(s) == {Unbounded} \cup {Included(v) : v \in 0..s}

(* What Store::get is handed: no range (some = FALSE), or two bounds. *)
RangeInputs(s) ==
    [some : {FALSE}, start : {Unbounded}, end : {Unbounded}]
    \cup [some : {TRUE}, start : Bounds(s), end : Bounds(s)]

(* resolve_range, with .unwrap_or(0..size) *)
ResolveRange(in, s) ==
    LET lo == IF in.start = Unbounded THEN 0 ELSE in.start[1]
        hi == IF in.end = Unbounded THEN s ELSE in.end[1] + 1
    IN  IF in.some /\ lo < hi /\ hi <= s THEN [lo |-> lo, hi |-> hi] ELSE [lo |-> 0, hi |-> s]

(* Mutant: the first chunk's index subtracted without `* CHUNK_SIZE`. *)
ContentRangeNoScale(r) ==
    LET start == r.lo - r.lo \div ChunkSize
    IN  [lo |-> start, hi |-> start + (r.hi - r.lo)]

(* content_range: the window within the decrypted stream, which starts at  *)
(* the first byte of chunk_range.start.                                    *)
ContentRange(r) ==
    LET start == r.lo - (r.lo \div ChunkSize) * ChunkSize
    IN  [lo |-> start, hi |-> start + (r.hi - r.lo)]

(* chunk_range and encrypted_range, with content_range *)
Plan(r, s) ==
    LET cs == r.lo \div ChunkSize
        ce == (r.hi - 1) \div ChunkSize + 1
    IN  [chunks  |-> [lo |-> cs, hi |-> ce],
         enc     |-> [lo |-> cs * EncChunkSize,
                      hi |-> MinOf(ce * EncChunkSize, EncryptedSize(s))],
         content |-> ContentRange(r)]

(* Mutant: the item taken whole, whatever the limit left. *)
SliceTakeWhole(limit, size) == size

(* let take = limit.min(chunk.len()) *)
SliceTake(limit, size) == MinOf(limit, size)

(* One run of slice_stream's closure, resumed with input `in`.  Returns    *)
(* its new State and its answer, or Call when it awaits stream.next().     *)
SlicePoll(st, in) ==
    LET size == Len(in.v)
        take == SliceTake(st.limit, size)
    IN CASE in.k = "call" /\ st.offset = 0 /\ st.limit = 0 ->
              [st |-> st, out |-> End]
         [] in.k = "call" /\ (st.offset # 0 \/ st.limit # 0) ->
              [st |-> st, out |-> Call]
         [] in.k \in {"end", "err"} ->
              [st |-> st, out |-> in]
         [] in.k = "item" /\ st.offset # 0 /\ size <= st.offset ->
              [st |-> [st EXCEPT !.offset = @ - size], out |-> Call]
         [] in.k = "item" /\ st.offset # 0 /\ size > st.offset ->
              [st |-> [st EXCEPT !.offset = 0],
               out |-> Item(SubSeq(in.v, st.offset + 1, size))]
         [] in.k = "item" /\ st.offset = 0 ->
              [st |-> [st EXCEPT !.limit = @ - take], out |-> Item(SubSeq(in.v, 1, take))]

(* decrypt_stream: decrypt each chunk under chunk_id, then chunk_id + 1. *)
DecryptPoll(cid, in) ==
    CASE in.k = "call" ->
           [st |-> cid, out |-> Call]
      [] in.k \in {"end", "err"} ->
           [st |-> cid, out |-> in]
      [] in.k = "item" /\ ~Opens(Nonce(cid), in.v) ->
           [st |-> cid, out |-> Err]
      [] in.k = "item" /\ Opens(Nonce(cid), in.v) ->
           [st |-> cid + 1, out |-> Item(Unseal(in.v))]

-----------------------------------------------------------------------------
VARIABLES
    status,     \* "idle", "fetch", "stream", then "ok", "err" or "rejected"
    size,       \* file.size of the row Store::get found
    win,        \* the resolved plaintext range [lo, hi)
    plan,       \* chunk_range, encrypted_range and content_range
    body,       \* response body bytes the network has not delivered yet
    tamper,     \* a body byte the read consumes was altered in transit
    fault,      \* the remote request or its body stream failed
    active,     \* the running stage: 0 network .. 4 outer slice, 5 consumer
    msg,        \* what the running stage was handed
    slice1,     \* State of slice_stream over the response
    chunker,    \* State of chunk_stream
    chunkId,    \* State of decrypt_stream: the next chunk_id
    slice2,     \* State of slice_stream over the plaintext
    out         \* bytes Store::get's content stream has yielded to hyper

vars == <<status, size, win, plan, body, tamper, fault, active, msg,
          slice1, chunker, chunkId, slice2, out>>

Interval == [lo : Nat, hi : Nat]

SliceState == [offset : Nat, limit : Nat]

TypeOK ==
    /\ status \in {"idle", "fetch", "stream", "ok", "err", "rejected"}
    /\ size \in Nat
    /\ win \in Interval
    /\ plan \in [chunks : Interval, enc : Interval, content : Interval]
    /\ tamper \in BOOLEAN /\ fault \in BOOLEAN
    /\ active \in 0..5
    /\ msg.k \in {"call", "end", "err", "item"}
    /\ slice1 \in SliceState /\ slice2 \in SliceState
    /\ chunker.remaining \in Nat
    /\ chunkId \in Nat
    /\ Len(out) \in Nat

NoPlan == [chunks |-> [lo |-> 0, hi |-> 0], enc |-> [lo |-> 0, hi |-> 0],
           content |-> [lo |-> 0, hi |-> 0]]

(* No request yet: the values the task's locals are given before use. *)
Idle ==
    /\ status = "idle" /\ size = 0 /\ win = [lo |-> 0, hi |-> 0] /\ plan = NoPlan
    /\ body = <<>> /\ tamper = FALSE /\ fault = FALSE
    /\ active = 5 /\ msg = Call
    /\ slice1 = [offset |-> 0, limit |-> 0] /\ chunker = [buf |-> <<>>, remaining |-> 0, chunkSize |-> EncChunkSize]
    /\ chunkId = 0 /\ slice2 = [offset |-> 0, limit |-> 0] /\ out = <<>>

Init == Idle

(* Store::get, after get_file_by_key returned the row: resolve the range   *)
(* and plan the chunk, ciphertext and content ranges.                      *)
Request ==
    /\ status = "idle"
    /\ \E s \in Sizes : \E in \in RangeInputs(s) :
         /\ size' = s
         /\ win' = ResolveRange(in, s)
         /\ plan' = Plan(ResolveRange(in, s), s)
    /\ status' = "fetch"
    /\ UNCHANGED <<body, tamper, fault, active, msg, slice1, chunker, chunkId,
                   slice2, out>>

(* What Drive::get_file can be answered for encrypted_range er of a file   *)
(* of E ciphertext bytes: the declared range [lo, hi) and the file bytes   *)
(* [from, to) the body carries.  A 206 declares its Content-Range and a    *)
(* 200 0..Content-Length, and the body is that range.  Without the header  *)
(* the declared range falls back to er (unwrap_or(range.clone())): a 206   *)
(* body is then er itself, already among the first set, but a 200 body is  *)
(* the whole file.                                                         *)
Answers(er, E) ==
    {[lo |-> lo, hi |-> hi, from |-> lo, to |-> hi] : lo \in 0..E, hi \in 0..E}
    \cup {[lo |-> er.lo, hi |-> er.hi, from |-> 0, to |-> E]}

(* Drive::get_file: the provider answers with a declared range and a body, *)
(* of which one byte may be altered; a declared range that does not cover  *)
(* the request is FileRangeResponseInvalid; or the request fails.  On      *)
(* success Store::get builds the chain over the declared range and the     *)
(* consumer polls it.                                                      *)
Fetch ==
    LET er == plan.enc
        E == EncryptedSize(size)
    IN
    /\ status = "fetch"
    /\ \/ \E a \in Answers(er, E), t \in 0..E :
            /\ a.lo <= er.lo /\ er.hi <= a.hi
            /\ t = 0 \/ t \in a.from + 1..a.to
            /\ LET bytes == SubSeq(Ciphertext(size), a.from + 1, a.to)
               IN  body' = IF t = 0 THEN bytes ELSE [bytes EXCEPT ![t - a.from] = <<"x">>]
            /\ tamper' = (t - a.from \in er.lo - a.lo + 1..er.hi - a.lo)
            /\ slice1' = [offset |-> er.lo - a.lo, limit |-> er.hi - er.lo]
            /\ chunker' = [buf |-> <<>>, remaining |-> er.hi - er.lo, chunkSize |-> EncChunkSize]
            /\ chunkId' = plan.chunks.lo
            /\ slice2' = [offset |-> plan.content.lo,
                          limit |-> plan.content.hi - plan.content.lo]
            /\ status' = "stream"
            /\ active' = 4
            /\ msg' = Call
            /\ UNCHANGED fault
       \/ /\ \E a \in Answers(er, E) : a.lo <= a.hi /\ (a.lo > er.lo \/ a.hi < er.hi)
          /\ status' = "rejected"
          /\ UNCHANGED <<body, tamper, fault, slice1, chunker, chunkId, slice2, active, msg>>
       \/ /\ status' = "err"
          /\ fault' = TRUE
          /\ UNCHANGED <<body, tamper, slice1, chunker, chunkId, slice2, active, msg>>
    /\ UNCHANGED <<size, win, plan, out>>

(* The stage that was polled or answered hands `o` on: a Call goes to the  *)
(* stage upstream, an answer to the stage downstream.                      *)
Pass(i, o) ==
    /\ active' = IF o = Call THEN i - 1 ELSE i + 1
    /\ msg' = o

(* response.bytes_stream(): the next item, its end, or a transport error. *)
Network ==
    /\ status = "stream" /\ active = 0
    /\ \/ /\ body = <<>>
          /\ Pass(0, End)
          /\ UNCHANGED <<body, fault>>
       \/ \E n \in 1..MaxNet :
            /\ n <= Len(body)
            /\ Pass(0, Item(SubSeq(body, 1, n)))
            /\ body' = SubSeq(body, n + 1, Len(body))
            /\ UNCHANGED fault
       \/ /\ body # <<>>
          /\ Pass(0, Err)
          /\ fault' = TRUE
          /\ UNCHANGED body
    /\ UNCHANGED <<status, size, win, plan, tamper, slice1, chunker, chunkId, slice2, out>>

SliceResponse ==
    /\ status = "stream" /\ active = 1
    /\ slice1' = SlicePoll(slice1, msg).st
    /\ Pass(1, SlicePoll(slice1, msg).out)
    /\ UNCHANGED <<status, size, win, plan, body, tamper, fault, chunker, chunkId, slice2, out>>

Chunk ==
    /\ status = "stream" /\ active = 2
    /\ chunker' = ChunkPoll(chunker, msg).st
    /\ Pass(2, ChunkPoll(chunker, msg).out)
    /\ UNCHANGED <<status, size, win, plan, body, tamper, fault, slice1, chunkId, slice2, out>>

Decrypt ==
    /\ status = "stream" /\ active = 3
    /\ chunkId' = DecryptPoll(chunkId, msg).st
    /\ Pass(3, DecryptPoll(chunkId, msg).out)
    /\ UNCHANGED <<status, size, win, plan, body, tamper, fault, slice1, chunker, slice2, out>>

SliceContent ==
    /\ status = "stream" /\ active = 4
    /\ slice2' = SlicePoll(slice2, msg).st
    /\ Pass(4, SlicePoll(slice2, msg).out)
    /\ UNCHANGED <<status, size, win, plan, body, tamper, fault, slice1, chunker, chunkId, out>>

(* hyper's Body::wrap_stream under the Content-Length range.end -         *)
(* range.start that get_file declares (server.rs:151-157).  hyper's length *)
(* encoder writes an item up to what is left of that length; once all of   *)
(* it is written the response is complete and the stream is dropped        *)
(* without another poll.  A stream that ends before that aborts the        *)
(* response (the encoder's NotEof), and so does a stream error.            *)
Consume ==
    /\ status = "stream" /\ active = 5
    /\ \/ /\ msg.k = "item"
          /\ out' = out \o msg.v
          /\ \/ /\ Len(out) + Len(msg.v) >= win.hi - win.lo
                /\ status' = "ok"
                /\ UNCHANGED <<active, msg>>
             \/ /\ Len(out) + Len(msg.v) < win.hi - win.lo
                /\ active' = 4 /\ msg' = Call
                /\ UNCHANGED status
       \/ /\ msg.k \in {"end", "err"}
          /\ status' = "err"
          /\ UNCHANGED <<out, active, msg>>
    /\ UNCHANGED <<size, win, plan, body, tamper, fault, slice1, chunker, chunkId, slice2>>

(* The response is over; the next request finds the task idle again. *)
Done ==
    /\ status \in {"ok", "err", "rejected"}
    /\ status' = "idle" /\ size' = 0 /\ win' = [lo |-> 0, hi |-> 0] /\ plan' = NoPlan
    /\ body' = <<>> /\ tamper' = FALSE /\ fault' = FALSE
    /\ active' = 5 /\ msg' = Call
    /\ slice1' = [offset |-> 0, limit |-> 0] /\ chunker' = [buf |-> <<>>, remaining |-> 0, chunkSize |-> EncChunkSize]
    /\ chunkId' = 0 /\ slice2' = [offset |-> 0, limit |-> 0] /\ out' = <<>>

Next == Request \/ Fetch \/ Network \/ SliceResponse \/ Chunk \/ Decrypt
        \/ SliceContent \/ Consume \/ Done

Spec == Init /\ [][Next]_vars

-----------------------------------------------------------------------------
(* The bytes of the file from the start of the requested range to its end. *)
FromStart == SubSeq(Plaintext(size), win.lo + 1, size)

(* The requested window, plaintext[a..b). *)
Window == SubSeq(Plaintext(size), win.lo + 1, win.hi)

(* What the HTTP client receives: hyper writes the stream's bytes up to    *)
(* the declared Content-Length and no further.                             *)
Sent == SubSeq(out, 1, MinOf(Len(out), win.hi - win.lo))

(* Range equivalence (spec §8 property 3, scenario S5): whatever the        *)
(* provider's declared range, the way the body is split into items and     *)
(* where the stream stops, the content stream only ever yields file bytes  *)
(* in order from the start of the requested range, and a response that    *)
(* completes has given the client exactly plaintext[a..b): the planner's   *)
(* ranges, the two slices, chunk_stream's framing, the per-chunk nonces    *)
(* and the Content-Length agree.                                           *)
DeliversWindow ==
    /\ IsPrefix(out, FromStart)
    /\ status = "ok" => Sent = Window

(* A read fails only because the provider failed, answered too narrow a    *)
(* range (a rejection, not a stream error), or altered a byte the read     *)
(* needs: a clean response always decrypts and fills the Content-Length    *)
(* (spec §4.1, §4.6 "200 OK: use Content-Length and assume full", §7).     *)
ErrorsOnlyOnFault == status = "err" => fault \/ tamper

(* slice (spec §4.3) "emits at most hi - lo bytes": Store::get's content   *)
(* stream never yields more than the requested window.                     *)
StreamWithinRange == Len(out) <= win.hi - win.lo

(* Tamper detection: a read whose consumed ciphertext was altered gives    *)
(* the client no plaintext at all (spec §8 property 4).                    *)
NoPlaintextOnTamper == tamper => Sent = <<>>

=============================================================================

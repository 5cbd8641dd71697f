--------------------------- MODULE DownloadProofs ---------------------------
(***************************************************************************)
(* Proofs about module Download, for every set of file sizes, every        *)
(* CHUNK_SIZE and TAG_SIZE and every bound on the network's items: the     *)
(* read path is type-correct.  The u64 arithmetic of Store::get and of the *)
(* stream adapters never goes below zero: encrypted_range and              *)
(* content_range are well-formed intervals, so `range.end - range.start`   *)
(* in slice_stream, `offset -= size` and `limit -= take` in its closure    *)
(* and `remaining - read` in chunk_stream all stay natural numbers.        *)
(***************************************************************************)
EXTENDS Download, TLAPS

(***************************************************************************)
(* Bytes are abstract, so the invariant says of each byte string only that *)
(* it is a sequence: a function on 1..n for some natural n.               *)
(***************************************************************************)
Shaped(s) == \E n \in Nat : DOMAIN s = 1..n

(* The planner's intervals are never reversed: encrypted_range and         *)
(* content_range start no later than they end.                             *)
PlanOrdered ==
    /\ plan.enc.lo <= plan.enc.hi
    /\ plan.content.lo <= plan.content.hi

(* The byte strings of the chain are sequences, and chunk_stream's state   *)
(* is a record whose chunk_size is a natural number.                       *)
StreamsShaped ==
    /\ Shaped(out) /\ Shaped(body) /\ Shaped(msg.v) /\ Shaped(chunker.buf)
    /\ DOMAIN chunker = {"buf", "remaining", "chunkSize"}
    /\ chunker.chunkSize \in Nat

DInv == TypeOK /\ PlanOrdered /\ StreamsShaped

-----------------------------------------------------------------------------
(* Operator lemmas: sequences. *)

LEMMA LenShaped ==
  ASSUME NEW s, Shaped(s)
  PROVE  Len(s) \in Nat /\ DOMAIN s = 1..Len(s)
  BY DEF Shaped

LEMMA EmptyShaped == Shaped(<<>>)
  BY DEF Shaped

LEMMA ConcatShaped ==
  ASSUME NEW s, NEW t, Shaped(s), Shaped(t)
  PROVE  Shaped(s \o t)
  BY DEF Shaped

LEMMA ExceptShaped ==
  ASSUME NEW s, Shaped(s), NEW i, NEW v
  PROVE  Shaped([s EXCEPT ![i] = v])
  BY DEF Shaped

LEMMA SubSeqShaped ==
  ASSUME NEW s, NEW a \in Nat, NEW b \in Nat
  PROVE  Shaped(SubSeq(s, a, b))
  <1>1. DOMAIN SubSeq(s, a, b) = 1..(1 + b - a)
    OBVIOUS
  <1>2. CASE 1 + b - a >= 0
    <2>1. 1 + b - a \in Nat
      BY <1>2
    <2>2. QED
      BY <1>1, <2>1 DEF Shaped
  <1>3. CASE 1 + b - a < 0
    <2>1. 1..(1 + b - a) = 1..0
      BY <1>3
    <2>2. QED
      BY <1>1, <2>1 DEF Shaped
  <1>4. QED
    BY <1>2, <1>3

-----------------------------------------------------------------------------
(* Operator lemmas: the u64 division by CHUNK_SIZE. *)

LEMMA DivFloor ==
  ASSUME NEW a \in Nat
  PROVE  /\ a \div ChunkSize \in Nat
         /\ (a \div ChunkSize) * ChunkSize <= a
  BY CodecAssumption

LEMMA DivMono ==
  ASSUME NEW a \in Nat, NEW b \in Nat, a <= b
  PROVE  a \div ChunkSize <= b \div ChunkSize
  BY CodecAssumption

-----------------------------------------------------------------------------
(* Operator lemmas: the range planner of Store::get. *)

(* resolve_range(..).unwrap_or(0..size) is a non-empty range within the   *)
(* file, whatever bounds the Range header gave.                            *)
LEMMA ResolveRangeWithin ==
  ASSUME NEW s \in Nat \ {0}, NEW in \in RangeInputs(s)
  PROVE  LET r == ResolveRange(in, s)
         IN  r.lo \in Nat /\ r.hi \in Nat /\ r.lo < r.hi /\ r.hi <= s
  <1>1. /\ in.start = Unbounded \/ \E v \in 0..s : in.start = Included(v)
        /\ in.end = Unbounded \/ \E v \in 0..s : in.end = Included(v)
        /\ in.some \in BOOLEAN
    BY DEF RangeInputs, Bounds
  <1>2. (IF in.start = Unbounded THEN 0 ELSE in.start[1]) \in Nat
    BY <1>1 DEF Included
  <1>3. (IF in.end = Unbounded THEN s ELSE in.end[1] + 1) \in Nat
    BY <1>1 DEF Included
  <1>4. QED
    BY <1>2, <1>3 DEF ResolveRange

(* chunk_range, encrypted_range and content_range of a non-empty range     *)
(* within the file: encrypted_range starts no later than it ends, because  *)
(* the first chunk of the range starts before the end of the ciphertext.   *)
LEMMA PlanWellFormed ==
  ASSUME NEW s \in Nat \ {0}, NEW r, r.lo \in Nat, r.hi \in Nat,
         r.lo < r.hi, r.hi <= s
  PROVE  /\ Plan(r, s) \in [chunks : Interval, enc : Interval, content : Interval]
         /\ Plan(r, s).enc.lo <= Plan(r, s).enc.hi
         /\ Plan(r, s).content.lo <= Plan(r, s).content.hi
  <1> USE CodecAssumption
  <1> DEFINE cs == r.lo \div ChunkSize
             ce == (r.hi - 1) \div ChunkSize + 1
             q == (s - 1) \div ChunkSize
  <1>1. cs \in Nat /\ cs * ChunkSize <= r.lo
    BY DivFloor
  <1>2. cs <= (r.hi - 1) \div ChunkSize /\ cs <= q
    BY DivMono
  <1>3. ce \in Nat /\ q \in Nat /\ cs < ce
    BY <1>2, DivFloor
  <1>4. cs * EncChunkSize <= ce * EncChunkSize
    BY <1>1, <1>3 DEF EncChunkSize
  <1>5. cs * TagSize <= (q + 1) * TagSize
    BY <1>1, <1>2, <1>3
  <1>6. EncryptedSize(s) = s + (q + 1) * TagSize
    BY DEF EncryptedSize
  <1>7. cs * EncChunkSize <= EncryptedSize(s)
    BY <1>1, <1>5, <1>6 DEF EncChunkSize
  <1>8. EncryptedSize(s) \in Nat /\ cs * EncChunkSize \in Nat /\ ce * EncChunkSize \in Nat
    BY <1>1, <1>3, <1>6 DEF EncChunkSize
  <1>9. ContentRange(r).lo \in Nat /\ ContentRange(r).lo <= ContentRange(r).hi
        /\ ContentRange(r).hi \in Nat
    BY <1>1 DEF ContentRange
  <1>10. Plan(r, s) = [chunks  |-> [lo |-> cs, hi |-> ce],
                        enc     |-> [lo |-> cs * EncChunkSize,
                                     hi |-> MinOf(ce * EncChunkSize, EncryptedSize(s))],
                        content |-> ContentRange(r)]
    BY DEF Plan
  <1>11. /\ MinOf(ce * EncChunkSize, EncryptedSize(s)) \in Nat
         /\ cs * EncChunkSize <= MinOf(ce * EncChunkSize, EncryptedSize(s))
    BY <1>4, <1>7, <1>8 DEF MinOf
  <1>12. ContentRange(r) \in Interval
    BY <1>9 DEF ContentRange, Interval
  <1>13. /\ Plan(r, s).chunks \in Interval
         /\ Plan(r, s).enc \in Interval
         /\ Plan(r, s).enc.lo <= Plan(r, s).enc.hi
         /\ Plan(r, s).content = ContentRange(r)
    BY <1>1, <1>3, <1>8, <1>10, <1>11 DEF Interval
  <1>14. QED
    BY <1>9, <1>10, <1>12, <1>13

-----------------------------------------------------------------------------
(* Operator lemmas: one run of each stream adapter's closure. *)

Kinds == {"call", "end", "err", "item"}

(* slice_stream never takes more than `offset` or `limit` leaves: both     *)
(* stay natural numbers, and what it yields is a byte string.              *)
LEMMA SlicePollTyped ==
  ASSUME NEW st \in SliceState, NEW in, in.k \in Kinds, Shaped(in.v)
  PROVE  /\ SlicePoll(st, in).st \in SliceState
         /\ SlicePoll(st, in).out.k \in Kinds
         /\ Shaped(SlicePoll(st, in).out.v)
  <1>1. Len(in.v) \in Nat
    BY LenShaped
  <1>2. SliceTake(st.limit, Len(in.v)) \in 0..st.limit
    BY <1>1 DEF SliceTake, MinOf, SliceState
  <1>3. Shaped(<<>>)
    BY EmptyShaped
  <1>4. /\ Shaped(SubSeq(in.v, st.offset + 1, Len(in.v)))
        /\ Shaped(SubSeq(in.v, 1, SliceTake(st.limit, Len(in.v))))
    BY <1>1, <1>2, SubSeqShaped DEF SliceState
  <1>5. QED
    BY <1>1, <1>2, <1>3, <1>4 DEF SlicePoll, SliceState, Kinds, Call, End, Item

(* chunk_stream reads at most `remaining` bytes: the count stays a natural *)
(* number, the state keeps its shape and the chunk is a byte string.       *)
LEMMA ChunkPollTyped ==
  ASSUME NEW st, NEW in, in.k \in Kinds, Shaped(in.v),
         DOMAIN st = {"buf", "remaining", "chunkSize"},
         Shaped(st.buf), st.remaining \in Nat, st.chunkSize \in Nat
  PROVE  LET r == ChunkPoll(st, in).st
         IN  /\ DOMAIN r = {"buf", "remaining", "chunkSize"}
             /\ Shaped(r.buf) /\ r.remaining \in Nat /\ r.chunkSize \in Nat
             /\ ChunkPoll(st, in).out.k \in Kinds
             /\ Shaped(ChunkPoll(st, in).out.v)
  <1> DEFINE B == IF in.k = "item" THEN st.buf \o in.v ELSE st.buf
             R == ChunkRead(st)
  <1>1. Shaped(B)
    BY ConcatShaped
  <1>2. Len(B) \in Nat
    BY <1>1, LenShaped
  <1>3. R \in 0..st.remaining
    BY DEF ChunkRead, MinOf
  <1>4. /\ Shaped(SubSeq(B, R + 1, Len(B)))
        /\ Shaped(SubSeq(B, 1, R))
    BY <1>2, <1>3, SubSeqShaped
  <1>5. Shaped(<<>>)
    BY EmptyShaped
  <1>6. CASE R = 0
    BY <1>5, <1>6 DEF ChunkPoll, Kinds, End
  <1>7. CASE R # 0 /\ in.k \in {"end", "err"}
    BY <1>5, <1>7 DEF ChunkPoll, Kinds, Err
  <1>8. CASE R # 0 /\ in.k \in {"call", "item"} /\ Len(B) >= R
    <2>1. ChunkPoll(st, in) =
            [st |-> [st EXCEPT !.buf = SubSeq(B, R + 1, Len(B)),
                               !.remaining = st.remaining - R],
             out |-> Item(SubSeq(B, 1, R))]
      <3>1. ChunkPoll(st, in) =
              CASE R = 0 -> [st |-> st, out |-> End]
                [] R # 0 /\ in.k \in {"end", "err"} -> [st |-> st, out |-> Err]
                [] R # 0 /\ in.k \in {"call", "item"} /\ Len(B) >= R ->
                     [st |-> [st EXCEPT !.buf = SubSeq(B, R + 1, Len(B)),
                                        !.remaining = st.remaining - R],
                      out |-> Item(SubSeq(B, 1, R))]
                [] R # 0 /\ in.k \in {"call", "item"} /\ Len(B) < R ->
                     [st |-> [st EXCEPT !.buf = B], out |-> Call]
        BY DEF ChunkPoll, B, R
      <3>2. QED
        BY <1>2, <1>3, <1>8, <3>1
    <2>2. st.remaining - R \in Nat
      BY <1>3
    <2>3. /\ DOMAIN ChunkPoll(st, in).st = {"buf", "remaining", "chunkSize"}
          /\ ChunkPoll(st, in).st.buf = SubSeq(B, R + 1, Len(B))
          /\ ChunkPoll(st, in).st.remaining = st.remaining - R
          /\ ChunkPoll(st, in).st.chunkSize = st.chunkSize
          /\ ChunkPoll(st, in).out = Item(SubSeq(B, 1, R))
      <3> DEFINE st1 == [st EXCEPT !.buf = SubSeq(B, R + 1, Len(B))]
      <3>1. DOMAIN st1 = DOMAIN st /\ st1.remaining = st.remaining
            /\ st1.chunkSize = st.chunkSize /\ st1.buf = SubSeq(B, R + 1, Len(B))
        BY DEF st1
      <3>2. ChunkPoll(st, in).st = [st1 EXCEPT !.remaining = st.remaining - R]
        BY <2>1 DEF st1
      <3>3. DOMAIN ChunkPoll(st, in).st = {"buf", "remaining", "chunkSize"}
        BY <3>1, <3>2
      <3>4. ChunkPoll(st, in).st.buf = SubSeq(B, R + 1, Len(B))
        BY <3>1, <3>2
      <3>5. ChunkPoll(st, in).st.remaining = st.remaining - R
        BY <3>1, <3>2
      <3>6. ChunkPoll(st, in).st.chunkSize = st.chunkSize
        BY <3>1, <3>2
      <3>7. ChunkPoll(st, in).out = Item(SubSeq(B, 1, R))
        BY <2>1
      <3>8. QED
        BY <3>3, <3>4, <3>5, <3>6, <3>7
    <2>4. QED
      BY <2>2, <2>3, <1>4 DEF Kinds, Item
  <1>9. CASE R # 0 /\ in.k \in {"call", "item"} /\ Len(B) < R
    <2>1. ChunkPoll(st, in) = [st |-> [st EXCEPT !.buf = B], out |-> Call]
      BY <1>9 DEF ChunkPoll, B, R
    <2>2. /\ DOMAIN ChunkPoll(st, in).st = {"buf", "remaining", "chunkSize"}
          /\ ChunkPoll(st, in).st.buf = B
          /\ ChunkPoll(st, in).st.remaining = st.remaining
          /\ ChunkPoll(st, in).st.chunkSize = st.chunkSize
          /\ ChunkPoll(st, in).out = Call
      BY <2>1
    <2>3. QED
      BY <2>2, <1>1, <1>5 DEF Kinds, Call
  <1>10. QED
    BY <1>2, <1>3, <1>6, <1>7, <1>8, <1>9 DEF Kinds

(* decrypt_stream moves chunk_id forward and yields only what opened.      *)
LEMMA DecryptPollTyped ==
  ASSUME NEW cid \in Nat, NEW in, in.k \in Kinds, Shaped(in.v)
  PROVE  /\ DecryptPoll(cid, in).st \in Nat
         /\ DecryptPoll(cid, in).out.k \in Kinds
         /\ Shaped(DecryptPoll(cid, in).out.v)
  <1>1. Shaped(<<>>)
    BY DEF Shaped
  <1>2. Opens(Nonce(cid), in.v) => Shaped(Unseal(in.v))
    <2>1. Len(in.v) \in Nat
      BY LenShaped
    <2>2. SUFFICES ASSUME Len(in.v) >= TagSize PROVE Shaped(Unseal(in.v))
      BY DEF Opens
    <2>3. Len(in.v) - TagSize \in Nat
      BY <2>1, <2>2, CodecAssumption
    <2>4. QED
      BY <2>3 DEF Unseal, Shaped
  <1>3. QED
    BY <1>1, <1>2 DEF DecryptPoll, Kinds, Call, Err, Item

-----------------------------------------------------------------------------
(* The inductive invariant. *)

LEMMA IdleDInv == Idle => DInv
  <1> SUFFICES ASSUME Idle PROVE DInv
    OBVIOUS
  <1>1. EncChunkSize \in Nat
    BY CodecAssumption DEF EncChunkSize
  <1>2. TypeOK
    <2>1. plan \in [chunks : Interval, enc : Interval, content : Interval]
      BY DEF Idle, NoPlan, Interval
    <2>2. slice1 \in SliceState /\ slice2 \in SliceState /\ win \in Interval
      BY DEF Idle, SliceState, Interval
    <2>3. Len(out) \in Nat /\ msg.k \in {"call", "end", "err", "item"}
      BY DEF Idle, Call
    <2>4. /\ status \in {"idle", "fetch", "stream", "ok", "err", "rejected"}
          /\ size \in Nat /\ tamper \in BOOLEAN /\ fault \in BOOLEAN
          /\ active \in 0..5 /\ chunker.remaining \in Nat /\ chunkId \in Nat
      <3>1. status \in {"idle", "fetch", "stream", "ok", "err", "rejected"}
        BY DEF Idle
      <3>2. size \in Nat /\ active \in 0..5 /\ chunkId \in Nat
        BY DEF Idle
      <3>3. tamper \in BOOLEAN /\ fault \in BOOLEAN
        BY DEF Idle
      <3>4. chunker.remaining \in Nat
        BY DEF Idle
      <3>5. QED
        BY <3>1, <3>2, <3>3, <3>4
    <2>5. QED
      BY <2>1, <2>2, <2>3, <2>4 DEF TypeOK
  <1>3. PlanOrdered
    BY DEF Idle, PlanOrdered, NoPlan
  <1>4. StreamsShaped
    BY <1>1, EmptyShaped DEF Idle, StreamsShaped, Call
  <1>5. QED
    BY <1>2, <1>3, <1>4 DEF DInv

(* A stage hands on what one run of its closure returned. *)
LEMMA PassTyped ==
  ASSUME NEW i \in 1..4, NEW o, o.k \in Kinds, Shaped(o.v), Pass(i, o)
  PROVE  active' \in 0..5 /\ msg'.k \in {"call", "end", "err", "item"} /\ Shaped(msg'.v)
  BY DEF Pass, Kinds

LEMMA DInvStep == DInv /\ [Next]_vars => DInv'
  <1> SUFFICES ASSUME DInv, [Next]_vars PROVE DInv'
    OBVIOUS
  <1> USE DEF DInv, TypeOK, PlanOrdered, StreamsShaped
  <1>0. msg.k \in Kinds
    BY DEF Kinds
  <1>1. CASE Request
    <2>0. PICK s \in Sizes : \E in \in RangeInputs(s) :
              /\ size' = s
              /\ win' = ResolveRange(in, s)
              /\ plan' = Plan(ResolveRange(in, s), s)
      BY <1>1 DEF Request
    <2>1. PICK in \in RangeInputs(s) :
              /\ size' = s
              /\ win' = ResolveRange(in, s)
              /\ plan' = Plan(ResolveRange(in, s), s)
      BY <2>0
    <2>2. s \in Nat \ {0}
      BY DownloadAssumption
    <2>3. LET r == ResolveRange(in, s)
          IN  r.lo \in Nat /\ r.hi \in Nat /\ r.lo < r.hi /\ r.hi <= s
      BY <2>2, ResolveRangeWithin
    <2>4. /\ plan' \in [chunks : Interval, enc : Interval, content : Interval]
          /\ plan'.enc.lo <= plan'.enc.hi
          /\ plan'.content.lo <= plan'.content.hi
      BY <2>1, <2>2, <2>3, PlanWellFormed
    <2>5. win' \in Interval
      BY <2>1, <2>3 DEF ResolveRange, Interval
    <2>6. QED
      BY <1>1, <2>1, <2>2, <2>4, <2>5 DEF Request
  <1>2. CASE Fetch
    <2> DEFINE er == plan.enc
               E == EncryptedSize(size)
    <2>1. CASE \E a \in Answers(er, E), t \in 0..E :
                 /\ a.lo <= er.lo /\ er.hi <= a.hi
                 /\ t = 0 \/ t \in a.from + 1..a.to
                 /\ LET bytes == SubSeq(Ciphertext(size), a.from + 1, a.to)
                    IN  body' = IF t = 0 THEN bytes ELSE [bytes EXCEPT ![t - a.from] = <<"x">>]
                 /\ tamper' = (t - a.from \in er.lo - a.lo + 1..er.hi - a.lo)
                 /\ slice1' = [offset |-> er.lo - a.lo, limit |-> er.hi - er.lo]
                 /\ chunker' = [buf |-> <<>>, remaining |-> er.hi - er.lo, chunkSize |-> EncChunkSize]
                 /\ chunkId' = plan.chunks.lo
                 /\ slice2' = [offset |-> plan.content.lo,
                               limit |-> plan.content.hi - plan.content.lo]
                 /\ status' = "stream"
                 /\ active' = 4
                 /\ msg' = Call
                 /\ UNCHANGED fault
      <3>1. PICK a \in Answers(er, E), t \in 0..E :
                 /\ a.lo <= er.lo /\ er.hi <= a.hi
                 /\ LET bytes == SubSeq(Ciphertext(size), a.from + 1, a.to)
                    IN  body' = IF t = 0 THEN bytes ELSE [bytes EXCEPT ![t - a.from] = <<"x">>]
                 /\ tamper' = (t - a.from \in er.lo - a.lo + 1..er.hi - a.lo)
                 /\ slice1' = [offset |-> er.lo - a.lo, limit |-> er.hi - er.lo]
                 /\ chunker' = [buf |-> <<>>, remaining |-> er.hi - er.lo, chunkSize |-> EncChunkSize]
                 /\ chunkId' = plan.chunks.lo
                 /\ slice2' = [offset |-> plan.content.lo,
                               limit |-> plan.content.hi - plan.content.lo]
                 /\ status' = "stream"
                 /\ active' = 4
                 /\ msg' = Call
                 /\ UNCHANGED fault
        BY <2>1
      <3>2. E \in Nat
        BY CodecAssumption DEF EncryptedSize
      <3>9. /\ er \in Interval /\ er.lo <= er.hi
            /\ plan.content \in Interval /\ plan.content.lo <= plan.content.hi
            /\ plan.chunks \in Interval
        BY DEF er
      <3>12. a.lo \in Nat /\ a.from \in Nat /\ a.to \in Nat
        <4>1. er.lo \in Nat
          BY <3>9 DEF Interval
        <4>2. QED
          BY <3>1, <3>2, <4>1 DEF Answers
      <3>3. Shaped(body')
        <4>1. Shaped(SubSeq(Ciphertext(size), a.from + 1, a.to))
          BY <3>12, SubSeqShaped
        <4>2. QED
          BY <3>1, <4>1, ExceptShaped
      <3>10. /\ er.lo - a.lo \in Nat /\ er.hi - er.lo \in Nat
             /\ plan.content.hi - plan.content.lo \in Nat
        <4>1. a.lo \in Nat /\ a.lo <= er.lo
          BY <3>1, <3>12
        <4>2. er.lo \in Nat /\ er.hi \in Nat /\ plan.content.lo \in Nat /\ plan.content.hi \in Nat
          BY <3>9 DEF Interval
        <4>3. er.lo - a.lo \in Nat
          BY <4>1, <4>2
        <4>4. er.hi - er.lo \in Nat
          BY <4>2, <3>9
        <4>5. plan.content.hi - plan.content.lo \in Nat
          BY <4>2, <3>9
        <4>6. QED
          BY <4>3, <4>4, <4>5
      <3>4. slice1' \in SliceState /\ slice2' \in SliceState
        BY <3>1, <3>9, <3>10 DEF SliceState, Interval
      <3>5. /\ DOMAIN chunker' = {"buf", "remaining", "chunkSize"}
            /\ Shaped(chunker'.buf)
            /\ chunker'.remaining \in Nat /\ chunker'.chunkSize \in Nat
        BY <3>1, <3>10, EmptyShaped, CodecAssumption DEF EncChunkSize
      <3>6. chunkId' \in Nat /\ msg'.k = "call" /\ Shaped(msg'.v)
        BY <3>1, <3>9, EmptyShaped DEF Interval, Call
      <3>7. tamper' \in BOOLEAN
        BY <3>1
      <3>11. UNCHANGED <<size, win, plan, out>>
        BY <1>2 DEF Fetch
      <3>8. QED
        BY <3>1, <3>3, <3>4, <3>5, <3>6, <3>7, <3>11
    <2>2. CASE status' = "rejected"
               /\ UNCHANGED <<body, tamper, fault, slice1, chunker, chunkId, slice2, active, msg>>
      BY <1>2, <2>2 DEF Fetch
    <2>3. CASE status' = "err" /\ fault' = TRUE
               /\ UNCHANGED <<body, tamper, slice1, chunker, chunkId, slice2, active, msg>>
      BY <1>2, <2>3 DEF Fetch
    <2>4. QED
      BY <1>2, <2>1, <2>2, <2>3 DEF Fetch, er, E
  <1>3. CASE Network
    <2>1. Len(body) \in Nat
      BY LenShaped
    <2>2. CASE body = <<>> /\ Pass(0, End) /\ UNCHANGED <<body, fault>>
      BY <1>3, <2>2, EmptyShaped DEF Network, Pass, End, Call
    <2>3. CASE \E n \in 1..MaxNet :
                 /\ n <= Len(body)
                 /\ Pass(0, Item(SubSeq(body, 1, n)))
                 /\ body' = SubSeq(body, n + 1, Len(body))
                 /\ UNCHANGED fault
      <3>1. PICK n \in 1..MaxNet :
                 /\ Pass(0, Item(SubSeq(body, 1, n)))
                 /\ body' = SubSeq(body, n + 1, Len(body))
                 /\ UNCHANGED fault
        BY <2>3
      <3>2. Shaped(SubSeq(body, 1, n)) /\ Shaped(SubSeq(body, n + 1, Len(body)))
        BY <2>1, SubSeqShaped, DownloadAssumption
      <3>3. QED
        BY <1>3, <3>1, <3>2 DEF Network, Pass, Item, Call
    <2>4. CASE body # <<>> /\ Pass(0, Err) /\ fault' = TRUE /\ UNCHANGED body
      BY <1>3, <2>4, EmptyShaped DEF Network, Pass, Err, Call
    <2>5. QED
      BY <1>3, <2>2, <2>3, <2>4 DEF Network
  <1>4. CASE SliceResponse
    <2>1. /\ SlicePoll(slice1, msg).st \in SliceState
          /\ SlicePoll(slice1, msg).out.k \in Kinds
          /\ Shaped(SlicePoll(slice1, msg).out.v)
      BY <1>0, SlicePollTyped
    <2>2. active' \in 0..5 /\ msg'.k \in {"call", "end", "err", "item"} /\ Shaped(msg'.v)
      BY <1>4, <2>1, PassTyped DEF SliceResponse
    <2>3. QED
      BY <1>4, <2>1, <2>2 DEF SliceResponse
  <1>5. CASE Chunk
    <2>1. LET r == ChunkPoll(chunker, msg).st
          IN  /\ DOMAIN r = {"buf", "remaining", "chunkSize"}
              /\ Shaped(r.buf) /\ r.remaining \in Nat /\ r.chunkSize \in Nat
              /\ ChunkPoll(chunker, msg).out.k \in Kinds
              /\ Shaped(ChunkPoll(chunker, msg).out.v)
      BY <1>0, ChunkPollTyped
    <2>2. active' \in 0..5 /\ msg'.k \in {"call", "end", "err", "item"} /\ Shaped(msg'.v)
      BY <1>5, <2>1, PassTyped DEF Chunk
    <2>3. QED
      BY <1>5, <2>1, <2>2 DEF Chunk
  <1>6. CASE Decrypt
    <2>1. /\ DecryptPoll(chunkId, msg).st \in Nat
          /\ DecryptPoll(chunkId, msg).out.k \in Kinds
          /\ Shaped(DecryptPoll(chunkId, msg).out.v)
      BY <1>0, DecryptPollTyped
    <2>2. active' \in 0..5 /\ msg'.k \in {"call", "end", "err", "item"} /\ Shaped(msg'.v)
      BY <1>6, <2>1, PassTyped DEF Decrypt
    <2>3. QED
      BY <1>6, <2>1, <2>2 DEF Decrypt
  <1>7. CASE SliceContent
    <2>1. /\ SlicePoll(slice2, msg).st \in SliceState
          /\ SlicePoll(slice2, msg).out.k \in Kinds
          /\ Shaped(SlicePoll(slice2, msg).out.v)
      BY <1>0, SlicePollTyped
    <2>2. active' \in 0..5 /\ msg'.k \in {"call", "end", "err", "item"} /\ Shaped(msg'.v)
      BY <1>7, <2>1, PassTyped DEF SliceContent
    <2>3. QED
      BY <1>7, <2>1, <2>2 DEF SliceContent
  <1>8. CASE Consume
    <2>1. Shaped(out \o msg.v)
      BY ConcatShaped
    <2>2. Shaped(<<>>)
      BY EmptyShaped
    <2>3. UNCHANGED <<size, win, plan, body, tamper, fault, slice1, chunker, chunkId, slice2>>
      BY <1>8 DEF Consume
    <2>4. CASE msg.k = "item" /\ out' = out \o msg.v /\ active' = 4 /\ msg' = Call
               /\ UNCHANGED status
      <3>1. Len(out') \in Nat /\ Shaped(out') /\ msg'.k = "call" /\ Shaped(msg'.v)
        BY <2>1, <2>2, <2>4, LenShaped DEF Call
      <3>2. QED
        BY <2>3, <2>4, <3>1
    <2>5. CASE msg.k = "item" /\ out' = out \o msg.v /\ status' = "ok"
               /\ UNCHANGED <<active, msg>>
      <3>1. Len(out') \in Nat /\ Shaped(out')
        BY <2>1, <2>5, LenShaped
      <3>2. QED
        BY <2>3, <2>5, <3>1
    <2>6. CASE msg.k \in {"end", "err"} /\ status' = "err"
               /\ UNCHANGED <<out, active, msg>>
      BY <2>3, <2>6
    <2>7. QED
      BY <1>8, <2>4, <2>5, <2>6 DEF Consume
  <1>9. CASE Done
    <2>1. EncChunkSize \in Nat
      BY CodecAssumption DEF EncChunkSize
    <2>2. /\ plan' \in [chunks : Interval, enc : Interval, content : Interval]
          /\ slice1' \in SliceState /\ slice2' \in SliceState /\ win' \in Interval
      BY <1>9 DEF Done, NoPlan, Interval, SliceState
    <2>3. Len(out') \in Nat /\ msg'.k \in {"call", "end", "err", "item"}
      BY <1>9 DEF Done, Call
    <2>4. status' \in {"idle", "fetch", "stream", "ok", "err", "rejected"}
      BY <1>9 DEF Done
    <2>5. size' \in Nat /\ active' \in 0..5 /\ chunkId' \in Nat
      BY <1>9 DEF Done
    <2>6. tamper' \in BOOLEAN /\ fault' \in BOOLEAN /\ chunker'.remaining \in Nat
      BY <1>9 DEF Done
    <2>7. PlanOrdered'
      BY <1>9 DEF Done, NoPlan
    <2>8. StreamsShaped'
      BY <1>9, <2>1, EmptyShaped DEF Done, Call
    <2>9. QED
      BY <2>2, <2>3, <2>4, <2>5, <2>6, <2>7, <2>8
  <1>10. CASE UNCHANGED vars
    BY <1>10 DEF vars
  <1>11. QED
    BY <1>1, <1>2, <1>3, <1>4, <1>5, <1>6, <1>7, <1>8, <1>9, <1>10 DEF Next

(* The read path of Store::get is type-correct for every file size, every *)
(* CHUNK_SIZE and TAG_SIZE, every Range header and every way the provider  *)
(* splits, cuts short or alters the body: the planner's intervals are      *)
(* never reversed and no u64 subtraction in slice_stream or chunk_stream   *)
(* (`range.end - range.start`, `offset -= size`, `limit -= take`,          *)
(* `remaining - read`) goes below zero.                                    *)
THEOREM DownloadTypeCorrect == Spec => []TypeOK
  <1>1. Spec => []DInv
    BY IdleDInv, DInvStep, PTL DEF Spec, Init
  <1>2. QED
    BY <1>1, PTL DEF DInv

=============================================================================

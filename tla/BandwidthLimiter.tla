-------------------------- MODULE BandwidthLimiter --------------------------
(***************************************************************************)
(* The upload bandwidth limiter of src/stream.rs (BandwidthLimiter,        *)
(* throttle, throttle_stream), shared by every concurrent upload of a      *)
(* Drive (drive.rs: one Arc<BandwidthLimiter> with unit 1 MiB).            *)
(*                                                                         *)
(* Each task runs one throttle_stream: it pulls the next buffer of its     *)
(* body, folds the buffer's length into the process-wide sub-unit          *)
(* residual `leftover` with a compare-and-swap loop, and awaits the whole  *)
(* units it completed from the governor bucket before yielding the buffer. *)
(* The load, each compare_exchange_weak and the await are separate steps,  *)
(* so the tasks interleave between them (the runtime is multi-threaded).   *)
(*                                                                         *)
(* The bucket is abstracted to a count of available cells, at most Burst, *)
(* refilled one cell at a time by the passage of time (Refill).            *)
(* governor's until_n_ready(n) returns Err(InsufficientCapacity) at once   *)
(* when n exceeds the burst and otherwise waits until n cells are there.   *)
(***************************************************************************)
EXTENDS Naturals, FiniteSets, FiniteSetsExt

CONSTANTS
    Tasks,      \* the concurrent upload streams
    Unit,       \* BandwidthLimiter.unit (1 MiB in drive.rs)
    Burst,      \* the burst of the upload RateLimit ("burst/period")
    Sizes,      \* the lengths a body buffer can have
    MaxItems,   \* bound: buffers one stream yields
    MaxRefill   \* bound: cells time gives back to the bucket

ASSUME LimiterAssumption ==
    /\ Unit \in Nat \ {0}
    /\ Burst \in Nat \ {0}
    /\ Sizes \subseteq Nat
    /\ MaxItems \in Nat
    /\ MaxRefill \in Nat

VARIABLES
    leftover,   \* BandwidthLimiter.leftover, the AtomicU64 residual
    tokens,     \* cells available in the governor bucket
    pc,         \* per task: "next", "cas", "wait" or "done"
    old,        \* throttle's local `old`: the residual it last read
    len,        \* throttle's `length`: the length of the buffer in hand
    consume,    \* the cells the committed CAS charged to this buffer
    items,      \* buffers the task's body has still to yield
    (* History, read only by the properties. *)
    accounted,  \* bytes folded into the residual by a successful CAS
    charged,    \* cells taken from the bucket
    rejected,   \* cells whose until_n_ready returned an ignored error
    cancelled,  \* cells owed by a wait whose stream was dropped
    passed,     \* bytes yielded downstream to the HTTP body
    refilled    \* cells time gave back

vars == <<leftover, tokens, pc, old, len, consume, items,
          accounted, charged, rejected, cancelled, passed, refilled>>

TypeOK ==
    /\ leftover \in 0..(Unit - 1)
    /\ tokens \in 0..Burst
    /\ pc \in [Tasks -> {"next", "cas", "wait", "done"}]
    /\ old \in [Tasks -> Nat]
    /\ len \in [Tasks -> Nat]
    /\ consume \in [Tasks -> Nat]
    /\ items \in [Tasks -> 0..MaxItems]
    /\ {accounted, charged, rejected, cancelled, passed, refilled} \subseteq Nat

Init ==
    /\ leftover = 0
    /\ tokens = Burst
    /\ pc = [t \in Tasks |-> "next"]
    /\ old = [t \in Tasks |-> 0]
    /\ len = [t \in Tasks |-> 0]
    /\ consume = [t \in Tasks |-> 0]
    /\ items = [t \in Tasks |-> MaxItems]
    /\ accounted = 0 /\ charged = 0 /\ rejected = 0 /\ cancelled = 0
    /\ passed = 0 /\ refilled = 0

(* The buffer leaves throttle and throttle_stream yields it. *)
Yield(t) ==
    /\ pc' = [pc EXCEPT ![t] = "next"]
    /\ passed' = passed + len[t]

(* throttle_stream: stream.next() yields a buffer of length L and throttle *)
(* starts with `let mut old = self.leftover.load(..)`.                     *)
Fetch(t) ==
    /\ pc[t] = "next"
    /\ items[t] > 0
    /\ \E L \in Sizes :
          /\ len' = [len EXCEPT ![t] = L]
          /\ old' = [old EXCEPT ![t] = leftover]
    /\ pc' = [pc EXCEPT ![t] = "cas"]
    /\ items' = [items EXCEPT ![t] = @ - 1]
    /\ UNCHANGED <<leftover, tokens, consume, accounted, charged, rejected,
                   cancelled, passed, refilled>>

(* The body ends (None) or fails (Some(Err), returned by `buf?`): the     *)
(* unfold stops and no further buffer is throttled.                        *)
EndOfStream(t) ==
    /\ pc[t] = "next"
    /\ pc' = [pc EXCEPT ![t] = "done"]
    /\ UNCHANGED <<leftover, tokens, old, len, consume, items, accounted,
                   charged, rejected, cancelled, passed, refilled>>

(* Mutant: the residual updated by a plain store of the value computed    *)
(* from a stale load, as a load/store pair would do.                       *)
CasCommitStore(t) ==
    /\ pc[t] = "cas"
    /\ leftover' = (old[t] + len[t]) % Unit
    /\ consume' = [consume EXCEPT ![t] = (old[t] + len[t]) \div Unit]
    /\ accounted' = accounted + len[t]
    /\ IF consume'[t] = 0 THEN Yield(t)
                          ELSE pc' = [pc EXCEPT ![t] = "wait"] /\ UNCHANGED passed
    /\ UNCHANGED <<tokens, old, len, items, charged, rejected, cancelled, refilled>>

(* compare_exchange_weak(old, new) succeeds: the residual becomes          *)
(* (old + length) % unit and the loop breaks with                          *)
(* consume = (old + length) / unit; with consume = 0 the NonZeroU32        *)
(* conversion fails and throttle returns without touching the bucket.      *)
CasCommit(t) ==
    /\ pc[t] = "cas"
    /\ leftover = old[t]
    /\ leftover' = (old[t] + len[t]) % Unit
    /\ consume' = [consume EXCEPT ![t] = (old[t] + len[t]) \div Unit]
    /\ accounted' = accounted + len[t]
    /\ IF consume'[t] = 0 THEN Yield(t)
                          ELSE pc' = [pc EXCEPT ![t] = "wait"] /\ UNCHANGED passed
    /\ UNCHANGED <<tokens, old, len, items, charged, rejected, cancelled, refilled>>

(* compare_exchange_weak fails because another task moved the residual:    *)
(* `old = v` and the loop recomputes.  (A spurious failure of the weak     *)
(* exchange reloads the value already held, a stutter.)                    *)
CasRetry(t) ==
    /\ pc[t] = "cas"
    /\ leftover # old[t]
    /\ old' = [old EXCEPT ![t] = leftover]
    /\ UNCHANGED <<leftover, tokens, pc, len, consume, items, accounted,
                   charged, rejected, cancelled, passed, refilled>>

(* until_n_ready(consume) with consume > burst returns                      *)
(* Err(InsufficientCapacity) at once; `let _ =` drops it and the buffer     *)
(* is yielded without any cell taken.                                      *)
Reject(t) ==
    /\ pc[t] = "wait"
    /\ consume[t] > Burst
    /\ Yield(t)
    /\ rejected' = rejected + consume[t]
    /\ UNCHANGED <<leftover, tokens, old, len, consume, items, accounted,
                   charged, cancelled, refilled>>

(* until_n_ready(consume) completes once the bucket holds consume cells.   *)
Acquire(t) ==
    /\ pc[t] = "wait"
    /\ consume[t] <= Burst
    /\ consume[t] <= tokens
    /\ tokens' = tokens - consume[t]
    /\ Yield(t)
    /\ charged' = charged + consume[t]
    /\ UNCHANGED <<leftover, old, len, consume, items, accounted, rejected,
                   cancelled, refilled>>

(* The HTTP body is dropped while throttle awaits the bucket (the request  *)
(* failed or the client went away): the residual keeps the bytes, the      *)
(* cells are never taken and the buffer is never sent.                     *)
Cancel(t) ==
    /\ pc[t] = "wait"
    /\ pc' = [pc EXCEPT ![t] = "done"]
    /\ cancelled' = cancelled + consume[t]
    /\ UNCHANGED <<leftover, tokens, old, len, consume, items, accounted,
                   charged, rejected, passed, refilled>>

(* Time passes and the bucket regains a cell, up to the burst. *)
Refill ==
    /\ tokens < Burst
    /\ refilled < MaxRefill
    /\ tokens' = tokens + 1
    /\ refilled' = refilled + 1
    /\ UNCHANGED <<leftover, pc, old, len, consume, items, accounted, charged,
                   rejected, cancelled, passed>>

Next ==
    \/ \E t \in Tasks : \/ Fetch(t) \/ EndOfStream(t) \/ CasCommit(t) \/ CasRetry(t)
                        \/ Reject(t) \/ Acquire(t) \/ Cancel(t)
    \/ Refill

Spec == Init /\ [][Next]_vars

-----------------------------------------------------------------------------
(* Cells committed by a CAS and not yet taken, rejected or cancelled. *)
Owed == MapThenSumSet(LAMBDA t : IF pc[t] = "wait" THEN consume[t] ELSE 0, Tasks)

(* Spec 4.4: the residual is shared through compare-and-swap "so that       *)
(* concurrent uploads aggregate fractional accounting precisely".  Every    *)
(* byte any task folded in is, at every moment, either a whole unit charged, *)
(* rejected, cancelled or still owed by a waiting task, or part of the      *)
(* residual: no interleaving of the load, the CAS attempts and the awaits   *)
(* of several throttle calls loses or invents a byte.                       *)
Conservation ==
    accounted = Unit * (charged + rejected + cancelled + Owed) + leftover

(* Spec 8.6 (limiter fairness): the bytes sent never exceed what the bucket *)
(* paid for, the Burst cells it starts with and the cells time refilled,    *)
(* beyond the sub-unit slack of the residual and of each waiting task.      *)
BandwidthBound ==
    passed <= Unit * (Burst + refilled) + (Unit - 1) * (Cardinality(Tasks) + 1)

=============================================================================

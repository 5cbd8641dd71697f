---------------------------- MODULE TokenCacheSpec ----------------------------
(***************************************************************************)
(* What Authenticator::access_token promises its callers, without tasks,   *)
(* the Mutex, the POST or its failures: the provider grants tokens, each   *)
(* valid until a real expiry fixed when it is granted; the cache holds at  *)
(* most one token and an expiry it trusts, and it is replaced only when it *)
(* is empty or expired, and only by the newest token granted, trusted for  *)
(* no longer than the provider honours it.  Module TokenCache implements   *)
(* it when the provider grants at least the margin (TokenCacheProofs,      *)
(* CacheRefinement).                                                       *)
(***************************************************************************)
EXTENDS Naturals, Sequences

VARIABLES
    clock,      \* the current instant
    cache,      \* the cached token and the expiry it is trusted to: [tok, exp]
    issued      \* issued[k]: the real expiry of the k-th token granted

cvars == <<clock, cache, issued>>

CInit ==
    /\ clock = 0
    /\ cache = [tok |-> 0, exp |-> 0]
    /\ issued = <<>>

(* Time passes. *)
Elapse ==
    /\ clock' = clock + 1
    /\ UNCHANGED <<cache, issued>>

(* The provider grants a new token, valid until an instant no earlier than *)
(* now.  The new expiry is named through the next state.                  *)
Grant ==
    /\ Len(issued') = Len(issued) + 1
    /\ issued' = Append(issued, issued'[Len(issued')])
    /\ issued'[Len(issued')] \in Nat
    /\ clock <= issued'[Len(issued')]
    /\ UNCHANGED <<clock, cache>>

(* An empty or expired cache takes the newest token, trusted to an expiry  *)
(* within the provider's.                                                  *)
Refresh ==
    /\ cache.tok = 0 \/ cache.exp <= clock
    /\ issued # <<>>
    /\ cache' = [tok |-> Len(issued), exp |-> cache'.exp]
    /\ cache'.exp \in Nat
    /\ cache'.exp <= issued[Len(issued)]
    /\ UNCHANGED <<clock, issued>>

CNext == Elapse \/ Grant \/ Refresh

CSpec == CInit /\ [][CNext]_cvars

=============================================================================

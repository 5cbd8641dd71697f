----------------------------- MODULE TokenCache -----------------------------
(***************************************************************************)
(* The OAuth access-token cache of src/auth.rs (Authenticator), shared by  *)
(* every request task that calls the Drive API.                            *)
(*                                                                         *)
(* access_token() locks the tokio Mutex around Option<(token, expiry)>,    *)
(* hands out the cached token while `expires > Instant::now()`, and        *)
(* otherwise refreshes it under the lock: request() reads `now`, posts to  *)
(* the token endpoint and stores now + max(expires_in - 10, 10).  The      *)
(* identity provider is modelled by the real expiry of every token it      *)
(* issued, fixed when it answers: `issued[k]` is the last instant token k  *)
(* is accepted (exclusive).  Time is the integer `clock`, in the unit of   *)
(* the code's 10-second margin scaled by the constant Margin.              *)
(***************************************************************************)
EXTENDS Naturals, Sequences

CONSTANTS
    Tasks,      \* request tasks calling Authenticator::access_token
    NoTask,     \* no task holds the lock
    Margin,     \* the 10 s early-refresh margin of request()
    ExpiresIn,  \* the expires_in values the provider may answer with
    MaxTime,    \* bound: the last instant of the clock
    MaxTokens   \* bound: tokens the provider issues

ASSUME TokenCacheAssumption ==
    /\ NoTask \notin Tasks
    /\ Margin \in Nat
    /\ ExpiresIn \subseteq Nat
    /\ MaxTime \in Nat
    /\ MaxTokens \in Nat

VARIABLES
    clock,      \* Instant::now()
    cache,      \* *access_token: [tok, exp], tok = 0 standing for None
    holder,     \* the task holding the access_token Mutex, or NoTask
    pc,         \* per task: "idle", "lock", "check", "request", "response"
    now,        \* request()'s `now`, read before the POST
    pending,    \* the token response in flight to a task: [tok, ein]
    issued      \* issued[k]: the real expiry of token k at the provider

vars == <<clock, cache, holder, pc, now, pending, issued>>

NoToken == [tok |-> 0, exp |-> 0]

TypeOK ==
    /\ clock \in Nat
    /\ cache \in [tok : Nat, exp : Nat]
    /\ holder \in Tasks \cup {NoTask}
    /\ pc \in [Tasks -> {"idle", "lock", "check", "request", "response"}]
    /\ now \in [Tasks -> Nat]
    /\ pending \in [Tasks -> [tok : Nat, ein : Nat]]
    /\ issued \in Seq(Nat)

Init ==
    /\ clock = 0
    /\ cache = NoToken
    /\ holder = NoTask
    /\ pc = [t \in Tasks |-> "idle"]
    /\ now = [t \in Tasks |-> 0]
    /\ pending = [t \in Tasks |-> [tok |-> 0, ein |-> 0]]
    /\ issued = <<>>

(* `expires_in.saturating_sub(10).max(10)`: the time the cache trusts a    *)
(* token for.                                                              *)
TrustedFor(e) == LET early == IF e > Margin THEN e - Margin ELSE 0
                 IN IF early > Margin THEN early ELSE Margin

(* request() returns and its locals `now` and the response are dropped. *)
Return(t) ==
    /\ now' = [now EXCEPT ![t] = 0]
    /\ pending' = [pending EXCEPT ![t] = [tok |-> 0, ein |-> 0]]

(* A caller (Drive::create_file, get_file, delete_file, create_drive via   *)
(* header()) calls access_token().                                         *)
Call(t) ==
    /\ pc[t] = "idle"
    /\ pc' = [pc EXCEPT ![t] = "lock"]
    /\ UNCHANGED <<clock, cache, holder, now, pending, issued>>

(* Mutant: the check entered without mutual exclusion. *)
LockUnguarded(t) ==
    /\ pc[t] = "lock"
    /\ holder' = t
    /\ pc' = [pc EXCEPT ![t] = "check"]
    /\ UNCHANGED <<clock, cache, now, pending, issued>>

(* `self.access_token.lock().await` completes. *)
Lock(t) ==
    /\ pc[t] = "lock"
    /\ holder = NoTask
    /\ holder' = t
    /\ pc' = [pc EXCEPT ![t] = "check"]
    /\ UNCHANGED <<clock, cache, now, pending, issued>>

(* The caller's future is dropped while it waits for the lock. *)
LockAbandon(t) ==
    /\ pc[t] = "lock"
    /\ pc' = [pc EXCEPT ![t] = "idle"]
    /\ UNCHANGED <<clock, cache, holder, now, pending, issued>>

(* A cached token with `expires > Instant::now()` is cloned and returned  *)
(* to the caller, which puts it in its `Bearer` header; the guard drops.   *)
CacheHit(t) ==
    /\ pc[t] = "check"
    /\ cache.tok # 0
    /\ clock < cache.exp
    /\ holder' = NoTask
    /\ pc' = [pc EXCEPT ![t] = "idle"]
    /\ UNCHANGED <<clock, cache, now, pending, issued>>

(* None, or `expires <= Instant::now()`: request() starts and reads `now`  *)
(* before posting (no await lies between the check and that read).        *)
CacheMiss(t) ==
    /\ pc[t] = "check"
    /\ cache.tok = 0 \/ cache.exp <= clock
    /\ now' = [now EXCEPT ![t] = clock]
    /\ pc' = [pc EXCEPT ![t] = "request"]
    /\ UNCHANGED <<clock, cache, holder, pending, issued>>

(* The provider handles the refresh_token grant: it issues token k valid   *)
(* for expires_in from the instant it answers.                             *)
Issue(t) ==
    /\ pc[t] = "request"
    /\ Len(issued) < MaxTokens
    /\ \E e \in ExpiresIn :
          /\ issued' = Append(issued, clock + e)
          /\ pending' = [pending EXCEPT ![t] = [tok |-> Len(issued) + 1, ein |-> e]]
    /\ pc' = [pc EXCEPT ![t] = "response"]
    /\ UNCHANGED <<clock, cache, holder, now>>

(* Mutant: the expiry computed from the instant the response arrives.     *)
ReceiveLateNow(t) ==
    /\ pc[t] = "response"
    /\ cache' = [tok |-> pending[t].tok, exp |-> clock + TrustedFor(pending[t].ein)]
    /\ holder' = NoTask
    /\ pc' = [pc EXCEPT ![t] = "idle"]
    /\ Return(t)
    /\ UNCHANGED <<clock, issued>>

(* The response body is read: `*value = Some(..)` stores the token with    *)
(* expiry now + TrustedFor(expires_in), and access_token returns it.       *)
Receive(t) ==
    /\ pc[t] = "response"
    /\ cache' = [tok |-> pending[t].tok, exp |-> now[t] + TrustedFor(pending[t].ein)]
    /\ holder' = NoTask
    /\ pc' = [pc EXCEPT ![t] = "idle"]
    /\ Return(t)
    /\ UNCHANGED <<clock, issued>>

(* The POST fails, the status is not 2xx or the JSON does not parse (`?`), *)
(* or the caller's future is dropped mid-request: the guard drops with     *)
(* the old value left in place.                                            *)
RequestFail(t) ==
    /\ pc[t] \in {"request", "response"}
    /\ holder' = NoTask
    /\ pc' = [pc EXCEPT ![t] = "idle"]
    /\ Return(t)
    /\ UNCHANGED <<clock, cache, issued>>

(* Time passes. *)
Tick ==
    /\ clock < MaxTime
    /\ clock' = clock + 1
    /\ UNCHANGED <<cache, holder, pc, now, pending, issued>>

Next ==
    \/ \E t \in Tasks : \/ Call(t) \/ Lock(t) \/ LockAbandon(t) \/ CacheHit(t)
                        \/ CacheMiss(t) \/ Issue(t) \/ Receive(t) \/ RequestFail(t)
    \/ Tick

Spec == Init /\ [][Next]_vars

-----------------------------------------------------------------------------
(* The cache never trusts a token longer than the provider does: however  *)
(* long the POST and its response took and whichever task refreshed last,  *)
(* the cached expiry is at most the token's real expiry, so a cache hit     *)
(* (`expires > Instant::now()`) never hands out a token the provider has    *)
(* already expired.                                                        *)
CachedExpiryWithinReal ==
    cache.tok # 0 => cache.tok \in 1..Len(issued) /\ cache.exp <= issued[cache.tok]

(* Spec 5, access token cache: "Token refresh is done under the lock, serialising concurrent  *)
(* refresh attempts": a task refreshing the token found it missing or      *)
(* expired at its `now`, and no other task has refreshed it since, so two  *)
(* callers that find the token expired together fetch one new token, not  *)
(* two.                                                                    *)
RefreshSerialised ==
    \A t \in Tasks : pc[t] \in {"request", "response"} =>
        cache.tok = 0 \/ cache.exp <= now[t]

(* TokenCache implements TokenCacheSpec: the clock, the cached token and  *)
(* the provider's expiries are the abstract ones; the tasks, the Mutex,    *)
(* `now` and the response in flight are hidden.                            *)
Abstract == INSTANCE TokenCacheSpec

(* Whatever the interleaving of the callers and however their refreshes    *)
(* fail or are abandoned, access_token() behaves as the abstract cache: it *)
(* is replaced only when empty or expired, only by the token the provider  *)
(* granted last, and trusted no longer than the provider honours it.       *)
TokenCacheRefinesSpec == Abstract!CSpec

=============================================================================

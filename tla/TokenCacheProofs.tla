------------------------- MODULE TokenCacheProofs -------------------------
(***************************************************************************)
(* Proofs about module TokenCache, for every set of tasks, every margin    *)
(* and every bound: concurrent refreshes are serialised (RefreshSerialised) *)
(* and, when the provider grants at least the margin, the cache never      *)
(* trusts a token beyond its real expiry (CachedExpiryWithinReal).         *)
(***************************************************************************)
EXTENDS TokenCache, TLAPS

(***************************************************************************)
(* RefreshSerialised needs the lock: a task between its check and the end  *)
(* of request() holds the Mutex, so no other task can store a token, and   *)
(* its `now` is never ahead of the clock.                                  *)
(***************************************************************************)
Critical == {"check", "request", "response"}

Exclusion == \A t \in Tasks : pc[t] \in Critical => holder = t

NowPast == \A t \in Tasks : pc[t] \in {"request", "response"} => now[t] <= clock

SInv == TypeOK /\ Exclusion /\ NowPast /\ RefreshSerialised

LEMMA SInvInit == Init => SInv
  BY TokenCacheAssumption
  DEF Init, SInv, TypeOK, Exclusion, NowPast, RefreshSerialised, NoToken, Critical

LEMMA SInvStep == SInv /\ [Next]_vars => SInv'
  <1> SUFFICES ASSUME SInv, [Next]_vars PROVE SInv'
    OBVIOUS
  <1> USE TokenCacheAssumption DEF SInv, TypeOK, Exclusion, NowPast, RefreshSerialised, Critical
  <1>1. ASSUME NEW t \in Tasks, Call(t) PROVE SInv'
    BY <1>1 DEF Call
  <1>2. ASSUME NEW t \in Tasks, Lock(t) PROVE SInv'
    BY <1>2 DEF Lock
  <1>3. ASSUME NEW t \in Tasks, LockAbandon(t) PROVE SInv'
    BY <1>3 DEF LockAbandon
  <1>4. ASSUME NEW t \in Tasks, CacheHit(t) PROVE SInv'
    BY <1>4 DEF CacheHit
  <1>5. ASSUME NEW t \in Tasks, CacheMiss(t) PROVE SInv'
    BY <1>5 DEF CacheMiss
  <1>6. ASSUME NEW t \in Tasks, Issue(t) PROVE SInv'
    BY <1>6 DEF Issue
  <1>7. ASSUME NEW t \in Tasks, Receive(t) PROVE SInv'
    BY <1>7 DEF Receive, Return, TrustedFor
  <1>8. ASSUME NEW t \in Tasks, RequestFail(t) PROVE SInv'
    BY <1>8 DEF RequestFail, Return
  <1>9. CASE Tick
    BY <1>9 DEF Tick
  <1>10. CASE UNCHANGED vars
    BY <1>10 DEF vars
  <1>11. QED
    BY <1>1, <1>2, <1>3, <1>4, <1>5, <1>6, <1>7, <1>8, <1>9, <1>10 DEF Next

(* Concurrent callers that find the token missing or expired fetch one new *)
(* token between them, for every number of tasks: the lock taken in        *)
(* access_token() covers the check, the POST and the store.                *)
THEOREM SerialisedRefresh == Spec => []RefreshSerialised
  <1>1. Spec => []SInv
    BY SInvInit, SInvStep, PTL DEF Spec
  <1>2. QED
    BY <1>1, PTL DEF SInv

-----------------------------------------------------------------------------
(***************************************************************************)
(* CachedExpiryWithinReal needs, besides the lock, that a response in      *)
(* flight carries a token whose real expiry is at least the requester's    *)
(* `now` plus expires_in (the provider answered no earlier than `now`),    *)
(* and that the clamp never stretches expires_in: TrustedFor(e) <= e,      *)
(* which holds when the provider grants at least the margin.              *)
(***************************************************************************)
LongTTL == \A e \in ExpiresIn : e >= Margin

PendingWithinReal ==
    \A t \in Tasks : pc[t] = "response" =>
        /\ pending[t].tok \in 1..Len(issued)
        /\ pending[t].ein \in ExpiresIn
        /\ now[t] + pending[t].ein <= issued[pending[t].tok]

CInv == SInv /\ PendingWithinReal /\ CachedExpiryWithinReal

(* `saturating_sub(10).max(10)` never exceeds expires_in once expires_in   *)
(* is at least 10.                                                         *)
LEMMA TrustedWithin ==
  ASSUME NEW e \in Nat, e >= Margin
  PROVE  TrustedFor(e) \in Nat /\ TrustedFor(e) <= e
  BY TokenCacheAssumption DEF TrustedFor

LEMMA CInvInit == Init => CInv
  BY SInvInit DEF Init, CInv, PendingWithinReal, CachedExpiryWithinReal, NoToken

LEMMA CInvStep == ASSUME LongTTL PROVE CInv /\ [Next]_vars => CInv'
  <1> SUFFICES ASSUME CInv, [Next]_vars PROVE CInv'
    OBVIOUS
  <1>0. SInv'
    BY SInvStep DEF CInv
  <1> USE TokenCacheAssumption DEF CInv, SInv, TypeOK, Exclusion, NowPast, Critical
  <1> USE DEF PendingWithinReal, CachedExpiryWithinReal
  <1>1. ASSUME NEW t \in Tasks, Call(t) PROVE (PendingWithinReal /\ CachedExpiryWithinReal)'
    BY <1>1 DEF Call
  <1>2. ASSUME NEW t \in Tasks, Lock(t) PROVE (PendingWithinReal /\ CachedExpiryWithinReal)'
    BY <1>2 DEF Lock
  <1>3. ASSUME NEW t \in Tasks, LockAbandon(t) PROVE (PendingWithinReal /\ CachedExpiryWithinReal)'
    BY <1>3 DEF LockAbandon
  <1>4. ASSUME NEW t \in Tasks, CacheHit(t) PROVE (PendingWithinReal /\ CachedExpiryWithinReal)'
    BY <1>4 DEF CacheHit
  <1>5. ASSUME NEW t \in Tasks, CacheMiss(t) PROVE (PendingWithinReal /\ CachedExpiryWithinReal)'
    BY <1>5 DEF CacheMiss
  <1>6. ASSUME NEW t \in Tasks, Issue(t) PROVE (PendingWithinReal /\ CachedExpiryWithinReal)'
    <2>1. PICK e \in ExpiresIn :
              /\ issued' = Append(issued, clock + e)
              /\ pending' = [pending EXCEPT ![t] = [tok |-> Len(issued) + 1, ein |-> e]]
      BY <1>6 DEF Issue
    <2>2. /\ Len(issued') = Len(issued) + 1
          /\ issued'[Len(issued) + 1] = clock + e
          /\ \A i \in 1..Len(issued) : issued'[i] = issued[i]
      BY <2>1
    <2>3. now[t] <= clock
      BY <1>6 DEF Issue
    <2>4. UNCHANGED <<cache, now>> /\ pc' = [pc EXCEPT ![t] = "response"]
      BY <1>6 DEF Issue
    <2>5. CachedExpiryWithinReal'
      BY <2>2, <2>4
    <2>6. ASSUME NEW u \in Tasks, pc'[u] = "response"
          PROVE  /\ pending'[u].tok \in 1..Len(issued')
                 /\ pending'[u].ein \in ExpiresIn
                 /\ now'[u] + pending'[u].ein <= issued'[pending'[u].tok]
      <3>1. CASE u = t
        BY <3>1, <2>1, <2>2, <2>3, <2>4
      <3>2. CASE u # t
        <4>1. pc[u] = "response" /\ pending'[u] = pending[u]
          BY <3>2, <2>6, <2>1, <2>4
        <4>2. /\ pending[u].tok \in 1..Len(issued)
              /\ pending[u].ein \in ExpiresIn
              /\ now[u] + pending[u].ein <= issued[pending[u].tok]
          BY <4>1
        <4>3. issued'[pending[u].tok] = issued[pending[u].tok]
          BY <4>2, <2>2
        <4>4. QED
          BY <4>1, <4>2, <4>3, <2>2, <2>4
      <3>5. QED
        BY <3>1, <3>2
    <2>7. QED
      BY <2>5, <2>6 DEF PendingWithinReal
  <1>7. ASSUME NEW t \in Tasks, Receive(t) PROVE (PendingWithinReal /\ CachedExpiryWithinReal)'
    <2>1. pending[t].ein \in Nat /\ pending[t].ein >= Margin
      BY <1>7 DEF Receive, LongTTL
    <2>2. TrustedFor(pending[t].ein) \in Nat /\ TrustedFor(pending[t].ein) <= pending[t].ein
      BY <2>1, TrustedWithin
    <2>3. CachedExpiryWithinReal'
      <3>1. /\ pending[t].tok \in 1..Len(issued)
            /\ now[t] + pending[t].ein <= issued[pending[t].tok]
        BY <1>7 DEF Receive
      <3>2. cache' = [tok |-> pending[t].tok, exp |-> now[t] + TrustedFor(pending[t].ein)]
            /\ issued' = issued
        BY <1>7 DEF Receive
      <3>3. QED
        BY <2>1, <2>2, <3>1, <3>2
    <2>4. PendingWithinReal'
      BY <1>7 DEF Receive, Return
    <2>5. QED
      BY <2>3, <2>4
  <1>8. ASSUME NEW t \in Tasks, RequestFail(t) PROVE (PendingWithinReal /\ CachedExpiryWithinReal)'
    BY <1>8 DEF RequestFail, Return
  <1>9. CASE Tick
    BY <1>0, <1>9 DEF Tick
  <1>10. CASE UNCHANGED vars
    BY <1>0, <1>10 DEF vars
  <1>11. QED
    BY <1>0, <1>1, <1>2, <1>3, <1>4, <1>5, <1>6, <1>7, <1>8, <1>9, <1>10 DEF Next

(* When the provider grants at least the margin, access_token() never      *)
(* caches a token for longer than the provider honours it, for every       *)
(* number of tasks and every delay of the POST and of its response: a     *)
(* cache hit always hands out a live token.  Run token_cache_short_ttl     *)
(* shows the hypothesis is needed.                                         *)
THEOREM CacheTrust == ASSUME LongTTL PROVE Spec => []CachedExpiryWithinReal
  <1>1. Spec => []CInv
    BY CInvInit, CInvStep, PTL DEF Spec
  <1>2. QED
    BY <1>1, PTL DEF CInv

-----------------------------------------------------------------------------
(***************************************************************************)
(* Refinement of TokenCacheSpec under the mapping Abstract (module         *)
(* TokenCache).  Issue is Grant, Receive is Refresh, Tick is Elapse, and   *)
(* every other step leaves the clock, the cache and the issued tokens      *)
(* alone.  Refresh stores the newest token: only the lock holder issues,   *)
(* so a response in flight carries the last token granted.                 *)
(***************************************************************************)
PendingNewest == \A t \in Tasks : pc[t] = "response" => pending[t].tok = Len(issued)

RInv == CInv /\ PendingNewest

LEMMA RInvInit == Init => RInv
  BY CInvInit DEF Init, RInv, PendingNewest

LEMMA RInvStep == ASSUME LongTTL PROVE RInv /\ [Next]_vars => RInv'
  <1> SUFFICES ASSUME RInv, [Next]_vars PROVE RInv'
    OBVIOUS
  <1>0. CInv'
    BY CInvStep DEF RInv
  <1> USE TokenCacheAssumption DEF RInv, CInv, SInv, TypeOK, Exclusion, Critical, PendingNewest
  <1>1. ASSUME NEW t \in Tasks, Issue(t) PROVE PendingNewest'
    <2>1. Len(issued') = Len(issued) + 1 /\ pending'[t].tok = Len(issued) + 1
      BY <1>1 DEF Issue
    <2>2. ASSUME NEW u \in Tasks, u # t PROVE pc'[u] # "response"
      <3>1. pc[t] = "request" /\ holder = t
        BY <1>1 DEF Issue
      <3>2. pc[u] # "response"
        BY <3>1, <2>2
      <3>3. pc' = [pc EXCEPT ![t] = "response"]
        BY <1>1 DEF Issue
      <3>4. QED
        BY <3>2, <3>3, <2>2
    <2>3. QED
      BY <2>1, <2>2
  <1>2. ASSUME NEW t \in Tasks,
               Call(t) \/ Lock(t) \/ LockAbandon(t) \/ CacheHit(t) \/ CacheMiss(t)
        PROVE  PendingNewest'
    BY <1>2 DEF Call, Lock, LockAbandon, CacheHit, CacheMiss
  <1>3. ASSUME NEW t \in Tasks, Receive(t) \/ RequestFail(t) PROVE PendingNewest'
    BY <1>3 DEF Receive, RequestFail, Return
  <1>4. CASE Tick
    BY <1>0, <1>4 DEF Tick
  <1>5. CASE UNCHANGED vars
    BY <1>0, <1>5 DEF vars
  <1>6. QED
    BY <1>0, <1>1, <1>2, <1>3, <1>4, <1>5 DEF Next

LEMMA CRefInit == Init => Abstract!CInit
  BY DEF Init, Abstract!CInit, NoToken

LEMMA CRefStep ==
  ASSUME LongTTL PROVE RInv /\ [Next]_vars => [Abstract!CNext]_Abstract!cvars
  <1> SUFFICES ASSUME RInv, [Next]_vars PROVE [Abstract!CNext]_Abstract!cvars
    OBVIOUS
  <1> USE TokenCacheAssumption DEF RInv, CInv, SInv, TypeOK, NowPast, RefreshSerialised,
          PendingWithinReal, PendingNewest
  <1>1. ASSUME NEW t \in Tasks, Issue(t) PROVE Abstract!Grant
    <2>1. PICK e \in ExpiresIn : issued' = Append(issued, clock + e)
      BY <1>1 DEF Issue
    <2>2. /\ Len(issued') = Len(issued) + 1
          /\ issued'[Len(issued')] = clock + e
          /\ clock + e \in Nat /\ clock <= clock + e
      BY <2>1
    <2>3. QED
      BY <1>1, <2>1, <2>2 DEF Issue, Abstract!Grant
  <1>2. ASSUME NEW t \in Tasks, Receive(t) PROVE Abstract!Refresh
    <2> DEFINE e == pending[t].ein
               k == pending[t].tok
    <2>1. pc[t] = "response"
      BY <1>2 DEF Receive
    <2>2. /\ cache.tok = 0 \/ cache.exp <= clock
          /\ k = Len(issued) /\ k \in 1..Len(issued)
          /\ e \in Nat /\ e >= Margin
          /\ now[t] + e <= issued[k]
      BY <2>1 DEF LongTTL
    <2>3. TrustedFor(e) \in Nat /\ TrustedFor(e) <= e
      BY <2>2, TrustedWithin
    <2>4. cache' = [tok |-> k, exp |-> now[t] + TrustedFor(e)] /\ UNCHANGED <<clock, issued>>
      BY <1>2 DEF Receive
    <2>5. /\ issued # <<>>
          /\ cache' = [tok |-> Len(issued), exp |-> cache'.exp]
          /\ cache'.exp \in Nat
          /\ cache'.exp <= issued[Len(issued)]
      BY <2>2, <2>3, <2>4
    <2>6. QED
      BY <2>2, <2>4, <2>5 DEF Abstract!Refresh
  <1>3. CASE Tick
    BY <1>3 DEF Tick, Abstract!CNext, Abstract!Elapse
  <1>4. ASSUME NEW t \in Tasks,
               Call(t) \/ Lock(t) \/ LockAbandon(t) \/ CacheHit(t) \/ CacheMiss(t)
               \/ RequestFail(t)
        PROVE  UNCHANGED Abstract!cvars
    BY <1>4 DEF Call, Lock, LockAbandon, CacheHit, CacheMiss, RequestFail, Abstract!cvars
  <1>5. CASE UNCHANGED vars
    BY <1>5 DEF vars, Abstract!cvars
  <1>6. QED
    BY <1>1, <1>2, <1>3, <1>4, <1>5 DEF Next, Abstract!CNext

(* When the provider grants at least the margin, every behaviour of the    *)
(* tasks calling access_token(), with any interleaving, failed or dropped  *)
(* refresh, is a behaviour of the abstract cache TokenCacheSpec: the cache *)
(* is replaced only when empty or expired, only by the newest token, and   *)
(* trusted no longer than the provider honours it.                         *)
THEOREM CacheRefinement == ASSUME LongTTL PROVE Spec => TokenCacheRefinesSpec
  <1>1. Spec => []RInv
    BY RInvInit, RInvStep, PTL DEF Spec
  <1>2. QED
    BY <1>1, CRefInit, CRefStep, PTL DEF Spec, TokenCacheRefinesSpec, Abstract!CSpec

=============================================================================

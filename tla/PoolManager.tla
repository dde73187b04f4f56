----------------------------- MODULE PoolManager -----------------------------
(***************************************************************************)
(* The hub's registry of conversation pools: creation on demand, TTL sweep  *)
(* of idle pools, LRU eviction at the cap.  Left out: agent.flush_session,  *)
(* which changes nothing here and which the cap skips; and the eviction of  *)
(* the scope's CLI process with its pool, which hub.cli_pool guards: both   *)
(* bootstraps leave that None.                                              *)
(*                                                                         *)
(* Pool objects are numbered in order of creation.  get_or_create_pool is   *)
(* one action: it runs under the lock and never suspends.  The hub's run    *)
(* loop handles one message at a time, so the submit that follows belongs   *)
(* to the same action.                                                      *)
(* Bound: MaxObjects Pool objects.                                          *)
(* A definition A_Word is a deliberate fault in A, used to show that the    *)
(* properties notice it; no specification uses it.                          *)
(***************************************************************************)
EXTENDS Naturals, Sequences, SequencesExt

CONSTANTS
    Scopes,     \* pool ids
    MaxPools,   \* hub._max_pools
    MaxObjects  \* bound: Pool objects created

ASSUME PoolManagerAssumption == MaxPools \in Nat \ {0} /\ MaxObjects \in Nat

VARIABLES
    pools,      \* _pools: the objects, least recently used first
    scopeOf,    \* pool_id of every object created
    busy,       \* objects whose process_loop runs (not is_idle)
    aged,       \* objects in pools whose last_active is older than the TTL
    usedBefore, \* <<o, p>>: o, p in pools and o.last_active < p.last_active
    sweepDue,   \* TTL/10 has passed since _last_eviction_check
    capped,     \* history: objects evicted because the registry was full
    down        \* hub.shutdown has begun

poolVars ==
    <<pools, scopeOf, busy, aged, usedBefore, sweepDue, capped, down>>

Created == 1 .. Len(scopeOf)
LivePools == ToSet(pools)

\* Type invariant.
PoolsTypeOK ==
    /\ pools \in Seq(Created) /\ Cardinality(LivePools) = Len(pools)
    /\ scopeOf \in Seq(Scopes) /\ Len(scopeOf) <= MaxObjects
    /\ busy \subseteq Created /\ capped \subseteq Created
    /\ aged \subseteq LivePools
    /\ usedBefore \subseteq LivePools \X LivePools
    /\ sweepDue \in BOOLEAN /\ down \in BOOLEAN

PoolsInit ==
    /\ pools = <<>> /\ scopeOf = <<>>
    /\ busy = {} /\ aged = {} /\ usedBefore = {} /\ capped = {}
    /\ sweepDue = TRUE /\ down = FALSE

\* kept is the registry without gone: the other pools, in the same order.
IsWithout(kept, gone) ==
    /\ ToSet(kept) = LivePools \ gone
    /\ \A i, j \in 1 .. Len(kept) : i < j =>
          \E a, b \in 1 .. Len(pools) :
             a < b /\ pools[a] = kept[i] /\ pools[b] = kept[j]

\* Fault: the sweep does not look whether the pool is idle.
Stale_Busy == IF sweepDue THEN aged ELSE {}

\* _evict_stale_pools, throttled.
Stale == IF sweepDue THEN aged \ busy ELSE {}

\* _evict_lru_locked: popitem() has already removed the pool when
\* _evict_pool_locked looks for it, so nothing but the removal happens.
EvictLru(kept) == IF Len(kept) >= MaxPools THEN Tail(kept) ELSE kept

\* Fault: a hit leaves the pool where it is.
Hit_InPlace(kept, i) == kept

\* move_to_end
Hit(kept, i) == Append(RemoveAt(kept, i), kept[i])

\* _touch, also called by submit, or the creation of a pool: o is the one used
\* last of those now registered.
Touch(o) ==
    usedBefore' = {u \in usedBefore : /\ u[1] \in LivePools' \ {o}
                                     /\ u[2] \in LivePools' \ {o}}
                  \cup ((LivePools' \ {o}) \X {o})

\* get_or_create_pool, then submit unless the message was a command.
Get(s, submits) ==
    /\ ~down
    /\ \E kept \in BoundedSeq(LivePools, Len(pools)) :
          /\ IsWithout(kept, Stale)
          /\ \/ \E i \in 1 .. Len(kept) :
                   /\ scopeOf[kept[i]] = s
                   /\ pools' = Hit(kept, i)
                   /\ Touch(kept[i])
                   /\ aged' = aged \ (Stale \cup {kept[i]})
                   /\ busy' = IF submits THEN busy \cup {kept[i]} ELSE busy
                   /\ UNCHANGED <<scopeOf, capped>>
             \/ /\ \A o \in ToSet(kept) : scopeOf[o] # s
                /\ Len(scopeOf) < MaxObjects
                /\ LET o == Len(scopeOf) + 1
                       left == EvictLru(kept)
                   IN  /\ scopeOf' = Append(scopeOf, s)
                       /\ pools' = Append(left, o)
                       /\ Touch(o)
                       /\ aged' = aged \cap ToSet(left)
                       /\ capped' = capped \cup (ToSet(kept) \ ToSet(left))
                       /\ busy' = IF submits THEN busy \cup {o} ELSE busy
    /\ sweepDue' = FALSE
    /\ UNCHANGED down

LoopEnds(o) ==
    /\ o \in busy
    /\ busy' = busy \ {o}
    /\ UNCHANGED <<pools, scopeOf, aged, usedBefore, sweepDue, capped, down>>

\* Time passes: a pool's last_active is older than the TTL, as that of every
\* pool used before it.
Age ==
    /\ \E o \in LivePools \ aged :
          /\ \A u \in usedBefore : u[2] = o => u[1] \in aged
          /\ aged' = aged \cup {o}
    /\ UNCHANGED <<pools, scopeOf, busy, usedBefore, sweepDue, capped, down>>

SweepDue ==
    /\ ~sweepDue /\ sweepDue' = TRUE
    /\ UNCHANGED <<pools, scopeOf, busy, aged, usedBefore, capped, down>>

Shutdown ==
    /\ ~down /\ down' = TRUE
    /\ UNCHANGED <<pools, scopeOf, busy, aged, usedBefore, sweepDue, capped>>

\* flush_pool, called by shutdown for one pool after the other.
FlushPool ==
    /\ down /\ pools # <<>>
    /\ pools' = Tail(pools)
    /\ aged' = aged \ {Head(pools)}
    /\ usedBefore' = {u \in usedBefore : Head(pools) \notin {u[1], u[2]}}
    /\ UNCHANGED <<scopeOf, busy, sweepDue, capped, down>>

PoolsNext ==
    \/ \E s \in Scopes, submits \in BOOLEAN : Get(s, submits)
    \/ \E o \in Created : LoopEnds(o)
    \/ Age \/ SweepDue \/ Shutdown \/ FlushPool

PoolsSpec == PoolsInit /\ [][PoolsNext]_poolVars

(***************************************************************************)
(* Properties.                                                              *)
(***************************************************************************)
\* "Sequential per scope": two Pool objects of one scope never run at once,
\* unless the older one was evicted at the cap in the middle of a turn.
OneRunningPoolPerScope ==
    \A o, p \in busy \ capped : scopeOf[o] = scopeOf[p] => o = p

\* "LRU eviction": a pool leaves the registry, be it for its TTL, which is a
\* matter of last_active, or for the cap, which is one of the order of _pools,
\* only if every pool used before it leaves too or is in the middle of a turn.
LeastUsedFirst ==
    [][~down => \A o \in LivePools \ LivePools', p \in LivePools \cap LivePools' :
           <<p, o>> \in usedBefore => p \in busy]_poolVars

\* At most max_pools pools, at most one of each scope, are registered.
RegistryBounded ==
    /\ Len(pools) <= MaxPools
    /\ \A o, p \in LivePools : scopeOf[o] = scopeOf[p] => o = p

=============================================================================

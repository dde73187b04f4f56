--------------------------- MODULE RegistryProofs ---------------------------
(***************************************************************************)
(* Proofs about the two registries of the hub.                              *)
(*                                                                         *)
(* PoolManager: one pool of a scope works at a time, a pool leaves the      *)
(* registry only after those used before it, and the registry stays within  *)
(* its cap.                                                                 *)
(*                                                                         *)
(* ActiveJobs: a registered job owns the index of its pool, for any number  *)
(* of turns and launches and any order of the KV calls, failures and lapses. *)
(***************************************************************************)
EXTENDS PoolManager, ActiveJobs, TLAPS

(***************************************************************************)
(* The registry of pools.                                                   *)
(***************************************************************************)
\* The pool objects that are at work, not counting those the cap threw out.
Current == busy \ capped

PoolTypes ==
  /\ scopeOf \in Seq(Scopes)
  /\ pools \in Seq(Created)
  /\ busy \subseteq Created

OnePerScope ==
  \A i, j \in 1 .. Len(pools) : scopeOf[pools[i]] = scopeOf[pools[j]] => i = j

\* Until the shutdown begins whoever is at work is registered: the sweep spares
\* the busy pools.
Registered == ~down => Current \subseteq LivePools

Alone == \A o, p \in Current : scopeOf[o] = scopeOf[p] => o = p

\* The registry is in the order of last use, and what the TTL made stale is a
\* part of it that begins with the least recently used pool.
UseOrder ==
  /\ \A i, j \in 1 .. Len(pools) : <<pools[i], pools[j]>> \in usedBefore <=> i < j
  /\ \A u \in usedBefore : u[2] \in aged => u[1] \in aged

RegistryInv ==
  /\ PoolTypes /\ OnePerScope /\ Len(pools) <= MaxPools
  /\ Registered /\ Alone /\ UseOrder

LEMMA ConcatFacts ==
  ASSUME NEW S, NEW a \in Seq(S), NEW b \in Seq(S)
  PROVE  /\ a \o b \in Seq(S) /\ Len(a \o b) = Len(a) + Len(b)
         /\ \A k \in 1 .. Len(a) : (a \o b)[k] = a[k]
         /\ \A k \in Len(a) + 1 .. Len(a) + Len(b) : (a \o b)[k] = b[k - Len(a)]
  OBVIOUS

LEMMA RemoveAtFacts ==
  ASSUME NEW S, NEW q \in Seq(S), NEW i \in 1 .. Len(q)
  PROVE  /\ RemoveAt(q, i) \in Seq(S)
         /\ Len(RemoveAt(q, i)) = Len(q) - 1
         /\ \A k \in 1 .. Len(q) - 1 :
              RemoveAt(q, i)[k] = IF k < i THEN q[k] ELSE q[k + 1]
<1> DEFINE a == SubSeq(q, 1, i - 1)
           b == SubSeq(q, i + 1, Len(q))
<1>1. /\ a \in Seq(S) /\ Len(a) = i - 1
      /\ \A k \in 1 .. i - 1 : a[k] = q[k]
  OBVIOUS
<1>2. /\ b \in Seq(S) /\ Len(b) = Len(q) - i
      /\ \A k \in 1 .. Len(q) - i : b[k] = q[k + i]
  OBVIOUS
<1>3. RemoveAt(q, i) = a \o b
  BY DEF RemoveAt
<1>0. Len(q) \in Nat /\ i \in Nat
  OBVIOUS
<1> HIDE DEF a, b
<1>4. /\ a \o b \in Seq(S) /\ Len(a \o b) = Len(q) - 1
      /\ \A k \in 1 .. i - 1 : (a \o b)[k] = a[k]
      /\ \A k \in i .. Len(q) - 1 : (a \o b)[k] = b[k - (i - 1)]
  <2>1. /\ a \o b \in Seq(S) /\ Len(a \o b) = Len(a) + Len(b)
        /\ \A k \in 1 .. Len(a) : (a \o b)[k] = a[k]
        /\ \A k \in Len(a) + 1 .. Len(a) + Len(b) : (a \o b)[k] = b[k - Len(a)]
    BY <1>1, <1>2, ConcatFacts
  <2>2. Len(a) + 1 = i /\ Len(a) + Len(b) = Len(q) - 1
    BY <1>0, <1>1, <1>2
  <2>. QED
    BY <1>1, <2>1, <2>2
<1>5. \A k \in i .. Len(q) - 1 : (a \o b)[k] = q[k + 1]
  <2>. SUFFICES ASSUME NEW k \in i .. Len(q) - 1 PROVE (a \o b)[k] = q[k + 1]
    OBVIOUS
  <2>1. k - (i - 1) \in 1 .. Len(q) - i /\ k - (i - 1) + i = k + 1
    OBVIOUS
  <2>. QED
    BY <1>2, <1>4, <2>1
<1>6. \A k \in 1 .. Len(q) - 1 : k \in 1 .. i - 1 \/ k \in i .. Len(q) - 1
  OBVIOUS
<1>. QED
  BY <1>1, <1>3, <1>4, <1>5, <1>6

LEMMA LiveIs ==
  ASSUME PoolTypes \/ RegistryInv
  PROVE  LivePools = {pools[i] : i \in 1 .. Len(pools)} /\ Len(pools) \in Nat
<1>1. DOMAIN pools = 1 .. Len(pools) /\ Len(pools) \in Nat
  BY DEF RegistryInv, PoolTypes
<1>. QED
  BY <1>1 DEF LivePools, ToSet

LEMMA InitRegistry ==
  ASSUME PoolsInit PROVE RegistryInv
  BY PoolManagerAssumption DEF PoolsInit, RegistryInv, PoolTypes, OnePerScope,
                               Registered, Alone, Current, Created, LivePools,
                               UseOrder

\* Steps that neither create nor remove pools: work ends, time passes.
LEMMA LessKeeps ==
  ASSUME RegistryInv, UNCHANGED <<pools, scopeOf, capped, usedBefore>>,
         busy' \subseteq busy, ~down' => ~down,
         \A u \in usedBefore : u[2] \in aged' => u[1] \in aged'
  PROVE  RegistryInv'
<1>1. Current' \subseteq Current
  BY DEF Current
<1>2. PoolTypes'
  BY DEF RegistryInv, PoolTypes, Created
<1>3. OnePerScope' /\ Len(pools') <= MaxPools
  BY DEF RegistryInv, OnePerScope
<1>4. Registered' /\ Alone'
  BY <1>1 DEF RegistryInv, Registered, Alone, LivePools, ToSet
<1>5. UseOrder'
  BY DEF RegistryInv, UseOrder
<1>. QED
  BY <1>2, <1>3, <1>4, <1>5 DEF RegistryInv

LEMMA FlushKeeps ==
  ASSUME RegistryInv, FlushPool
  PROVE  RegistryInv'
<1>1. /\ down /\ down' = down /\ pools # <<>> /\ pools' = Tail(pools)
      /\ aged' = aged \ {Head(pools)}
      /\ usedBefore' = {u \in usedBefore : Head(pools) \notin {u[1], u[2]}}
      /\ UNCHANGED <<scopeOf, busy, capped>>
  BY DEF FlushPool
<1>2. /\ pools' \in Seq(Created) /\ Len(pools') = Len(pools) - 1
      /\ Len(pools) \in Nat \ {0}
      /\ \A i \in 1 .. Len(pools') : pools'[i] = pools[i + 1]
  BY <1>1 DEF RegistryInv, PoolTypes
<1>3. PoolTypes'
  BY <1>1, <1>2 DEF RegistryInv, PoolTypes, Created
<1>4. OnePerScope'
  <2>1. \A i \in 1 .. Len(pools') : i + 1 \in 1 .. Len(pools)
    BY <1>2
  <2>2. ASSUME NEW i \in 1 .. Len(pools'), NEW j \in 1 .. Len(pools'),
               scopeOf[pools[i + 1]] = scopeOf[pools[j + 1]]
        PROVE  i = j
    <3>1. i + 1 = j + 1
      BY <2>1, <2>2 DEF RegistryInv, OnePerScope
    <3>. QED
      BY <3>1
  <2>. QED
    BY <1>1, <1>2, <2>2 DEF OnePerScope
<1>5. Len(pools') <= MaxPools
  BY <1>2, PoolManagerAssumption DEF RegistryInv
<1>6. UseOrder'
  <2>1. \A i \in 1 .. Len(pools') :
          /\ i + 1 \in 1 .. Len(pools) /\ 1 \in 1 .. Len(pools) /\ i + 1 # 1
          /\ pools'[i] = pools[i + 1]
    BY <1>2
  <2>2. Head(pools) = pools[1]
    BY <1>1 DEF RegistryInv, PoolTypes
  <2>3. \A i \in 1 .. Len(pools') : pools'[i] # Head(pools)
    BY <2>1, <2>2 DEF RegistryInv, OnePerScope
  <2>4. ASSUME NEW i \in 1 .. Len(pools'), NEW j \in 1 .. Len(pools')
        PROVE  <<pools'[i], pools'[j]>> \in usedBefore' <=> i < j
    <3>1. <<pools'[i], pools'[j]>> \in usedBefore'
            <=> <<pools[i + 1], pools[j + 1]>> \in usedBefore
      BY <1>1, <2>1, <2>3
    <3>2. <<pools[i + 1], pools[j + 1]>> \in usedBefore <=> i + 1 < j + 1
      BY <2>1 DEF RegistryInv, UseOrder
    <3>. QED
      BY <3>1, <3>2
  <2>5. \A u \in usedBefore' : u[2] \in aged' => u[1] \in aged'
    BY <1>1 DEF RegistryInv, UseOrder
  <2>. QED
    BY <2>4, <2>5 DEF UseOrder
<1>. QED
  BY <1>1, <1>3, <1>4, <1>5, <1>6 DEF RegistryInv, Registered, Alone, Current

-----------------------------------------------------------------------------
(* get_or_create_pool *)

\* What the sweep leaves in the registry.
LEMMA KeptFacts ==
  ASSUME RegistryInv, ~down,
         NEW kept \in BoundedSeq(LivePools, Len(pools)),
         IsWithout(kept, Stale)
  PROVE  /\ kept \in Seq(Created) /\ Len(kept) <= Len(pools)
         /\ \A i, j \in 1 .. Len(kept) :
           scopeOf[kept[i]] = scopeOf[kept[j]] => i = j
         /\ \A i, j \in 1 .. Len(kept) :
           <<kept[i], kept[j]>> \in usedBefore <=> i < j
         /\ {kept[i] : i \in 1 .. Len(kept)} = LivePools \ Stale
         /\ busy \ capped \subseteq {kept[i] : i \in 1 .. Len(kept)}
<1>1. LivePools = {pools[i] : i \in 1 .. Len(pools)} /\ Len(pools) \in Nat
  BY LiveIs
<1>2. LivePools \subseteq Created
  BY <1>1 DEF RegistryInv, PoolTypes
<1>3. kept \in Seq(LivePools) /\ Len(kept) \in Nat /\ Len(kept) <= Len(pools)
  <2>1. PICK m \in 0 .. Len(pools) : kept \in [1 .. m -> LivePools]
    BY DEF BoundedSeq, SeqOf
  <2>. QED
    BY <1>1, <2>1
<1>4. kept \in Seq(Created)
  BY <1>2, <1>3
<1>5. {kept[i] : i \in 1 .. Len(kept)} = LivePools \ Stale
  BY <1>3 DEF IsWithout, ToSet
<1>6. ASSUME NEW i \in 1 .. Len(kept), NEW j \in 1 .. Len(kept), i < j
      PROVE  /\ scopeOf[kept[i]] # scopeOf[kept[j]]
             /\ <<kept[i], kept[j]>> \in usedBefore
             /\ <<kept[j], kept[i]>> \notin usedBefore
  <2>1. PICK a \in 1 .. Len(pools), b \in 1 .. Len(pools) :
          a < b /\ pools[a] = kept[i] /\ pools[b] = kept[j]
    BY <1>6 DEF IsWithout
  <2>2. ~(b < a) /\ a # b
    BY <2>1
  <2>. QED
    BY <2>1, <2>2 DEF RegistryInv, OnePerScope, UseOrder
<1>7. ASSUME NEW i \in 1 .. Len(kept), NEW j \in 1 .. Len(kept)
      PROVE  /\ scopeOf[kept[i]] = scopeOf[kept[j]] => i = j
             /\ <<kept[i], kept[j]>> \in usedBefore <=> i < j
  <2>1. i = j \/ i < j \/ j < i
    BY <1>3
  <2>2. CASE i = j
    <3>1. PICK a \in 1 .. Len(pools) : pools[a] = kept[i]
      BY <1>1, <1>5
    <3>. QED
      BY <2>2, <3>1 DEF RegistryInv, UseOrder
  <2>3. CASE i < j
    BY <1>6, <2>3
  <2>4. CASE j < i
    BY <1>6, <2>4
  <2>. QED
    BY <2>1, <2>2, <2>3, <2>4
<1>8. busy \ capped \subseteq LivePools \ Stale
  BY DEF RegistryInv, Registered, Current, Stale
<1>. QED
  BY <1>3, <1>4, <1>5, <1>7, <1>8

\* A pool that is used goes to the end of the registry and becomes the one used
\* last.
LEMMA TouchOrders ==
  ASSUME NEW m \in Nat, NEW o, Touch(o),
         LivePools' = {pools'[k] : k \in 1 .. m + 1}, Len(pools') = m + 1,
         pools'[m + 1] = o,
         \A k \in 1 .. m + 1 : pools'[k] = o => k = m + 1,
         \A k, l \in 1 .. m :
           <<pools'[k], pools'[l]>> \in usedBefore <=> k < l
  PROVE  \A i, j \in 1 .. Len(pools') :
           <<pools'[i], pools'[j]>> \in usedBefore' <=> i < j
<1>. SUFFICES ASSUME NEW i \in 1 .. m + 1, NEW j \in 1 .. m + 1
              PROVE  <<pools'[i], pools'[j]>> \in usedBefore' <=> i < j
  OBVIOUS
<1>1. CASE i = m + 1
  BY <1>1 DEF Touch
<1>2. CASE i # m + 1 /\ j = m + 1
  BY <1>2 DEF Touch
<1>3. CASE i # m + 1 /\ j # m + 1
  <2>1. i \in 1 .. m /\ j \in 1 .. m
    BY <1>3
  <2>2. /\ pools'[i] \in LivePools' \ {o}
        /\ pools'[j] \in LivePools' \ {o}
    BY <1>3
  <2>. QED
    BY <2>1, <2>2 DEF Touch
<1>. QED
  BY <1>1, <1>2, <1>3

LEMMA GetKeeps ==
  ASSUME RegistryInv, NEW s \in Scopes,
         NEW submits \in BOOLEAN, Get(s, submits)
  PROVE  RegistryInv'
<1>1. PICK kept \in BoundedSeq(LivePools, Len(pools)) :
        /\ IsWithout(kept, Stale)
        /\ \/ \E i \in 1 .. Len(kept) :
                /\ scopeOf[kept[i]] = s
                /\ pools' = Hit(kept, i) /\ Touch(kept[i])
                /\ aged' = aged \ (Stale \cup {kept[i]})
                /\ busy' \subseteq busy \cup {kept[i]}
                /\ UNCHANGED <<scopeOf, capped>>
           \/ /\ \A o \in ToSet(kept) : scopeOf[o] # s
              /\ scopeOf' = Append(scopeOf, s)
              /\ pools' = Append(EvictLru(kept), Len(scopeOf) + 1)
              /\ Touch(Len(scopeOf) + 1)
              /\ aged' = aged \cap ToSet(EvictLru(kept))
              /\ capped' =
                   capped \cup (ToSet(kept) \ ToSet(EvictLru(kept)))
              /\ busy' \subseteq busy \cup {Len(scopeOf) + 1}
  BY DEF Get
<1>2. ~down /\ down' = down
  BY DEF Get
<1> DEFINE In == {kept[i] : i \in 1 .. Len(kept)}
<1>3. /\ kept \in Seq(Created) /\ Len(kept) <= Len(pools)
      /\ \A i, j \in 1 .. Len(kept) :
           scopeOf[kept[i]] = scopeOf[kept[j]] => i = j
      /\ \A i, j \in 1 .. Len(kept) :
           <<kept[i], kept[j]>> \in usedBefore <=> i < j
      /\ In = LivePools \ Stale
      /\ busy \ capped \subseteq In
  BY <1>1, <1>2, KeptFacts
<1>4. Len(kept) \in Nat /\ Len(pools) \in Nat /\ Len(pools) <= MaxPools
  BY <1>3 DEF RegistryInv, PoolTypes
<1>5. \A i \in 1 .. Len(kept) : kept[i] \in Created
  BY <1>3
\* A registry of distinct scopes that holds whoever is at work is all it takes.
<1>6. ASSUME PoolTypes', OnePerScope', UseOrder', Len(pools') <= MaxPools,
             Current' \subseteq {pools'[i] : i \in 1 .. Len(pools')}
      PROVE  RegistryInv'
  <2>1. Registered'
    BY <1>6 DEF Registered, LivePools, ToSet, PoolTypes
  <2>2. Alone'
    BY <1>6 DEF Alone, OnePerScope
  <2>. QED
    BY <1>2, <1>6, <2>1, <2>2 DEF RegistryInv
<1>7. ASSUME NEW i \in 1 .. Len(kept), scopeOf[kept[i]] = s,
             pools' = Hit(kept, i), Touch(kept[i]),
             aged' = aged \ (Stale \cup {kept[i]}),
             busy' \subseteq busy \cup {kept[i]},
             UNCHANGED <<scopeOf, capped>>
      PROVE  RegistryInv'
  <2> DEFINE r == RemoveAt(kept, i)
             src(k) == IF k < i THEN k ELSE IF k < Len(kept) THEN k + 1 ELSE i
  <2>1. /\ r \in Seq(Created) /\ Len(r) = Len(kept) - 1
        /\ \A k \in 1 .. Len(kept) - 1 :
             r[k] = IF k < i THEN kept[k] ELSE kept[k + 1]
    <3>1. kept \in Seq(Created)
      BY <1>3
    <3>2. \A S : \A q \in Seq(S) : \A k \in 1 .. Len(q) :
            /\ RemoveAt(q, k) \in Seq(S)
            /\ Len(RemoveAt(q, k)) = Len(q) - 1
            /\ \A l \in 1 .. Len(q) - 1 :
                 RemoveAt(q, k)[l] = IF l < k THEN q[l] ELSE q[l + 1]
      BY RemoveAtFacts, Zenon
    <3>. QED
      BY <3>1, <3>2, Zenon
  <2>2. pools' = Append(r, kept[i])
    BY <1>7 DEF Hit
  <2> HIDE DEF r
  <2>3. /\ pools' \in Seq(Created) /\ Len(pools') = Len(kept)
        /\ \A k \in 1 .. Len(kept) - 1 : pools'[k] = r[k]
        /\ pools'[Len(kept)] = kept[i]
    BY <1>4, <1>5, <2>1, <2>2
  <2>4. \A k \in 1 .. Len(kept) :
          src(k) \in 1 .. Len(kept) /\ pools'[k] = kept[src(k)]
    BY <1>4, <2>1, <2>3
  <2>5. \A k, l \in 1 .. Len(kept) : src(k) = src(l) => k = l
    BY <1>4
  <2>6. \A j \in 1 .. Len(kept) : \E k \in 1 .. Len(kept) : src(k) = j
    <3>. SUFFICES ASSUME NEW j \in 1 .. Len(kept)
                  PROVE  \E k \in 1 .. Len(kept) : src(k) = j
      OBVIOUS
    <3>1. CASE j < i
      BY <1>4, <3>1
    <3>2. CASE j = i
      BY <1>4, <3>2
    <3>3. CASE i < j
      <4>1. j - 1 \in 1 .. Len(kept) /\ src(j - 1) = j
        BY <1>4, <3>3
      <4>. QED
        BY <4>1
    <3>. QED
      BY <1>4, <3>1, <3>2, <3>3
  <2> HIDE DEF src
  <2>7. \A o \in In : o \in {pools'[k] : k \in 1 .. Len(pools')}
    <3>. SUFFICES ASSUME NEW j \in 1 .. Len(kept)
                  PROVE  \E k \in 1 .. Len(pools') : pools'[k] = kept[j]
      OBVIOUS
    <3>1. PICK k \in 1 .. Len(kept) : src(k) = j
      BY <2>6
    <3>. QED
      BY <2>3, <2>4, <3>1
  <2>8. OnePerScope'
    <3>. SUFFICES ASSUME NEW k \in 1 .. Len(kept), NEW l \in 1 .. Len(kept),
                         scopeOf[pools'[k]] = scopeOf[pools'[l]]
                  PROVE  k = l
      BY <1>7, <2>3 DEF OnePerScope
    <3>1. scopeOf[kept[src(k)]] = scopeOf[kept[src(l)]]
      BY <2>4
    <3>2. src(k) = src(l)
      BY <1>3, <2>4, <3>1
    <3>. QED
      BY <2>5, <3>2
  <2>9. PoolTypes'
    BY <1>3, <1>5, <1>7, <2>3 DEF RegistryInv, PoolTypes, Created
  <2>10. Current' \subseteq In
    BY <1>3, <1>7 DEF Current
  <2>11. Current' \subseteq {pools'[k] : k \in 1 .. Len(pools')}
    BY <2>7, <2>10
  <2>12. Len(pools') <= MaxPools
    BY <1>3, <1>4, <2>3, PoolManagerAssumption
  <2>13. LivePools' = {pools'[k] : k \in 1 .. Len(kept)}
    BY <2>3 DEF LivePools, ToSet
  <2>14. \A k \in 1 .. Len(kept) : pools'[k] = kept[i] => k = Len(kept)
    BY <1>7, <2>3, <2>8 DEF OnePerScope
  <2>15. \A k, l \in 1 .. Len(kept) - 1 :
           <<pools'[k], pools'[l]>> \in usedBefore <=> k < l
    <3>. SUFFICES ASSUME NEW k \in 1 .. Len(kept) - 1,
                         NEW l \in 1 .. Len(kept) - 1
                  PROVE  <<pools'[k], pools'[l]>> \in usedBefore <=> k < l
      OBVIOUS
    <3>1. k \in 1 .. Len(kept) /\ l \in 1 .. Len(kept)
      BY <1>4
    <3>2. <<kept[src(k)], kept[src(l)]>> \in usedBefore <=> src(k) < src(l)
      BY <1>3, <2>4, <3>1
    <3>3. src(k) < src(l) <=> k < l
      BY <1>4 DEF src
    <3>. QED
      BY <2>4, <3>1, <3>2, <3>3
  <2>16. \A u \in usedBefore' : u[2] \in aged' => u[1] \in aged'
    <3>. SUFFICES ASSUME NEW u \in usedBefore', u[2] \in aged'
                  PROVE  u[1] \in aged'
      OBVIOUS
    <3>1. u[2] # kept[i] /\ u[2] \in aged
      BY <1>7
    <3>2. u \in usedBefore /\ u[1] \in LivePools' \ {kept[i]}
      BY <3>1, <1>7 DEF Touch
    <3>3. u[1] \in aged
      BY <3>1, <3>2 DEF RegistryInv, UseOrder
    <3>4. PICK k \in 1 .. Len(kept) : u[1] = pools'[k]
      BY <2>13, <3>2
    <3>5. u[1] \in In
      BY <2>4, <3>4
    <3>. QED
      BY <1>3, <1>7, <3>2, <3>3, <3>5
  <2>17. UseOrder'
    <3>1. Len(kept) - 1 \in Nat /\ (Len(kept) - 1) + 1 = Len(kept)
      BY <1>4
    <3>2. \A k, l \in 1 .. Len(pools') :
            <<pools'[k], pools'[l]>> \in usedBefore' <=> k < l
      BY <1>7, <2>3, <2>13, <2>14, <2>15, <3>1, TouchOrders
    <3>. QED
      BY <2>16, <3>2 DEF UseOrder
  <2>. QED
    BY <1>6, <2>8, <2>9, <2>11, <2>12, <2>17
<1>8. ASSUME \A o \in ToSet(kept) : scopeOf[o] # s,
             scopeOf' = Append(scopeOf, s),
             pools' = Append(EvictLru(kept), Len(scopeOf) + 1),
             Touch(Len(scopeOf) + 1), aged' = aged \cap ToSet(EvictLru(kept)),
             capped' =
                   capped \cup (ToSet(kept) \ ToSet(EvictLru(kept))),
             busy' \subseteq busy \cup {Len(scopeOf) + 1}
      PROVE  RegistryInv'
  <2> DEFINE left == EvictLru(kept)
             new == Len(scopeOf) + 1
             off == IF Len(kept) >= MaxPools THEN 1 ELSE 0
  <2>1. /\ scopeOf' \in Seq(Scopes)
        /\ Len(scopeOf) \in Nat /\ Len(scopeOf') = new
        /\ scopeOf'[new] = s
        /\ \A o \in Created : scopeOf'[o] = scopeOf[o] /\ o # new
        /\ Created \subseteq Created' /\ new \in Created'
    BY <1>8 DEF RegistryInv, PoolTypes, Created
  <2>2. /\ left \in Seq(Created) /\ Len(left) = Len(kept) - off
        /\ Len(left) \in Nat /\ Len(left) < MaxPools
        /\ \A k \in 1 .. Len(left) : left[k] = kept[k + off]
    BY <1>3, <1>4, PoolManagerAssumption DEF EvictLru
  <2>3. \A k \in 1 .. Len(left) : k + off \in 1 .. Len(kept)
    BY <1>4, <2>2
  <2>4. ToSet(kept) = In /\ ToSet(left) = {left[k] : k \in 1 .. Len(left)}
    BY <1>3, <2>2 DEF ToSet
  <2>5. pools' = Append(left, new)
    BY <1>8
  <2> HIDE DEF left, new, off
  <2>6. /\ pools' \in Seq(Created') /\ Len(pools') = Len(left) + 1
        /\ \A k \in 1 .. Len(left) : pools'[k] = left[k]
        /\ pools'[Len(left) + 1] = new
    <3>1. left \in Seq(Created')
      BY <2>1, <2>2
    <3>. QED
      BY <2>1, <2>5, <3>1
  <2>7. \A k \in 1 .. Len(pools') : k \in 1 .. Len(left) \/ k = Len(left) + 1
    BY <2>2, <2>6
  <2>8. \A k \in 1 .. Len(left) :
          /\ left[k] \in Created /\ left[k] \in In
          /\ scopeOf'[left[k]] = scopeOf[kept[k + off]]
          /\ scopeOf[left[k]] # s
    BY <1>5, <1>8, <2>1, <2>2, <2>3, <2>4
  <2>9. OnePerScope'
    <3>. SUFFICES ASSUME NEW k \in 1 .. Len(pools'), NEW l \in 1 .. Len(pools'),
                         scopeOf'[pools'[k]] = scopeOf'[pools'[l]]
                  PROVE  k = l
      BY DEF OnePerScope
    <3>1. CASE k \in 1 .. Len(left) /\ l \in 1 .. Len(left)
      <4>1. scopeOf[kept[k + off]] = scopeOf[kept[l + off]]
        BY <2>6, <2>8, <3>1
      <4>2. k + off = l + off
        BY <1>3, <2>3, <3>1, <4>1
      <4>. QED
        BY <4>2 DEF off
    <3>2. CASE k = Len(left) + 1 /\ l \in 1 .. Len(left)
      BY <2>1, <2>6, <2>8, <3>2
    <3>3. CASE k \in 1 .. Len(left) /\ l = Len(left) + 1
      BY <2>1, <2>6, <2>8, <3>3
    <3>. QED
      BY <2>7, <3>1, <3>2, <3>3
  <2>10. PoolTypes'
    <3>1. busy' \subseteq Created'
      BY <1>8, <2>1 DEF RegistryInv, PoolTypes, new
    <3>. QED
      BY <1>3, <2>1, <2>6, <3>1 DEF PoolTypes
  <2>11. Current' \subseteq {pools'[k] : k \in 1 .. Len(pools')}
    <3>1. \A o \in In : o \in capped' \/ o \in {left[k] : k \in 1 .. Len(left)}
      BY <1>8, <2>4 DEF left
    <3>2. capped \subseteq capped'
      BY <1>8
    <3>3. Current' \subseteq In \cup {new}
      BY <1>3, <1>8, <3>2 DEF Current, new
    <3>4. /\ \A k \in 1 .. Len(left) : k \in 1 .. Len(pools')
          /\ Len(left) + 1 \in 1 .. Len(pools')
      BY <2>2, <2>6
    <3>5. Current' \cap capped' = {}
      BY DEF Current
    <3>. QED
      BY <2>6, <3>1, <3>3, <3>4, <3>5
  <2>12. Len(pools') <= MaxPools
    BY <2>2, <2>6, PoolManagerAssumption
  <2>13. LivePools' = {pools'[k] : k \in 1 .. Len(left) + 1}
    BY <2>6 DEF LivePools, ToSet
  <2>14. \A k \in 1 .. Len(left) + 1 : pools'[k] = new => k = Len(left) + 1
    BY <2>1, <2>6, <2>7, <2>8
  <2>15. \A k, l \in 1 .. Len(left) :
           <<pools'[k], pools'[l]>> \in usedBefore <=> k < l
    <3>. SUFFICES ASSUME NEW k \in 1 .. Len(left), NEW l \in 1 .. Len(left)
                  PROVE  <<pools'[k], pools'[l]>> \in usedBefore <=> k < l
      OBVIOUS
    <3>1. <<kept[k + off], kept[l + off]>> \in usedBefore <=> k + off < l + off
      BY <1>3, <2>3
    <3>2. k + off < l + off <=> k < l
      BY <2>2 DEF off
    <3>. QED
      BY <2>2, <2>6, <3>1, <3>2
  <2>16. \A u \in usedBefore' : u[2] \in aged' => u[1] \in aged'
    <3>. SUFFICES ASSUME NEW u \in usedBefore', u[2] \in aged'
                  PROVE  u[1] \in aged'
      OBVIOUS
    <3>1. u[2] # new /\ u[2] \in aged
      BY <1>8, <2>1, <2>4, <2>8 DEF left
    <3>2. u \in usedBefore /\ u[1] \in LivePools' \ {new}
      BY <3>1, <1>8 DEF Touch, new
    <3>3. u[1] \in aged
      BY <3>1, <3>2 DEF RegistryInv, UseOrder
    <3>4. u[1] \in ToSet(left)
      BY <2>4, <2>6, <2>7, <2>13, <3>2
    <3>. QED
      BY <1>8, <3>3, <3>4 DEF left
  <2>17. UseOrder'
    <3>1. Touch(new)
      BY <1>8 DEF new
    <3>2. \A k, l \in 1 .. Len(pools') :
            <<pools'[k], pools'[l]>> \in usedBefore' <=> k < l
      BY <2>2, <2>6, <2>13, <2>14, <2>15, <3>1, TouchOrders
    <3>. QED
      BY <2>16, <3>2 DEF UseOrder
  <2>. QED
    BY <1>6, <2>9, <2>10, <2>11, <2>12, <2>17
<1>. QED
  BY <1>1, <1>7, <1>8

\* Beyond what the sweep took and the new pool, get_or_create_pool removes at
\* most the first pool.
LEMMA GetLive ==
  ASSUME NEW kept \in Seq(Created),
         \/ \E i \in 1 .. Len(kept) : pools' = Hit(kept, i)
         \/ pools' = Append(EvictLru(kept), Len(scopeOf) + 1)
  PROVE  /\ \A k \in 1 .. Len(kept) : k # 1 => kept[k] \in LivePools'
         /\ LivePools' \cap Created \subseteq {kept[k] : k \in 1 .. Len(kept)}
<1>0. Len(kept) \in Nat /\ \A k \in 1 .. Len(kept) : kept[k] \in Created
  OBVIOUS
<1>1. ASSUME NEW i \in 1 .. Len(kept), pools' = Hit(kept, i)
      PROVE  LivePools' = {kept[k] : k \in 1 .. Len(kept)}
  <2> DEFINE r == RemoveAt(kept, i)
  <2>1. /\ r \in Seq(Created) /\ Len(r) = Len(kept) - 1
        /\ \A k \in 1 .. Len(kept) - 1 :
             r[k] = IF k < i THEN kept[k] ELSE kept[k + 1]
    <3>1. \A S : \A q \in Seq(S) : \A k \in 1 .. Len(q) :
            /\ RemoveAt(q, k) \in Seq(S)
            /\ Len(RemoveAt(q, k)) = Len(q) - 1
            /\ \A l \in 1 .. Len(q) - 1 :
                 RemoveAt(q, k)[l] = IF l < k THEN q[l] ELSE q[l + 1]
      BY RemoveAtFacts, Zenon
    <3>. QED
      BY <3>1, Zenon
  <2>2. pools' = Append(r, kept[i])
    BY <1>1 DEF Hit
  <2> HIDE DEF r
  <2>3. /\ Len(pools') = Len(kept) /\ DOMAIN pools' = 1 .. Len(kept)
        /\ \A k \in 1 .. Len(kept) - 1 : pools'[k] = r[k]
        /\ pools'[Len(kept)] = kept[i]
    BY <1>0, <2>1, <2>2
  <2>4. \A k \in 1 .. Len(kept) : \E l \in 1 .. Len(kept) : pools'[k] = kept[l]
    <3>. SUFFICES ASSUME NEW k \in 1 .. Len(kept)
                  PROVE  \E l \in 1 .. Len(kept) : pools'[k] = kept[l]
      OBVIOUS
    <3>1. CASE k = Len(kept)
      BY <2>3, <3>1
    <3>2. CASE k # Len(kept)
      <4>1. k \in 1 .. Len(kept) - 1 /\ k + 1 \in 1 .. Len(kept)
        BY <1>0, <3>2
      <4>. QED
        BY <2>1, <2>3, <4>1
    <3>. QED
      BY <3>1, <3>2
  <2>5. \A l \in 1 .. Len(kept) : \E k \in 1 .. Len(kept) : pools'[k] = kept[l]
    <3>. SUFFICES ASSUME NEW l \in 1 .. Len(kept)
                  PROVE  \E k \in 1 .. Len(kept) : pools'[k] = kept[l]
      OBVIOUS
    <3>1. CASE l < i
      <4>1. l \in 1 .. Len(kept) - 1
        BY <1>0, <3>1
      <4>. QED
        BY <2>1, <2>3, <3>1, <4>1
    <3>2. CASE l = i
      <4>1. Len(kept) \in 1 .. Len(kept)
        BY <1>0
      <4>. QED
        BY <2>3, <3>2, <4>1
    <3>3. CASE i < l
      <4>1. /\ l - 1 \in 1 .. Len(kept) - 1 /\ ~(l - 1 < i)
            /\ (l - 1) + 1 = l /\ l - 1 \in 1 .. Len(kept)
        BY <1>0, <3>3
      <4>2. pools'[l - 1] = kept[l]
        BY <2>1, <2>3, <4>1
      <4>. QED
        BY <4>1, <4>2
    <3>. QED
      BY <1>0, <3>1, <3>2, <3>3
  <2>6. LivePools' = {pools'[k] : k \in 1 .. Len(kept)}
    BY <2>3 DEF LivePools, ToSet
  <2>7. ASSUME NEW x \in LivePools' PROVE x \in {kept[k] : k \in 1 .. Len(kept)}
    <3>1. PICK k \in 1 .. Len(kept) : x = pools'[k]
      BY <2>6, <2>7
    <3>. QED
      BY <2>4, <3>1
  <2>8. ASSUME NEW l \in 1 .. Len(kept) PROVE kept[l] \in LivePools'
    <3>1. PICK k \in 1 .. Len(kept) : pools'[k] = kept[l]
      BY <2>5
    <3>. QED
      BY <2>6, <3>1
  <2>. QED
    BY <2>7, <2>8
<1>2. ASSUME pools' = Append(EvictLru(kept), Len(scopeOf) + 1)
      PROVE  /\ \A k \in 1 .. Len(kept) : k # 1 => kept[k] \in LivePools'
             /\ LivePools' \cap Created \subseteq {kept[k] : k \in 1 .. Len(kept)}
  <2> DEFINE left == EvictLru(kept)
             off == IF Len(kept) >= MaxPools THEN 1 ELSE 0
  <2>1. /\ left \in Seq(Created) /\ Len(left) = Len(kept) - off
        /\ \A k \in 1 .. Len(left) : left[k] = kept[k + off]
    BY <1>0, PoolManagerAssumption DEF EvictLru
  <2>2. pools' = Append(left, Len(scopeOf) + 1)
    BY <1>2
  <2>3. off \in {0, 1}
    OBVIOUS
  <2> HIDE DEF left, off
  <2>4. /\ Len(left) \in Nat /\ DOMAIN pools' = 1 .. Len(left) + 1
        /\ \A k \in 1 .. Len(left) : pools'[k] = left[k]
        /\ pools'[Len(left) + 1] = Len(scopeOf) + 1
    BY <2>1, <2>2
  <2>5. LivePools' = {pools'[k] : k \in 1 .. Len(left) + 1}
    BY <2>4 DEF LivePools, ToSet
  <2>6. ASSUME NEW k \in 1 .. Len(kept), k # 1 PROVE kept[k] \in LivePools'
    <3>1. /\ k - off \in 1 .. Len(left) /\ (k - off) + off = k
          /\ k - off \in 1 .. Len(left) + 1
      BY <1>0, <2>1, <2>3, <2>6
    <3>2. pools'[k - off] = kept[k]
      BY <2>1, <2>4, <3>1
    <3>. QED
      BY <2>5, <3>1, <3>2
  <2>7. Len(scopeOf) + 1 \notin Created
    <3>1. Len(scopeOf) \in Nat \/ Len(scopeOf) \notin Nat
      OBVIOUS
    <3>. QED
      BY DEF Created
  <2>8. ASSUME NEW k \in 1 .. Len(left) + 1, pools'[k] \in Created
        PROVE  pools'[k] \in {kept[l] : l \in 1 .. Len(kept)}
    <3>1. k \in 1 .. Len(left)
      BY <2>4, <2>7, <2>8
    <3>2. k + off \in 1 .. Len(kept)
      BY <1>0, <2>1, <2>3, <3>1
    <3>. QED
      BY <2>1, <2>4, <3>1, <3>2
  <2>. QED
    BY <2>5, <2>6, <2>8
<1>. QED
  BY <1>1, <1>2

\* What get_or_create_pool throws out.
LEMMA GetEvicts ==
  ASSUME RegistryInv, NEW s \in Scopes, NEW submits \in BOOLEAN, Get(s, submits),
         NEW o \in LivePools \ LivePools', NEW p \in LivePools \cap LivePools',
         <<p, o>> \in usedBefore
  PROVE  p \in busy
<1>1. PICK kept \in BoundedSeq(LivePools, Len(pools)) :
        /\ IsWithout(kept, Stale)
        /\ \/ \E i \in 1 .. Len(kept) : pools' = Hit(kept, i)
           \/ pools' = Append(EvictLru(kept), Len(scopeOf) + 1)
  BY DEF Get
<1>2. ~down
  BY DEF Get
<1> DEFINE In == {kept[i] : i \in 1 .. Len(kept)}
<1>3. /\ kept \in Seq(Created)
      /\ \A i, j \in 1 .. Len(kept) :
           <<kept[i], kept[j]>> \in usedBefore <=> i < j
      /\ In = LivePools \ Stale
  BY <1>1, <1>2, KeptFacts
<1>4. /\ \A k \in 1 .. Len(kept) : k # 1 => kept[k] \in LivePools'
      /\ LivePools' \cap Created \subseteq In
  BY <1>1, <1>3, GetLive
<1>5. p \in In
  <2>1. p \in Created
    BY LiveIs DEF RegistryInv, PoolTypes
  <2>. QED
    BY <1>4, <2>1
<1>6. CASE o \in Stale
  <2>1. sweepDue /\ o \in aged
    BY <1>6 DEF Stale
  <2>2. <<p, o>>[1] = p /\ <<p, o>>[2] = o
    OBVIOUS
  <2>3. p \in aged
    BY <2>1, <2>2 DEF RegistryInv, UseOrder
  <2>. QED
    BY <1>3, <1>5, <2>1, <2>3 DEF Stale
\* Whoever the cap threw out was the first.
<1>7. CASE o \notin Stale
  <2>1. PICK i \in 1 .. Len(kept) : o = kept[i]
    BY <1>3, <1>7
  <2>2. PICK k \in 1 .. Len(kept) : p = kept[k]
    BY <1>5
  <2>3. i = 1 /\ k < i
    BY <1>3, <1>4, <2>1, <2>2
  <2>. QED
    BY <2>3
<1>. QED
  BY <1>6, <1>7

LEMMA RegistryKeeps ==
  ASSUME RegistryInv, [PoolsNext]_poolVars
  PROVE  RegistryInv'
<1>1. ASSUME NEW o \in Created, LoopEnds(o) PROVE RegistryInv'
  BY <1>1, LessKeeps DEF LoopEnds, RegistryInv, UseOrder
<1>2. CASE Age
  <2>1. PICK o \in LivePools \ aged :
          /\ \A u \in usedBefore : u[2] = o => u[1] \in aged
          /\ aged' = aged \cup {o}
    BY <1>2 DEF Age
  <2>2. \A u \in usedBefore : u[2] \in aged' => u[1] \in aged'
    BY <2>1 DEF RegistryInv, UseOrder
  <2>. QED
    BY <1>2, <2>2, LessKeeps DEF Age
<1>3. CASE SweepDue \/ Shutdown \/ UNCHANGED poolVars
  BY <1>3, LessKeeps DEF SweepDue, Shutdown, poolVars, RegistryInv, UseOrder
<1>. QED
  BY <1>1, <1>2, <1>3, GetKeeps, FlushKeeps DEF PoolsNext

LEMMA RegistryInvHolds ==
  PoolsSpec => []RegistryInv
  BY InitRegistry, RegistryKeeps, PTL DEF PoolsSpec

\* No scope has two pools that work at once, whatever the sweep, the cap and the
\* end of turns do, but for pools the cap threw out in the middle of a turn
\* (_evict_stale_pools spares those that are not idle).
THEOREM OneRunningPool ==
  PoolsSpec => []OneRunningPoolPerScope
<1>1. RegistryInv => OneRunningPoolPerScope
  <2>. SUFFICES ASSUME RegistryInv, NEW o \in busy \ capped,
                       NEW p \in busy \ capped, scopeOf[o] = scopeOf[p]
                PROVE  o = p
    BY DEF OneRunningPoolPerScope
  <2>1. o \in Current /\ p \in Current
    BY DEF Current, RegistryInv, PoolTypes, Created
  <2>. QED
    BY <2>1 DEF RegistryInv, Alone
<1>. QED
  BY <1>1, RegistryInvHolds, PTL

\* A pool is evicted, by the sweep or by the cap, only with every idle pool used
\* before it: the order of _pools (move_to_end) is that of last_active (_touch).
THEOREM LeastUsedGoFirst ==
  PoolsSpec => LeastUsedFirst
<1>. DEFINE Fine ==
       ~down => \A o \in LivePools \ LivePools', p \in LivePools \cap LivePools' :
                  <<p, o>> \in usedBefore => p \in busy
<1>1. RegistryInv /\ [PoolsNext]_poolVars => [Fine]_poolVars
  <2>. SUFFICES ASSUME RegistryInv, PoolsNext, ~down,
                       NEW o \in LivePools \ LivePools',
                       NEW p \in LivePools \cap LivePools', <<p, o>> \in usedBefore
                PROVE  p \in busy
    OBVIOUS
  <2>1. PICK s \in Scopes, submits \in BOOLEAN : Get(s, submits)
    BY DEF PoolsNext, LoopEnds, Age, SweepDue, Shutdown, FlushPool, LivePools, ToSet
  <2>. QED
    BY <2>1, GetEvicts
<1>. QED
  BY <1>1, RegistryInvHolds, PTL DEF LeastUsedFirst, PoolsSpec

\* One eviction makes room, so the registry never exceeds its cap, and a pool id
\* is a key of it at most once (OrderedDict, _evict_lru_locked).
THEOREM RegistryWithinCap ==
  PoolsSpec => []RegistryBounded
<1>1. RegistryInv => RegistryBounded
  <2>. SUFFICES ASSUME RegistryInv, NEW o \in LivePools, NEW p \in LivePools,
                       scopeOf[o] = scopeOf[p]
                PROVE  o = p
    BY DEF RegistryInv, RegistryBounded
  <2>1. LivePools = {pools[i] : i \in 1 .. Len(pools)}
    BY LiveIs
  <2>. QED
    BY <2>1 DEF RegistryInv, OnePerScope
<1>. QED
  BY <1>1, RegistryInvHolds, PTL

(***************************************************************************)
(* The registry of active jobs.                                             *)
(***************************************************************************)
Places == Opening \cup Closing \cup {"idle", "unregistered", "running", "done"}

Typed ==
  /\ keys \subseteq Jobs /\ tracked \subseteq Jobs
  /\ idx \in Jobs \cup {None} /\ now \in Jobs \cup {None}
  /\ at \in [Closers -> Places]
  /\ on \in [Closers -> Jobs \cup {None}]
  /\ \A j \in Jobs : on[j] = j
  /\ at[Listener] \in Closing => on[Listener] \in Jobs
  /\ sweep \subseteq Jobs
  /\ results \subseteq sent /\ sent \subseteq Jobs
  /\ missed \subseteq Jobs /\ disturbed \in BOOLEAN

\* The result of a turn is published after its open, that of a launch after
\* its begin.
Heard ==
  \A j \in sent : at[j] # "idle" /\ (j \in Turns => at[j] \notin Opening)

\* What the listener closes has been opened, unless the launch is missed.
Late ==
  missed = {} /\ at[Listener] \in Closing =>
    at[on[Listener]] \notin Opening \cup {"idle"}

Calm == missed = {} /\ ~disturbed

\* A job that is being opened has put its key, and holds the index once its
\* create succeeded.
Opened ==
  Calm => \A j \in Jobs :
    /\ at[j] \in {"create", "winner", "record"} => j \in keys
    /\ at[j] = "record" => idx = j

IInv == Typed /\ Heard /\ Late /\ Opened /\ IndexOwned

USE ActiveJobsAssumption
    DEF Jobs, Closers, Listener, Opening, Closing, Places, Goto

LEMMA InitInv == ASSUME Init PROVE IInv
BY DEF Init, IInv, Typed, Heard, Late, Opened, IndexOwned, Live

(***************************************************************************)
(* A job moves between two places of its open or its close, and nothing of  *)
(* the bucket or the table changes.                                         *)
(***************************************************************************)
LEMMA Moves ==
  ASSUME IInv, NEW t \in Closers, NEW p \in Places,
         Goto(t, p),
         UNCHANGED <<idx, tracked, on, sweep, now, sent, results, missed,
                     disturbed>>,
         keys' = keys \/ (t \in Jobs /\ keys' = keys \cup {t}),
         at[t] \in Closing => p \in Closing,
         p \in Closing => on[t] \in Jobs,
         at[t] \notin Opening \cup {"idle"} => p \notin Opening \cup {"idle"},
         Calm => (p \in {"create", "winner", "record"} => t \in keys'),
         Calm => (p = "record" => idx = t),
         p # "idle", p = "record" => t \in Jobs,
         t = Listener => at[t] \in Closing
  PROVE  IInv'
<1>1. Typed'
  BY DEF IInv, Typed
<1>2. Heard'
  BY DEF IInv, Typed, Heard
<1>3. Late'
  BY DEF IInv, Typed, Late
<1>4. Opened'
  BY DEF IInv, Typed, Opened, Calm
<1>5. IndexOwned'
  BY DEF IInv, Typed, IndexOwned, Live
<1> QED BY <1>1, <1>2, <1>3, <1>4, <1>5 DEF IInv

LEMMA OpenKeeps == ASSUME IInv, NEW j \in Jobs, Begin(j) \/ OpenStep(j)
                   PROVE  IInv'
<1> USE DEF IInv, Typed
<1>1. CASE Begin(j)
  BY <1>1, Moves DEF Begin
<1>2. CASE PutJob(j)
  BY <1>2, Moves DEF PutJob
<1>3. CASE CreateIndex(j) /\ idx = None
  <2>1. Typed'
    BY <1>3 DEF CreateIndex
  <2>2. Heard' /\ Late'
    BY <1>3 DEF CreateIndex, Heard, Late
  <2>3. Opened'
    BY <1>3 DEF CreateIndex, Opened, Calm
  <2>4. IndexOwned'
    BY <1>3 DEF CreateIndex, IndexOwned, Live
  <2> QED BY <2>1, <2>2, <2>3, <2>4
<1>4. CASE CreateIndex(j) /\ idx # None
  BY <1>4, Moves DEF CreateIndex, Opened
<1>5. CASE ReadWinner(j)
  <2>1. CASE idx = j
    BY <1>5, <2>1, Moves DEF ReadWinner, Opened
  <2>2. CASE idx # j
    BY <1>5, <2>2, Moves DEF ReadWinner
  <2> QED BY <2>1, <2>2
<1>6. CASE Record(j)
  <2>1. Typed'
    BY <1>6 DEF Record
  <2>2. Heard' /\ Late' /\ Opened'
    BY <1>6 DEF Record, Heard, Late, Opened, Calm
  <2>3. IndexOwned'
    BY <1>6 DEF Record, IndexOwned, Live, Opened, Calm
  <2> QED BY <2>1, <2>2, <2>3
<1>7. CASE OpenFails(j)
  <2>1. PICK p \in {"unregistered", "done"} : Goto(j, p)
    BY <1>7 DEF OpenFails
  <2> QED BY <1>7, <2>1, Moves DEF OpenFails
<1> QED BY <1>1, <1>2, <1>3, <1>4, <1>5, <1>6, <1>7 DEF OpenStep

\* A step within a close that changes nothing yet.
LEMMA CloseMoves ==
  ASSUME IInv, NEW t \in Closers, NEW p \in Closing, at[t] \in Closing,
         Goto(t, p),
         UNCHANGED <<keys, idx, tracked, on, sweep, now, sent, results, missed,
                     disturbed>>
  PROVE  IInv'
<1>1. on[t] \in Jobs
  BY DEF IInv, Typed
<1> QED BY <1>1, Moves

LEMMA CloseKeeps == ASSUME IInv, NEW t \in Closers, CloseStep(t)
                    PROVE  IInv'
<1>on. at[t] \in Closing => on[t] \in Jobs
  BY DEF IInv, Typed
<1>1. CASE GetJob(t) \/ GetOwner(t) \/ CloseFails(t)
  <2>1. PICK p \in Closing : Goto(t, p)
    BY <1>1 DEF GetJob, GetOwner, CloseFails
  <2>2. /\ at[t] \in Closing
        /\ UNCHANGED <<keys, idx, tracked, on, sweep, now, sent, results,
                       missed, disturbed>>
    BY <1>1 DEF GetJob, GetOwner, CloseFails
  <2> QED BY <2>1, <2>2, CloseMoves
<1> USE DEF IInv, Typed
\* What this task closes is neither live nor being opened.
<1>closed. at[t] \in Closing =>
             /\ on[t] \notin Live
             /\ missed = {} => at[on[t]] \notin Opening
  BY <1>on DEF Live, Late
<1>2. CASE DeleteIndex(t)
  <2>1. Typed' /\ Heard' /\ Late'
    BY <1>2 DEF DeleteIndex, Heard, Late
  <2>2. Opened'
    BY <1>2, <1>closed, <1>on DEF DeleteIndex, Opened, Calm
  <2>3. IndexOwned'
    BY <1>2, <1>closed, <1>on DEF DeleteIndex, IndexOwned, Live
  <2> QED BY <2>1, <2>2, <2>3
<1>3. CASE DeleteJob(t)
  <2>1. Typed' /\ Heard' /\ Late'
    BY <1>3 DEF DeleteJob, Heard, Late
  <2>2. Opened'
    BY <1>3, <1>closed, <1>on DEF DeleteJob, Opened, Calm
  <2>3. IndexOwned'
    BY <1>3, <1>closed, <1>on DEF DeleteJob, IndexOwned, Live
  <2> QED BY <2>1, <2>2, <2>3
<1>4. CASE Forget(t)
  <2>1. Typed'
    BY <1>4 DEF Forget
  <2>2. Heard' /\ Late' /\ Opened'
    BY <1>4 DEF Forget, Heard, Late, Opened, Calm
  <2>3. Live' \subseteq Live
    BY <1>4, <1>on DEF Forget, Live
  <2>4. IndexOwned'
    BY <1>4, <2>3 DEF Forget, IndexOwned
  <2> QED BY <2>1, <2>2, <2>4
<1> QED BY <1>1, <1>2, <1>3, <1>4 DEF CloseStep

LEMMA ResultsKeep ==
  ASSUME IInv, NEW j \in Jobs,
         \/ TurnEnds(j) \/ RunEnds(j) \/ PublishResult(j) \/ Handle(j)
         \/ LoseResult(j) \/ CancelJob(j)
  PROVE  IInv'
<1> USE DEF IInv, Typed
<1>1. CASE TurnEnds(j)
  BY <1>1, Moves DEF TurnEnds
<1>2. CASE RunEnds(j)
  BY <1>2, Moves DEF RunEnds
<1>3. CASE CancelJob(j)
  BY <1>3, Moves DEF CancelJob
<1>4. CASE PublishResult(j)
  BY <1>4 DEF PublishResult, Heard, Late, Opened, Calm, IndexOwned, Live
<1>5. CASE LoseResult(j)
  BY <1>5 DEF LoseResult, Heard, Late, Opened, Calm, IndexOwned, Live
<1>6. CASE Handle(j)
  <2>1. Typed' /\ Heard'
    BY <1>6 DEF Handle, Heard
  <2>2. Late'
    BY <1>6 DEF Handle, Heard, Late
  <2>3. Opened'
    BY <1>6 DEF Handle, Opened, Calm
  <2>4. Live' \subseteq Live /\ (missed' = {} => missed = {})
    BY <1>6 DEF Handle, Live
  <2>5. IndexOwned'
    BY <1>6, <2>4 DEF Handle, IndexOwned
  <2> QED BY <2>1, <2>2, <2>3, <2>5
<1> QED BY <1>1, <1>2, <1>3, <1>4, <1>5, <1>6

LEMMA RefreshKeeps == ASSUME IInv, Refresh PROVE IInv'
<1> USE DEF IInv, Typed
<1>1. CASE StartSweep \/ RefreshFails \/ \E j \in Jobs : RefreshGet(j)
  BY <1>1 DEF StartSweep, RefreshFails, RefreshGet, Heard, Late, Opened, Calm,
              IndexOwned, Live
<1>2. CASE RefreshJob
  BY <1>2 DEF RefreshJob, Heard, Late, Opened, Calm, IndexOwned, Live
\* A refresh that leaves the registry calm puts the index where it was, or
\* where nobody holds it.
<1>3. CASE RefreshIndex
  <2>1. Typed' /\ Heard' /\ Late'
    BY <1>3 DEF RefreshIndex, Heard, Late
  <2>2. Opened'
    <3>1. Calm' => Calm /\ idx \in {now, None}
      BY <1>3 DEF RefreshIndex, Calm
    <3>2. UNCHANGED <<at, keys>> /\ idx' = now
      BY <1>3 DEF RefreshIndex
    <3>3. \A j \in Jobs : j # None
      OBVIOUS
    <3> QED BY <3>1, <3>2, <3>3 DEF Opened
  <2>3. IndexOwned'
    <3>1. Live' = Live /\ keys' = keys
      BY <1>3 DEF RefreshIndex, Live
    <3>2. ASSUME NEW j \in Live, missed' = {}, ~disturbed'
          PROVE  idx' = j /\ j \in keys
      <4>1. ~disturbed /\ idx \in {now, None} /\ now \in tracked
        BY <1>3, <3>2 DEF RefreshIndex
      <4>2. idx = j /\ j \in keys /\ j # None
        BY <1>3, <3>2, <4>1 DEF RefreshIndex, IndexOwned, Live
      <4> QED BY <1>3, <4>1, <4>2 DEF RefreshIndex
    <3> QED BY <3>1, <3>2 DEF IndexOwned
  <2> QED BY <2>1, <2>2, <2>3
<1> QED BY <1>1, <1>2, <1>3 DEF Refresh

LEMMA LapseKeeps ==
  ASSUME IInv, LapseIndex \/ \E j \in Jobs : LapseJob(j)
  PROVE  IInv'
<1> USE DEF IInv, Typed
<1>1. CASE LapseIndex
  BY <1>1 DEF LapseIndex, Heard, Late, Opened, Calm, IndexOwned, Live
<1>2. ASSUME NEW j \in Jobs, LapseJob(j) PROVE IInv'
  <2>1. Typed' /\ Heard' /\ Late'
    BY <1>2 DEF LapseJob, Heard, Late
  <2>2. Opened'
    BY <1>2 DEF LapseJob, Opened, Calm
  <2>3. IndexOwned'
    <3>1. ASSUME ~disturbed' PROVE ~disturbed /\ j \notin tracked
      BY <1>2, <3>1 DEF LapseJob
    <3>2. Live' = Live /\ idx' = idx /\ missed' = missed /\ keys' = keys \ {j}
      BY <1>2 DEF LapseJob, Live
    <3>3. Live \subseteq tracked
      BY DEF Live
    <3> QED BY <3>1, <3>2, <3>3 DEF IndexOwned
  <2> QED BY <2>1, <2>2, <2>3
<1> QED BY <1>1, <1>2

LEMMA NextKeeps == ASSUME IInv, [Next]_vars PROVE IInv'
<1>1. CASE UNCHANGED vars
  BY <1>1 DEF vars, IInv, Typed, Heard, Late, Opened, Calm, IndexOwned, Live
<1>2. CASE Next
  BY <1>2, OpenKeeps, CloseKeeps, ResultsKeep, RefreshKeeps, LapseKeeps DEF Next
<1> QED BY <1>1, <1>2

\* At most one job of a pool is registered at a time, and the index names it:
\* however opens, closes and refreshes interleave call by call, unless a
\* launch was missed or a late call or a lapse took the key away.
THEOREM OneJobHoldsIndex == Spec => []IndexOwned
<1>1. Init => IInv
  BY InitInv
<1>2. IInv /\ [Next]_vars => IInv'
  BY NextKeeps
<1>3. IInv => IndexOwned
  BY DEF IInv
<1> QED BY <1>1, <1>2, <1>3, PTL DEF Spec

=============================================================================

------------------------- MODULE PolicySources_proofs -------------------------
(* Proofs of the properties of PolicySources. *)
EXTENDS PolicySources, Integers, WellFoundedInduction, TLAPS

-----------------------------------------------------------------------------
(* The source follows the API server *)

\* What the reconcile in progress has read is current, unless its object is queued
\* again.
SourceInv ==
  /\ rev \in 0..MaxRev
  /\ api \in Versions /\ resources \in Versions
  /\ rec # Idle => rec.name \in Names /\ rec.rv \in 0..MaxRev
  /\ rec.step = "got" => rec # Idle /\ (rec.rv = api[rec.name] \/ rec.name \in queue)
  /\ rec.step = "error" => rec # Idle
  /\ KnownOrPending

\* Everything starts empty.
LEMMA InitSourceInv == Init => SourceInv
BY SourcesAssumption DEF Init, SourceInv, KnownOrPending, Idle, Versions, Nothing

\* Writes, deletions and each step of Reconcile keep the source current or the
\* object pending; requests do not touch it.
LEMMA NextSourceInv ==
  ASSUME SourceInv, [Next]_vars
  PROVE  SourceInv'
<1> USE SourcesAssumption DEF SourceInv, KnownOrPending, Versions, Names
<1>1. CASE UNCHANGED apiVars
  BY <1>1 DEF apiVars
<1>2. ASSUME NEW n \in Names, NEW body \in Bodies, Write(n, body) PROVE SourceInv'
  <2>1. rev + 1 \in 0..MaxRev
    BY <1>2 DEF Write
  <2>. QED  BY <1>2, <2>1 DEF Write
<1>3. ASSUME NEW n \in Names, Remove(n) PROVE SourceInv'
  BY <1>3 DEF Remove
<1>4. ASSUME NEW n \in Names, ReconcileGet(n) PROVE SourceInv'
  BY <1>4 DEF ReconcileGet, Idle
<1>5. ASSUME NEW n \in Names, ReconcileGetFails(n) PROVE SourceInv'
  BY <1>5 DEF ReconcileGetFails, Idle
<1>6. CASE ReconcileRequeue
  BY <1>6 DEF ReconcileRequeue, Idle
<1>7. CASE ReconcileStore
  BY <1>7 DEF ReconcileStore, Idle
<1>8. ASSUME NEW r \in Requests, Load(r) PROVE UNCHANGED apiVars
  BY <1>8 DEF Load, LoadInner, LoadCache, LoadExternal, Handle, Finish, apiVars
<1>. QED
  BY <1>1, <1>2, <1>3, <1>4, <1>5, <1>6, <1>7, <1>8 DEF Next, Reconcile, vars, apiVars

\* apiSource.resources agrees with the API server up to what is queued or being
\* reconciled, whatever the number of objects, writes and failures.
THEOREM SourceFollows == Spec => []KnownOrPending
<1>1. SourceInv => KnownOrPending
  BY DEF SourceInv
<1>. QED  BY <1>1, InitSourceInv, NextSourceInv, PTL DEF Spec

-----------------------------------------------------------------------------
(* The cache is exact *)

\* No two objects have the same name and version written together.
KeysDistinct == \A x, y \in Names \X Revs : KeyOf[x] = KeyOf[y] => x = y

\* A version that was written, of an object of the name n.
Version(n, v) == v \in 1..rev /\ objs[v] \in Objects /\ objs[v].name = n

\* f maps names to versions of objects of that name.
Held(f) == f \in Versions /\ \A n \in Names : f[n] # 0 => Version(n, f[n])

\* A buffer holds, under each key, a policy that compiles and has that key.
Sound(buffer) ==
  /\ buffer \in Buffers
  /\ \A k \in Keys : buffer[k] # 0 =>
       /\ \E n \in Names : Version(n, buffer[k])
       /\ Key(buffer[k]) = k
       /\ Compiles(buffer[k])

CacheInv ==
  /\ rev \in 0..MaxRev
  /\ objs \in [Revs -> Objects \cup {NoObject}]
  /\ Held(api) /\ Held(resources)
  /\ rec \in [step : {"got", "error"}, name : Names, rv : 0..MaxRev] \cup {Idle}
  /\ rec.step = "got" /\ rec.rv # 0 => Version(rec.name, rec.rv)
  /\ Sound(readBuffer) /\ writeBuffer = Empty
  /\ step \in [Requests -> {"idle", "cache", "ext", "handle", "done"}]
  /\ data \in [Requests -> Versions] /\ \A r \in Requests : Held(data[r])
  /\ items \in [Requests -> Versions]
  /\ LoadIsExact

\* Distinct keys tell versions apart.
LEMMA KeyTells ==
  ASSUME KeysDistinct, rev \in 0..MaxRev,
         NEW n, NEW m, n \in Names, m \in Names, NEW v, NEW w, Version(n, v), Version(m, w),
         Key(v) = Key(w)
  PROVE  v = w
<1>1. v \in Revs /\ w \in Revs /\ objs[v].name = n /\ objs[w].name = m
  BY SourcesAssumption DEF Version, Revs
<1>2. <<n, v>> \in Names \X Revs /\ <<m, w>> \in Names \X Revs
  BY <1>1
<1>3. KeyOf[<<n, v>>] = KeyOf[<<m, w>>]
  BY <1>1 DEF Key
<1>4. <<n, v>> = <<m, w>>
  BY <1>2, <1>3 DEF KeysDistinct
<1>. QED  BY <1>4

\* The key of a version is a key.
LEMMA KeyType ==
  ASSUME rev \in 0..MaxRev, NEW n \in Names, NEW v, Version(n, v)
  PROVE  Key(v) \in Keys
<1>1. v \in Revs /\ objs[v].name = n
  BY SourcesAssumption DEF Version, Revs
<1>2. <<n, v>> \in Names \X Revs
  BY <1>1
<1>. QED  BY <1>1, <1>2, SourcesAssumption DEF Key

\* A sound buffer gives for a version the policy compiled from it.
LEMMA CachedIsExact ==
  ASSUME KeysDistinct, CacheInv, NEW n \in Names, NEW v, Version(n, v)
  PROVE  Cached(v) = IF Compiles(v) THEN v ELSE 0
<1>1. rev \in 0..MaxRev /\ Sound(readBuffer)
  BY DEF CacheInv
<1>2. Key(v) \in Keys
  BY <1>1, KeyType
<1>3. CASE readBuffer[Key(v)] = 0
  BY <1>3 DEF Cached
<1>4. CASE readBuffer[Key(v)] # 0
  <2>1. PICK m \in Names : Version(m, readBuffer[Key(v)])
    BY <1>1, <1>2, <1>4 DEF Sound
  <2>2. Key(readBuffer[Key(v)]) = Key(v) /\ Compiles(readBuffer[Key(v)])
    BY <1>1, <1>2, <1>4 DEF Sound
  <2>3. readBuffer[Key(v)] = v
    BY <1>1, <2>1, <2>2, KeyTells
  <2>. QED  BY <1>4, <2>2, <2>3 DEF Cached
<1>. QED  BY <1>3, <1>4

\* The buffer that a load writes is sound.
LEMMA WrittenIsSound ==
  ASSUME KeysDistinct, CacheInv, NEW d, Held(d)
  PROVE  Sound(Written(d))
<1>1. rev \in 0..MaxRev /\ writeBuffer = Empty
  BY DEF CacheInv
<1>2. ASSUME NEW k \in Keys
      PROVE  /\ Written(d)[k] \in 0..MaxRev
             /\ Written(d)[k] # 0 =>
                  /\ \E n \in Names : Version(n, Written(d)[k])
                  /\ Key(Written(d)[k]) = k
                  /\ Compiles(Written(d)[k])
  <2>1. CASE Owners(d, k) = {}
    <3>1. Written(d)[k] = 0
      BY <1>1, <2>1 DEF Written, Empty
    <3>. QED  BY <3>1, SourcesAssumption
  <2>2. CASE Owners(d, k) # {}
    <3>1. PICK n \in Owners(d, k) : TRUE
      BY <2>2
    <3>2. n \in Names /\ d[n] # 0 /\ Cached(d[n]) # 0 /\ Key(d[n]) = k /\ Version(n, d[n])
      BY <3>1 DEF Owners, Held
    <3>3. \A m \in Owners(d, k) : m = n
      <4> SUFFICES ASSUME NEW m \in Owners(d, k) PROVE m = n
        OBVIOUS
      <4>1. m \in Names /\ d[m] # 0 /\ Key(d[m]) = k /\ Version(m, d[m])
        BY DEF Owners, Held
      <4>2. d[m] = d[n]
        BY <1>1, <3>2, <4>1, KeyTells
      <4>. QED  BY <3>2, <4>1, <4>2 DEF Version
    <3>4. (CHOOSE o \in Owners(d, k) : \A m \in Owners(d, k) : m <= o) = n
      <4>1. n <= n
        BY <3>2, SourcesAssumption DEF Names
      <4>2. \A m \in Owners(d, k) : m <= n
        BY <3>3, <4>1
      <4>. QED  BY <3>1, <3>3, <4>2
    <3>5. Written(d)[k] = Cached(d[n])
      BY <2>2, <3>4 DEF Written
    <3>6. Cached(d[n]) = d[n] /\ Compiles(d[n])
      BY <3>2, CachedIsExact
    <3>. QED  BY <1>1, <3>2, <3>5, <3>6, SourcesAssumption DEF Version
  <2>. QED  BY <2>1, <2>2
<1>3. Written(d) \in Buffers
  <2>1. Written(d) = [k \in Keys |-> Written(d)[k]]
    BY DEF Written
  <2>. QED  BY <1>2, <2>1 DEF Buffers
<1>. QED  BY <1>2, <1>3 DEF Sound

\* Everything starts empty.
LEMMA InitCacheInv == Init => CacheInv
BY SourcesAssumption
DEF Init, CacheInv, Held, Sound, LoadIsExact, Versions, Buffers, Nothing, Empty, Idle

\* A write keeps what the older versions stand for.
LEMMA WriteKeepsCacheInv ==
  ASSUME CacheInv, NEW n \in Names, NEW body \in Bodies, Write(n, body)
  PROVE  CacheInv'
<1> USE SourcesAssumption
<1>1. /\ rev \in 0..MaxRev /\ rev' = rev + 1 /\ rev' \in 0..MaxRev /\ rev' \in Revs
      /\ objs' = [objs EXCEPT ![rev + 1] = [name |-> n, body |-> body]]
      /\ objs' \in [Revs -> Objects \cup {NoObject}]
  BY DEF CacheInv, Write, Revs, Objects
<1>2. \A v \in 1..rev : v \in 1..rev' /\ objs'[v] = objs[v]
  BY <1>1 DEF CacheInv, Revs
<1>3. rev' \in 1..rev' /\ objs'[rev'] \in Objects /\ objs'[rev'].name = n
  BY <1>1 DEF CacheInv, Objects
<1>4. Held(resources)' /\ \A r \in Requests : Held(data[r])'
  BY <1>2 DEF CacheInv, Write, Held, Version, requestVars
<1>5. Held(api)'
  BY <1>1, <1>2, <1>3 DEF CacheInv, Write, Held, Version, Versions
<1>6. Sound(readBuffer)'
  <2>1. readBuffer' = readBuffer
    BY DEF Write, cacheVars
  <2>2. ASSUME NEW k \in Keys, readBuffer[k] # 0
        PROVE  /\ \E m \in Names : Version(m, readBuffer[k])'
               /\ Key(readBuffer[k])' = k
               /\ Compiles(readBuffer[k])'
    <3>1. PICK m \in Names : Version(m, readBuffer[k])
      BY <2>2 DEF CacheInv, Sound
    <3>2. Key(readBuffer[k]) = k /\ Compiles(readBuffer[k])
      BY <2>2 DEF CacheInv, Sound
    <3>. QED  BY <1>2, <2>1, <3>1, <3>2 DEF Version, Key, Compiles
  <2>. QED  BY <2>1, <2>2 DEF CacheInv, Sound
<1>7. LoadIsExact'
  <2>1. \A r \in Requests, m \in Names :
          data[r][m] # 0 => data[r][m] \in 1..rev
    BY DEF CacheInv, Held, Version
  <2>. QED  BY <1>2, <2>1 DEF CacheInv, LoadIsExact, Write, Compiles, requestVars
<1>8. rec.step = "got" /\ rec.rv # 0 => Version(rec.name, rec.rv)'
  BY <1>2 DEF CacheInv, Version, Write
<1>. QED  BY <1>1, <1>4, <1>5, <1>6, <1>7, <1>8 DEF CacheInv, Write, cacheVars, requestVars

\* A load through the cache gets the policies of what it read, and leaves a sound
\* buffer.
LEMMA LoadCacheKeepsCacheInv ==
  ASSUME KeysDistinct, CacheInv, NEW r \in Requests, LoadCache(r)
  PROVE  CacheInv'
<1>1. Held(data[r])
  BY DEF CacheInv
<1>2. UNCHANGED <<objs, rev, api, resources, rec, data>> /\ readBuffer' = Written(data[r])
  BY DEF LoadCache, apiVars
<1>3. Sound(Written(data[r]))
  BY <1>1, WrittenIsSound
<1>4. Sound(readBuffer)'
  BY <1>2, <1>3 DEF Sound, Version, Key, Compiles
<1>5. ASSUME NEW n \in Names
      PROVE  Items(data[r])[n] =
               IF data[r][n] # 0 /\ Compiles(data[r][n]) THEN data[r][n] ELSE 0
  <2>1. CASE data[r][n] = 0
    BY <2>1 DEF Items
  <2>2. CASE data[r][n] # 0
    <3>1. Version(n, data[r][n])
      BY <1>1, <2>2 DEF Held
    <3>. QED  BY <2>2, <3>1, CachedIsExact DEF Items
  <2>. QED  BY <2>1, <2>2
<1>6. Items(data[r]) \in Versions
  <2>1. \A n \in Names : Items(data[r])[n] \in 0..MaxRev
    BY <1>1, <1>5, SourcesAssumption DEF Held, Versions
  <2>2. Items(data[r]) = [n \in Names |-> Items(data[r])[n]]
    BY DEF Items
  <2>. QED  BY <2>1, <2>2 DEF Versions
<1>7. /\ items' = [items EXCEPT ![r] = Items(data[r])]
      /\ step' = [step EXCEPT ![r] = "ext"] /\ writeBuffer' = Empty
  BY DEF LoadCache, Cleared
<1>8. LoadIsExact'
  BY <1>2, <1>5, <1>7 DEF CacheInv, LoadIsExact, Compiles
<1>9. Held(api)' /\ Held(resources)' /\ \A q \in Requests : Held(data[q])'
  BY <1>2 DEF CacheInv, Held, Version
<1>10. rec.step = "got" /\ rec.rv # 0 => Version(rec.name, rec.rv)'
  BY <1>2 DEF CacheInv, Version
<1>. QED  BY <1>2, <1>4, <1>6, <1>7, <1>8, <1>9, <1>10 DEF CacheInv

\* The other steps write no object and no buffer.
LEMMA OthersKeepCacheInv ==
  ASSUME CacheInv,
         \/ \E n \in Names : Remove(n)
         \/ Reconcile
         \/ \E r \in Requests : LoadInner(r) \/ LoadExternal(r) \/ Handle(r) \/ Finish(r)
         \/ UNCHANGED vars
  PROVE  CacheInv'
<1> USE SourcesAssumption DEF CacheInv, Held, Version, Versions
<1>1. UNCHANGED <<objs, rev, readBuffer, writeBuffer>>
  BY DEF Remove, Reconcile, ReconcileGet, ReconcileGetFails, ReconcileRequeue, ReconcileStore,
         LoadInner, LoadExternal, Handle, Finish, apiVars, cacheVars, vars
<1>2. Sound(readBuffer)'
  BY <1>1 DEF Sound, Key, Compiles
<1>3. ASSUME NEW n \in Names, Remove(n) PROVE CacheInv'
  BY <1>1, <1>2, <1>3 DEF Remove, requestVars, LoadIsExact, Compiles
<1>4. CASE Reconcile
  <2>1. UNCHANGED <<api, step, data, items>>
    BY <1>4 DEF Reconcile, ReconcileGet, ReconcileGetFails, ReconcileRequeue, ReconcileStore,
                requestVars
  <2>2. LoadIsExact'
    BY <1>1, <2>1 DEF LoadIsExact, Compiles
  <2>3. ASSUME NEW n \in Names, ReconcileGet(n) PROVE CacheInv'
    BY <1>1, <1>2, <2>1, <2>2, <2>3 DEF ReconcileGet
  <2>4. ASSUME NEW n \in Names, ReconcileGetFails(n) PROVE CacheInv'
    BY <1>1, <1>2, <2>1, <2>2, <2>4 DEF ReconcileGetFails
  <2>5. CASE ReconcileRequeue
    BY <1>1, <1>2, <2>1, <2>2, <2>5 DEF ReconcileRequeue, Idle
  <2>6. CASE ReconcileStore
    BY <1>1, <1>2, <2>1, <2>2, <2>6 DEF ReconcileStore, Idle
  <2>. QED  BY <1>4, <2>3, <2>4, <2>5, <2>6 DEF Reconcile
<1>5. ASSUME NEW r \in Requests, LoadInner(r) \/ LoadExternal(r) \/ Handle(r) \/ Finish(r)
      PROVE  CacheInv'
  <2>1. UNCHANGED <<api, resources, rec>>
    BY <1>5 DEF LoadInner, LoadExternal, Handle, Finish, apiVars
  <2>2. CASE LoadInner(r)
    BY <1>1, <1>2, <2>1, <2>2 DEF LoadInner, LoadIsExact, Compiles
  <2>3. CASE LoadExternal(r) \/ Handle(r)
    <3>1. \E s \in {"handle", "done"} : step' = [step EXCEPT ![r] = s]
      BY <2>3 DEF LoadExternal, Handle
    <3>2. UNCHANGED <<data, items>> /\ step[r] \in {"ext", "handle"}
      BY <2>3 DEF LoadExternal, Handle
    <3>3. LoadIsExact'
      BY <1>1, <3>1, <3>2 DEF LoadIsExact, Compiles
    <3>4. step' \in [Requests -> {"idle", "cache", "ext", "handle", "done"}]
      BY <3>1
    <3>. QED  BY <1>1, <1>2, <2>1, <3>2, <3>3, <3>4
  <2>4. CASE Finish(r)
    <3>1. /\ step' = [step EXCEPT ![r] = "idle"] /\ data' = [data EXCEPT ![r] = Nothing]
          /\ items' = [items EXCEPT ![r] = Nothing]
      BY <2>4 DEF Finish
    <3>2. Nothing \in Versions /\ \A n \in Names : Nothing[n] = 0
      BY DEF Nothing
    <3>3. \A q \in Requests : Held(data[q])'
      BY <1>1, <3>1, <3>2
    <3>4. LoadIsExact'
      BY <1>1, <3>1, <3>2 DEF LoadIsExact, Compiles
    <3>. QED  BY <1>1, <1>2, <2>1, <3>1, <3>2, <3>3, <3>4
  <2>. QED  BY <1>5, <2>2, <2>3, <2>4
<1>6. CASE UNCHANGED vars
  BY <1>1, <1>2, <1>6 DEF vars, LoadIsExact, Compiles
<1>. QED  BY <1>3, <1>4, <1>5, <1>6

\* With distinct keys, CacheInv is inductive.
LEMMA NextCacheInv == ASSUME KeysDistinct, CacheInv, [Next]_vars PROVE CacheInv'
BY WriteKeepsCacheInv, LoadCacheKeepsCacheInv, OthersKeepCacheInv DEF Next, Load

\* If names and versions written together tell objects apart, the double-buffered
\* cache is exact, for any number of requests that load concurrently.
THEOREM CacheIsExact == ASSUME KeysDistinct PROVE Spec => []LoadIsExact
<1>1. CacheInv => LoadIsExact
  BY DEF CacheInv
<1>. QED  BY <1>1, InitCacheInv, NextCacheInv, PTL DEF Spec

-----------------------------------------------------------------------------
(* Types, and what the cache keeps *)

\* A set of numbers that is not empty has a least element ...
LEMMA LeastExists ==
  ASSUME NEW T, T \subseteq Nat, T # {}
  PROVE  \E x \in T : \A y \in T : x <= y
<1>1. PICK x \in T : \A y \in T : ~(<<y, x>> \in OpToRel(<, Nat))
  BY NatLessThanWellFounded, WFMin
<1>2. ASSUME NEW y \in T PROVE x <= y
  <2>1. y \in Nat /\ x \in Nat
    OBVIOUS
  <2>2. y < x => <<y, x>> \in OpToRel(<, Nat)
    BY <2>1 DEF OpToRel
  <2>3. ~(y < x)
    BY <1>1, <2>2, Zenon
  <2>. QED  BY <2>1, <2>3
<1>. QED  BY <1>2

\* ... and a greatest one if it is bounded.
LEMMA GreatestExists ==
  ASSUME NEW b \in Nat, NEW T, T \subseteq 0..b, T # {}
  PROVE  \E x \in T : \A y \in T : y <= x
<1> DEFINE U == {n \in 0..b : b - n \in T}
<1>1. U \subseteq Nat /\ U # {}
  <2>1. PICK t \in T : TRUE
    OBVIOUS
  <2>2. t \in 0..b /\ b - t \in 0..b /\ b - (b - t) = t
    BY <2>1
  <2>. QED  BY <2>1, <2>2
<1>2. PICK u \in U : \A n \in U : u <= n
  <2> HIDE DEF U
  <2>. QED  BY <1>1, LeastExists
<1>3. ASSUME NEW y \in T PROVE y <= b - u
  <2>1. y \in 0..b /\ b - y \in 0..b /\ b - (b - y) = y
    OBVIOUS
  <2>2. u <= b - y
    BY <1>2, <2>1
  <2>. QED  BY <1>2, <2>1, <2>2
<1>. QED  BY <1>2, <1>3

\* What a policy that compiles makes of a request.
Outcomes == {"deny", "allow", "null"}

\* A list of such policies answers.
LEMMA FirstOfAnswers ==
  ASSUME NEW s \in Seq(Outcomes)
  PROVE  FirstOf(s) \in {"allow", "deny"}
<1> DEFINE at == {k \in 1..Len(s) : s[k] # "null"}
<1>1. CASE at = {}
  BY <1>1 DEF FirstOf
<1>2. CASE at # {}
  <2> DEFINE first == CHOOSE k \in at : \A l \in at : k <= l
  <2>1. FirstOf(s) = s[first]
    BY <1>2 DEF FirstOf
  <2>2. \E k \in at : \A l \in at : k <= l
    <3>1. at \subseteq Nat
      OBVIOUS
    <3> HIDE DEF at
    <3>. QED  BY <1>2, <3>1, LeastExists
  <2>3. first \in at
    BY <2>2
  <2>4. first \in 1..Len(s) /\ s[first] # "null"
    BY <2>3
  <2> HIDE DEF first
  <2>5. s[first] \in Outcomes
    BY <2>4
  <2>. QED  BY <2>1, <2>4, <2>5 DEF Outcomes
<1>. QED  BY <1>1, <1>2

\* A version that was written and compiles, or none.
Usable(v) == v = 0 \/ (v \in 1..rev /\ Compiles(v))

\* Versions are known to the API server before anybody else has them, and the cache
\* holds nothing that did not compile: without that an answer would have no type.
TypeInv ==
  /\ TypeOK
  /\ \A v \in 1..rev : objs[v] \in Objects
  /\ \A n \in Names : api[n] <= rev /\ resources[n] <= rev /\ latest[n] <= rev
  /\ rec.rv <= rev
  /\ \A r \in Requests, n \in Names : data[r][n] <= rev
  /\ writeBuffer = Empty
  /\ \A k \in Keys : Usable(readBuffer[k])
  /\ \A r \in Requests, n \in Names : Usable(items[r][n])

\* Everything starts empty.
LEMMA InitTypeInv == Init => TypeInv
<1> SUFFICES ASSUME Init PROVE TypeInv
  OBVIOUS
<1> USE SourcesAssumption DEF Init
<1>1. TypeOK
  BY DEF TypeOK, Versions, Buffers, Nothing, Empty
<1>2. \A n \in Names : Nothing[n] = 0
  BY DEF Nothing
<1>3. \A k \in Keys : Empty[k] = 0
  BY DEF Empty
<1>. QED  BY <1>1, <1>2, <1>3 DEF TypeInv, Usable, Idle

\* The policy that a load gets for a version is usable, and its key is a key.
LEMMA CachedIsUsable ==
  ASSUME TypeInv, NEW v \in 1..rev
  PROVE  Key(v) \in Keys /\ Usable(Cached(v))
<1>1. v \in Revs /\ objs[v].name \in Names
  BY SourcesAssumption DEF TypeInv, TypeOK, Revs, Objects
<1>2. Key(v) \in Keys
  <2>1. <<objs[v].name, v>> \in Names \X Revs
    BY <1>1
  <2>. QED  BY <2>1, SourcesAssumption DEF Key
<1>3. Usable(readBuffer[Key(v)])
  BY <1>2 DEF TypeInv
<1>. QED  BY <1>2, <1>3 DEF Cached, Usable

\* What a load writes under a key is the usable policy of an object it read.
LEMMA WrittenIsUsable ==
  ASSUME TypeInv, NEW r \in Requests, NEW k \in Keys
  PROVE  /\ Usable(Written(data[r])[k])
         /\ Written(data[r])[k] # 0 =>
              \E n \in Names : data[r][n] # 0 /\ Key(data[r][n]) = k
<1> DEFINE d == data[r]
           O == Owners(d, k)
           last == CHOOSE n \in O : \A m \in O : m <= n
<1>1. CASE O = {}
  <2>1. Written(d)[k] = 0
    BY <1>1 DEF Written, TypeInv, Empty
  <2>. QED  BY <2>1 DEF Usable
<1>2. CASE O # {}
  <2>1. \E n \in O : \A m \in O : m <= n
    <3>1. O \subseteq 0..NumNames
      BY SourcesAssumption DEF Owners, Names
    <3> HIDE DEF O
    <3>. QED  BY <1>2, <3>1, GreatestExists, SourcesAssumption
  <2>2. last \in O
    BY <2>1
  <2>3. Written(d)[k] = Cached(d[last])
    BY <1>2 DEF Written
  <2> HIDE DEF last
  <2>4. last \in Names /\ d[last] # 0 /\ Key(d[last]) = k
    BY <2>2 DEF Owners
  <2>5. d[last] \in 1..rev
    BY <2>4, SourcesAssumption DEF TypeInv, TypeOK, Versions
  <2>6. Usable(Cached(d[last]))
    BY <2>5, CachedIsUsable
  <2>. QED  BY <2>3, <2>4, <2>6
<1>. QED  BY <1>1, <1>2

\* A write keeps what the older versions stand for.
LEMMA WriteKeepsTypeInv ==
  ASSUME TypeInv, NEW n \in Names, NEW body \in Bodies, Write(n, body)
  PROVE  TypeInv'
<1> USE SourcesAssumption
<1>1. /\ rev \in 0..MaxRev /\ rev' = rev + 1 /\ rev' \in 0..MaxRev /\ rev' \in Revs
      /\ objs' = [objs EXCEPT ![rev + 1] = [name |-> n, body |-> body]]
  BY DEF TypeInv, TypeOK, Write, Revs
<1>2. objs' \in [Revs -> Objects \cup {NoObject}] /\ objs'[rev'] \in Objects
  BY <1>1 DEF TypeInv, TypeOK, Objects
<1>3. \A v \in 1..rev : v \in 1..rev' /\ objs'[v] = objs[v]
  BY <1>1 DEF TypeInv, TypeOK, Revs
<1>4. /\ UNCHANGED <<rec, resources, readBuffer, writeBuffer, latest, once, faults>>
      /\ UNCHANGED <<step, data, items, failed, ext, answer>>
      /\ api' = [api EXCEPT ![n] = rev + 1] /\ queue' = queue \cup {n}
  BY DEF Write, cacheVars, requestVars
<1>5. \A v \in 0..MaxRev : v <= rev => v <= rev'
  BY <1>1
<1>6. TypeOK'
  BY <1>1, <1>2, <1>4 DEF TypeInv, TypeOK, Versions
<1>7. \A v : Usable(v) => Usable(v)'
  BY <1>3 DEF Usable, Compiles
<1>8. \A v \in 1..rev' : objs'[v] \in Objects
  BY <1>1, <1>2, <1>3 DEF TypeInv
<1>9. \A m \in Names : api'[m] <= rev' /\ resources'[m] <= rev' /\ latest'[m] <= rev'
  BY <1>1, <1>4, <1>5 DEF TypeInv, TypeOK, Versions
<1>10. rec'.rv <= rev' /\ \A r \in Requests, m \in Names : data'[r][m] <= rev'
  <2>1. rec.rv \in 0..MaxRev
    BY DEF TypeInv, TypeOK, Idle
  <2>2. \A r \in Requests, m \in Names : data[r][m] \in 0..MaxRev
    BY DEF TypeInv, TypeOK, Versions
  <2>. QED  BY <1>4, <1>5, <2>1, <2>2 DEF TypeInv
<1>11. /\ \A k \in Keys : Usable(readBuffer[k])'
       /\ \A r \in Requests, m \in Names : Usable(items[r][m])'
  BY <1>4, <1>7 DEF TypeInv
<1>. QED  BY <1>4, <1>6, <1>8, <1>9, <1>10, <1>11 DEF TypeInv

\* A load through the cache hands out and keeps usable policies.
LEMMA LoadCacheKeepsTypeInv ==
  ASSUME TypeInv, NEW r \in Requests, LoadCache(r)
  PROVE  TypeInv'
<1> USE SourcesAssumption
<1>1. /\ UNCHANGED <<objs, rev, api, queue, rec, resources, once, data, ext, answer, faults>>
      /\ items' = [items EXCEPT ![r] = Items(data[r])]
      /\ readBuffer' = Written(data[r]) /\ writeBuffer' = Empty /\ latest' = data[r]
      /\ step' = [step EXCEPT ![r] = "ext"]
      /\ failed' = [failed EXCEPT ![r] =
           \E n \in Names : data[r][n] # 0 /\ Cached(data[r][n]) = 0]
  BY DEF LoadCache, apiVars, Cleared
<1>2. \A v : Usable(v) => Usable(v)' /\ v \in 0..MaxRev
  BY <1>1 DEF Usable, Compiles, TypeInv, TypeOK
<1>3. \A k \in Keys : Usable(Written(data[r])[k])
  BY WrittenIsUsable
<1>4. Written(data[r]) \in Buffers
  <2>1. Written(data[r]) = [k \in Keys |-> Written(data[r])[k]]
    BY DEF Written
  <2>. QED  BY <1>2, <1>3, <2>1 DEF Buffers
<1>5. ASSUME NEW n \in Names PROVE Usable(Items(data[r])[n])
  <2>1. CASE data[r][n] = 0
    BY <2>1 DEF Items, Usable
  <2>2. CASE data[r][n] # 0
    <3>1. data[r][n] \in 1..rev
      BY <2>2 DEF TypeInv, TypeOK, Versions
    <3>. QED  BY <2>2, <3>1, CachedIsUsable DEF Items
  <2>. QED  BY <2>1, <2>2
<1>6. Items(data[r]) \in Versions
  <2>1. Items(data[r]) = [n \in Names |-> Items(data[r])[n]]
    BY DEF Items
  <2>. QED  BY <1>2, <1>5, <2>1 DEF Versions
<1>7. data[r] \in Versions /\ Empty \in Buffers
  BY DEF TypeInv, TypeOK, Buffers, Empty
<1>8. failed' \in [Requests -> BOOLEAN] /\ items' \in [Requests -> Versions]
  BY <1>1, <1>6 DEF TypeInv, TypeOK
<1>9. TypeOK'
  BY <1>1, <1>4, <1>7, <1>8 DEF TypeInv, TypeOK
<1>10. \A k \in Keys : Usable(readBuffer[k])'
  BY <1>1, <1>2, <1>3
<1>11. \A q \in Requests, n \in Names : Usable(items[q][n])'
  BY <1>1, <1>2, <1>5 DEF TypeInv, TypeOK
<1>. QED  BY <1>1, <1>9, <1>10, <1>11 DEF TypeInv

\* What the engine evaluates is a list of policies that compile.
LEMMA CompositeType ==
  ASSUME TypeInv, NEW r \in Requests
  PROVE  Composite(r) \in Seq(Outcomes)
<1> DEFINE V == Verdicts(items[r])
<1>1. \A n \in Names : V[n] \in Outcomes
  <2> SUFFICES ASSUME NEW n \in Names PROVE V[n] \in Outcomes
    OBVIOUS
  <2>1. CASE items[r][n] = 0
    BY <2>1 DEF Verdicts, Outcomes
  <2>2. CASE items[r][n] # 0
    <3>1. items[r][n] \in 1..rev /\ Compiles(items[r][n])
      BY <2>2 DEF TypeInv, Usable
    <3>2. objs[items[r][n]].body \in Outcomes
      BY <3>1, SourcesAssumption
      DEF TypeInv, Objects, Compiles, BodyKinds, Outcomes
    <3>. QED  BY <2>2, <3>2 DEF Verdicts
  <2>. QED  BY <2>1, <2>2
<1>2. V \in Seq(Outcomes)
  <2>1. V = [n \in 1..NumNames |-> V[n]]
    BY DEF Verdicts, Names
  <2>2. V \in [1..NumNames -> Outcomes]
    BY <1>1, <2>1 DEF Names
  <2>. QED  BY <2>2, SourcesAssumption
<1> HIDE DEF V
<1>3. <<>> \in Seq(Outcomes) /\ External \in Seq(Outcomes)
  BY SourcesAssumption DEF Outcomes
<1>4. ext[r] \in Seq(Outcomes)
  <2>1. ext[r] \in {<<>>, External}
    BY DEF TypeInv, TypeOK
  <2>. QED  BY <1>3, <2>1
<1>. QED  BY <1>2, <1>3, <1>4 DEF Composite, V

\* The other steps hand on what is there.
LEMMA OthersKeepTypeInv ==
  ASSUME TypeInv,
         \/ \E n \in Names : Remove(n)
         \/ Reconcile
         \/ \E r \in Requests : LoadInner(r) \/ LoadExternal(r) \/ Handle(r) \/ Finish(r)
         \/ UNCHANGED vars
  PROVE  TypeInv'
<1> USE SourcesAssumption
<1>1. UNCHANGED <<objs, rev, readBuffer, writeBuffer, latest>>
  BY DEF Remove, Reconcile, ReconcileGet, ReconcileGetFails, ReconcileRequeue, ReconcileStore,
         LoadInner, LoadExternal, Handle, Finish, apiVars, cacheVars, vars
<1>2. \A v : Usable(v)' = Usable(v)
  BY <1>1 DEF Usable, Compiles
<1>3. \A k \in Keys : Usable(readBuffer[k])'
  BY <1>1, <1>2 DEF TypeInv
<1>4. faults \in 0..MaxFaults /\ (Fault => faults' \in 0..MaxFaults)
  BY DEF TypeInv, TypeOK, Fault
<1>5. ASSUME NEW n \in Names, Remove(n) PROVE TypeInv'
  <2>1. /\ UNCHANGED <<rec, resources, once, faults, step, data, items, failed, ext, answer>>
        /\ api' = [api EXCEPT ![n] = 0] /\ queue' = queue \cup {n}
    BY <1>5 DEF Remove, requestVars
  <2>2. TypeOK'
    BY <1>1, <2>1 DEF TypeInv, TypeOK, Versions
  <2>3. \A m \in Names : api'[m] <= rev
    BY <2>1 DEF TypeInv, TypeOK, Versions
  <2>. QED  BY <1>1, <1>2, <1>3, <2>1, <2>2, <2>3 DEF TypeInv
<1>6. CASE Reconcile
  <2>1. UNCHANGED <<api, once, step, data, items, failed, ext, answer>>
    BY <1>6 DEF Reconcile, ReconcileGet, ReconcileGetFails, ReconcileRequeue, ReconcileStore,
                requestVars
  <2>2. SUFFICES /\ queue' \subseteq Names /\ resources' \in Versions
                 /\ rec' \in [step : {"got", "error"}, name : Names, rv : 0..MaxRev] \cup {Idle}
                 /\ \A m \in Names : resources'[m] <= rev
                 /\ rec'.rv <= rev
                 /\ faults' \in 0..MaxFaults
    BY <1>1, <1>2, <1>3, <2>1 DEF TypeInv, TypeOK
  <2> USE DEF TypeInv, TypeOK, Versions
  <2>3. ASSUME NEW n \in Names, ReconcileGet(n) PROVE <2>2!1
    BY <2>3 DEF ReconcileGet
  <2>4. ASSUME NEW n \in Names, ReconcileGetFails(n) PROVE <2>2!1
    BY <1>4, <2>4 DEF ReconcileGetFails
  <2>5. CASE ReconcileRequeue
    BY <2>5 DEF ReconcileRequeue, Idle
  <2>6. CASE ReconcileStore
    BY <2>6 DEF ReconcileStore, Idle
  <2>. QED  BY <1>6, <2>3, <2>4, <2>5, <2>6 DEF Reconcile
<1>7. ASSUME NEW r \in Requests, LoadInner(r) \/ LoadExternal(r) \/ Handle(r) \/ Finish(r)
      PROVE  TypeInv'
  <2>1. UNCHANGED <<api, queue, rec, resources>>
    BY <1>7 DEF LoadInner, LoadExternal, Handle, Finish, apiVars
  <2>2. CASE LoadInner(r)
    <3>1. /\ UNCHANGED <<once, items, failed, ext, answer, faults>>
          /\ step' = [step EXCEPT ![r] = "cache"] /\ data' = [data EXCEPT ![r] = resources]
      BY <2>2 DEF LoadInner
    <3>2. TypeOK'
      BY <1>1, <2>1, <3>1 DEF TypeInv, TypeOK
    <3>3. \A q \in Requests, n \in Names : data'[q][n] <= rev
      BY <3>1 DEF TypeInv, TypeOK
    <3>. QED  BY <1>1, <1>2, <1>3, <2>1, <3>1, <3>2, <3>3 DEF TypeInv
  <2>3. CASE LoadExternal(r)
    <3>1. /\ UNCHANGED <<data, items, failed, answer>>
          /\ step' = [step EXCEPT ![r] = "handle"]
          /\ once' \in [Sources -> FsOutcomes] /\ (Fault \/ UNCHANGED faults)
          /\ \E x \in {<<>>, External} : ext' = [ext EXCEPT ![r] = x]
      BY <2>3 DEF LoadExternal
    <3>2. TypeOK'
      BY <1>1, <1>4, <2>1, <3>1 DEF TypeInv, TypeOK, FsOutcomes
    <3>. QED  BY <1>1, <1>2, <1>3, <2>1, <3>1, <3>2 DEF TypeInv
  <2>4. CASE Handle(r)
    <3>1. /\ UNCHANGED <<once, data, items, failed, ext, faults>>
          /\ step' = [step EXCEPT ![r] = "done"]
          /\ answer' = [answer EXCEPT ![r] = FirstOf(Composite(r))]
      BY <2>4 DEF Handle
    <3>2. FirstOf(Composite(r)) \in {"allow", "deny"}
      BY CompositeType, FirstOfAnswers
    <3>3. TypeOK'
      BY <1>1, <2>1, <3>1, <3>2 DEF TypeInv, TypeOK
    <3>. QED  BY <1>1, <1>2, <1>3, <2>1, <3>1, <3>3 DEF TypeInv
  <2>5. CASE Finish(r)
    <3>1. /\ UNCHANGED <<once, faults>>
          /\ step' = [step EXCEPT ![r] = "idle"] /\ data' = [data EXCEPT ![r] = Nothing]
          /\ items' = [items EXCEPT ![r] = Nothing] /\ failed' = [failed EXCEPT ![r] = FALSE]
          /\ ext' = [ext EXCEPT ![r] = <<>>] /\ answer' = [answer EXCEPT ![r] = "none"]
      BY <2>5 DEF Finish
    <3>2. Nothing \in Versions /\ \A n \in Names : Nothing[n] = 0
      BY DEF Nothing, Versions
    <3>3. TypeOK'
      BY <1>1, <2>1, <3>1, <3>2 DEF TypeInv, TypeOK
    <3>4. \A q \in Requests, n \in Names : data'[q][n] <= rev /\ Usable(items[q][n])'
      BY <1>2, <3>1, <3>2 DEF TypeInv, TypeOK, Usable
    <3>. QED  BY <1>1, <1>3, <2>1, <3>1, <3>3, <3>4 DEF TypeInv
  <2>. QED  BY <1>7, <2>2, <2>3, <2>4, <2>5
<1>8. CASE UNCHANGED vars
  <2>1. TypeOK'
    BY <1>8 DEF vars, TypeInv, TypeOK
  <2>. QED  BY <1>1, <1>2, <1>3, <1>8, <2>1 DEF vars, TypeInv
<1>. QED  BY <1>5, <1>6, <1>7, <1>8

\* TypeInv is inductive, whatever the keys are.
LEMMA NextTypeInv == ASSUME TypeInv, [Next]_vars PROVE TypeInv'
BY WriteKeepsTypeInv, LoadCacheKeepsTypeInv, OthersKeepTypeInv DEF Next, Load

\* Every variable keeps its type: what is handed out and answered is always made of
\* versions that were written and policies that compile.
THEOREM TypeCorrect == Spec => []TypeOK
<1>1. TypeInv => TypeOK
  BY DEF TypeInv
<1>. QED  BY <1>1, InitTypeInv, NextTypeInv, PTL DEF Spec

\* The cache holds no more than the load that swapped the buffers last had read, also
\* where two objects share a key.
THEOREM CacheDiscards == Spec => []StaleIsDiscarded
<1>1. Init => StaleIsDiscarded
  BY DEF Init, StaleIsDiscarded, Empty
<1>2. ASSUME TypeInv, StaleIsDiscarded, [Next]_vars PROVE StaleIsDiscarded'
  <2>1. ASSUME NEW n \in Names, NEW body \in Bodies, Write(n, body) PROVE StaleIsDiscarded'
    <3>1. UNCHANGED <<readBuffer, latest>>
      BY <2>1 DEF Write, cacheVars
    <3>2. \A v \in 1..rev : objs'[v] = objs[v]
      BY <1>2, <2>1, SourcesAssumption DEF Write, TypeInv, TypeOK, Revs
    <3>3. \A m \in Names : latest[m] # 0 => latest[m] \in 1..rev
      BY <1>2, SourcesAssumption DEF TypeInv, TypeOK, Versions
    <3>. QED  BY <1>2, <3>1, <3>2, <3>3 DEF StaleIsDiscarded, Key
  <2>2. ASSUME NEW r \in Requests, LoadCache(r) PROVE StaleIsDiscarded'
    <3>1. UNCHANGED objs /\ readBuffer' = Written(data[r]) /\ latest' = data[r]
      BY <2>2 DEF LoadCache, apiVars
    <3>2. ASSUME NEW k \in Keys, Written(data[r])[k] # 0
          PROVE  \E n \in Names : data[r][n] # 0 /\ Key(data[r][n]) = k
      BY <1>2, <3>2, WrittenIsUsable
    <3>. QED  BY <3>1, <3>2 DEF StaleIsDiscarded, Key
  <2>3. CASE UNCHANGED <<objs, readBuffer, latest>>
    BY <1>2, <2>3 DEF StaleIsDiscarded, Key
  <2>4. ASSUME NEW n \in Names, Remove(n) PROVE UNCHANGED <<objs, readBuffer, latest>>
    BY <2>4 DEF Remove, cacheVars
  <2>5. Reconcile => UNCHANGED <<objs, readBuffer, latest>>
    BY DEF Reconcile, ReconcileGet, ReconcileGetFails, ReconcileRequeue, ReconcileStore, cacheVars
  <2>6. ASSUME NEW r \in Requests, LoadInner(r) \/ LoadExternal(r) \/ Handle(r) \/ Finish(r)
        PROVE  UNCHANGED <<objs, readBuffer, latest>>
    BY <2>6 DEF LoadInner, LoadExternal, Handle, Finish, apiVars, cacheVars
  <2>7. UNCHANGED vars => UNCHANGED <<objs, readBuffer, latest>>
    BY DEF vars
  <2>. QED  BY <1>2, <2>1, <2>2, <2>3, <2>4, <2>5, <2>6, <2>7 DEF Next, Load
<1>. QED  BY <1>1, <1>2, InitTypeInv, NextTypeInv, PTL DEF Spec

-----------------------------------------------------------------------------
(* The answer is that of the snapshot *)

\* The external policies that a request has loaded are what the Onces hold.
ExternalKept(r) ==
  step[r] \in {"handle", "done"} =>
    /\ \A e \in Sources : once[e] # "new"
    /\ ext[r] = IF \A e \in Sources : once[e] = "loaded" THEN External ELSE <<>>

\* The error of the cache tells whether something that was read does not compile.
ErrorTells(r) ==
  step[r] \in {"ext", "handle", "done"} =>
    (failed[r] <=> \E n \in Names : data[r][n] # 0 /\ ~Compiles(data[r][n]))

\* The answer is that of what was loaded.
AnswerKept(r) == step[r] = "done" => answer[r] = FirstOf(Composite(r))

\* For a request all this stays true while objects, buffers and other requests change.
AnswerInv == \A r \in Requests : ExternalKept(r) /\ ErrorTells(r) /\ AnswerKept(r)

\* No request has started.
LEMMA InitAnswerInv == Init => AnswerInv
BY DEF Init, AnswerInv, ExternalKept, ErrorTells, AnswerKept

\* What a request holds does not change with the objects: versions do not.
LEMMA CompositeStays ==
  ASSUME TypeInv, NEW r \in Requests, \A v \in 1..rev : objs'[v] = objs[v],
         items'[r] = items[r], failed'[r] = failed[r], ext'[r] = ext[r]
  PROVE  Composite(r)' = Composite(r)
<1>1. \A n \in Names : items[r][n] # 0 => items[r][n] \in 1..rev
  BY DEF TypeInv, Usable
<1>2. Verdicts(items[r])' = Verdicts(items[r])
  BY <1>1 DEF Verdicts
<1>. QED  BY <1>2 DEF Composite

\* Whether something it read compiles does not change either.
LEMMA ErrorStays ==
  ASSUME TypeInv, NEW r \in Requests, ErrorTells(r), \A v \in 1..rev : objs'[v] = objs[v],
         data'[r] = data[r], failed'[r] = failed[r],
         step'[r] \in {"ext", "handle", "done"} => step[r] \in {"ext", "handle", "done"}
  PROVE  ErrorTells(r)'
<1>1. \A n \in Names : data[r][n] # 0 => data[r][n] \in 1..rev
  BY SourcesAssumption DEF TypeInv, TypeOK, Versions
<1>2. \A n \in Names : data[r][n] # 0 =>
        (objs'[data'[r][n]].body # "broken" <=> objs[data[r][n]].body # "broken")
  BY <1>1
<1>. QED  BY <1>2 DEF ErrorTells, Compiles

\* A step that is not of the request itself leaves all this true for it.
LEMMA UnchangedKeepsAnswer ==
  ASSUME TypeInv, AnswerInv, NEW r \in Requests,
         \A v \in 1..rev : objs'[v] = objs[v],
         \A e \in Sources : once[e] # "new" => once'[e] = once[e],
         step'[r] = step[r], data'[r] = data[r], items'[r] = items[r],
         failed'[r] = failed[r], ext'[r] = ext[r], answer'[r] = answer[r]
  PROVE  (ExternalKept(r) /\ ErrorTells(r) /\ AnswerKept(r))'
<1>1. ExternalKept(r)'
  BY DEF AnswerInv, ExternalKept
<1>2. ErrorTells(r)'
  BY ErrorStays DEF AnswerInv
<1>3. AnswerKept(r)'
  <2>1. Composite(r)' = Composite(r)
    BY CompositeStays
  <2>2. FirstOf(Composite(r))' = FirstOf(Composite(r))
    BY <2>1 DEF FirstOf
  <2>. QED  BY <2>2 DEF AnswerInv, AnswerKept
<1>. QED  BY <1>1, <1>2, <1>3

\* The steps of a request.
LEMMA LoadKeepsAnswer ==
  ASSUME KeysDistinct, CacheInv, TypeInv, AnswerInv, NEW r \in Requests, Load(r)
  PROVE  (ExternalKept(r) /\ ErrorTells(r) /\ AnswerKept(r))'
<1>0. UNCHANGED <<objs, rev>> /\ \A v \in 1..rev : objs'[v] = objs[v]
  BY DEF Load, LoadInner, LoadCache, LoadExternal, Handle, Finish, apiVars
<1> USE DEF TypeInv, TypeOK, ExternalKept, ErrorTells, AnswerKept
<1>1. CASE LoadInner(r)
  BY <1>1 DEF LoadInner
<1>2. CASE LoadCache(r)
  <2>1. step'[r] = "ext" /\ data' = data
        /\ failed'[r] = \E n \in Names : data[r][n] # 0 /\ Cached(data[r][n]) = 0
    BY <1>2 DEF LoadCache
  <2>2. ASSUME NEW n \in Names, data[r][n] # 0
        PROVE  Cached(data[r][n]) = 0 <=> ~Compiles(data[r][n])
    <3>1. Version(n, data[r][n])
      BY <2>2 DEF CacheInv, Held
    <3>. QED  BY <2>2, <3>1, CachedIsExact
  <2>3. (failed'[r] <=> \E n \in Names : data[r][n] # 0 /\ ~Compiles(data[r][n]))
    BY <2>1, <2>2
  <2>. QED  BY <1>0, <2>1, <2>3 DEF Compiles
<1>3. CASE LoadExternal(r)
  <2>1. /\ step[r] = "ext" /\ step'[r] = "handle" /\ UNCHANGED <<data, failed>>
        /\ once' \in [Sources -> FsOutcomes]
        /\ ext'[r] = IF \A e \in Sources : once'[e] = "loaded" THEN External ELSE <<>>
    BY <1>3 DEF LoadExternal
  <2>2. ErrorTells(r)'
    BY <1>0, <2>1, ErrorStays DEF AnswerInv
  <2>. QED  BY <2>1, <2>2 DEF FsOutcomes
<1>4. CASE Handle(r)
  <2>1. /\ step[r] = "handle" /\ step'[r] = "done"
        /\ UNCHANGED <<once, data, items, failed, ext>>
        /\ answer'[r] = FirstOf(Composite(r))
    BY <1>4 DEF Handle
  <2>2. ErrorTells(r)'
    BY <1>0, <2>1, ErrorStays DEF AnswerInv
  <2>3. Composite(r)' = Composite(r)
    BY <1>0, <2>1, CompositeStays
  <2>4. FirstOf(Composite(r))' = FirstOf(Composite(r))
    BY <2>3 DEF FirstOf
  <2>. QED  BY <2>1, <2>2, <2>4 DEF AnswerInv
<1>5. CASE Finish(r)
  BY <1>5 DEF Finish
<1>. QED  BY <1>1, <1>2, <1>3, <1>4, <1>5 DEF Load

\* AnswerInv is inductive together with CacheInv and TypeInv.
LEMMA NextAnswerInv ==
  ASSUME KeysDistinct, CacheInv, TypeInv, AnswerInv, [Next]_vars
  PROVE  AnswerInv'
<1>1. SUFFICES ASSUME NEW r \in Requests
               PROVE  (ExternalKept(r) /\ ErrorTells(r) /\ AnswerKept(r))'
  BY DEF AnswerInv
<1>2. CASE Load(r)
  BY <1>2, LoadKeepsAnswer
<1>3. ASSUME NEW q \in Requests, q # r, Load(q)
      PROVE  (ExternalKept(r) /\ ErrorTells(r) /\ AnswerKept(r))'
  <2>1. UNCHANGED objs /\ \A e \in Sources : once[e] # "new" => once'[e] = once[e]
    BY <1>3 DEF Load, LoadInner, LoadCache, LoadExternal, Handle, Finish, apiVars
  <2>2. /\ step'[r] = step[r] /\ data'[r] = data[r] /\ items'[r] = items[r]
        /\ failed'[r] = failed[r] /\ ext'[r] = ext[r] /\ answer'[r] = answer[r]
    BY <1>3 DEF Load, LoadInner, LoadCache, LoadExternal, Handle, Finish, TypeInv, TypeOK
  <2>. QED  BY <2>1, <2>2, UnchangedKeepsAnswer
<1>4. CASE UNCHANGED <<once, step, data, items, failed, ext, answer>>
           /\ \A v \in 1..rev : objs'[v] = objs[v]
  BY <1>4, UnchangedKeepsAnswer
<1>5. ASSUME NEW n \in Names, NEW body \in Bodies, Write(n, body)
      PROVE  /\ UNCHANGED <<once, step, data, items, failed, ext, answer>>
             /\ \A v \in 1..rev : objs'[v] = objs[v]
  BY <1>5, SourcesAssumption DEF Write, requestVars, TypeInv, TypeOK, Revs
<1>6. ASSUME NEW n \in Names, Remove(n)
      PROVE  UNCHANGED <<once, step, data, items, failed, ext, answer, objs>>
  BY <1>6 DEF Remove, requestVars
<1>7. Reconcile => UNCHANGED <<once, step, data, items, failed, ext, answer, objs>>
  BY DEF Reconcile, ReconcileGet, ReconcileGetFails, ReconcileRequeue, ReconcileStore,
         requestVars
<1>8. UNCHANGED vars => UNCHANGED <<once, step, data, items, failed, ext, answer, objs>>
  BY DEF vars
<1>. QED  BY <1>2, <1>3, <1>4, <1>5, <1>6, <1>7, <1>8 DEF Next

\* If names and versions written together tell objects apart, a request whose policies
\* compile is answered as they stood when it read them, whatever was written, loaded
\* or swapped since.
THEOREM SnapshotIsAnswered == ASSUME KeysDistinct PROVE Spec => []AnswerIsOfSnapshot
<1>1. CacheInv /\ AnswerInv => AnswerIsOfSnapshot
  <2> SUFFICES ASSUME CacheInv, AnswerInv, NEW r \in Requests, step[r] = "done",
                      \A e \in Sources : once[e] = "loaded",
                      \A n \in Names : data[r][n] # 0 => Compiles(data[r][n])
               PROVE  answer[r] = FirstOf(Verdicts(data[r]) \o External)
    BY DEF AnswerIsOfSnapshot
  <2>1. ~failed[r] /\ ext[r] = External /\ answer[r] = FirstOf(Composite(r))
    BY DEF AnswerInv, ExternalKept, ErrorTells, AnswerKept
  <2>2. \A n \in Names : items[r][n] = data[r][n]
    BY DEF CacheInv, LoadIsExact
  <2>3. Verdicts(items[r]) = Verdicts(data[r])
    BY <2>2 DEF Verdicts
  <2>. QED  BY <2>1, <2>3 DEF Composite
<1>. QED
  BY <1>1, InitCacheInv, InitTypeInv, InitAnswerInv, NextCacheInv, NextTypeInv,
     NextAnswerInv, PTL DEF Spec
=============================================================================

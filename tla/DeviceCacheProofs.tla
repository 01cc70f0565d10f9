-------------------------- MODULE DeviceCacheProofs --------------------------
(***************************************************************************)
(* Proofs about DeviceCache: for any scenes, devices and clients, and any  *)
(* length of scene_list, the list and the map agree, no scene is streamed  *)
(* to a device that never registered to it, a pass of the loader delivers  *)
(* what was registered throughout, and only a scene that was removed under *)
(* the loader, or added twice, brings it down.                             *)
(***************************************************************************)
EXTENDS DeviceCache, SequenceTheorems, WellFoundedInduction, TLAPS

-----------------------------------------------------------------------------
(* What RemoveFirst and Front do to a sequence. *)

\* The place where RemoveFirst cuts is there.
LEMMA FirstPlace ==
  ASSUME NEW s \in Seq(Scenes), NEW e, Contains(s, e)
  PROVE  LET n == SelectInSeq(s, LAMBDA v : v = e)
         IN  n \in 1..Len(s) /\ s[n] = e
<1> DEFINE I == {i \in 1..Len(s) : s[i] = e}
<1>1. I # {} /\ I \subseteq Nat
  BY LenProperties DEF Contains
<1>2. \E m \in I : \A i \in I : ~(<<i, m>> \in OpToRel(<, Nat))
  BY <1>1, NatLessThanWellFounded, WFMin
<1>3. \E m \in I : \A i \in I : m <= i
  <2>1. PICK m \in I : \A i \in I : ~(<<i, m>> \in OpToRel(<, Nat))
    BY <1>2
  <2>2. \A i \in I : ~(i < m) /\ i \in Nat /\ m \in Nat
    BY <1>1, <2>1 DEF OpToRel
  <2>3. \A i \in I : m <= i
    BY <2>2
  <2> HIDE DEF I
  <2> QED
    BY <2>3
<1>4. Min(I) \in I
  BY <1>3 DEF Min
<1> QED
  BY <1>1, <1>4 DEF SelectInSeq

\* A sequence without the element at place n.
Without(s, n) == SubSeq(s, 1, n - 1) \o SubSeq(s, n + 1, Len(s))

LEMMA WithoutPlace ==
  ASSUME NEW s \in Seq(Scenes), NEW n \in 1..Len(s)
  PROVE  /\ Without(s, n) \in Seq(Scenes)
         /\ Len(Without(s, n)) = Len(s) - 1
         /\ \A i \in 1..Len(s)-1 : Without(s, n)[i] = IF i < n THEN s[i] ELSE s[i + 1]
<1>1. Len(s) \in Nat /\ \A i \in 1..Len(s) : s[i] \in Scenes
  BY LenProperties, ElementOfSeq
<1>2. /\ SubSeq(s, 1, n - 1) \in Seq(Scenes)
      /\ Len(SubSeq(s, 1, n - 1)) = n - 1
      /\ \A i \in 1..n-1 : SubSeq(s, 1, n - 1)[i] = s[i]
  BY <1>1, SubSeqProperties
<1>3. /\ SubSeq(s, n + 1, Len(s)) \in Seq(Scenes)
      /\ Len(SubSeq(s, n + 1, Len(s))) = Len(s) - n
      /\ \A i \in 1..Len(s)-n : SubSeq(s, n + 1, Len(s))[i] = s[n + i]
  BY <1>1, SubSeqProperties
<1>4. /\ Without(s, n) \in Seq(Scenes)
      /\ Len(Without(s, n)) = Len(s) - 1
      /\ \A i \in 1..Len(s)-1 :
           Without(s, n)[i] = IF i <= n - 1 THEN SubSeq(s, 1, n - 1)[i]
                                            ELSE SubSeq(s, n + 1, Len(s))[i - (n - 1)]
  <2> DEFINE a == SubSeq(s, 1, n - 1)
             b == SubSeq(s, n + 1, Len(s))
  <2>1. /\ a \in Seq(Scenes) /\ b \in Seq(Scenes)
        /\ Len(a) = n - 1 /\ Len(b) = Len(s) - n
    BY <1>2, <1>3
  <2>2. Without(s, n) = a \o b
    BY DEF Without
  <2> HIDE DEF a, b
  <2>3. /\ a \o b \in Seq(Scenes) /\ Len(a \o b) = Len(a) + Len(b)
        /\ \A i \in 1..Len(a) + Len(b) :
             (a \o b)[i] = IF i <= Len(a) THEN a[i] ELSE b[i - Len(a)]
    BY <2>1, ConcatProperties
  <2>4. Len(a) + Len(b) = Len(s) - 1
    BY <1>1, <2>1
  <2>5. \A i \in 1..Len(s)-1 :
          Without(s, n)[i] = IF i <= n - 1 THEN a[i] ELSE b[i - (n - 1)]
    BY <2>1, <2>2, <2>3, <2>4
  <2> QED
    BY <2>2, <2>3, <2>4, <2>5 DEF a, b
<1>5. \A i \in 1..Len(s)-1 : ~(i < n) => i - (n - 1) \in 1..Len(s)-n
  BY <1>1
<1> QED
  BY <1>1, <1>2, <1>3, <1>4, <1>5

\* Every key but e stays listed, every key is listed at most as often.
Once(s, k) == \A i, j \in 1..Len(s) : s[i] = k /\ s[j] = k => i = j

LEMMA UnlistedKeys ==
  ASSUME NEW s \in Seq(Scenes), NEW e, Contains(s, e)
  PROVE  /\ RemoveFirst(s, e) \in Seq(Scenes)
         /\ \A k \in Scenes \ {e} : Contains(s, k) => Contains(RemoveFirst(s, e), k)
         /\ \A k \in Scenes : Contains(RemoveFirst(s, e), k) => Contains(s, k)
         /\ \A k \in Scenes : Once(s, k) => Once(RemoveFirst(s, e), k)
         /\ Once(s, e) => ~Contains(RemoveFirst(s, e), e)
<1> DEFINE n == SelectInSeq(s, LAMBDA v : v = e)
           r == Without(s, n)
<1>1. n \in 1..Len(s) /\ s[n] = e
  BY FirstPlace
<1>2. RemoveFirst(s, e) = r
  BY DEF RemoveFirst, RemoveAt, Contains, Without
<1> HIDE DEF n
<1>3. /\ r \in Seq(Scenes) /\ Len(r) = Len(s) - 1 /\ Len(s) \in Nat
      /\ \A i \in 1..Len(s)-1 : r[i] = IF i < n THEN s[i] ELSE s[i + 1]
  BY <1>1, WithoutPlace, LenProperties
<1> HIDE DEF r
<1>4. ASSUME NEW k \in Scenes \ {e}, Contains(s, k) PROVE Contains(r, k)
  <2>1. PICK i \in 1..Len(s) : s[i] = k
    BY <1>4 DEF Contains
  <2>2. i # n
    BY <1>1, <2>1
  <2>3. CASE i < n
    BY <1>1, <1>3, <2>1, <2>3 DEF Contains
  <2>4. CASE i > n
    <3>1. i - 1 \in 1..Len(s)-1 /\ ~(i - 1 < n) /\ (i - 1) + 1 = i
      BY <1>1, <1>3, <2>4
    <3> QED
      BY <1>3, <2>1, <3>1 DEF Contains
  <2> QED
    BY <1>1, <1>3, <2>2, <2>3, <2>4
<1>5. ASSUME NEW k \in Scenes, NEW i \in 1..Len(r), r[i] = k
      PROVE  /\ i \in 1..Len(s) /\ i + 1 \in 1..Len(s)
             /\ (i < n /\ s[i] = k) \/ (i >= n /\ s[i + 1] = k)
  BY <1>1, <1>3, <1>5
<1>6. \A k \in Scenes : Contains(r, k) => Contains(s, k)
  BY <1>5 DEF Contains
<1>7. \A k \in Scenes : Once(s, k) => Once(r, k)
  <2> SUFFICES ASSUME NEW k \in Scenes, Once(s, k), NEW i \in 1..Len(r),
                      NEW j \in 1..Len(r), r[i] = k, r[j] = k
               PROVE  i = j
    BY DEF Once
  <2>1. \/ i < n /\ j < n /\ s[i] = k /\ s[j] = k
        \/ i < n /\ j >= n /\ s[i] = k /\ s[j + 1] = k
        \/ i >= n /\ j < n /\ s[i + 1] = k /\ s[j] = k
        \/ i >= n /\ j >= n /\ s[i + 1] = k /\ s[j + 1] = k
    BY <1>1, <1>3, <1>5
  <2>2. /\ i \in 1..Len(s) /\ i + 1 \in 1..Len(s) /\ j \in 1..Len(s) /\ j + 1 \in 1..Len(s)
        /\ i \in Nat /\ j \in Nat /\ n \in Nat
    BY <1>1, <1>3
  <2> QED
    BY <2>1, <2>2 DEF Once
<1>8. Once(s, e) => ~Contains(r, e)
  <2>1. e \in Scenes
    BY <1>1, ElementOfSeq
  <2> QED
    BY <1>1, <1>3, <1>5, <2>1 DEF Once, Contains
<1> QED
  BY <1>2, <1>3, <1>4, <1>6, <1>7, <1>8

\* The loader is done with the first of its keys.
LEMMA KeysLeft ==
  ASSUME NEW s \in Seq(Scenes), s # <<>>
  PROVE  \A k \in Scenes : Contains(s, k) <=> k = Head(s) \/ Contains(Tail(s), k)
<1>1. /\ Len(s) \in Nat \ {0} /\ Len(Tail(s)) = Len(s) - 1 /\ Head(s) = s[1]
      /\ \A i \in 1..Len(s)-1 : Tail(s)[i] = s[i + 1]
  BY EmptySeq, HeadTailProperties
<1>2. \A k \in Scenes, i \in 1..Len(s) : s[i] = k /\ i # 1 => Contains(Tail(s), k)
  <2>1. \A i \in 1..Len(s) : i # 1 => i - 1 \in 1..Len(s)-1 /\ (i - 1) + 1 = i
    BY <1>1
  <2> QED
    BY <1>1, <2>1 DEF Contains
<1> QED
  BY <1>1, <1>2 DEF Contains

-----------------------------------------------------------------------------
(* The invariant. *)

\* Only clients are registered, found by the loader and cached.
Clientele ==
  /\ \A k \in Scenes : registered[k] \subseteq Clients[k]
  /\ OnlyClients
  /\ lpc = "loaded" =>
       scene_keys # <<>> /\ new_devices \subseteq Clients[Head(scene_keys)]

\* What is listed and what has an entry is the same, but for a scene that was
\* listed twice.
ListMatchesEntries ==
  \A k \in Scenes :
    /\ cache_entries[k] # Absent => Listed(k)
    /\ k \notin doubled => Once(scene_list, k) /\ (Listed(k) => cache_entries[k] # Absent)

\* What the pass promises of a scene is true in the cache, or the scene is
\* still to come; a scene that is still to come has an entry, if nobody
\* removed it during the pass.
PassUnderWay ==
  \A k \in Scenes :
    /\ steady[k] \subseteq registered[k] /\ gone[k] \cap registered[k] = {}
    /\ lpc = "asleep" => steady[k] = {}
    /\ lpc # "asleep" /\ Contains(scene_keys, k) =>
         cache_entries[k] # Absent \/ k \in removed \cup doubled
    /\ lpc = "loaded" /\ k = Head(scene_keys) =>
         steady[k] \subseteq new_devices /\ gone[k] \cap new_devices = {}
    /\ cache_entries[k] # Absent /\ steady[k] # {} =>
         \/ Contains(scene_keys, k)
         \/ steady[k] \subseteq cache_entries[k] /\ gone[k] \cap cache_entries[k] = {}

CacheInv ==
  /\ TypeOK
  /\ Clientele
  /\ health = "ok" => ListMatchesEntries /\ PassUnderWay

-----------------------------------------------------------------------------
LEMMA InitCache == Init => CacheInv
<1> SUFFICES ASSUME Init
             PROVE  CacheInv
  OBVIOUS
<1> USE ClientsAreDevices, AbsentIsNoList DEF Init
<1>1. TypeOK
  BY EmptySeq DEF TypeOK, LoaderSteps
<1>2. Clientele
  BY DEF Clientele, OnlyClients
<1>3. ListMatchesEntries
  BY EmptySeq DEF ListMatchesEntries, Listed, Contains, Once
<1>4. PassUnderWay
  BY DEF PassUnderWay
<1> QED
  BY <1>1, <1>2, <1>3, <1>4 DEF CacheInv

LEMMA TypePreserved == CacheInv /\ [Next]_vars => TypeOK'
<1> SUFFICES ASSUME CacheInv, [Next]_vars
             PROVE  TypeOK'
  OBVIOUS
<1>0. TypeOK
  BY DEF CacheInv
<1> USE <1>0, ClientsAreDevices, AbsentIsNoList
    DEF TypeOK, LoaderSteps, cacheVars, loaderVars, historyVars, Forget
<1>1. ASSUME NEW k \in Scenes, NEW dev \in Devices, Register(dev, k)
      PROVE TypeOK'
  BY <1>1 DEF Register
<1>2. ASSUME NEW k \in Scenes, NEW dev \in Devices, Deregister(dev, k)
      PROVE TypeOK'
  BY <1>2 DEF Deregister
<1>3. ASSUME NEW k \in Scenes, AddScene(k) PROVE TypeOK'
  BY <1>3, AppendProperties DEF AddScene, Pushed, FreshEntry
<1>4. ASSUME NEW k \in Scenes, RemoveScene(k) PROVE TypeOK'
  BY <1>4, UnlistedKeys DEF RemoveScene, Unlisted, EntryErased, Listed
<1>5. ASSUME NEW k \in Scenes, RemoveUnlistedScene(k) PROVE TypeOK'
  <2>1. scene_list # <<>> => Front(scene_list) \in Seq(Scenes)
    <3>1. Len(scene_list) \in Nat /\ \A i \in 1..Len(scene_list)-1 : scene_list[i] \in Scenes
      BY LenProperties, ElementOfSeq
    <3> QED
      BY <3>1, SubSeqProperties DEF Front
  <2> QED
    BY <1>5, <2>1 DEF RemoveUnlistedScene, EntryErased
<1>6. CASE BeginListCopy
  BY <1>6 DEF BeginListCopy
<1>7. CASE EndListCopy
  BY <1>7 DEF EndListCopy
<1>8. CASE QueryScene
  BY <1>8, HeadTailProperties DEF QueryScene, Matching
<1>9. CASE QueryFails
  BY <1>9, HeadTailProperties DEF QueryFails, Skipped
<1>10. CASE StoreDevices
  <2>1. scene_keys # <<>>
    BY <1>10 DEF StoreDevices, CacheInv, Clientele
  <2>2. Head(scene_keys) \in Scenes /\ Tail(scene_keys) \in Seq(Scenes)
    BY <2>1, HeadTailProperties
  <2> QED
    BY <1>10, <2>2 DEF StoreDevices, Replaced
<1>11. CASE EndPass
  BY <1>11 DEF EndPass
<1>12. CASE UNCHANGED vars
  BY <1>12 DEF vars
<1> QED
  BY <1>1, <1>2, <1>3, <1>4, <1>5, <1>6, <1>7, <1>8, <1>9, <1>10, <1>11, <1>12
     DEF Next, Loader, Environment, CacheRequest

LEMMA ClientelePreserved == CacheInv /\ [Next]_vars => Clientele'
<1> SUFFICES ASSUME CacheInv, [Next]_vars
             PROVE  Clientele'
  OBVIOUS
<1>0. TypeOK /\ Clientele
  BY DEF CacheInv
<1> USE <1>0, ClientsAreDevices, AbsentIsNoList
    DEF TypeOK, Clientele, OnlyClients, cacheVars, loaderVars, historyVars, Forget
<1>1. ASSUME NEW k \in Scenes, NEW dev \in Devices, Register(dev, k)
      PROVE Clientele'
  BY <1>1 DEF Register
<1>2. ASSUME NEW k \in Scenes, NEW dev \in Devices, Deregister(dev, k)
      PROVE Clientele'
  BY <1>2 DEF Deregister
<1>3. ASSUME NEW k \in Scenes, AddScene(k) PROVE Clientele'
  BY <1>3 DEF AddScene, Pushed, FreshEntry
<1>4. ASSUME NEW k \in Scenes, RemoveScene(k) PROVE Clientele'
  BY <1>4 DEF RemoveScene, Unlisted, EntryErased
<1>5. ASSUME NEW k \in Scenes, RemoveUnlistedScene(k) PROVE Clientele'
  BY <1>5 DEF RemoveUnlistedScene, EntryErased
<1>6. CASE BeginListCopy
  BY <1>6 DEF BeginListCopy
<1>7. CASE EndListCopy
  BY <1>7 DEF EndListCopy
<1>8. CASE QueryScene
  BY <1>8, HeadTailProperties DEF QueryScene, Matching
<1>9. CASE QueryFails
  BY <1>9 DEF QueryFails, Skipped
<1>10. CASE StoreDevices
  BY <1>10 DEF StoreDevices, Replaced
<1>11. CASE EndPass
  BY <1>11 DEF EndPass, PassDone
<1>12. CASE UNCHANGED vars
  BY <1>12 DEF vars
<1> QED
  BY <1>1, <1>2, <1>3, <1>4, <1>5, <1>6, <1>7, <1>8, <1>9, <1>10, <1>11, <1>12
     DEF Next, Loader, Environment, CacheRequest

LEMMA ListPreserved == CacheInv /\ [Next]_vars => (health = "ok" => ListMatchesEntries)'
<1> SUFFICES ASSUME CacheInv, [Next]_vars, health' = "ok"
             PROVE  ListMatchesEntries'
  OBVIOUS
<1>0. TypeOK /\ Clientele /\ health = "ok" /\ ListMatchesEntries
  <2>1. health = "ok"
    BY DEF Next, Loader, Environment, CacheRequest, vars, Register, Deregister, AddScene,
           RemoveScene, RemoveUnlistedScene, BeginListCopy, EndListCopy, QueryScene,
           QueryFails, StoreDevices, EndPass, CacheInv, TypeOK
  <2> QED
    BY <2>1 DEF CacheInv
<1> USE <1>0, AbsentIsNoList
    DEF TypeOK, ListMatchesEntries, Listed, cacheVars, loaderVars, historyVars, Forget
<1>1. ASSUME NEW k \in Scenes, NEW dev \in Devices, Register(dev, k)
      PROVE ListMatchesEntries'
  BY <1>1 DEF Register
<1>2. ASSUME NEW k \in Scenes, NEW dev \in Devices, Deregister(dev, k)
      PROVE ListMatchesEntries'
  BY <1>2 DEF Deregister
<1>3. ASSUME NEW k \in Scenes, AddScene(k) PROVE ListMatchesEntries'
  <2>1. /\ scene_list' = Append(scene_list, k)
        /\ cache_entries' = [cache_entries EXCEPT ![k] = {}]
        /\ doubled' = IF Contains(scene_list, k) THEN doubled \cup {k} ELSE doubled
    BY <1>3 DEF AddScene, Pushed, FreshEntry
  <2>2. /\ Len(scene_list) \in Nat /\ Len(scene_list') = Len(scene_list) + 1
        /\ \A i \in 1..Len(scene_list) : scene_list'[i] = scene_list[i]
        /\ scene_list'[Len(scene_list) + 1] = k
    BY <2>1, AppendProperties, LenProperties
  <2>3. \A j \in Scenes : Contains(scene_list, j)' <=> j = k \/ Contains(scene_list, j)
    <3> HIDE DEF TypeOK, ListMatchesEntries
    <3>1. \A j \in Scenes : Contains(scene_list, j) => Contains(scene_list, j)'
      BY <2>2 DEF Contains
    <3>2. Contains(scene_list, k)'
      BY <2>2 DEF Contains
    <3>3. \A j \in Scenes \ {k} : Contains(scene_list, j)' => Contains(scene_list, j)
      BY <2>2 DEF Contains
    <3> QED
      BY <3>1, <3>2, <3>3
  <2>4. \A j \in Scenes : j \notin doubled' /\ Once(scene_list, j) => Once(scene_list, j)'
    BY <2>1, <2>2 DEF Contains, Once
  <2>5. \A S \in SUBSET Devices : Absent # S
    OBVIOUS
  <2>6. \A j \in Scenes : cache_entries'[j] # Absent <=> j = k \/ cache_entries[j] # Absent
    BY <2>1, <2>5
  <2> QED
    BY <2>1, <2>3, <2>4, <2>6
<1>4. ASSUME NEW k \in Scenes, RemoveScene(k) PROVE ListMatchesEntries'
  <2>1. /\ scene_list' = RemoveFirst(scene_list, k) /\ Contains(scene_list, k)
        /\ cache_entries' = [cache_entries EXCEPT ![k] = Absent]
        /\ doubled' = doubled
    BY <1>4 DEF RemoveScene, Unlisted, EntryErased
  <2>2. \A j \in Scenes : /\ j # k => (Contains(scene_list, j)' <=> Contains(scene_list, j))
                          /\ Once(scene_list, j) => Once(scene_list, j)'
    BY <2>1, UnlistedKeys
  <2>3. Once(scene_list, k) => ~Contains(scene_list, k)'
    BY <2>1, UnlistedKeys
  <2> QED
    BY <2>1, <2>2, <2>3
<1>5. ASSUME NEW k \in Scenes, RemoveUnlistedScene(k) PROVE ListMatchesEntries'
  BY <1>5 DEF RemoveUnlistedScene, EntryErased
<1>6. CASE BeginListCopy
  BY <1>6 DEF BeginListCopy
<1>7. CASE EndListCopy
  BY <1>7 DEF EndListCopy
<1>8. CASE QueryScene
  BY <1>8 DEF QueryScene, Matching
<1>9. CASE QueryFails
  BY <1>9 DEF QueryFails, Skipped
<1>10. CASE StoreDevices
  BY <1>10 DEF StoreDevices, Replaced
<1>11. CASE EndPass
  BY <1>11 DEF EndPass, PassDone
<1>12. CASE UNCHANGED vars
  BY <1>12 DEF vars
<1> QED
  BY <1>1, <1>2, <1>3, <1>4, <1>5, <1>6, <1>7, <1>8, <1>9, <1>10, <1>11, <1>12
     DEF Next, Loader, Environment, CacheRequest

LEMMA PassPreserved == CacheInv /\ [Next]_vars => (health = "ok" => PassUnderWay)'
<1> SUFFICES ASSUME CacheInv, [Next]_vars, health' = "ok"
             PROVE  PassUnderWay'
  OBVIOUS
<1>0. TypeOK /\ Clientele /\ health = "ok" /\ ListMatchesEntries /\ PassUnderWay
  <2>1. health = "ok"
    BY DEF Next, Loader, Environment, CacheRequest, vars, Register, Deregister, AddScene,
           RemoveScene, RemoveUnlistedScene, BeginListCopy, EndListCopy, QueryScene,
           QueryFails, StoreDevices, EndPass, CacheInv, TypeOK
  <2> QED
    BY <2>1 DEF CacheInv
<1> USE <1>0, ClientsAreDevices, AbsentIsNoList
    DEF TypeOK, PassUnderWay, cacheVars, loaderVars, historyVars, Forget
<1>1. ASSUME NEW k \in Scenes, NEW dev \in Devices, Register(dev, k)
      PROVE PassUnderWay'
  BY <1>1 DEF Register
<1>2. ASSUME NEW k \in Scenes, NEW dev \in Devices, Deregister(dev, k)
      PROVE PassUnderWay'
  BY <1>2 DEF Deregister
<1>3. ASSUME NEW k \in Scenes, AddScene(k) PROVE PassUnderWay'
  BY <1>3 DEF AddScene, Pushed, FreshEntry
<1>4. ASSUME NEW k \in Scenes, RemoveScene(k) PROVE PassUnderWay'
  BY SMTT(30), <1>4 DEF RemoveScene, EntryErased
<1>5. ASSUME NEW k \in Scenes, RemoveUnlistedScene(k) PROVE PassUnderWay'
  BY <1>5 DEF RemoveUnlistedScene, EntryErased
<1>6. CASE BeginListCopy
  BY <1>6 DEF BeginListCopy, ListMatchesEntries, Listed
<1>7. CASE EndListCopy
  BY <1>7 DEF EndListCopy
<1>8. CASE QueryScene
  BY <1>8 DEF QueryScene, Matching
<1>9. CASE QueryFails
  <2> DEFINE k == Head(scene_keys)
  <2>1. /\ lpc = "scene" /\ scene_keys # <<>> /\ scene_keys' = Tail(scene_keys)
        /\ steady' = [steady EXCEPT ![k] = {}] /\ gone' = [gone EXCEPT ![k] = {}]
        /\ UNCHANGED <<registered, cache_entries, lpc, removed, doubled>>
    BY <1>9 DEF QueryFails, Skipped
  <2>2. k \in Scenes
    BY <2>1, HeadTailProperties
  <2>3. \A j \in Scenes :
          Contains(scene_keys, j) <=> j = k \/ Contains(Tail(scene_keys), j)
    BY <2>1, KeysLeft
  <2> HIDE DEF k
  <2> QED
    BY <2>1, <2>2, <2>3
<1>10. CASE StoreDevices
  <2> DEFINE k == Head(scene_keys)
  <2>1. /\ lpc = "loaded" /\ lpc' = "scene" /\ scene_keys # <<>>
        /\ scene_keys' = Tail(scene_keys)
        /\ UNCHANGED <<registered, removed, doubled, steady, gone>>
        /\ \/ new_devices = {} /\ cache_entries' = cache_entries
           \/ /\ new_devices # {} /\ cache_entries[k] # Absent
              /\ cache_entries' = [cache_entries EXCEPT ![k] = new_devices]
    BY <1>10 DEF StoreDevices, Replaced, Clientele
  <2>2. k \in Scenes /\ steady[k] \subseteq new_devices /\ gone[k] \cap new_devices = {}
    BY <2>1, HeadTailProperties
  <2>3. \A j \in Scenes :
          Contains(scene_keys, j) <=> j = k \/ Contains(Tail(scene_keys), j)
    BY <2>1, KeysLeft
  <2>4. new_devices # Absent
    BY AbsentIsNoList
  <2> HIDE DEF k
  <2>5. \A j \in Scenes :
          cache_entries'[j] = IF j = k /\ new_devices # {} THEN new_devices
                                                           ELSE cache_entries[j]
    BY <2>1, <2>2
  <2> QED
    BY <2>1, <2>2, <2>3, <2>4, <2>5
<1>11. CASE EndPass
  BY <1>11 DEF EndPass, PassDone
<1>12. CASE UNCHANGED vars
  BY <1>12 DEF vars
<1> QED
  BY <1>1, <1>2, <1>3, <1>4, <1>5, <1>6, <1>7, <1>8, <1>9, <1>10, <1>11, <1>12
     DEF Next, Loader, Environment, CacheRequest

-----------------------------------------------------------------------------
\* The inductive invariant: the list and the map agree, and each pass of the
\* loader keeps what it promises.
THEOREM CacheSafe == Spec => []CacheInv
<1>1. CacheInv /\ [Next]_vars => CacheInv'
  BY TypePreserved, ClientelePreserved, ListPreserved, PassPreserved DEF CacheInv
<1> QED
  BY InitCache, <1>1, PTL DEF Spec

\* Every variable of the cache keeps its type.
THEOREM CacheTypeOK == Spec => []TypeOK
<1>1. CacheInv => TypeOK
  BY DEF CacheInv
<1> QED
  BY CacheSafe, <1>1, PTL

\* remove_scene and add_scene leave no entry that is not listed.
THEOREM CacheEntryIsListed == Spec => []EntryIsListed
<1>1. CacheInv => EntryIsListed
  BY DEF CacheInv, ListMatchesEntries, EntryIsListed
<1> QED
  BY CacheSafe, <1>1, PTL

\* And no key that is listed once without an entry.
THEOREM CacheListedHasEntry == Spec => []ListedHasEntry
<1>1. CacheInv => ListedHasEntry
  BY DEF CacheInv, ListMatchesEntries, ListedHasEntry
<1> QED
  BY CacheSafe, <1>1, PTL

\* load_scenes stores under a scene only devices that registered to it.
THEOREM CacheOnlyClients == Spec => []OnlyClients
<1>1. CacheInv => OnlyClients
  BY DEF CacheInv, Clientele
<1> QED
  BY CacheSafe, <1>1, PTL

\* A pass of load_scenes brings in every device that was registered all along.
THEOREM CachePassDelivers == Spec => []PassDelivers
<1>1. CacheInv => PassDelivers
  <2>1. \A k \in Scenes : scene_keys = <<>> => ~Contains(scene_keys, k)
    BY EmptySeq DEF Contains
  <2> QED
    BY <2>1 DEF CacheInv, PassUnderWay, PassDelivers, PassDone
<1> QED
  BY CacheSafe, <1>1, PTL

\* And drops those that were not, if the scene kept a device.
THEOREM CachePassForgets == Spec => []PassForgets
<1>1. CacheInv => PassForgets
  <2>1. \A k \in Scenes : scene_keys = <<>> => ~Contains(scene_keys, k)
    BY EmptySeq DEF Contains
  <2> QED
    BY <2>1 DEF CacheInv, PassUnderWay, PassForgets, PassDone
<1> QED
  BY CacheSafe, <1>1, PTL

\* set_devices follows the null pointer of a missing entry only for a scene
\* that was removed during the pass or added twice.
THEOREM CacheCrashExplained == Spec => CrashExplained
<1> DEFINE Explained ==
      health = "ok" /\ health' = "crashed" /\ lpc = "loaded" /\ lpc' = "scene"
        => Head(scene_keys) \in removed \cup doubled
<1>1. CacheInv /\ [Next]_vars => [Explained]_vars
  <2> SUFFICES ASSUME CacheInv, [Next]_vars, health = "ok", health' = "crashed",
                      lpc = "loaded", lpc' = "scene"
               PROVE  Head(scene_keys) \in removed \cup doubled
    OBVIOUS
  <2>1. StoreDevices
    BY DEF Next, Loader, Environment, CacheRequest, vars, Register, Deregister, AddScene,
           RemoveScene, RemoveUnlistedScene, BeginListCopy, EndListCopy, QueryScene,
           QueryFails, EndPass, loaderVars
  <2>2. scene_keys # <<>> /\ scene_keys \in Seq(Scenes)
    BY DEF CacheInv, TypeOK, Clientele
  <2>3. Head(scene_keys) \in Scenes /\ Contains(scene_keys, Head(scene_keys))
    BY <2>2, HeadTailProperties, KeysLeft
  <2>4. cache_entries[Head(scene_keys)] = Absent
    BY <2>1 DEF StoreDevices
  <2> QED
    BY <2>3, <2>4 DEF CacheInv, PassUnderWay
<1> QED
  BY CacheSafe, <1>1, PTL DEF Spec, CrashExplained
=============================================================================

---------------------------- MODULE CacheProofs -----------------------------
(***************************************************************************)
(* Caches, the tokens kept in them and the keyed lock, for any keys,       *)
(* values, users and calls. A token that was returned and deleted stays    *)
(* gone; both caches do what the port promises, whenever the sweep of the  *)
(* one in memory runs; and the keyed lock excludes, and neither loses nor  *)
(* doubles the token of a key.                                             *)
(***************************************************************************)
EXTENDS RedisCache, TokenStore, CacheLock, TLAPS

-----------------------------------------------------------------------------
(* Reconnection tokens.                                                    *)

\* A token that is live or about to be deleted was issued; a token that was returned and
\* deleted is not live again.
TokenInv ==
  /\ live \in [CKey -> CValue \cup {CNone}]
  /\ payload \in [CKey -> CValue \cup {CNone}]
  /\ call \in [TCall -> {"no", "get", "delete", "valid", "invalid"}]
  /\ callKey \in [TCall -> CKey \cup {CNone}]
  /\ spentBefore \in [TCall -> SUBSET spent] /\ spent \subseteq CKey
  /\ \A k \in CKey : live[k] # CNone \/ k \in spent => payload[k] # CNone
  /\ \A k \in spent : k \in undeleted \/ live[k] = CNone
  /\ \A v \in TCall : call[v] # "no" => callKey[v] \in CKey
  /\ \A v \in TCall : call[v] = "delete" => payload[callKey[v]] # CNone
  /\ NoReuseAfterReturn

\* Issue picks an id that was not issued before, so none that was returned.
LEMMA IssueInv == ASSUME TokenInv, NEW k \in CKey, NEW p \in CValue, Issue(k, p) PROVE TokenInv'
<1>1. /\ payload[k] = CNone /\ live' = [live EXCEPT ![k] = p] /\ payload' = [payload EXCEPT ![k] = p]
      /\ UNCHANGED <<call, callKey, spent, spentBefore, undeleted>>
  BY Zenon DEF Issue, CSet, callVars
<1>2. p # CNone
  BY CacheAssumption, Zenon
<1>3. k \notin spent
  BY <1>1, Zenon DEF TokenInv
<1> QED
  BY <1>1, <1>2, <1>3, Zenon DEF TokenInv, NoReuseAfterReturn

\* Validate begins: it knows the tokens returned so far.
LEMMA ValidateInv == ASSUME TokenInv, NEW v \in TCall, NEW k \in CKey, Validate(v, k) PROVE TokenInv'
<1>1. /\ call[v] = "no" /\ call' = [call EXCEPT ![v] = "get"] /\ callKey' = [callKey EXCEPT ![v] = k]
      /\ spentBefore' = [spentBefore EXCEPT ![v] = spent]
      /\ UNCHANGED <<live, payload, spent, undeleted>>
  BY Zenon DEF Validate, cacheVars
<1>2. ASSUME NEW w \in TCall
      PROVE  /\ call'[w] # "no" => callKey'[w] \in CKey
             /\ call'[w] = "delete" => payload'[callKey'[w]] # CNone
             /\ call'[w] \in {"delete", "valid"} /\ callKey'[w] \in spentBefore'[w] => callKey'[w] \in undeleted'
  <2>1. CASE w = v
    BY <1>1, <2>1, Zenon DEF TokenInv
  <2>2. CASE w # v
    BY <1>1, <2>2, Zenon DEF TokenInv, NoReuseAfterReturn
  <2> QED
    BY <2>1, <2>2, Zenon
<1>3. /\ call' \in [TCall -> {"no", "get", "delete", "valid", "invalid"}]
      /\ callKey' \in [TCall -> CKey \cup {CNone}] /\ spentBefore' \in [TCall -> SUBSET spent']
  BY <1>1, Zenon DEF TokenInv
<1> QED
  BY <1>1, <1>2, <1>3, Zenon DEF TokenInv, NoReuseAfterReturn

\* Get finds a token that is live: one that was returned before is not, or was not deleted.
LEMMA ValidateGetInv == ASSUME TokenInv, NEW v \in TCall, ValidateGet(v) PROVE TokenInv'
<1>1. /\ call[v] = "get" /\ UNCHANGED <<live, payload, callKey, spent, spentBefore, undeleted>>
      /\ \/ live[callKey[v]] # CNone /\ call' = [call EXCEPT ![v] = "delete"]
         \/ call' = [call EXCEPT ![v] = "invalid"]
  BY Zenon DEF ValidateGet, cacheVars
<1>2. callKey[v] \in CKey
  BY <1>1, Zenon DEF TokenInv
<1>3. live[callKey[v]] # CNone /\ callKey[v] \in spentBefore[v] => callKey[v] \in undeleted
  BY <1>2, Zenon DEF TokenInv
<1>4. ASSUME NEW w \in TCall
      PROVE  /\ call'[w] # "no" => callKey[w] \in CKey
             /\ call'[w] = "delete" => payload[callKey[w]] # CNone
             /\ call'[w] \in {"delete", "valid"} /\ callKey[w] \in spentBefore[w] => callKey[w] \in undeleted
  <2>1. CASE w = v
    BY <1>1, <1>2, <1>3, <2>1, Zenon DEF TokenInv
  <2>2. CASE w # v
    BY <1>1, <2>2, Zenon DEF TokenInv, NoReuseAfterReturn
  <2> QED
    BY <2>1, <2>2, Zenon
<1>5. call' \in [TCall -> {"no", "get", "delete", "valid", "invalid"}]
  BY <1>1, Zenon DEF TokenInv
<1> QED
  BY <1>1, <1>4, <1>5, Zenon DEF TokenInv, NoReuseAfterReturn

\* Delete: the token is gone, or the cache has refused.
LEMMA ValidateDeleteInv == ASSUME TokenInv, NEW v \in TCall, ValidateDelete(v) PROVE TokenInv'
<1> DEFINE k == callKey[v]
<1>1. /\ call[v] = "delete" /\ UNCHANGED <<payload, callKey, spentBefore>>
      /\ \/ call' = [call EXCEPT ![v] = "valid"] /\ spent' = spent \cup {k}
         \/ call' = [call EXCEPT ![v] = "invalid"] /\ spent' = spent
      /\ \/ live' = [live EXCEPT ![k] = CNone] /\ undeleted' = undeleted
         \/ live' = live /\ undeleted' = undeleted \cup {k}
  BY Zenon DEF ValidateDelete, CDelete, cacheVars
<1>2. k \in CKey /\ payload[k] # CNone
  BY <1>1, Zenon DEF TokenInv
<1>3. ASSUME NEW w \in TCall
      PROVE  /\ call'[w] # "no" => callKey[w] \in CKey
             /\ call'[w] = "delete" => payload[callKey[w]] # CNone
             /\ call'[w] \in {"delete", "valid"} /\ callKey[w] \in spentBefore[w] => callKey[w] \in undeleted'
  <2>1. call'[w] # "no" => call[w] # "no"
    BY <1>1, Zenon DEF TokenInv
  <2>2. call'[w] \in {"delete", "valid"} => call[w] \in {"delete", "valid"}
    BY <1>1, Zenon DEF TokenInv
  <2>3. call'[w] = "delete" => call[w] = "delete"
    BY <1>1, Zenon DEF TokenInv
  <2> QED
    BY <1>1, <2>1, <2>2, <2>3, Zenon DEF TokenInv, NoReuseAfterReturn
<1> HIDE DEF k
<1>4. /\ live' \in [CKey -> CValue \cup {CNone}] /\ spent' \subseteq CKey
      /\ \A q \in CKey : live'[q] # CNone => live[q] # CNone
      /\ k \in undeleted' \/ live'[k] = CNone
      /\ spentBefore' \in [TCall -> SUBSET spent']
      /\ call' \in [TCall -> {"no", "get", "delete", "valid", "invalid"}]
  BY <1>1, <1>2, Zenon DEF TokenInv
<1> QED
  BY <1>1, <1>2, <1>3, <1>4, Zenon DEF TokenInv, NoReuseAfterReturn

\* Time passes.
LEMMA TSTickInv == ASSUME TokenInv, TSTick PROVE TokenInv'
<1>1. /\ live' = [k \in CKey |-> IF left[k] = 1 THEN CNone ELSE live[k]]
      /\ UNCHANGED <<payload, call, callKey, spent, spentBefore, undeleted>>
  BY Zenon DEF TSTick, CTick, callVars
<1> QED
  BY <1>1, Zenon DEF TokenInv, NoReuseAfterReturn

\* A token that Validate has returned is refused by every call that begins later, for any
\* number of tokens and calls, unless the cache refused the Delete.
THEOREM TokensAreSpentOnce == TSSpec => []NoReuseAfterReturn
<1>1. TSInit => TokenInv
  BY Zenon DEF TSInit, CInit, TokenInv, NoReuseAfterReturn
<1>2. TokenInv /\ [TSNext]_tsVars => TokenInv'
  <2>1. TokenInv /\ UNCHANGED tsVars => TokenInv'
    BY Zenon DEF tsVars, cacheVars, TokenInv, NoReuseAfterReturn
  <2> QED
    BY <2>1, IssueInv, ValidateInv, ValidateGetInv, ValidateDeleteInv, TSTickInv, Zenon DEF TSNext
<1>3. TokenInv => NoReuseAfterReturn
  BY Zenon DEF TokenInv
<1> QED
  BY <1>1, <1>2, <1>3, PTL DEF TSSpec

-----------------------------------------------------------------------------
(* The memory cache.                                                       *)

\* The maps of the cache hold what the port's operations put there.
MemoryType ==
  /\ entries \in [CKey -> CacheEntry \cup {CNone}]
  /\ mcSets \in [CKey -> (SUBSET CMember) \cup {CNone}]

\* What the port sees of an entry.
ShowValue(e) == IF e = CNone \/ Expired(e) THEN CNone ELSE e.value
ShowLeft(e) == IF ShowValue(e) = CNone THEN CForever ELSE e.left
ShowSet(s) == IF s = CNone THEN {} ELSE s

PortLive == [k \in CKey |-> ShowValue(entries[k])]
PortLeft == [k \in CKey |-> ShowLeft(entries[k])]
PortMembers == [k \in CKey |-> ShowSet(mcSets[k])]

\* CNone is neither an entry nor a value, and no entry is at once live and gone.
LEMMA NoneIsNothing ==
  /\ CNone \notin CacheValue
  /\ CForever # 0 /\ CForever # 1 /\ CForever \notin Int
  /\ CNone \notin SUBSET CMember /\ CNone \notin CacheEntry
  /\ \A e \in CacheEntry : e.value \in CacheValue /\ e.left \in Nat \cup {CForever} /\ e.value # CNone
  BY CacheAssumption, EntryAssumption DEF CacheValue, CacheEntry

\* The refinement mapping in the terms above, before and after a step.
LEMMA PortIs ==
  /\ [k \in CKey |-> GetLive(k)] = PortLive
  /\ [k \in CKey |-> IF GetLive(k) = CNone THEN CForever ELSE entries[k].left] = PortLeft
  /\ [k \in CKey |-> SetMembersOf(k)] = PortMembers
  /\ [k \in CKey |-> GetLive(k)]' = PortLive'
  /\ [k \in CKey |-> IF GetLive(k) = CNone THEN CForever ELSE entries[k].left]' = PortLeft'
  /\ [k \in CKey |-> SetMembersOf(k)]' = PortMembers'
  BY Zenon DEF GetLive, SetMembersOf, PortLive, PortLeft, PortMembers, ShowValue, ShowLeft, ShowSet

\* Sweeping expired entries does not show.
LEMMA SweepDoesNotShow ==
  ASSUME NEW es \in [CKey -> CacheEntry \cup {CNone}]
  PROVE  /\ Sweep(es) \in [CKey -> CacheEntry \cup {CNone}]
         /\ \A k \in CKey : ShowValue(Sweep(es)[k]) = ShowValue(es[k]) /\ ShowLeft(Sweep(es)[k]) = ShowLeft(es[k])
  BY Zenon DEF Sweep, ShowValue, ShowLeft

\* Set, with or without a sweep.
LEMMA SetStep ==
  ASSUME MemoryType, NEW k \in CKey, NEW v \in CacheValue, NEW ttl \in CTTL, MCSet(k, v, ttl)
  PROVE  MemoryType' /\ Port!CSet(k, v, ttl)
<1> DEFINE entry == [value |-> v, left |-> IF ttl > 0 THEN ttl ELSE CForever]
           es == [entries EXCEPT ![k] = entry]
<1>1. entries' \in {es, Sweep(es)} /\ UNCHANGED mcSets
  BY Zenon DEF MCSet
<1>2. /\ entry \in CacheEntry /\ entry # CNone /\ ~Expired(entry)
      /\ ShowValue(entry) = v /\ ShowLeft(entry) = IF ttl > 0 THEN ttl ELSE CForever
  <2>1. ttl \in Nat
    BY CacheAssumption, Zenon
  <2>2. entry \in CacheEntry
    BY <2>1, Zenon DEF CacheEntry
  <2>3. entry # CNone /\ ~Expired(entry) /\ v # CNone
    BY <2>1, <2>2, NoneIsNothing, CacheAssumption DEF Expired
  <2> QED
    BY <2>2, <2>3, Zenon DEF ShowValue, ShowLeft
<1> HIDE DEF entry
<1>3. es \in [CKey -> CacheEntry \cup {CNone}] /\ es[k] = entry /\ \A q \in CKey : q # k => es[q] = entries[q]
  BY <1>2, Zenon DEF MemoryType
<1> HIDE DEF es
<1>4. /\ entries' \in [CKey -> CacheEntry \cup {CNone}]
      /\ \A q \in CKey : ShowValue(entries'[q]) = ShowValue(es[q]) /\ ShowLeft(entries'[q]) = ShowLeft(es[q])
  BY <1>1, <1>3, SweepDoesNotShow
<1>5. PortLive' = [PortLive EXCEPT ![k] = v]
  BY <1>2, <1>3, <1>4, Zenon DEF PortLive
<1>6. PortLeft' = [PortLeft EXCEPT ![k] = IF ttl > 0 THEN ttl ELSE CForever]
  BY <1>2, <1>3, <1>4, Zenon DEF PortLeft
<1>7. PortMembers' = PortMembers
  BY <1>1, Zenon DEF PortMembers
<1>8. MemoryType'
  BY <1>1, <1>4, Zenon DEF MemoryType
<1> QED
  BY <1>5, <1>6, <1>7, <1>8, PortIs, Zenon DEF Port!CSet

\* Increment: an expired entry is replaced by one without expiry, a live one keeps its own.
LEMMA IncrementStep ==
  ASSUME MemoryType, NEW k \in CKey, MCIncrement(k)
  PROVE  MemoryType' /\ Port!CIncrement(k)
<1> DEFINE e == entries[k]
           fresh == e = CNone \/ Expired(e)
           old == IF fresh THEN [value |-> 0, left |-> CForever] ELSE e
           new == [old EXCEPT !.value = @ + 1]
<1>1. /\ mcSets[k] = CNone /\ old.value \in 0 .. (CMaxInt - 1)
      /\ entries' = [entries EXCEPT ![k] = new] /\ UNCHANGED mcSets
  BY Zenon DEF MCIncrement
<1>2. /\ CMaxInt \in Nat /\ old \in CacheEntry /\ ShowLeft(e) = old.left
      /\ ShowValue(e) = CNone \/ ShowValue(e) \in 0 .. (CMaxInt - 1)
      /\ old.value + 1 = IF ShowValue(e) = CNone THEN 1 ELSE ShowValue(e) + 1
      /\ ~(old.left = 0)
  <2>1. CMaxInt \in Nat
    BY CacheAssumption, Zenon
  <2>2. CASE fresh
    <3>1. old = [value |-> 0, left |-> CForever] /\ ShowValue(e) = CNone /\ ShowLeft(e) = CForever
      BY <2>2, Zenon DEF ShowValue, ShowLeft
    <3>2. old \in CacheEntry
      BY <2>1, <3>1 DEF CacheEntry, CacheValue
    <3> QED
      BY <2>1, <3>1, <3>2, NoneIsNothing
  <2>3. CASE ~fresh
    <3>1. old = e /\ e \in CacheEntry /\ ~Expired(e)
      BY <2>3, Zenon DEF MemoryType
    <3>2. ShowValue(e) = e.value /\ e.value # CNone
      BY <2>3, <3>1, NoneIsNothing, Zenon DEF ShowValue
    <3>3. ShowLeft(e) = e.left
      BY <3>2, Zenon DEF ShowLeft
    <3> HIDE DEF old, e
    <3> QED
      BY <1>1, <2>1, <3>1, <3>2, <3>3, Zenon DEF Expired
  <2> HIDE DEF fresh
  <2> QED
    BY <2>2, <2>3, Zenon
<1> HIDE DEF old
<1>3. new \in CacheEntry /\ new.value = old.value + 1 /\ new.left = old.left
  BY <1>1, <1>2 DEF CacheEntry, CacheValue
<1> HIDE DEF new
<1>4. ShowValue(new) = old.value + 1 /\ ShowLeft(new) = old.left
  BY <1>2, <1>3, NoneIsNothing, Zenon DEF ShowValue, ShowLeft, Expired
<1>5. MemoryType'
  BY <1>1, <1>3, Zenon DEF MemoryType
<1>6. PortLive' = [PortLive EXCEPT ![k] = IF @ = CNone THEN 1 ELSE @ + 1]
  <2>1. \A q \in CKey : ShowValue(entries'[q]) =
          IF q = k THEN (IF ShowValue(e) = CNone THEN 1 ELSE ShowValue(e) + 1) ELSE ShowValue(entries[q])
    BY <1>1, <1>2, <1>4, Zenon DEF MemoryType
  <2> HIDE DEF e
  <2> QED
    BY <2>1, Zenon DEF PortLive, e
<1>7. PortLeft' = PortLeft
  BY <1>1, <1>2, <1>4, Zenon DEF MemoryType, PortLeft
<1>8. PortMembers' = PortMembers /\ PortMembers[k] = {}
  BY <1>1, Zenon DEF PortMembers, ShowSet
<1>9. PortLive[k] = CNone \/ PortLive[k] \in 0 .. (CMaxInt - 1)
  BY <1>2, Zenon DEF PortLive
<1> QED
  BY <1>5, <1>6, <1>7, <1>8, <1>9, PortIs, Zenon DEF Port!CIncrement

\* Delete.
LEMMA DeleteStep == ASSUME MemoryType, NEW k \in CKey, MCDelete(k) PROVE MemoryType' /\ Port!CDelete(k)
<1>1. entries' = [entries EXCEPT ![k] = CNone] /\ mcSets' = [mcSets EXCEPT ![k] = CNone]
  BY Zenon DEF MCDelete
<1>2. MemoryType'
  BY <1>1, Zenon DEF MemoryType
<1>3. ShowValue(CNone) = CNone /\ ShowLeft(CNone) = CForever /\ ShowSet(CNone) = {}
  BY Zenon DEF ShowValue, ShowLeft, ShowSet
<1>4. PortLive' = [PortLive EXCEPT ![k] = CNone] /\ PortLeft' = [PortLeft EXCEPT ![k] = CForever]
  BY <1>1, <1>3, Zenon DEF MemoryType, PortLive, PortLeft
<1>5. PortMembers' = [PortMembers EXCEPT ![k] = {}]
  BY <1>1, <1>3, Zenon DEF MemoryType, PortMembers
<1> QED
  BY <1>2, <1>4, <1>5, PortIs, Zenon DEF Port!CDelete

\* The sets: an empty one is not kept.
LEMMA SetMemberSteps ==
  ASSUME MemoryType, NEW k \in CKey, NEW m \in CMember
  PROVE  /\ MCSetAddOnce(k, m) => MemoryType' /\ Port!CSetAddOnce(k, m)
         /\ MCSetRemove(k, m) => MemoryType' /\ Port!CSetRemove(k, m)
<1>1. ASSUME NEW s \in (SUBSET CMember) \cup {CNone}, mcSets' = [mcSets EXCEPT ![k] = s], UNCHANGED entries
      PROVE  /\ MemoryType' /\ PortLive' = PortLive /\ PortLeft' = PortLeft
             /\ PortMembers' = [PortMembers EXCEPT ![k] = ShowSet(s)]
  BY <1>1, Zenon DEF MemoryType, PortLive, PortLeft, PortMembers
<1>2. ASSUME MCSetAddOnce(k, m) PROVE MemoryType' /\ Port!CSetAddOnce(k, m)
  <2> DEFINE s == SetMembersOf(k) \cup {m}
  <2>1. s \in SUBSET CMember /\ s # CNone /\ PortMembers[k] = SetMembersOf(k)
    BY NoneIsNothing, Zenon DEF MemoryType, SetMembersOf, PortMembers, ShowSet
  <2>2. mcSets' = [mcSets EXCEPT ![k] = s] /\ UNCHANGED entries
    BY <1>2, Zenon DEF MCSetAddOnce
  <2>3. ShowSet(s) = PortMembers[k] \cup {m}
    BY <2>1, Zenon DEF ShowSet
  <2> HIDE DEF s
  <2>4. PortMembers' = [PortMembers EXCEPT ![k] = @ \cup {m}] /\ MemoryType' /\ PortLive' = PortLive /\ PortLeft' = PortLeft
    BY <1>1, <2>1, <2>2, <2>3, Zenon
  <2> QED
    BY <2>4, PortIs, Zenon DEF Port!CSetAddOnce
<1>3. ASSUME MCSetRemove(k, m) PROVE MemoryType' /\ Port!CSetRemove(k, m)
  <2> DEFINE s == IF mcSets[k] = {m} THEN CNone ELSE mcSets[k] \ {m}
  <2>1. mcSets[k] \in SUBSET CMember /\ mcSets[k] # CNone /\ PortMembers[k] = mcSets[k]
    BY <1>3, Zenon DEF MemoryType, MCSetRemove, PortMembers, ShowSet
  <2>2. mcSets' = [mcSets EXCEPT ![k] = s] /\ UNCHANGED entries
    BY <1>3, Zenon DEF MCSetRemove
  <2>3. s \in (SUBSET CMember) \cup {CNone} /\ ShowSet(s) = PortMembers[k] \ {m}
    BY <2>1, NoneIsNothing, Zenon DEF ShowSet
  <2> HIDE DEF s
  <2>4. PortMembers' = [PortMembers EXCEPT ![k] = @ \ {m}] /\ MemoryType' /\ PortLive' = PortLive /\ PortLeft' = PortLeft
    BY <1>1, <2>2, <2>3, Zenon
  <2> QED
    BY <2>4, PortIs, Zenon DEF Port!CSetRemove
<1> QED
  BY <1>2, <1>3, Zenon

\* Close.
LEMMA CloseStep == ASSUME MemoryType, MCClose PROVE MemoryType' /\ Port!CClose
<1>1. entries' = [k \in CKey |-> CNone] /\ mcSets' = [k \in CKey |-> CNone]
  BY Zenon DEF MCClose
<1>2. ShowValue(CNone) = CNone /\ ShowLeft(CNone) = CForever /\ ShowSet(CNone) = {}
  BY Zenon DEF ShowValue, ShowLeft, ShowSet
<1>3. /\ PortLive' = [k \in CKey |-> CNone] /\ PortLeft' = [k \in CKey |-> CForever]
      /\ PortMembers' = [k \in CKey |-> {}]
  BY <1>1, <1>2, Zenon DEF PortLive, PortLeft, PortMembers
<1> QED
  BY <1>1, <1>3, PortIs, Zenon DEF Port!CClose, MemoryType

\* A tick: the entry that expires stops showing, and stays.
LEMMA TickStep == ASSUME MemoryType, MCTick PROVE MemoryType' /\ Port!CTick
<1> DEFINE aged(e) == IF e = CNone \/ e.left \in {0, CForever} THEN e ELSE [e EXCEPT !.left = @ - 1]
<1>1. entries' = [k \in CKey |-> aged(entries[k])] /\ UNCHANGED mcSets
  BY Zenon DEF MCTick
<1>2. ASSUME NEW e \in CacheEntry \cup {CNone}
      PROVE  /\ aged(e) \in CacheEntry \cup {CNone}
             /\ ShowValue(aged(e)) = IF ShowLeft(e) = 1 THEN CNone ELSE ShowValue(e)
             /\ ShowLeft(aged(e)) = IF ShowLeft(e) \in {1, CForever} THEN CForever ELSE ShowLeft(e) - 1
  <2>1. CASE e = CNone
    BY <2>1, NoneIsNothing, Zenon DEF ShowValue, ShowLeft
  <2>2. CASE e # CNone /\ e.left \in {0, CForever}
    <3>1. aged(e) = e /\ e \in CacheEntry /\ e.value # CNone
      BY <2>2, NoneIsNothing, Zenon
    <3>2. ShowLeft(e) = CForever
      BY <2>2, <3>1, NoneIsNothing, Zenon DEF ShowLeft, ShowValue, Expired
    <3> HIDE DEF aged
    <3> QED
      BY <2>2, <3>1, <3>2, NoneIsNothing, Zenon
  <2>3. CASE e # CNone /\ e.left \notin {0, CForever}
    <3>1. e \in CacheEntry /\ e.value # CNone /\ e.left \in Nat \ {0}
      BY <2>3, NoneIsNothing, Zenon
    <3>2. aged(e) \in CacheEntry /\ aged(e).value = e.value /\ aged(e).left = e.left - 1 /\ e.left - 1 \in Nat
      BY <2>3, <3>1 DEF CacheEntry
    <3>3. ShowValue(e) = e.value /\ ShowLeft(e) = e.left
      BY <2>3, <3>1, Zenon DEF ShowValue, ShowLeft, Expired
    <3> HIDE DEF aged
    <3>4. aged(e) # CNone
      BY <3>2, NoneIsNothing, Zenon
    <3>5. e.left # CForever /\ (e.left - 1 = 0 <=> e.left = 1)
      BY <2>3, <3>1
    <3>6. ShowValue(aged(e)) = IF e.left = 1 THEN CNone ELSE e.value
      BY <3>2, <3>4, <3>5, Zenon DEF ShowValue, Expired
    <3>7. ShowLeft(aged(e)) = IF e.left = 1 THEN CForever ELSE e.left - 1
      BY <3>1, <3>2, <3>6, Zenon DEF ShowLeft
    <3> QED
      BY <3>2, <3>3, <3>5, <3>6, <3>7, Zenon
  <2> QED
    BY <2>1, <2>2, <2>3, Zenon
<1> HIDE DEF aged
<1>3. \A k \in CKey : entries[k] \in CacheEntry \cup {CNone} /\ entries'[k] = aged(entries[k])
  BY <1>1, Zenon DEF MemoryType
<1>4. MemoryType'
  BY <1>1, <1>2, <1>3, Zenon DEF MemoryType
<1>5. PortLive' = [k \in CKey |-> IF PortLeft[k] = 1 THEN CNone ELSE PortLive[k]]
  BY <1>2, <1>3, Zenon DEF PortLive, PortLeft
<1>6. PortLeft' = [k \in CKey |-> IF PortLeft[k] \in {1, CForever} THEN CForever ELSE PortLeft[k] - 1]
  BY <1>2, <1>3, Zenon DEF PortLeft
<1>7. PortMembers' = PortMembers
  BY <1>1, Zenon DEF PortMembers
<1> QED
  BY <1>4, <1>5, <1>6, <1>7, PortIs DEF Port!CTick

\* The memory cache implements the port's.
LEMMA CacheImplementsPort == MCSpec => ImplementsCache
<1>1. MCInit => MemoryType /\ Port!CInit
  <2> SUFFICES ASSUME MCInit PROVE MemoryType /\ Port!CInit
    BY Zenon
  <2>1. entries = [k \in CKey |-> CNone] /\ mcSets = [k \in CKey |-> CNone]
    BY Zenon DEF MCInit
  <2>2. PortLive = [k \in CKey |-> CNone] /\ PortLeft = [k \in CKey |-> CForever] /\ PortMembers = [k \in CKey |-> {}]
    BY <2>1, Zenon DEF PortLive, PortLeft, PortMembers, ShowValue, ShowLeft, ShowSet
  <2> QED
    BY <2>1, <2>2, PortIs, Zenon DEF Port!CInit, MemoryType
<1>2. MemoryType /\ [MCNext]_mcVars => MemoryType' /\ [Port!CNext]_(Port!cacheVars)
  <2> SUFFICES ASSUME MemoryType, [MCNext]_mcVars PROVE MemoryType' /\ [Port!CNext]_(Port!cacheVars)
    BY Zenon
  <2>1. ASSUME NEW k \in CKey, NEW v \in CacheValue, NEW ttl \in CTTL, MCSet(k, v, ttl) PROVE MemoryType' /\ Port!CNext
    BY <2>1, SetStep, Zenon DEF Port!CNext, CacheValue
  <2>2. ASSUME NEW k \in CKey, MCIncrement(k) PROVE MemoryType' /\ Port!CNext
    BY <2>2, IncrementStep, Zenon DEF Port!CNext
  <2>3. ASSUME NEW k \in CKey, MCDelete(k) PROVE MemoryType' /\ Port!CNext
    BY <2>3, DeleteStep, Zenon DEF Port!CNext
  <2>4. ASSUME NEW k \in CKey, NEW m \in CMember, MCSetAddOnce(k, m) \/ MCSetRemove(k, m) PROVE MemoryType' /\ Port!CNext
    BY <2>4, SetMemberSteps, Zenon DEF Port!CNext
  <2>5. CASE MCClose
    BY <2>5, CloseStep, Zenon DEF Port!CNext
  <2>6. CASE MCTick
    BY <2>6, TickStep, Zenon DEF Port!CNext
  <2>7. CASE UNCHANGED mcVars
    BY <2>7, Zenon DEF mcVars, MemoryType, Port!cacheVars, GetLive, SetMembersOf
  <2> QED
    BY <2>1, <2>2, <2>3, <2>4, <2>5, <2>6, <2>7, Zenon DEF MCNext
<1> QED
  BY <1>1, <1>2, PTL DEF MCSpec, ImplementsCache, Port!CacheSpec

-----------------------------------------------------------------------------
(* The Redis cache.                                                        *)

\* A string that is there has a time to live left, or none.
RedisString == [value : CacheValue, left : (Nat \ {0}) \cup {CForever}]

RedisType ==
  /\ strings \in [CKey -> RedisString \cup {CNone}]
  /\ redisSets \in [CKey -> SUBSET CMember]

\* What the port sees of a string.
StringValue(s) == IF s = CNone THEN CNone ELSE s.value
StringLeft(s) == IF s = CNone THEN CForever ELSE s.left

RedisLive == [k \in CKey |-> StringValue(strings[k])]
RedisLeft == [k \in CKey |-> StringLeft(strings[k])]

\* The refinement mapping in the terms above, before and after a step.
LEMMA RedisPortIs ==
  /\ [k \in CKey |-> IF strings[k] = CNone THEN CNone ELSE strings[k].value] = RedisLive
  /\ [k \in CKey |-> IF strings[k] = CNone THEN CForever ELSE strings[k].left] = RedisLeft
  /\ [k \in CKey |-> IF strings[k] = CNone THEN CNone ELSE strings[k].value]' = RedisLive'
  /\ [k \in CKey |-> IF strings[k] = CNone THEN CForever ELSE strings[k].left]' = RedisLeft'
  BY Zenon DEF RedisLive, RedisLeft, StringValue, StringLeft

\* A string is an entry, so it is not CNone, and neither is its value.
LEMMA StringsAreEntries ==
  \A s \in RedisString : s # CNone /\ s.value # CNone /\ s.left \in (Nat \ {0}) \cup {CForever}
<1>1. RedisString \subseteq CacheEntry
  BY DEF RedisString, CacheEntry
<1> QED
  BY <1>1, NoneIsNothing, Zenon DEF RedisString

\* One string is written: the port sees its value and its time to live.
LEMMA StringWritten ==
  ASSUME RedisType, NEW k \in CKey, NEW s \in RedisString \cup {CNone}, strings' = [strings EXCEPT ![k] = s]
  PROVE  /\ strings' \in [CKey -> RedisString \cup {CNone}]
         /\ RedisLive' = [RedisLive EXCEPT ![k] = StringValue(s)]
         /\ RedisLeft' = [RedisLeft EXCEPT ![k] = StringLeft(s)]
  BY Zenon DEF RedisType, RedisLive, RedisLeft

\* SET and DEL: the set under the key is gone too.
LEMMA RedisSetStep ==
  ASSUME RedisType, NEW k \in CKey, NEW v \in CacheValue, NEW ttl \in CTTL, RCSet(k, v, ttl)
  PROVE  RedisType' /\ RedisPort!CSet(k, v, ttl)
<1> DEFINE s == [value |-> v, left |-> IF ttl > 0 THEN ttl ELSE CForever]
<1>1. strings' = [strings EXCEPT ![k] = s] /\ redisSets' = [redisSets EXCEPT ![k] = {}]
  BY Zenon DEF RCSet
<1>2. s \in RedisString /\ s.value = v /\ s.left = IF ttl > 0 THEN ttl ELSE CForever
  <2>1. ttl \in Nat
    BY CacheAssumption, Zenon
  <2> QED
    BY <2>1 DEF RedisString
<1> HIDE DEF s
<1>3. StringValue(s) = v /\ StringLeft(s) = IF ttl > 0 THEN ttl ELSE CForever
  BY <1>2, StringsAreEntries, Zenon DEF StringValue, StringLeft
<1>4. RedisType'
  BY <1>1, <1>2, Zenon DEF RedisType
<1>5. s \in RedisString \cup {CNone}
  BY <1>2, Zenon
<1>6. RedisLive' = [RedisLive EXCEPT ![k] = StringValue(s)] /\ RedisLeft' = [RedisLeft EXCEPT ![k] = StringLeft(s)]
  BY <1>1, <1>5, StringWritten
<1> QED
  BY <1>1, <1>3, <1>4, <1>6, RedisPortIs, Zenon DEF RedisPort!CSet

LEMMA RedisDeleteStep ==
  ASSUME RedisType, NEW k \in CKey, RCDelete(k) PROVE RedisType' /\ RedisPort!CDelete(k)
<1>1. strings' = [strings EXCEPT ![k] = CNone] /\ redisSets' = [redisSets EXCEPT ![k] = {}]
  BY Zenon DEF RCDelete
<1>2. RedisType'
  BY <1>1, Zenon DEF RedisType
<1>3. RedisLive' = [RedisLive EXCEPT ![k] = CNone] /\ RedisLeft' = [RedisLeft EXCEPT ![k] = CForever]
  BY <1>1, StringWritten, Zenon DEF StringValue, StringLeft
<1> QED
  BY <1>1, <1>2, <1>3, RedisPortIs, Zenon DEF RedisPort!CDelete

\* INCR keeps the time to live.
LEMMA RedisIncrementStep ==
  ASSUME RedisType, NEW k \in CKey, RCIncrement(k) PROVE RedisType' /\ RedisPort!CIncrement(k)
<1> DEFINE old == IF strings[k] = CNone THEN [value |-> 0, left |-> CForever] ELSE strings[k]
           new == [old EXCEPT !.value = @ + 1]
<1>1. /\ redisSets[k] = {} /\ old.value \in 0 .. (CMaxInt - 1)
      /\ strings' = [strings EXCEPT ![k] = new] /\ UNCHANGED redisSets
  BY Zenon DEF RCIncrement
<1>2. CMaxInt \in Nat
  BY CacheAssumption, Zenon
<1>3. /\ old \in RedisString /\ old.left = RedisLeft[k]
      /\ old.value + 1 = IF RedisLive[k] = CNone THEN 1 ELSE RedisLive[k] + 1
      /\ RedisLive[k] = CNone \/ RedisLive[k] \in 0 .. (CMaxInt - 1)
  <2>1. CASE strings[k] = CNone
    <3>1. old = [value |-> 0, left |-> CForever] /\ RedisLive[k] = CNone /\ RedisLeft[k] = CForever
      BY <2>1, Zenon DEF RedisLive, RedisLeft, StringValue, StringLeft
    <3> HIDE DEF old
    <3> QED
      BY <1>2, <3>1 DEF RedisString, CacheValue
  <2>2. CASE strings[k] # CNone
    <3>1. old = strings[k] /\ strings[k] \in RedisString
      BY <2>2, Zenon DEF RedisType
    <3>2. RedisLive[k] = old.value /\ RedisLeft[k] = old.left /\ old.value # CNone
      BY <2>2, <3>1, StringsAreEntries, Zenon DEF RedisLive, RedisLeft, StringValue, StringLeft
    <3> HIDE DEF old
    <3> QED
      BY <1>1, <3>1, <3>2, Zenon
  <2> QED
    BY <2>1, <2>2, Zenon
<1> HIDE DEF old
<1>4. new \in RedisString /\ new.value = old.value + 1 /\ new.left = old.left
  BY <1>1, <1>2, <1>3 DEF RedisString, CacheValue
<1> HIDE DEF new
<1>5. StringValue(new) = old.value + 1 /\ StringLeft(new) = old.left
  BY <1>4, StringsAreEntries, Zenon DEF StringValue, StringLeft
<1>6. RedisType'
  BY <1>1, <1>4, Zenon DEF RedisType
<1>7. RedisLive' = [RedisLive EXCEPT ![k] = old.value + 1] /\ RedisLeft' = [RedisLeft EXCEPT ![k] = old.left]
  <2>1. new \in RedisString \cup {CNone}
    BY <1>4, Zenon
  <2> QED
    BY <1>1, <1>5, <2>1, StringWritten
<1>8. RedisLeft' = RedisLeft
  BY <1>3, <1>7, Zenon DEF RedisLeft
<1>9. RedisLive' = [RedisLive EXCEPT ![k] = IF @ = CNone THEN 1 ELSE @ + 1]
  BY <1>3, <1>7, Zenon DEF RedisLive
<1> QED
  BY <1>1, <1>3, <1>6, <1>8, <1>9, RedisPortIs, Zenon DEF RedisPort!CIncrement

\* SADD and SREM.
LEMMA RedisMemberSteps ==
  ASSUME RedisType, NEW k \in CKey, NEW m \in CMember
  PROVE  /\ RCSetAddOnce(k, m) => RedisType' /\ RedisPort!CSetAddOnce(k, m)
         /\ RCSetRemove(k, m) => RedisType' /\ RedisPort!CSetRemove(k, m)
<1>1. ASSUME RCSetAddOnce(k, m) PROVE RedisType' /\ RedisPort!CSetAddOnce(k, m)
  BY <1>1, Zenon DEF RCSetAddOnce, RedisType, RedisPort!CSetAddOnce
<1>2. ASSUME RCSetRemove(k, m) PROVE RedisType' /\ RedisPort!CSetRemove(k, m)
  BY <1>2, Zenon DEF RCSetRemove, RedisType, RedisPort!CSetRemove
<1> QED
  BY <1>1, <1>2, Zenon

\* A tick: what Redis drops is what had one tick left.
LEMMA RedisTickStep == ASSUME RedisType, RCTick PROVE RedisType' /\ RedisPort!CTick
<1> DEFINE aged(s) == IF s = CNone \/ s.left = CForever THEN s
                      ELSE IF s.left = 1 THEN CNone ELSE [s EXCEPT !.left = @ - 1]
<1>1. strings' = [k \in CKey |-> aged(strings[k])] /\ UNCHANGED redisSets
  BY Zenon DEF RCTick
<1>2. ASSUME NEW s \in RedisString \cup {CNone}
      PROVE  /\ aged(s) \in RedisString \cup {CNone}
             /\ StringValue(aged(s)) = IF StringLeft(s) = 1 THEN CNone ELSE StringValue(s)
             /\ StringLeft(aged(s)) = IF StringLeft(s) \in {1, CForever} THEN CForever ELSE StringLeft(s) - 1
  <2>1. CASE s = CNone \/ s.left = CForever
    BY <2>1, NoneIsNothing, Zenon DEF StringValue, StringLeft
  <2>2. CASE s # CNone /\ s.left # CForever /\ s.left = 1
    BY <2>2, Zenon DEF StringValue, StringLeft
  <2>3. CASE s # CNone /\ s.left # CForever /\ s.left # 1
    <3>1. s \in RedisString /\ s.left \in Nat \ {0}
      BY <2>3, StringsAreEntries, Zenon
    <3>2. aged(s) \in RedisString /\ aged(s).value = s.value /\ aged(s).left = s.left - 1
      BY <2>3, <3>1 DEF RedisString
    <3> HIDE DEF aged
    <3>3. aged(s) # CNone
      BY <3>2, StringsAreEntries, Zenon
    <3> QED
      BY <2>3, <3>2, <3>3, Zenon DEF StringValue, StringLeft
  <2> QED
    BY <2>1, <2>2, <2>3, Zenon
<1> HIDE DEF aged
<1>3. \A k \in CKey : strings[k] \in RedisString \cup {CNone} /\ strings'[k] = aged(strings[k])
  BY <1>1, Zenon DEF RedisType
<1>4. RedisType'
  BY <1>1, <1>2, <1>3, Zenon DEF RedisType
<1>5. RedisLive' = [k \in CKey |-> IF RedisLeft[k] = 1 THEN CNone ELSE RedisLive[k]]
  BY <1>2, <1>3, Zenon DEF RedisLive, RedisLeft
<1>6. RedisLeft' = [k \in CKey |-> IF RedisLeft[k] \in {1, CForever} THEN CForever ELSE RedisLeft[k] - 1]
  BY <1>2, <1>3, Zenon DEF RedisLeft
<1> QED
  BY <1>1, <1>4, <1>5, <1>6, RedisPortIs DEF RedisPort!CTick

\* The Redis cache implements the port's.
LEMMA RedisImplementsPort == RCSpec => RedisPort!CacheSpec
<1>1. RCInit => RedisType /\ RedisPort!CInit
  BY Zenon DEF RCInit, RedisType, RedisPort!CInit
<1>2. RedisType /\ [RCNext]_rcVars => RedisType' /\ [RedisPort!CNext]_(RedisPort!cacheVars)
  <2> SUFFICES ASSUME RedisType, [RCNext]_rcVars PROVE RedisType' /\ [RedisPort!CNext]_(RedisPort!cacheVars)
    BY Zenon
  <2>1. ASSUME NEW k \in CKey, NEW v \in CacheValue, NEW ttl \in CTTL, RCSet(k, v, ttl) PROVE RedisType' /\ RedisPort!CNext
    BY <2>1, RedisSetStep, Zenon DEF RedisPort!CNext, CacheValue
  <2>2. ASSUME NEW k \in CKey, RCIncrement(k) \/ RCDelete(k) PROVE RedisType' /\ RedisPort!CNext
    BY <2>2, RedisIncrementStep, RedisDeleteStep, Zenon DEF RedisPort!CNext
  <2>3. ASSUME NEW k \in CKey, NEW m \in CMember, RCSetAddOnce(k, m) \/ RCSetRemove(k, m) PROVE RedisType' /\ RedisPort!CNext
    BY <2>3, RedisMemberSteps, Zenon DEF RedisPort!CNext
  <2>4. CASE RCTick
    BY <2>4, RedisTickStep, Zenon DEF RedisPort!CNext
  <2>5. CASE RCClose \/ UNCHANGED rcVars
    BY <2>5, Zenon DEF RCClose, rcVars, RedisType, RedisPort!cacheVars
  <2> QED
    BY <2>1, <2>2, <2>3, <2>4, <2>5, Zenon DEF RCNext
<1> QED
  BY <1>1, <1>2, PTL DEF RCSpec, RedisPort!CacheSpec

\* Both adapters implement the port's cache, for any keys, values and times to live:
\* in memory, expired entries that have not been swept and the sweep itself are
\* invisible (memory_cache.go); in Redis, types, errors and expiry are the server's
\* (redis_cache.go).
THEOREM AdaptersImplementPort == MCSpec /\ RCSpec => AdaptersImplementCache
  BY CacheImplementsPort, RedisImplementsPort, PTL DEF AdaptersImplementCache

-----------------------------------------------------------------------------
(* The keyed lock.                                                         *)

INSTANCE FiniteSetTheorems

\* A call that has looked its object up finds it under its key.
LEMMA ObjFacts ==
  ASSUME LockInv, NEW p \in Call, pc[p] # "idle"
  PROVE  /\ obj[p] \in Obj
         /\ KeyOf[p] \in Key
         /\ locks[KeyOf[p]] = obj[p]
         /\ \A k \in Key : locks[k] = obj[p] => k = KeyOf[p]
  BY CallAssumption DEF LockInv, TypeOK, EntryMatchesUsers

\* No calls, no entries.
LEMMA InitInv == Init => LockInv
  BY CallAssumption DEF Init, LockInv, TypeOK, EntryMatchesUsers, OneTokenPerEntry, CountExact, GateCapacity

\* A step of p that moves p from one place to another, neither of them idle, and
\* leaves the token where it is, keeps the invariant.
LEMMA MoveInv ==
  ASSUME LockInv, NEW p \in Call,
         NEW from \in {"select", "check", "held"}, NEW to \in {"unref", "held", "send"},
         Goto(p, from, to), from = "select" <=> to = "unref",
         UNCHANGED <<locks, users, gate, obj, expired>>
  PROVE  LockInv'
<1> USE DEF Goto
<1>1. \A o \in Obj : Inside(o)' = Inside(o)
  BY Zenon DEF LockInv, TypeOK, Inside
<1>2. \A o : UsersOf(o)' = UsersOf(o)
  BY Zenon DEF UsersOf
<1>3. TypeOK'
  BY Zenon DEF LockInv, TypeOK
<1>4. EntryMatchesUsers'
  BY <1>2, Zenon DEF LockInv, TypeOK, EntryMatchesUsers
<1>5. OneTokenPerEntry'
  BY <1>1 DEF LockInv, TypeOK, OneTokenPerEntry
<1>6. \A q \in Call : pc'[q] = "idle" <=> obj'[q] = NoLock
  BY Zenon DEF LockInv, TypeOK
<1> QED
  BY <1>2, <1>3, <1>4, <1>5, <1>6, Zenon DEF LockInv, CountExact

\* Contexts come and go without touching the lock.
LEMMA ContextInv ==
  ASSUME LockInv, UNCHANGED <<locks, users, gate, pc, obj>>, expired' \subseteq Call
  PROVE  LockInv'
<1>1. TypeOK'
  BY Zenon DEF LockInv, TypeOK
<1>2. \A o : Inside(o)' = Inside(o) /\ UsersOf(o)' = UsersOf(o)
  BY Zenon DEF Inside, UsersOf
<1>3. EntryMatchesUsers' /\ CountExact'
  BY <1>2, Zenon DEF LockInv, EntryMatchesUsers, CountExact
<1>4. OneTokenPerEntry'
  BY <1>2, Zenon DEF LockInv, OneTokenPerEntry
<1> QED
  BY <1>1, <1>3, <1>4, Zenon DEF LockInv

\* Receiving from the gate: nobody was inside, now p is.
LEMMA TakeInv == ASSUME LockInv, NEW p \in Call, Take(p)  PROVE LockInv'
<1> USE DEF Take, Goto
<1> DEFINE o == obj[p]
<1>1. o \in Obj /\ KeyOf[p] \in Key /\ locks[KeyOf[p]] = o /\ o # NoLock
  BY ObjFacts, CallAssumption, Zenon
<1>2. gate[o] = 1 /\ Inside(o) = {}
  BY <1>1 DEF LockInv, OneTokenPerEntry
<1>3. TypeOK'
  BY <1>1, <1>2 DEF LockInv, TypeOK, GateCapacity
<1>4. Inside(o)' = {p} /\ gate'[o] = 0
  BY <1>1, <1>2 DEF LockInv, TypeOK, Inside
<1>5. \A u \in Obj \ {o} : Inside(u)' = Inside(u) /\ gate'[u] = gate[u]
  BY <1>1 DEF LockInv, TypeOK, Inside
<1>6. OneTokenPerEntry'
  BY <1>1, <1>4, <1>5 DEF LockInv, TypeOK, OneTokenPerEntry
<1>7. \A u : UsersOf(u)' = UsersOf(u)
  BY Zenon DEF UsersOf
<1>8. EntryMatchesUsers' /\ (\A q \in Call : pc'[q] = "idle" <=> obj'[q] = NoLock)
  BY <1>7, Zenon DEF LockInv, TypeOK, EntryMatchesUsers
<1> QED
  BY <1>3, <1>6, <1>7, <1>8 DEF LockInv, CountExact

\* Giving the token back: p was the one call inside.
LEMMA SendInv == ASSUME LockInv, NEW p \in Call, Send(p)  PROVE LockInv'
<1> USE DEF Send, Goto
<1> DEFINE o == obj[p]
<1>1. o \in Obj /\ KeyOf[p] \in Key /\ locks[KeyOf[p]] = o /\ o # NoLock
  BY ObjFacts, CallAssumption, Zenon
<1>2. p \in Inside(o)
  BY Zenon DEF Inside
<1>3. gate[o] = 0 /\ Inside(o) = {p}
  BY <1>1, <1>2 DEF LockInv, OneTokenPerEntry
<1>4. TypeOK'
  BY <1>1, <1>3 DEF LockInv, TypeOK, GateCapacity
<1>5. Inside(o)' = {} /\ gate'[o] = 1
  BY <1>1, <1>3 DEF LockInv, TypeOK, Inside
<1>6. \A u \in Obj \ {o} : Inside(u)' = Inside(u) /\ gate'[u] = gate[u]
  BY <1>1 DEF LockInv, TypeOK, Inside
<1>7. OneTokenPerEntry'
  BY <1>1, <1>5, <1>6 DEF LockInv, TypeOK, OneTokenPerEntry
<1>8. \A u : UsersOf(u)' = UsersOf(u)
  BY Zenon DEF UsersOf
<1>9. EntryMatchesUsers' /\ (\A q \in Call : pc'[q] = "idle" <=> obj'[q] = NoLock)
  BY <1>8, Zenon DEF LockInv, TypeOK, EntryMatchesUsers
<1> QED
  BY <1>4, <1>7, <1>8, <1>9, Zenon DEF LockInv, CountExact

\* The users of an object are finitely many.
LEMMA UsersFinite == \A o : IsFiniteSet(UsersOf(o)) /\ Cardinality(UsersOf(o)) \in Nat
  BY CallAssumption, FS_Subset, FS_CardinalityType, Zenon DEF UsersOf

\* AcquireLock of a key that has an entry: p is counted in.
LEMMA LookupExistingInv ==
  ASSUME LockInv, NEW p \in Call, Goto(p, "idle", "select"), locks[KeyOf[p]] # NoLock,
         obj' = [obj EXCEPT ![p] = locks[KeyOf[p]]],
         users' = [users EXCEPT ![locks[KeyOf[p]]] = @ + 1],
         UNCHANGED <<locks, gate, expired>>
  PROVE  LockInv'
<1> USE DEF Goto
<1> DEFINE o == locks[KeyOf[p]]
<1>1. KeyOf[p] \in Key /\ o \in Obj /\ obj[p] = NoLock
  <2>1. KeyOf[p] \in Key
    BY CallAssumption, Zenon
  <2> QED
    BY <2>1 DEF LockInv, TypeOK
<1>2. TypeOK'
  <2>1. users' \in [Obj -> Nat]
    <3>1. users \in [Obj -> Nat] /\ users[o] + 1 \in Nat
      BY <1>1 DEF LockInv, TypeOK
    <3> QED
      BY <3>1, Zenon
  <2>2. pc' \in [Call -> {"idle", "select", "check", "held", "send", "unref"}]
    BY Zenon DEF LockInv, TypeOK
  <2>3. obj' \in [Call -> Obj \cup {NoLock}]
    BY <1>1, Zenon DEF LockInv, TypeOK
  <2> QED
    BY <2>1, <2>2, <2>3, Zenon DEF LockInv, TypeOK
<1>3. \A u \in Obj : Inside(u)' = Inside(u)
  BY <1>1, CallAssumption DEF LockInv, TypeOK, Inside
<1>4. OneTokenPerEntry'
  BY <1>3 DEF LockInv, TypeOK, OneTokenPerEntry
<1>5. UsersOf(o)' = UsersOf(o) \cup {p} /\ p \notin UsersOf(o)
  <2>1. \A q \in Call : obj'[q] = IF q = p THEN o ELSE obj[q]
    BY Zenon DEF LockInv, TypeOK
  <2>2. o # NoLock
    BY <1>1, CallAssumption, Zenon
  <2> QED
    BY <1>1, <2>1, <2>2 DEF UsersOf
<1>6. \A u \in Obj \ {o} : UsersOf(u)' = UsersOf(u)
  BY <1>1, CallAssumption DEF LockInv, TypeOK, UsersOf
<1>7. Cardinality(UsersOf(o)') = Cardinality(UsersOf(o)) + 1
  BY <1>5, UsersFinite, FS_AddElement, Zenon
<1>8. CountExact'
  <2> SUFFICES ASSUME NEW k \in Key, locks[k] # NoLock
               PROVE  users'[locks[k]] = Cardinality(UsersOf(locks[k])')
    BY Zenon DEF CountExact
  <2>1. CASE locks[k] = o
    BY <1>1, <1>7, <2>1, Zenon DEF LockInv, TypeOK, CountExact
  <2>2. CASE locks[k] # o
    BY <1>1, <1>6, <2>2 DEF LockInv, TypeOK, CountExact
  <2> QED
    BY <2>1, <2>2, Zenon
<1>9. EntryMatchesUsers' /\ (\A q \in Call : pc'[q] = "idle" <=> obj'[q] = NoLock)
  <2>1. \A q \in Call \ {p} : pc'[q] = pc[q] /\ obj'[q] = obj[q]
    BY DEF LockInv, TypeOK
  <2>2. pc'[p] = "select" /\ obj'[p] = o /\ o # NoLock
    BY <1>1, CallAssumption DEF LockInv, TypeOK
  <2>3. ASSUME NEW k \in Key, locks[k] # NoLock PROVE UsersOf(locks[k])' # {}
    <3>1. UsersOf(locks[k]) # {} /\ locks[k] \in Obj
      BY <2>3 DEF LockInv, TypeOK, EntryMatchesUsers
    <3> QED
      BY <1>5, <1>6, <3>1
  <2> QED
    BY <2>1, <2>2, <2>3 DEF LockInv, EntryMatchesUsers
<1> QED
  BY <1>2, <1>4, <1>8, <1>9, Zenon DEF LockInv

\* AcquireLock of a key without an entry: a new object, its gate full.
LEMMA LookupNewInv ==
  ASSUME LockInv, NEW p \in Call, Goto(p, "idle", "select"), locks[KeyOf[p]] = NoLock,
         NEW o \in Obj, Unreferenced(o),
         locks' = [locks EXCEPT ![KeyOf[p]] = o],
         obj' = [obj EXCEPT ![p] = o],
         users' = [users EXCEPT ![o] = 1],
         gate' = [gate EXCEPT ![o] = 1],
         UNCHANGED expired
  PROVE  LockInv'
<1> USE DEF Goto, Unreferenced
<1>1. KeyOf[p] \in Key /\ o # NoLock /\ obj[p] = NoLock
  BY CallAssumption, Zenon DEF LockInv, TypeOK
<1>2. TypeOK'
  BY <1>1 DEF LockInv, TypeOK, GateCapacity
<1>3. Inside(o)' = {} /\ \A u \in Obj \ {o} : Inside(u)' = Inside(u)
  BY <1>1, CallAssumption DEF LockInv, TypeOK, Inside
<1>4. OneTokenPerEntry'
  BY <1>1, <1>3 DEF LockInv, TypeOK, OneTokenPerEntry
<1>5. UsersOf(o)' = {p} /\ \A u \in Obj \ {o} : UsersOf(u)' = UsersOf(u)
  BY <1>1, CallAssumption DEF LockInv, TypeOK, UsersOf
<1>6. Cardinality(UsersOf(o)') = 1
  BY <1>5, FS_Singleton, Zenon
<1>7. CountExact'
  <2> SUFFICES ASSUME NEW k \in Key, locks'[k] # NoLock
               PROVE  users'[locks'[k]] = Cardinality(UsersOf(locks[k])')
    BY Zenon DEF CountExact
  <2>1. CASE k = KeyOf[p]
    BY <1>1, <1>6, <2>1, Zenon DEF LockInv, TypeOK
  <2>2. CASE k # KeyOf[p]
    <3>1. locks'[k] = locks[k] /\ locks[k] \in Obj \ {o}
      BY <1>1, <2>2 DEF LockInv, TypeOK
    <3> QED
      BY <1>5, <3>1 DEF LockInv, TypeOK, CountExact
  <2> QED
    BY <2>1, <2>2, Zenon
<1>8. EntryMatchesUsers'
  <2>1. ASSUME NEW q \in Call, pc'[q] # "idle" PROVE locks'[KeyOf[q]] = obj'[q]
    <3>1. CASE q = p
      BY <1>1, <3>1 DEF LockInv, TypeOK
    <3>2. CASE q # p
      <4>1. pc[q] # "idle" /\ obj'[q] = obj[q] /\ obj[q] # NoLock
        BY <2>1, <3>2 DEF LockInv, TypeOK
      <4>2. locks[KeyOf[q]] = obj[q] /\ KeyOf[q] \in Key
        BY <4>1, CallAssumption DEF LockInv, EntryMatchesUsers
      <4> QED
        BY <4>1, <4>2 DEF LockInv, TypeOK
    <3> QED
      BY <3>1, <3>2, Zenon
  <2>2. ASSUME NEW k \in Key, locks'[k] # NoLock PROVE (UsersOf(locks[k]) # {})'
    <3>1. CASE k = KeyOf[p]
      <4>1. obj'[p] = locks'[k]
        BY <1>1, <3>1 DEF LockInv, TypeOK
      <4> QED
        BY <4>1, Zenon DEF UsersOf
    <3>2. CASE k # KeyOf[p]
      <4>1. locks'[k] = locks[k] /\ locks[k] \in Obj \ {o}
        BY <1>1, <2>2, <3>2 DEF LockInv, TypeOK
      <4>2. PICK q \in Call : obj[q] = locks[k]
        BY <2>2, <4>1 DEF LockInv, EntryMatchesUsers, UsersOf
      <4>3. obj'[q] = locks'[k]
        BY <1>1, <2>2, <4>1, <4>2 DEF LockInv, TypeOK
      <4> QED
        BY <4>3, Zenon DEF UsersOf
    <3> QED
      BY <3>1, <3>2
  <2> QED
    BY <2>1, <2>2, Zenon DEF EntryMatchesUsers
<1>9. \A q \in Call : pc'[q] = "idle" <=> obj'[q] = NoLock
  BY <1>1, Zenon DEF LockInv, TypeOK
<1>10. \A j, k \in Key : locks'[j] = locks'[k] /\ locks'[j] # NoLock => j = k
  BY <1>1, Zenon DEF LockInv, TypeOK
<1> QED
  BY <1>2, <1>4, <1>7, <1>8, <1>9, <1>10, Zenon DEF LockInv

\* unref: the last user of an entry deletes it, any other only counts down.
LEMMA UnrefInv == ASSUME LockInv, NEW p \in Call, Unref(p)  PROVE LockInv'
<1> USE DEF Unref, Goto
<1>0. PICK o \in Obj : o = obj[p]
  BY ObjFacts, Zenon
<1> DEFINE n == users[o]
<1>1. /\ o \in Obj /\ KeyOf[p] \in Key /\ locks[KeyOf[p]] = o /\ o # NoLock
      /\ \A k \in Key : locks[k] = o => k = KeyOf[p]
  BY <1>0, ObjFacts, CallAssumption
<1>2. UsersOf(o)' = UsersOf(o) \ {p} /\ p \in UsersOf(o)
  BY <1>0, <1>1, CallAssumption DEF LockInv, TypeOK, UsersOf
<1>3. \A u \in Obj \ {o} : UsersOf(u)' = UsersOf(u)
  BY <1>0, <1>1, CallAssumption DEF LockInv, TypeOK, UsersOf
<1>4. n = Cardinality(UsersOf(o)) /\ n \in Nat /\ n # 0
  <2>1. n = Cardinality(UsersOf(o))
    BY <1>0, <1>1 DEF LockInv, CountExact
  <2> QED
    BY <1>2, <2>1, UsersFinite, FS_EmptySet
<1>5. Cardinality(UsersOf(o)') = n - 1 /\ IsFiniteSet(UsersOf(o)')
  BY <1>2, <1>4, UsersFinite, FS_RemoveElement
<1>6. n = 1 <=> UsersOf(o)' = {}
  BY <1>4, <1>5, FS_EmptySet
<1>7. \A u \in Obj : Inside(u)' = Inside(u)
  BY <1>0, <1>1, CallAssumption DEF LockInv, TypeOK, Inside
<1>8. /\ users' = [users EXCEPT ![o] = n - 1]
      /\ \A k \in Key : locks'[k] = IF n = 1 /\ k = KeyOf[p] THEN NoLock ELSE locks[k]
  BY <1>0, <1>1 DEF LockInv, TypeOK
<1>9. TypeOK'
  BY <1>0, <1>1, <1>4, CallAssumption DEF LockInv, TypeOK
<1>10. OneTokenPerEntry'
  BY <1>7, <1>8 DEF LockInv, TypeOK, OneTokenPerEntry
<1>11. CountExact'
  <2> SUFFICES ASSUME NEW k \in Key, locks'[k] # NoLock
               PROVE  users'[locks'[k]] = Cardinality(UsersOf(locks[k])')
    BY Zenon DEF CountExact
  <2>1. locks'[k] = locks[k] /\ locks[k] \in Obj
    BY <1>8 DEF LockInv, TypeOK
  <2>2. CASE locks[k] = o
    BY <1>1, <1>5, <1>8, <2>1, <2>2, Zenon DEF LockInv, TypeOK
  <2>3. CASE locks[k] # o
    BY <1>3, <1>8, <2>1, <2>3 DEF LockInv, TypeOK, CountExact
  <2> QED
    BY <2>2, <2>3, Zenon
<1>12. EntryMatchesUsers'
  <2>1. ASSUME NEW q \in Call, pc'[q] # "idle"  PROVE locks'[KeyOf[q]] = obj'[q]
    <3>1. q # p /\ pc[q] # "idle" /\ obj'[q] = obj[q] /\ locks[KeyOf[q]] = obj[q] /\ KeyOf[q] \in Key
      BY <2>1, CallAssumption, Zenon DEF LockInv, TypeOK, EntryMatchesUsers
    <3>2. CASE KeyOf[q] = KeyOf[p]
      <4>1. q \in UsersOf(o)'
        BY <1>0, <1>1, <1>2, <3>1, <3>2 DEF UsersOf
      <4> QED
        BY <1>6, <1>8, <3>1, <4>1
    <3>3. CASE KeyOf[q] # KeyOf[p]
      BY <1>8, <3>1, <3>3
    <3> QED
      BY <3>2, <3>3, Zenon
  <2>2. ASSUME NEW k \in Key, locks'[k] # NoLock  PROVE UsersOf(locks[k])' # {}
    <3>1. locks'[k] = locks[k] /\ locks[k] \in Obj
      BY <1>8, <2>2 DEF LockInv, TypeOK
    <3>2. CASE locks[k] = o
      BY <1>1, <1>6, <1>8, <2>2, <3>1, <3>2, Zenon
    <3>3. CASE locks[k] # o
      BY <1>3, <3>1, <3>3, <2>2 DEF LockInv, EntryMatchesUsers
    <3> QED
      BY <3>2, <3>3, Zenon
  <2> QED
    BY <2>1, <2>2, Zenon DEF EntryMatchesUsers
<1>13. \A q \in Call : pc'[q] = "idle" <=> obj'[q] = NoLock
  BY <1>0, <1>1, Zenon DEF LockInv, TypeOK
<1>14. \A j, k \in Key : locks'[j] = locks'[k] /\ locks'[j] # NoLock => j = k
  BY <1>8 DEF LockInv
<1> QED
  BY <1>9, <1>10, <1>11, <1>12, <1>13, <1>14 DEF LockInv

\* No step of any call breaks the invariant.
LEMMA NextInv == LockInv /\ [Next]_vars => LockInv'
<1> SUFFICES ASSUME LockInv, [Next]_vars  PROVE LockInv'
  BY Zenon
<1>1. CASE UNCHANGED vars
  BY <1>1, ContextInv, Zenon DEF vars, LockInv, TypeOK
<1>2. ASSUME NEW p \in Call, Lookup(p)  PROVE LockInv'
  BY <1>2, LookupExistingInv, LookupNewInv, Zenon DEF Lookup
<1>3. ASSUME NEW p \in Call, Take(p)  PROVE LockInv'
  BY <1>3, TakeInv, Zenon
<1>4. ASSUME NEW p \in Call, Timeout(p)  PROVE LockInv'
  BY <1>4, MoveInv, Zenon DEF Timeout
<1>5. ASSUME NEW p \in Call, Check(p)  PROVE LockInv'
  BY <1>5, MoveInv, Zenon DEF Check
<1>6. ASSUME NEW p \in Call, Release(p)  PROVE LockInv'
  BY <1>6, MoveInv, Zenon DEF Release
<1>7. ASSUME NEW p \in Call, Send(p)  PROVE LockInv'
  BY <1>7, SendInv
<1>8. ASSUME NEW p \in Call, Unref(p)  PROVE LockInv'
  BY <1>8, UnrefInv
<1>9. ASSUME NEW S \in SUBSET Call, Expire(S) \/ NewContext(S)  PROVE LockInv'
  BY <1>9, ContextInv DEF Expire, NewContext, LockInv, TypeOK
<1> QED
  BY <1>1, <1>2, <1>3, <1>4, <1>5, <1>6, <1>7, <1>8, <1>9, Zenon DEF Next, CallStep

\* Two calls that hold the same key are both inside the one entry of the key.
LEMMA InvExcludes == LockInv => MutualExclusion
<1> SUFFICES ASSUME LockInv, NEW p \in Call, NEW q \in Call,
                    pc[p] = "held", pc[q] = "held", KeyOf[p] = KeyOf[q]
             PROVE  p = q
  BY Zenon DEF MutualExclusion
<1>1. obj[p] = locks[KeyOf[p]] /\ obj[q] = locks[KeyOf[p]] /\ KeyOf[p] \in Key /\ obj[p] \in Obj
  BY ObjFacts, Zenon
<1>2. p \in Inside(obj[p]) /\ q \in Inside(obj[p])
  BY <1>1, Zenon DEF Inside
<1>3. PICK r \in Call : Inside(obj[p]) = {r}
  BY <1>1, <1>2, CallAssumption DEF LockInv, OneTokenPerEntry
<1> QED
  BY <1>2, <1>3, Zenon

\* The lock of MemoryCache serializes the owners of a key, and a key is never
\* left locked by a call that has returned.
THEOREM LockSafety == Spec => [](TypeOK /\ MutualExclusion /\ OneTokenPerEntry /\ EntryMatchesUsers)
<1>1. LockInv => TypeOK /\ MutualExclusion /\ OneTokenPerEntry /\ EntryMatchesUsers
  BY InvExcludes, Zenon DEF LockInv
<1> QED
  BY <1>1, InitInv, NextInv, PTL DEF Spec
=============================================================================

------------------------- MODULE SearchCacheProofs --------------------------
(***************************************************************************)
(* Proofs about SearchCache, for any tables, callers, requests, cache size *)
(* and limit. Sound holds of every service: the limiter counts the callers *)
(* that run, and every handle names a reader that was opened. Separate and *)
(* Built, about one publish_catalog, give SearchableOnReturn. Fresh relates *)
(* the answers in the cache and in flight to the generation they belong to *)
(* and gives FreshAnswers while definitions stay the same.                 *)
(***************************************************************************)
EXTENDS SearchCache, FiniteSetTheorems, TLAPS

Running == {c \in Callers : pc[c] \in {"search", "release"}}

\* A handle's reader is one that was opened.
Known(h, readers) == h # NoHandle => h.reader \in 1..Len(readers)

Opened ==
  /\ \A t \in Tables : Known(canonical[t], snapshot) /\ Known(lookup[t], snapshot) /\ Known(next[t], snapshot)
  /\ \A c \in Callers : Known(handle[c], snapshot)

InFlight ==
  \A c \in Callers :
    /\ pc[c] # "idle" => handle[c] # NoHandle
    /\ pc[c] \in {"probe", "store"} => request[c] \in Requests

Pending ==
  /\ publishing = "no" => todo = {}
  /\ \A t \in todo : defs[t] # NoDef

Sound == TypeOK /\ IsFiniteSet(cache) /\ OneWideQuery /\ Opened /\ InFlight /\ Pending

---------------------------------------------------------------------------

LEMMA HandleFacts ==
  ASSUME NEW h \in Handle
  PROVE  /\ h # NoHandle /\ h.def \in Defs /\ h.reader \in Nat /\ h.generation \in Nat
         /\ [h EXCEPT !.generation = @ + 1] \in Handle
         /\ [h EXCEPT !.generation = @ + 1].def = h.def
         /\ [h EXCEPT !.generation = @ + 1].reader = h.reader
         /\ [h EXCEPT !.generation = @ + 1].generation = h.generation + 1
BY Parameters DEF Handle

LEMMA NewHandle ==
  ASSUME NEW d \in Defs, NEW r \in Nat
  PROVE  LET h == [def |-> d, reader |-> r, generation |-> 1]
         IN  h \in Handle /\ h.def = d /\ h.reader = r /\ h.generation = 1
BY DEF Handle

LEMMA RunningFinite == IsFiniteSet(Running)
<1>1. Running \subseteq Callers
      BY DEF Running
<1> QED BY <1>1, Parameters, FS_Subset

\* The limiter's count is kept by steps that leave it and the running callers alone.
LEMMA RunningSame ==
  ASSUME OneWideQuery, active' = active,
         \A c \in Callers : pc'[c] \in {"search", "release"} <=> pc[c] \in {"search", "release"}
  PROVE  OneWideQuery'
<1>1. Running' = Running
      BY DEF Running
<1> QED BY <1>1 DEF OneWideQuery, Running

\* What leaves the cache, or is used, keeps it a finite set of entries.
LEMMA KeepFacts ==
  ASSUME TypeOK, IsFiniteSet(cache), NEW entries \in SUBSET cache, Keep(entries)
  PROVE  /\ cache' \subseteq Entry /\ Cardinality(cache') <= CacheEntries
         /\ older' \subseteq cache' \X cache' /\ IsFiniteSet(cache')
<1>1. cache' = entries /\ older' \subseteq cache' \X cache'
      BY DEF Keep
<1>2. IsFiniteSet(entries) /\ Cardinality(entries) <= Cardinality(cache)
      BY FS_Subset
<1>3. Cardinality(entries) \in Nat /\ Cardinality(cache) \in Nat
      BY <1>2, FS_CardinalityType
<1> QED BY <1>1, <1>2, <1>3, Parameters DEF TypeOK

LEMMA UseFacts ==
  ASSUME TypeOK, IsFiniteSet(cache), NEW entries \in SUBSET cache, NEW e \in Entry,
         Cardinality(entries) < CacheEntries \/ (e \in cache /\ e \notin entries), Use(entries, e)
  PROVE  /\ cache' \subseteq Entry /\ Cardinality(cache') <= CacheEntries
         /\ older' \subseteq cache' \X cache' /\ IsFiniteSet(cache')
<1>1. cache' = entries \cup {e}
      BY DEF Use
<1>2. older' \subseteq cache' \X cache'
      BY DEF Use
<1>3. IsFiniteSet(entries) /\ Cardinality(entries) \in Nat /\ Cardinality(cache) \in Nat
      BY FS_Subset, FS_CardinalityType
<1>4. IsFiniteSet(cache') /\ Cardinality(cache') \in Nat
      BY <1>1, <1>3, FS_AddElement, FS_CardinalityType
<1>5. CASE Cardinality(entries) < CacheEntries
  <2>1. Cardinality(cache') = Cardinality(entries) \/ Cardinality(cache') = Cardinality(entries) + 1
        BY <1>1, <1>3, FS_AddElement
  <2>2. Cardinality(cache') <= CacheEntries
        BY <1>3, <1>4, <1>5, <2>1, Parameters
  <2> QED BY <1>1, <1>2, <1>4, <2>2 DEF TypeOK
<1>6. CASE e \in cache /\ e \notin entries
  <2>1. cache' \subseteq cache
        BY <1>1, <1>6
  <2>2. Cardinality(cache') <= Cardinality(cache)
        BY <2>1, FS_Subset
  <2>3. Cardinality(cache') <= CacheEntries
        BY <1>3, <1>4, <2>2, Parameters DEF TypeOK
  <2> QED BY <1>1, <1>2, <1>4, <2>3 DEF TypeOK
<1> QED BY <1>5, <1>6

---------------------------------------------------------------------------

LEMMA SoundInit == Init => Sound
<1> SUFFICES ASSUME Init PROVE Sound
    OBVIOUS
<1>1. IsFiniteSet(cache) /\ Cardinality(cache) = 0
      BY FS_EmptySet DEF Init
<1>2. NoHandles \in [Tables -> Handle \cup {NoHandle}]
      BY DEF NoHandles
<1>3. TypeOK
      BY <1>1, <1>2, Parameters DEF Init, TypeOK
<1>4. OneWideQuery
  <2>1. {c \in Callers : pc[c] \in {"search", "release"}} = {}
        BY DEF Init
  <2>2. active = Cardinality({}) /\ active <= Limit
        BY FS_EmptySet, Parameters DEF Init
  <2> QED BY <2>1, <2>2 DEF OneWideQuery
<1>5. Opened /\ InFlight /\ Pending
      BY Parameters DEF Init, Opened, InFlight, Known, NoHandles, Pending
<1> QED BY <1>1, <1>3, <1>4, <1>5 DEF Sound

\* An operation of the writer changes neither the catalog nor the callers.
LEMMA SoundWrite == ASSUME Sound, Write PROVE Sound'
<1>1. /\ UNCHANGED <<catalog, snapshot, lru, active, caller>>
      /\ defs' \in [Tables -> Defs \cup {NoDef}] /\ index' \in [Tables -> Nat]
      /\ publishing' \in {"no", "yes"} /\ publishes' \in 1 .. MaxPublishes /\ todo' \subseteq Tables
      /\ next' = next \/ next' = NoHandles
  <2>1. CASE Republish
        BY <2>1, Parameters DEF Republish, StartPublish, Sound, TypeOK
  <2>2. ASSUME NEW t \in Tables, Commit(t)
        PROVE  /\ UNCHANGED <<catalog, snapshot, lru, active, caller, defs>> /\ index' \in [Tables -> Nat]
               /\ publishing' \in {"no", "yes"} /\ publishes' \in 1 .. MaxPublishes /\ todo' \subseteq Tables
               /\ next' = next \/ next' = NoHandles
        BY <2>2, Parameters DEF Commit, StartPublish, KeepPublished, Sound, TypeOK
  <2>3. ASSUME NEW t \in Tables, NEW d \in Defs \cup {NoDef}, Redefine(t, d)
        PROVE  /\ UNCHANGED <<catalog, snapshot, lru, active, caller>>
               /\ defs' \in [Tables -> Defs \cup {NoDef}] /\ index' \in [Tables -> Nat]
               /\ publishing' \in {"no", "yes"} /\ publishes' \in 1 .. MaxPublishes /\ todo' \subseteq Tables
               /\ next' = next \/ next' = NoHandles
        BY <2>3, Parameters DEF Redefine, StartPublish, Sound, TypeOK
  <2> QED BY <2>1, <2>2, <2>3 DEF Write, Sound, TypeOK
<1>2. next' \in [Tables -> Handle \cup {NoHandle}]
      BY <1>1 DEF Sound, TypeOK, NoHandles
<1>3. TypeOK' /\ IsFiniteSet(cache')
      BY <1>1, <1>2 DEF Sound, TypeOK, catalog, lru, caller
<1>4. OneWideQuery'
      BY <1>1, RunningSame DEF Sound, caller
<1>5. Opened' /\ InFlight'
      BY <1>1 DEF Sound, Opened, InFlight, Known, catalog, caller, NoHandles
<1>6. Pending'
      BY DEF Write, Republish, Commit, Redefine, StartPublish, KeepPublished, Sound, Pending
<1> QED BY <1>3, <1>4, <1>5, <1>6 DEF Sound

\* What one round of publish_catalog does: the table's reader is reloaded, or
\* a new one is opened; the readers of other handles are left alone.
LEMMA PublishTableFacts ==
  ASSUME Sound, NEW t \in Tables, PublishTable(t)
  PROVE  /\ UNCHANGED <<defs, index, lookup, publishing, publishes, active, caller>>
         /\ publishing = "yes" /\ t \in todo /\ todo' = todo \ {t}
         /\ canonical' = [canonical EXCEPT ![t] = NoHandle]
         /\ snapshot' \in Seq(Nat) /\ Len(snapshot) <= Len(snapshot')
         /\ next' = [next EXCEPT ![t] = next'[t]] /\ next'[t] \in Handle
         /\ next'[t].def = defs[t] /\ next'[t].reader \in 1..Len(snapshot')
         /\ snapshot'[next'[t].reader] = index[t]
         /\ \A r \in 1..Len(snapshot) : r # next'[t].reader => snapshot'[r] = snapshot[r]
         /\ IF canonical[t] # NoHandle /\ canonical[t].def = defs[t]
            THEN /\ next'[t].reader = canonical[t].reader
                 /\ next'[t].generation = canonical[t].generation + 1
            ELSE next'[t].reader = Len(snapshot) + 1
         /\ Keep({e \in cache : e.table # t})
<1>1. /\ UNCHANGED <<defs, index, lookup, publishing, publishes, active, caller>>
      /\ publishing = "yes" /\ t \in todo /\ todo' = todo \ {t}
      /\ canonical' = [canonical EXCEPT ![t] = NoHandle]
      /\ Keep({e \in cache : e.table # t})
      BY DEF PublishTable, Invalidate
<1>2. /\ snapshot \in Seq(Nat) /\ index[t] \in Nat /\ defs[t] \in Defs
      /\ next \in [Tables -> Handle \cup {NoHandle}] /\ canonical[t] \in Handle \cup {NoHandle}
      BY <1>1 DEF Sound, TypeOK, Pending
<1>3. CASE canonical[t] # NoHandle /\ canonical[t].def = defs[t]
  <2> DEFINE h == canonical[t]
             g == [canonical[t] EXCEPT !.generation = @ + 1]
  <2>1. h \in Handle /\ h.reader \in 1..Len(snapshot)
        BY <1>2, <1>3 DEF Sound, Opened, Known
  <2>2. g \in Handle /\ g.def = h.def /\ g.reader = h.reader /\ g.generation = h.generation + 1
        BY <2>1, HandleFacts
  <2>3. snapshot' = [snapshot EXCEPT ![h.reader] = index[t]] /\ next' = [next EXCEPT ![t] = g]
        BY <1>3 DEF PublishTable
  <2> HIDE DEF g
  <2>4. next'[t] = g
        BY <1>2, <2>3
  <2>5. /\ snapshot' \in Seq(Nat) /\ Len(snapshot') = Len(snapshot) /\ snapshot'[h.reader] = index[t]
        /\ \A r \in 1..Len(snapshot) : r # h.reader => snapshot'[r] = snapshot[r]
        BY <1>2, <2>1, <2>3
  <2> QED BY <1>1, <1>2, <1>3, <2>1, <2>2, <2>3, <2>4, <2>5
<1>4. CASE ~(canonical[t] # NoHandle /\ canonical[t].def = defs[t])
  <2> DEFINE n == Len(snapshot')
             g == [def |-> defs[t], reader |-> n, generation |-> 1]
  <2>1. snapshot' = Append(snapshot, index[t]) /\ next' = [next EXCEPT ![t] = g]
        BY <1>4 DEF PublishTable
  <2>2. /\ snapshot' \in Seq(Nat) /\ n = Len(snapshot) + 1 /\ snapshot'[n] = index[t]
        /\ \A r \in 1..Len(snapshot) : snapshot'[r] = snapshot[r]
        BY <1>2, <2>1
  <2>3. n \in Nat /\ n >= 1 /\ Len(snapshot) <= n
        BY <1>2, <2>2
  <2> HIDE DEF n
  <2>4. g \in Handle /\ g.def = defs[t] /\ g.reader = n
        BY <1>2, <2>3, NewHandle
  <2> HIDE DEF g
  <2>5. next'[t] = g
        BY <1>2, <2>1
  <2>6. /\ next' = [next EXCEPT ![t] = next'[t]] /\ next'[t] \in Handle /\ next'[t].def = defs[t]
        /\ next'[t].reader = n /\ n \in 1..n /\ next'[t].reader = Len(snapshot) + 1
    <3>1. n \in 1..n
          BY <2>3
    <3>2. next' = [next EXCEPT ![t] = next'[t]]
          BY <2>1, <2>5
    <3> QED BY <2>2, <2>4, <2>5, <3>1, <3>2
  <2>7. n = Len(snapshot')
        BY DEF n
  <2> QED BY <1>1, <1>4, <2>2, <2>3, <2>6, <2>7
<1> QED BY <1>3, <1>4

LEMMA SoundPublish == ASSUME Sound, Publish PROVE Sound'
<1>1. ASSUME NEW t \in Tables, PublishTable(t) PROVE Sound'
  <2>1. /\ UNCHANGED <<defs, index, lookup, publishing, publishes, active, caller>>
        /\ publishing = "yes" /\ todo' = todo \ {t}
        /\ canonical' = [canonical EXCEPT ![t] = NoHandle]
        /\ snapshot' \in Seq(Nat) /\ Len(snapshot) <= Len(snapshot')
        /\ next' = [next EXCEPT ![t] = next'[t]] /\ next'[t] \in Handle
        /\ next'[t].reader \in 1..Len(snapshot')
        /\ Keep({e \in cache : e.table # t})
        BY <1>1, PublishTableFacts
  <2>2. {e \in cache : e.table # t} \in SUBSET cache
        OBVIOUS
  <2>3. /\ cache' \subseteq Entry /\ Cardinality(cache') <= CacheEntries
        /\ older' \subseteq cache' \X cache' /\ IsFiniteSet(cache')
        BY <2>1, <2>2, KeepFacts DEF Sound
  <2>4. TypeOK'
        BY <2>1, <2>3 DEF Sound, TypeOK, caller
  <2>5. OneWideQuery'
        BY <2>1, RunningSame DEF Sound, caller
  <2>6. snapshot \in Seq(Nat) /\ Len(snapshot) \in Nat /\ Len(snapshot') \in Nat
        BY <2>1 DEF Sound, TypeOK
  <2>7. \A h : Known(h, snapshot) => Known(h, snapshot')
        BY <2>1, <2>6 DEF Known
  <2>8. Known(next'[t], snapshot') /\ Known(NoHandle, snapshot')
        BY <2>1 DEF Known
  <2>9. Opened'
    <3>1. ASSUME NEW u \in Tables PROVE Known(canonical'[u], snapshot') /\ Known(lookup'[u], snapshot') /\ Known(next'[u], snapshot')
      <4>1. (canonical'[u] = canonical[u] \/ canonical'[u] = NoHandle) /\ lookup'[u] = lookup[u]
            /\ (next'[u] = next[u] \/ next'[u] = next'[t])
            BY <2>1 DEF Sound, TypeOK
      <4> QED BY <4>1, <2>7, <2>8 DEF Sound, Opened
    <3>2. \A c \in Callers : Known(handle'[c], snapshot')
          BY <2>1, <2>7 DEF Sound, Opened, caller
    <3> QED BY <3>1, <3>2 DEF Opened
  <2>10. InFlight' /\ Pending'
         BY <2>1 DEF Sound, InFlight, Pending, caller
  <2> QED BY <2>3, <2>4, <2>5, <2>9, <2>10 DEF Sound
<1>2. CASE PublishDone
  <2>1. /\ canonical' = next /\ lookup' = next /\ publishing' = "no" /\ todo' = {}
        /\ UNCHANGED <<defs, index, next, publishes, snapshot, lru, active, caller>>
        BY <1>2 DEF PublishDone
  <2>2. TypeOK' /\ IsFiniteSet(cache')
        BY <2>1 DEF Sound, TypeOK, lru, caller
  <2>3. OneWideQuery'
        BY <2>1, RunningSame DEF Sound, caller
  <2> QED BY <2>1, <2>2, <2>3 DEF Sound, Opened, Known, InFlight, Pending, caller
<1>3. ASSUME NEW t \in Tables, PublishError(t) PROVE Sound'
  <2>1. /\ canonical' = [canonical EXCEPT ![t] = NoHandle] /\ publishing' = "no" /\ todo' = {}
        /\ UNCHANGED <<defs, index, next, publishes, lookup, snapshot, lru, active, caller>>
        BY <1>3 DEF PublishError
  <2>2. TypeOK' /\ IsFiniteSet(cache')
        BY <2>1 DEF Sound, TypeOK, lru, caller
  <2>3. OneWideQuery'
        BY <2>1, RunningSame DEF Sound, caller
  <2>4. Opened'
        BY <2>1 DEF Sound, TypeOK, Opened, Known, caller
  <2> QED BY <2>1, <2>2, <2>3, <2>4 DEF Sound, InFlight, Pending, caller
<1> QED BY <1>1, <1>2, <1>3 DEF Publish

\* What a caller's step leaves alone.
LEMMA CallerFrame ==
  ASSUME Sound, UNCHANGED <<writer, catalog, snapshot>>,
         /\ cache' \subseteq Entry /\ Cardinality(cache') <= CacheEntries
         /\ older' \subseteq cache' \X cache' /\ IsFiniteSet(cache'),
         active' \in Nat, OneWideQuery',
         pc' \in [Callers -> Steps \cup {"idle"}], table' \in [Callers -> Tables],
         request' \in [Callers -> Requests \cup {Uncached}],
         handle' \in [Callers -> Handle \cup {NoHandle}],
         value' \in [Callers -> Nat], floor' \in [Callers -> Nat],
         \A c \in Callers : Known(handle'[c], snapshot), InFlight'
  PROVE  Sound'
<1>1. TypeOK'
      BY DEF Sound, TypeOK, writer, catalog
<1>2. Opened' /\ Pending'
      BY DEF Sound, Opened, Known, Pending, writer, catalog
<1> QED BY <1>1, <1>2 DEF Sound

LEMMA SoundCall ==
  ASSUME Sound, NEW c \in Callers, Call(c) \/ Probe(c) \/ Search(c) \/ Answer(c) \/ SpuriousWakeup(c)
  PROVE  Sound'
<1>1. /\ UNCHANGED <<writer, catalog, snapshot, active>>
      BY DEF Call, Lookup, Probe, Search, Answer, SpuriousWakeup
<1>2. CASE Call(c)
  <2>1. PICK t \in Tables, q \in Requests \cup {Uncached} : Lookup(c, t, q)
        BY <1>2 DEF Call
  <2>2. /\ pc[c] = "idle" /\ lookup[t] # NoHandle
        /\ table' = [table EXCEPT ![c] = t] /\ request' = [request EXCEPT ![c] = q]
        /\ handle' = [handle EXCEPT ![c] = lookup[t]]
        /\ floor' = [floor EXCEPT ![c] = snapshot[lookup[t].reader]]
        /\ pc' = [pc EXCEPT ![c] = IF q = Uncached THEN "acquire" ELSE "probe"]
        /\ UNCHANGED <<lru, value>>
        BY <2>1 DEF Lookup, Goto
  <2>3. lookup[t] \in Handle /\ Known(lookup[t], snapshot) /\ snapshot[lookup[t].reader] \in Nat
        BY <2>2 DEF Sound, TypeOK, Opened, Known
  <2>4. OneWideQuery'
        BY <1>1, <2>2, RunningSame DEF Sound, TypeOK
  <2>5. /\ pc' \in [Callers -> Steps \cup {"idle"}] /\ table' \in [Callers -> Tables]
        /\ request' \in [Callers -> Requests \cup {Uncached}]
        /\ handle' \in [Callers -> Handle \cup {NoHandle}]
        /\ value' \in [Callers -> Nat] /\ floor' \in [Callers -> Nat]
        BY <2>2, <2>3 DEF Sound, TypeOK, Steps
  <2>6. \A d \in Callers : Known(handle'[d], snapshot)
        BY <2>2, <2>3 DEF Sound, TypeOK, Opened
  <2>7. InFlight'
    <3>1. ASSUME NEW d \in Callers PROVE /\ pc'[d] # "idle" => handle'[d] # NoHandle
                                         /\ pc'[d] \in {"probe", "store"} => request'[d] \in Requests
      <4>1. CASE d = c
        <5>1. handle'[d] = lookup[t] /\ request'[d] = q /\ pc'[d] = IF q = Uncached THEN "acquire" ELSE "probe"
              BY <4>1, <2>2 DEF Sound, TypeOK
        <5> QED BY <5>1, <2>2
      <4>2. CASE d # c
            BY <4>2, <2>2 DEF Sound, TypeOK, InFlight
      <4> QED BY <4>1, <4>2
    <3> QED BY <3>1 DEF InFlight
  <2>8. /\ cache' \subseteq Entry /\ Cardinality(cache') <= CacheEntries
        /\ older' \subseteq cache' \X cache' /\ IsFiniteSet(cache') /\ active' \in Nat
        BY <1>1, <2>2 DEF Sound, TypeOK, lru
  <2> QED BY <1>1, <2>4, <2>5, <2>6, <2>7, <2>8, CallerFrame
<1>3. CASE Search(c) \/ Answer(c) \/ SpuriousWakeup(c)
  <2>1. /\ UNCHANGED <<lru, table, request, handle, floor>>
        /\ pc' \in [Callers -> Steps \cup {"idle"}] /\ value' \in [Callers -> Nat]
    <3>1. CASE Search(c)
      <4>1. handle[c].reader \in 1..Len(snapshot) /\ snapshot \in Seq(Nat)
            BY <3>1 DEF Search, Sound, TypeOK, Opened, InFlight, Known
      <4>2. snapshot[handle[c].reader] \in Nat
            BY <4>1
      <4> QED BY <3>1, <4>2 DEF Search, Goto, Sound, TypeOK, Steps
    <3>2. CASE Answer(c) \/ SpuriousWakeup(c)
          BY <3>2 DEF Answer, SpuriousWakeup, Goto, Sound, TypeOK, Steps
    <3> QED BY <1>3, <3>1, <3>2
  <2>2. OneWideQuery'
    <3>1. \A d \in Callers : pc'[d] \in {"search", "release"} <=> pc[d] \in {"search", "release"}
          BY <1>3 DEF Search, Answer, SpuriousWakeup, Goto, Sound, TypeOK
    <3> QED BY <1>1, <3>1, RunningSame DEF Sound
  <2>3. \A d \in Callers : Known(handle'[d], snapshot)
        BY <2>1 DEF Sound, Opened
  <2>4. InFlight'
        BY <1>3, <2>1 DEF Search, Answer, SpuriousWakeup, Goto, Sound, TypeOK, InFlight
  <2>5. /\ cache' \subseteq Entry /\ Cardinality(cache') <= CacheEntries
        /\ older' \subseteq cache' \X cache' /\ IsFiniteSet(cache') /\ active' \in Nat
        /\ table' \in [Callers -> Tables] /\ floor' \in [Callers -> Nat]
        /\ request' \in [Callers -> Requests \cup {Uncached}]
        /\ handle' \in [Callers -> Handle \cup {NoHandle}]
        BY <1>1, <2>1 DEF Sound, TypeOK, lru
  <2> QED BY <1>1, <2>1, <2>2, <2>3, <2>4, <2>5, CallerFrame
<1>4. CASE Probe(c)
  <2>1. pc[c] = "probe" /\ UNCHANGED <<table, request, handle, floor>>
        BY <1>4 DEF Probe
  <2>2. /\ cache' \subseteq Entry /\ Cardinality(cache') <= CacheEntries
        /\ older' \subseteq cache' \X cache' /\ IsFiniteSet(cache')
        /\ value' \in [Callers -> Nat]
        /\ pc' = [pc EXCEPT ![c] = "acquire"] \/ pc' = [pc EXCEPT ![c] = "answer"]
    <3>1. CASE Goto(c, "acquire") /\ UNCHANGED <<lru, value>>
          BY <3>1 DEF Goto, Sound, TypeOK, lru
    <3>2. CASE \E e \in Hits(c) : /\ value' = [value EXCEPT ![c] = e.value]
                                  /\ Use(cache \ {e}, e)
                                  /\ Goto(c, "answer")
      <4>1. PICK e \in Hits(c) : /\ value' = [value EXCEPT ![c] = e.value]
                                 /\ Use(cache \ {e}, e)
                                 /\ Goto(c, "answer")
            BY <3>2
      <4>2. e \in cache /\ e \in Entry /\ e.value \in Nat /\ cache \ {e} \in SUBSET cache
            BY DEF Hits, Sound, TypeOK, Entry
      <4>3. e \notin cache \ {e}
            OBVIOUS
      <4>4. /\ cache' \subseteq Entry /\ Cardinality(cache') <= CacheEntries
            /\ older' \subseteq cache' \X cache' /\ IsFiniteSet(cache')
            BY <4>1, <4>2, <4>3, UseFacts DEF Sound
      <4> QED BY <4>1, <4>2, <4>4 DEF Goto, Sound, TypeOK
    <3> QED BY <1>4, <3>1, <3>2 DEF Probe
  <2>3. pc' \in [Callers -> Steps \cup {"idle"}]
        BY <2>2 DEF Sound, TypeOK, Steps
  <2>4. OneWideQuery'
    <3>1. \A d \in Callers : pc'[d] \in {"search", "release"} <=> pc[d] \in {"search", "release"}
          BY <2>1, <2>2 DEF Sound, TypeOK
    <3> QED BY <1>1, <3>1, RunningSame DEF Sound
  <2>5. (\A d \in Callers : Known(handle'[d], snapshot)) /\ InFlight'
        BY <2>1, <2>2 DEF Sound, TypeOK, Opened, InFlight
  <2>6. /\ table' \in [Callers -> Tables] /\ floor' \in [Callers -> Nat]
        /\ request' \in [Callers -> Requests \cup {Uncached}]
        /\ handle' \in [Callers -> Handle \cup {NoHandle}] /\ active' \in Nat
        BY <1>1, <2>1 DEF Sound, TypeOK
  <2> QED BY <1>1, <2>2, <2>3, <2>4, <2>5, <2>6, CallerFrame
<1> QED BY <1>2, <1>3, <1>4

\* acquire and Drop for WideQueryPermit: one caller more, or one less, runs.
LEMMA SoundLimiter ==
  ASSUME Sound, NEW c \in Callers, Acquire(c) \/ Release(c) PROVE Sound'
<1>1. UNCHANGED <<writer, catalog, snapshot, lru, table, request, handle, value, floor>>
      BY DEF Acquire, Release
<1>2. pc \in [Callers -> Steps \cup {"idle"}] /\ active = Cardinality(Running) /\ active <= Limit /\ active \in Nat
      BY DEF Sound, TypeOK, OneWideQuery, Running
<1>3. /\ pc' \in [Callers -> Steps \cup {"idle"}] /\ active' \in Nat
      /\ active' = Cardinality(Running') /\ active' <= Limit /\ InFlight'
  <2>1. CASE Acquire(c) /\ active >= Limit
    <3>1. pc' = [pc EXCEPT ![c] = "waiting"] /\ active' = active /\ pc[c] = "acquire"
          BY <2>1 DEF Acquire, Goto
    <3>2. Running' = Running
          BY <1>2, <3>1 DEF Running
    <3> QED BY <1>1, <1>2, <3>1, <3>2 DEF Steps, Sound, InFlight
  <2>2. CASE Acquire(c) /\ ~(active >= Limit)
    <3>1. pc' = [pc EXCEPT ![c] = "search"] /\ active' = active + 1 /\ pc[c] = "acquire"
          BY <2>2 DEF Acquire, Goto
    <3>2. Running' = Running \cup {c} /\ c \notin Running
          BY <1>2, <3>1 DEF Running
    <3>3. Cardinality(Running') = Cardinality(Running) + 1
          BY <3>2, RunningFinite, FS_AddElement
    <3>4. active' <= Limit
          BY <1>2, <2>2, <3>1, Parameters
    <3> QED BY <1>1, <1>2, <3>1, <3>3, <3>4 DEF Steps, Sound, InFlight
  <2>3. CASE Release(c)
    <3>1. pc[c] = "release" /\ active' = active - 1
          BY <2>3 DEF Release
    <3>2. PICK after \in {IF request[c] = Uncached THEN "answer" ELSE "store", "idle"} :
            \/ pc' = [pc EXCEPT ![c] = after]
            \/ \E d \in {d \in Callers : pc[d] = "waiting"} : pc' = [pc EXCEPT ![c] = after, ![d] = "acquire"]
          BY <2>3 DEF Release, Goto
    <3>3. after \in {"answer", "store", "idle"} /\ (after = "store" => request[c] \in Requests)
          BY <3>2 DEF Sound, TypeOK
    <3>4. /\ pc' \in [Callers -> Steps \cup {"idle"}] /\ pc'[c] = after
          /\ \A d \in Callers : d # c => pc'[d] = pc[d] \/ (pc[d] = "waiting" /\ pc'[d] = "acquire")
          BY <1>2, <3>1, <3>2, <3>3 DEF Steps
    <3>5. Running' = Running \ {c} /\ c \in Running
          BY <3>1, <3>3, <3>4 DEF Running
    <3>6. Cardinality(Running') = Cardinality(Running) - 1
          BY <3>5, RunningFinite, FS_RemoveElement
    <3>7. Cardinality(Running') \in Nat
      <4>1. IsFiniteSet(Running')
            BY <3>5, RunningFinite, FS_RemoveElement
      <4> QED BY <4>1, FS_CardinalityType
    <3>8. InFlight'
          BY <1>1, <3>1, <3>3, <3>4 DEF Sound, InFlight
    <3> QED BY <1>2, <3>1, <3>4, <3>6, <3>7, <3>8, Parameters
  <2> QED BY <2>1, <2>2, <2>3
<1>4. OneWideQuery'
      BY <1>3 DEF OneWideQuery, Running
<1>5. /\ cache' \subseteq Entry /\ Cardinality(cache') <= CacheEntries
      /\ older' \subseteq cache' \X cache' /\ IsFiniteSet(cache')
      /\ table' \in [Callers -> Tables] /\ request' \in [Callers -> Requests \cup {Uncached}]
      /\ handle' \in [Callers -> Handle \cup {NoHandle}]
      /\ value' \in [Callers -> Nat] /\ floor' \in [Callers -> Nat]
      /\ \A d \in Callers : Known(handle'[d], snapshot)
      BY <1>1 DEF Sound, TypeOK, lru, Opened
<1> QED BY <1>1, <1>3, <1>4, <1>5, CallerFrame

\* LruCache::put: a full cache evicts before it takes the new entry.
LEMMA SoundStore ==
  ASSUME Sound, NEW c \in Callers, Store(c) PROVE Sound'
<1> DEFINE rest == cache \ Hits(c)
<1>1. /\ UNCHANGED <<writer, catalog, snapshot, active, table, request, handle, value, floor>>
      /\ pc[c] = "store" /\ pc' = [pc EXCEPT ![c] = "answer"]
      BY DEF Store, Goto
<1>2. Result(c) \in Entry
      BY <1>1, HandleFacts DEF Result, Entry, Sound, TypeOK, InFlight
<1>3. rest \in SUBSET cache /\ IsFiniteSet(rest) /\ Cardinality(rest) \in Nat /\ Cardinality(rest) <= CacheEntries
  <2>1. rest \in SUBSET cache
        OBVIOUS
  <2>2. IsFiniteSet(rest) /\ Cardinality(rest) <= Cardinality(cache)
        BY <2>1, FS_Subset DEF Sound
  <2>3. Cardinality(rest) \in Nat /\ Cardinality(cache) \in Nat
        BY <2>2, FS_CardinalityType DEF Sound
  <2> QED BY <2>1, <2>2, <2>3, Parameters DEF Sound, TypeOK
<1>4. /\ cache' \subseteq Entry /\ Cardinality(cache') <= CacheEntries
      /\ older' \subseteq cache' \X cache' /\ IsFiniteSet(cache')
  <2>1. CASE UNCHANGED lru
        BY <2>1 DEF Sound, TypeOK, lru
  <2>2. CASE Cardinality(rest) < CacheEntries /\ Use(rest, Result(c))
    <3> HIDE DEF rest
    <3> QED BY <2>2, <1>2, <1>3, UseFacts DEF Sound
  <2>3. CASE \E oldest \in rest : Use(rest \ {oldest}, Result(c))
    <3>1. PICK oldest \in rest : Use(rest \ {oldest}, Result(c))
          BY <2>3
    <3> DEFINE left == rest \ {oldest}
    <3>2. left \in SUBSET cache
          OBVIOUS
    <3>3. Cardinality(left) = Cardinality(rest) - 1
          BY <1>3, <3>1, FS_RemoveElement
    <3>4. Cardinality(left) < CacheEntries
      <4> HIDE DEF left, rest
      <4> QED BY <1>3, <3>3, Parameters
    <3>5. Use(left, Result(c))
          BY <3>1
    <3> HIDE DEF left, rest
    <3> QED BY <3>2, <3>4, <3>5, <1>2, UseFacts DEF Sound
  <2> QED BY <2>1, <2>2, <2>3 DEF Store
<1>5. OneWideQuery'
      BY <1>1, RunningSame DEF Sound, TypeOK
<1>6. InFlight'
      BY <1>1 DEF Sound, TypeOK, InFlight
<1>7. /\ pc' \in [Callers -> Steps \cup {"idle"}] /\ active' \in Nat
      /\ table' \in [Callers -> Tables] /\ request' \in [Callers -> Requests \cup {Uncached}]
      /\ handle' \in [Callers -> Handle \cup {NoHandle}]
      /\ value' \in [Callers -> Nat] /\ floor' \in [Callers -> Nat]
      /\ \A d \in Callers : Known(handle'[d], snapshot)
      BY <1>1 DEF Sound, TypeOK, Steps, Opened
<1> QED BY <1>1, <1>4, <1>5, <1>6, <1>7, CallerFrame

LEMMA SoundNext == Sound /\ [Next]_vars => Sound'
<1> SUFFICES ASSUME Sound, [Next]_vars PROVE Sound'
    OBVIOUS
<1>1. CASE Write
      BY <1>1, SoundWrite
<1>2. CASE Publish
      BY <1>2, SoundPublish
<1>3. ASSUME NEW c \in Callers, Call(c) \/ Proceed(c) \/ SpuriousWakeup(c) PROVE Sound'
      BY <1>3, SoundCall, SoundLimiter, SoundStore DEF Proceed
<1>4. CASE UNCHANGED vars
  <2>1. OneWideQuery'
        BY <1>4, RunningSame DEF Sound, vars, caller
  <2>2. TypeOK' /\ IsFiniteSet(cache')
        BY <1>4 DEF Sound, TypeOK, vars, writer, catalog, lru, caller
  <2>3. Opened' /\ InFlight' /\ Pending'
        BY <1>4 DEF Sound, Opened, Known, InFlight, Pending, vars, writer, catalog, caller
  <2> QED BY <2>1, <2>2, <2>3 DEF Sound
<1> QED BY <1>1, <1>2, <1>3, <1>4 DEF Next

LEMMA SoundAlways == Spec => []Sound
BY SoundInit, SoundNext, PTL DEF Spec

(***************************************************************************)
(* SearchService's variables keep their types; in particular the cache     *)
(* never holds more than aggregation_cache_entries answers, whatever       *)
(* callers of however many generations store at once.                      *)
(***************************************************************************)
THEOREM TypeCorrect == Spec => []TypeOK
<1>1. Sound => TypeOK
      BY DEF Sound
<1> QED BY <1>1, SoundAlways, PTL

(***************************************************************************)
(* WideQueryLimiter: active is the number of callers between acquire and   *)
(* the drop of their permit, and never more than the limit, also when      *)
(* callers are woken spuriously.                                           *)
(***************************************************************************)
THEOREM WideQueriesAreLimited == Spec => []OneWideQuery
<1>1. Sound => OneWideQuery
      BY DEF Sound
<1> QED BY <1>1, SoundAlways, PTL

---------------------------------------------------------------------------
(* publish_catalog.                                                        *)

\* The handles of a table in the catalog and in the one being built.
Held(t) == ({canonical[t]} \cup (IF publishing = "yes" THEN {next[t]} ELSE {})) \ {NoHandle}

Separate ==
  \A t, u \in Tables : t # u => \A g \in Held(t), h \in Held(u) : g.reader # h.reader

Built ==
  publishing = "yes" =>
    \A t \in Tables :
      IF defs[t] = NoDef THEN next[t] = NoHandle
      ELSE t \notin todo =>
             /\ next[t] # NoHandle /\ next[t].def = defs[t]
             /\ snapshot[next[t].reader] = index[t]

LEMMA HeldFacts ==
  ASSUME Sound, NEW t \in Tables, NEW h \in Held(t)
  PROVE  h \in Handle /\ h.reader \in 1..Len(snapshot)
BY DEF Held, Sound, TypeOK, Opened, Known

\* The catalog's handles are as they were, and none has been built yet.
LEMMA StartFacts ==
  ASSUME Sound, Write, Separate
  PROVE  Separate' /\ Built'
<1>1. /\ publishing = "no" /\ UNCHANGED <<catalog, snapshot>>
      /\ \/ publishing' = "no"
         \/ publishing' = "yes" /\ next' = NoHandles /\ todo' = {t \in Tables : defs'[t] # NoDef}
      BY DEF Write, Republish, Commit, Redefine, StartPublish, KeepPublished
<1>2. ASSUME NEW t \in Tables PROVE Held(t)' \subseteq Held(t)
      BY <1>1 DEF Held, NoHandles, catalog
<1>3. Separate'
      BY <1>2 DEF Separate
<1>4. Built'
      BY <1>1 DEF Built, NoHandles
<1> QED BY <1>3, <1>4

\* A round of publish_catalog leaves the readers of other tables alone.
LEMMA OthersApart ==
  ASSUME Sound, NEW t \in Tables, PublishTable(t), Separate,
         NEW u \in Tables, u # t, NEW h \in Held(u)
  PROVE  /\ h.reader \in 1..Len(snapshot) /\ h.reader # next'[t].reader
         /\ snapshot'[h.reader] = snapshot[h.reader]
<1>1. /\ \A r \in 1..Len(snapshot) : r # next'[t].reader => snapshot'[r] = snapshot[r]
      /\ \/ canonical[t] # NoHandle /\ next'[t].reader = canonical[t].reader
         \/ next'[t].reader = Len(snapshot) + 1
      BY PublishTableFacts
<1>2. h.reader \in 1..Len(snapshot) /\ Len(snapshot) \in Nat
      BY HeldFacts DEF Sound, TypeOK
<1>3. CASE canonical[t] # NoHandle /\ next'[t].reader = canonical[t].reader
  <2>1. canonical[t] \in Held(t)
        BY <1>3 DEF Held
  <2> QED BY <1>1, <1>2, <1>3, <2>1 DEF Separate
<1>4. CASE next'[t].reader = Len(snapshot) + 1
      BY <1>1, <1>2, <1>4
<1> QED BY <1>1, <1>3, <1>4

LEMMA PublishSeparate ==
  ASSUME Sound, NEW t \in Tables, PublishTable(t), Separate, Built
  PROVE  Separate' /\ Built'
<1>1. /\ UNCHANGED <<defs, index, publishing>>
      /\ publishing = "yes" /\ t \in todo /\ todo' = todo \ {t}
      /\ canonical' = [canonical EXCEPT ![t] = NoHandle]
      /\ next' = [next EXCEPT ![t] = next'[t]] /\ next'[t] \in Handle
      /\ next'[t].def = defs[t]
      /\ snapshot'[next'[t].reader] = index[t]
      /\ \A r \in 1..Len(snapshot) : r # next'[t].reader => snapshot'[r] = snapshot[r]
      /\ \/ canonical[t] # NoHandle /\ next'[t].reader = canonical[t].reader
         \/ next'[t].reader = Len(snapshot) + 1
      BY PublishTableFacts
<1>2. snapshot \in Seq(Nat) /\ Len(snapshot) \in Nat
      BY DEF Sound, TypeOK
<1>3. ASSUME NEW u \in Tables, u # t PROVE Held(u)' = Held(u) /\ next'[u] = next[u]
      BY <1>1, <1>3 DEF Held, Sound, TypeOK
<1>4. Held(t)' = {next'[t]}
  <2>1. canonical'[t] = NoHandle /\ publishing' = "yes" /\ next'[t] # NoHandle
        BY <1>1, HandleFacts DEF Sound, TypeOK
  <2>2. Held(t)' = ({canonical'[t]} \cup {next'[t]}) \ {NoHandle}
        BY <2>1 DEF Held
  <2> QED BY <2>1, <2>2
<1>5. ASSUME NEW u \in Tables, u # t, NEW h \in Held(u) PROVE h.reader # next'[t].reader
      BY <1>5, OthersApart
<1>6. Separate'
  <2> SUFFICES ASSUME NEW u \in Tables, NEW w \in Tables, u # w, NEW g \in Held(u)', NEW h \in Held(w)'
               PROVE  g.reader # h.reader
      BY DEF Separate
  <2>1. CASE u = t
        BY <2>1, <1>3, <1>4, <1>5
  <2>2. CASE w = t
        BY <2>2, <1>3, <1>4, <1>5
  <2>3. CASE u # t /\ w # t
        BY <2>3, <1>3 DEF Separate
  <2> QED BY <2>1, <2>2, <2>3
<1>7. Built'
  <2> SUFFICES ASSUME NEW u \in Tables
               PROVE  IF defs[u] = NoDef THEN next'[u] = NoHandle
                      ELSE u \notin todo' =>
                             /\ next'[u] # NoHandle /\ next'[u].def = defs[u]
                             /\ snapshot'[next'[u].reader] = index[u]
      BY <1>1 DEF Built
  <2>1. CASE u = t
        BY <2>1, <1>1, HandleFacts DEF Sound, Pending
  <2>2. CASE u # t
    <3>1. next'[u] = next[u] /\ (u \notin todo' => u \notin todo)
          BY <2>2, <1>1, <1>3
    <3>2. ASSUME defs[u] # NoDef, u \notin todo
          PROVE  /\ next[u] # NoHandle /\ next[u].def = defs[u]
                 /\ snapshot'[next[u].reader] = index[u]
      <4>1. next[u] # NoHandle /\ next[u].def = defs[u] /\ snapshot[next[u].reader] = index[u]
            BY <3>2, <1>1 DEF Built
      <4>2. next[u] \in Held(u)
            BY <4>1, <1>1 DEF Held
      <4>3. next[u].reader # next'[t].reader /\ next[u].reader \in 1..Len(snapshot)
            BY <2>2, <4>2, <1>5, HeldFacts
      <4> QED BY <4>1, <4>3, <1>1
    <3> QED BY <3>1, <3>2, <1>1 DEF Built
  <2> QED BY <2>1, <2>2
<1> QED BY <1>6, <1>7

LEMMA PublishNext == Sound /\ Separate /\ Built /\ [Next]_vars => Separate' /\ Built'
<1> SUFFICES ASSUME Sound, Separate, Built, [Next]_vars PROVE Separate' /\ Built'
    OBVIOUS
<1>1. CASE Write
      BY <1>1, StartFacts
<1>2. ASSUME NEW t \in Tables, PublishTable(t) PROVE Separate' /\ Built'
      BY <1>2, PublishSeparate
<1>3. CASE PublishDone
  <2>1. publishing = "yes" /\ publishing' = "no" /\ canonical' = next
        BY <1>3 DEF PublishDone
  <2>2. ASSUME NEW t \in Tables PROVE Held(t)' \subseteq Held(t)
        BY <2>1 DEF Held
  <2> QED BY <2>1, <2>2 DEF Separate, Built
<1>4. ASSUME NEW t \in Tables, PublishError(t) PROVE Separate' /\ Built'
  <2>1. publishing' = "no" /\ canonical' = [canonical EXCEPT ![t] = NoHandle]
        BY <1>4 DEF PublishError
  <2>2. ASSUME NEW u \in Tables PROVE Held(u)' \subseteq Held(u)
        BY <2>1 DEF Held, Sound, TypeOK
  <2> QED BY <2>1, <2>2 DEF Separate, Built
<1>5. CASE \/ \E c \in Callers : Call(c) \/ Proceed(c) \/ SpuriousWakeup(c)
           \/ UNCHANGED vars
  <2>1. UNCHANGED <<writer, catalog, snapshot>>
        BY <1>5 DEF Call, Lookup, Proceed, Probe, Acquire, Search, Release, Store, Answer, SpuriousWakeup, vars
  <2> QED BY <2>1 DEF Separate, Held, Built, writer, catalog
<1> QED BY <1>1, <1>2, <1>3, <1>4, <1>5 DEF Next, Publish

(***************************************************************************)
(* When an operation has returned Ok, the catalog that publish_catalog has *)
(* put in place is the durable one: every defined table has a handle with  *)
(* its definition and a reader at its last commit, no other table has one. *)
(* It holds although reader clones are shared with the callers, tables are *)
(* redefined, created and dropped, and earlier publications failed         *)
(* half-way.                                                               *)
(***************************************************************************)
THEOREM PublishedIsSearchable == Spec => SearchableOnReturn
<1> DEFINE Searchable ==
             PublishDone =>
               \A t \in Tables :
                 IF defs[t] = NoDef THEN lookup'[t] = NoHandle
                 ELSE lookup'[t].def = defs[t] /\ snapshot[lookup'[t].reader] = index[t]
<1>1. Init => Separate /\ Built
      BY Parameters DEF Init, Separate, Held, Built, NoHandles
<1>2. Sound /\ Separate /\ Built /\ [Next]_vars => [Searchable]_vars
      BY DEF PublishDone, Built
<1> QED BY <1>1, <1>2, SoundAlways, PublishNext, PTL DEF Spec, SearchableOnReturn

---------------------------------------------------------------------------
(* Generations, while definitions stay as they are.                        *)

\* The newest handle of a table: the one being built, once there is one.
Newest(t) == IF publishing = "yes" /\ t \notin todo THEN next[t] ELSE canonical[t]

\* Every publication covers every table, and finds its handle with the same definition.
Stable ==
  /\ \A t \in Tables : defs[t] # NoDef
  /\ \A t \in Tables : Newest(t) # NoHandle =>
       /\ Newest(t).def = defs[t]
       /\ snapshot[Newest(t).reader] <= index[t]
  /\ publishing = "no" => \A t \in Tables : lookup[t] = canonical[t]

Level(t) == snapshot[Newest(t).reader]

\* A caller's floor is what its generation was published with: the newest
\* generation still is at that level, a later one is not below it.
Floors ==
  /\ \A c \in Callers : handle[c] # NoHandle =>
       /\ Newest(table[c]) # NoHandle /\ handle[c].reader = Newest(table[c]).reader
       /\ handle[c].generation <= Newest(table[c]).generation
       /\ floor[c] <= Level(table[c])
       /\ handle[c].generation = Newest(table[c]).generation => floor[c] = Level(table[c])
  /\ \A c, d \in Callers :
       /\ handle[c] # NoHandle /\ handle[d] # NoHandle
       /\ table[c] = table[d] /\ handle[c].generation = handle[d].generation
       => floor[c] = floor[d]

\* So is what is cached under a generation, and what a caller has found.
Answers ==
  /\ \A e \in cache :
       /\ Newest(e.table) # NoHandle /\ e.generation <= Newest(e.table).generation
       /\ e.generation = Newest(e.table).generation => e.value >= Level(e.table)
       /\ \A c \in Callers :
            handle[c] # NoHandle /\ table[c] = e.table /\ handle[c].generation = e.generation
              => e.value >= floor[c]
  /\ \A c \in Callers : pc[c] \in {"release", "store", "answer"} => value[c] >= floor[c]

Fresh == Stable /\ Floors /\ Answers

\* Nothing that Newest and Level are made of changes.
LEMMA NewestSame ==
  ASSUME UNCHANGED <<writer, catalog, snapshot>>
  PROVE  /\ \A t : Newest(t)' = Newest(t) /\ Level(t)' = Level(t)
         /\ Stable => Stable'
<1>1. \A t : Newest(t)' = Newest(t)
      BY DEF Newest, writer, catalog
<1>2. \A t : Level(t)' = Level(t)
      BY <1>1 DEF Level
<1>3. Stable => Stable'
      BY <1>1 DEF Stable, writer, catalog
<1> QED BY <1>1, <1>2, <1>3

LEMMA FreshWrite ==
  ASSUME Sound, Fresh, Redefines = FALSE, Write PROVE Fresh'
<1>1. /\ publishing = "no" /\ UNCHANGED <<catalog, snapshot, lru, caller, defs>>
      /\ \A t \in Tables : index'[t] = index[t] \/ index'[t] = index[t] + 1
      /\ \/ publishing' = "no" /\ todo' = todo
         \/ publishing' = "yes" /\ todo' = {t \in Tables : defs'[t] # NoDef}
      BY DEF Write, Republish, Commit, Redefine, StartPublish, KeepPublished, Sound, TypeOK
<1>2. ASSUME NEW t \in Tables PROVE Newest(t)' = Newest(t) /\ Level(t)' = Level(t)
  <2>1. Newest(t)' = Newest(t)
        BY <1>1 DEF Newest, Fresh, Stable, catalog
  <2> QED BY <1>1, <2>1 DEF Level
<1>3. Stable'
  <2>1. ASSUME NEW t \in Tables, Newest(t) # NoHandle
        PROVE  Newest(t).def = defs'[t] /\ snapshot'[Newest(t).reader] <= index'[t]
    <3>1. Newest(t).reader \in 1..Len(snapshot) /\ snapshot \in Seq(Nat)
          BY <2>1, <1>1 DEF Newest, Sound, TypeOK, Opened, Known
    <3>2. snapshot[Newest(t).reader] \in Nat /\ index[t] \in Nat
          BY <3>1 DEF Sound, TypeOK
    <3> QED BY <1>1, <2>1, <3>2 DEF Fresh, Stable
  <2> QED BY <1>1, <1>2, <2>1 DEF Fresh, Stable, catalog
<1>4. Floors'
      BY <1>1, <1>2 DEF Fresh, Floors, Sound, TypeOK, caller
<1>5. Answers'
      BY <1>1, <1>2 DEF Fresh, Answers, Sound, TypeOK, Entry, caller, lru
<1> QED BY <1>3, <1>4, <1>5 DEF Fresh

\* The newest handle of a table names a reader that is open.
LEMMA NewestFacts ==
  ASSUME Sound, NEW t \in Tables, Newest(t) # NoHandle
  PROVE  /\ Newest(t) \in Held(t) /\ Newest(t) \in Handle /\ Newest(t).generation \in Nat
         /\ Newest(t).reader \in 1..Len(snapshot) /\ Level(t) \in Nat
<1>1. Newest(t) \in Held(t)
      BY DEF Newest, Held
<1>2. Newest(t) \in Handle /\ Newest(t).reader \in 1..Len(snapshot)
      BY <1>1, HeldFacts
<1>3. Level(t) \in Nat
      BY <1>2 DEF Level, Sound, TypeOK
<1> QED BY <1>1, <1>2, <1>3, HandleFacts

\* A reload: the table's next generation is one that nobody has seen.
LEMMA FreshTable ==
  ASSUME Sound, Separate, Fresh, NEW t \in Tables, PublishTable(t) PROVE Fresh'
<1>1. /\ UNCHANGED <<defs, index, lookup, publishing, caller>>
      /\ publishing = "yes" /\ t \in todo /\ todo' = todo \ {t}
      /\ canonical' = [canonical EXCEPT ![t] = NoHandle]
      /\ next' = [next EXCEPT ![t] = next'[t]] /\ next'[t] \in Handle
      /\ next'[t].def = defs[t]
      /\ snapshot'[next'[t].reader] = index[t]
      /\ Keep({e \in cache : e.table # t})
      BY PublishTableFacts
<1>2. Newest(t) = canonical[t] /\ Newest(t)' = next'[t] /\ Level(t)' = index[t]
      BY <1>1 DEF Newest, Level
<1>3. ASSUME NEW u \in Tables, u # t PROVE Newest(u)' = Newest(u)
      BY <1>1, <1>3 DEF Newest, Sound, TypeOK
<1>4. ASSUME NEW u \in Tables, u # t, Newest(u) # NoHandle PROVE Level(u)' = Level(u)
  <2>1. snapshot'[Newest(u).reader] = snapshot[Newest(u).reader]
        BY <1>4, NewestFacts, OthersApart
  <2> QED BY <2>1, <1>3, <1>4 DEF Level
<1>5. ASSUME Newest(t) # NoHandle
      PROVE  /\ Newest(t)'.reader = Newest(t).reader
             /\ Newest(t)'.generation = Newest(t).generation + 1
             /\ Level(t) <= Level(t)' /\ Level(t) \in Nat /\ Newest(t).generation \in Nat
  <2>1. canonical[t] # NoHandle /\ canonical[t].def = defs[t] /\ Level(t) <= index[t]
        BY <1>2, <1>5 DEF Fresh, Stable, Level
  <2>2. next'[t].reader = canonical[t].reader /\ next'[t].generation = canonical[t].generation + 1
        BY <2>1, PublishTableFacts
  <2> QED BY <1>2, <1>5, <2>1, <2>2, NewestFacts
<1>6. cache' = {e \in cache : e.table # t}
      BY <1>1 DEF Keep
<1>7. Stable'
  <2>1. ASSUME NEW u \in Tables, Newest(u)' # NoHandle
        PROVE  Newest(u)'.def = defs[u] /\ Level(u)' <= index[u]
    <3>1. CASE u = t
          BY <3>1, <1>1, <1>2 DEF Sound, TypeOK
    <3>2. CASE u # t
          BY <2>1, <3>2, <1>3, <1>4 DEF Fresh, Stable, Level
    <3> QED BY <3>1, <3>2
  <2> QED BY <2>1, <1>1 DEF Fresh, Stable, Level
<1>8. Floors'
  <2>1. ASSUME NEW c \in Callers, handle[c] # NoHandle
        PROVE  /\ Newest(table[c])' # NoHandle /\ handle[c].reader = Newest(table[c])'.reader
               /\ handle[c].generation <= Newest(table[c])'.generation
               /\ floor[c] <= Level(table[c])'
               /\ handle[c].generation = Newest(table[c])'.generation => floor[c] = Level(table[c])'
    <3>0. table' = table
          BY <1>1 DEF caller
    <3>1. /\ Newest(table[c]) # NoHandle /\ handle[c].reader = Newest(table[c]).reader
          /\ handle[c].generation <= Newest(table[c]).generation
          /\ floor[c] <= Level(table[c]) /\ table[c] \in Tables /\ floor[c] \in Nat
          /\ handle[c].generation = Newest(table[c]).generation => floor[c] = Level(table[c])
          BY <2>1 DEF Fresh, Floors, Sound, TypeOK
    <3>2. handle[c].generation \in Nat
          BY <2>1, HandleFacts DEF Sound, TypeOK
    <3>3. CASE table[c] = t
      <4>1. Newest(t)' # NoHandle
            BY <1>1, <1>2, HandleFacts
      <4>2. Level(t)' \in Nat
            BY <1>2 DEF Sound, TypeOK
      <4> QED BY <3>0, <3>1, <3>2, <3>3, <4>1, <4>2, <1>5
    <3>4. CASE table[c] # t
          BY <3>0, <3>1, <3>4, <1>3, <1>4
    <3> QED BY <3>3, <3>4
  <2>2. UNCHANGED <<handle, table, floor>>
        BY <1>1 DEF caller
  <2> QED BY <2>1, <2>2 DEF Fresh, Floors
<1>9. Answers'
  <2>1. ASSUME NEW e \in cache'
        PROVE  /\ Newest(e.table)' = Newest(e.table) /\ e \in cache
               /\ Newest(e.table) # NoHandle => Level(e.table)' = Level(e.table)
        BY <1>3, <1>4, <1>6 DEF Sound, TypeOK, Entry
  <2>2. UNCHANGED <<handle, table, floor, pc, value>>
        BY <1>1 DEF caller
  <2> QED BY <2>1, <2>2 DEF Fresh, Answers
<1> QED BY <1>7, <1>8, <1>9 DEF Fresh

LEMMA FreshDone == ASSUME Sound, Fresh, PublishDone PROVE Fresh'
<1>1. /\ publishing = "yes" /\ todo = {} /\ canonical' = next /\ lookup' = next /\ publishing' = "no"
      /\ UNCHANGED <<defs, index, snapshot, lru, caller>>
      BY DEF PublishDone
<1>2. \A t : Newest(t)' = Newest(t) /\ Level(t)' = Level(t)
      BY <1>1 DEF Newest, Level
<1>3. Stable'
      BY <1>1, <1>2 DEF Fresh, Stable
<1> QED BY <1>1, <1>2, <1>3 DEF Fresh, Floors, Answers, lru, caller

\* handle(): the caller joins the newest generation, at its level.
LEMMA FreshLookup ==
  ASSUME Sound, Fresh, NEW c \in Callers, Call(c) PROVE Fresh'
<1>1. PICK t \in Tables, q \in Requests \cup {Uncached} : Lookup(c, t, q)
      BY DEF Call
<1>2. /\ publishing = "no" /\ lookup[t] # NoHandle
      /\ table' = [table EXCEPT ![c] = t]
      /\ handle' = [handle EXCEPT ![c] = lookup[t]]
      /\ floor' = [floor EXCEPT ![c] = snapshot[lookup[t].reader]]
      /\ pc' = [pc EXCEPT ![c] = IF q = Uncached THEN "acquire" ELSE "probe"]
      /\ UNCHANGED <<writer, catalog, snapshot, lru, value>>
      BY <1>1 DEF Lookup, Goto
<1>3. (\A u : Newest(u)' = Newest(u) /\ Level(u)' = Level(u)) /\ Stable'
      BY <1>2, NewestSame DEF Fresh
<1>4. lookup[t] = Newest(t) /\ Newest(t) # NoHandle /\ snapshot[lookup[t].reader] = Level(t)
      BY <1>2 DEF Fresh, Stable, Newest, Level
<1>5. /\ table'[c] = t /\ handle'[c] = Newest(t) /\ floor'[c] = Level(t)
      /\ pc'[c] \notin {"release", "store", "answer"}
      /\ \A d \in Callers : d # c => /\ table'[d] = table[d] /\ handle'[d] = handle[d]
                                     /\ floor'[d] = floor[d] /\ pc'[d] = pc[d]
  <2>1. pc'[c] \notin {"release", "store", "answer"}
        BY <1>2 DEF Sound, TypeOK
  <2> QED BY <1>2, <1>4, <2>1 DEF Sound, TypeOK
<1>6. Level(t) \in Nat /\ Newest(t).generation \in Nat
      BY <1>4, NewestFacts
<1>7. Floors'
  <2>1. ASSUME NEW d \in Callers, handle'[d] # NoHandle
        PROVE  /\ Newest(table'[d]) # NoHandle /\ handle'[d].reader = Newest(table'[d]).reader
               /\ handle'[d].generation <= Newest(table'[d]).generation
               /\ floor'[d] <= Level(table'[d])
               /\ handle'[d].generation = Newest(table'[d]).generation => floor'[d] = Level(table'[d])
    <3>1. CASE d = c
          BY <3>1, <1>4, <1>5, <1>6
    <3>2. CASE d # c
          BY <2>1, <3>2, <1>5 DEF Fresh, Floors
    <3> QED BY <3>1, <3>2
  <2>2. ASSUME NEW b \in Callers, NEW d \in Callers, handle'[b] # NoHandle, handle'[d] # NoHandle,
               table'[b] = table'[d], handle'[b].generation = handle'[d].generation
        PROVE  floor'[b] = floor'[d]
    <3>1. CASE b = c \/ d = c
          BY <2>1, <2>2, <3>1, <1>5
    <3>2. CASE b # c /\ d # c
          BY <2>2, <3>2, <1>5 DEF Fresh, Floors
    <3> QED BY <3>1, <3>2
  <2>3. \A d \in Callers : Newest(table[d])' = Newest(table'[d]) /\ Level(table[d])' = Level(table'[d])
    <3>1. publishing' = publishing /\ todo' = todo /\ next' = next /\ canonical' = canonical /\ snapshot' = snapshot
          BY <1>2 DEF writer, catalog
    <3> QED BY <3>1 DEF Newest, Level
  <2> QED BY <2>1, <2>2, <2>3 DEF Floors
<1>8. Answers'
  <2>1. cache' = cache /\ value' = value
        BY <1>2 DEF lru
  <2>2. ASSUME NEW e \in cache, NEW d \in Callers, handle'[d] # NoHandle, table'[d] = e.table,
               handle'[d].generation = e.generation
        PROVE  e.value >= floor'[d]
    <3>1. CASE d = c
          BY <2>2, <3>1, <1>5 DEF Fresh, Answers
    <3>2. CASE d # c
          BY <2>2, <3>2, <1>5 DEF Fresh, Answers
    <3> QED BY <3>1, <3>2
  <2>3. \A d \in Callers : pc'[d] \in {"release", "store", "answer"} => value[d] >= floor'[d]
        BY <1>5 DEF Fresh, Answers
  <2> QED BY <2>1, <2>2, <2>3, <1>3 DEF Fresh, Answers
<1> QED BY <1>3, <1>7, <1>8 DEF Fresh

\* The other steps of a caller leave every handle and floor as it is.
LEMMA FreshFrame ==
  ASSUME Sound, Fresh, UNCHANGED <<writer, catalog, snapshot, table, handle, floor>>,
         \A e \in cache' : e \in cache \/ \E c \in Callers :
           /\ handle[c] # NoHandle /\ value[c] >= floor[c]
           /\ e.table = table[c] /\ e.generation = handle[c].generation /\ e.value = value[c],
         \A c \in Callers : pc'[c] \in {"release", "store", "answer"} => value'[c] >= floor[c]
  PROVE  Fresh'
<1>1. (\A u : Newest(u)' = Newest(u) /\ Level(u)' = Level(u)) /\ Stable'
      BY NewestSame DEF Fresh
<1>2. Floors'
      BY <1>1 DEF Fresh, Floors
<1>3. ASSUME NEW e \in cache'
      PROVE  /\ Newest(e.table) # NoHandle /\ e.generation <= Newest(e.table).generation
             /\ e.generation = Newest(e.table).generation => e.value >= Level(e.table)
             /\ \A d \in Callers :
                  handle[d] # NoHandle /\ table[d] = e.table /\ handle[d].generation = e.generation
                    => e.value >= floor[d]
  <2>1. CASE e \in cache
        BY <2>1 DEF Fresh, Answers
  <2>2. ASSUME NEW c \in Callers, handle[c] # NoHandle, value[c] >= floor[c],
               e.table = table[c], e.generation = handle[c].generation, e.value = value[c]
        PROVE  /\ Newest(e.table) # NoHandle /\ e.generation <= Newest(e.table).generation
               /\ e.generation = Newest(e.table).generation => e.value >= Level(e.table)
               /\ \A d \in Callers :
                    handle[d] # NoHandle /\ table[d] = e.table /\ handle[d].generation = e.generation
                      => e.value >= floor[d]
        BY <2>2 DEF Fresh, Floors
  <2> QED BY <2>1, <2>2
<1>4. Answers'
      BY <1>1, <1>3 DEF Answers
<1> QED BY <1>1, <1>2, <1>4 DEF Fresh

LEMMA FreshCaller ==
  ASSUME Sound, Fresh, NEW c \in Callers, Proceed(c) \/ SpuriousWakeup(c) PROVE Fresh'
<1>1. UNCHANGED <<writer, catalog, snapshot, table, handle, floor>>
      BY DEF Proceed, Probe, Acquire, Search, Release, Store, Answer, SpuriousWakeup
<1>2. pc \in [Callers -> Steps \cup {"idle"}] /\ value \in [Callers -> Nat]
      BY DEF Sound, TypeOK
<1>3. CASE Probe(c)
  <2>1. CASE Goto(c, "acquire") /\ UNCHANGED <<lru, value>>
    <3>1. cache' = cache /\ \A d \in Callers : pc'[d] = pc[d] \/ pc'[d] = "acquire"
          BY <2>1, <1>2 DEF Goto, lru
    <3>2. \A d \in Callers : pc'[d] \in {"release", "store", "answer"} => value'[d] >= floor[d]
          BY <2>1, <3>1 DEF Fresh, Answers
    <3> QED BY <1>1, <3>1, <3>2, FreshFrame
  <2>2. CASE \E e \in Hits(c) : /\ value' = [value EXCEPT ![c] = e.value]
                                /\ Use(cache \ {e}, e)
                                /\ Goto(c, "answer")
    <3>1. PICK e \in Hits(c) : /\ value' = [value EXCEPT ![c] = e.value]
                               /\ Use(cache \ {e}, e)
                               /\ Goto(c, "answer")
          BY <2>2
    <3>2. e \in cache /\ cache' = cache
          BY <3>1 DEF Hits, Use
    <3>3. e.value >= floor[c]
      <4>1. handle[c] # NoHandle /\ table[c] = e.table /\ handle[c].generation = e.generation
            BY <1>3 DEF Probe, Hits, Sound, InFlight
      <4> QED BY <3>2, <4>1 DEF Fresh, Answers
    <3>4. /\ value'[c] = e.value
          /\ \A d \in Callers : d # c => value'[d] = value[d] /\ pc'[d] = pc[d]
          BY <3>1, <1>2 DEF Goto
    <3>5. \A d \in Callers : pc'[d] \in {"release", "store", "answer"} => value'[d] >= floor[d]
          BY <3>3, <3>4 DEF Fresh, Answers
    <3> QED BY <1>1, <3>2, <3>5, FreshFrame
  <2> QED BY <1>3, <2>1, <2>2 DEF Probe
<1>4. CASE Search(c)
  <2>1. value' = [value EXCEPT ![c] = snapshot[handle[c].reader]] /\ cache' = cache
        /\ pc' = [pc EXCEPT ![c] = "release"] /\ handle[c] # NoHandle
        BY <1>4 DEF Search, Goto, lru, Sound, InFlight
  <2>2. snapshot[handle[c].reader] = Level(table[c]) /\ floor[c] <= Level(table[c])
        BY <2>1 DEF Fresh, Floors, Level
  <2>3. Level(table[c]) \in Nat /\ floor[c] \in Nat
    <3>1. Newest(table[c]) # NoHandle /\ table[c] \in Tables
          BY <2>1 DEF Fresh, Floors, Sound, TypeOK
    <3> QED BY <3>1, NewestFacts DEF Sound, TypeOK
  <2>4. /\ value'[c] >= floor[c]
        /\ \A d \in Callers : d # c => value'[d] = value[d] /\ pc'[d] = pc[d]
        BY <2>1, <2>2, <2>3, <1>2
  <2>5. \A d \in Callers : pc'[d] \in {"release", "store", "answer"} => value'[d] >= floor[d]
        BY <2>4 DEF Fresh, Answers
  <2> QED BY <1>1, <2>1, <2>5, FreshFrame
<1>5. CASE Store(c)
  <2>1. /\ pc[c] = "store" /\ pc' = [pc EXCEPT ![c] = "answer"] /\ value' = value
        /\ handle[c] # NoHandle
        BY <1>5 DEF Store, Goto, Sound, InFlight
  <2>2. value[c] >= floor[c]
        BY <2>1 DEF Fresh, Answers
  <2>3. \A e \in cache' : e \in cache \/ e = Result(c)
        BY <1>5 DEF Store, Use, lru
  <2>4. Result(c).table = table[c] /\ Result(c).generation = handle[c].generation /\ Result(c).value = value[c]
        BY DEF Result
  <2>5. \A d \in Callers : pc'[d] \in {"release", "store", "answer"} => value'[d] >= floor[d]
        BY <2>1, <2>2, <1>2 DEF Fresh, Answers
  <2>6. \A e \in cache' : e \in cache \/ \E d \in Callers :
           /\ handle[d] # NoHandle /\ value[d] >= floor[d]
           /\ e.table = table[d] /\ e.generation = handle[d].generation /\ e.value = value[d]
        BY <2>1, <2>2, <2>3, <2>4
  <2> QED BY <1>1, <2>5, <2>6, FreshFrame
<1>6. CASE Acquire(c) \/ Release(c) \/ Answer(c) \/ SpuriousWakeup(c)
  <2>1. cache' = cache /\ value' = value
        BY <1>6 DEF Acquire, Release, Answer, SpuriousWakeup, lru
  <2>2. \A d \in Callers : pc'[d] \in {"release", "store", "answer"} => pc[d] \in {"release", "store", "answer"}
    <3>1. CASE Acquire(c) \/ Answer(c) \/ SpuriousWakeup(c)
          BY <3>1, <1>2 DEF Acquire, Answer, SpuriousWakeup, Goto
    <3>2. CASE Release(c)
      <4>1. pc[c] = "release"
            BY <3>2 DEF Release
      <4>2. PICK after \in {IF request[c] = Uncached THEN "answer" ELSE "store", "idle"} :
              \/ pc' = [pc EXCEPT ![c] = after]
              \/ \E d \in {d \in Callers : pc[d] = "waiting"} : pc' = [pc EXCEPT ![c] = after, ![d] = "acquire"]
            BY <3>2 DEF Release, Goto
      <4>3. \A d \in Callers : d # c => pc'[d] = pc[d] \/ pc'[d] = "acquire"
            BY <1>2, <4>2
      <4> QED BY <4>1, <4>3
    <3> QED BY <1>6, <3>1, <3>2
  <2>3. \A d \in Callers : pc'[d] \in {"release", "store", "answer"} => value'[d] >= floor[d]
        BY <2>1, <2>2 DEF Fresh, Answers
  <2> QED BY <1>1, <2>1, <2>3, FreshFrame
<1> QED BY <1>3, <1>4, <1>5, <1>6 DEF Proceed

LEMMA FreshNext ==
  ASSUME Redefines = FALSE, PublishFails = FALSE, Sound, Separate, Fresh, [Next]_vars
  PROVE  Fresh'
<1>1. CASE Write
      BY <1>1, FreshWrite
<1>2. CASE Publish
      BY <1>2, FreshTable, FreshDone DEF Publish, PublishError
<1>3. CASE \E c \in Callers : Call(c) \/ Proceed(c) \/ SpuriousWakeup(c)
      BY <1>3, FreshLookup, FreshCaller
<1>4. CASE UNCHANGED vars
  <2>1. /\ UNCHANGED <<writer, catalog, snapshot, table, handle, floor>>
        /\ cache' = cache /\ pc' = pc /\ value' = value
        BY <1>4 DEF vars, caller, lru
  <2>2. \A d \in Callers : pc'[d] \in {"release", "store", "answer"} => value'[d] >= floor[d]
        BY <2>1 DEF Fresh, Answers
  <2> QED BY <2>1, <2>2, FreshFrame
<1> QED BY <1>1, <1>2, <1>3, <1>4 DEF Next

(***************************************************************************)
(* A cached or computed aggregation is never older than the snapshot that  *)
(* was published when its caller looked the table up: the generation in    *)
(* AggregationCacheKey separates the answers of publications, also when a  *)
(* slow caller stores its answer after the table was invalidated. The      *)
(* definitions stay the same and every publication succeeds; after a       *)
(* change or an error generations start again at 1, and it does not hold.  *)
(***************************************************************************)
THEOREM AnswersAreFresh ==
  ASSUME Redefines = FALSE, PublishFails = FALSE
  PROVE  Spec => []FreshAnswers
<1>1. Init => Separate /\ Built /\ Fresh
      BY Parameters DEF Init, Separate, Held, Built, NoHandles, Fresh, Stable, Floors, Answers, Newest
<1>2. Sound /\ Separate /\ Built /\ Fresh /\ [Next]_vars => Separate' /\ Built' /\ Fresh'
      BY PublishNext, FreshNext
<1>3. Fresh => FreshAnswers
      BY DEF Fresh, Answers, FreshAnswers
<1> QED BY <1>1, <1>2, <1>3, SoundAlways, PTL DEF Spec

=============================================================================

---------------------------- MODULE ClientProofs ----------------------------
(***************************************************************************)
(* What holds of the HSTS store that the fetches of a Client share, for    *)
(* any number of tasks, hosts and fetches and whatever overtakes what: it  *)
(* keeps to its ceiling, drops only what it must, and answers for every    *)
(* host what the host was last believed to say.                            *)
(***************************************************************************)
EXTENDS Client, FiniteSetTheorems, SequenceTheorems, TLAPS

-----------------------------------------------------------------------------
(* The walk from a host to its parents.                                    *)

IsHost(host) == host \in Seq(Range(host)) /\ host # <<>>

\* What secure walks over is the host itself, and then its parents.
LEMMA DomainsMeaning ==
    ASSUME NEW host, IsHost(host), NEW n \in DOMAIN host
    PROVE  /\ n \in 1 .. Len(host) /\ 1 \in DOMAIN host
           /\ Store!Domains(host)[n] = SubSeq(host, n, Len(host))
           /\ Store!Domains(host)[1] = host
<1>1. Len(host) \in Nat /\ DOMAIN host = 1 .. Len(host) /\ Len(host) > 0
  BY DEF IsHost
<1>2. SubSeq(host, 1, Len(host)) = host
  BY <1>1 DEF IsHost
<1> QED BY <1>1, <1>2 DEF Store!Domains

\* A domain is a parent of a host (domain_matches) just when the walk comes to it
\* after the host.
LEMMA ParentsAreWalked ==
    ASSUME NEW host, IsHost(host), NEW domain, IsHost(domain)
    PROVE  Jar!IsStrictSuffix(domain, host) <=>
             \E n \in DOMAIN host : n # 1 /\ domain = SubSeq(host, n, Len(host))
<1> DEFINE h == Len(host)
           d == Len(domain)
<1>1. h \in Nat /\ h > 0 /\ d \in Nat /\ d > 0 /\ DOMAIN host = 1 .. h /\ DOMAIN domain = 1 .. d
  BY DEF IsHost
<1>2. host = [i \in 1 .. h |-> host[i]] /\ domain = [i \in 1 .. d |-> domain[i]]
  BY DEF IsHost
<1>3. Jar!IsStrictSuffix(domain, host) <=>
        d <= h /\ (\A i \in 1 .. d : domain[d - i + 1] = host[h - i + 1]) /\ domain # host
  <2> DEFINE rd == Jar!Reverse(domain)
             rh == Jar!Reverse(host)
  <2>1. rd = [i \in 1 .. d |-> domain[(d - i) + 1]] /\ rh = [i \in 1 .. h |-> host[(h - i) + 1]]
    BY DEF Jar!Reverse
  <2>2. rd \in Seq(Range(domain)) /\ rh \in Seq(Range(host)) /\ Len(rd) = d /\ Len(rh) = h
    <3>1. \A i \in 1 .. d : domain[(d - i) + 1] \in Range(domain)
      BY <1>1 DEF Range
    <3>2. \A i \in 1 .. h : host[(h - i) + 1] \in Range(host)
      BY <1>1 DEF Range
    <3> QED BY <1>1, <2>1, <3>1, <3>2
  <2> HIDE DEF rd, rh
  <2>3. ASSUME d <= h
        PROVE  SubSeq(rd, 1, d) = SubSeq(rh, 1, d) <=> \A i \in 1 .. d : rd[i] = rh[i]
    <3>1. SubSeq(rd, 1, d) = [i \in 1 .. d |-> rd[i]] /\ SubSeq(rh, 1, d) = [i \in 1 .. d |-> rh[i]]
      BY <1>1, <2>2, <2>3
    <3> QED BY <3>1
  <2>4. Jar!IsStrictSuffix(domain, host) <=>
          d <= h /\ SubSeq(rd, 1, d) = SubSeq(rh, 1, d) /\ domain # host
    BY <2>2 DEF Jar!IsStrictSuffix, Jar!IsSuffix, Jar!IsPrefix, rd, rh
  <2>5. d <= h => \A i \in 1 .. d : rd[i] = domain[d - i + 1] /\ rh[i] = host[h - i + 1]
    BY <1>1, <2>1
  <2> QED BY <2>3, <2>4, <2>5
<1>4. ASSUME Jar!IsStrictSuffix(domain, host)
      PROVE  \E n \in DOMAIN host : n # 1 /\ domain = SubSeq(host, n, Len(host))
  <2>1. d <= h /\ (\A i \in 1 .. d : domain[d - i + 1] = host[h - i + 1]) /\ domain # host
    BY <1>3, <1>4
  <2>2. \A j \in 1 .. d : domain[j] = host[h - d + j]
    <3> SUFFICES ASSUME NEW j \in 1 .. d PROVE domain[j] = host[h - d + j]
      OBVIOUS
    <3> DEFINE i == d - j + 1
    <3>1. i \in 1 .. d /\ d - i + 1 = j /\ h - i + 1 = h - d + j
      BY <1>1
    <3> HIDE DEF i
    <3> QED BY <2>1, <3>1
  <2>3. d # h
    <3>1. ASSUME d = h PROVE FALSE
      <4>1. \A j \in 1 .. d : domain[j] = host[j]
        BY <1>1, <2>2, <3>1
      <4> QED BY <1>2, <2>1, <3>1, <4>1
    <3> QED BY <3>1
  <2> DEFINE n == h - d + 1
  <2>4. n \in 1 .. h /\ n # 1 /\ n \in DOMAIN host
    <3>1. h \in Nat /\ d \in Nat /\ d > 0 /\ d <= h /\ d # h
      BY <1>1, <2>1, <2>3
    <3>2. n \in 1 .. h /\ n # 1
      BY ONLY <3>1
    <3> QED BY <1>1, <3>2
  <2>5. SubSeq(host, n, h) = domain
    <3>1. SubSeq(host, n, h) = [j \in 1 .. d |-> host[h - d + j]]
      <4>1. SubSeq(host, n, h) = [j \in 1 .. (1 + h - n) |-> host[n + j - 1]]
        BY <2>4, <1>1 DEF IsHost
      <4>2. 1 + h - n = d /\ \A j \in 1 .. d : n + j - 1 = h - d + j
        BY <1>1
      <4> QED BY <4>1, <4>2
    <3>2. [j \in 1 .. d |-> host[h - d + j]] = [j \in 1 .. d |-> domain[j]]
      BY <2>2
    <3> HIDE DEF n
    <3> QED BY <1>2, <3>1, <3>2
  <2> QED BY <2>4, <2>5
<1>5. ASSUME NEW n \in DOMAIN host, n # 1, domain = SubSeq(host, n, Len(host))
      PROVE  Jar!IsStrictSuffix(domain, host)
  <2>1. n \in 1 .. h /\ n > 1
    BY <1>1, <1>5
  <2>2. d = h - n + 1 /\ \A j \in 1 .. d : domain[j] = host[n + j - 1]
    <3>1. domain = [j \in 1 .. (1 + h - n) |-> host[n + j - 1]]
      BY <1>1, <1>5, <2>1 DEF IsHost
    <3>2. DOMAIN domain = 1 .. (1 + h - n)
      BY <3>1
    <3>3. d = 1 + h - n
      BY <1>1, <2>1, <3>2
    <3> QED BY <1>1, <2>1, <3>1, <3>3
  <2>3. d <= h /\ d # h
    BY <1>1, <2>1, <2>2
  <2>4. domain # host
    BY <2>3
  <2>5. ASSUME NEW i \in 1 .. d PROVE domain[d - i + 1] = host[h - i + 1]
    <3>1. h \in Nat /\ d \in Nat /\ n \in Nat /\ i \in 1 .. d /\ d = h - n + 1
      BY <1>1, <2>1, <2>2
    <3>2. d - i + 1 \in 1 .. d /\ n + (d - i + 1) - 1 = h - i + 1
      BY ONLY <3>1
    <3> QED BY <2>2, <3>2
  <2> QED BY <1>3, <2>3, <2>4, <2>5
<1> QED BY <1>4, <1>5
-----------------------------------------------------------------------------
(* What the operations of the store do to its entries.                     *)

\* Without keeps the entries of the other hosts as they are.
LEMMA WithoutMeaning ==
    ASSUME NEW map, NEW hosts
    PROVE  /\ DOMAIN Store!Without(map, hosts) = DOMAIN map \ hosts
           /\ \A h \in DOMAIN map \ hosts : Store!Without(map, hosts)[h] = map[h]
BY DEF Store!Without, Store!Restrict

\* With puts one entry in, in place of the host's own if it has one.
LEMMA WithMeaning ==
    ASSUME NEW map, NEW host, NEW entry
    PROVE  /\ DOMAIN Store!With(map, host, entry) = DOMAIN map \cup {host}
           /\ Store!With(map, host, entry)[host] = entry
           /\ \A h \in DOMAIN map : h # host => Store!With(map, host, entry)[h] = map[h]
BY DEF Store!With

\* `new` is `old` but for entries that had expired by `now`.
Swept(new, old, now) ==
    /\ DOMAIN new \subseteq DOMAIN old
    /\ \A h \in DOMAIN new : new[h] = old[h]
    /\ \A h \in DOMAIN old \ DOMAIN new : old[h].expiry <= now

\* Both sweeps, the one of prune and the one that secure does on its way, drop
\* nothing that is in force.
LEMMA SweepsDropTheExpired ==
    ASSUME NEW map, NEW host, NEW now
    PROVE  Swept(Store!Pruned(map, now), map, now) /\ Swept(Store!Walked(map, host, now), map, now)
<1> DEFINE Stale(seen) == {h \in seen : map[h].expiry <= now}
<1>1. ASSUME NEW seen PROVE Swept(Store!Without(map, Stale(seen)), map, now)
  <2> DEFINE new == Store!Without(map, Stale(seen))
  <2>1. DOMAIN new = DOMAIN map \ Stale(seen) /\ \A h \in DOMAIN map \ Stale(seen) : new[h] = map[h]
    BY WithoutMeaning
  <2> HIDE DEF new
  <2>2. Swept(new, map, now)
    BY <2>1 DEF Swept
  <2> QED BY <2>2 DEF new
<1>2. Swept(Store!Pruned(map, now), map, now)
  BY <1>1 DEF Store!Pruned
<1>3. \E seen : Store!Walked(map, host, now) \in {map, Store!Without(map, Stale(seen))}
  BY DEF Store!Walked
<1>4. Swept(map, map, now)
  BY DEF Swept
<1> QED BY <1>1, <1>2, <1>3, <1>4

\* The store counts as the set does.
LEMMA StoreCounts == \A S : Store!Cardinality(S) = Cardinality(S)
BY Zenon DEF Store!Cardinality, Cardinality, Store!IsFiniteSet, IsFiniteSet

\* Room makes room for one host: it drops what has expired, and one of those that
\* expire soonest only when all that is left fills the store.
LEMMA RoomMeaning ==
    ASSUME NEW map, IsFiniteSet(DOMAIN map), Cardinality(DOMAIN map) <= MaxEntries,
           NEW host, NEW now, NEW room \in Store!Room(map, host, now)
    PROVE  LET kept == Store!Pruned(map, now) IN
           /\ DOMAIN room \subseteq DOMAIN kept
           /\ \A h \in DOMAIN room : room[h] = map[h]
           /\ IsFiniteSet(DOMAIN room \cup {host})
           /\ Cardinality(DOMAIN room \cup {host}) <= MaxEntries
           /\ \A h \in DOMAIN kept \ DOMAIN room :
                Cardinality(DOMAIN kept) >= MaxEntries /\ h \in Store!Soonest(kept)
<1> DEFINE kept == Store!Pruned(map, now)
           S == DOMAIN kept
           full == Cardinality(S) >= MaxEntries /\ host \notin S
<1>0. MaxEntries \in Nat
  BY ClientAssumption
<1>1. S \subseteq DOMAIN map /\ \A h \in S : kept[h] = map[h]
  BY SweepsDropTheExpired DEF Swept
<1>2. IsFiniteSet(S) /\ Cardinality(S) \in Nat /\ Cardinality(S) <= MaxEntries
  <2>1. IsFiniteSet(S) /\ Cardinality(S) <= Cardinality(DOMAIN map)
    BY <1>1, FS_Subset
  <2>2. Cardinality(S) \in Nat /\ Cardinality(DOMAIN map) \in Nat
    BY <2>1, FS_CardinalityType
  <2> QED BY <1>0, <2>1, <2>2
<1>3. room \in IF full THEN {Store!Without(kept, {h}) : h \in Store!Soonest(kept)} ELSE {kept}
  <2>1. Store!Room(map, host, now)
          = IF full THEN {Store!Without(kept, {h}) : h \in Store!Soonest(kept)} ELSE {kept}
    BY Zenon, StoreCounts DEF Store!Room
  <2> HIDE DEF full, kept
  <2> QED BY <2>1
<1> HIDE DEF kept
<1>4. CASE full
  <2>1. PICK g \in Store!Soonest(kept) : room = Store!Without(kept, {g})
    BY <1>3, <1>4
  <2>2. g \in S
    BY DEF Store!Soonest
  <2>3. DOMAIN room = S \ {g} /\ \A h \in S \ {g} : room[h] = kept[h]
    BY <2>1, WithoutMeaning
  <2>4. IsFiniteSet(S \ {g}) /\ Cardinality(S \ {g}) = Cardinality(S) - 1
    BY <1>2, <2>2, FS_RemoveElement
  <2>5. host \notin S \ {g}
    BY <1>4
  <2>6. IsFiniteSet((S \ {g}) \cup {host}) /\ Cardinality((S \ {g}) \cup {host}) = Cardinality(S \ {g}) + 1
    BY <2>4, <2>5, FS_AddElement
  <2>7. Cardinality((S \ {g}) \cup {host}) <= MaxEntries
    BY <1>0, <1>2, <2>4, <2>6
  <2> QED BY <1>1, <1>4, <2>1, <2>3, <2>6, <2>7 DEF kept
<1>5. CASE ~full
  <2>1. room = kept
    BY <1>3, <1>5
  <2>2. IsFiniteSet(S \cup {host}) /\ Cardinality(S \cup {host}) <= MaxEntries
    <3>1. CASE host \in S
      <4>1. S \cup {host} = S
        BY <3>1
      <4> QED BY <1>2, <4>1
    <3>2. CASE host \notin S
      <4>1. Cardinality(S) < MaxEntries
        BY <1>0, <1>2, <1>5, <3>2
      <4>2. IsFiniteSet(S \cup {host}) /\ Cardinality(S \cup {host}) = Cardinality(S) + 1
        BY <1>2, <3>2, FS_AddElement
      <4> QED BY <1>0, <1>2, <4>1, <4>2
    <3> QED BY <3>1, <3>2
  <2> QED BY <1>1, <2>1, <2>2 DEF kept
<1> QED BY <1>4, <1>5

\* What learn does, as the field it is given has it.
LEMMA LearnedMeaning ==
    ASSUME NEW map, NEW host, NEW policy, NEW secure, NEW now,
           NEW new \in Store!Learned(map, host, policy, secure, now)
    PROVE  LET ignored == Store!Ignored(host, policy, secure)
               late == policy.max_age > 0 /\ now + policy.max_age > Horizon
               entry == [expiry |-> now + policy.max_age, subdomains |-> policy.subdomains]
           IN  \/ ignored /\ new = map
               \/ ~ignored /\ policy.max_age = Store!Withdrawn /\ new = Store!Without(map, {host})
               \/ ~ignored /\ late /\ new = map
               \/ /\ ~ignored /\ policy.max_age # Store!Withdrawn
                  /\ \E room \in Store!Room(map, host, now) : new = Store!With(room, host, entry)
<1> DEFINE ignored == Store!Ignored(host, policy, secure)
           late == policy.max_age > 0 /\ now + policy.max_age > Horizon
           entry == [expiry |-> now + policy.max_age, subdomains |-> policy.subdomains]
           rooms == Store!Room(map, host, now)
           withdrawn == policy.max_age = Store!Withdrawn
<1>1. new \in CASE ignored -> {map}
                [] ~ignored /\ withdrawn -> {Store!Without(map, {host})}
                [] ~ignored /\ late -> {map}
                [] OTHER -> {Store!With(room, host, entry) : room \in rooms}
  BY DEF Store!Learned
<1>2. withdrawn => ~late
  BY DEF Store!Withdrawn
<1> HIDE DEF ignored, late, entry, rooms, withdrawn
<1>3. CASE ignored
  BY <1>1, <1>3 DEF ignored
<1>4. CASE ~ignored /\ withdrawn
  <2>1. new \in {Store!Without(map, {host})}
    BY <1>1, <1>2, <1>4
  <2> QED BY <1>4, <2>1 DEF ignored, withdrawn
<1>5. CASE ~ignored /\ late
  <2>1. new \in {map}
    BY <1>1, <1>2, <1>5
  <2> QED BY <1>5, <2>1 DEF ignored, late
<1>6. CASE ~ignored /\ ~withdrawn /\ ~late
  <2>1. new \in {Store!With(room, host, entry) : room \in rooms}
    BY <1>1, <1>6
  <2> QED BY <1>6, <2>1 DEF ignored, withdrawn, rooms, entry
<1> QED BY <1>3, <1>4, <1>5, <1>6

-----------------------------------------------------------------------------
(* The invariant.                                                          *)

\* A policy comes with a response, a time from the clock.
TaskOK(task) ==
    /\ task.pc \in {"idle", "opening", "sending", "waiting", "cookies", "policy"}
    /\ task.pc # "idle" => task.url.host \in Hosts /\ task.now \in Nat /\ task.now <= clock
    /\ task.pc \in {"cookies", "policy"} => \E response \in Responses : task.policy = response.policy

TasksOK ==
    /\ clock \in Nat /\ clock <= MaxClock
    /\ tasks = [t \in Tasks |-> tasks[t]]
    /\ \A t \in Tasks : TaskOK(tasks[t])

\* The store is under its ceiling, and what it and the hosts have said is of hosts.
StoreOK ==
    /\ IsFiniteSet(DOMAIN entries) /\ Cardinality(DOMAIN entries) <= MaxEntries
    /\ DOMAIN entries \subseteq Hosts \ Addresses
    /\ DOMAIN promised \subseteq Hosts \ Addresses
    /\ \A h \in DOMAIN entries : entries[h].expiry \in Nat
    /\ \A h \in DOMAIN promised : promised[h].expiry \in Nat

\* The store holds what the hosts said last, and unless one that was in force had
\* to go, all of it that is in force.
Agreement ==
    /\ \A h \in DOMAIN entries : h \in DOMAIN promised /\ entries[h] = promised[h]
    /\ ~crowded => \A h \in DOMAIN promised : promised[h].expiry > clock => h \in DOMAIN entries

StoreInv == TasksOK /\ StoreOK

\* No policy reaches past what the clock can tell: one that does is not taken in,
\* and the host's older one stays.
WithinHorizon == \A response \in Responses : MaxClock + response.policy.max_age <= Horizon

LEMMA StoreInit == Init => StoreInv /\ Agreement
<1> SUFFICES ASSUME Init PROVE StoreInv /\ Agreement
  OBVIOUS
<1>1. DOMAIN entries = {} /\ DOMAIN promised = {}
  BY DEF Init
<1>2. TasksOK
  BY ClientAssumption DEF Init, TasksOK, TaskOK, Idle
<1>3. IsFiniteSet(DOMAIN entries) /\ Cardinality(DOMAIN entries) = 0
  BY <1>1, FS_EmptySet
<1> QED BY <1>1, <1>2, <1>3, ClientAssumption DEF StoreInv, StoreOK, Agreement

\* Where a step leaves every task: one of them moves, and takes its time from the
\* clock or keeps what it had.
LEMMA TasksStayOK == TasksOK /\ [Next]_vars => TasksOK'
<1> SUFFICES ASSUME TasksOK, [Next]_vars PROVE TasksOK'
  OBVIOUS
<1>1. ASSUME NEW t \in Tasks, NEW task, TaskOK(task), Set(t, task), clock' = clock
      PROVE  TasksOK'
  <2>1. tasks' = [u \in Tasks |-> IF u = t THEN task ELSE tasks[u]]
    BY <1>1 DEF TasksOK, Set
  <2>2. \A u \in Tasks : tasks'[u] \in {task, tasks[u]}
    BY <2>1
  <2>3. \A u \in Tasks : TaskOK(tasks'[u])
    BY <1>1, <2>2 DEF TasksOK
  <2>4. \A u \in Tasks : TaskOK(tasks[u])'
    BY <1>1, <2>3 DEF TaskOK
  <2> QED BY <1>1, <2>1, <2>4 DEF TasksOK
<1>2. ASSUME UNCHANGED tasks, clock' = clock \/ (clock < MaxClock /\ clock' = clock + 1)
      PROVE  TasksOK'
  <2>1. clock' \in Nat /\ clock' <= MaxClock /\ clock <= clock'
    BY <1>2, ClientAssumption DEF TasksOK
  <2>2. ASSUME NEW t \in Tasks PROVE TaskOK(tasks[t])'
    <3>1. TaskOK(tasks[t]) /\ tasks'[t] = tasks[t] /\ clock \in Nat
      BY <1>2 DEF TasksOK
    <3> QED BY <2>1, <3>1 DEF TaskOK
  <2> QED BY <1>2, <2>1, <2>2 DEF TasksOK
<1>3. TaskOK(Idle)
  BY DEF TaskOK, Idle
<1>4. \A t \in Tasks : TaskOK(tasks[t])
  BY DEF TasksOK
<1>5. ASSUME NEW t \in Tasks, NEW url \in Urls, NEW socket \in BOOLEAN, Begin(t, url, socket)
      PROVE  TasksOK'
  <2> DEFINE task == [pc |-> "opening", url |-> Applied(url, clock), now |-> clock, socket |-> socket]
  <2>1. Applied(url, clock).host = url.host
    BY ClientAssumption DEF Applied
  <2>2. TaskOK(task)
    BY <2>1 DEF TaskOK, Hosts, TasksOK
  <2>3. Set(t, task) /\ clock' = clock
    BY <1>5 DEF Begin
  <2> HIDE DEF task
  <2> QED BY <1>1, <2>2, <2>3
<1>6. ASSUME NEW t \in Tasks, Open(t) PROVE TasksOK'
  <2> DEFINE task == [pc |-> "sending", url |-> tasks[t].url, now |-> tasks[t].now,
                      over |-> Transport(tasks[t].url)]
  <2>1. (Set(t, task) \/ Set(t, Idle)) /\ clock' = clock /\ At(t, "opening")
    BY <1>6 DEF Open
  <2>2. TaskOK(task)
    BY <1>4, <2>1 DEF TaskOK, At
  <2> HIDE DEF task
  <2> QED BY <1>1, <1>3, <2>1, <2>2
<1>7. ASSUME NEW t \in Tasks, Send(t) PROVE TasksOK'
  <2> DEFINE task == [pc |-> "waiting", url |-> tasks[t].url, now |-> tasks[t].now, over |-> tasks[t].over,
                      cookies |-> Jar!CookiesFor(jar, tasks[t].url, tasks[t].now)]
  <2>1. Set(t, task) /\ clock' = clock /\ At(t, "sending")
    BY <1>7 DEF Send
  <2>2. TaskOK(task)
    BY <1>4, <2>1 DEF TaskOK, At
  <2> HIDE DEF task
  <2> QED BY <1>1, <2>1, <2>2
<1>8. ASSUME NEW t \in Tasks, NEW response \in Responses, Respond(t, response) PROVE TasksOK'
  <2> DEFINE task == [pc |-> "cookies", url |-> tasks[t].url, now |-> tasks[t].now,
                      policy |-> response.policy, set |-> response.cookies]
  <2>1. Set(t, task) /\ clock' = clock /\ At(t, "waiting")
    BY <1>8 DEF Respond
  <2>2. TaskOK(task)
    BY <1>4, <2>1 DEF TaskOK, At
  <2> HIDE DEF task
  <2> QED BY <1>1, <2>1, <2>2
<1>9. ASSUME NEW t \in Tasks, LearnCookies(t) PROVE TasksOK'
  <2> DEFINE task == [pc |-> "policy", url |-> tasks[t].url, now |-> tasks[t].now, policy |-> tasks[t].policy]
  <2>1. Set(t, task) /\ clock' = clock /\ At(t, "cookies")
    BY <1>9 DEF LearnCookies
  <2>2. TaskOK(task)
    BY <1>4, <2>1 DEF TaskOK, At
  <2> HIDE DEF task
  <2> QED BY <1>1, <2>1, <2>2
<1>10. ASSUME NEW t \in Tasks, Fail(t) \/ LearnPolicy(t) PROVE TasksOK'
  <2>1. Set(t, Idle) /\ clock' = clock
    BY <1>10 DEF Fail, LearnPolicy
  <2> QED BY <1>1, <1>3, <2>1
<1>11. ASSUME Prune \/ Tick \/ UNCHANGED vars PROVE TasksOK'
  <2>1. UNCHANGED tasks /\ (clock' = clock \/ (clock < MaxClock /\ clock' = clock + 1))
    BY <1>11 DEF Prune, Tick, vars
  <2> QED BY <1>2, <2>1
<1> QED BY <1>5, <1>6, <1>7, <1>8, <1>9, <1>10, <1>11 DEF Next, Fetch

\* Only what a response says changes what is promised; anything else a step does
\* to the store is a sweep.
LEMMA StepsOfTheStore ==
    ASSUME [Next]_vars
    PROVE  \/ Swept(entries', entries, clock) /\ UNCHANGED << promised, crowded >>
           \/ \E t \in Tasks : LearnPolicy(t)
<1>1. ASSUME UNCHANGED << entries, promised, crowded >>
      PROVE  Swept(entries', entries, clock) /\ UNCHANGED << promised, crowded >>
  BY <1>1 DEF Swept
<1>2. ASSUME NEW t \in Tasks, NEW url \in Urls, NEW socket \in BOOLEAN, Begin(t, url, socket)
      PROVE  Swept(entries', entries, clock) /\ UNCHANGED << promised, crowded >>
  <2>1. entries' = (IF url.secure THEN entries ELSE Store!Walked(entries, url.host, clock))
        /\ UNCHANGED << promised, crowded >>
    BY <1>2 DEF Begin
  <2>2. Swept(Store!Walked(entries, url.host, clock), entries, clock) /\ Swept(entries, entries, clock)
    BY SweepsDropTheExpired DEF Swept
  <2> QED BY <2>1, <2>2
<1>3. ASSUME Prune PROVE Swept(entries', entries, clock) /\ UNCHANGED << promised, crowded >>
  <2>1. entries' \in {Store!Pruned(entries, clock), entries} /\ UNCHANGED << promised, crowded >>
    BY <1>3 DEF Prune
  <2>2. Swept(Store!Pruned(entries, clock), entries, clock) /\ Swept(entries, entries, clock)
    BY SweepsDropTheExpired DEF Swept
  <2> QED BY <2>1, <2>2
<1>4. ASSUME NEW t \in Tasks, Fetch(t), ~LearnPolicy(t)
      PROVE  Swept(entries', entries, clock) /\ UNCHANGED << promised, crowded >>
  <2>1. CASE \E url \in Urls, socket \in BOOLEAN : Begin(t, url, socket)
    BY <1>2, <2>1
  <2>2. CASE Open(t) \/ Send(t) \/ Fail(t) \/ LearnCookies(t) \/ \E response \in Responses : Respond(t, response)
    BY <1>1, <2>2 DEF Open, Send, Fail, LearnCookies, Respond
  <2> QED BY <1>4, <2>1, <2>2 DEF Fetch
<1>5. CASE Tick \/ UNCHANGED vars
  BY <1>1, <1>5 DEF Tick, vars
<1> QED BY <1>3, <1>4, <1>5 DEF Next

\* What the store and the promise become of a response.
LEMMA LearnPolicyMeaning ==
    ASSUME TasksOK, NEW t \in Tasks, LearnPolicy(t)
    PROVE  LET task == tasks[t]
               host == task.url.host
               max_age == task.policy.max_age
               entry == [expiry |-> task.now + max_age, subdomains |-> task.policy.subdomains]
           IN  /\ task.now \in Nat /\ task.now <= clock /\ UNCHANGED clock
               /\ \E response \in Responses : task.policy = response.policy
               /\ crowded' = (crowded \/ \E h \in DOMAIN entries \ {host} :
                                h \notin DOMAIN entries' /\ entries[h].expiry > clock)
               /\ \/ UNCHANGED << entries, promised >>
                  \/ /\ entries' = Store!Without(entries, {host})
                     /\ promised' = Store!Without(promised, {host})
                  \/ /\ host \in Hosts \ Addresses /\ max_age \in Nat \ {0}
                     /\ promised' = Store!With(promised, host, entry)
                     /\ \/ entries' = entries /\ task.now + max_age > Horizon
                        \/ \E room \in Store!Room(entries, host, task.now) :
                              entries' = Store!With(room, host, entry)
<1> DEFINE task == tasks[t]
           host == task.url.host
           max_age == task.policy.max_age
           entry == [expiry |-> task.now + max_age, subdomains |-> task.policy.subdomains]
           ignored == Store!Ignored(host, task.policy, task.url.secure)
<1>1. TaskOK(task) /\ task.pc = "policy"
  BY DEF LearnPolicy, At, TasksOK
<1>2. task.now \in Nat /\ task.now <= clock /\ host \in Hosts
  BY <1>1 DEF TaskOK
<1>3. PICK response \in Responses : task.policy = response.policy
  BY <1>1 DEF TaskOK
<1>4. max_age \in Nat \cup {Store!Unparsable}
  BY <1>3, ClientAssumption
<1>5. Believed(task) <=> ~ignored
  BY DEF Believed, Store!Ignored
<1>6. Believed(task) => host \notin Addresses /\ max_age \in Nat
  BY <1>4 DEF Believed
<1>7. /\ UNCHANGED clock
      /\ crowded' = (crowded \/ \E h \in DOMAIN entries \ {host} :
                        h \notin DOMAIN entries' /\ entries[h].expiry > clock)
  BY DEF LearnPolicy
<1>8. /\ ~Believed(task) => promised' = promised
      /\ Believed(task) /\ max_age = Store!Withdrawn => promised' = Store!Without(promised, {host})
      /\ Believed(task) /\ max_age # Store!Withdrawn => promised' = Store!With(promised, host, entry)
  BY DEF LearnPolicy
<1>9. \/ ignored /\ entries' = entries
      \/ ~ignored /\ max_age = Store!Withdrawn /\ entries' = Store!Without(entries, {host})
      \/ ~ignored /\ max_age > 0 /\ task.now + max_age > Horizon /\ entries' = entries
      \/ /\ ~ignored /\ max_age # Store!Withdrawn
         /\ \E room \in Store!Room(entries, host, task.now) : entries' = Store!With(room, host, entry)
  <2>1. entries' \in Store!Learned(entries, host, task.policy, task.url.secure, task.now)
    BY DEF LearnPolicy
  <2> QED BY <2>1, LearnedMeaning
<1> HIDE DEF task, host, max_age, entry, ignored
<1>10. Store!Withdrawn = 0
  BY DEF Store!Withdrawn
<1>11. \/ UNCHANGED << entries, promised >>
       \/ entries' = Store!Without(entries, {host}) /\ promised' = Store!Without(promised, {host})
       \/ /\ host \in Hosts \ Addresses /\ max_age \in Nat \ {0}
          /\ promised' = Store!With(promised, host, entry)
          /\ \/ entries' = entries /\ task.now + max_age > Horizon
             \/ \E room \in Store!Room(entries, host, task.now) : entries' = Store!With(room, host, entry)
  BY <1>2, <1>5, <1>6, <1>8, <1>9, <1>10
<1> QED BY <1>2, <1>3, <1>7, <1>11 DEF task, host, max_age, entry

\* What Room leaves is in the store too, and what it drops expired before now or
\* was, with the rest, more than the store holds.
LEMMA RoomOfEntries ==
    ASSUME StoreOK, TasksOK, NEW host, NEW now \in Nat, now <= clock,
           NEW room \in Store!Room(entries, host, now)
    PROVE  /\ DOMAIN room \subseteq DOMAIN entries
           /\ \A h \in DOMAIN room : room[h] = entries[h]
           /\ IsFiniteSet(DOMAIN room \cup {host}) /\ Cardinality(DOMAIN room \cup {host}) <= MaxEntries
           /\ \A h \in DOMAIN entries \ DOMAIN room :
                LET live == {g \in DOMAIN entries : entries[g].expiry > clock} IN
                h \in live => Cardinality(live) >= MaxEntries /\ \A g \in live : entries[g].expiry >= entries[h].expiry
<1> DEFINE kept == Store!Pruned(entries, now)
           live == {g \in DOMAIN entries : entries[g].expiry > clock}
<1>1. /\ DOMAIN room \subseteq DOMAIN kept
      /\ \A h \in DOMAIN room : room[h] = entries[h]
      /\ IsFiniteSet(DOMAIN room \cup {host}) /\ Cardinality(DOMAIN room \cup {host}) <= MaxEntries
      /\ \A h \in DOMAIN kept \ DOMAIN room :
            Cardinality(DOMAIN kept) >= MaxEntries /\ h \in Store!Soonest(kept)
  <2>1. IsFiniteSet(DOMAIN entries) /\ Cardinality(DOMAIN entries) <= MaxEntries
    BY DEF StoreOK
  <2> HIDE DEF live
  <2> QED BY <2>1, RoomMeaning, SMTT(30)
<1>2. Swept(kept, entries, now)
  BY SweepsDropTheExpired
<1>3. /\ \A h \in DOMAIN entries : entries[h].expiry \in Nat
      /\ clock \in Nat
  BY DEF StoreOK, TasksOK
<1> HIDE DEF kept
<1>4. live \subseteq DOMAIN kept
  BY <1>2, <1>3 DEF Swept
<1>5. ASSUME NEW h \in DOMAIN entries \ DOMAIN room, h \in live
      PROVE  Cardinality(live) >= MaxEntries /\ \A g \in live : entries[g].expiry >= entries[h].expiry
  <2>1. h \in DOMAIN kept \ DOMAIN room
    BY <1>4, <1>5
  <2>2. Cardinality(DOMAIN kept) >= MaxEntries /\ h \in Store!Soonest(kept)
    BY <1>1, <2>1
  <2>3. \A g \in DOMAIN kept : kept[h].expiry <= kept[g].expiry
    BY <2>2 DEF Store!Soonest
  <2>4. \A g \in DOMAIN kept : g \in DOMAIN entries /\ entries[h].expiry <= entries[g].expiry
    BY <1>2, <2>1, <2>3 DEF Swept
  <2>5. \A g \in DOMAIN kept : entries[g].expiry > clock
    <3>1. entries[h].expiry > clock /\ entries[h].expiry \in Nat
      BY <1>3, <1>5
    <3> QED BY <1>3, <2>4, <3>1
  <2>6. live = DOMAIN kept
    BY <1>4, <2>4, <2>5
  <2> HIDE DEF live
  <2>7. \A g \in live : entries[g].expiry >= entries[h].expiry
    <3>1. \A g \in live : entries[g].expiry \in Nat /\ entries[h].expiry \in Nat
      BY <1>3, <1>5, <2>4, <2>6
    <3> QED BY <2>4, <2>6, <3>1
  <2> QED BY <2>2, <2>6, <2>7
<1>6. DOMAIN room \subseteq DOMAIN entries
  BY <1>1, <1>2 DEF Swept
<1> QED BY <1>1, <1>5, <1>6

LEMMA StoreStaysOK == TasksOK /\ StoreOK /\ [Next]_vars => StoreOK'
<1> SUFFICES ASSUME TasksOK, StoreOK, [Next]_vars PROVE StoreOK'
  OBVIOUS
<1>0. MaxEntries \in Nat
  BY ClientAssumption
<1>1. ASSUME DOMAIN entries' \subseteq DOMAIN entries
      PROVE  IsFiniteSet(DOMAIN entries') /\ Cardinality(DOMAIN entries') <= MaxEntries
  <2>1. IsFiniteSet(DOMAIN entries) /\ Cardinality(DOMAIN entries) <= MaxEntries
    BY DEF StoreOK
  <2>2. IsFiniteSet(DOMAIN entries') /\ Cardinality(DOMAIN entries') <= Cardinality(DOMAIN entries)
    BY <1>1, <2>1, FS_Subset
  <2>3. Cardinality(DOMAIN entries') \in Nat /\ Cardinality(DOMAIN entries) \in Nat
    BY <2>1, <2>2, FS_CardinalityType
  <2> QED BY <1>0, <2>1, <2>2, <2>3
<1>2. CASE Swept(entries', entries, clock) /\ UNCHANGED << promised, crowded >>
  <2>1. /\ DOMAIN entries' \subseteq DOMAIN entries
        /\ \A h \in DOMAIN entries' : entries'[h] = entries[h]
        /\ promised' = promised
    BY <1>2 DEF Swept
  <2>2. IsFiniteSet(DOMAIN entries') /\ Cardinality(DOMAIN entries') <= MaxEntries
    BY <1>1, <2>1
  <2> QED BY <2>1, <2>2 DEF StoreOK
<1>3. ASSUME NEW t \in Tasks, LearnPolicy(t) PROVE StoreOK'
  <2> DEFINE task == tasks[t]
             host == task.url.host
             now == task.now
             max_age == task.policy.max_age
             entry == [expiry |-> now + max_age, subdomains |-> task.policy.subdomains]
  <2>1. /\ now \in Nat /\ now <= clock
        /\ \/ UNCHANGED << entries, promised >>
           \/ entries' = Store!Without(entries, {host}) /\ promised' = Store!Without(promised, {host})
           \/ /\ host \in Hosts \ Addresses /\ max_age \in Nat \ {0}
              /\ promised' = Store!With(promised, host, entry)
              /\ \/ entries' = entries /\ now + max_age > Horizon
                 \/ \E room \in Store!Room(entries, host, now) : entries' = Store!With(room, host, entry)
    BY <1>3, LearnPolicyMeaning
  <2> HIDE DEF now, max_age, host, entry
  <2>2. CASE UNCHANGED << entries, promised >>
    BY <2>2 DEF StoreOK
  <2>3. CASE entries' = Store!Without(entries, {host}) /\ promised' = Store!Without(promised, {host})
    <3>1. /\ DOMAIN entries' \subseteq DOMAIN entries /\ DOMAIN promised' \subseteq DOMAIN promised
          /\ \A h \in DOMAIN entries' : entries'[h] = entries[h]
          /\ \A h \in DOMAIN promised' : promised'[h] = promised[h]
      <4>1. /\ DOMAIN Store!Without(entries, {host}) = DOMAIN entries \ {host}
            /\ \A h \in DOMAIN entries \ {host} : Store!Without(entries, {host})[h] = entries[h]
            /\ DOMAIN Store!Without(promised, {host}) = DOMAIN promised \ {host}
            /\ \A h \in DOMAIN promised \ {host} : Store!Without(promised, {host})[h] = promised[h]
        BY WithoutMeaning
      <4> QED BY <2>3, <4>1
    <3>2. IsFiniteSet(DOMAIN entries') /\ Cardinality(DOMAIN entries') <= MaxEntries
      BY <1>1, <3>1
    <3> QED BY <3>1, <3>2 DEF StoreOK
  <2>4. ASSUME host \in Hosts \ Addresses, max_age \in Nat \ {0},
               promised' = Store!With(promised, host, entry)
        PROVE  /\ DOMAIN promised' \subseteq Hosts \ Addresses
               /\ \A h \in DOMAIN promised' : promised'[h].expiry \in Nat
    <3>1. /\ DOMAIN Store!With(promised, host, entry) = DOMAIN promised \cup {host}
          /\ Store!With(promised, host, entry)[host] = entry
          /\ \A h \in DOMAIN promised : h # host => Store!With(promised, host, entry)[h] = promised[h]
      BY DEF Store!With
    <3>2. entry.expiry \in Nat
      BY <2>1, <2>4 DEF entry
    <3> QED BY <2>4, <3>1, <3>2 DEF StoreOK
  <2>5. CASE /\ host \in Hosts \ Addresses /\ max_age \in Nat \ {0}
             /\ promised' = Store!With(promised, host, entry) /\ entries' = entries
    <3>1. /\ DOMAIN promised' \subseteq Hosts \ Addresses
          /\ \A h \in DOMAIN promised' : promised'[h].expiry \in Nat
      BY <2>4, <2>5
    <3> QED BY <2>5, <3>1 DEF StoreOK
  <2>6. ASSUME host \in Hosts \ Addresses, max_age \in Nat \ {0},
               promised' = Store!With(promised, host, entry),
               NEW room \in Store!Room(entries, host, now), entries' = Store!With(room, host, entry)
        PROVE  StoreOK'
    <3>1. /\ DOMAIN promised' \subseteq Hosts \ Addresses
          /\ \A h \in DOMAIN promised' : promised'[h].expiry \in Nat
      BY <2>4, <2>6
    <3>2. /\ DOMAIN room \subseteq DOMAIN entries
          /\ \A h \in DOMAIN room : room[h] = entries[h]
          /\ IsFiniteSet(DOMAIN room \cup {host}) /\ Cardinality(DOMAIN room \cup {host}) <= MaxEntries
      BY <2>1, RoomOfEntries
    <3>3. DOMAIN entries' = DOMAIN room \cup {host} /\ entries'[host] = entry
          /\ \A h \in DOMAIN room : h # host => entries'[h] = room[h]
      <4>1. /\ DOMAIN Store!With(room, host, entry) = DOMAIN room \cup {host}
            /\ Store!With(room, host, entry)[host] = entry
            /\ \A h \in DOMAIN room : h # host => Store!With(room, host, entry)[h] = room[h]
        BY DEF Store!With
      <4> QED BY <2>6, <4>1
    <3>4. entry.expiry \in Nat
      BY <2>1, <2>6 DEF entry
    <3>5. \A h \in DOMAIN entries' : entries'[h].expiry \in Nat
      BY <3>2, <3>3, <3>4 DEF StoreOK
    <3>6. DOMAIN entries' \subseteq Hosts \ Addresses
      BY <2>6, <3>2, <3>3 DEF StoreOK
    <3> QED BY <3>1, <3>2, <3>3, <3>5, <3>6 DEF StoreOK
  <2> QED BY <2>1, <2>2, <2>3, <2>5, <2>6
<1> QED BY <1>2, <1>3, StepsOfTheStore

\* The store and the promises go on saying the same: what is dropped had expired,
\* was withdrawn, or is known to have been too much.
LEMMA AgreementStays ==
    ASSUME WithinHorizon
    PROVE  StoreInv /\ Agreement /\ [Next]_vars => Agreement'
<1> SUFFICES ASSUME TasksOK, StoreOK, Agreement, [Next]_vars PROVE Agreement'
  BY DEF StoreInv
<1>1. clock' \in Nat /\ clock \in Nat /\ clock <= clock' /\ clock <= MaxClock
  <2>1. clock \in Nat /\ clock <= MaxClock /\ (clock' = clock \/ clock' = clock + 1)
    BY DEF TasksOK, Next, vars, Fetch, Begin, Open, Send, Respond, Fail, LearnCookies, LearnPolicy, Prune, Tick
  <2> QED BY <2>1
<1>2. /\ \A h \in DOMAIN entries : entries[h].expiry \in Nat
      /\ \A h \in DOMAIN promised : promised[h].expiry \in Nat
      /\ \A h \in DOMAIN entries : h \in DOMAIN promised /\ entries[h] = promised[h]
      /\ ~crowded => \A h \in DOMAIN promised : promised[h].expiry > clock => h \in DOMAIN entries
  BY DEF StoreOK, Agreement
<1>3. CASE Swept(entries', entries, clock) /\ UNCHANGED << promised, crowded >>
  <2>1. \A h \in DOMAIN entries' : h \in DOMAIN promised' /\ entries'[h] = promised'[h]
    BY <1>2, <1>3 DEF Swept
  <2>2. ASSUME ~crowded', NEW h \in DOMAIN promised', promised'[h].expiry > clock'
        PROVE  h \in DOMAIN entries'
    <3> DEFINE x == promised[h].expiry
    <3>1. x \in Nat /\ x > clock'
      BY <1>2, <1>3, <2>2
    <3>2. x > clock
      BY <1>1, <3>1
    <3>3. h \in DOMAIN entries /\ entries[h].expiry = x
      BY <1>2, <1>3, <2>2, <3>2
    <3>4. entries[h].expiry <= clock => x <= clock
      BY <3>3
    <3>5. ~(x <= clock)
      BY <1>1, <3>1, <3>2
    <3> HIDE DEF x
    <3> QED BY <1>3, <3>3, <3>4, <3>5 DEF Swept
  <2> QED BY <2>1, <2>2 DEF Agreement
<1>4. ASSUME NEW t \in Tasks, LearnPolicy(t) PROVE Agreement'
  <2> DEFINE task == tasks[t]
             host == task.url.host
             now == task.now
             max_age == task.policy.max_age
             entry == [expiry |-> now + max_age, subdomains |-> task.policy.subdomains]
  <2>1. /\ now \in Nat /\ now <= clock /\ UNCHANGED clock
        /\ \E response \in Responses : task.policy = response.policy
        /\ crowded' = (crowded \/ \E h \in DOMAIN entries \ {host} :
                         h \notin DOMAIN entries' /\ entries[h].expiry > clock)
        /\ \/ UNCHANGED << entries, promised >>
           \/ entries' = Store!Without(entries, {host}) /\ promised' = Store!Without(promised, {host})
           \/ /\ host \in Hosts \ Addresses /\ max_age \in Nat \ {0}
              /\ promised' = Store!With(promised, host, entry)
              /\ \/ entries' = entries /\ now + max_age > Horizon
                 \/ \E room \in Store!Room(entries, host, now) : entries' = Store!With(room, host, entry)
    BY <1>4, LearnPolicyMeaning
  <2>2. ASSUME max_age \in Nat PROVE ~(now + max_age > Horizon)
    <3>1. MaxClock + max_age <= Horizon
      BY <2>1 DEF WithinHorizon
    <3>2. now \in Nat /\ now <= MaxClock
      BY <1>1, <2>1, ClientAssumption
    <3>3. MaxClock \in Nat /\ Horizon \in Nat
      BY ClientAssumption
    <3> HIDE DEF now, max_age
    <3> QED BY ONLY <2>2, <3>1, <3>2, <3>3
  <2> HIDE DEF now, max_age, host, entry
  <2>3. CASE UNCHANGED << entries, promised >>
    <3>1. ~crowded' => ~crowded
      BY <2>1
    <3> QED BY <1>2, <2>1, <2>3, <3>1 DEF Agreement
  <2>4. CASE entries' = Store!Without(entries, {host}) /\ promised' = Store!Without(promised, {host})
    <3>1. /\ DOMAIN Store!Without(entries, {host}) = DOMAIN entries \ {host}
          /\ \A h \in DOMAIN entries \ {host} : Store!Without(entries, {host})[h] = entries[h]
          /\ DOMAIN Store!Without(promised, {host}) = DOMAIN promised \ {host}
          /\ \A h \in DOMAIN promised \ {host} : Store!Without(promised, {host})[h] = promised[h]
      BY WithoutMeaning
    <3>2. ~crowded' => ~crowded
      BY <2>1
    <3> QED BY <1>2, <2>1, <2>4, <3>1, <3>2 DEF Agreement
  <2>5. ASSUME promised' = Store!With(promised, host, entry),
               NEW room \in Store!Room(entries, host, now), entries' = Store!With(room, host, entry)
        PROVE  Agreement'
    <3>1. DOMAIN room \subseteq DOMAIN entries /\ \A h \in DOMAIN room : room[h] = entries[h]
      BY <2>1, RoomOfEntries
    <3>2. /\ DOMAIN entries' = DOMAIN room \cup {host} /\ entries'[host] = entry
          /\ \A h \in DOMAIN room : h # host => entries'[h] = room[h]
      BY <2>5 DEF Store!With
    <3>3. /\ DOMAIN promised' = DOMAIN promised \cup {host} /\ promised'[host] = entry
          /\ \A h \in DOMAIN promised : h # host => promised'[h] = promised[h]
      BY <2>5 DEF Store!With
    <3>4. \A h \in DOMAIN entries' : h \in DOMAIN promised' /\ entries'[h] = promised'[h]
      BY <1>2, <3>1, <3>2, <3>3
    <3>5. ASSUME ~crowded', NEW h \in DOMAIN promised', promised'[h].expiry > clock', h # host
          PROVE  h \in DOMAIN entries'
      <4>1. h \in DOMAIN promised /\ promised[h].expiry > clock /\ ~crowded
        BY <2>1, <3>3, <3>5
      <4>2. h \in DOMAIN entries /\ entries[h].expiry > clock
        BY <1>2, <4>1
      <4> QED BY <2>1, <3>5, <4>2
    <3> QED BY <3>2, <3>4, <3>5 DEF Agreement
  <2> QED BY <2>1, <2>2, <2>3, <2>4, <2>5
<1> QED BY <1>3, <1>4, StepsOfTheStore

-----------------------------------------------------------------------------
(* The theorems.                                                           *)

\* HSTSStore::learn and ::prune (src/hsts.rs) keep the store under max_hsts_entries
\* and clear of addresses, however many fetches share it.
THEOREM StoreKeepsItsCeiling == Spec => []StoreInv
<1>1. Init => StoreInv
  BY StoreInit
<1>2. StoreInv /\ [Next]_vars => StoreInv'
  BY TasksStayOK, StoreStaysOK DEF StoreInv
<1> QED BY <1>1, <1>2, PTL DEF Spec

\* What HSTSStore::secure says of a host, and what the hosts promised, when the
\* two agree.
LEMMA AgreementMeans == StoreInv /\ Agreement => Insistence
<1> SUFFICES ASSUME StoreInv, Agreement, NEW host \in Hosts
             PROVE  /\ Store!Secure(entries, host, clock) => Insists(host)
                    /\ ~crowded => (Insists(host) => Store!Secure(entries, host, clock))
  BY DEF Insistence
<1>1. \A h \in Hosts : IsHost(h)
  BY ClientAssumption DEF Hosts, IsHost
<1>2. /\ DOMAIN entries \subseteq Hosts /\ DOMAIN promised \subseteq Hosts
      /\ \A h \in DOMAIN entries : h \in DOMAIN promised /\ entries[h] = promised[h]
      /\ ~crowded => \A h \in DOMAIN promised : promised[h].expiry > clock => h \in DOMAIN entries
  BY DEF StoreInv, StoreOK, Agreement
<1>3. Store!Secure(entries, host, clock) <=>
        host \notin Addresses /\ \E n \in DOMAIN host : Store!InForce(entries, host, n, clock)
  BY DEF Store!Secure, Store!Found
<1>4. \A n \in DOMAIN host :
        /\ n \in 1 .. Len(host) /\ 1 \in DOMAIN host
        /\ Store!Domains(host)[n] = SubSeq(host, n, Len(host))
        /\ Store!Domains(host)[1] = host
  BY <1>1, DomainsMeaning
<1>5. 1 \in DOMAIN host
  BY <1>1 DEF IsHost
<1>6. ASSUME NEW domain \in Hosts
      PROVE  Jar!IsStrictSuffix(domain, host) <=>
               \E n \in DOMAIN host : n # 1 /\ domain = SubSeq(host, n, Len(host))
  BY <1>1, ParentsAreWalked
<1>7. ASSUME Store!Secure(entries, host, clock) PROVE Insists(host)
  <2>1. host \notin Addresses
    BY <1>3, <1>7
  <2>2. PICK n \in DOMAIN host : Store!InForce(entries, host, n, clock)
    BY <1>3, <1>7
  <2> DEFINE domain == Store!Domains(host)[n]
  <2>3. domain \in DOMAIN entries /\ entries[domain].expiry > clock /\ (n = 1 \/ entries[domain].subdomains)
    BY <2>2 DEF Store!InForce
  <2>4. domain \in Hosts /\ domain # <<>>
    BY <1>1, <1>2, <2>3 DEF IsHost
  <2>5. n = 1 => domain = host
    BY <1>4
  <2>6. n # 1 => Jar!IsStrictSuffix(domain, host)
    BY <1>4, <1>6, <2>4
  <2>7. domain \in DOMAIN promised /\ promised[domain].expiry > clock
        /\ (domain = host \/ (Jar!DomainMatches(host, domain) /\ promised[domain].subdomains))
    BY <1>2, <2>1, <2>3, <2>4, <2>5, <2>6 DEF Jar!DomainMatches
  <2> HIDE DEF domain
  <2> QED BY <2>1, <2>7 DEF Insists
<1>8. ASSUME ~crowded, Insists(host) PROVE Store!Secure(entries, host, clock)
  <2>1. host \notin Addresses
    BY <1>8 DEF Insists
  <2>2. PICK domain \in DOMAIN promised :
          /\ promised[domain].expiry > clock
          /\ domain = host \/ (Jar!DomainMatches(host, domain) /\ promised[domain].subdomains)
    BY <1>8 DEF Insists
  <2>3. domain \in DOMAIN entries /\ entries[domain] = promised[domain] /\ domain \in Hosts
    BY <1>2, <1>8, <2>2
  <2>4. CASE domain = host
    <3>1. Store!InForce(entries, host, 1, clock)
      BY <1>4, <1>5, <2>2, <2>3, <2>4 DEF Store!InForce
    <3> QED BY <1>3, <1>5, <2>1, <3>1
  <2>5. CASE domain # host
    <3>1. Jar!IsStrictSuffix(domain, host) /\ promised[domain].subdomains
      BY <2>2, <2>5 DEF Jar!DomainMatches
    <3>2. PICK n \in DOMAIN host : n # 1 /\ domain = SubSeq(host, n, Len(host))
      BY <1>6, <2>3, <3>1
    <3>3. Store!InForce(entries, host, n, clock)
      BY <1>4, <2>2, <2>3, <3>1, <3>2 DEF Store!InForce
    <3> QED BY <1>3, <2>1, <3>3
  <2> QED BY <2>4, <2>5
<1> QED BY <1>7, <1>8

\* apply_hsts (src/api/client.rs) puts a fetch on TLS just when the host it is for,
\* or a parent for its subdomains, was last believed to insist on it: whatever the
\* fetches that learned it overtook, and as long as no policy reaches past what
\* the clock can tell.
THEOREM InsistenceHolds ==
    ASSUME WithinHorizon
    PROVE  Spec => []Insistence
<1>1. Init => StoreInv /\ Agreement
  BY StoreInit
<1>2. StoreInv /\ Agreement /\ [Next]_vars => (StoreInv /\ Agreement)'
  BY TasksStayOK, StoreStaysOK, AgreementStays DEF StoreInv
<1>3. StoreInv /\ Agreement => Insistence
  BY AgreementMeans
<1> QED BY <1>1, <1>2, <1>3, PTL DEF Spec

\* No step of any fetch, and no sweep, drops a policy in force unless its host
\* withdrew it or the store was full of others that last as long.
THEOREM KeptUntilFullHolds == Spec => KeptUntilFull
<1> DEFINE Kept ==
      \A host \in DOMAIN entries \ DOMAIN entries' :
        LET live == {h \in DOMAIN entries : entries[h].expiry > clock} IN
        host \in live =>
            \/ host \notin DOMAIN promised'
            \/ Cardinality(live) >= MaxEntries /\ \A h \in live : entries[h].expiry >= entries[host].expiry
<1>1. StoreInv /\ [Next]_vars => Kept
  <2> DEFINE live == {h \in DOMAIN entries : entries[h].expiry > clock}
  <2> SUFFICES ASSUME TasksOK, StoreOK, [Next]_vars,
                      NEW gone \in DOMAIN entries \ DOMAIN entries', gone \in live
               PROVE  \/ gone \notin DOMAIN promised'
                      \/ Cardinality(live) >= MaxEntries /\ \A h \in live : entries[h].expiry >= entries[gone].expiry
    BY DEF StoreInv
  <2>1. entries[gone].expiry \in Nat /\ clock \in Nat /\ entries[gone].expiry > clock
    BY DEF StoreOK, TasksOK
  <2>2. ASSUME Swept(entries', entries, clock) PROVE FALSE
    <3>1. entries[gone].expiry <= clock
      BY <2>2 DEF Swept
    <3> DEFINE x == entries[gone].expiry
    <3>2. x \in Nat /\ clock \in Nat /\ x > clock /\ x <= clock
      BY <2>1, <3>1
    <3> HIDE DEF x
    <3> QED BY <3>2
  <2>3. PICK t \in Tasks : LearnPolicy(t)
    BY <2>2, StepsOfTheStore
  <2> DEFINE host == tasks[t].url.host
             now == tasks[t].now
             entry == [expiry |-> now + tasks[t].policy.max_age, subdomains |-> tasks[t].policy.subdomains]
  <2>4. /\ now \in Nat /\ now <= clock
        /\ \/ UNCHANGED << entries, promised >>
           \/ entries' = Store!Without(entries, {host}) /\ promised' = Store!Without(promised, {host})
           \/ entries' = entries
           \/ \E room \in Store!Room(entries, host, now) : entries' = Store!With(room, host, entry)
    BY <2>3, LearnPolicyMeaning
  <2> HIDE DEF host, now, entry, live
  <2>5. CASE entries' = Store!Without(entries, {host}) /\ promised' = Store!Without(promised, {host})
    <3>1. /\ DOMAIN Store!Without(entries, {host}) = DOMAIN entries \ {host}
          /\ DOMAIN Store!Without(promised, {host}) = DOMAIN promised \ {host}
      BY WithoutMeaning
    <3> QED BY <2>5, <3>1
  <2>6. ASSUME NEW room \in Store!Room(entries, host, now), entries' = Store!With(room, host, entry)
        PROVE  Cardinality(live) >= MaxEntries /\ \A h \in live : entries[h].expiry >= entries[gone].expiry
    <3>1. DOMAIN entries' = DOMAIN room \cup {host}
      BY <2>6 DEF Store!With
    <3>2. gone \in DOMAIN entries \ DOMAIN room
      BY <3>1
    <3> QED BY <2>4, <3>2, RoomOfEntries DEF live
  <2> QED BY <2>4, <2>5, <2>6
<1> QED BY <1>1, StoreKeepsItsCeiling, PTL DEF Spec, KeptUntilFull

=============================================================================

-------------------------------- MODULE Gate --------------------------------
(***************************************************************************)
(* Admission control for incoming connections (src/api/gate.rs).           *)
(*                                                                         *)
(* One Gate is shared by every listener of every worker thread, so admit   *)
(* and release run concurrently.  The total is an atomic counter, taken by *)
(* a compare-and-swap loop before the per-address tallies are consulted    *)
(* under a lock, and given back before they are; each of those is a step   *)
(* of its own here.  The critical section under the lock touches nothing   *)
(* else that is shared and is one step.                                    *)
(*                                                                         *)
(* A member of Conns is one accepted connection: it is put to the gate     *)
(* once, and its permit is dropped at most once.                           *)
(***************************************************************************)
EXTENDS Integers, FiniteSets, Sequences

CONSTANTS
    Conns,              \* the connections accepted, by any worker
    Addresses,          \* the peer addresses
    NoAddress,          \* `None`: a Unix socket has no address
    MaxConnections,     \* max_connections; 0 is unbounded
    MaxPerIp,           \* max_connections_per_ip; 0 is unbounded
    Rates,              \* max_connection_rate, records [period, count]
    MaxHistory,         \* max_connection_history
    MaxTime,            \* bound on the clock
    Prompt              \* TRUE: an attempt ends within the tick it began in

ASSUME GateAssumption ==
    /\ IsFiniteSet(Conns)
    /\ IsFiniteSet(Addresses)
    /\ NoAddress \notin Addresses
    /\ MaxConnections \in Nat
    /\ MaxPerIp \in Nat
    /\ Rates \subseteq [period : Nat, count : Nat]
    /\ IsFiniteSet(Rates)
    /\ MaxHistory \in Nat
    /\ MaxTime \in Nat
    /\ Prompt \in BOOLEAN

VARIABLES
    connections,    \* the atomic total
    perIp,          \* per_ip: an address with no entry counts 0
    history,        \* the times each remembered address connected
    pc,             \* where each connection is in admit or release
    ip,             \* the address each connection came from
    now,            \* the `now` each attempt was made with
    seen,           \* `current`, as loaded before the compare-and-swap
    clock

shared == <<connections, perIp, history>>
locals == <<ip, now, seen>>
vars == <<connections, perIp, history, pc, ip, now, seen, clock>>

Stages == {"new", "load", "swap", "judge", "refund", "refused",
           "held", "untally", "closed"}

Init ==
    /\ connections = 0
    /\ perIp = [a \in Addresses |-> 0]
    /\ history = <<>>
    /\ pc = [c \in Conns |-> "new"]
    /\ ip = [c \in Conns |-> NoAddress]
    /\ now = [c \in Conns |-> 0]
    /\ seen = [c \in Conns |-> 0]
    /\ clock = 0

Move(c, stage) == pc' = [pc EXCEPT ![c] = stage]

-----------------------------------------------------------------------------
(* The rate limit.                                                         *)

\* The longest period of any limit, and so how far back history is kept.
Window == LET periods == {r.period : r \in Rates} \cup {0}
          IN  CHOOSE w \in periods : \A p \in periods : p <= w

\* duration_since saturates: an entry made with a later `now` has age 0.
Age(at, t) == IF at > t THEN 0 ELSE t - at

\* The record without the entries at its front that have aged out at t.
Prune(record, t) ==
    LET stale == {i \in 1..Len(record) :
                    \A j \in 1..i : Age(record[j], t) > Window}
    IN  SubSeq(record, Cardinality(stale) + 1, Len(record))

Record(h, a) == IF a \in DOMAIN h THEN h[a] ELSE <<>>

\* Faulty: an entry of exactly that age no longer counts.
RecentBefore(record, period, t) ==
    Cardinality({i \in 1..Len(record) : Age(record[i], t) < period})

Recent(record, period, t) ==
    Cardinality({i \in 1..Len(record) : Age(record[i], t) <= period})

WithinRate(record, t) ==
    \A r \in Rates : Recent(record, r.period, t) < r.count

\* `h` with the record of `a` replaced, or added.
Recorded(h, a, record) ==
    [b \in DOMAIN h \cup {a} |-> IF b = a THEN record ELSE h[b]]

\* How many addresses are remembered at most.
HistoryCap == IF MaxHistory > MaxConnections THEN MaxHistory ELSE MaxConnections

\* The address being admitted is remembered whatever the cap.
MostRemembered == IF HistoryCap = 0 THEN 1 ELSE HistoryCap

\* The oldest entry of a record; an empty record is older than any.
Oldest(record) == IF record = <<>> THEN -1 ELSE record[1]

\* Faulty: any address may go, the one being admitted among them.
ForgetAny(h, keep) ==
    LET excess == Cardinality(DOMAIN h) - MostRemembered
    IN  {[a \in DOMAIN h \ V |-> h[a]] :
            V \in {W \in SUBSET DOMAIN h :
                    Cardinality(W) = IF excess > 0 THEN excess ELSE 0}}

(* bound_history: addresses go one at a time, the one with the oldest      *)
(* front first, until no more than the cap are left; `keep` never goes.    *)
(* Ties go by the iteration order of a hash map: either may be taken.      *)
Bounded(h, keep) ==
    LET spare == DOMAIN h \ {keep}
        excess == Cardinality(DOMAIN h) - MostRemembered
        goes(V) ==
            /\ Cardinality(V) = IF excess > 0 THEN excess ELSE 0
            /\ \A v \in V : \A s \in spare \ V : Oldest(h[v]) <= Oldest(h[s])
    IN  {[a \in DOMAIN h \ V |-> h[a]] : V \in {W \in SUBSET spare : goes(W)}}

-----------------------------------------------------------------------------
(* admit                                                                   *)

\* A listener accepts `c` from `a` and calls admit with the time it is.
Arrive(c, a) ==
    /\ pc[c] = "new"
    /\ Move(c, "load")
    /\ ip' = [ip EXCEPT ![c] = a]
    /\ now' = [now EXCEPT ![c] = clock]
    /\ UNCHANGED <<shared, seen, clock>>

AtCapacity == MaxConnections # 0 /\ connections >= MaxConnections

LoadCount(c) ==
    /\ pc[c] = "load"
    /\ ~AtCapacity
    /\ Move(c, "swap")
    /\ seen' = [seen EXCEPT ![c] = connections]
    /\ UNCHANGED <<shared, ip, now, clock>>

\* Faulty: waits for a slot to come free instead of refusing.
SpinAtCapacity(c) ==
    /\ pc[c] = "load"
    /\ AtCapacity
    /\ UNCHANGED vars

RefuseAtCapacity(c) ==
    /\ pc[c] = "load"
    /\ AtCapacity
    /\ Move(c, "refused")
    /\ UNCHANGED <<shared, locals, clock>>

\* Faulty: adds one whatever the count has become since it was loaded.
AddBlindly(c) ==
    /\ pc[c] = "swap"
    /\ connections' = connections + 1
    /\ Move(c, "judge")
    /\ UNCHANGED <<perIp, history, locals, clock>>

TakeSlot(c) ==
    /\ pc[c] = "swap"
    /\ connections = seen[c]
    /\ connections' = seen[c] + 1
    /\ Move(c, "judge")
    /\ UNCHANGED <<perIp, history, locals, clock>>

\* compare_exchange_weak fails on a changed count, and may fail spuriously.
RetrySwap(c) ==
    /\ pc[c] = "swap"
    /\ Move(c, "load")
    /\ UNCHANGED <<shared, locals, clock>>

AdmitUnaddressed(c) ==
    /\ pc[c] = "judge"
    /\ ip[c] = NoAddress
    /\ Move(c, "held")
    /\ UNCHANGED <<shared, locals, clock>>

OverIp(a) == MaxPerIp # 0 /\ perIp[a] >= MaxPerIp

\* The record rate() judges an attempt by: looked up or made, then pruned.
Judged(c) == Prune(Record(history, ip[c]), now[c])

AdmitAddressed(c) ==
    /\ pc[c] = "judge"
    /\ ip[c] # NoAddress
    /\ ~OverIp(ip[c])
    /\ WithinRate(Judged(c), now[c])
    /\ history' \in Bounded(Recorded(history, ip[c], Append(Judged(c), now[c])), ip[c])
    /\ perIp' = [perIp EXCEPT ![ip[c]] = @ + 1]
    /\ Move(c, "held")
    /\ UNCHANGED <<connections, locals, clock>>

\* Faulty: refuses without giving the slot back.
RefuseKeepingSlot(c) ==
    /\ pc[c] = "judge"
    /\ ip[c] # NoAddress
    /\ OverIp(ip[c])
    /\ Move(c, "refused")
    /\ UNCHANGED <<shared, locals, clock>>

RefuseOverIp(c) ==
    /\ pc[c] = "judge"
    /\ ip[c] # NoAddress
    /\ OverIp(ip[c])
    /\ Move(c, "refund")
    /\ UNCHANGED <<shared, locals, clock>>

\* A refusal by rate leaves the pruned record behind, and bounds nothing.
RefuseOverRate(c) ==
    /\ pc[c] = "judge"
    /\ ip[c] # NoAddress
    /\ ~OverIp(ip[c])
    /\ ~WithinRate(Judged(c), now[c])
    /\ history' = Recorded(history, ip[c], Judged(c))
    /\ Move(c, "refund")
    /\ UNCHANGED <<connections, perIp, locals, clock>>

\* The slot taken before the refusal is given back after the lock is.
Refund(c) ==
    /\ pc[c] = "refund"
    /\ connections' = connections - 1
    /\ Move(c, "refused")
    /\ UNCHANGED <<perIp, history, locals, clock>>

-----------------------------------------------------------------------------
(* release, when the permit drops                                          *)

ReleaseSlot(c) ==
    /\ pc[c] = "held"
    /\ connections' = connections - 1
    /\ Move(c, IF ip[c] = NoAddress THEN "closed" ELSE "untally")
    /\ UNCHANGED <<perIp, history, locals, clock>>

\* An entry that is missing is left alone, and the count saturates at zero.
ReleaseTally(c) ==
    /\ pc[c] = "untally"
    /\ perIp' = [perIp EXCEPT ![ip[c]] = IF @ = 0 THEN 0 ELSE @ - 1]
    /\ Move(c, "closed")
    /\ UNCHANGED <<connections, history, locals, clock>>

-----------------------------------------------------------------------------
\* Faulty: forgets an address whose oldest entry has aged out.
SweepByOldest ==
    LET live == {a \in DOMAIN history : Prune(history[a], clock) = history[a]}
    IN  /\ history' = [a \in live |-> history[a]]
        /\ UNCHANGED <<connections, perIp, pc, locals, clock>>

Sweep ==
    LET swept == [a \in DOMAIN history |-> Prune(history[a], clock)]
        live == {a \in DOMAIN history : swept[a] # <<>>}
    IN  /\ history' = [a \in live |-> swept[a]]
        /\ UNCHANGED <<connections, perIp, pc, locals, clock>>

Attempting == {"load", "swap", "judge"}

\* Time passes; when Prompt, never between the accept and the verdict.
Tick ==
    /\ clock < MaxTime
    /\ Prompt => \A c \in Conns : pc[c] \notin Attempting
    /\ clock' = clock + 1
    /\ UNCHANGED <<shared, pc, locals>>

Attempt(c) ==
    \/ LoadCount(c)
    \/ RefuseAtCapacity(c)
    \/ TakeSlot(c)
    \/ AdmitUnaddressed(c)
    \/ AdmitAddressed(c)
    \/ RefuseOverIp(c)
    \/ RefuseOverRate(c)
    \/ Refund(c)

Release(c) == ReleaseSlot(c) \/ ReleaseTally(c)

Next ==
    \/ \E c \in Conns :
        \/ \E a \in Addresses \cup {NoAddress} : Arrive(c, a)
        \/ Attempt(c)
        \/ RetrySwap(c)
        \/ Release(c)
    \/ Sweep
    \/ Tick

Spec == Init /\ [][Next]_vars

\* A thread inside admit or release runs on; a swap that could succeed does
\* not fail spuriously for ever, nor lose the race for ever.  Connections
\* need not arrive, and a permit is dropped only when its connection ends.
Fairness ==
    \A c \in Conns :
        /\ WF_vars(LoadCount(c) \/ RefuseAtCapacity(c))
        /\ WF_vars(AdmitUnaddressed(c) \/ AdmitAddressed(c) \/ RefuseOverIp(c)
                    \/ RefuseOverRate(c))
        /\ WF_vars(TakeSlot(c) \/ RetrySwap(c))
        /\ WF_vars(Refund(c))
        /\ WF_vars(ReleaseTally(c))
        /\ SF_vars(TakeSlot(c))

FairSpec == Spec /\ Fairness

-----------------------------------------------------------------------------
(* What must hold.                                                         *)

TypeOK ==
    /\ connections \in Nat
    /\ perIp \in [Addresses -> Nat]
    /\ DOMAIN history \subseteq Addresses
    /\ \A a \in DOMAIN history : history[a] \in Seq(Nat)
    /\ pc \in [Conns -> Stages]
    /\ ip \in [Conns -> Addresses \cup {NoAddress}]
    /\ now \in [Conns -> Nat]
    /\ seen \in [Conns -> Nat]
    /\ clock \in Nat

\* The connections the total counts, and those an address is charged with.
Counted == {c \in Conns : pc[c] \in {"judge", "refund", "held"}}
Charged(a) == {c \in Conns : ip[c] = a /\ pc[c] \in {"held", "untally"}}

\* Every slot taken is held by exactly one connection or on its way back, so
\* no interleaving of admit, refusal and drop leaks or double-frees one.
SlotsConserved ==
    /\ connections = Cardinality(Counted)
    /\ \A a \in Addresses : perIp[a] = Cardinality(Charged(a))

Held == {c \in Conns : pc[c] = "held"}

\* However the compare-and-swaps and the lock interleave, the permits alive
\* never exceed the limit on the server, nor on any one address.
CeilingsKept ==
    /\ MaxConnections # 0 => Cardinality(Held) <= MaxConnections
    /\ MaxPerIp # 0 =>
        \A a \in Addresses : Cardinality({c \in Held : ip[c] = a}) <= MaxPerIp

Promise == INSTANCE Admission WITH permits <- [c \in Held |-> ip[c]]

\* What callers rely on, whatever admissions, refusals and drops interleave:
\* a permit is only ever issued where there is room for it at that moment,
\* and permits come back one at a time.
ImplementsAdmission == Promise!Spec

Admitted(a) == {c \in Conns : ip[c] = a /\ pc[c] \in {"held", "untally", "closed"}}

Connected == {ip[c] : c \in Conns} \ {NoAddress}

\* While no address has had to be forgotten, no address is admitted more
\* than `count` times within any `period` of a limit: what pruning, refusal
\* and sweeping leave in the record is always enough to decide by.
RateHonoured ==
    Cardinality(Connected) <= MostRemembered =>
    \A a \in Addresses : \A r \in Rates : \A t \in 0..MaxTime :
        Cardinality({c \in Admitted(a) : now[c] \in t..(t + r.period)}) <= r.count

\* gate.rs:147: no more addresses are remembered than the cap, whatever the
\* attempts, refused ones too; and making room never forgets the one just
\* admitted, so that a flood is limited from its first connection on.
HistoryKept ==
    [][/\ Cardinality(DOMAIN history') <= MostRemembered
       /\ \A c \in Conns : AdmitAddressed(c) =>
            /\ ip[c] \in DOMAIN history'
            /\ Recent(history'[ip[c]], 0, now[c]) > 0]_vars

AtLimit(h, a, t) == ~WithinRate(Prune(Record(h, a), t), t)

\* Reclaiming memory never lets an address back in early: a sweep changes
\* the verdict on no address, now or later.
SweepChangesNoVerdict ==
    [][Sweep => \A a \in Addresses : \A t \in clock..MaxTime :
            AtLimit(history, a, t) <=> AtLimit(history', a, t)]_vars

\* admit always comes to a verdict, and a slot it took for a connection it
\* then refused always comes back.
AttemptEnds ==
    \A c \in Conns : pc[c] = "load" ~> pc[c] \notin Attempting \cup {"refund"}

-----------------------------------------------------------------------------
(* A small gate for TLC: two limits on the rate of an address.             *)

TwoRates == {[period |-> 1, count |-> 1], [period |-> 2, count |-> 2]}
=============================================================================

----------------------------- MODULE GateProofs -----------------------------
(***************************************************************************)
(* What holds of the Gate for any number of connections and addresses and  *)
(* for any limits: its variables keep their types, no slot is ever leaked  *)
(* or freed twice, the permits alive never exceed the limits, the history  *)
(* stays within its cap, a sweep changes no verdict, and as long as nobody *)
(* had to be forgotten no address is admitted faster than it may be.       *)
(***************************************************************************)
EXTENDS Gate, FiniteSetTheorems, SequenceTheorems, WellFoundedInduction, TLAPS

-----------------------------------------------------------------------------
(* The helpers.                                                            *)

\* Pruning a record of times leaves a record of times.
LEMMA PruneType ==
    ASSUME NEW record \in Seq(Nat), NEW t \in Nat
    PROVE  Prune(record, t) \in Seq(Nat)
<1> DEFINE stale == {i \in 1..Len(record) :
                        \A j \in 1..i : Age(record[j], t) > Window}
<1>1. Len(record) \in Nat /\ IsFiniteSet(1..Len(record))
  BY FS_Interval
<1>2. Cardinality(stale) \in Nat
  BY <1>1, FS_Subset, FS_CardinalityType
<1> HIDE DEF stale
<1>3. \A m \in Nat : SubSeq(record, m + 1, Len(record)) \in Seq(Nat)
  BY SMT
<1>4. SubSeq(record, Cardinality(stale) + 1, Len(record)) \in Seq(Nat)
  BY <1>2, <1>3
<1> QED BY <1>4 DEF Prune, stale

\* A history maps some of the addresses to the times they connected at.
HistoryOK(h) == DOMAIN h \subseteq Addresses /\ \A a \in DOMAIN h : h[a] \in Seq(Nat)

\* Looking a record up, in a history that may not have it, gives times.
LEMMA RecordType ==
    ASSUME NEW h, HistoryOK(h), NEW a, NEW t \in Nat
    PROVE  Prune(Record(h, a), t) \in Seq(Nat)
<1>1. Record(h, a) \in Seq(Nat)
  BY DEF Record, HistoryOK
<1> QED BY <1>1, PruneType

\* Replacing or adding the record of an address leaves a history.
LEMMA RecordedType ==
    ASSUME NEW h, HistoryOK(h), NEW a \in Addresses, NEW record \in Seq(Nat)
    PROVE  HistoryOK(Recorded(h, a, record))
BY DEF Recorded, HistoryOK

\* Bounding a history only takes addresses out of it.
LEMMA BoundedType ==
    ASSUME NEW h, HistoryOK(h), NEW keep, NEW g \in Bounded(h, keep)
    PROVE  HistoryOK(g)
<1>1. PICK V : g = [a \in DOMAIN h \ V |-> h[a]]
  BY DEF Bounded
<1> QED BY <1>1 DEF HistoryOK

-----------------------------------------------------------------------------
(* How a connection moving from one stage to another changes the counts.   *)

In(stage, stages) == IF stage \in stages THEN 1 ELSE 0

\* The sets counted by are finite, so their cardinalities are numbers.
LEMMA CountsAreNumbers ==
    /\ IsFiniteSet(Counted) /\ Cardinality(Counted) \in Nat
    /\ \A a : IsFiniteSet(Charged(a)) /\ Cardinality(Charged(a)) \in Nat
<1>1. Counted \subseteq Conns /\ \A a : Charged(a) \subseteq Conns
  BY DEF Counted, Charged
<1> QED BY <1>1, GateAssumption, FS_Subset, FS_CardinalityType

\* A connection that moves joins or leaves the counted ones by its stages.
LEMMA MoveCounts ==
    ASSUME TypeOK, NEW c \in Conns, NEW stage \in Stages, Move(c, stage)
    PROVE  Cardinality(Counted') =
             Cardinality(Counted) + In(stage, {"judge", "refund", "held"})
                                  - In(pc[c], {"judge", "refund", "held"})
<1> DEFINE on == {"judge", "refund", "held"}
<1>1. pc' = [pc EXCEPT ![c] = stage] /\ pc \in [Conns -> Stages]
  BY DEF Move, TypeOK
<1>2. IsFiniteSet(Counted) /\ Cardinality(Counted) \in Nat
  BY CountsAreNumbers
<1>3. c \in Counted <=> pc[c] \in on
  BY DEF Counted
<1>4. CASE stage \in on
  <2>1. Counted' = Counted \cup {c}
    BY <1>1, <1>4 DEF Counted
  <2>2. Cardinality(Counted \cup {c}) =
          IF c \in Counted THEN Cardinality(Counted) ELSE Cardinality(Counted) + 1
    BY <1>2, FS_AddElement
  <2> QED BY <2>1, <2>2, <1>2, <1>3, <1>4 DEF In
<1>5. CASE stage \notin on
  <2>1. Counted' = Counted \ {c}
    BY <1>1, <1>5 DEF Counted
  <2>2. Cardinality(Counted \ {c}) =
          IF c \in Counted THEN Cardinality(Counted) - 1 ELSE Cardinality(Counted)
    BY <1>2, FS_RemoveElement
  <2> QED BY <2>1, <2>2, <1>2, <1>3, <1>5 DEF In
<1> QED BY <1>4, <1>5

\* Its own address, and no other, is charged by its stages.
LEMMA MoveCharges ==
    ASSUME TypeOK, NEW c \in Conns, NEW stage \in Stages, Move(c, stage),
           ip' = ip, NEW a \in Addresses
    PROVE  Cardinality(Charged(a)') =
             IF ip[c] = a
             THEN Cardinality(Charged(a)) + In(stage, {"held", "untally"})
                                          - In(pc[c], {"held", "untally"})
             ELSE Cardinality(Charged(a))
<1> DEFINE on == {"held", "untally"}
<1>1. pc' = [pc EXCEPT ![c] = stage] /\ pc \in [Conns -> Stages] /\ ip' = ip
  BY DEF Move, TypeOK
<1>2. IsFiniteSet(Charged(a)) /\ Cardinality(Charged(a)) \in Nat
  BY CountsAreNumbers
<1>3. CASE ip[c] # a
  <2>1. Charged(a)' = Charged(a)
    BY <1>1, <1>3 DEF Charged
  <2> QED BY <2>1, <1>3
<1>4. CASE ip[c] = a /\ stage \in on
  <2>1. Charged(a)' = Charged(a) \cup {c} /\ (c \in Charged(a) <=> pc[c] \in on)
    BY <1>1, <1>4 DEF Charged
  <2>2. Cardinality(Charged(a) \cup {c}) =
          IF c \in Charged(a) THEN Cardinality(Charged(a))
                               ELSE Cardinality(Charged(a)) + 1
    BY <1>2, FS_AddElement
  <2> QED BY <2>1, <2>2, <1>2, <1>4 DEF In
<1>5. CASE ip[c] = a /\ stage \notin on
  <2>1. Charged(a)' = Charged(a) \ {c} /\ (c \in Charged(a) <=> pc[c] \in on)
    BY <1>1, <1>5 DEF Charged
  <2>2. Cardinality(Charged(a) \ {c}) =
          IF c \in Charged(a) THEN Cardinality(Charged(a)) - 1
                               ELSE Cardinality(Charged(a))
    BY <1>2, FS_RemoveElement
  <2> QED BY <2>1, <2>2, <1>2, <1>5 DEF In
<1> QED BY <1>3, <1>4, <1>5

-----------------------------------------------------------------------------
(* The inductive invariant.  The ceilings hold of the counters, and the    *)
(* counters are exactly the connections that hold a slot; a swap is only   *)
(* attempted from a count below the ceiling.                               *)

CeilingInv ==
    /\ MaxConnections # 0 =>
        /\ connections <= MaxConnections
        /\ \A c \in Conns : pc[c] = "swap" => seen[c] < MaxConnections
    /\ MaxPerIp # 0 => \A a \in Addresses : perIp[a] <= MaxPerIp
    /\ \A c \in Conns : pc[c] = "untally" => ip[c] # NoAddress

IInv == TypeOK /\ SlotsConserved /\ CeilingInv

\* A gate nobody has asked counts nothing.
LEMMA InvInit == Init => IInv
<1> SUFFICES ASSUME Init PROVE IInv
  OBVIOUS
<1>1. TypeOK
  BY GateAssumption DEF Init, TypeOK, Stages
<1>2. Counted = {} /\ \A a : Charged(a) = {}
  BY DEF Init, Counted, Charged
<1>3. SlotsConserved
  BY <1>2, FS_EmptySet DEF Init, SlotsConserved
<1>4. CeilingInv
  BY GateAssumption DEF Init, CeilingInv
<1> QED BY <1>1, <1>3, <1>4 DEF IInv

\* Steps that move a connection between stages that count alike, and change
\* no counter.
LEMMA InvQuiet ==
    ASSUME IInv, NEW c \in Conns, NEW stage \in Stages, Move(c, stage),
           UNCHANGED <<connections, perIp, ip, now, clock>>,
           HistoryOK(history'), seen' \in [Conns -> Nat],
           In(stage, {"judge", "refund", "held"}) = In(pc[c], {"judge", "refund", "held"}),
           In(stage, {"held", "untally"}) = In(pc[c], {"held", "untally"}) \/ ip[c] = NoAddress,
           MaxConnections # 0 => \A d \in Conns : pc'[d] = "swap" => seen'[d] < MaxConnections,
           stage = "untally" => ip[c] # NoAddress
    PROVE  IInv'
<1> USE DEF IInv
<1>1. pc' = [pc EXCEPT ![c] = stage] /\ pc \in [Conns -> Stages]
  BY DEF Move, TypeOK
<1>2. TypeOK'
  BY <1>1 DEF TypeOK, HistoryOK
<1>3. connections' = Cardinality(Counted')
  BY MoveCounts, CountsAreNumbers DEF SlotsConserved, In
<1>4. ASSUME NEW a \in Addresses
      PROVE  perIp'[a] = Cardinality(Charged(a)')
  BY MoveCharges, CountsAreNumbers, GateAssumption DEF SlotsConserved, In
<1>5. CeilingInv'
  BY <1>1 DEF CeilingInv
<1> QED BY <1>2, <1>3, <1>4, <1>5 DEF SlotsConserved

\* A connection that arrives is counted nowhere yet.
LEMMA InvArrive ==
    ASSUME IInv, NEW c \in Conns, NEW a \in Addresses \cup {NoAddress}, Arrive(c, a)
    PROVE  IInv'
<1> USE DEF IInv, Arrive, Move, shared
<1>1. TypeOK'
  BY DEF TypeOK, Stages
<1>2. Counted' = Counted
  BY DEF TypeOK, Counted
<1>3. \A b \in Addresses : Charged(b)' = Charged(b)
  BY DEF TypeOK, Charged
<1>4. SlotsConserved'
  BY <1>2, <1>3 DEF SlotsConserved
<1>5. CeilingInv'
  BY DEF TypeOK, CeilingInv
<1> QED BY <1>1, <1>4, <1>5

\* A swap that succeeds takes a slot the load left room for.
LEMMA InvTakeSlot ==
    ASSUME IInv, NEW c \in Conns, TakeSlot(c)
    PROVE  IInv'
<1> USE DEF IInv, TakeSlot, locals
<1>1. pc' = [pc EXCEPT ![c] = "judge"] /\ pc \in [Conns -> Stages] /\ "judge" \in Stages
  BY DEF Move, TypeOK, Stages
<1>2. TypeOK'
  BY <1>1 DEF TypeOK
<1>3. connections' = Cardinality(Counted')
  BY MoveCounts, <1>1, CountsAreNumbers DEF SlotsConserved, In
<1>4. ASSUME NEW a \in Addresses
      PROVE  perIp'[a] = Cardinality(Charged(a)')
  <2>1. Cardinality(Charged(a)') = Cardinality(Charged(a))
    BY MoveCharges, <1>1, CountsAreNumbers DEF In
  <2> QED BY <2>1 DEF SlotsConserved
<1>5. CeilingInv'
  BY <1>1, GateAssumption DEF CeilingInv, TypeOK
<1> QED BY <1>2, <1>3, <1>4, <1>5 DEF SlotsConserved

\* An admission charges its address, which had room.
LEMMA InvAdmitAddressed ==
    ASSUME IInv, NEW c \in Conns, AdmitAddressed(c)
    PROVE  IInv'
<1> USE DEF IInv, AdmitAddressed, locals
<1>1. pc' = [pc EXCEPT ![c] = "held"] /\ pc \in [Conns -> Stages] /\ "held" \in Stages
  BY DEF Move, TypeOK, Stages
<1>2. ip[c] \in Addresses /\ now[c] \in Nat
  BY DEF TypeOK
<1>3. HistoryOK(history')
  <2>1. HistoryOK(history)
    BY DEF TypeOK, HistoryOK
  <2>2. Append(Judged(c), now[c]) \in Seq(Nat)
    BY <2>1, <1>2, RecordType DEF Judged
  <2> QED BY <2>1, <2>2, <1>2, RecordedType, BoundedType
<1>4. TypeOK'
  BY <1>1, <1>2, <1>3 DEF TypeOK, HistoryOK
<1>5. connections' = Cardinality(Counted')
  BY MoveCounts, <1>1, CountsAreNumbers DEF SlotsConserved, In
<1>6. ASSUME NEW a \in Addresses
      PROVE  perIp'[a] = Cardinality(Charged(a)')
  <2>1. Cardinality(Charged(a)') =
          Cardinality(Charged(a)) + (IF ip[c] = a THEN 1 ELSE 0)
    BY MoveCharges, <1>1, CountsAreNumbers DEF In
  <2> QED BY <2>1, <1>2 DEF SlotsConserved, TypeOK
<1>7. CeilingInv'
  BY <1>1, <1>2, GateAssumption DEF CeilingInv, TypeOK, OverIp
<1> QED BY <1>4, <1>5, <1>6, <1>7 DEF SlotsConserved

\* A refusal and a drop give back a slot that was counted.
LEMMA InvGiveBack ==
    ASSUME IInv, NEW c \in Conns, Refund(c) \/ ReleaseSlot(c)
    PROVE  IInv'
<1> USE DEF IInv, locals
<1> DEFINE stage == IF pc[c] = "refund" THEN "refused"
                    ELSE IF ip[c] = NoAddress THEN "closed" ELSE "untally"
<1>1. /\ Move(c, stage) /\ stage \in Stages
      /\ connections' = connections - 1
      /\ UNCHANGED <<perIp, history, ip, now, seen, clock>>
      /\ pc[c] \in {"refund", "held"}
      /\ stage \notin {"judge", "refund", "held", "swap"}
      /\ stage = "untally" => ip[c] # NoAddress
      /\ pc[c] = "refund" => stage = "refused"
      /\ pc[c] = "held" /\ ip[c] # NoAddress => stage = "untally"
  BY DEF Refund, ReleaseSlot, Stages
<1> HIDE DEF stage
<1>2. pc' = [pc EXCEPT ![c] = stage] /\ pc \in [Conns -> Stages]
  BY <1>1 DEF Move, TypeOK
<1>3. connections' = Cardinality(Counted') /\ Cardinality(Counted') \in Nat
  <2>1. Cardinality(Counted') = Cardinality(Counted) - 1
    BY MoveCounts, <1>1, CountsAreNumbers DEF In
  <2>2. c \in Counted /\ IsFiniteSet(Counted) /\ Cardinality(Counted) \in Nat
    BY <1>1, CountsAreNumbers DEF Counted
  <2>3. Cardinality(Counted) # 0
    BY <2>2, FS_EmptySet
  <2> QED BY <1>1, <2>1, <2>2, <2>3 DEF SlotsConserved
<1>4. TypeOK'
  BY <1>1, <1>2, <1>3 DEF TypeOK
<1>5. \A a \in Addresses : perIp'[a] = Cardinality(Charged(a)')
  BY MoveCharges, <1>1, CountsAreNumbers, GateAssumption DEF SlotsConserved, In
<1>6. CeilingInv'
  BY <1>1, <1>2, <1>3, GateAssumption DEF CeilingInv, TypeOK
<1> QED BY <1>3, <1>4, <1>5, <1>6 DEF SlotsConserved

\* The address's tally was charged, so it does not saturate.
LEMMA InvReleaseTally ==
    ASSUME IInv, NEW c \in Conns, ReleaseTally(c)
    PROVE  IInv'
<1> USE DEF IInv, ReleaseTally, locals
<1>1. pc' = [pc EXCEPT ![c] = "closed"] /\ pc \in [Conns -> Stages] /\ "closed" \in Stages
  BY DEF Move, TypeOK, Stages
<1>2. ip[c] \in Addresses
  BY DEF TypeOK, CeilingInv
<1>3. perIp[ip[c]] # 0
  <2>1. c \in Charged(ip[c]) /\ IsFiniteSet(Charged(ip[c]))
    BY CountsAreNumbers DEF Charged
  <2> QED BY <1>2, <2>1, FS_EmptySet DEF SlotsConserved
<1>4. TypeOK'
  BY <1>1, <1>2, <1>3 DEF TypeOK
<1>5. connections' = Cardinality(Counted')
  BY MoveCounts, <1>1, CountsAreNumbers DEF SlotsConserved, In
<1>6. ASSUME NEW a \in Addresses
      PROVE  perIp'[a] = Cardinality(Charged(a)')
  <2>1. Cardinality(Charged(a)') =
          Cardinality(Charged(a)) - (IF ip[c] = a THEN 1 ELSE 0)
    BY MoveCharges, <1>1, CountsAreNumbers DEF In
  <2> QED BY <2>1, <1>2, <1>3 DEF SlotsConserved, TypeOK
<1>7. CeilingInv'
  BY <1>1, <1>2, <1>3, GateAssumption DEF CeilingInv, TypeOK
<1> QED BY <1>4, <1>5, <1>6, <1>7 DEF SlotsConserved

\* Every step keeps the invariant.
LEMMA InvNext == IInv /\ [Next]_vars => IInv'
<1> SUFFICES ASSUME IInv, [Next]_vars PROVE IInv'
  OBVIOUS
<1> USE DEF IInv
<1>h. HistoryOK(history)
  BY DEF TypeOK, HistoryOK
<1>1. ASSUME NEW c \in Conns, NEW a \in Addresses \cup {NoAddress}, Arrive(c, a)
      PROVE  IInv'
  BY <1>1, InvArrive
<1>2. ASSUME NEW c \in Conns, LoadCount(c)
      PROVE  IInv'
  <2>1. MaxConnections # 0 => \A d \in Conns : pc'[d] = "swap" => seen'[d] < MaxConnections
    BY <1>2, GateAssumption DEF LoadCount, Move, AtCapacity, TypeOK, CeilingInv
  <2>2. seen' \in [Conns -> Nat] /\ "swap" \in Stages
    BY <1>2 DEF LoadCount, TypeOK, Stages
  <2> QED BY <1>h, <1>2, <2>1, <2>2, InvQuiet DEF LoadCount, shared, In
<1>3. ASSUME NEW c \in Conns, NEW stage \in {"refused", "load", "held", "refund"},
             Move(c, stage),
             UNCHANGED <<connections, perIp, locals, clock>>, HistoryOK(history'),
             \/ pc[c] \in {"load", "swap"} /\ stage \in {"refused", "load"}
             \/ pc[c] = "judge" /\ stage = "refund"
             \/ pc[c] = "judge" /\ stage = "held" /\ ip[c] = NoAddress
      PROVE  IInv'
  <2>1. MaxConnections # 0 => \A d \in Conns : pc'[d] = "swap" => seen'[d] < MaxConnections
    BY <1>3 DEF Move, TypeOK, CeilingInv, locals
  <2>2. seen' \in [Conns -> Nat] /\ stage \in Stages
    BY <1>3 DEF TypeOK, Stages, locals
  <2> QED BY <1>3, <2>1, <2>2, InvQuiet DEF locals, In
<1>4. ASSUME NEW c \in Conns, RefuseAtCapacity(c)
      PROVE  IInv'
  BY <1>4, <1>3, <1>h DEF RefuseAtCapacity, shared
<1>5. ASSUME NEW c \in Conns, RetrySwap(c)
      PROVE  IInv'
  BY <1>5, <1>3, <1>h DEF RetrySwap, shared
<1>6. ASSUME NEW c \in Conns, AdmitUnaddressed(c)
      PROVE  IInv'
  BY <1>6, <1>3, <1>h DEF AdmitUnaddressed, shared
<1>7. ASSUME NEW c \in Conns, RefuseOverIp(c)
      PROVE  IInv'
  BY <1>7, <1>3, <1>h DEF RefuseOverIp, shared
<1>8. ASSUME NEW c \in Conns, RefuseOverRate(c)
      PROVE  IInv'
  <2>1. ip[c] \in Addresses /\ now[c] \in Nat
    BY <1>8 DEF RefuseOverRate, TypeOK
  <2>2. HistoryOK(history')
    BY <1>8, <1>h, <2>1, RecordType, RecordedType DEF RefuseOverRate, Judged
  <2> QED BY <1>8, <1>3, <2>2 DEF RefuseOverRate
<1>9. ASSUME Sweep
      PROVE  IInv'
  <2>1. HistoryOK(history')
    BY <1>9, <1>h, PruneType DEF Sweep, HistoryOK, TypeOK
  <2>2. TypeOK'
    BY <1>9, <2>1 DEF Sweep, TypeOK, HistoryOK, locals
  <2> QED BY <1>9, <2>2 DEF Sweep, locals, SlotsConserved, Counted, Charged, CeilingInv
<1>10. ASSUME Tick
       PROVE  IInv'
  BY <1>10 DEF Tick, shared, locals, TypeOK, SlotsConserved, Counted, Charged, CeilingInv
<1>11. ASSUME UNCHANGED vars
       PROVE  IInv'
  BY <1>11 DEF vars, shared, locals, TypeOK, SlotsConserved, Counted, Charged, CeilingInv
<1> QED
  BY <1>1, <1>2, <1>4, <1>5, <1>6, <1>7, <1>8, <1>9, <1>10, <1>11,
     InvTakeSlot, InvAdmitAddressed, InvGiveBack, InvReleaseTally
     DEF Next, Attempt, Release

-----------------------------------------------------------------------------
(* The theorems.                                                           *)

\* The variables keep their types: in particular the total, which admit and
\* release change with no lock, never falls below zero.
THEOREM TypeCorrect == Spec => []TypeOK
<1>1. IInv => TypeOK
  BY DEF IInv
<1> QED BY InvInit, InvNext, <1>1, PTL DEF Spec

\* However many connections are in admit and release at once, the total and
\* the tallies count exactly the connections that hold a slot.
THEOREM SlotsAreConserved == Spec => []SlotsConserved
<1>1. IInv => SlotsConserved
  BY DEF IInv
<1> QED BY InvInit, InvNext, <1>1, PTL DEF Spec

\* The permits alive never exceed max_connections, and those of an address
\* never exceed max_connections_per_ip.
THEOREM CeilingsAreKept == Spec => []CeilingsKept
<1>1. IInv => CeilingsKept
  <2> SUFFICES ASSUME IInv PROVE CeilingsKept
    OBVIOUS
  <2> USE DEF IInv
  <2>1. Held \subseteq Counted
    BY DEF Held, Counted
  <2>2. Cardinality(Held) <= connections
    BY <2>1, CountsAreNumbers, FS_Subset DEF SlotsConserved
  <2>3. Cardinality(Held) \in Nat
    BY <2>1, CountsAreNumbers, FS_Subset, FS_CardinalityType
  <2>4. ASSUME NEW a \in Addresses
        PROVE  /\ Cardinality({c \in Held : ip[c] = a}) <= perIp[a]
               /\ Cardinality({c \in Held : ip[c] = a}) \in Nat
    <3>1. {c \in Held : ip[c] = a} \subseteq Charged(a)
      BY DEF Held, Charged
    <3> QED BY <3>1, CountsAreNumbers, FS_Subset, FS_CardinalityType DEF SlotsConserved
  <2> QED BY <2>2, <2>3, <2>4, GateAssumption DEF CeilingsKept, CeilingInv, TypeOK
<1> QED BY InvInit, InvNext, <1>1, PTL DEF Spec

-----------------------------------------------------------------------------
(* The gate implements its promise.  A permit is alive while its           *)
(* connection is held: the verdict issues it, under a total that counts    *)
(* the connection already, and the first step of its drop takes it away.   *)

Permits == [c \in Held |-> ip[c]]

\* The two modules count alike.
LEMMA SameCardinality == \A S : Promise!Cardinality(S) = Cardinality(S)
BY DEF Promise!Cardinality, Cardinality

\* A connection that comes to be held is charged for a slot beforehand, so
\* the ceilings leave room for its permit.
LEMMA RoomToAdmit ==
    ASSUME IInv, NEW c \in Conns, pc[c] = "judge",
           NEW a, a = ip[c], a = NoAddress \/ ~OverIp(a)
    PROVE  Promise!Room(a)
<1> USE DEF IInv
<1>1. ASSUME MaxConnections # 0
      PROVE  Cardinality(Held) < MaxConnections
  <2>1. IsFiniteSet(Held) /\ Held \cup {c} \subseteq Counted /\ c \notin Held
    <3>1. Held \subseteq Counted /\ c \in Counted /\ c \notin Held
      BY DEF Held, Counted
    <3> QED BY <3>1, CountsAreNumbers, FS_Subset
  <2>2. Cardinality(Held) \in Nat /\ Cardinality(Held \cup {c}) = Cardinality(Held) + 1
    BY <2>1, FS_AddElement, FS_CardinalityType
  <2>3. Cardinality(Held \cup {c}) <= Cardinality(Counted)
    BY <2>1, CountsAreNumbers, FS_Subset
  <2> QED BY <1>1, <2>2, <2>3, GateAssumption DEF SlotsConserved, CeilingInv, TypeOK
<1>2. ASSUME ip[c] # NoAddress, MaxPerIp # 0
      PROVE  Cardinality({d \in Held : ip[d] = ip[c]}) < MaxPerIp
  <2>1. ip[c] \in Addresses
    BY <1>2 DEF TypeOK
  <2>2. {d \in Held : ip[d] = ip[c]} \subseteq Charged(ip[c])
    BY DEF Held, Charged
  <2>3. /\ Cardinality({d \in Held : ip[d] = ip[c]}) \in Nat
        /\ Cardinality({d \in Held : ip[d] = ip[c]}) <= perIp[ip[c]]
    BY <2>1, <2>2, CountsAreNumbers, FS_Subset, FS_CardinalityType DEF SlotsConserved
  <2> QED BY <1>2, <2>1, <2>3, GateAssumption DEF OverIp, TypeOK
<1>3. /\ DOMAIN Permits = Held
      /\ {d \in DOMAIN Permits : Permits[d] = ip[c]} = {d \in Held : ip[d] = ip[c]}
  BY DEF Permits
<1> QED BY <1>1, <1>2, <1>3, SameCardinality DEF Promise!Room, Promise!Permitted, Permits

\* A verdict for a connection issues its permit.
LEMMA VerdictAdmits ==
    ASSUME IInv, NEW c \in Conns, NEW a, a = ip[c],
           AdmitUnaddressed(c) \/ AdmitAddressed(c)
    PROVE  Promise!Admit(c, a)
<1>1. pc[c] = "judge" /\ pc' = [pc EXCEPT ![c] = "held"] /\ ip' = ip
  BY DEF AdmitUnaddressed, AdmitAddressed, Move, locals
<1>2. Promise!Room(a)
  BY <1>1, RoomToAdmit DEF AdmitUnaddressed, AdmitAddressed
<1>3. c \notin Held /\ Held' = Held \cup {c}
  BY <1>1 DEF Held, IInv, TypeOK
<1>4. Permits' = [d \in DOMAIN Permits \cup {c} |-> IF d = c THEN a ELSE Permits[d]]
  BY <1>1, <1>3 DEF Permits
<1> QED BY <1>2, <1>3, <1>4 DEF Promise!Admit, Permits

\* The first step of a drop takes the permit away.
LEMMA ReleaseDrops ==
    ASSUME IInv, NEW c \in Conns, ReleaseSlot(c)
    PROVE  Promise!Drop(c)
<1>1. /\ pc[c] = "held" /\ ip' = ip
      /\ pc' = [pc EXCEPT ![c] = IF ip[c] = NoAddress THEN "closed" ELSE "untally"]
  BY DEF ReleaseSlot, Move, locals
<1>2. c \in Held /\ Held' = Held \ {c}
  BY <1>1 DEF Held, IInv, TypeOK
<1>3. Permits' = [d \in DOMAIN Permits \ {c} |-> Permits[d]]
  BY <1>1, <1>2 DEF Permits
<1> QED BY <1>2, <1>3 DEF Promise!Drop, Permits

\* No other step issues or takes a permit.
LEMMA OthersKeepPermits ==
    ASSUME IInv, [Next]_vars,
           \A c \in Conns : ~AdmitUnaddressed(c) /\ ~AdmitAddressed(c) /\ ~ReleaseSlot(c)
    PROVE  Permits' = Permits
<1> USE DEF IInv
<1>1. ASSUME NEW c \in Conns, NEW stage, pc' = [pc EXCEPT ![c] = stage], ip' = ip,
             pc[c] # "held", stage # "held"
      PROVE  Permits' = Permits
  BY <1>1 DEF Permits, Held, TypeOK
<1>2. ASSUME NEW c \in Conns, NEW a \in Addresses \cup {NoAddress}, Arrive(c, a)
      PROVE  Permits' = Permits
  BY <1>2 DEF Arrive, Move, Permits, Held, TypeOK
<1>3. ASSUME NEW c \in Conns,
             \/ LoadCount(c) \/ RefuseAtCapacity(c) \/ TakeSlot(c) \/ RefuseOverIp(c)
             \/ RefuseOverRate(c) \/ Refund(c) \/ RetrySwap(c) \/ ReleaseTally(c)
      PROVE  Permits' = Permits
  BY <1>1, <1>3
     DEF LoadCount, RefuseAtCapacity, TakeSlot, RefuseOverIp, RefuseOverRate, Refund,
         RetrySwap, ReleaseTally, Move, locals
<1>4. ASSUME Sweep \/ Tick \/ UNCHANGED vars
      PROVE  Permits' = Permits
  BY <1>4 DEF Sweep, Tick, vars, locals, Permits, Held
<1> QED BY <1>2, <1>3, <1>4 DEF Next, Attempt, Release

\* Whatever interleaves, callers see a gate that issues a permit only where
\* there is room for it and takes permits back one at a time.
THEOREM ImplementsPromise == Spec => ImplementsAdmission
<1>1. Init => Promise!Init
  <2> SUFFICES ASSUME Init PROVE Permits = <<>>
    BY DEF Promise!Init, Permits
  <2>1. Held = {}
    BY DEF Init, Held
  <2> QED BY <2>1 DEF Permits
<1>2. IInv /\ [Next]_vars => [Promise!Next]_Permits
  <2> SUFFICES ASSUME IInv, [Next]_vars PROVE Promise!Next \/ Permits' = Permits
    OBVIOUS
  <2>1. ASSUME NEW c \in Conns, AdmitUnaddressed(c) \/ AdmitAddressed(c)
        PROVE  Promise!Next
    <3>1. PICK a \in Addresses \cup {NoAddress} : a = ip[c]
      BY DEF IInv, TypeOK
    <3>2. Promise!Admit(c, a)
      BY <2>1, <3>1, VerdictAdmits
    <3> QED BY <3>2 DEF Promise!Next
  <2>2. ASSUME NEW c \in Conns, ReleaseSlot(c)
        PROVE  Promise!Next
    BY <2>2, ReleaseDrops DEF Promise!Next
  <2> QED BY <2>1, <2>2, OthersKeepPermits
<1> QED BY InvInit, InvNext, <1>1, <1>2, PTL DEF Spec, ImplementsAdmission, Promise!Spec, Permits

-----------------------------------------------------------------------------
(* The history.                                                            *)

\* Every limit lets somebody in.  One that lets nobody in leaves an empty
\* record of every address it refuses, which nothing bounds.
LimitsAdmit == \A r \in Rates : r.count # 0

HistoryBounded == Cardinality(DOMAIN history) <= MostRemembered

\* Making room takes out no more than it must, and never the address to keep.
LEMMA BoundedKeeps ==
    ASSUME NEW h, HistoryOK(h), NEW keep \in DOMAIN h, NEW g \in Bounded(h, keep)
    PROVE  /\ keep \in DOMAIN g /\ g[keep] = h[keep]
           /\ Cardinality(DOMAIN g) <= MostRemembered
<1> DEFINE excess == Cardinality(DOMAIN h) - MostRemembered
<1>1. PICK V \in SUBSET (DOMAIN h \ {keep}) :
          /\ g = [a \in DOMAIN h \ V |-> h[a]]
          /\ Cardinality(V) = IF excess > 0 THEN excess ELSE 0
  BY DEF Bounded
<1>2. IsFiniteSet(DOMAIN h) /\ Cardinality(DOMAIN h) \in Nat
  BY GateAssumption, FS_Subset, FS_CardinalityType DEF HistoryOK
<1>3. V \cap DOMAIN h = V /\ DOMAIN h \cap V = V
  BY <1>1
<1>4. Cardinality(DOMAIN h \ V) = Cardinality(DOMAIN h) - Cardinality(V)
  BY <1>2, <1>3, FS_Difference
<1>5. MostRemembered \in Nat
  BY GateAssumption DEF MostRemembered, HistoryCap
<1>6. Cardinality(DOMAIN h \ V) <= MostRemembered
  BY <1>1, <1>2, <1>4, <1>5
<1> QED BY <1>1, <1>6

\* An address that is refused by rate was remembered already.
LEMMA RefusedIsRemembered ==
    ASSUME LimitsAdmit, TypeOK, NEW c \in Conns, RefuseOverRate(c)
    PROVE  ip[c] \in DOMAIN history
<1> SUFFICES ASSUME ip[c] \notin DOMAIN history PROVE FALSE
  OBVIOUS
<1>1. now[c] \in Nat /\ <<>> \in Seq(Nat) /\ Len(<<>>) = 0
  BY DEF TypeOK
<1>2. Judged(c) = Prune(<<>>, now[c])
  BY DEF Judged, Record
<1>3. Judged(c) = <<>>
  <2> DEFINE stale == {i \in 1..Len(<<>>) :
                          \A j \in 1..i : Age(<<>>[j], now[c]) > Window}
  <2>1. stale = {}
    BY <1>1
  <2>2. Cardinality(stale) = 0
    BY <2>1, FS_EmptySet
  <2> HIDE DEF stale
  <2>3. SubSeq(<<>>, Cardinality(stale) + 1, Len(<<>>)) = <<>>
    BY <1>1, <2>2
  <2> QED BY <1>2, <2>3 DEF Prune, stale
<1>4. ASSUME NEW r \in Rates
      PROVE  Recent(Judged(c), r.period, now[c]) < r.count
  <2>1. {i \in 1..Len(Judged(c)) : Age(Judged(c)[i], now[c]) <= r.period} = {}
    BY <1>1, <1>3
  <2>2. Recent(Judged(c), r.period, now[c]) = 0
    BY <2>1, FS_EmptySet DEF Recent
  <2>3. r.count \in Nat /\ r.count # 0
    BY GateAssumption DEF LimitsAdmit
  <2> QED BY <2>2, <2>3
<1> QED BY <1>4 DEF RefuseOverRate, WithinRate

\* The entry that an admission appends counts at once.
LEMMA AppendedCounts ==
    ASSUME NEW record \in Seq(Nat), NEW t \in Nat
    PROVE  Recent(Append(record, t), 0, t) > 0
<1> DEFINE longer == Append(record, t)
           counted == {i \in 1..Len(longer) : Age(longer[i], t) <= 0}
<1>1. Len(longer) \in Nat /\ Len(longer) \in 1..Len(longer) /\ longer[Len(longer)] = t
  OBVIOUS
<1>2. Age(t, t) = 0
  BY DEF Age
<1>3. Len(longer) \in counted
  BY <1>1, <1>2
<1>4. IsFiniteSet(counted) /\ Cardinality(counted) \in Nat
  <2>1. IsFiniteSet(1..Len(longer))
    BY <1>1, FS_Interval
  <2> QED BY <2>1, FS_Subset, FS_CardinalityType
<1>5. Cardinality(counted) # 0
  BY <1>3, <1>4, FS_EmptySet
<1>6. Recent(longer, 0, t) = Cardinality(counted)
  BY DEF Recent
<1> HIDE DEF counted
<1> QED BY <1>4, <1>5, <1>6

\* An admission is in the history it leaves.
LEMMA AdmissionRemembered ==
    ASSUME TypeOK, NEW c \in Conns, AdmitAddressed(c)
    PROVE  /\ ip[c] \in DOMAIN history'
           /\ Recent(history'[ip[c]], 0, now[c]) > 0
           /\ Cardinality(DOMAIN history') <= MostRemembered
<1> DEFINE record == Append(Judged(c), now[c])
           h == Recorded(history, ip[c], record)
<1>1. ip[c] \in Addresses /\ now[c] \in Nat /\ HistoryOK(history)
  BY DEF TypeOK, HistoryOK, AdmitAddressed
<1>2. Judged(c) \in Seq(Nat) /\ record \in Seq(Nat)
  BY <1>1, RecordType DEF Judged
<1>3. HistoryOK(h)
  BY <1>1, <1>2, RecordedType
<1>4. ip[c] \in DOMAIN h /\ h[ip[c]] = record
  BY DEF Recorded
<1>5. history' \in Bounded(h, ip[c])
  BY DEF AdmitAddressed
<1>6. Recent(record, 0, now[c]) > 0
  BY <1>1, <1>2, AppendedCounts
<1> HIDE DEF record, h
<1> QED BY <1>3, <1>4, <1>5, <1>6, BoundedKeeps

\* Only an admission bounds the history, and only a sweep and a refusal
\* change it otherwise: the refused address has a record already.
LEMMA HistoryNext ==
    ASSUME LimitsAdmit, TypeOK, HistoryBounded, [Next]_vars
    PROVE  HistoryBounded'
<1>h. HistoryOK(history)
  BY DEF TypeOK, HistoryOK
<1>1. ASSUME NEW c \in Conns, AdmitAddressed(c)
      PROVE  HistoryBounded'
  BY <1>1, AdmissionRemembered DEF HistoryBounded
<1>2. ASSUME NEW c \in Conns, RefuseOverRate(c)
      PROVE  HistoryBounded'
  <2>1. ip[c] \in DOMAIN history
    BY <1>2, RefusedIsRemembered
  <2>2. DOMAIN history' = DOMAIN history
    BY <1>2, <2>1 DEF RefuseOverRate, Recorded
  <2> QED BY <2>2 DEF HistoryBounded
<1>3. ASSUME Sweep
      PROVE  HistoryBounded'
  <2>1. DOMAIN history' \subseteq DOMAIN history
    BY <1>3 DEF Sweep
  <2>2. IsFiniteSet(DOMAIN history) /\ Cardinality(DOMAIN history) \in Nat
    BY <1>h, GateAssumption, FS_Subset, FS_CardinalityType DEF HistoryOK
  <2>3. Cardinality(DOMAIN history') \in Nat /\ Cardinality(DOMAIN history') <= Cardinality(DOMAIN history)
    BY <2>1, <2>2, FS_Subset, FS_CardinalityType
  <2>4. MostRemembered \in Nat
    BY GateAssumption DEF MostRemembered, HistoryCap
  <2> QED BY <2>2, <2>3, <2>4 DEF HistoryBounded
<1>4. ASSUME history' = history
      PROVE  HistoryBounded'
  BY <1>4 DEF HistoryBounded
<1> QED
  BY <1>1, <1>2, <1>3, <1>4
     DEF Next, Attempt, Release, Arrive, LoadCount, RefuseAtCapacity, TakeSlot, AdmitUnaddressed, RefuseOverIp,
         Refund, RetrySwap, ReleaseSlot, ReleaseTally, Tick, vars, shared

\* No more addresses are remembered than the cap, whatever is admitted, refused
\* or swept, if every limit lets somebody in; and the one just admitted is.
THEOREM HistoryIsKept == LimitsAdmit => (Spec => HistoryKept)
<1> SUFFICES ASSUME LimitsAdmit PROVE Spec => HistoryKept
  OBVIOUS
<1>1. Init => HistoryBounded
  <2> SUFFICES ASSUME Init PROVE HistoryBounded
    OBVIOUS
  <2>1. DOMAIN history = {}
    BY DEF Init
  <2>2. MostRemembered \in Nat
    BY GateAssumption DEF MostRemembered, HistoryCap
  <2> QED BY <2>1, <2>2, FS_EmptySet DEF HistoryBounded
<1>2. IInv /\ HistoryBounded /\ [Next]_vars => HistoryBounded'
  BY HistoryNext DEF IInv
<1>3. IInv /\ HistoryBounded /\ [Next]_vars =>
        [/\ Cardinality(DOMAIN history') <= MostRemembered
         /\ \A c \in Conns : AdmitAddressed(c) =>
              /\ ip[c] \in DOMAIN history'
              /\ Recent(history'[ip[c]], 0, now[c]) > 0]_vars
  BY <1>2, AdmissionRemembered DEF IInv, HistoryBounded
<1> QED BY InvInit, InvNext, <1>1, <1>2, <1>3, PTL DEF Spec, HistoryKept

-----------------------------------------------------------------------------
(* Pruning.                                                                *)

\* Numbers are well ordered, and a finite set of them has a greatest.
LEMMA LeastNatural ==
    ASSUME NEW T \in SUBSET Nat, T # {}
    PROVE  \E x \in T : \A y \in T : x <= y
<1>1. PICK x \in T : \A y \in T : ~(<<y, x>> \in OpToRel(<, Nat))
  BY NatLessThanWellFounded, WFMin
<1>2. ASSUME NEW y \in T PROVE ~(y < x)
  BY <1>1 DEF OpToRel
<1> QED BY <1>2

LEMMA GreatestNatural ==
    ASSUME NEW T \in SUBSET Nat, IsFiniteSet(T), T # {}
    PROVE  \E x \in T : \A y \in T : y <= x
<1> DEFINE above(x) == {y \in T : y > x}
           tails == {above(x) : x \in T}
<1>1. tails \subseteq FiniteSubsetsOf(T) /\ tails # {}
  <2>1. ASSUME NEW x \in T PROVE above(x) \in FiniteSubsetsOf(T)
    <3>1. above(x) \in SUBSET T
      OBVIOUS
    <3> HIDE DEF above
    <3> QED BY <3>1, FS_Subset DEF FiniteSubsetsOf
  <2> HIDE DEF above
  <2> QED BY <2>1
<1>2. PICK U \in tails : \A W \in tails : ~(<<W, U>> \in StrictSubsetOrdering(T))
  <2> HIDE DEF tails
  <2> QED BY <1>1, FS_StrictSubsetOrderingWellFounded, WFMin
<1>3. PICK x \in T : U = above(x)
  BY <1>2
<1>4. ASSUME NEW y \in T, y > x PROVE FALSE
  <2>1. above(y) \in tails /\ above(y) \subseteq T /\ U \subseteq T
    BY <1>3
  <2>2. above(y) \subseteq U /\ y \in U /\ y \notin above(y)
    <3>1. x \in Nat /\ y \in Nat
      OBVIOUS
    <3>2. \A z \in T : z > y => z > x
      BY <1>4, <3>1
    <3>3. above(y) \subseteq above(x)
      BY <3>2
    <3>4. y \in above(x)
      BY <1>4
    <3>5. y \notin above(y)
      BY <3>1
    <3> HIDE DEF above
    <3> QED BY <1>3, <3>3, <3>4, <3>5
  <2>3. <<above(y), U>> \in StrictSubsetOrdering(T)
    BY <2>1, <2>2 DEF StrictSubsetOrdering
  <2> QED BY <1>2, <2>1, <2>3
<1> QED BY <1>4

\* The longest period of any limit is one of them, or zero.
LEMMA WindowType == Window \in Nat /\ \A r \in Rates : r.period <= Window
<1> DEFINE listed == {r.period : r \in Rates}
           periods == listed \cup {0}
           f == [r \in Rates |-> r.period]
<1>1. f \in Surjection(Rates, listed)
  BY DEF Surjection
<1>2. IsFiniteSet(listed)
  BY <1>1, GateAssumption, FS_Surjection
<1>3. IsFiniteSet(periods) /\ periods \in SUBSET Nat /\ periods # {}
  <2>1. \A r \in Rates : r.period \in Nat
    BY GateAssumption
  <2>2. listed \in SUBSET Nat
    BY <2>1
  <2> HIDE DEF listed
  <2> QED BY <1>2, <2>2, FS_AddElement
<1>4. PICK w \in periods : \A p \in periods : p <= w
  <2> HIDE DEF periods
  <2> QED BY <1>3, GreatestNatural
<1>5. Window \in periods /\ \A p \in periods : p <= Window
  BY <1>4 DEF Window
<1> QED BY <1>3, <1>5

\* `k` entries are dropped from the front: all of them old, and the next not.
Drops(record, t, k) ==
    /\ k \in 0..Len(record)
    /\ \A j \in 1..k : Age(record[j], t) > Window
    /\ k < Len(record) => ~(Age(record[k + 1], t) > Window)

\* What Prune drops is determined by that.
LEMMA PruneDrops ==
    ASSUME NEW record \in Seq(Nat), NEW t \in Nat, NEW k, Drops(record, t, k)
    PROVE  Prune(record, t) = SubSeq(record, k + 1, Len(record))
<1> DEFINE stale == {i \in 1..Len(record) :
                        \A j \in 1..i : Age(record[j], t) > Window}
<1>1. k \in Nat /\ Len(record) \in Nat /\ k <= Len(record)
  BY DEF Drops
<1>2. ASSUME NEW i \in stale PROVE i \in 1..k
  <2> SUFFICES ASSUME i > k PROVE FALSE
    BY <1>1
  <2>1. k + 1 \in 1..i /\ k < Len(record)
    BY <1>1
  <2> QED BY <2>1 DEF Drops
<1>3. ASSUME NEW i \in 1..k PROVE i \in stale
  BY <1>1 DEF Drops
<1>4. stale = 1..k
  BY <1>2, <1>3
<1>5. Cardinality(1..k) = k
  BY <1>1, FS_Interval
<1> QED BY <1>4, <1>5 DEF Prune

\* There is always a front that has aged out, an empty one at least.
LEMMA SomeDrops ==
    ASSUME NEW record \in Seq(Nat), NEW t \in Nat
    PROVE  \E k : Drops(record, t, k)
<1> DEFINE fresh == {i \in 1..Len(record) : ~(Age(record[i], t) > Window)}
<1>1. Len(record) \in Nat
  OBVIOUS
<1>2. CASE fresh = {}
  <2>1. Drops(record, t, Len(record))
    BY <1>1, <1>2 DEF Drops
  <2> QED BY <2>1
<1>3. CASE fresh # {}
  <2>1. PICK i \in fresh : \A j \in fresh : i <= j
    <3>1. fresh \in SUBSET Nat
      OBVIOUS
    <3> HIDE DEF fresh
    <3> QED BY <1>3, <3>1, LeastNatural
  <2>2. Drops(record, t, i - 1)
    BY <1>1, <2>1 DEF Drops
  <2> QED BY <2>2
<1> QED BY <1>2, <1>3

\* To prune early makes no difference to what is left later.
LEMMA PruneTwice ==
    ASSUME NEW record \in Seq(Nat), NEW t \in Nat, NEW u \in Nat, t <= u
    PROVE  Prune(Prune(record, t), u) = Prune(record, u)
<1>1. PICK k : Drops(record, t, k)
  BY SomeDrops
<1> DEFINE pruned == SubSeq(record, k + 1, Len(record))
<1>2. Prune(record, t) = pruned
  BY <1>1, PruneDrops
<1>3. k \in Nat /\ Len(record) \in Nat /\ k <= Len(record)
  BY <1>1 DEF Drops
<1>4. /\ pruned \in Seq(Nat) /\ Len(pruned) = Len(record) - k
      /\ \A j \in 1..Len(pruned) : pruned[j] = record[j + k]
  BY <1>3
<1> HIDE DEF pruned
<1>5. PICK m : Drops(pruned, u, m)
  BY <1>4, SomeDrops
<1>6. Prune(pruned, u) = SubSeq(pruned, m + 1, Len(pruned))
  BY <1>4, <1>5, PruneDrops
<1>7. m \in Nat /\ m <= Len(pruned)
  BY <1>3, <1>4, <1>5 DEF Drops
<1>8. \A j \in 1..k : Age(record[j], u) > Window
  <2> SUFFICES ASSUME NEW j \in 1..k PROVE Age(record[j], u) > Window
    OBVIOUS
  <2>1. record[j] \in Nat /\ Age(record[j], t) > Window
    BY <1>1, <1>3 DEF Drops
  <2> QED BY <2>1, WindowType DEF Age
<1>9. Drops(record, u, k + m)
  <2>1. k + m \in 0..Len(record)
    BY <1>3, <1>4, <1>7
  <2>2. ASSUME NEW j \in 1..(k + m) PROVE Age(record[j], u) > Window
    <3>1. CASE j <= k
      BY <3>1, <1>3, <1>7, <1>8
    <3>2. CASE j > k
      <4>1. PICK i \in 1..m : i + k = j
        BY <3>2, <1>3, <1>7
      <4>2. i \in 1..Len(pruned)
        BY <1>3, <1>4, <1>7
      <4> QED BY <4>1, <4>2, <1>4, <1>5 DEF Drops
    <3> QED BY <3>1, <3>2, <1>3, <1>7
  <2>3. ASSUME k + m < Len(record) PROVE ~(Age(record[k + m + 1], u) > Window)
    <3>1. m + 1 \in 1..Len(pruned) /\ m < Len(pruned) /\ (m + 1) + k = k + m + 1
      <4>1. Len(pruned) = Len(record) - k
        BY <1>4
      <4> QED BY <2>3, <1>3, <4>1, <1>7
    <3>2. pruned[m + 1] = record[k + m + 1]
      BY <3>1, <1>4
    <3> QED BY <3>1, <3>2, <1>5 DEF Drops
  <2> QED BY <2>1, <2>2, <2>3 DEF Drops
<1>10. Prune(record, u) = SubSeq(record, k + m + 1, Len(record))
  BY <1>9, PruneDrops
<1>11. SubSeq(pruned, m + 1, Len(pruned)) = SubSeq(record, k + m + 1, Len(record))
  BY <1>3, <1>4, <1>7 DEF pruned
<1> QED BY <1>2, <1>6, <1>10, <1>11

\* A sweep leaves every address the record that its next attempt is judged by.
LEMMA SweptRecord ==
    ASSUME TypeOK, Sweep, NEW a, NEW t \in Nat, clock <= t
    PROVE  Prune(Record(history', a), t) = Prune(Record(history, a), t)
<1>1. clock \in Nat /\ <<>> \in Seq(Nat)
  BY DEF TypeOK
<1>2. CASE a \notin DOMAIN history
  BY <1>2 DEF Sweep, Record
<1>3. CASE a \in DOMAIN history
  <2>1. history[a] \in Seq(Nat)
    BY <1>3 DEF TypeOK
  <2>2. Record(history', a) = Prune(history[a], clock)
    BY <1>3 DEF Sweep, Record
  <2> QED BY <1>1, <1>3, <2>1, <2>2, PruneTwice DEF Record
<1> QED BY <1>2, <1>3

\* A sweep changes the verdict on no address, now or later.
THEOREM SweepIsInvisible == Spec => SweepChangesNoVerdict
<1>1. IInv /\ [Next]_vars =>
        [Sweep => \A a \in Addresses : \A t \in clock..MaxTime :
            AtLimit(history, a, t) <=> AtLimit(history', a, t)]_vars
  <2> SUFFICES ASSUME IInv, Sweep, NEW a \in Addresses, NEW t \in clock..MaxTime
               PROVE  AtLimit(history, a, t) <=> AtLimit(history', a, t)
    OBVIOUS
  <2>1. t \in Nat /\ clock <= t
    BY GateAssumption DEF IInv, TypeOK
  <2> QED BY <2>1, SweptRecord DEF IInv, AtLimit
<1> QED BY InvInit, InvNext, <1>1, PTL DEF Spec, SweepChangesNoVerdict

-----------------------------------------------------------------------------
(* The rate limits.  An address is judged by its record alone, so the      *)
(* record has to hold at least as many recent times as the address was     *)
(* recently admitted at, whatever was pruned or swept since.               *)

Since(record, s) == Cardinality({i \in 1..Len(record) : record[i] >= s})
After(a, s) == {c \in Admitted(a) : now[c] >= s}

RecordsSuffice ==
    Cardinality(Connected) <= MostRemembered =>
        \A a \in Addresses, s \in Nat :
            clock <= s + Window => Cardinality(After(a, s)) <= Since(Record(history, a), s)

RateInv ==
    /\ \A c \in Conns : pc[c] \in Attempting => now[c] = clock
    /\ \A c \in Conns : pc[c] = "new" => ip[c] = NoAddress
    /\ DOMAIN history \subseteq Connected
    /\ RecordsSuffice
    /\ RateHonoured

\* The recent times of a record are counted by a number.
LEMMA SinceType ==
    ASSUME NEW record \in Seq(Nat), NEW s \in Nat
    PROVE  /\ IsFiniteSet({i \in 1..Len(record) : record[i] >= s})
           /\ Since(record, s) \in Nat
<1>1. IsFiniteSet(1..Len(record))
  BY FS_Interval
<1>2. IsFiniteSet({i \in 1..Len(record) : record[i] >= s})
  BY <1>1, FS_Subset
<1> QED BY <1>2, FS_CardinalityType DEF Since

\* Pruning drops nothing that is recent.
LEMMA PruneKeepsRecent ==
    ASSUME NEW record \in Seq(Nat), NEW t \in Nat, NEW s \in Nat, t <= s + Window
    PROVE  Since(record, s) <= Since(Prune(record, t), s)
<1>1. PICK k : Drops(record, t, k)
  BY SomeDrops
<1> DEFINE pruned == SubSeq(record, k + 1, Len(record))
           before == {i \in 1..Len(record) : record[i] >= s}
           after == {i \in 1..Len(pruned) : pruned[i] >= s}
           f == [i \in before |-> i - k]
<1>2. Prune(record, t) = pruned
  BY <1>1, PruneDrops
<1>3. k \in Nat /\ Len(record) \in Nat /\ k <= Len(record)
  BY <1>1 DEF Drops
<1>4. /\ pruned \in Seq(Nat) /\ Len(pruned) = Len(record) - k
      /\ \A j \in 1..Len(pruned) : pruned[j] = record[j + k]
  BY <1>3
<1> HIDE DEF pruned
<1>5. ASSUME NEW i \in before PROVE i - k \in after
  <2>1. ~(i <= k)
    <3> SUFFICES ASSUME i <= k PROVE FALSE
      OBVIOUS
    <3>1. Age(record[i], t) > Window
      BY <1>1, <1>3 DEF Drops
    <3>2. record[i] \in Nat /\ record[i] >= s
      OBVIOUS
    <3> QED BY <3>1, <3>2, WindowType DEF Age
  <2>2. PICK j \in 1..Len(pruned) : j = i - k /\ j + k = i
    BY <1>3, <1>4, <2>1
  <2>3. pruned[j] >= s
    BY <1>4, <2>2
  <2>4. j \in after
    BY <2>3
  <2> HIDE DEF after
  <2> QED BY <2>2, <2>4
<1>6. IsFiniteSet(after)
  BY <1>4, SinceType
<1>7. f \in Injection(before, after)
  <2>1. f \in [before -> after]
    BY <1>5
  <2>2. \A i, j \in before : f[i] = f[j] => i = j
    BY <1>3
  <2> QED BY <2>1, <2>2 DEF Injection, IsInjective
<1>8. Cardinality(before) <= Cardinality(after)
  BY <1>6, <1>7, FS_Injection
<1> QED BY <1>2, <1>8 DEF Since

\* A time appended to a record counts if it is recent itself.
LEMMA SinceAppended ==
    ASSUME NEW record \in Seq(Nat), NEW t \in Nat, NEW s \in Nat
    PROVE  Since(Append(record, t), s) = Since(record, s) + (IF t >= s THEN 1 ELSE 0)
<1> DEFINE longer == Append(record, t)
           old == {i \in 1..Len(record) : record[i] >= s}
           new == {i \in 1..Len(longer) : longer[i] >= s}
           last == Len(record) + 1
<1>1. /\ Len(record) \in Nat /\ Len(longer) = last /\ longer[last] = t
      /\ \A i \in 1..Len(record) : longer[i] = record[i]
  OBVIOUS
<1>2. IsFiniteSet(old) /\ Cardinality(old) \in Nat
  BY SinceType DEF Since
<1>3. last \notin old
  BY <1>1
<1>4. new = IF t >= s THEN old \cup {last} ELSE old
  <2>1. \A i : i \in 1..Len(longer) <=> i \in 1..Len(record) \/ i = last
    BY <1>1
  <2> HIDE DEF longer
  <2>2. \A i : i \in new <=> i \in old \/ (i = last /\ t >= s)
    BY <1>1, <2>1
  <2> HIDE DEF new, old, last
  <2>3. CASE t >= s
    <3>1. new = old \cup {last}
      BY <2>2, <2>3
    <3> QED BY <2>3, <3>1
  <2>4. CASE ~(t >= s)
    <3>1. new = old
      BY <2>2, <2>4
    <3> QED BY <2>4, <3>1
  <2> QED BY <2>3, <2>4
<1>5. Cardinality(old \cup {last}) = Cardinality(old) + 1
  BY <1>2, <1>3, FS_AddElement
<1>6. Since(record, s) = Cardinality(old) /\ Since(longer, s) = Cardinality(new)
  BY DEF Since
<1>7. Cardinality(new) = Cardinality(old) + (IF t >= s THEN 1 ELSE 0)
  <2> HIDE DEF longer, old, new, last
  <2>1. CASE t >= s
    <3>1. new = old \cup {last}
      BY <1>4, <2>1
    <3> QED BY <1>5, <2>1, <3>1
  <2>2. CASE ~(t >= s)
    <3>1. new = old
      BY <1>4, <2>2
    <3> QED BY <1>2, <2>2, <3>1
  <2> QED BY <2>1, <2>2
<1> QED BY <1>6, <1>7

\* What is recent by a limit's own period counts towards it.
LEMMA RecentCounts ==
    ASSUME NEW record \in Seq(Nat), NEW t \in Nat, NEW s \in Nat, NEW p \in Nat, t <= s + p
    PROVE  Since(record, s) <= Recent(record, p, t) /\ Recent(record, p, t) \in Nat
<1> DEFINE since == {i \in 1..Len(record) : record[i] >= s}
           recent == {i \in 1..Len(record) : Age(record[i], t) <= p}
<1>1. IsFiniteSet(recent)
  <2>1. IsFiniteSet(1..Len(record))
    BY FS_Interval
  <2> QED BY <2>1, FS_Subset
<1>2. since \subseteq recent
  <2> SUFFICES ASSUME NEW i \in since PROVE Age(record[i], t) <= p
    OBVIOUS
  <2>1. record[i] \in Nat /\ record[i] >= s
    OBVIOUS
  <2> QED BY <2>1 DEF Age
<1>3. Cardinality(since) <= Cardinality(recent) /\ Cardinality(recent) \in Nat
  <2> HIDE DEF since, recent
  <2> QED BY <1>1, <1>2, FS_Subset, FS_CardinalityType
<1> QED BY <1>3 DEF Since, Recent

\* Counts of connections and of addresses are numbers.
LEMMA AdmittedFinite ==
    /\ \A S : S \subseteq Conns => IsFiniteSet(S) /\ Cardinality(S) \in Nat
    /\ TypeOK => IsFiniteSet(Connected) /\ Cardinality(Connected) \in Nat
    /\ MostRemembered \in Nat
<1>1. \A S : S \subseteq Conns => IsFiniteSet(S) /\ Cardinality(S) \in Nat
  BY GateAssumption, FS_Subset, FS_CardinalityType
<1>2. ASSUME TypeOK PROVE IsFiniteSet(Connected) /\ Cardinality(Connected) \in Nat
  <2>1. Connected \subseteq Addresses
    BY <1>2 DEF TypeOK, Connected
  <2> QED BY <2>1, GateAssumption, FS_Subset, FS_CardinalityType
<1>3. MostRemembered \in Nat
  BY GateAssumption DEF MostRemembered, HistoryCap
<1> QED BY <1>1, <1>2, <1>3

\* A step that admits nobody with an address keeps the invariant, if it leaves
\* the records what is recent by the time it leaves.
LEMMA RateQuiet ==
    ASSUME TypeOK, TypeOK', RateInv,
           \A c \in Conns : pc'[c] \in Attempting => now'[c] = clock',
           \A c \in Conns : pc'[c] = "new" => ip'[c] = NoAddress,
           DOMAIN history' \subseteq Connected', Connected \subseteq Connected',
           \A a \in Addresses : Admitted(a)' = Admitted(a),
           \A c \in Conns : pc[c] # "new" => now'[c] = now[c],
           clock <= clock',
           \A a \in Addresses, s \in Nat : clock' <= s + Window =>
               Since(Record(history, a), s) <= Since(Record(history', a), s)
    PROVE  RateInv'
<1>1. Cardinality(Connected') <= MostRemembered => Cardinality(Connected) <= MostRemembered
  <2>1. /\ IsFiniteSet(Connected') /\ Cardinality(Connected') \in Nat
        /\ Cardinality(Connected) \in Nat
    <3>1. Connected' \subseteq Addresses
      BY DEF TypeOK, Connected
    <3> QED BY <3>1, AdmittedFinite, GateAssumption, FS_Subset, FS_CardinalityType
  <2>2. Cardinality(Connected) <= Cardinality(Connected')
    BY <2>1, FS_Subset
  <2> QED BY <2>1, <2>2, AdmittedFinite
<1>2. \A a \in Addresses : \A c \in Admitted(a) : now'[c] = now[c]
  BY DEF Admitted
<1>3. RecordsSuffice'
  <2> SUFFICES ASSUME Cardinality(Connected') <= MostRemembered,
                      NEW a \in Addresses, NEW s \in Nat, clock' <= s + Window
               PROVE  Cardinality(After(a, s)') <= Since(Record(history', a), s)
    BY DEF RecordsSuffice
  <2>1. After(a, s)' = After(a, s)
    BY <1>2 DEF After
  <2>2. clock <= s + Window
    BY WindowType DEF TypeOK
  <2>3. Cardinality(After(a, s)) <= Since(Record(history, a), s)
    BY <1>1, <2>2 DEF RateInv, RecordsSuffice
  <2>4. Since(Record(history, a), s) <= Since(Record(history', a), s)
    OBVIOUS
  <2>5. /\ Cardinality(After(a, s)) \in Nat
        /\ Since(Record(history, a), s) \in Nat /\ Since(Record(history', a), s) \in Nat
    <3>1. After(a, s) \subseteq Conns
      BY DEF After, Admitted
    <3>2. Record(history, a) \in Seq(Nat) /\ Record(history', a) \in Seq(Nat)
      BY DEF TypeOK, Record
    <3> QED BY <3>1, <3>2, AdmittedFinite, SinceType
  <2> QED BY <2>1, <2>3, <2>4, <2>5
<1>4. RateHonoured'
  <2> SUFFICES ASSUME Cardinality(Connected') <= MostRemembered,
                      NEW a \in Addresses, NEW r \in Rates, NEW t \in 0..MaxTime
               PROVE  Cardinality({c \in Admitted(a)' : now'[c] \in t..(t + r.period)}) <= r.count
    BY DEF RateHonoured
  <2>1. {c \in Admitted(a)' : now'[c] \in t..(t + r.period)} =
          {c \in Admitted(a) : now[c] \in t..(t + r.period)}
    BY <1>2
  <2> QED BY <1>1, <2>1 DEF RateInv, RateHonoured
<1> QED BY <1>3, <1>4 DEF RateInv

\* What is recent in the record of an address is counted by a number.
LEMMA RecordSince ==
    ASSUME TypeOK, NEW a \in Addresses, NEW s \in Nat
    PROVE  Since(Record(history, a), s) \in Nat /\ Record(history, a) \in Seq(Nat)
<1>1. Record(history, a) \in Seq(Nat)
  BY DEF TypeOK, Record
<1> QED BY <1>1, SinceType

\* An admission is within every limit by its record, which holds every recent
\* admission of its address and now holds this one.
LEMMA RateAdmit ==
    ASSUME Prompt, TypeOK, TypeOK', RateInv, NEW c \in Conns, AdmitAddressed(c)
    PROVE  RateInv'
<1> DEFINE b == ip[c]
           n == now[c]
           h == Recorded(history, b, Append(Judged(c), n))
<1>1. /\ b \in Addresses /\ n \in Nat /\ n = clock /\ clock' = clock /\ ip' = ip /\ now' = now
      /\ pc' = [pc EXCEPT ![c] = "held"] /\ pc[c] = "judge" /\ pc \in [Conns -> Stages]
  BY DEF TypeOK, AdmitAddressed, RateInv, Attempting, Move, locals
<1>2. Judged(c) \in Seq(Nat) /\ Record(history, b) \in Seq(Nat)
  <2>1. HistoryOK(history)
    BY DEF TypeOK, HistoryOK
  <2> QED BY <1>1, <2>1, RecordType, RecordSince DEF Judged
<1>3. Connected' = Connected /\ b \in Connected
  BY <1>1 DEF Connected, AdmitAddressed
<1>4. DOMAIN h \subseteq Connected
  BY <1>3 DEF RateInv, Recorded
<1>5. history' \in Bounded(h, b)
  BY DEF AdmitAddressed
<1>6. DOMAIN history' \subseteq Connected
  BY <1>4, <1>5 DEF Bounded
<1>7. \A a \in Addresses \ {b} : Admitted(a)' = Admitted(a)
  BY <1>1 DEF Admitted
<1>8. \A a \in Addresses : a = b => Admitted(a)' = Admitted(a) \cup {c} /\ c \notin Admitted(a)
  BY <1>1 DEF Admitted
<1>9. ASSUME Cardinality(Connected) <= MostRemembered PROVE history' = h
  <2>1. IsFiniteSet(Connected) /\ Cardinality(Connected) \in Nat /\ MostRemembered \in Nat
    BY AdmittedFinite
  <2>2. IsFiniteSet(DOMAIN h) /\ Cardinality(DOMAIN h) \in Nat /\ Cardinality(DOMAIN h) <= Cardinality(Connected)
    BY <1>4, <2>1, FS_Subset, FS_CardinalityType
  <2> HIDE DEF h
  <2>3. PICK V \in SUBSET (DOMAIN h) :
          /\ history' = [a \in DOMAIN h \ V |-> h[a]]
          /\ Cardinality(V) = IF Cardinality(DOMAIN h) - MostRemembered > 0 THEN Cardinality(DOMAIN h) - MostRemembered ELSE 0
    BY <1>5 DEF Bounded
  <2>4. Cardinality(V) = 0 /\ IsFiniteSet(V)
    BY <1>9, <2>1, <2>2, <2>3, FS_Subset
  <2>5. V = {}
    BY <2>4, FS_EmptySet
  <2>6. h = [a \in DOMAIN h |-> h[a]]
    BY DEF h, Recorded
  <2> QED BY <2>3, <2>5, <2>6
<1>10. ASSUME NEW s \in Nat, clock <= s + Window
       PROVE  Since(Record(history, b), s) <= Since(Judged(c), s)
  BY <1>1, <1>2, <1>10, PruneKeepsRecent DEF Judged
<1>11. RecordsSuffice'
  <2> SUFFICES ASSUME Cardinality(Connected) <= MostRemembered,
                      NEW a \in Addresses, NEW s \in Nat, clock <= s + Window
               PROVE  Cardinality(After(a, s)') <= Since(Record(history', a), s)
    BY <1>1, <1>3 DEF RecordsSuffice
  <2>1. history' = h
    BY <1>9
  <2>2. Cardinality(After(a, s)) <= Since(Record(history, a), s)
    BY DEF RateInv, RecordsSuffice
  <2>3. CASE a # b
    <3>1. Record(history', a) = Record(history, a)
      BY <2>1, <2>3 DEF Record, Recorded
    <3>2. After(a, s)' = After(a, s)
      BY <1>1, <1>7, <2>3 DEF After
    <3> QED BY <2>2, <3>1, <3>2
  <2>4. CASE a = b
    <3>1. Record(history', b) = Append(Judged(c), n)
      BY <2>1 DEF Record, Recorded
    <3>2. Since(Record(history', b), s) = Since(Judged(c), s) + (IF n >= s THEN 1 ELSE 0)
      BY <1>1, <1>2, <3>1, SinceAppended
    <3>3. After(a, s)' = IF n >= s THEN After(a, s) \cup {c} ELSE After(a, s)
      BY <1>1, <1>8, <2>4 DEF After
    <3>4. IsFiniteSet(After(a, s)) /\ Cardinality(After(a, s)) \in Nat /\ c \notin After(a, s)
      <4>1. After(a, s) \subseteq Conns
        BY DEF After, Admitted
      <4>2. c \notin After(a, s)
        BY <1>8, <2>4 DEF After
      <4> QED BY <4>1, <4>2, AdmittedFinite
    <3>5. Cardinality(After(a, s)') = Cardinality(After(a, s)) + (IF n >= s THEN 1 ELSE 0)
      <4>1. Cardinality(After(a, s) \cup {c}) = Cardinality(After(a, s)) + 1
        BY <3>4, FS_AddElement
      <4>2. CASE n >= s
        BY <3>3, <4>1, <4>2
      <4>3. CASE ~(n >= s)
        <5>1. After(a, s)' = After(a, s)
          BY <3>3, <4>3
        <5> QED BY <3>4, <4>3, <5>1
      <4> QED BY <4>2, <4>3
    <3>6. Since(Record(history, b), s) <= Since(Judged(c), s)
      BY <1>10
    <3>7. Since(Record(history, b), s) \in Nat /\ Since(Judged(c), s) \in Nat
      BY <1>2, SinceType
    <3> QED BY <2>2, <2>4, <3>2, <3>4, <3>5, <3>6, <3>7
  <2> QED BY <2>3, <2>4
<1>12. RateHonoured'
  <2> SUFFICES ASSUME Cardinality(Connected) <= MostRemembered,
                      NEW a \in Addresses, NEW r \in Rates, NEW t \in 0..MaxTime
               PROVE  Cardinality({d \in Admitted(a)' : now[d] \in t..(t + r.period)}) <= r.count
    BY <1>1, <1>3 DEF RateHonoured
  <2> DEFINE within == {d \in Admitted(a) : now[d] \in t..(t + r.period)}
             within2 == {d \in Admitted(a)' : now[d] \in t..(t + r.period)}
  <2>1. Cardinality(within) <= r.count
    BY DEF RateInv, RateHonoured
  <2>2. CASE a # b \/ n \notin t..(t + r.period)
    <3>1. ASSUME a # b PROVE within2 = within
      BY <1>7, <3>1
    <3>2. ASSUME a = b, n \notin t..(t + r.period) PROVE within2 = within
      BY <1>8, <3>2
    <3>3. within2 = within
      BY <2>2, <3>1, <3>2
    <3> HIDE DEF within, within2
    <3> QED BY <2>1, <3>3 DEF within2
  <2>3. CASE a = b /\ n \in t..(t + r.period)
    <3>1. /\ t \in Nat /\ r.period \in Nat /\ r.count \in Nat
          /\ clock <= t + r.period /\ clock <= t + Window
      <4>1. t \in Nat /\ r.period \in Nat /\ r.count \in Nat
        BY GateAssumption
      <4>2. r.period <= Window /\ Window \in Nat
        BY WindowType
      <4> QED BY <1>1, <2>3, <4>1, <4>2
    <3>2. Cardinality(After(b, t)) <= Since(Record(history, b), t)
      BY <1>1, <3>1 DEF RateInv, RecordsSuffice
    <3>3. Since(Record(history, b), t) <= Since(Judged(c), t)
      BY <1>10, <3>1
    <3>4. Since(Judged(c), t) <= Recent(Judged(c), r.period, n) /\ Recent(Judged(c), r.period, n) \in Nat
      BY <1>1, <1>2, <3>1, RecentCounts
    <3>5. Recent(Judged(c), r.period, n) < r.count
      BY DEF AdmitAddressed, WithinRate
    <3>6. Since(Record(history, b), t) \in Nat /\ Since(Judged(c), t) \in Nat
      BY <1>2, <3>1, SinceType
    <3>7. After(b, t) \subseteq Conns
      BY DEF After, Admitted
    <3>8. within \subseteq After(b, t)
      BY <2>3, <3>1 DEF After, TypeOK
    <3>9. /\ IsFiniteSet(After(b, t)) /\ Cardinality(After(b, t)) \in Nat
          /\ IsFiniteSet(within) /\ Cardinality(within) \in Nat
      BY <3>7, <3>8, AdmittedFinite
    <3>10. Cardinality(within) <= Cardinality(After(b, t))
      BY <3>8, <3>9, FS_Subset
    <3>11. within2 = within \cup {c}
      BY <1>8, <2>3
    <3> HIDE DEF within, within2
    <3>12. Cardinality(within \cup {c}) = IF c \in within THEN Cardinality(within) ELSE Cardinality(within) + 1
      BY <3>9, FS_AddElement
    <3>13. Cardinality(within2) <= Cardinality(within) + 1 /\ Cardinality(within2) \in Nat
      BY <3>9, <3>11, <3>12
    <3>14. Cardinality(within2) <= r.count
      BY <3>1, <3>2, <3>3, <3>4, <3>5, <3>6, <3>9, <3>10, <3>13
    <3> QED BY <3>14 DEF within2
  <2> QED BY <2>2, <2>3
<1>13. /\ \A d \in Conns : pc'[d] \in Attempting => now'[d] = clock'
       /\ \A d \in Conns : pc'[d] = "new" => ip'[d] = NoAddress
  BY <1>1 DEF RateInv, Attempting
<1> QED BY <1>3, <1>6, <1>11, <1>12, <1>13 DEF RateInv

\* Nobody was admitted before the gate was first asked.
LEMMA RateInit == Init => RateInv
<1> SUFFICES ASSUME Init PROVE RateInv
  OBVIOUS
<1>1. \A a \in Addresses : Admitted(a) = {}
  BY DEF Init, Admitted
<1>2. RecordsSuffice
  <2> SUFFICES ASSUME NEW a \in Addresses, NEW s \in Nat
               PROVE  Cardinality(After(a, s)) <= Since(Record(history, a), s)
    BY DEF RecordsSuffice
  <2>1. After(a, s) = {}
    BY <1>1 DEF After
  <2>2. Record(history, a) \in Seq(Nat)
    BY DEF Init, Record
  <2>3. Since(Record(history, a), s) \in Nat
    BY <2>2, SinceType
  <2>4. Cardinality(After(a, s)) = 0
    BY <2>1, FS_EmptySet
  <2> QED BY <2>3, <2>4
<1>3. RateHonoured
  <2> SUFFICES ASSUME NEW a \in Addresses, NEW r \in Rates, NEW t \in 0..MaxTime
               PROVE  Cardinality({c \in Admitted(a) : now[c] \in t..(t + r.period)}) <= r.count
    BY DEF RateHonoured
  <2>1. {c \in Admitted(a) : now[c] \in t..(t + r.period)} = {}
    BY <1>1
  <2>2. r.count \in Nat
    BY GateAssumption
  <2> QED BY <2>1, <2>2, FS_EmptySet
<1>4. DOMAIN history = {}
  BY DEF Init
<1>5. /\ \A c \in Conns : pc[c] \in Attempting => now[c] = clock
      /\ \A c \in Conns : pc[c] = "new" => ip[c] = NoAddress
  BY DEF Init, Attempting
<1> QED BY <1>2, <1>3, <1>4, <1>5 DEF RateInv

\* A connection that moves and is admitted by that to no address.
LEMMA RateMove ==
    ASSUME TypeOK, TypeOK', RateInv, NEW c \in Conns, NEW stage \in Stages, Move(c, stage),
           pc[c] # "new", stage # "new", stage \in Attempting => pc[c] \in Attempting,
           ip[c] \in Addresses =>
               (pc[c] \in {"held", "untally", "closed"} <=> stage \in {"held", "untally", "closed"}),
           UNCHANGED <<history, ip, now, clock>>
    PROVE  RateInv'
<1>1. pc' = [pc EXCEPT ![c] = stage] /\ pc \in [Conns -> Stages] /\ clock \in Nat
  BY DEF Move, TypeOK
<1>2. \A d \in Conns : pc'[d] \in Attempting => now'[d] = clock'
  BY <1>1 DEF RateInv
<1>3. \A d \in Conns : pc'[d] = "new" => ip'[d] = NoAddress
  BY <1>1 DEF RateInv
<1>4. DOMAIN history' \subseteq Connected' /\ Connected' = Connected
  BY DEF RateInv, Connected
<1>5. \A a \in Addresses : Admitted(a)' = Admitted(a)
  BY <1>1 DEF Admitted
<1>6. \A a \in Addresses, s \in Nat :
        Since(Record(history, a), s) <= Since(Record(history', a), s)
  BY RecordSince
<1> QED BY <1>1, <1>2, <1>3, <1>4, <1>5, <1>6, RateQuiet

\* A pruned record has lost nothing that is recent at the time of pruning.
LEMMA PrunedSuffices ==
    ASSUME TypeOK, NEW a \in Addresses, NEW s \in Nat, clock <= s + Window
    PROVE  Since(Record(history, a), s) <= Since(Prune(Record(history, a), clock), s)
<1>1. clock \in Nat /\ Record(history, a) \in Seq(Nat)
  BY RecordSince DEF TypeOK
<1> QED BY <1>1, PruneKeepsRecent

\* Every step keeps the records sufficient and the limits honoured.
LEMMA RateNext == Prompt /\ TypeOK /\ TypeOK' /\ RateInv /\ [Next]_vars => RateInv'
<1> SUFFICES ASSUME Prompt, TypeOK, TypeOK', RateInv, [Next]_vars PROVE RateInv'
  OBVIOUS
<1> USE DEF locals, shared
<1>1. ASSUME NEW c \in Conns, NEW a \in Addresses \cup {NoAddress}, Arrive(c, a) PROVE RateInv'
  <2>1. /\ pc' = [pc EXCEPT ![c] = "load"] /\ pc[c] = "new" /\ pc \in [Conns -> Stages]
        /\ ip' = [ip EXCEPT ![c] = a] /\ ip[c] = NoAddress
        /\ ip \in [Conns -> Addresses \cup {NoAddress}]
        /\ now' = [now EXCEPT ![c] = clock] /\ now \in [Conns -> Nat]
        /\ history' = history /\ clock' = clock /\ clock \in Nat
    BY <1>1 DEF Arrive, Move, TypeOK, RateInv
  <2>2. \A d \in Conns : pc'[d] \in Attempting => now'[d] = clock'
    BY <2>1 DEF RateInv
  <2>3. \A d \in Conns : pc'[d] = "new" => ip'[d] = NoAddress
    BY <2>1 DEF RateInv
  <2>4. Connected \subseteq Connected'
    BY <2>1 DEF Connected
  <2>5. DOMAIN history' \subseteq Connected'
    BY <2>1, <2>4 DEF RateInv
  <2>6. \A b \in Addresses : Admitted(b)' = Admitted(b)
    BY <2>1 DEF Admitted
  <2>7. \A d \in Conns : pc[d] # "new" => now'[d] = now[d]
    BY <2>1
  <2>8. \A b \in Addresses, s \in Nat :
          Since(Record(history, b), s) <= Since(Record(history', b), s)
    BY <2>1, RecordSince
  <2> QED BY <2>1, <2>2, <2>3, <2>4, <2>5, <2>6, <2>7, <2>8, RateQuiet
<1>2. ASSUME NEW c \in Conns, Attempt(c) PROVE RateInv'
  <2>1. CASE LoadCount(c)
    BY <2>1, RateMove DEF LoadCount, Attempting, Stages
  <2>2. CASE RefuseAtCapacity(c)
    BY <2>2, RateMove DEF RefuseAtCapacity, Attempting, Stages
  <2>3. CASE TakeSlot(c)
    BY <2>3, RateMove DEF TakeSlot, Attempting, Stages
  <2>4. CASE AdmitUnaddressed(c)
    BY <2>4, RateMove, GateAssumption DEF AdmitUnaddressed, Attempting, Stages
  <2>5. CASE AdmitAddressed(c)
    BY <2>5, RateAdmit
  <2>6. CASE RefuseOverIp(c)
    BY <2>6, RateMove DEF RefuseOverIp, Attempting, Stages
  <2>7. CASE RefuseOverRate(c)
    <3> DEFINE b == ip[c]
    <3>1. /\ pc' = [pc EXCEPT ![c] = "refund"] /\ pc[c] = "judge" /\ pc \in [Conns -> Stages]
          /\ b \in Addresses /\ now[c] = clock /\ clock' = clock /\ clock \in Nat
          /\ ip' = ip /\ now' = now
          /\ history' = Recorded(history, b, Prune(Record(history, b), clock))
      BY <2>7 DEF RefuseOverRate, Judged, Move, TypeOK, RateInv, Attempting
    <3>2. \A d \in Conns : pc'[d] \in Attempting => now'[d] = clock'
      BY <3>1 DEF RateInv, Attempting
    <3>3. \A d \in Conns : pc'[d] = "new" => ip'[d] = NoAddress
      BY <3>1 DEF RateInv
    <3>4. Connected' = Connected /\ DOMAIN history' \subseteq Connected'
      <4>1. Connected' = Connected
        BY <3>1 DEF Connected
      <4>2. b \in Connected
        BY <3>1, GateAssumption DEF Connected
      <4>3. DOMAIN history' = DOMAIN history \cup {b}
        BY <3>1 DEF Recorded
      <4> QED BY <4>1, <4>2, <4>3 DEF RateInv
    <3>5. ASSUME NEW a \in Addresses PROVE Admitted(a)' = Admitted(a)
      <4>1. \A d \in Conns : pc'[d] \in {"held", "untally", "closed"} <=>
                               pc[d] \in {"held", "untally", "closed"}
        BY <3>1
      <4> QED BY <3>1, <4>1 DEF Admitted
    <3>6. ASSUME NEW a \in Addresses, NEW s \in Nat, clock' <= s + Window
          PROVE  Since(Record(history, a), s) <= Since(Record(history', a), s)
      <4>1. ASSUME a = b PROVE Record(history', a) = Prune(Record(history, a), clock)
        BY <3>1, <4>1 DEF Record, Recorded
      <4>2. ASSUME a # b PROVE Record(history', a) = Record(history, a)
        BY <3>1, <4>2 DEF Record, Recorded
      <4>3. Since(Record(history, a), s) \in Nat
        BY RecordSince
      <4>4. Since(Record(history, a), s) <= Since(Prune(Record(history, a), clock), s)
        BY <3>1, <3>6, PrunedSuffices
      <4> QED BY <4>1, <4>2, <4>3, <4>4
    <3> QED BY <3>1, <3>2, <3>3, <3>4, <3>5, <3>6, RateQuiet
  <2>8. CASE Refund(c)
    BY <2>8, RateMove DEF Refund, Attempting, Stages
  <2> QED BY <1>2, <2>1, <2>2, <2>3, <2>4, <2>5, <2>6, <2>7, <2>8 DEF Attempt
<1>3. ASSUME NEW c \in Conns, RetrySwap(c) PROVE RateInv'
  BY <1>3, RateMove DEF RetrySwap, Attempting, Stages
<1>4. ASSUME NEW c \in Conns, Release(c) PROVE RateInv'
  <2>1. CASE ReleaseSlot(c)
    <3>1. CASE ip[c] = NoAddress
      BY <2>1, <3>1, RateMove, GateAssumption DEF ReleaseSlot, Attempting, Stages
    <3>2. CASE ip[c] # NoAddress
      BY <2>1, <3>2, RateMove DEF ReleaseSlot, Attempting, Stages
    <3> QED BY <3>1, <3>2
  <2>2. CASE ReleaseTally(c)
    BY <2>2, RateMove DEF ReleaseTally, Attempting, Stages
  <2> QED BY <1>4, <2>1, <2>2 DEF Release
<1>5. CASE Sweep
  <2> DEFINE swept == [a \in DOMAIN history |-> Prune(history[a], clock)]
             live == {a \in DOMAIN history : swept[a] # <<>>}
  <2>1. /\ history' = [a \in live |-> swept[a]] /\ clock' = clock /\ clock \in Nat
        /\ pc' = pc /\ ip' = ip /\ now' = now
    BY <1>5 DEF Sweep, TypeOK
  <2>2. /\ \A d \in Conns : pc'[d] \in Attempting => now'[d] = clock'
        /\ \A d \in Conns : pc'[d] = "new" => ip'[d] = NoAddress
    BY <2>1 DEF RateInv
  <2>3. Connected' = Connected /\ DOMAIN history' \subseteq Connected'
    BY <2>1 DEF RateInv, Connected
  <2>4. \A a \in Addresses : Admitted(a)' = Admitted(a)
    BY <2>1 DEF Admitted
  <2>5. ASSUME NEW a \in Addresses, NEW s \in Nat, clock' <= s + Window
        PROVE  Since(Record(history, a), s) <= Since(Record(history', a), s)
    <3>1. Since(Record(history, a), s) <= Since(Prune(Record(history, a), clock), s)
      BY <2>1, <2>5, PrunedSuffices
    <3>2. CASE a \in live
      <4>1. Record(history', a) = Prune(Record(history, a), clock)
        BY <2>1, <3>2 DEF Record
      <4> QED BY <3>1, <4>1
    <3>3. CASE a \in DOMAIN history /\ a \notin live
      <4>1. Prune(Record(history, a), clock) = <<>> /\ Record(history', a) = <<>>
        BY <2>1, <3>3 DEF Record
      <4> QED BY <3>1, <4>1
    <3>4. CASE a \notin DOMAIN history
      <4>1. Record(history', a) = Record(history, a)
        BY <2>1, <3>4 DEF Record
      <4> QED BY <4>1, RecordSince
    <3> QED BY <3>2, <3>3, <3>4
  <2> QED BY <2>1, <2>2, <2>3, <2>4, <2>5, RateQuiet
<1>6. CASE Tick
  <2>1. /\ clock' = clock + 1 /\ clock \in Nat /\ pc' = pc /\ ip' = ip /\ now' = now
        /\ history' = history /\ \A c \in Conns : pc[c] \notin Attempting
    BY <1>6 DEF Tick, TypeOK
  <2>2. /\ \A d \in Conns : pc'[d] \in Attempting => now'[d] = clock'
        /\ \A d \in Conns : pc'[d] = "new" => ip'[d] = NoAddress
    BY <2>1 DEF RateInv
  <2>3. Connected' = Connected /\ DOMAIN history' \subseteq Connected'
    BY <2>1 DEF RateInv, Connected
  <2>4. \A a \in Addresses : Admitted(a)' = Admitted(a)
    BY <2>1 DEF Admitted
  <2>5. \A a \in Addresses, s \in Nat :
          Since(Record(history, a), s) <= Since(Record(history', a), s)
    BY <2>1, RecordSince
  <2> QED BY <2>1, <2>2, <2>3, <2>4, <2>5, RateQuiet
<1>7. CASE UNCHANGED vars
  <2>1. /\ clock' = clock /\ clock \in Nat /\ pc' = pc /\ ip' = ip /\ now' = now
        /\ history' = history
    BY <1>7 DEF vars, TypeOK
  <2>2. /\ \A d \in Conns : pc'[d] \in Attempting => now'[d] = clock'
        /\ \A d \in Conns : pc'[d] = "new" => ip'[d] = NoAddress
    BY <2>1 DEF RateInv
  <2>3. Connected' = Connected /\ DOMAIN history' \subseteq Connected'
    BY <2>1 DEF RateInv, Connected
  <2>4. \A a \in Addresses : Admitted(a)' = Admitted(a)
    BY <2>1 DEF Admitted
  <2>5. \A a \in Addresses, s \in Nat :
          Since(Record(history, a), s) <= Since(Record(history', a), s)
    BY <2>1, RecordSince
  <2> QED BY <2>1, <2>2, <2>3, <2>4, <2>5, RateQuiet
<1> QED BY <1>1, <1>2, <1>3, <1>4, <1>5, <1>6, <1>7 DEF Next

(* gate.rs:105-144: as long as no address has had to be forgotten, and an  *)
(* attempt is judged within the tick it began in, no address is admitted   *)
(* more than `count` times within any `period` of any limit, however the   *)
(* attempts, refusals, drops and sweeps of all the connections interleave. *)
THEOREM RatesAreHonoured == Prompt => (Spec => []RateHonoured)
<1> SUFFICES ASSUME Prompt PROVE Spec => []RateHonoured
  OBVIOUS
<1>1. IInv /\ IInv' /\ RateInv /\ [Next]_vars => RateInv'
  BY RateNext DEF IInv
<1>2. RateInv => RateHonoured
  BY DEF RateInv
<1> QED BY InvInit, InvNext, RateInit, <1>1, <1>2, PTL DEF Spec
=============================================================================

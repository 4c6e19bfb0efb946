---------------------------- MODULE H2PairProofs ----------------------------
(***************************************************************************)
(* Proofs about a client and a server of this repository against each      *)
(* other: that flow control credit is conserved between them, for all      *)
(* messages, limits and windows.                                           *)
(*                                                                         *)
(* Each action of an end is shown to keep an account, Balanced: what it    *)
(* took off its wire and what it queued make up for what its windows       *)
(* gained and lost.  From the accounts of the ends follows that of the     *)
(* pair.                                                                   *)
(***************************************************************************)
EXTENDS H2Pair, H2ConnectionProofs

\* A number an end that is `c` may have spoken of: one its side has counted.
Known(e, c, id) == IF PeerOpens(e, id) THEN id <= c.highest ELSE id < c.nextId

\* The window nobody changes: what an end lets in is given back as it is taken,
\* and no SETTINGS on the way asks for another.
Standing(e) ==
    /\ conn[e].recvWindow = InitialWindow /\ conn[e].peerWindow = InitialWindow
    /\ \A id \in DOMAIN conn[e].streams : conn[e].streams[id].recv = InitialWindow
    /\ \A i \in DOMAIN wire[e] :
         wire[e][i].type = "SETTINGS" => wire[e][i].window = InitialWindow

\* An end is told only of streams that the other has counted, so it has counted
\* none that the other is still to open.
Numbered(e) ==
    /\ conn[e].highest < conn[Other(e)].nextId
    /\ \A i \in DOMAIN wire[e] :
         wire[e][i].type \in {"HEADERS", "DATA", "WINDOW"} => Known(Other(e), conn[Other(e)], wire[e][i].id)

\* On a stream the other end is still to hear of, credit was only spent.
Unheard(e) ==
    \A id \in DOMAIN conn[e].streams :
        ~PeerOpens(e, id) /\ id > conn[Other(e)].highest =>
            /\ conn[e].streams[id].send + Amount(wire[Other(e)], "DATA", {id}) = InitialWindow
            /\ Amount(wire[Other(e)], "WINDOW", {id}) = 0

Agreed == \A e \in Endpoints : Standing(e) /\ Numbered(e) /\ Unheard(e)

\* The inductive invariant of the pair.
PairInv ==
    /\ H2Inv
    /\ wire \in [Endpoints -> Seq(AnyFrame)]
    /\ Well => Agreed /\ CreditConserved
-----------------------------------------------------------------------------
(* Octets under way.                                                       *)

\* An octet of `frames` is a place in one of those that count.
LEMMA OctetsMeaning ==
    ASSUME NEW frames, NEW type, NEW ids
    PROVE  \A x : x \in OctetsOf(frames, type, ids) <=>
             \E i \in DOMAIN frames : /\ frames[i].type = type /\ frames[i].id \in ids
                                      /\ x \in {i} \X (1 .. frames[i].size)
BY DEF OctetsOf

LEMMA AmountType ==
    ASSUME NEW frames \in Seq(AnyFrame), NEW type \in {"DATA", "WINDOW"}, NEW ids
    PROVE  IsFiniteSet(OctetsOf(frames, type, ids)) /\ Amount(frames, type, ids) \in Nat
<1> DEFINE chosen == {j \in DOMAIN frames : frames[j].type = type /\ frames[j].id \in ids}
           of(i) == {i} \X (1 .. frames[i].size)
           sets == {of(i) : i \in chosen}
           f == [i \in chosen |-> of(i)]
<1>1. IsFiniteSet(chosen)
  <2>1. IsFiniteSet(1 .. Len(frames))
    BY FS_Interval
  <2>2. chosen \subseteq 1 .. Len(frames)
    OBVIOUS
  <2> QED BY <2>1, <2>2, FS_Subset
<1>2. IsFiniteSet(sets)
  <2>1. f \in Surjection(chosen, sets)
    BY DEF Surjection
  <2> QED BY <1>1, <2>1, FS_Surjection
<1>3. ASSUME NEW i \in chosen PROVE IsFiniteSet(of(i))
  <2>1. frames[i].size \in Nat
    <3>1. frames[i] \in AnyFrame /\ frames[i].type = type
      OBVIOUS
    <3> QED BY <3>1, FrameFields
  <2>2. IsFiniteSet({i})
    BY FS_Singleton
  <2>3. \A n \in Nat : IsFiniteSet(1 .. n)
    BY FS_Interval
  <2> QED BY <2>1, <2>2, <2>3, FS_Product
<1>4. IsFiniteSet(OctetsOf(frames, type, ids))
  <2>1. \A T \in sets : IsFiniteSet(T)
    BY <1>3
  <2> HIDE DEF of
  <2>2. IsFiniteSet(UNION sets)
    BY <1>2, <2>1, FS_UNION
  <2> QED BY <2>2 DEF OctetsOf, of
<1> QED BY <1>4, FS_CardinalityType DEF Amount

\* Frames none of which counts carry nothing.
LEMMA AmountNone ==
    ASSUME NEW frames, NEW type, NEW ids,
           \A i \in DOMAIN frames : ~(frames[i].type = type /\ frames[i].id \in ids)
    PROVE  Amount(frames, type, ids) = 0
<1>1. OctetsOf(frames, type, ids) = {}
  BY OctetsMeaning
<1> QED BY <1>1, FS_EmptySet DEF Amount

\* A frame alone carries its size, if it counts.
LEMMA AmountOne ==
    ASSUME NEW f \in AnyFrame, NEW type \in {"DATA", "WINDOW"}, NEW ids
    PROVE  Amount(<< f >>, type, ids) = IF f.type = type /\ f.id \in ids THEN f.size ELSE 0
<1> DEFINE one == << f >>
<1>1. DOMAIN one = {1} /\ one[1] = f
  OBVIOUS
<1> HIDE DEF one, AnyFrame
<1>2. CASE ~(f.type = type /\ f.id \in ids)
  BY <1>1, <1>2, AmountNone DEF one
<1>3. CASE f.type = type /\ f.id \in ids
  <2> DEFINE n == f.size
             S == OctetsOf(one, type, ids)
             b == [k \in 1 .. n |-> << 1, k >>]
  <2>1. n \in Nat
    BY <1>3, FrameFields
  <2>2. \A x : x \in S <=> x \in {1} \X (1 .. n)
    BY <1>1, <1>3, OctetsMeaning
  <2>3. S = {1} \X (1 .. n)
    BY <2>2
  <2> HIDE DEF n, S
  <2>4. b \in Bijection(1 .. n, S)
    <3>1. b \in [1 .. n -> S]
      BY <2>3
    <3>2. \A k, l \in 1 .. n : b[k] = b[l] => k = l
      OBVIOUS
    <3>3. \A x \in S : \E k \in 1 .. n : b[k] = x
      BY <2>3
    <3> HIDE DEF b
    <3> QED BY <3>1, <3>2, <3>3 DEF Bijection, Injection, Surjection, IsInjective
  <2>5. ExistsBijection(1 .. n, S)
    BY <2>4 DEF ExistsBijection
  <2>6. IsFiniteSet(1 .. n) /\ Cardinality(1 .. n) = n
    BY <2>1, FS_Interval
  <2>7. Cardinality(S) = n
    BY <2>5, <2>6, FS_Bijection
  <2> QED BY <1>3, <2>7 DEF S, n, one, Amount
<1> QED BY <1>2, <1>3

\* What two sequences of frames carry, one behind the other, they carry together.
LEMMA AmountConcat ==
    ASSUME NEW p \in Seq(AnyFrame), NEW q \in Seq(AnyFrame), NEW type \in {"DATA", "WINDOW"}, NEW ids
    PROVE  Amount(p \o q, type, ids) = Amount(p, type, ids) + Amount(q, type, ids)
<1> DEFINE n == Len(p)
           A == OctetsOf(p, type, ids)
           B == OctetsOf(q, type, ids)
           C == OctetsOf(p \o q, type, ids)
           moved(x) == << n + x[1], x[2] >>
           D == {moved(x) : x \in B}
           f == [x \in B |-> moved(x)]
           Counts(frames, i, k) ==
               i \in DOMAIN frames /\ frames[i].type = type /\ frames[i].id \in ids /\ k \in 1 .. frames[i].size
<1>1. /\ \A x : x \in A <=> \E i \in 1 .. n, k \in Int : x = << i, k >> /\ Counts(p, i, k)
      /\ \A x : x \in B <=> \E i \in 1 .. Len(q), k \in Int : x = << i, k >> /\ Counts(q, i, k)
      /\ \A x : x \in C <=> \E i \in 1 .. n + Len(q), k \in Int : x = << i, k >> /\ Counts(p \o q, i, k)
  <2>1. ASSUME NEW s \in Seq(AnyFrame), NEW x
        PROVE  x \in OctetsOf(s, type, ids) <=>
                 \E i \in 1 .. Len(s), k \in Int : x = << i, k >> /\ Counts(s, i, k)
    <3>1. DOMAIN s = 1 .. Len(s) /\ \A i \in 1 .. Len(s) : s[i] \in AnyFrame
      OBVIOUS
    <3>2. \A i \in 1 .. Len(s) : s[i].type = type => s[i].size \in Nat
      BY <3>1, FrameFields
    <3> HIDE DEF AnyFrame
    <3>3. ASSUME x \in OctetsOf(s, type, ids)
          PROVE  \E i \in 1 .. Len(s), k \in Int : x = << i, k >> /\ Counts(s, i, k)
      BY <3>1, <3>2, <3>3, OctetsMeaning
    <3>4. ASSUME NEW i \in 1 .. Len(s), NEW k \in Int, x = << i, k >>, Counts(s, i, k)
          PROVE  x \in OctetsOf(s, type, ids)
      BY <3>1, <3>4, OctetsMeaning
    <3> QED BY <3>3, <3>4
  <2>2. p \o q \in Seq(AnyFrame) /\ Len(p \o q) = n + Len(q)
    OBVIOUS
  <2> HIDE DEF Counts, n
  <2> QED BY <2>1, <2>2 DEF n
<1>2. /\ \A i \in 1 .. n, k \in Int : Counts(p \o q, i, k) <=> Counts(p, i, k)
      /\ \A i \in 1 .. Len(q), k \in Int : Counts(p \o q, n + i, k) <=> Counts(q, i, k)
      /\ \A i \in n + 1 .. n + Len(q) : i - n \in 1 .. Len(q) /\ i = n + (i - n)
      /\ n \in Nat /\ Len(q) \in Nat
  <2> HIDE DEF AnyFrame
  <2>1. n \in Nat /\ Len(q) \in Nat /\ DOMAIN (p \o q) = 1 .. n + Len(q)
    OBVIOUS
  <2>2. \A i \in 1 .. n : (p \o q)[i] = p[i]
    OBVIOUS
  <2>3. \A i \in 1 .. Len(q) : (p \o q)[n + i] = q[i]
    OBVIOUS
  <2> QED BY <2>1, <2>2, <2>3
<1> HIDE DEF Counts, A, B, C, n
<1>3. C = A \cup D
  <2>1. ASSUME NEW x \in C PROVE x \in A \cup D
    <3>1. PICK i \in 1 .. n + Len(q), k \in Int : x = << i, k >> /\ Counts(p \o q, i, k)
      BY <1>1
    <3>2. CASE i \in 1 .. n
      BY <1>1, <1>2, <3>1, <3>2
    <3>3. CASE i \notin 1 .. n
      <4> DEFINE y == << i - n, k >>
      <4>1. i - n \in 1 .. Len(q) /\ i = n + (i - n)
        BY <1>2, <3>3
      <4>2. Counts(q, i - n, k)
        BY <1>2, <3>1, <4>1
      <4>3. y \in B /\ x = moved(y)
        BY <1>1, <3>1, <4>1, <4>2
      <4> QED BY <4>3
    <3> QED BY <3>2, <3>3
  <2>2. ASSUME NEW x \in A PROVE x \in C
    <3>1. PICK i \in 1 .. n, k \in Int : x = << i, k >> /\ Counts(p, i, k)
      BY <1>1
    <3>2. i \in 1 .. n + Len(q) /\ Counts(p \o q, i, k)
      BY <1>2, <3>1
    <3> QED BY <1>1, <3>1, <3>2
  <2>3. ASSUME NEW x \in B PROVE moved(x) \in C
    <3>1. PICK i \in 1 .. Len(q), k \in Int : x = << i, k >> /\ Counts(q, i, k)
      BY <1>1
    <3>2. n + i \in 1 .. n + Len(q) /\ Counts(p \o q, n + i, k) /\ moved(x) = << n + i, k >>
      BY <1>2, <3>1
    <3> QED BY <1>1, <3>1, <3>2
  <2> QED BY <2>1, <2>2, <2>3
<1>4. A \cap D = {}
  <2> SUFFICES ASSUME NEW x \in B, moved(x) \in A PROVE FALSE
    OBVIOUS
  <2>1. PICK i \in 1 .. Len(q), k \in Int : x = << i, k >>
    BY <1>1
  <2>2. PICK j \in 1 .. n, l \in Int : moved(x) = << j, l >>
    BY <1>1
  <2> QED BY <1>2, <2>1, <2>2
<1>5. f \in Bijection(B, D)
  <2>1. f \in Surjection(B, D)
    BY DEF Surjection
  <2>2. ASSUME NEW x \in B, NEW y \in B, f[x] = f[y] PROVE x = y
    <3>1. PICK i \in 1 .. Len(q), k \in Int : x = << i, k >>
      BY <1>1
    <3>2. PICK j \in 1 .. Len(q), l \in Int : y = << j, l >>
      BY <1>1
    <3>3. n + i = n + j /\ k = l
      BY <2>2, <3>1, <3>2
    <3> QED BY <1>2, <3>1, <3>2, <3>3
  <2> QED BY <2>1, <2>2 DEF Bijection, Injection, Surjection, IsInjective
<1>6. IsFiniteSet(A) /\ IsFiniteSet(B)
  BY AmountType DEF A, B
<1>7. IsFiniteSet(D) /\ Cardinality(D) = Cardinality(B)
  <2>1. ExistsBijection(B, D)
    BY <1>5 DEF ExistsBijection
  <2> HIDE DEF D, f
  <2> QED BY <1>6, <2>1, FS_Bijection
<1> HIDE DEF D, f
<1>8. Cardinality(C) = Cardinality(A) + Cardinality(B)
  <2>1. Cardinality(A \cup D) = Cardinality(A) + Cardinality(D) - Cardinality(A \cap D)
    BY <1>6, <1>7, FS_Union
  <2>2. Cardinality(A \cap D) = 0 /\ Cardinality(A) \in Nat /\ Cardinality(D) \in Nat
    BY <1>4, <1>6, <1>7, FS_EmptySet, FS_CardinalityType
  <2> QED BY <1>3, <1>7, <2>1, <2>2
<1> QED BY <1>8 DEF Amount, A, B, C

-----------------------------------------------------------------------------
(* The account of a step.                                                  *)

\* An end that went from `c` to `d` as it took the frames `took` and queued
\* `told` sent what its windows lost, and gave back what it let in; on a stream
\* that is new, nothing was said or heard yet.
Balanced(c, d, took, told) ==
    /\ d.sendWindow + Amount(told, "DATA", Nat) = c.sendWindow + Amount(took, "WINDOW", {0})
    /\ Amount(told, "WINDOW", {0}) = Amount(took, "DATA", Nat)
    /\ d.recvWindow = c.recvWindow /\ d.peerWindow = c.peerWindow
    /\ \A id \in DOMAIN c.streams \cap DOMAIN d.streams :
         /\ d.streams[id].send + Amount(told, "DATA", {id})
              = c.streams[id].send + Amount(took, "WINDOW", {id})
         /\ Amount(told, "WINDOW", {id}) = Amount(took, "DATA", {id})
         /\ d.streams[id].recv = c.streams[id].recv
    /\ \A id \in DOMAIN d.streams \ DOMAIN c.streams :
         /\ d.streams[id].send = InitialWindow /\ d.streams[id].recv = InitialWindow
         /\ Amount(told, "DATA", {id}) = 0 /\ Amount(told, "WINDOW", {id}) = 0
    /\ \A id \in Nat \ DOMAIN c.streams : Amount(took, "DATA", {id}) = 0
    /\ \A i \in DOMAIN told : told[i].type = "SETTINGS" => told[i].window = InitialWindow

\* An end of which nothing more is to be expected.
Over(c) == ~c.open \/ c.error \in Fatal

\* The number of a stream the peer opens is that of a field section it sent.
Told(e, c, d, took) ==
    \/ d.highest = c.highest
    \/ /\ PeerOpens(e, d.highest)
       /\ \E i \in DOMAIN took : took[i].type = "HEADERS" /\ took[i].id = d.highest

\* A step of `e` that took `took` ends the connection or, as long as nobody
\* changes the window, keeps the account.
Accounted(e, took) ==
    /\ Lawful(e)
    /\ \/ Over(conn'[e])
       \/ /\ ~Over(conn[e])
          /\ Standing(e) => /\ Balanced(conn[e], conn'[e], took, out'[e])
                            /\ Told(e, conn[e], conn'[e], took)

\* The two ends, and who opens which streams.
LEMMA TwoEnds ==
    ASSUME NEW e \in Endpoints
    PROVE  /\ Other(e) \in Endpoints /\ Other(e) # e /\ Other(Other(e)) = e
           /\ \A x \in Endpoints : x = e \/ x = Other(e)
           /\ \A id : PeerOpens(Other(e), id) <=> ~PeerOpens(e, id)
<1>1. Endpoints = {"client", "server"} /\ (IsClient[e] <=> e = "client")
      /\ (IsClient[Other(e)] <=> Other(e) = "client")
  BY PairAssumption DEF Other, Client, Server
<1>2. Other(e) = IF e = "client" THEN "server" ELSE "client"
  BY DEF Other, Client, Server
<1>3. IsClient[e] \in BOOLEAN /\ IsClient[Other(e)] \in BOOLEAN
  BY <1>1, <1>2, H2Assumption
<1>4. /\ Other(e) \in Endpoints /\ Other(e) # e /\ Other(Other(e)) = e
      /\ \A x \in Endpoints : x = e \/ x = Other(e)
  BY <1>1, <1>2 DEF Other, Client, Server
<1>5. IsClient[Other(e)] = ~IsClient[e]
  BY <1>1, <1>2, <1>3
<1>6. \A id : PeerOpens(Other(e), id) <=> ~PeerOpens(e, id)
  <2> TAKE id
  <2>1. (id % 2 = 1) \in BOOLEAN
    OBVIOUS
  <2> QED BY <1>3, <1>5, <2>1 DEF PeerOpens
<1> QED BY <1>4, <1>6

\* What is on the way to the ends after a step of one of them.
LEMMA WireAfter ==
    ASSUME PairInv, NEW e \in Endpoints, Lawful(e),
           NEW took \in Seq(AnyFrame), NEW rest \in Seq(AnyFrame), wire[e] = took \o rest,
           Transported([wire EXCEPT ![e] = rest])
    PROVE  LET p == Other(e) IN
           /\ H2Inv' /\ wire' \in [Endpoints -> Seq(AnyFrame)]
           /\ wire'[e] = rest /\ wire'[p] = wire[p] \o out'[e]
           /\ conn'[p] = conn[p] /\ out'[e] \in Seq(AnyFrame) /\ wire[p] \in Seq(AnyFrame)
<1> HIDE DEF AnyFrame, Connection
<1> DEFINE p == Other(e)
<1>1. H2Inv'
  BY LawfulKeeps DEF PairInv
<1>2. p \in Endpoints /\ p # e /\ Other(p) = e /\ \A x \in Endpoints : x = e \/ x = p
  BY TwoEnds
<1>3. /\ conn' = [conn EXCEPT ![e] = conn'[e]]
      /\ out' = [x \in Endpoints |-> IF x = e THEN out'[e] ELSE <<>>]
      /\ out'[e] \in Seq(AnyFrame)
  BY DEF Lawful, AllTruthful
<1>4. conn \in [Endpoints -> Connection] /\ wire \in [Endpoints -> Seq(AnyFrame)]
  BY DEF PairInv, H2Inv
<1> HIDE DEF p
<1>5. conn'[p] = conn[p] /\ out'[p] = <<>>
  BY <1>2, <1>3, <1>4
<1>6. wire' = [x \in Endpoints |-> (IF x = e THEN rest ELSE wire[x]) \o out'[Other(x)]]
  BY <1>4 DEF Transported
<1>7. wire'[e] = rest
  <2>1. wire'[e] = rest \o <<>>
    BY <1>2, <1>5, <1>6 DEF p
  <2> QED BY <2>1
<1>8. wire'[p] = wire[p] \o out'[e] /\ wire[p] \in Seq(AnyFrame)
  BY <1>2, <1>4, <1>6
<1>9. wire[p] \o out'[e] \in Seq(AnyFrame)
  BY <1>3, <1>8
<1>10. wire' \in [Endpoints -> Seq(AnyFrame)]
  <2>1. wire' = [x \in Endpoints |-> wire'[x]]
    BY <1>6
  <2>2. ASSUME NEW x \in Endpoints PROVE wire'[x] \in Seq(AnyFrame)
    BY <1>2, <1>7, <1>8, <1>9
  <2> QED BY <2>1, <2>2
<1> QED BY <1>1, <1>3, <1>5, <1>7, <1>8, <1>10 DEF p

\* What frames carry, before and after a step of `e`, to either end.
LEMMA AmountsAfter ==
    ASSUME PairInv, NEW e \in Endpoints, Lawful(e),
           NEW took \in Seq(AnyFrame), NEW rest \in Seq(AnyFrame), wire[e] = took \o rest,
           Transported([wire EXCEPT ![e] = rest]), NEW type \in {"DATA", "WINDOW"}, NEW ids
    PROVE  LET p == Other(e) IN
           /\ Amount(wire'[p], type, ids) = Amount(wire[p], type, ids) + Amount(out'[e], type, ids)
           /\ Amount(wire[e], type, ids) = Amount(took, type, ids) + Amount(wire'[e], type, ids)
           /\ Amount(wire[p], type, ids) \in Nat /\ Amount(wire'[p], type, ids) \in Nat
           /\ Amount(wire[e], type, ids) \in Nat /\ Amount(wire'[e], type, ids) \in Nat
           /\ Amount(took, type, ids) \in Nat /\ Amount(out'[e], type, ids) \in Nat
<1> DEFINE p == Other(e)
<1>1. /\ wire'[e] = rest /\ wire'[p] = wire[p] \o out'[e]
      /\ out'[e] \in Seq(AnyFrame) /\ wire[p] \in Seq(AnyFrame)
      /\ p \in Endpoints /\ e \in Endpoints /\ wire' \in [Endpoints -> Seq(AnyFrame)]
      /\ wire \in [Endpoints -> Seq(AnyFrame)]
  <2> HIDE DEF AnyFrame
  <2>1. wire \in [Endpoints -> Seq(AnyFrame)]
    BY DEF PairInv
  <2>2. p \in Endpoints
    BY TwoEnds
  <2>3. /\ wire' \in [Endpoints -> Seq(AnyFrame)] /\ wire'[e] = rest /\ out'[e] \in Seq(AnyFrame)
        /\ wire'[p] = wire[p] \o out'[e] /\ wire[p] \in Seq(AnyFrame)
    BY WireAfter, Zenon
  <2> QED BY <2>1, <2>2, <2>3
<1> HIDE DEF p, AnyFrame
<1>2. /\ wire'[e] \in Seq(AnyFrame) /\ wire'[p] \in Seq(AnyFrame) /\ wire[e] \in Seq(AnyFrame)
  BY <1>1
<1>3. Amount(wire[p] \o out'[e], type, ids) = Amount(wire[p], type, ids) + Amount(out'[e], type, ids)
  BY <1>1, AmountConcat
<1>4. Amount(took \o rest, type, ids) = Amount(took, type, ids) + Amount(rest, type, ids)
  BY AmountConcat
<1>5. \A s \in Seq(AnyFrame) : Amount(s, type, ids) \in Nat
  BY AmountType
<1> QED BY <1>1, <1>2, <1>3, <1>4, <1>5 DEF p

\* What of the numbers of an end a step that keeps its account leaves.
LEMMA BalancedFields ==
    ASSUME PairInv, NEW e \in Endpoints, Lawful(e)
    PROVE  /\ {conn[e].sendWindow, conn'[e].sendWindow, conn[e].recvWindow, conn'[e].recvWindow} \subseteq Int
           /\ {conn[e].highest, conn'[e].highest, conn[e].nextId, conn'[e].nextId} \subseteq Nat
           /\ conn[e].highest <= conn'[e].highest /\ conn[e].nextId <= conn'[e].nextId
           /\ DOMAIN conn[e].streams \subseteq Nat /\ DOMAIN conn'[e].streams \subseteq Nat
           /\ \A id \in DOMAIN conn[e].streams :
                conn[e].streams[id].send \in Int /\ conn[e].streams[id].recv \in Int
           /\ \A id \in DOMAIN conn'[e].streams :
                conn'[e].streams[id].send \in Int /\ conn'[e].streams[id].recv \in Int
           /\ \A id \in DOMAIN conn'[e].streams \ DOMAIN conn[e].streams : Newly(e, conn'[e], id)
           /\ \A id \in DOMAIN conn[e].streams : Known(e, conn[e], id)
           /\ \A id \in Nat : Known(e, conn[e], id) => Known(e, conn'[e], id)
<1>1. conn[e] \in Connection /\ conn'[e] \in Connection /\ Ids(e)
  <2>1. H2Inv /\ H2Inv'
    BY LawfulKeeps DEF PairInv
  <2> HIDE DEF Connection
  <2> QED BY <2>1 DEF H2Inv
<1>2. \A c \in Connection : /\ c.sendWindow \in Int /\ c.recvWindow \in Int
                            /\ c.highest \in Nat /\ c.nextId \in Nat /\ c.streams \in Streams
  BY DEF Connection
<1> HIDE DEF Connection
<1>3. ASSUME NEW streams \in Streams
      PROVE  /\ DOMAIN streams \subseteq Nat
             /\ \A id \in DOMAIN streams : streams[id].send \in Int /\ streams[id].recv \in Int
  <2>1. DOMAIN streams \subseteq Nat /\ \A id \in DOMAIN streams : streams[id] \in AnyStream
    BY StreamsMeaning
  <2> QED BY <2>1 DEF AnyStream
<1>4. /\ conn[e].highest <= conn'[e].highest /\ conn[e].nextId <= conn'[e].nextId
      /\ \A id \in DOMAIN conn'[e].streams \ DOMAIN conn[e].streams : Newly(e, conn'[e], id)
  BY DEF Lawful, Onward, Growing
<1>5. \A id \in DOMAIN conn[e].streams : Known(e, conn[e], id)
  BY <1>1 DEF Ids, Known
<1>6. \A id \in Nat : Known(e, conn[e], id) => Known(e, conn'[e], id)
  BY <1>1, <1>2, <1>4 DEF Known
<1> QED BY <1>1, <1>2, <1>3, <1>4, <1>5, <1>6

\* The frames of two sequences, one behind the other, are those of either.
LEMMA ConcatElements ==
    ASSUME NEW s \in Seq(AnyFrame), NEW t \in Seq(AnyFrame)
    PROVE  /\ \A i \in DOMAIN (s \o t) : \/ \E j \in DOMAIN s : (s \o t)[i] = s[j]
                                         \/ \E j \in DOMAIN t : (s \o t)[i] = t[j]
           /\ \A j \in DOMAIN s : j \in DOMAIN (s \o t) /\ (s \o t)[j] = s[j]
           /\ \A j \in DOMAIN t : Len(s) + j \in DOMAIN (s \o t) /\ (s \o t)[Len(s) + j] = t[j]
<1> HIDE DEF AnyFrame
<1>1. ASSUME NEW i \in DOMAIN (s \o t)
      PROVE  \/ \E j \in DOMAIN s : (s \o t)[i] = s[j]
             \/ \E j \in DOMAIN t : (s \o t)[i] = t[j]
  <2>1. CASE i <= Len(s)
    BY <2>1
  <2>2. CASE i > Len(s)
    <3>1. i - Len(s) \in DOMAIN t /\ (s \o t)[i] = t[i - Len(s)]
      BY <2>2
    <3> QED BY <3>1
  <2> QED BY <2>1, <2>2
<1>2. ASSUME NEW j \in DOMAIN s PROVE j \in DOMAIN (s \o t) /\ (s \o t)[j] = s[j]
  OBVIOUS
<1>3. ASSUME NEW j \in DOMAIN t
      PROVE  Len(s) + j \in DOMAIN (s \o t) /\ (s \o t)[Len(s) + j] = t[j]
  OBVIOUS
<1> QED BY <1>1, <1>2, <1>3

\* Nothing is on its way on a stream its sender has not counted.
LEMMA NothingUncounted ==
    ASSUME NEW e \in Endpoints, Numbered(e), NEW id, ~Known(Other(e), conn[Other(e)], id),
           NEW type \in {"DATA", "WINDOW"}
    PROVE  Amount(wire[e], type, {id}) = 0
<1>1. \A i \in DOMAIN wire[e] : ~(wire[e][i].type = type /\ wire[e][i].id \in {id})
  BY DEF Numbered
<1> QED BY <1>1, AmountNone

\* Where the frames on the way after a step of `e` were before it.
LEMMA FramesAfter ==
    ASSUME PairInv, NEW e \in Endpoints, Lawful(e),
           NEW took \in Seq(AnyFrame), NEW rest \in Seq(AnyFrame), wire[e] = took \o rest,
           Transported([wire EXCEPT ![e] = rest])
    PROVE  LET p == Other(e) IN
           /\ \A i \in DOMAIN took : \E j \in DOMAIN wire[e] : took[i] = wire[e][j]
           /\ \A i \in DOMAIN wire'[e] : \E j \in DOMAIN wire[e] : wire'[e][i] = wire[e][j]
           /\ \A i \in DOMAIN wire'[p] : \/ \E j \in DOMAIN wire[p] : wire'[p][i] = wire[p][j]
                                         \/ \E j \in DOMAIN out'[e] : wire'[p][i] = out'[e][j]
<1> HIDE DEF AnyFrame
<1> DEFINE p == Other(e)
<1>1. /\ wire'[e] = rest /\ wire'[p] = wire[p] \o out'[e]
      /\ out'[e] \in Seq(AnyFrame) /\ wire[p] \in Seq(AnyFrame)
  BY WireAfter
<1> HIDE DEF p
<1>2. /\ \A j \in DOMAIN took : j \in DOMAIN wire[e] /\ wire[e][j] = took[j]
      /\ \A j \in DOMAIN rest : Len(took) + j \in DOMAIN wire[e] /\ wire[e][Len(took) + j] = rest[j]
  BY ConcatElements
<1>3. \A i \in DOMAIN wire'[p] : \/ \E j \in DOMAIN wire[p] : wire'[p][i] = wire[p][j]
                                 \/ \E j \in DOMAIN out'[e] : wire'[p][i] = out'[e][j]
  <2> DEFINE s == wire[p]
             t == out'[e]
  <2>1. s \in Seq(AnyFrame) /\ t \in Seq(AnyFrame) /\ wire'[p] = s \o t
    BY <1>1
  <2> HIDE DEF s, t
  <2>2. \A i \in DOMAIN (s \o t) : \/ \E j \in DOMAIN s : (s \o t)[i] = s[j]
                                   \/ \E j \in DOMAIN t : (s \o t)[i] = t[j]
    BY <2>1, ConcatElements
  <2>3. \A i \in DOMAIN wire'[p] : \/ \E j \in DOMAIN s : wire'[p][i] = s[j]
                                   \/ \E j \in DOMAIN t : wire'[p][i] = t[j]
    BY <2>1, <2>2
  <2> QED BY <2>3 DEF s, t
<1> QED BY <1>1, <1>2, <1>3 DEF p

\* What an end queues is of a stream it has counted by then.
LEMMA ToldIsKnown ==
    ASSUME PairInv, NEW e \in Endpoints, Lawful(e), NEW i \in DOMAIN out'[e],
           out'[e][i].type \in {"HEADERS", "DATA", "WINDOW"}
    PROVE  Known(e, conn'[e], out'[e][i].id)
<1> DEFINE id == out'[e][i].id
<1>1. out'[e] \in Seq(AnyFrame) /\ Truthful(e, conn'[e], out'[e][i])
  BY DEF Lawful, AllTruthful
<1>2. id \in Nat
  <2>1. out'[e][i] \in AnyFrame
    BY <1>1
  <2> QED BY <2>1, FrameFields
<1>3. \/ id \in DOMAIN conn[e].streams
      \/ id = 0
      \/ conn[e].nextId <= id /\ id < conn'[e].nextId /\ ~PeerOpens(e, id)
  BY <1>1 DEF Truthful, Speaks
<1>4. conn'[e].nextId > 0 /\ conn'[e].highest \in Nat
  <2>1. H2Inv'
    BY LawfulKeeps DEF PairInv
  <2>2. Ids(e)'
    BY <2>1 DEF H2Inv
  <2>3. conn'[e].nextId > 0
    BY <2>2 DEF Ids
  <2> QED BY <2>3, BalancedFields
<1> HIDE DEF id
<1>5. CASE id \in DOMAIN conn[e].streams
  BY <1>2, <1>5, BalancedFields DEF id
<1>6. CASE id = 0
  BY <1>4, <1>6 DEF id, Known
<1>7. CASE conn[e].nextId <= id /\ id < conn'[e].nextId /\ ~PeerOpens(e, id)
  BY <1>7 DEF id, Known
<1> QED BY <1>3, <1>5, <1>6, <1>7

-----------------------------------------------------------------------------
(* From the account of an end to that of the pair.                         *)

\* A step of `e` that took `took` off its wire and kept its account, between
\* ends that were well and are.
Stepped(e, took, rest) ==
    /\ PairInv /\ Agreed /\ CreditConserved /\ Well
    /\ Lawful(e)
    /\ took \in Seq(AnyFrame) /\ rest \in Seq(AnyFrame) /\ wire[e] = took \o rest
    /\ Transported([wire EXCEPT ![e] = rest])
    /\ Balanced(conn[e], conn'[e], took, out'[e])
    /\ Told(e, conn[e], conn'[e], took)

\* What every such step has in common.
LEMMA SteppedEnds ==
    ASSUME NEW e \in Endpoints, NEW took, NEW rest, Stepped(e, took, rest)
    PROVE  LET p == Other(e) IN
           /\ p \in Endpoints /\ Other(p) = e /\ \A x \in Endpoints : x = e \/ x = p
           /\ \A id : PeerOpens(p, id) <=> ~PeerOpens(e, id)
           /\ conn'[p] = conn[p]
           /\ Standing(e) /\ Standing(p) /\ Numbered(e) /\ Numbered(p) /\ Unheard(e) /\ Unheard(p)
           /\ conn[p].highest \in Nat /\ conn[p].nextId \in Nat
           /\ conn[p].recvWindow \in Int /\ conn[p].sendWindow \in Int
           /\ DOMAIN conn[p].streams \subseteq Nat
           /\ \A id \in DOMAIN conn[p].streams :
                /\ conn[p].streams[id].send \in Int /\ conn[p].streams[id].recv \in Int
                /\ Known(p, conn[p], id)
           /\ \A i \in DOMAIN wire[e] : wire[e][i].type \in {"HEADERS", "DATA", "WINDOW"} => wire[e][i].id \in Nat
           /\ \A i \in DOMAIN wire[p] : wire[p][i].type \in {"HEADERS", "DATA", "WINDOW"} => wire[p][i].id \in Nat
<1> DEFINE p == Other(e)
<1>1. /\ p \in Endpoints /\ Other(p) = e /\ \A x \in Endpoints : x = e \/ x = p
      /\ \A id : PeerOpens(p, id) <=> ~PeerOpens(e, id)
  BY TwoEnds
<1>2. /\ PairInv /\ Lawful(e) /\ Agreed
      /\ took \in Seq(AnyFrame) /\ rest \in Seq(AnyFrame) /\ wire[e] = took \o rest
      /\ Transported([wire EXCEPT ![e] = rest])
  BY DEF Stepped
<1>3. conn'[p] = conn[p]
  <2> HIDE DEF AnyFrame
  <2> QED BY <1>2, WireAfter
<1> HIDE DEF p
<1>4. Standing(e) /\ Standing(p) /\ Numbered(e) /\ Numbered(p) /\ Unheard(e) /\ Unheard(p)
  BY <1>1, <1>2 DEF Agreed
<1>5. conn[p] \in Connection /\ Ids(p) /\ wire[e] \in Seq(AnyFrame) /\ wire[p] \in Seq(AnyFrame)
  <2> HIDE DEF Connection, AnyFrame
  <2> QED BY <1>1, <1>2 DEF PairInv, H2Inv
<1>6. \A c \in Connection : /\ c.sendWindow \in Int /\ c.recvWindow \in Int
                            /\ c.highest \in Nat /\ c.nextId \in Nat /\ c.streams \in Streams
  BY DEF Connection
<1> HIDE DEF Connection
<1>7. \A streams \in Streams :
          /\ DOMAIN streams \subseteq Nat
          /\ \A id \in DOMAIN streams : streams[id].send \in Int /\ streams[id].recv \in Int
  <2> TAKE streams \in Streams
  <2>1. DOMAIN streams \subseteq Nat /\ \A id \in DOMAIN streams : streams[id] \in AnyStream
    BY StreamsMeaning
  <2> QED BY <2>1 DEF AnyStream
<1>8. \A id \in DOMAIN conn[p].streams : Known(p, conn[p], id)
  BY <1>5 DEF Ids, Known
<1>9. \A s \in Seq(AnyFrame) : \A i \in DOMAIN s :
          s[i].type \in {"HEADERS", "DATA", "WINDOW"} => s[i].id \in Nat
  <2> TAKE s \in Seq(AnyFrame)
  <2> TAKE i \in DOMAIN s
  <2>1. s[i] \in AnyFrame
    OBVIOUS
  <2> HIDE DEF AnyFrame
  <2> QED BY <2>1, FrameFields
<1> HIDE DEF AnyFrame
<1> QED BY <1>1, <1>3, <1>4, <1>5, <1>6, <1>7, <1>8, <1>9 DEF p

LEMMA StandingKept ==
    ASSUME NEW e \in Endpoints, NEW took, NEW rest, Stepped(e, took, rest)
    PROVE  Standing(e)' /\ Standing(Other(e))'
<1> HIDE DEF AnyFrame
<1> DEFINE p == Other(e)
<1>1. conn'[p] = conn[p] /\ Standing(e) /\ Standing(p)
  BY SteppedEnds
<1>2. /\ PairInv /\ Lawful(e)
      /\ took \in Seq(AnyFrame) /\ rest \in Seq(AnyFrame) /\ wire[e] = took \o rest
      /\ Transported([wire EXCEPT ![e] = rest]) /\ Balanced(conn[e], conn'[e], took, out'[e])
  BY DEF Stepped
<1>3. /\ \A i \in DOMAIN wire'[e] : \E j \in DOMAIN wire[e] : wire'[e][i] = wire[e][j]
      /\ \A i \in DOMAIN wire'[p] : \/ \E j \in DOMAIN wire[p] : wire'[p][i] = wire[p][j]
                                    \/ \E j \in DOMAIN out'[e] : wire'[p][i] = out'[e][j]
  BY <1>2, FramesAfter
<1> HIDE DEF p
<1>4. Standing(e)'
  <2>1. /\ conn'[e].recvWindow = InitialWindow /\ conn'[e].peerWindow = InitialWindow
        /\ \A id \in DOMAIN conn'[e].streams : conn'[e].streams[id].recv = InitialWindow
    BY <1>1, <1>2 DEF Standing, Balanced
  <2>2. \A i \in DOMAIN wire'[e] :
            wire'[e][i].type = "SETTINGS" => wire'[e][i].window = InitialWindow
    BY <1>1, <1>3 DEF Standing
  <2> QED BY <2>1, <2>2 DEF Standing
<1>5. Standing(p)'
  <2>1. \A i \in DOMAIN wire'[p] :
            wire'[p][i].type = "SETTINGS" => wire'[p][i].window = InitialWindow
    BY <1>1, <1>2, <1>3 DEF Standing, Balanced
  <2> QED BY <1>1, <2>1 DEF Standing, p
<1> QED BY <1>4, <1>5 DEF p

LEMMA NumberedKept ==
    ASSUME NEW e \in Endpoints, NEW took, NEW rest, Stepped(e, took, rest)
    PROVE  Numbered(e)' /\ Numbered(Other(e))'
<1> HIDE DEF AnyFrame, PeerOpens
<1> DEFINE p == Other(e)
           Of(f) == f.type \in {"HEADERS", "DATA", "WINDOW"}
<1>1. /\ p \in Endpoints /\ Other(p) = e /\ conn'[p] = conn[p] /\ Numbered(e) /\ Numbered(p)
      /\ conn[p].highest \in Nat /\ conn[p].nextId \in Nat
      /\ \A id : PeerOpens(p, id) <=> ~PeerOpens(e, id)
      /\ \A i \in DOMAIN wire[p] : Of(wire[p][i]) => wire[p][i].id \in Nat
  BY SteppedEnds
<1>2. /\ PairInv /\ Lawful(e)
      /\ took \in Seq(AnyFrame) /\ rest \in Seq(AnyFrame) /\ wire[e] = took \o rest
      /\ Transported([wire EXCEPT ![e] = rest]) /\ Told(e, conn[e], conn'[e], took)
  BY DEF Stepped
<1>3. /\ \A i \in DOMAIN took : \E j \in DOMAIN wire[e] : took[i] = wire[e][j]
      /\ \A i \in DOMAIN wire'[e] : \E j \in DOMAIN wire[e] : wire'[e][i] = wire[e][j]
      /\ \A i \in DOMAIN wire'[p] : \/ \E j \in DOMAIN wire[p] : wire'[p][i] = wire[p][j]
                                    \/ \E j \in DOMAIN out'[e] : wire'[p][i] = out'[e][j]
  BY <1>2, FramesAfter
<1>4. /\ {conn[e].nextId, conn'[e].nextId} \subseteq Nat /\ conn[e].nextId <= conn'[e].nextId
      /\ \A id \in Nat : Known(e, conn[e], id) => Known(e, conn'[e], id)
  BY <1>2, BalancedFields
<1>5. \A i \in DOMAIN out'[e] : Of(out'[e][i]) => Known(e, conn'[e], out'[e][i].id)
  BY <1>2, ToldIsKnown
<1> HIDE DEF p
<1>6. \A i \in DOMAIN wire[e] : Of(wire[e][i]) => Known(p, conn[p], wire[e][i].id)
  BY <1>1 DEF Numbered, p
<1>7. conn'[e].highest < conn[p].nextId
  <2>1. CASE conn'[e].highest = conn[e].highest
    BY <1>1, <2>1 DEF Numbered, p
  <2>2. CASE conn'[e].highest # conn[e].highest
    <3>1. PICK i \in DOMAIN took : took[i].type = "HEADERS" /\ took[i].id = conn'[e].highest
      BY <1>2, <2>2 DEF Told
    <3>2. Known(p, conn[p], conn'[e].highest)
      BY <1>3, <1>6, <3>1
    <3>3. ~PeerOpens(p, conn'[e].highest)
      BY <1>1, <1>2, <2>2 DEF Told
    <3> QED BY <3>2, <3>3 DEF Known
  <2> QED BY <2>1, <2>2
<1>8. Numbered(e)'
  <2>1. \A i \in DOMAIN wire'[e] : Of(wire'[e][i]) => Known(p, conn[p], wire'[e][i].id)
    BY <1>3, <1>6
  <2>2. conn'[e].highest < conn'[p].nextId
    BY <1>1, <1>7
  <2>3. \A i \in DOMAIN wire'[e] : Of(wire'[e][i]) => Known(p, conn'[p], wire'[e][i].id)
    BY <1>1, <2>1
  <2> QED BY <2>2, <2>3 DEF Numbered, p, Known
<1>9. Numbered(p)'
  <2>1. conn'[p].highest < conn'[e].nextId
    BY <1>1, <1>4 DEF Numbered
  <2>2. \A i \in DOMAIN wire[p] : Of(wire[p][i]) => Known(e, conn'[e], wire[p][i].id)
    BY <1>1, <1>4 DEF Numbered
  <2>3. \A i \in DOMAIN wire'[p] : Of(wire'[p][i]) => Known(e, conn'[e], wire'[p][i].id)
    BY <1>3, <1>5, <2>2
  <2> QED BY <1>1, <2>1, <2>3 DEF Numbered, Known
<1> QED BY <1>8, <1>9 DEF p

\* What a step that keeps its account does to what is under way on a stream.
LEMMA SteppedAmounts ==
    ASSUME NEW e \in Endpoints, NEW took, NEW rest, Stepped(e, took, rest),
           NEW type \in {"DATA", "WINDOW"}, NEW ids
    PROVE  LET p == Other(e) IN
           /\ Amount(wire'[p], type, ids) = Amount(wire[p], type, ids) + Amount(out'[e], type, ids)
           /\ Amount(wire[e], type, ids) = Amount(took, type, ids) + Amount(wire'[e], type, ids)
           /\ Amount(wire[p], type, ids) \in Nat /\ Amount(wire'[p], type, ids) \in Nat
           /\ Amount(wire[e], type, ids) \in Nat /\ Amount(wire'[e], type, ids) \in Nat
           /\ Amount(took, type, ids) \in Nat /\ Amount(out'[e], type, ids) \in Nat
<1> HIDE DEF AnyFrame
<1>1. /\ PairInv /\ Lawful(e)
      /\ took \in Seq(AnyFrame) /\ rest \in Seq(AnyFrame) /\ wire[e] = took \o rest
      /\ Transported([wire EXCEPT ![e] = rest])
  BY DEF Stepped
<1> QED BY <1>1, AmountsAfter, Zenon

LEMMA UnheardKept ==
    ASSUME NEW e \in Endpoints, NEW took, NEW rest, Stepped(e, took, rest)
    PROVE  Unheard(e)' /\ Unheard(Other(e))'
<1> HIDE DEF AnyFrame, PeerOpens
<1> DEFINE p == Other(e)
           D(frames, id) == Amount(frames, "DATA", {id})
           W(frames, id) == Amount(frames, "WINDOW", {id})
<1>1. /\ p \in Endpoints /\ Other(p) = e /\ conn'[p] = conn[p]
      /\ Numbered(e) /\ Numbered(p) /\ Unheard(e) /\ Unheard(p)
      /\ conn[p].highest \in Nat /\ conn[p].nextId \in Nat
      /\ \A id : PeerOpens(p, id) <=> ~PeerOpens(e, id)
      /\ DOMAIN conn[p].streams \subseteq Nat
      /\ \A id \in DOMAIN conn[p].streams : conn[p].streams[id].send \in Int
  BY SteppedEnds
<1>2. PairInv /\ Lawful(e) /\ Balanced(conn[e], conn'[e], took, out'[e])
  BY DEF Stepped
<1>3. /\ {conn[e].highest, conn'[e].highest, conn[e].nextId, conn'[e].nextId} \subseteq Nat
      /\ conn[e].highest <= conn'[e].highest
      /\ DOMAIN conn[e].streams \subseteq Nat /\ DOMAIN conn'[e].streams \subseteq Nat
      /\ \A id \in DOMAIN conn[e].streams : conn[e].streams[id].send \in Int
      /\ \A id \in DOMAIN conn'[e].streams : conn'[e].streams[id].send \in Int
      /\ \A id \in DOMAIN conn'[e].streams \ DOMAIN conn[e].streams : Newly(e, conn'[e], id)
      /\ \A id \in DOMAIN conn[e].streams : Known(e, conn[e], id)
  BY <1>2, BalancedFields
<1>4. \A id : /\ D(wire'[p], id) = D(wire[p], id) + D(out'[e], id)
              /\ D(wire[e], id) = D(took, id) + D(wire'[e], id)
              /\ D(wire[p], id) \in Nat /\ D(wire'[e], id) \in Nat
              /\ D(took, id) \in Nat /\ D(out'[e], id) \in Nat
  BY SteppedAmounts
<1>5. \A id : /\ W(wire'[p], id) = W(wire[p], id) + W(out'[e], id)
              /\ W(wire[e], id) = W(took, id) + W(wire'[e], id)
              /\ W(wire[p], id) \in Nat /\ W(wire'[e], id) \in Nat
              /\ W(took, id) \in Nat /\ W(out'[e], id) \in Nat
  BY SteppedAmounts
<1>6. /\ \A id : ~Known(p, conn[p], id) => D(wire[e], id) = 0 /\ W(wire[e], id) = 0
      /\ \A id : ~Known(e, conn[e], id) => D(wire[p], id) = 0 /\ W(wire[p], id) = 0
  BY <1>1, NothingUncounted
<1>7. /\ \A id \in DOMAIN conn[e].streams \cap DOMAIN conn'[e].streams :
           /\ conn'[e].streams[id].send + D(out'[e], id) = conn[e].streams[id].send + W(took, id)
           /\ W(out'[e], id) = D(took, id)
      /\ \A id \in DOMAIN conn'[e].streams \ DOMAIN conn[e].streams :
           conn'[e].streams[id].send = InitialWindow /\ D(out'[e], id) = 0 /\ W(out'[e], id) = 0
      /\ \A id \in Nat \ DOMAIN conn[e].streams : D(took, id) = 0
  BY <1>2 DEF Balanced
<1>8. /\ \A id \in DOMAIN conn[e].streams : ~PeerOpens(e, id) /\ id > conn[p].highest =>
           conn[e].streams[id].send + D(wire[p], id) = InitialWindow /\ W(wire[p], id) = 0
      /\ \A id \in DOMAIN conn[p].streams : ~PeerOpens(p, id) /\ id > conn[e].highest =>
           conn[p].streams[id].send + D(wire[e], id) = InitialWindow /\ W(wire[e], id) = 0
  BY <1>1 DEF Unheard
<1> HIDE DEF D, W, p
<1>9. ASSUME NEW id \in DOMAIN conn'[e].streams, ~PeerOpens(e, id), id > conn[p].highest
      PROVE  conn'[e].streams[id].send + D(wire'[p], id) = InitialWindow /\ W(wire'[p], id) = 0
  <2>1. id \in Nat /\ conn'[e].streams[id].send \in Int
    BY <1>3
  <2>2. CASE id \in DOMAIN conn[e].streams
    <3>1. conn[e].streams[id].send \in Int
      BY <1>3, <2>2
    <3>2. ~Known(p, conn[p], id)
      BY <1>1, <1>9, <2>1 DEF Known
    <3>3. D(took, id) = 0 /\ W(took, id) = 0
      BY <1>4, <1>5, <1>6, <3>2
    <3>4. conn[e].streams[id].send + D(wire[p], id) = InitialWindow /\ W(wire[p], id) = 0
      BY <1>8, <1>9, <2>2
    <3> QED BY <1>4, <1>5, <1>7, <2>1, <2>2, <3>1, <3>3, <3>4
  <2>3. CASE id \notin DOMAIN conn[e].streams
    <3>1. ~Known(e, conn[e], id)
      BY <1>3, <1>9, <2>1, <2>3 DEF Known, Newly
    <3>2. D(wire[p], id) = 0 /\ W(wire[p], id) = 0
      BY <1>6, <3>1
    <3>3. conn'[e].streams[id].send = InitialWindow /\ D(out'[e], id) = 0 /\ W(out'[e], id) = 0
      BY <1>7, <1>9, <2>3
    <3>4. D(wire'[p], id) = 0 /\ W(wire'[p], id) = 0
      BY <1>4, <1>5, <3>2, <3>3
    <3> QED BY <2>1, <3>3, <3>4
  <2> QED BY <2>2, <2>3
<1>10. ASSUME NEW id \in DOMAIN conn[p].streams, ~PeerOpens(p, id), id > conn'[e].highest
       PROVE  conn[p].streams[id].send + D(wire'[e], id) = InitialWindow /\ W(wire'[e], id) = 0
  <2>1. id \in Nat /\ id > conn[e].highest
    BY <1>1, <1>3, <1>10
  <2>2. id \notin DOMAIN conn[e].streams
    BY <1>1, <1>3, <1>10, <2>1 DEF Known
  <2>3. D(took, id) = 0
    BY <1>7, <2>1, <2>2
  <2>4. conn[p].streams[id].send + D(wire[e], id) = InitialWindow /\ W(wire[e], id) = 0
    BY <1>8, <1>10, <2>1
  <2> QED BY <1>1, <1>4, <1>5, <2>3, <2>4
<1>11. Unheard(e)'
  <2>1. \A id \in DOMAIN conn'[e].streams : ~PeerOpens(e, id) /\ id > conn'[p].highest =>
          conn'[e].streams[id].send + D(wire'[p], id) = InitialWindow /\ W(wire'[p], id) = 0
    BY <1>1, <1>9
  <2> QED BY <2>1 DEF Unheard, D, W, p, PeerOpens
<1>12. Unheard(p)'
  <2>1. \A id \in DOMAIN conn'[p].streams : ~PeerOpens(p, id) /\ id > conn'[e].highest =>
          conn'[p].streams[id].send + D(wire'[e], id) = InitialWindow /\ W(wire'[e], id) = 0
    BY <1>1, <1>10
  <2> QED BY <1>1, <2>1 DEF Unheard, D, W, PeerOpens
<1> QED BY <1>11, <1>12 DEF p

\* The credit between the ends, in the direction of the octets `e` sends.
CreditFrom(e) ==
    LET p == Other(e) IN
    /\ conn[e].sendWindow + Amount(wire[p], "DATA", Nat) + Amount(wire[e], "WINDOW", {0})
         = conn[p].recvWindow
    /\ \A id \in DOMAIN conn[e].streams \cap DOMAIN conn[p].streams :
         conn[e].streams[id].send + Amount(wire[p], "DATA", {id}) + Amount(wire[e], "WINDOW", {id})
           = conn[p].streams[id].recv

LEMMA CreditKept ==
    ASSUME NEW e \in Endpoints, NEW took, NEW rest, Stepped(e, took, rest)
    PROVE  CreditFrom(e)' /\ CreditFrom(Other(e))'
<1> HIDE DEF AnyFrame, PeerOpens
<1> DEFINE p == Other(e)
           D(frames, id) == Amount(frames, "DATA", {id})
           W(frames, id) == Amount(frames, "WINDOW", {id})
           All(frames) == Amount(frames, "DATA", Nat)
<1>1. /\ p \in Endpoints /\ Other(p) = e /\ conn'[p] = conn[p]
      /\ Numbered(p) /\ Standing(e) /\ Standing(p) /\ Unheard(e) /\ Unheard(p)
      /\ conn[p].highest \in Nat /\ conn[p].nextId \in Nat
      /\ conn[p].sendWindow \in Int /\ conn[p].recvWindow \in Int
      /\ \A id : PeerOpens(p, id) <=> ~PeerOpens(e, id)
      /\ DOMAIN conn[p].streams \subseteq Nat
      /\ \A id \in DOMAIN conn[p].streams :
           /\ conn[p].streams[id].send \in Int /\ conn[p].streams[id].recv \in Int
           /\ Known(p, conn[p], id)
  BY SteppedEnds
<1>2. PairInv /\ Lawful(e) /\ Balanced(conn[e], conn'[e], took, out'[e]) /\ Well /\ CreditConserved
  BY DEF Stepped
<1>3. /\ {conn[e].sendWindow, conn'[e].sendWindow, conn[e].recvWindow, conn'[e].recvWindow} \subseteq Int
      /\ {conn[e].highest, conn'[e].highest, conn[e].nextId, conn'[e].nextId} \subseteq Nat
      /\ DOMAIN conn[e].streams \subseteq Nat /\ DOMAIN conn'[e].streams \subseteq Nat
      /\ \A id \in DOMAIN conn[e].streams :
           conn[e].streams[id].send \in Int /\ conn[e].streams[id].recv \in Int
      /\ \A id \in DOMAIN conn'[e].streams :
           conn'[e].streams[id].send \in Int /\ conn'[e].streams[id].recv \in Int
      /\ \A id \in DOMAIN conn'[e].streams \ DOMAIN conn[e].streams : Newly(e, conn'[e], id)
  BY <1>2, BalancedFields
<1>4. \A id : /\ D(wire'[p], id) = D(wire[p], id) + D(out'[e], id)
              /\ D(wire[e], id) = D(took, id) + D(wire'[e], id)
              /\ D(wire[p], id) \in Nat /\ D(wire'[e], id) \in Nat
              /\ D(took, id) \in Nat /\ D(out'[e], id) \in Nat
  BY SteppedAmounts
<1>5. \A id : /\ W(wire'[p], id) = W(wire[p], id) + W(out'[e], id)
              /\ W(wire[e], id) = W(took, id) + W(wire'[e], id)
              /\ W(wire[p], id) \in Nat /\ W(wire'[e], id) \in Nat
              /\ W(took, id) \in Nat /\ W(out'[e], id) \in Nat
  BY SteppedAmounts
<1>6. /\ All(wire'[p]) = All(wire[p]) + All(out'[e]) /\ All(wire[e]) = All(took) + All(wire'[e])
      /\ All(wire[p]) \in Nat /\ All(wire'[e]) \in Nat /\ All(took) \in Nat /\ All(out'[e]) \in Nat
  BY SteppedAmounts
<1>7. \A id : ~Known(e, conn[e], id) => D(wire[p], id) = 0 /\ W(wire[p], id) = 0
  BY <1>1, NothingUncounted
<1>8. /\ conn'[e].sendWindow + All(out'[e]) = conn[e].sendWindow + W(took, 0)
      /\ W(out'[e], 0) = All(took) /\ conn'[e].recvWindow = conn[e].recvWindow
      /\ \A id \in DOMAIN conn[e].streams \cap DOMAIN conn'[e].streams :
           /\ conn'[e].streams[id].send + D(out'[e], id) = conn[e].streams[id].send + W(took, id)
           /\ W(out'[e], id) = D(took, id)
           /\ conn'[e].streams[id].recv = conn[e].streams[id].recv
      /\ \A id \in DOMAIN conn'[e].streams \ DOMAIN conn[e].streams :
           /\ conn'[e].streams[id].send = InitialWindow /\ conn'[e].streams[id].recv = InitialWindow
           /\ D(out'[e], id) = 0 /\ W(out'[e], id) = 0
      /\ \A id \in Nat \ DOMAIN conn[e].streams : D(took, id) = 0
  BY <1>2 DEF Balanced
<1>9. \A id \in DOMAIN conn[p].streams : ~PeerOpens(p, id) /\ id > conn[e].highest =>
           conn[p].streams[id].send + D(wire[e], id) = InitialWindow /\ W(wire[e], id) = 0
  BY <1>1 DEF Unheard
<1>10. /\ conn[e].sendWindow + All(wire[p]) + W(wire[e], 0) = conn[p].recvWindow
       /\ conn[p].sendWindow + All(wire[e]) + W(wire[p], 0) = conn[e].recvWindow
       /\ \A id \in DOMAIN conn[e].streams \cap DOMAIN conn[p].streams :
            /\ conn[e].streams[id].send + D(wire[p], id) + W(wire[e], id) = conn[p].streams[id].recv
            /\ conn[p].streams[id].send + D(wire[e], id) + W(wire[p], id) = conn[e].streams[id].recv
  BY <1>1, <1>2 DEF CreditConserved
<1>11. \A id \in DOMAIN conn[p].streams : conn[p].streams[id].recv = InitialWindow
  BY <1>1 DEF Standing
<1>12. conn[p].highest < conn[e].nextId
  BY <1>1 DEF Numbered
<1> HIDE DEF D, W, All, p
<1>13. /\ conn'[e].sendWindow + All(wire'[p]) + W(wire'[e], 0) = conn[p].recvWindow
       /\ conn[p].sendWindow + All(wire'[e]) + W(wire'[p], 0) = conn'[e].recvWindow
  BY <1>1, <1>3, <1>5, <1>6, <1>8, <1>10
<1>14. ASSUME NEW id \in DOMAIN conn'[e].streams \cap DOMAIN conn[p].streams
       PROVE  /\ conn'[e].streams[id].send + D(wire'[p], id) + W(wire'[e], id)
                   = conn[p].streams[id].recv
              /\ conn[p].streams[id].send + D(wire'[e], id) + W(wire'[p], id)
                   = conn'[e].streams[id].recv
  <2>1. /\ id \in Nat /\ conn'[e].streams[id].send \in Int /\ conn'[e].streams[id].recv \in Int
        /\ conn[p].streams[id].send \in Int /\ conn[p].streams[id].recv \in Int
    BY <1>1, <1>3, <1>14
  <2>2. CASE id \in DOMAIN conn[e].streams
    <3>1. /\ conn[e].streams[id].send \in Int /\ conn[e].streams[id].recv \in Int
      BY <1>3, <2>2
    <3>2. /\ conn'[e].streams[id].send + D(out'[e], id) = conn[e].streams[id].send + W(took, id)
          /\ W(out'[e], id) = D(took, id)
          /\ conn'[e].streams[id].recv = conn[e].streams[id].recv
      BY <1>8, <1>14, <2>2
    <3>3. /\ conn[e].streams[id].send + D(wire[p], id) + W(wire[e], id) = conn[p].streams[id].recv
          /\ conn[p].streams[id].send + D(wire[e], id) + W(wire[p], id) = conn[e].streams[id].recv
      BY <1>10, <1>14, <2>2
    <3> QED BY <1>4, <1>5, <2>1, <3>1, <3>2, <3>3
  <2>3. CASE id \notin DOMAIN conn[e].streams
    <3>1. Newly(e, conn'[e], id) /\ Known(p, conn[p], id)
      BY <1>1, <1>3, <1>14, <2>3
    <3>2. PeerOpens(e, id) /\ ~PeerOpens(p, id)
      BY <1>1, <1>3, <1>12, <2>1, <3>1 DEF Newly, Known
    <3>3. conn[e].highest < id
      BY <3>1, <3>2 DEF Newly
    <3>4. ~Known(e, conn[e], id)
      BY <1>3, <2>1, <3>2, <3>3 DEF Known
    <3>5. conn[p].streams[id].send + D(wire[e], id) = InitialWindow /\ W(wire[e], id) = 0
      BY <1>9, <1>14, <3>2, <3>3
    <3>6. D(wire[p], id) = 0 /\ W(wire[p], id) = 0 /\ D(took, id) = 0
      BY <1>7, <1>8, <2>1, <2>3, <3>4
    <3>7. /\ conn'[e].streams[id].send = InitialWindow /\ conn'[e].streams[id].recv = InitialWindow
          /\ D(out'[e], id) = 0 /\ W(out'[e], id) = 0
      BY <1>8, <1>14, <2>3
    <3>8. conn[p].streams[id].recv = InitialWindow /\ InitialWindow \in Int
      BY <1>11, <1>14, H2Assumption
    <3>9. D(wire'[p], id) = 0 /\ W(wire'[p], id) = 0 /\ D(wire'[e], id) = D(wire[e], id)
      BY <1>4, <1>5, <3>6, <3>7
    <3>10. W(wire'[e], id) = 0
      BY <1>5, <3>5
    <3> QED BY <1>4, <2>1, <3>5, <3>7, <3>8, <3>9, <3>10
  <2> QED BY <2>2, <2>3
<1>15. CreditFrom(e)'
  <2>1. /\ conn'[e].sendWindow + All(wire'[p]) + W(wire'[e], 0) = conn'[p].recvWindow
        /\ \A id \in DOMAIN conn'[e].streams \cap DOMAIN conn'[p].streams :
             conn'[e].streams[id].send + D(wire'[p], id) + W(wire'[e], id) = conn'[p].streams[id].recv
    BY <1>1, <1>13, <1>14
  <2> QED BY <2>1 DEF CreditFrom, D, W, All, p
<1>16. CreditFrom(p)'
  <2>1. /\ conn'[p].sendWindow + All(wire'[e]) + W(wire'[p], 0) = conn'[e].recvWindow
        /\ \A id \in DOMAIN conn'[p].streams \cap DOMAIN conn'[e].streams :
             conn'[p].streams[id].send + D(wire'[e], id) + W(wire'[p], id) = conn'[e].streams[id].recv
    BY <1>1, <1>13, <1>14
  <2> QED BY <1>1, <2>1 DEF CreditFrom, D, W, All
<1> QED BY <1>15, <1>16 DEF p

\* A step of `e` that keeps its account, or ends the connection, keeps the
\* invariant of the pair.
LEMMA AccountKeeps ==
    ASSUME PairInv, NEW e \in Endpoints, NEW took \in Seq(AnyFrame), NEW rest \in Seq(AnyFrame),
           Accounted(e, took), wire[e] = took \o rest, Transported([wire EXCEPT ![e] = rest])
    PROVE  PairInv'
<1> HIDE DEF AnyFrame, Connection
<1> DEFINE p == Other(e)
<1>1. Lawful(e)
  BY DEF Accounted
<1>2. H2Inv' /\ wire' \in [Endpoints -> Seq(AnyFrame)] /\ conn'[p] = conn[p]
  BY <1>1, WireAfter
<1>3. p \in Endpoints /\ \A x \in Endpoints : x = e \/ x = p
  BY TwoEnds
<1>4. ASSUME Well' PROVE Agreed' /\ CreditConserved'
  <2>1. \A x \in Endpoints : conn'[x].open /\ conn'[x].error \notin Fatal
    BY <1>4 DEF Well, Failed, Fatal
  <2>2. /\ conn[e].open /\ conn[e].error \notin Fatal
        /\ Standing(e) => /\ Balanced(conn[e], conn'[e], took, out'[e])
                          /\ Told(e, conn[e], conn'[e], took)
    BY <2>1 DEF Accounted, Over
  <2>3. Well
    <3>1. conn[p].open /\ conn[p].error \notin Fatal
      BY <1>2, <1>3, <2>1
    <3> HIDE DEF p
    <3> QED BY <1>3, <2>2, <3>1 DEF Well, Failed, Fatal
  <2>4. Agreed /\ CreditConserved /\ Standing(e)
    BY <2>3 DEF PairInv, Agreed
  <2>5. Stepped(e, took, rest)
    BY <1>1, <2>2, <2>3, <2>4 DEF Stepped
  <2>6. Standing(e)' /\ Standing(p)' /\ Numbered(e)' /\ Numbered(p)' /\ Unheard(e)' /\ Unheard(p)'
    BY <2>5, StandingKept, NumberedKept, UnheardKept
  <2>7. CreditFrom(e)' /\ CreditFrom(p)'
    BY <2>5, CreditKept
  <2> HIDE DEF p
  <2>8. Agreed'
    <3>1. \A x \in Endpoints : (Standing(x) /\ Numbered(x) /\ Unheard(x))'
      BY <1>3, <2>6
    <3> QED BY <3>1 DEF Agreed
  <2>9. CreditConserved'
    <3>1. \A x \in Endpoints : CreditFrom(x)'
      BY <1>3, <2>7
    <3> QED BY <3>1 DEF CreditConserved, CreditFrom
  <2> QED BY <2>8, <2>9
<1> QED BY <1>2, <1>4 DEF PairInv

-----------------------------------------------------------------------------
(* The account of a step that moves no credit.                             *)

\* `d` is `c` with streams taken out, and all windows as they were.
Shrunk(c, d) ==
    /\ d.sendWindow = c.sendWindow /\ d.recvWindow = c.recvWindow /\ d.peerWindow = c.peerWindow
    /\ d.highest = c.highest
    /\ DOMAIN d.streams \subseteq DOMAIN c.streams
    /\ \A id \in DOMAIN d.streams :
         d.streams[id].send = c.streams[id].send /\ d.streams[id].recv = c.streams[id].recv

\* Frames that neither carry nor grant, and ask for no other window.
Uneventful(frames) ==
    \A i \in DOMAIN frames :
        /\ frames[i].type \notin {"DATA", "WINDOW"}
        /\ frames[i].type = "SETTINGS" => frames[i].window = InitialWindow

\* The step of `e` left it `c`, but for streams taken out, and queued `frames`.
Became(e, c, frames) == Shrunk(c, conn'[e]) /\ out'[e] = frames

LEMMA ShrunkTwice ==
    ASSUME NEW b, NEW c, NEW d, Shrunk(b, c), Shrunk(c, d)
    PROVE  Shrunk(b, d)
BY DEF Shrunk

\* An account is kept on taking streams out.
LEMMA ShrunkBalanced ==
    ASSUME NEW e, NEW b, NEW c, NEW d, NEW took, NEW told, Shrunk(c, d),
           Balanced(b, c, took, told), Told(e, b, c, took)
    PROVE  Balanced(b, d, took, told) /\ Told(e, b, d, took)
<1>1. Told(e, b, d, took)
  BY DEF Told, Shrunk
<1>2. Balanced(b, d, took, told)
  BY DEF Balanced, Shrunk
<1> QED BY <1>1, <1>2

LEMMA UneventfulAmounts ==
    ASSUME NEW frames, Uneventful(frames), NEW type \in {"DATA", "WINDOW"}, NEW ids
    PROVE  Amount(frames, type, ids) = 0
<1>1. \A i \in DOMAIN frames : ~(frames[i].type = type /\ frames[i].id \in ids)
  BY DEF Uneventful
<1> QED BY <1>1, AmountNone

\* Windows kept, with streams that begin at the window nobody changes.
LEMMA UneventfulBalanced ==
    ASSUME NEW c \in Connection, NEW d,
           d.sendWindow = c.sendWindow, d.recvWindow = c.recvWindow, d.peerWindow = c.peerWindow,
           \A id \in DOMAIN c.streams \cap DOMAIN d.streams :
             d.streams[id].send = c.streams[id].send /\ d.streams[id].recv = c.streams[id].recv,
           \A id \in DOMAIN d.streams \ DOMAIN c.streams :
             d.streams[id].send = InitialWindow /\ d.streams[id].recv = InitialWindow,
           NEW took, NEW told, Uneventful(took), Uneventful(told)
    PROVE  Balanced(c, d, took, told)
<1>1. /\ \A ids : Amount(took, "DATA", ids) = 0 /\ Amount(took, "WINDOW", ids) = 0
      /\ \A ids : Amount(told, "DATA", ids) = 0 /\ Amount(told, "WINDOW", ids) = 0
  BY UneventfulAmounts
<1>2. c.sendWindow \in Int /\ c.streams \in Streams
  BY DEF Connection
<1>3. \A id \in DOMAIN c.streams : c.streams[id].send \in Int
  <2>1. \A id \in DOMAIN c.streams : c.streams[id] \in AnyStream
    BY <1>2, StreamsMeaning
  <2> QED BY <2>1 DEF AnyStream
<1> HIDE DEF Connection
<1>4. \A i \in DOMAIN told : told[i].type = "SETTINGS" => told[i].window = InitialWindow
  BY DEF Uneventful
<1>5. /\ d.sendWindow + Amount(told, "DATA", Nat) = c.sendWindow + Amount(took, "WINDOW", {0})
      /\ Amount(told, "WINDOW", {0}) = Amount(took, "DATA", Nat)
  BY <1>1, <1>2
<1>6. \A id \in DOMAIN c.streams \cap DOMAIN d.streams :
         /\ d.streams[id].send + Amount(told, "DATA", {id})
              = c.streams[id].send + Amount(took, "WINDOW", {id})
         /\ Amount(told, "WINDOW", {id}) = Amount(took, "DATA", {id})
  BY <1>1, <1>3
<1> QED BY <1>1, <1>4, <1>5, <1>6 DEF Balanced

LEMMA ShrunkUneventful ==
    ASSUME NEW e, NEW c \in Connection, NEW d, Shrunk(c, d),
           NEW took, NEW told, Uneventful(took), Uneventful(told)
    PROVE  Balanced(c, d, took, told) /\ Told(e, c, d, took)
<1> HIDE DEF Connection
<1>1. Balanced(c, d, took, told)
  BY UneventfulBalanced DEF Shrunk
<1>2. Told(e, c, d, took)
  BY DEF Told, Shrunk
<1> QED BY <1>1, <1>2

\* An account that what the step left has, the step has.
LEMMA BecameAccounted ==
    ASSUME NEW e, Lawful(e), ~Over(conn[e]), NEW c, NEW frames, Became(e, c, frames),
           NEW took,
           Standing(e) => Balanced(conn[e], c, took, frames) /\ Told(e, conn[e], c, took)
    PROVE  Accounted(e, took)
BY ShrunkBalanced DEF Accounted, Became

\* A step that moves no credit is accounted for.
LEMMA ShrunkAccounted ==
    ASSUME NEW e, Lawful(e), ~Over(conn[e]), conn[e] \in Connection, NEW frames,
           Became(e, conn[e], frames), NEW took, Uneventful(took), Uneventful(frames)
    PROVE  Accounted(e, took)
<1> HIDE DEF Connection
<1> QED BY ShrunkUneventful DEF Accounted, Became

\* So is one that ends the connection.
LEMMA OverAccounted ==
    ASSUME NEW e, Lawful(e), Over(conn'[e]), NEW took
    PROVE  Accounted(e, took)
BY DEF Accounted

LEMMA StepBecame ==
    ASSUME H2Inv, NEW e \in Endpoints, NEW c, NEW d, NEW frames, Step(e, d, frames)
    PROVE  /\ conn'[e] = d /\ out'[e] = frames
           /\ Shrunk(c, d) => Became(e, c, frames)
<1> HIDE DEF Connection
<1>1. conn'[e] = d /\ out'[e] = frames
  BY DEF H2Inv, Step
<1> QED BY <1>1 DEF Became

\* What the task makes of a frame takes no credit.
LEMMA HandledBecame ==
    ASSUME H2Inv, NEW e \in Endpoints, NEW c \in Connection, NEW m, NEW frames,
           Handled(e, c, m, frames)
    PROVE  Became(e, c, frames)
<1> DEFINE a == [c EXCEPT !.task = "idle", !.error = "closed"]
           b == [c EXCEPT !.task = "idle", !.returned = m]
           d == [c EXCEPT !.ready = Append(c.ready, m)]
<1>1. Shrunk(c, c) /\ Shrunk(c, a) /\ Shrunk(c, b) /\ Shrunk(c, d)
  BY DEF Connection, Shrunk
<1>2. Continued(c) \in {c, a} /\ Completed(c, m) \in {b, d}
  BY DEF Continued, Completed
<1> HIDE DEF a, b, d, Connection
<1>3. Shrunk(c, IF m = None THEN Continued(c) ELSE Completed(c, m))
  BY <1>1, <1>2
<1> QED BY <1>3, StepBecame DEF Handled

LEMMA FailOver ==
    ASSUME H2Inv, NEW e \in Endpoints, NEW error \in Fatal, NEW frames, Fail(e, error, frames)
    PROVE  Over(conn'[e])
<1> DEFINE d == [conn[e] EXCEPT !.task = "idle", !.error = error]
<1>1. conn[e] \in Connection
  BY DEF H2Inv
<1>2. d.error = error
  BY <1>1 DEF Connection
<1> HIDE DEF Connection
<1>3. conn'[e] = d
  BY StepBecame DEF Fail
<1> QED BY <1>2, <1>3 DEF Over

LEMMA OverloadOver ==
    ASSUME H2Inv, NEW e \in Endpoints, NEW c \in Connection, NEW frames, Overload(e, c, frames)
    PROVE  Over(conn'[e])
<1> DEFINE d == [c EXCEPT !.idle = @ + 1, !.task = "idle", !.error = "limit"]
<1>1. d.error = "limit"
  BY DEF Connection
<1> HIDE DEF Connection
<1>2. conn'[e] = d
  BY StepBecame DEF Overload
<1> QED BY <1>1, <1>2 DEF Over, Fatal

-----------------------------------------------------------------------------
(* The account of each action of an end.                                   *)

LEMMA Active ==
    ASSUME H2Inv, NEW e \in Endpoints, Free(e) \/ Listening(e) \/ Writing(e)
    PROVE  conn[e] \in Connection /\ ~Over(conn[e])
<1>1. conn[e] \in Connection /\ Steady(conn[e])
  BY EndFields
<1>2. CASE Free(e)
  BY <1>1, <1>2 DEF Free, Failed, Over, Fatal
<1>3. CASE Listening(e)
  BY <1>1, <1>3, Waiting DEF Listening, Over
<1>4. CASE Writing(e)
  BY <1>1, <1>4 DEF Writing, Steady, Over
<1> QED BY <1>2, <1>3, <1>4

\* Sequences of frames that carry and grant nothing.
LEMMA UneventfulSequences ==
    /\ Uneventful(<<>>)
    /\ \A f \in AnyFrame : /\ f.type \notin {"DATA", "WINDOW"}
                           /\ f.type = "SETTINGS" => f.window = InitialWindow
                           => Uneventful(<< f >>)
    /\ \A s, t \in Seq(AnyFrame) : Uneventful(s) /\ Uneventful(t) => Uneventful(s \o t)
    /\ \A id \in Nat, kind \in Kinds, end, more \in BOOLEAN :
         Block(id, kind, end, more) \in Seq(AnyFrame) /\ Uneventful(Block(id, kind, end, more))
    /\ \A m \in AnyMessage : Trailers(m) \in Seq(AnyFrame) /\ Uneventful(Trailers(m))
<1>1. Uneventful(<<>>)
  BY DEF Uneventful
<1>2. ASSUME NEW f \in AnyFrame, f.type \notin {"DATA", "WINDOW"},
             f.type = "SETTINGS" => f.window = InitialWindow
      PROVE  Uneventful(<< f >>)
  <2> HIDE DEF AnyFrame
  <2> QED BY <1>2 DEF Uneventful
<1>3. ASSUME NEW s \in Seq(AnyFrame), NEW t \in Seq(AnyFrame), Uneventful(s), Uneventful(t)
      PROVE  Uneventful(s \o t)
  <2> HIDE DEF AnyFrame
  <2>1. \A i \in DOMAIN (s \o t) : \/ \E j \in DOMAIN s : (s \o t)[i] = s[j]
                                   \/ \E j \in DOMAIN t : (s \o t)[i] = t[j]
    BY ConcatElements
  <2> DEFINE u == s \o t
  <2> HIDE DEF u
  <2>2. Uneventful(u)
    BY <1>3, <2>1 DEF Uneventful, u
  <2> QED BY <2>2 DEF u
<1>4. ASSUME NEW id \in Nat, NEW kind \in Kinds, NEW end \in BOOLEAN, NEW more \in BOOLEAN
      PROVE  Block(id, kind, end, more) \in Seq(AnyFrame) /\ Uneventful(Block(id, kind, end, more))
  <2> DEFINE h == [type |-> "HEADERS", id |-> id, kind |-> kind, end |-> end, more |-> more]
             g == [type |-> "CONTINUATION", id |-> id, more |-> FALSE]
  <2>1. h \in AnyFrame /\ g \in AnyFrame
    <3> HIDE DEF Kinds
    <3> QED BY DEF AnyFrame
  <2>2. h.type = "HEADERS" /\ g.type = "CONTINUATION"
    OBVIOUS
  <2>3. Block(id, kind, end, more) = IF more THEN << h, g >> ELSE << h >>
    BY DEF Block
  <2> HIDE DEF h, g, AnyFrame
  <2>4. << h >> \in Seq(AnyFrame) /\ << h, g >> \in Seq(AnyFrame)
    BY <2>1
  <2>5. Uneventful(<< h >>) /\ Uneventful(<< h, g >>)
    <3>1. \A i \in DOMAIN << h, g >> : << h, g >>[i] \in {h, g}
      OBVIOUS
    <3>2. \A i \in DOMAIN << h >> : << h >>[i] = h
      OBVIOUS
    <3> QED BY <2>2, <3>1, <3>2 DEF Uneventful
  <2> QED BY <2>3, <2>4, <2>5
<1>5. ASSUME NEW m \in AnyMessage
      PROVE  Trailers(m) \in Seq(AnyFrame) /\ Uneventful(Trailers(m))
  <2>1. m.id \in Nat /\ "trailers" \in Kinds
    BY DEF AnyMessage, Kinds
  <2>2. <<>> \in Seq(AnyFrame)
    <3> HIDE DEF AnyFrame
    <3> QED BY EmptySeq
  <2> HIDE DEF AnyMessage, AnyFrame
  <2> QED BY <1>1, <1>4, <2>1, <2>2 DEF Trailers
<1> QED BY <1>1, <1>2, <1>3, <1>4, <1>5

LEMMA FlushedShrunk ==
    ASSUME H2Inv, NEW e \in Endpoints
    PROVE  LET c == Flushed(conn[e]) IN
           /\ c \in Connection /\ Shrunk(conn[e], c)
           /\ FlushedFrames(conn[e]) \in Seq(AnyFrame) /\ Uneventful(FlushedFrames(conn[e]))
<1> DEFINE c == Flushed(conn[e])
<1>1. conn[e] \in Connection
  BY EndFields
<1>2. /\ c \in Connection /\ c.highest = conn[e].highest /\ c.peerWindow = conn[e].peerWindow
      /\ DOMAIN c.streams = DOMAIN conn[e].streams \ Abandoned(conn[e])
      /\ \A id \in DOMAIN c.streams : c.streams[id] = conn[e].streams[id]
  BY FlushedFields
<1>3. c.sendWindow = conn[e].sendWindow /\ c.recvWindow = conn[e].recvWindow
  BY <1>1 DEF Flushed, Connection
<1>4. FlushedFrames(conn[e]) \in Seq(AnyFrame)
  <2>1. AllTruthful(e, c, FlushedFrames(conn[e]))
    BY <1>2, FlushedFields
  <2> QED BY <2>1 DEF AllTruthful
<1>5. Uneventful(FlushedFrames(conn[e]))
  BY DEF Uneventful, FlushedFrames, Rst
<1> HIDE DEF c
<1> QED BY <1>2, <1>3, <1>4, <1>5 DEF Shrunk, c

LEMMA StartAccounted ==
    ASSUME H2Inv, NEW e \in Endpoints
    PROVE  /\ StartClient(e) => Accounted(e, <<>>)
           /\ \A f \in AnyFrame : StartServer(e, f) => Accounted(e, << f >>)
<1> DEFINE d == [conn[e] EXCEPT !.started = TRUE]
           opening == Settings(InitialWindow, MaxConcurrent[e])
<1>1. conn[e] \in Connection /\ Shrunk(conn[e], d)
  <2>1. conn[e] \in Connection
    BY EndFields
  <2> QED BY <2>1 DEF Connection, Shrunk
<1>2. Uneventful(<< Plain("PREFACE"), opening >>) /\ Uneventful(<< opening >>)
  BY DEF Uneventful, Plain, Settings
<1> HIDE DEF Connection, AnyFrame, d, opening
<1>3. ASSUME StartClient(e) PROVE Accounted(e, <<>>)
  <2>1. Step(e, d, << Plain("PREFACE"), opening >>) /\ Free(e)
    BY <1>3 DEF StartClient, d, opening
  <2>2. Became(e, conn[e], << Plain("PREFACE"), opening >>)
    BY <1>1, <2>1, StepBecame
  <2>3. Lawful(e) /\ ~Over(conn[e])
    BY <1>3, <2>1, StartClientLawful, Active
  <2> QED BY <1>1, <1>2, <2>2, <2>3, ShrunkAccounted, UneventfulSequences
<1>4. ASSUME NEW f \in AnyFrame, StartServer(e, f)
      PROVE  Accounted(e, << f >>)
  <2>1. Lawful(e)
    BY <1>4, StartServerLawful
  <2>2. CASE f.type = "PREFACE" /\ Step(e, d, << opening >>)
    <3>1. Became(e, conn[e], << opening >>) /\ ~Over(conn[e])
      BY <1>1, <1>4, <2>2, StepBecame, Active DEF StartServer
    <3>2. Uneventful(<< f >>)
      BY <2>2, UneventfulSequences
    <3> QED BY <1>1, <1>2, <2>1, <3>1, <3>2, ShrunkAccounted
  <2>3. CASE \E error \in Fatal : Fail(e, error, <<>>)
    BY <2>1, <2>3, FailOver, OverAccounted
  <2> QED BY <1>4, <2>2, <2>3 DEF StartServer, Fatal, d, opening
<1> QED BY <1>3, <1>4

LEMMA BeginReceiveAccounted ==
    ASSUME H2Inv, NEW e \in Endpoints, BeginReceive(e)
    PROVE  Accounted(e, <<>>)
<1> DEFINE c == conn[e]
           b == [c EXCEPT !.returned = Head(c.ready), !.ready = Tail(c.ready), !.error = "none"]
           d == [Flushed(c) EXCEPT !.task = "receive", !.returned = None, !.error = "none"]
<1>1. c \in Connection /\ ~Over(c) /\ Lawful(e)
  BY Active, BeginReceiveLawful DEF BeginReceive
<1>2. Flushed(c) \in Connection /\ Shrunk(c, Flushed(c)) /\ Uneventful(FlushedFrames(c))
  BY FlushedShrunk
<1>3. Shrunk(c, b) /\ Shrunk(Flushed(c), d)
  BY <1>1, <1>2 DEF Connection, Shrunk
<1>4. Step(e, b, <<>>) \/ Step(e, d, FlushedFrames(c))
  BY DEF BeginReceive
<1> HIDE DEF Connection, b, d
<1>5. Shrunk(c, d)
  BY <1>2, <1>3, ShrunkTwice
<1>6. Became(e, c, <<>>) \/ Became(e, c, FlushedFrames(c))
  BY <1>3, <1>4, <1>5, StepBecame
<1> QED BY <1>1, <1>2, <1>6, ShrunkAccounted, UneventfulSequences

LEMMA SendOnGoneStreamAccounted ==
    ASSUME H2Inv, NEW e \in Endpoints, NEW m, SendOnGoneStream(e, m)
    PROVE  Accounted(e, <<>>)
<1> DEFINE c == conn[e]
           d == [Flushed(c) EXCEPT !.error = "stream", !.returned = None]
<1>1. c \in Connection /\ ~Over(c) /\ Lawful(e)
  BY Active, SendRefusedLawful DEF SendOnGoneStream, CanSend
<1>2. Flushed(c) \in Connection /\ Shrunk(c, Flushed(c)) /\ Uneventful(FlushedFrames(c))
  BY FlushedShrunk
<1>3. Shrunk(Flushed(c), d)
  BY <1>2 DEF Connection, Shrunk
<1>4. Step(e, d, FlushedFrames(c))
  BY DEF SendOnGoneStream
<1> HIDE DEF Connection, d
<1>5. Shrunk(c, d)
  BY <1>2, <1>3, ShrunkTwice
<1> QED BY <1>1, <1>2, <1>4, <1>5, StepBecame, ShrunkAccounted, UneventfulSequences

LEMMA SendInterruptedAccounted ==
    ASSUME H2Inv, NEW e \in Endpoints, SendInterrupted(e)
    PROVE  Accounted(e, <<>>)
<1> DEFINE d == [conn[e] EXCEPT !.task = "idle", !.sending = None, !.rest = 0, !.error = "stream"]
<1>1. conn[e] \in Connection /\ ~Over(conn[e]) /\ Lawful(e)
  BY Active, SendInterruptedLawful DEF SendInterrupted
<1>2. Shrunk(conn[e], d)
  BY <1>1 DEF Connection, Shrunk
<1>3. Step(e, d, <<>>)
  BY DEF SendInterrupted
<1> HIDE DEF Connection, d
<1> QED BY <1>1, <1>2, <1>3, StepBecame, ShrunkAccounted, UneventfulSequences

\* The caller takes what was returned.
LEMMA LookAccounted ==
    ASSUME H2Inv, NEW e \in Endpoints, Free(e),
           Step(e, [conn[e] EXCEPT !.returned = None], <<>>)
    PROVE  Accounted(e, <<>>)
<1> DEFINE d == [conn[e] EXCEPT !.returned = None]
<1>1. conn[e] \in Connection /\ ~Over(conn[e]) /\ Steady(conn[e]) /\ Growing(e, conn[e])
  BY Active, EndFields
<1>2. /\ d \in Connection /\ Shrunk(conn[e], d) /\ d.streams = conn[e].streams
      /\ d.highest = conn[e].highest /\ d.nextId = conn[e].nextId
      /\ d.gathering = conn[e].gathering /\ d.task = conn[e].task /\ d.error = conn[e].error
      /\ d.sending = conn[e].sending /\ d.sendWindow = conn[e].sendWindow
  <2>1. d \in Connection
    BY <1>1, ZenonT(60) DEF Connection
  <2>2. Shrunk(conn[e], d)
    BY <1>1 DEF Connection, Shrunk
  <2> QED BY <1>1, <2>1, <2>2 DEF Connection
<1>3. Step(e, d, <<>>)
  OBVIOUS
<1> HIDE DEF Connection, d
<1>4. Onward(e, d)
  <2>1. Growing(e, d)
    BY <1>1, <1>2, Narrowed
  <2>2. Steady(d)
    BY <1>1, <1>2 DEF Steady, Window
  <2> QED BY <2>1, <2>2 DEF Onward
<1>5. Lawful(e)
  BY <1>3, <1>4, StepLawful, TruthfulSequences
<1> QED BY <1>1, <1>2, <1>3, <1>5, StepBecame, ShrunkAccounted, UneventfulSequences

LEMMA ResetStreamAccounted ==
    ASSUME H2Inv, NEW e \in Endpoints, NEW id \in DOMAIN conn[e].streams, ResetStream(e, id)
    PROVE  Accounted(e, <<>>)
<1> DEFINE w == Without(conn[e].streams, id)
           d == [conn[e] EXCEPT !.streams = w]
<1>1. conn[e] \in Connection /\ ~Over(conn[e]) /\ Lawful(e)
  BY Active, ResetStreamLawful DEF ResetStream
<1>2. DOMAIN w \subseteq DOMAIN conn[e].streams /\ \A x \in DOMAIN w : w[x] = conn[e].streams[x]
  BY DEF Without
<1> HIDE DEF w
<1>3. Shrunk(conn[e], d)
  BY <1>1, <1>2 DEF Connection, Shrunk
<1>4. Step(e, d, << Rst(id) >>)
  BY DEF ResetStream, w
<1>5. Uneventful(<< Rst(id) >>)
  BY DEF Uneventful, Rst
<1> HIDE DEF Connection, d
<1> QED BY <1>1, <1>3, <1>4, <1>5, StepBecame, ShrunkAccounted, UneventfulSequences

LEMMA EndAccounted ==
    ASSUME H2Inv, NEW e \in Endpoints, Close(e) \/ TimeOut(e)
    PROVE  Accounted(e, <<>>)
<1>1. conn[e] \in Connection
  BY EndFields
<1>2. Lawful(e)
  BY CloseLawful, TimeOutLawful
<1>3. CASE TimeOut(e)
  BY <1>2, <1>3, FailOver, OverAccounted DEF TimeOut, Fatal
<1>4. CASE Close(e)
  <2> DEFINE d == [conn[e] EXCEPT !.open = FALSE]
  <2>1. ~d.open
    BY <1>1 DEF Connection
  <2>2. Step(e, d, << GoAway(Max({conn[e].nextId - 2, 0})), Plain("EOF") >>)
    BY <1>4 DEF Close
  <2> HIDE DEF d
  <2>3. conn'[e] = d
    BY <2>2, StepBecame
  <2> QED BY <1>2, <2>1, <2>3, OverAccounted DEF Over
<1> QED BY <1>3, <1>4

\* The end of a send takes no credit.
LEMMA ConcludedShrunk ==
    ASSUME NEW c \in Connection, NEW m, m.id \in DOMAIN c.streams
    PROVE  Shrunk(c, Concluded(c, m))
<1> DEFINE s == c.streams[m.id]
           state == IF LeavesOpen(m, s.method) THEN s.state ELSE CloseLocal(s.state)
           method == IF m.kind \in Requests THEN m.kind ELSE s.method
           t == [s EXCEPT !.state = state, !.method = method]
           w == Retired(c.streams, m.id, t)
           d == [c EXCEPT !.streams = w, !.task = "idle", !.sending = None, !.rest = 0]
<1>1. Concluded(c, m) = d
  BY DEF Concluded
<1>2. s \in AnyStream
  <2>1. c.streams \in Streams
    BY DEF Connection
  <2> QED BY <2>1, StreamsMeaning
<1>3. t.send = s.send /\ t.recv = s.recv
  <2> HIDE DEF s, state, method
  <2> QED BY <1>2 DEF AnyStream
<1> HIDE DEF t
<1>4. DOMAIN w \subseteq DOMAIN c.streams /\ \A id \in DOMAIN w : w[id] = t \/ w[id] = c.streams[id]
  BY DEF Retired, With, Without
<1>5. \A id \in DOMAIN w : w[id].send = c.streams[id].send /\ w[id].recv = c.streams[id].recv
  <2> TAKE id \in DOMAIN w
  <2>1. id = m.id => w[id] = t \/ id \notin DOMAIN w
    BY DEF Retired, With, Without
  <2>2. id # m.id => w[id] = c.streams[id]
    BY DEF Retired, With, Without
  <2> HIDE DEF w
  <2> QED BY <1>3, <2>1, <2>2
<1> HIDE DEF w
<1>6. Shrunk(c, d)
  BY <1>4, <1>5 DEF Connection, Shrunk
<1> QED BY <1>1, <1>6

LEMMA SendHeadAccounted ==
    ASSUME H2Inv, NEW e \in Endpoints, NEW msg \in AnyMessage, NEW more \in BOOLEAN,
           SendHead(e, msg, more)
    PROVE  Accounted(e, <<>>)
<1> DEFINE F == Flushed(conn[e])
           m == [msg EXCEPT !.id = IF msg.id = 0 THEN F.nextId ELSE msg.id]
           new == NewStream(InitialWindow, F.peerWindow)
           w == With(F.streams, m.id, new)
           n == F.nextId + 2
           opened == IF msg.id = 0 THEN [F EXCEPT !.streams = w, !.nextId = n] ELSE F
           d == [opened EXCEPT !.error = "none", !.returned = None]
           open == LeavesOpen(m, d.streams[m.id].method)
           end == ~open /\ m.body = 0 /\ ~m.trailers
           block == Block(m.id, m.kind, end, more)
           flushed == FlushedFrames(conn[e])
           head == flushed \o block
           b == [d EXCEPT !.task = "send", !.sending = m, !.rest = m.body]
<1>1. /\ IF msg.id = 0 THEN TRUE ELSE msg.id \in DOMAIN F.streams
      /\ IF m.body = 0 THEN Step(e, Concluded(d, m), head \o Trailers(m)) ELSE Step(e, b, head)
  BY DEF SendHead
<1>2. conn[e] \in Connection /\ ~Over(conn[e]) /\ Lawful(e)
  BY Active, SendHeadLawful DEF SendHead, CanSend
<1>3. F \in Connection /\ Shrunk(conn[e], F) /\ flushed \in Seq(AnyFrame) /\ Uneventful(flushed)
      /\ F.nextId = conn[e].nextId
  BY FlushedShrunk, FlushedFields
<1>4. /\ F.nextId \in Nat /\ F.streams \in Streams /\ F.peerWindow \in Nat /\ n \in Nat
      /\ F.nextId \notin DOMAIN conn[e].streams
  <2>1. F.nextId \in Nat /\ F.streams \in Streams /\ F.peerWindow \in Nat
    <3> HIDE DEF F
    <3> QED BY <1>3 DEF Connection
  <2>2. Ids(e) /\ DOMAIN conn[e].streams \subseteq Nat
    BY EndFields
  <2> QED BY <1>3, <2>1, <2>2 DEF Ids
<1> HIDE DEF F
<1>5. m \in AnyMessage /\ m.id = IF msg.id = 0 THEN F.nextId ELSE msg.id
  BY <1>4 DEF AnyMessage
<1>6. m.id \in Nat /\ m.kind \in Kinds
  <2> HIDE DEF m
  <2> QED BY <1>5 DEF AnyMessage
<1> HIDE DEF m, n
<1>7. /\ new \in AnyStream /\ new.recv = InitialWindow /\ new.send = F.peerWindow
  BY <1>4, H2Assumption DEF NewStream, AnyStream, States
<1> HIDE DEF new
<1>8. /\ w \in Streams /\ DOMAIN w = DOMAIN F.streams \cup {m.id} /\ w[m.id] = new
      /\ \A x \in DOMAIN F.streams \ {m.id} : w[x] = F.streams[x]
  <2> DEFINE old == F.streams
  <2>1. old \in Streams
    BY <1>4
  <2> HIDE DEF old
  <2>2. With(old, m.id, new) \in Streams
    BY ONLY <2>1, <1>6, <1>7, WithStream
  <2>3. /\ DOMAIN With(old, m.id, new) = DOMAIN old \cup {m.id} /\ With(old, m.id, new)[m.id] = new
        /\ \A x \in DOMAIN old \ {m.id} : With(old, m.id, new)[x] = old[x]
    BY DEF With
  <2> QED BY <2>2, <2>3 DEF old
<1> HIDE DEF w
<1>9. /\ opened \in Connection /\ m.id \in DOMAIN opened.streams
      /\ opened.sendWindow = F.sendWindow /\ opened.recvWindow = F.recvWindow
      /\ opened.peerWindow = F.peerWindow /\ opened.highest = F.highest
      /\ opened.streams = IF msg.id = 0 THEN w ELSE F.streams
  <2>1. CASE msg.id # 0
    BY <1>1, <1>3, <1>5, <2>1
  <2>2. CASE msg.id = 0
    <3> DEFINE o == [F EXCEPT !.streams = w, !.nextId = n]
    <3>1. /\ o \in Connection /\ o.streams = w
          /\ o.sendWindow = F.sendWindow /\ o.recvWindow = F.recvWindow
          /\ o.peerWindow = F.peerWindow /\ o.highest = F.highest
      BY <1>3, <1>4, <1>8 DEF Connection
    <3>2. opened = o
      BY <2>2
    <3> HIDE DEF o, opened
    <3> QED BY <1>8, <2>2, <3>1, <3>2
  <2> QED BY <2>1, <2>2
<1>10. Standing(e) => \A told : Uneventful(told) =>
         Balanced(conn[e], opened, <<>>, told) /\ Told(e, conn[e], opened, <<>>)
  <2> HAVE Standing(e)
  <2> TAKE told
  <2> HAVE Uneventful(told)
  <2> HIDE DEF opened, Connection
  <2>1. F.peerWindow = InitialWindow
    BY <1>3 DEF Standing, Shrunk
  <2>2. ASSUME NEW id \in DOMAIN conn[e].streams \cap DOMAIN opened.streams
        PROVE  /\ opened.streams[id].send = conn[e].streams[id].send
               /\ opened.streams[id].recv = conn[e].streams[id].recv
    <3>1. id \in DOMAIN F.streams /\ opened.streams[id] = F.streams[id]
      BY <1>4, <1>5, <1>8, <1>9, <2>2
    <3> QED BY <1>3, <3>1 DEF Shrunk
  <2>3. ASSUME NEW id \in DOMAIN opened.streams \ DOMAIN conn[e].streams
        PROVE  opened.streams[id].send = InitialWindow /\ opened.streams[id].recv = InitialWindow
    <3>1. id \notin DOMAIN F.streams
      BY <1>3, <2>3 DEF Shrunk
    <3>2. opened.streams[id] = new
      BY <1>8, <1>9, <2>3, <3>1
    <3> QED BY <1>7, <2>1, <3>2
  <2>4. /\ opened.sendWindow = conn[e].sendWindow /\ opened.recvWindow = conn[e].recvWindow
        /\ opened.peerWindow = conn[e].peerWindow /\ opened.highest = conn[e].highest
    BY <1>3, <1>9 DEF Shrunk
  <2>5. Balanced(conn[e], opened, <<>>, told)
    BY <1>2, <2>2, <2>3, <2>4, UneventfulSequences, UneventfulBalanced
  <2> QED BY <2>4, <2>5 DEF Told
<1> HIDE DEF opened
<1>11. d \in Connection /\ Shrunk(opened, d) /\ d.streams = opened.streams
  <2>1. d \in Connection
    BY <1>9, ZenonT(60) DEF Connection
  <2>2. Shrunk(opened, d) /\ d.streams = opened.streams
    BY <1>9 DEF Connection, Shrunk
  <2> QED BY <2>1, <2>2
<1> HIDE DEF d
<1>12. Shrunk(d, b) /\ Shrunk(d, Concluded(d, m))
  <2>1. Shrunk(d, b)
    BY <1>11 DEF Connection, Shrunk
  <2> QED BY <1>9, <1>11, <2>1, ConcludedShrunk
<1> HIDE DEF b
<1>13. /\ head \in Seq(AnyFrame) /\ Uneventful(head) /\ Uneventful(head \o Trailers(m))
  <2>1. end \in BOOLEAN
    BY <1>5 DEF AnyMessage
  <2> HIDE DEF end, flushed
  <2>2. block \in Seq(AnyFrame) /\ Uneventful(block) /\ Trailers(m) \in Seq(AnyFrame) /\ Uneventful(Trailers(m))
    BY <1>5, <1>6, <2>1, UneventfulSequences
  <2> HIDE DEF block, AnyFrame
  <2>3. head \in Seq(AnyFrame)
    BY <1>3, <2>2
  <2>4. Uneventful(head)
    BY <1>3, <2>2, UneventfulSequences
  <2> HIDE DEF head
  <2> QED BY <2>2, <2>3, <2>4, UneventfulSequences
<1> HIDE DEF head, end, open, Connection
<1>14. \E told : Uneventful(told) /\ Became(e, opened, told)
  <2>1. Shrunk(opened, b) /\ Shrunk(opened, Concluded(d, m))
    BY <1>11, <1>12, ShrunkTwice
  <2>2. Became(e, opened, head \o Trailers(m)) \/ Became(e, opened, head)
    BY <1>1, <2>1, StepBecame
  <2> QED BY <1>13, <2>2
<1>15. PICK told : Uneventful(told) /\ Became(e, opened, told)
  BY <1>14
<1> QED BY <1>2, <1>10, <1>15, BecameAccounted

\* A turn of write_data carries what it takes off the windows.
LEMMA SendDataAccounted ==
    ASSUME H2Inv, NEW e \in Endpoints, SendData(e)
    PROVE  Accounted(e, <<>>)
<1> DEFINE c == conn[e]
           m == c.sending
           size == Min({c.rest, Window(c), MaxFrame})
           last == size = c.rest
           s == [c.streams[m.id] EXCEPT !.send = c.streams[m.id].send - size]
           w == [c.streams EXCEPT ![m.id] = s]
           window == c.sendWindow - size
           rest == c.rest - size
           spent == [c EXCEPT !.sendWindow = window, !.streams = w, !.rest = rest]
           data == [type |-> "DATA", id |-> m.id, size |-> size, end |-> last /\ ~m.trailers]
<1>1. c \in Connection /\ ~Over(c) /\ Steady(c) /\ c.streams \in Streams /\ Lawful(e)
  BY Active, EndFields, SendDataLawful DEF SendData
<1>2. /\ m \in AnyMessage /\ m.id \in DOMAIN c.streams /\ Window(c) > 0
      /\ IF last THEN Step(e, Concluded(spent, m), << data >> \o Trailers(m))
                 ELSE Step(e, spent, << data >>)
  <2>1. [c EXCEPT !.sendWindow = @ - size, !.streams[m.id].send = @ - size, !.rest = @ - size]
            = spent
    OBVIOUS
  <2>2. m \in AnyMessage
    BY <1>1 DEF SendData, Writing, Steady
  <2> QED BY <2>1, <2>2 DEF SendData
<1>3. c.streams[m.id] \in AnyStream /\ c.sendWindow \in Int /\ c.rest \in Nat /\ m.id \in Nat
  <2>1. c.streams[m.id] \in AnyStream
    BY <1>1, <1>2, StreamsMeaning
  <2>2. m.id \in Nat
    BY <1>2 DEF AnyMessage
  <2>3. c.sendWindow \in Int /\ c.rest \in Nat
    BY <1>1 DEF Connection
  <2> QED BY <2>1, <2>2, <2>3
<1>4. c.streams[m.id].send \in Int /\ size \in Nat /\ size <= c.rest
  <2>1. c.streams[m.id].send \in Int
    BY <1>3 DEF AnyStream
  <2> DEFINE x == c.rest
             y == Window(c)
  <2>2. y \in Int
    BY <1>3, <2>1 DEF Window
  <2>3. x \in Int /\ x >= 0 /\ y \in Int /\ y > 0 /\ MaxFrame \in Int /\ MaxFrame >= 0
    BY <1>2, <1>3, <2>2, H2Assumption
  <2> HIDE DEF x, y
  <2>4. Min({x, y, MaxFrame}) \in {x, y, MaxFrame} /\ Min({x, y, MaxFrame}) <= x
    BY ONLY <2>3, LeastOfThree
  <2>5. Min({x, y, MaxFrame}) \in Nat /\ Min({x, y, MaxFrame}) <= x
    BY <2>3, <2>4
  <2> QED BY <2>1, <2>5 DEF x, y
<1> HIDE DEF size
<1>5. s \in AnyStream /\ s.send = c.streams[m.id].send - size /\ s.recv = c.streams[m.id].recv
  <2>1. c.streams[m.id].send - size \in Int
    BY <1>4
  <2> DEFINE left == c.streams[m.id].send - size
             old == c.streams[m.id]
  <2> HIDE DEF left, old
  <2>2. [old EXCEPT !.send = left] \in AnyStream /\ [old EXCEPT !.send = left].send = left
        /\ [old EXCEPT !.send = left].recv = old.recv
    BY <1>3, <2>1 DEF AnyStream, old, left
  <2> QED BY <2>2 DEF left, old
<1> HIDE DEF s
<1>6. /\ w \in Streams /\ DOMAIN w = DOMAIN c.streams /\ w[m.id] = s
      /\ \A x \in DOMAIN c.streams \ {m.id} : w[x] = c.streams[x]
  BY <1>1, <1>2, <1>5, ExceptStream
<1>7. window \in Int /\ rest \in Nat /\ window = c.sendWindow - size
  BY <1>3, <1>4
<1> HIDE DEF w, window, rest
<1>8. /\ spent \in Connection /\ spent.streams = w /\ spent.sendWindow = window
      /\ spent.recvWindow = c.recvWindow /\ spent.peerWindow = c.peerWindow
      /\ spent.highest = c.highest
  <2>1. spent \in Connection
    BY <1>1, <1>6, <1>7, ZenonT(60) DEF Connection
  <2> QED BY <1>1, <2>1 DEF Connection
<1> HIDE DEF spent
<1>9. Shrunk(spent, spent) /\ Shrunk(spent, Concluded(spent, m))
  <2>1. m.id \in DOMAIN spent.streams
    BY <1>2, <1>6, <1>8
  <2> QED BY <1>8, <2>1, ConcludedShrunk DEF Shrunk
<1>10. /\ data \in AnyFrame /\ data.type = "DATA" /\ data.id = m.id /\ data.size = size
  <2>1. (last /\ ~m.trailers) \in BOOLEAN
    BY <1>2 DEF AnyMessage
  <2> HIDE DEF last, m
  <2> QED BY <1>3, <1>4, <2>1 DEF AnyFrame
<1> HIDE DEF data, last
<1>11. PICK told : /\ Became(e, spent, told)
                   /\ told = << data >> \/ told = << data >> \o Trailers(m)
  <2> HIDE DEF Connection, c, m
  <2>1. Became(e, spent, << data >> \o Trailers(m)) \/ Became(e, spent, << data >>)
    BY <1>2, <1>9, StepBecame
  <2> QED BY <2>1
<1>12. /\ \A ids : Amount(told, "DATA", ids) = IF m.id \in ids THEN size ELSE 0
       /\ \A ids : Amount(told, "WINDOW", ids) = 0
       /\ \A i \in DOMAIN told : told[i].type # "SETTINGS"
  <2> DEFINE t == Trailers(m)
  <2>1. t \in Seq(AnyFrame) /\ Uneventful(t)
    BY <1>2, UneventfulSequences
  <2>2. \A i \in DOMAIN t : t[i].type # "SETTINGS"
    BY DEF Trailers, Block
  <2> HIDE DEF t, AnyFrame
  <2>3. << data >> \in Seq(AnyFrame)
    BY <1>10
  <2>4. \A ids : /\ Amount(<< data >>, "DATA", ids) = IF m.id \in ids THEN size ELSE 0
                 /\ Amount(<< data >>, "WINDOW", ids) = 0
    <3> TAKE ids
    <3> QED BY <1>10, AmountOne
  <2>5. \A ids : /\ Amount(<< data >> \o t, "DATA", ids) = IF m.id \in ids THEN size ELSE 0
                 /\ Amount(<< data >> \o t, "WINDOW", ids) = 0
    <3> TAKE ids
    <3>1. /\ Amount(<< data >> \o t, "DATA", ids) = Amount(<< data >>, "DATA", ids) + Amount(t, "DATA", ids)
          /\ Amount(<< data >> \o t, "WINDOW", ids) = Amount(<< data >>, "WINDOW", ids) + Amount(t, "WINDOW", ids)
      BY <2>1, <2>3, AmountConcat
    <3>2. Amount(t, "DATA", ids) = 0 /\ Amount(t, "WINDOW", ids) = 0
      BY <2>1, UneventfulAmounts
    <3> QED BY <1>4, <2>4, <3>1, <3>2
  <2>6. \A i \in DOMAIN << data >> : << data >>[i].type # "SETTINGS"
    BY <1>10
  <2>7. \A i \in DOMAIN (<< data >> \o t) : (<< data >> \o t)[i].type # "SETTINGS"
    <3> DEFINE one == << data >>
    <3>1. one \in Seq(AnyFrame) /\ \A i \in DOMAIN one : one[i].type # "SETTINGS"
      BY <2>3, <2>6
    <3> HIDE DEF one
    <3>2. \A i \in DOMAIN (one \o t) : (one \o t)[i].type # "SETTINGS"
      BY <2>1, <2>2, <3>1, ConcatElements
    <3> QED BY <3>2 DEF one
  <2>8. told = << data >> \/ told = << data >> \o t
    BY <1>11 DEF t
  <2> QED BY <2>4, <2>5, <2>6, <2>7, <2>8
<1>13. Balanced(c, spent, <<>>, told) /\ Told(e, c, spent, <<>>)
  <2>1. \A type, ids : Amount(<<>>, type, ids) = 0
    BY AmountNone
  <2>2. /\ spent.sendWindow + Amount(told, "DATA", Nat) = c.sendWindow + Amount(<<>>, "WINDOW", {0})
        /\ Amount(told, "WINDOW", {0}) = Amount(<<>>, "DATA", Nat)
    BY <1>3, <1>4, <1>7, <1>8, <1>12, <2>1
  <2>3. ASSUME NEW id \in DOMAIN c.streams
        PROVE  /\ spent.streams[id].send + Amount(told, "DATA", {id})
                    = c.streams[id].send + Amount(<<>>, "WINDOW", {id})
               /\ Amount(told, "WINDOW", {id}) = Amount(<<>>, "DATA", {id})
               /\ spent.streams[id].recv = c.streams[id].recv
    <3>1. c.streams[id].send \in Int
      <4>1. c.streams[id] \in AnyStream
        BY <1>1, StreamsMeaning
      <4> QED BY <4>1 DEF AnyStream
    <3>2. CASE id = m.id
      BY <1>4, <1>5, <1>6, <1>8, <1>12, <2>1, <3>1, <3>2
    <3>3. CASE id # m.id
      BY <1>6, <1>8, <1>12, <2>1, <2>3, <3>1, <3>3
    <3> QED BY <3>2, <3>3
  <2>4. DOMAIN spent.streams = DOMAIN c.streams
    BY <1>6, <1>8
  <2> HIDE DEF c, m
  <2> QED BY <1>8, <1>12, <2>1, <2>2, <2>3, <2>4 DEF Balanced, Told
<1> HIDE DEF Connection
<1> QED BY <1>1, <1>11, <1>13, BecameAccounted

LEMMA IdledShrunk ==
    ASSUME NEW e, conn[e] \in Connection
    PROVE  Idled(e) \in Connection /\ Shrunk(conn[e], Idled(e))
<1> DEFINE n == conn[e].idle + 1
           i == [conn[e] EXCEPT !.idle = n]
<1>1. n \in Nat
  BY DEF Connection
<1>2. Idled(e) = i
  BY DEF Idled
<1> HIDE DEF n
<1>3. i \in Connection
  BY <1>1 DEF Connection
<1>4. Shrunk(conn[e], i)
  BY DEF Connection, Shrunk
<1> QED BY <1>2, <1>3, <1>4

\* A frame that is handled without any credit being moved.
LEMMA HandlePlainAccounted ==
    ASSUME H2Inv, NEW e \in Endpoints, NEW f \in AnyFrame,
           \/ HandleWhenExhausted(e, f) \/ HandlePing(e, f) \/ HandleIgnored(e, f)
           \/ HandleGoAway(e, f) \/ HandleRstStream(e, f) \/ HandleRefused(e, f)
           \/ HandleEof(e, f) \/ HandleInterruption(e, f)
           \/ HandleStrayHeaders(e, f) \/ HandleStrayData(e, f)
    PROVE  Accounted(e, << f >>)
<1> DEFINE i == Idled(e)
<1>1. Listening(e) /\ Lawful(e)
  <2>1. Listening(e)
    BY DEF HandleWhenExhausted, HandlePing, HandleIgnored, HandleGoAway, HandleRstStream, HandleRefused,
           HandleEof, HandleInterruption, HandleStrayHeaders, HandleStrayData, Idling
  <2> QED BY <2>1, HandleWhenExhaustedLawful, HandleCountedLawful, HandleRstStreamLawful, HandleFatalLawful
<1>2. conn[e] \in Connection /\ ~Over(conn[e])
  BY <1>1, Active
<1>3. CASE HandleWhenExhausted(e, f)
  <2> HIDE DEF Connection
  <2> QED BY <1>1, <1>2, <1>3, OverloadOver, OverAccounted DEF HandleWhenExhausted
<1>4. CASE \/ HandleRefused(e, f) \/ HandleEof(e, f) \/ HandleInterruption(e, f)
           \/ HandleStrayHeaders(e, f) \/ HandleStrayData(e, f)
  <2>1. \E error \in Fatal : Fail(e, error, <<>>)
    BY <1>4 DEF HandleRefused, HandleEof, HandleInterruption, HandleStrayHeaders, HandleStrayData, Fatal
  <2> QED BY <1>1, <2>1, FailOver, OverAccounted
<1>5. ASSUME NEW d \in Connection, NEW frames, Shrunk(conn[e], d), Handled(e, d, None, frames),
             Uneventful(frames), f.type \notin {"DATA", "WINDOW", "SETTINGS"}
      PROVE  Accounted(e, << f >>)
  <2> HIDE DEF Connection, AnyFrame
  <2>1. Became(e, d, frames)
    BY <1>5, HandledBecame
  <2>2. Became(e, conn[e], frames)
    BY <1>5, <2>1, ShrunkTwice DEF Became
  <2>3. Uneventful(<< f >>)
    BY <1>5, UneventfulSequences
  <2> QED BY <1>1, <1>2, <1>5, <2>2, <2>3, ShrunkAccounted
<1>6. i \in Connection /\ Shrunk(conn[e], i)
  BY <1>2, IdledShrunk
<1>7. CASE HandlePing(e, f) \/ HandleIgnored(e, f)
  <2>1. Uneventful(<< Plain("PONG") >>) /\ Uneventful(<<>>)
    BY DEF Uneventful, Plain
  <2>2. /\ f.type \notin {"DATA", "WINDOW", "SETTINGS"}
        /\ Handled(e, i, None, << Plain("PONG") >>) \/ Handled(e, i, None, <<>>)
    BY <1>7 DEF HandlePing, HandleIgnored, Idling
  <2> HIDE DEF i
  <2> QED BY <1>5, <1>6, <2>1, <2>2
<1>8. CASE HandleGoAway(e, f)
  <2> DEFINE d == [i EXCEPT !.goaway = TRUE]
  <2>1. d \in Connection /\ Shrunk(i, d)
    <3> HIDE DEF i
    <3> QED BY <1>6 DEF Connection, Shrunk
  <2>2. f.type = "GOAWAY" /\ Handled(e, d, None, <<>>)
    BY <1>8 DEF HandleGoAway, Idling
  <2> HIDE DEF d, i
  <2>3. Shrunk(conn[e], d)
    BY <1>6, <2>1, ShrunkTwice
  <2> QED BY <1>5, <2>1, <2>2, <2>3, UneventfulSequences
<1>9. CASE HandleRstStream(e, f)
  <2> DEFINE w == Without(i.streams, f.id)
             premature == f.id \in DOMAIN i.streams /\ Sendable(i.streams[f.id])
             n == IF premature THEN i.premature + 1 ELSE i.premature
             d == [i EXCEPT !.streams = w, !.premature = n]
  <2>1. /\ f.type = "RST"
        /\ \/ Step(e, [d EXCEPT !.task = "idle", !.error = "limit"], << GoAway(d.highest) >>)
           \/ Handled(e, d, None, <<>>)
    BY <1>9 DEF HandleRstStream, Idling
  <2> HIDE DEF i, premature
  <2>2. n \in Nat
    BY <1>6 DEF Connection
  <2>3. /\ w \in Streams /\ DOMAIN w \subseteq DOMAIN i.streams
        /\ \A x \in DOMAIN w : w[x] = i.streams[x]
    <3>1. i.streams \in Streams
      BY <1>6 DEF Connection
    <3>2. w \in Streams
      BY <3>1, WithoutStream
    <3> QED BY <3>2 DEF Without
  <2> HIDE DEF w, n
  <2>4. d \in Connection /\ Shrunk(i, d)
    <3>1. d \in Connection
      BY <1>6, <2>2, <2>3, ZenonT(60) DEF Connection
    <3>2. Shrunk(i, d)
      BY <1>6, <2>3 DEF Connection, Shrunk
    <3> QED BY <3>1, <3>2
  <2> HIDE DEF d
  <2>5. CASE Handled(e, d, None, <<>>)
    <3>1. Shrunk(conn[e], d)
      BY <1>6, <2>4, ShrunkTwice
    <3> QED BY <1>5, <2>1, <2>4, <2>5, <3>1, UneventfulSequences
  <2>6. CASE Step(e, [d EXCEPT !.task = "idle", !.error = "limit"], << GoAway(d.highest) >>)
    <3> DEFINE b == [d EXCEPT !.task = "idle", !.error = "limit"]
    <3>1. b.error = "limit"
      BY <2>4 DEF Connection
    <3> HIDE DEF b, Connection
    <3>2. conn'[e] = b
      BY <2>6, StepBecame DEF b
    <3> QED BY <1>1, <3>1, <3>2, OverAccounted DEF Over, Fatal
  <2> QED BY <2>1, <2>5, <2>6
<1> QED BY <1>3, <1>4, <1>7, <1>8, <1>9

\* SETTINGS that ask for the window there is change none.
LEMMA HandleSettingsAccounted ==
    ASSUME H2Inv, NEW e \in Endpoints, NEW f \in AnyFrame, HandleSettings(e, f),
           Standing(e) => f.window = InitialWindow
    PROVE  Accounted(e, << f >>)
<1> DEFINE i == Idled(e)
           change == f.window - conn[e].peerWindow
           streams == conn[e].streams
           ceiling == IF f.streams = 0 THEN 1 ELSE f.streams
           w == [id \in DOMAIN streams |-> [streams[id] EXCEPT !.send = streams[id].send + change]]
           d == [i EXCEPT !.peerWindow = f.window, !.ceiling = ceiling, !.streams = w]
<1>1. Listening(e) /\ Lawful(e) /\ f.type = "SETTINGS" /\ Handled(e, d, None, << Plain("ACK") >>)
  BY HandleSettingsLawful DEF HandleSettings, Idling
<1>2. /\ conn[e] \in Connection /\ ~Over(conn[e]) /\ streams \in Streams
      /\ f.window \in Nat /\ f.streams \in Nat /\ conn[e].peerWindow \in Nat
  <2>1. conn[e] \in Connection /\ ~Over(conn[e])
    BY <1>1, Active
  <2>2. conn[e].peerWindow \in Nat /\ streams \in Streams
    BY <2>1 DEF Connection
  <2> QED BY <1>1, <2>1, <2>2, FrameFields
<1>3. i \in Connection /\ Shrunk(conn[e], i)
  BY <1>2, IdledShrunk
<1>4. \A id \in DOMAIN streams : /\ streams[id] \in AnyStream
                                 /\ streams[id].send \in Int
                                 /\ w[id].send = streams[id].send + change
                                 /\ w[id].recv = streams[id].recv
                                 /\ w[id] \in AnyStream
  <2> TAKE id \in DOMAIN streams
  <2> DEFINE s == streams[id]
             to == s.send + change
  <2>1. s \in AnyStream
    BY <1>2, StreamsMeaning
  <2> HIDE DEF s
  <2>2. s.send \in Int /\ to \in Int
    BY <1>2, <2>1 DEF AnyStream
  <2> HIDE DEF to
  <2>3. /\ [s EXCEPT !.send = to] \in AnyStream /\ [s EXCEPT !.send = to].send = to
        /\ [s EXCEPT !.send = to].recv = s.recv
    BY <2>1, <2>2 DEF AnyStream
  <2>4. w[id] = [s EXCEPT !.send = to]
    BY DEF s, to
  <2> HIDE DEF w
  <2> QED BY <2>1, <2>2, <2>3, <2>4 DEF s, to
<1>5. w \in Streams /\ DOMAIN w = DOMAIN streams
  <2>1. DOMAIN w = DOMAIN streams /\ w = [id \in DOMAIN w |-> w[id]]
    OBVIOUS
  <2>2. DOMAIN streams \subseteq Nat /\ IsFiniteSet(DOMAIN streams)
    BY <1>2, StreamsMeaning
  <2> HIDE DEF w
  <2> QED BY <1>4, <2>1, <2>2, StreamsMeaning
<1> HIDE DEF i, w
<1>6. ceiling \in Nat
  BY <1>2
<1> HIDE DEF ceiling
<1>7. /\ d \in Connection /\ d.sendWindow = i.sendWindow /\ d.recvWindow = i.recvWindow
      /\ d.peerWindow = f.window /\ d.highest = i.highest /\ d.streams = w
  <2>1. d \in Connection
    BY <1>2, <1>3, <1>5, <1>6, ZenonT(60) DEF Connection
  <2> QED BY <1>3, <2>1 DEF Connection
<1> HIDE DEF d, streams
<1>8. Standing(e) => Shrunk(conn[e], d)
  <2> HAVE Standing(e)
  <2>1. f.window = InitialWindow /\ conn[e].peerWindow = InitialWindow /\ change = 0
    BY <1>2 DEF Standing
  <2>2. \A id \in DOMAIN w : w[id].send = streams[id].send /\ w[id].recv = streams[id].recv
    BY <1>4, <1>5, <2>1
  <2> QED BY <1>3, <1>5, <1>7, <2>1, <2>2 DEF Shrunk, streams
<1>9. Uneventful(<< Plain("ACK") >>)
  BY DEF Uneventful, Plain
<1> HIDE DEF Connection, AnyFrame
<1>10. Standing(e) => Uneventful(<< f >>)
  BY <1>1, UneventfulSequences
<1>11. Became(e, d, << Plain("ACK") >>)
  BY <1>1, <1>7, HandledBecame
<1> QED BY <1>1, <1>2, <1>8, <1>9, <1>10, <1>11, BecameAccounted, ShrunkUneventful

\* What credit that unblocks or not leaves of the end.
LEMMA GrantedBecame ==
    ASSUME H2Inv, NEW e \in Endpoints, NEW c \in Connection, NEW unblocked, Granted(e, c, unblocked)
    PROVE  Over(conn'[e]) \/ Became(e, c, <<>>)
<1> DEFINE n == c.idle + 1
           a == [c EXCEPT !.idle = 0]
           b == [c EXCEPT !.idle = n]
<1>1. n \in Nat
  BY DEF Connection
<1>2. \/ Handled(e, a, None, <<>>) \/ Handled(e, b, None, <<>>) \/ Overload(e, c, <<>>)
  BY DEF Granted
<1> HIDE DEF n
<1>3. a \in Connection /\ b \in Connection
  BY <1>1 DEF Connection
<1>4. Shrunk(c, a) /\ Shrunk(c, b)
  BY DEF Connection, Shrunk
<1> HIDE DEF a, b, Connection
<1>5. CASE Overload(e, c, <<>>)
  BY <1>5, OverloadOver
<1>6. ASSUME NEW d \in Connection, Shrunk(c, d), Handled(e, d, None, <<>>)
      PROVE  Became(e, c, <<>>)
  <2>1. Became(e, d, <<>>)
    BY <1>6, HandledBecame
  <2> QED BY <1>6, <2>1, ShrunkTwice DEF Became
<1> QED BY <1>2, <1>3, <1>4, <1>5, <1>6

\* The windows of an end, and the numbers of its streams.
LEMMA Purses ==
    ASSUME H2Inv, NEW e \in Endpoints
    PROVE  /\ conn[e].sendWindow \in Int /\ conn[e].streams \in Streams
           /\ \A id \in DOMAIN conn[e].streams :
                /\ id \in Nat /\ id # 0
                /\ conn[e].streams[id] \in AnyStream
                /\ conn[e].streams[id].send \in Int /\ conn[e].streams[id].recv \in Int
<1>1. conn[e] \in Connection /\ Ids(e)
  <2> HIDE DEF Connection
  <2> QED BY DEF H2Inv
<1>2. conn[e].sendWindow \in Int /\ conn[e].streams \in Streams
  BY <1>1 DEF Connection
<1>3. ASSUME NEW id \in DOMAIN conn[e].streams
      PROVE  /\ id \in Nat /\ id # 0
             /\ conn[e].streams[id] \in AnyStream
             /\ conn[e].streams[id].send \in Int /\ conn[e].streams[id].recv \in Int
  <2>1. id \in Nat /\ conn[e].streams[id] \in AnyStream
    BY <1>2, StreamsMeaning
  <2>2. id # 0
    BY <1>1 DEF Ids
  <2> QED BY <2>1, <2>2 DEF AnyStream
<1> QED BY <1>2, <1>3

LEMMA HandleConnectionCreditAccounted ==
    ASSUME H2Inv, NEW e \in Endpoints, NEW f \in AnyFrame, HandleConnectionCredit(e, f)
    PROVE  Accounted(e, << f >>)
<1> DEFINE window == conn[e].sendWindow + f.size
           c == [conn[e] EXCEPT !.sendWindow = window]
<1>1. /\ Listening(e) /\ f.type = "WINDOW" /\ f.id = 0 /\ Lawful(e)
      /\ Fail(e, "protocol", <<>>) \/ Granted(e, c, Unblocks(conn[e].sendWindow, f.size))
  BY HandleConnectionCreditLawful DEF HandleConnectionCredit
<1>2. /\ conn[e] \in Connection /\ ~Over(conn[e]) /\ f.size \in Nat
  BY <1>1, Active, FrameFields
<1>3. window \in Int /\ window = conn[e].sendWindow + f.size
  BY <1>2, Purses
<1> HIDE DEF window
<1>4. /\ c \in Connection /\ c.sendWindow = window /\ c.recvWindow = conn[e].recvWindow
      /\ c.peerWindow = conn[e].peerWindow /\ c.highest = conn[e].highest
      /\ c.streams = conn[e].streams
  <2>1. c \in Connection
    BY <1>2, <1>3, ZenonT(60) DEF Connection
  <2> QED BY <1>2, <2>1 DEF Connection
<1> HIDE DEF c, Connection
<1>5. \A ids : /\ Amount(<< f >>, "WINDOW", ids) = IF 0 \in ids THEN f.size ELSE 0
               /\ Amount(<< f >>, "DATA", ids) = 0
  <2> TAKE ids
  <2> QED BY <1>1, AmountOne
<1> HIDE DEF AnyFrame
<1>6. Balanced(conn[e], c, << f >>, <<>>) /\ Told(e, conn[e], c, << f >>)
  <2>1. \A type, ids : Amount(<<>>, type, ids) = 0
    BY AmountNone
  <2>2. /\ c.sendWindow + Amount(<<>>, "DATA", Nat) = conn[e].sendWindow + Amount(<< f >>, "WINDOW", {0})
        /\ Amount(<<>>, "WINDOW", {0}) = Amount(<< f >>, "DATA", Nat)
    BY <1>3, <1>4, <1>5, <2>1
  <2>3. \A id \in DOMAIN conn[e].streams :
             conn[e].streams[id].send + Amount(<<>>, "DATA", {id})
               = conn[e].streams[id].send + Amount(<< f >>, "WINDOW", {id})
    BY <1>5, <2>1, Purses
  <2> QED BY <1>4, <1>5, <2>1, <2>2, <2>3 DEF Balanced, Told
<1>7. CASE Fail(e, "protocol", <<>>)
  BY <1>1, <1>7, FailOver, OverAccounted DEF Fatal
<1>8. CASE Granted(e, c, Unblocks(conn[e].sendWindow, f.size))
  <2>1. Over(conn'[e]) \/ Became(e, c, <<>>)
    BY <1>4, <1>8, GrantedBecame
  <2> QED BY <1>1, <1>2, <1>6, <2>1, OverAccounted, BecameAccounted
<1> QED BY <1>1, <1>7, <1>8

LEMMA HandleStreamCreditAccounted ==
    ASSUME H2Inv, NEW e \in Endpoints, NEW f \in AnyFrame, HandleStreamCredit(e, f)
    PROVE  Accounted(e, << f >>)
<1> DEFINE c == conn[e]
           S == c.streams
           before == S[f.id].send
           to == before + f.size
           s == [S[f.id] EXCEPT !.send = to]
           w == [S EXCEPT ![f.id] = s]
           d == [c EXCEPT !.streams = w]
           v == Without(S, f.id)
           g == [c EXCEPT !.streams = v]
<1>1. /\ Listening(e) /\ f.type = "WINDOW" /\ f.id # 0 /\ Lawful(e)
      /\ \/ f.id \notin DOMAIN S /\ Granted(e, c, FALSE)
         \/ f.id \in DOMAIN S /\ Handled(e, g, None, << Rst(f.id) >>)
         \/ f.id \in DOMAIN S /\ Granted(e, d, Unblocks(before, f.size))
  <2>1. [c EXCEPT !.streams[f.id].send = @ + f.size] = d
    OBVIOUS
  <2> QED BY <2>1, HandleStreamCreditLawful DEF HandleStreamCredit
<1>2. /\ c \in Connection /\ ~Over(c) /\ f.size \in Nat
  BY <1>1, Active, FrameFields
<1>3. /\ c.sendWindow \in Int /\ S \in Streams
      /\ \A id \in DOMAIN S : S[id] \in AnyStream /\ S[id].send \in Int
  BY Purses
<1>4. \A ids : /\ Amount(<< f >>, "WINDOW", ids) = IF f.id \in ids THEN f.size ELSE 0
               /\ Amount(<< f >>, "DATA", ids) = 0
  <2> TAKE ids
  <2> QED BY <1>1, AmountOne
<1>5. \A type, ids : Amount(<<>>, type, ids) = 0
  BY AmountNone
<1> HIDE DEF AnyFrame, Connection, S
<1>6. CASE f.id \notin DOMAIN S /\ Granted(e, c, FALSE)
  <2>1. Balanced(c, c, << f >>, <<>>) /\ Told(e, c, c, << f >>)
    <3>1. \A id \in DOMAIN S :
             S[id].send + Amount(<<>>, "DATA", {id}) = S[id].send + Amount(<< f >>, "WINDOW", {id})
      BY <1>3, <1>4, <1>5, <1>6
    <3>2. c.sendWindow + Amount(<<>>, "DATA", Nat) = c.sendWindow + Amount(<< f >>, "WINDOW", {0})
      BY <1>1, <1>3, <1>4, <1>5
    <3> QED BY <1>4, <1>5, <3>1, <3>2 DEF Balanced, Told, S
  <2>2. Over(conn'[e]) \/ Became(e, c, <<>>)
    BY <1>2, <1>6, GrantedBecame
  <2> QED BY <1>1, <1>2, <2>1, <2>2, OverAccounted, BecameAccounted
<1>7. CASE f.id \in DOMAIN S /\ Handled(e, g, None, << Rst(f.id) >>)
  <2>1. v \in Streams /\ DOMAIN v = DOMAIN S \ {f.id} /\ \A id \in DOMAIN v : v[id] = S[id]
    <3>1. v \in Streams
      BY <1>3, WithoutStream
    <3> QED BY <3>1 DEF Without
  <2> HIDE DEF v
  <2>2. /\ g \in Connection /\ g.sendWindow = c.sendWindow /\ g.recvWindow = c.recvWindow
        /\ g.peerWindow = c.peerWindow /\ g.highest = c.highest /\ g.streams = v
    <3>1. g \in Connection
      BY <1>2, <2>1, ZenonT(60) DEF Connection
    <3> QED BY <1>2, <3>1 DEF Connection
  <2> HIDE DEF g
  <2>3. \A type, ids : type \in {"DATA", "WINDOW"} => Amount(<< Rst(f.id) >>, type, ids) = 0
    <3>1. Uneventful(<< Rst(f.id) >>)
      BY DEF Uneventful, Rst
    <3> QED BY <3>1, UneventfulAmounts
  <2>4. \A i \in DOMAIN << Rst(f.id) >> : << Rst(f.id) >>[i].type # "SETTINGS"
    BY DEF Rst
  <2>5. Balanced(c, g, << f >>, << Rst(f.id) >>) /\ Told(e, c, g, << f >>)
    <3> DEFINE told == << Rst(f.id) >>
    <3>1. \A id \in DOMAIN v :
             /\ g.streams[id].send + Amount(told, "DATA", {id}) = S[id].send + Amount(<< f >>, "WINDOW", {id})
             /\ g.streams[id].recv = S[id].recv
      BY <1>3, <1>4, <2>1, <2>2, <2>3
    <3>2. g.sendWindow + Amount(told, "DATA", Nat) = c.sendWindow + Amount(<< f >>, "WINDOW", {0})
      BY <1>1, <1>3, <1>4, <2>2, <2>3
    <3> HIDE DEF told
    <3> QED BY <1>4, <2>1, <2>2, <2>3, <2>4, <3>1, <3>2 DEF Balanced, Told, S, told
  <2>6. Became(e, g, << Rst(f.id) >>)
    BY <1>7, <2>2, HandledBecame
  <2> QED BY <1>1, <1>2, <2>5, <2>6, BecameAccounted
<1>8. CASE f.id \in DOMAIN S /\ Granted(e, d, Unblocks(before, f.size))
  <2>1. to \in Int /\ to = S[f.id].send + f.size
    BY <1>2, <1>3, <1>8
  <2> HIDE DEF to
  <2>2. s \in AnyStream /\ s.send = to /\ s.recv = S[f.id].recv
    <3> DEFINE old == S[f.id]
    <3>1. old \in AnyStream
      BY <1>3, <1>8
    <3> HIDE DEF old
    <3>2. /\ [old EXCEPT !.send = to] \in AnyStream /\ [old EXCEPT !.send = to].send = to
          /\ [old EXCEPT !.send = to].recv = old.recv
      BY <2>1, <3>1 DEF AnyStream
    <3> QED BY <3>2 DEF old
  <2> HIDE DEF s
  <2>3. /\ w \in Streams /\ DOMAIN w = DOMAIN S /\ w[f.id] = s
        /\ \A x \in DOMAIN S \ {f.id} : w[x] = S[x]
    BY <1>3, <1>8, <2>2, ExceptStream
  <2> HIDE DEF w
  <2>4. /\ d \in Connection /\ d.sendWindow = c.sendWindow /\ d.recvWindow = c.recvWindow
        /\ d.peerWindow = c.peerWindow /\ d.highest = c.highest /\ d.streams = w
    <3>1. d \in Connection
      BY <1>2, <2>3, ZenonT(60) DEF Connection
    <3> QED BY <1>2, <3>1 DEF Connection
  <2> HIDE DEF d
  <2>5. Balanced(c, d, << f >>, <<>>) /\ Told(e, c, d, << f >>)
    <3>1. \A id \in DOMAIN S :
             /\ d.streams[id].send + Amount(<<>>, "DATA", {id}) = S[id].send + Amount(<< f >>, "WINDOW", {id})
             /\ d.streams[id].recv = S[id].recv
      <4> TAKE id \in DOMAIN S
      <4>1. CASE id = f.id
        BY <1>2, <1>3, <1>4, <1>5, <2>1, <2>2, <2>3, <2>4, <4>1
      <4>2. CASE id # f.id
        BY <1>3, <1>4, <1>5, <2>3, <2>4, <4>2
      <4> QED BY <4>1, <4>2
    <3>2. d.sendWindow + Amount(<<>>, "DATA", Nat) = c.sendWindow + Amount(<< f >>, "WINDOW", {0})
      BY <1>1, <1>3, <1>4, <1>5, <2>4
    <3> QED BY <1>4, <1>5, <2>3, <2>4, <3>1, <3>2 DEF Balanced, Told, S
  <2>6. Over(conn'[e]) \/ Became(e, d, <<>>)
    BY <1>8, <2>4, GrantedBecame
  <2> QED BY <1>1, <1>2, <2>5, <2>6, OverAccounted, BecameAccounted
<1> QED BY <1>1, <1>6, <1>7, <1>8

\* A stream changed, but for its windows.
LEMMA StreamChanged ==
    ASSUME NEW c \in Connection, NEW id \in DOMAIN c.streams, NEW s \in AnyStream,
           s.send = c.streams[id].send, s.recv = c.streams[id].recv
    PROVE  /\ [c.streams EXCEPT ![id] = s] \in Streams
           /\ [c EXCEPT !.streams = [c.streams EXCEPT ![id] = s]] \in Connection
           /\ Shrunk(c, [c EXCEPT !.streams = [c.streams EXCEPT ![id] = s]])
           /\ [c EXCEPT !.streams = Retired(c.streams, id, s)] \in Connection
           /\ Shrunk(c, [c EXCEPT !.streams = Retired(c.streams, id, s)])
<1> DEFINE w == [c.streams EXCEPT ![id] = s]
           v == Retired(c.streams, id, s)
<1>1. c.streams \in Streams
  BY DEF Connection
<1>2. id \in Nat
  BY <1>1, StreamsMeaning
<1>3. w \in Streams /\ v \in Streams
  BY <1>1, <1>2, ExceptStream, StreamUpdates
<1>4. /\ DOMAIN w = DOMAIN c.streams
      /\ \A x \in DOMAIN w : w[x].send = c.streams[x].send /\ w[x].recv = c.streams[x].recv
  <2>1. \A x \in DOMAIN w : w[x] = IF x = id THEN s ELSE c.streams[x]
    OBVIOUS
  <2> HIDE DEF Connection, AnyStream
  <2> QED BY <2>1
<1>5. /\ DOMAIN v \subseteq DOMAIN c.streams
      /\ \A x \in DOMAIN v : v[x].send = c.streams[x].send /\ v[x].recv = c.streams[x].recv
  <2>1. DOMAIN v \subseteq DOMAIN c.streams
    BY DEF Retired, With, Without
  <2>2. \A x \in DOMAIN v : v[x] = IF x = id THEN s ELSE c.streams[x]
    BY DEF Retired, With, Without
  <2> HIDE DEF v
  <2> QED BY <2>1, <2>2
<1> HIDE DEF w, v
<1>6. ASSUME NEW u \in Streams, DOMAIN u \subseteq DOMAIN c.streams,
             \A x \in DOMAIN u : u[x].send = c.streams[x].send /\ u[x].recv = c.streams[x].recv
      PROVE  [c EXCEPT !.streams = u] \in Connection /\ Shrunk(c, [c EXCEPT !.streams = u])
  <2>1. [c EXCEPT !.streams = u] \in Connection
    BY ZenonT(60) DEF Connection
  <2>2. Shrunk(c, [c EXCEPT !.streams = u])
    BY <1>6 DEF Connection, Shrunk
  <2> QED BY <2>1, <2>2
<1> HIDE DEF Connection
<1>7. [c EXCEPT !.streams = w] \in Connection /\ Shrunk(c, [c EXCEPT !.streams = w])
  BY <1>3, <1>4, <1>6
<1>8. [c EXCEPT !.streams = v] \in Connection /\ Shrunk(c, [c EXCEPT !.streams = v])
  BY <1>3, <1>5, <1>6
<1> QED BY <1>3, <1>7, <1>8 DEF w, v

\* Taking a message takes no credit.
LEMMA TakenBecame ==
    ASSUME H2Inv, NEW e \in Endpoints, NEW c \in Connection,
           NEW id \in DOMAIN c.streams, NEW end \in BOOLEAN, NEW frames,
           Taken(e, c, id, end, frames)
    PROVE  Became(e, c, frames)
<1> DEFINE s == c.streams[id]
           state == IF end THEN CloseRemote(s.state) ELSE s.state
           t == [s EXCEPT !.state = state]
           rest == [t EXCEPT !.headers = "none", !.trailers = FALSE, !.body = 0]
           m == [id |-> id, kind |-> t.headers, body |-> t.body, trailers |-> t.trailers]
           d == [c EXCEPT !.streams = [c.streams EXCEPT ![id] = t]]
           g == [c EXCEPT !.streams = Retired(c.streams, id, rest)]
<1>1. s \in AnyStream
  <2>1. c.streams \in Streams
    BY DEF Connection
  <2> QED BY <2>1, StreamsMeaning
<1>2. t \in AnyStream /\ t.send = s.send /\ t.recv = s.recv
  <2>1. state \in States
    BY <1>1, ClosedStates DEF AnyStream
  <2> HIDE DEF state, s
  <2> QED BY <1>1, <2>1 DEF AnyStream
<1>3. Handled(e, d, None, frames) \/ Handled(e, g, m, frames)
  BY DEF Taken
<1> HIDE DEF t
<1>4. rest \in AnyStream /\ rest.send = s.send /\ rest.recv = s.recv
  <2> HIDE DEF s
  <2> QED BY <1>2 DEF AnyStream
<1> HIDE DEF rest, Connection
<1>5. d \in Connection /\ Shrunk(c, d) /\ g \in Connection /\ Shrunk(c, g)
  BY <1>2, <1>4, StreamChanged
<1> HIDE DEF d, g, m
<1>6. Became(e, d, frames) \/ Became(e, g, frames)
  BY <1>3, <1>5, HandledBecame
<1> QED BY <1>5, <1>6, ShrunkTwice DEF Became

LEMMA FinishHeadersBecame ==
    ASSUME H2Inv, NEW e \in Endpoints, NEW begun \in Connection,
           NEW x, x.id \in DOMAIN begun.streams, x.kind \in Kinds, x.end \in BOOLEAN,
           FinishHeaders(e, begun, x)
    PROVE  Over(conn'[e]) \/ Became(e, begun, <<>>)
<1> DEFINE old == begun.streams[x.id]
           s == [old EXCEPT !.head = old.head + 1]
           c == [begun EXCEPT !.idle = 0, !.gathering = None,
                              !.streams = [begun.streams EXCEPT ![x.id] = s]]
           trailing == s.headers # "none"
           state == IF s.state = "Idle" THEN "Open" ELSE s.state
           opened == [s EXCEPT !.state = state]
           method == IF x.kind \in Requests THEN x.kind ELSE opened.method
           t == IF trailing THEN [opened EXCEPT !.trailers = TRUE]
                ELSE [opened EXCEPT !.headers = x.kind, !.method = method]
           d == [c EXCEPT !.streams = [c.streams EXCEPT ![x.id] = t]]
           i == [c EXCEPT !.streams = [c.streams EXCEPT ![x.id] = opened]]
           m == [id |-> x.id, kind |-> "interim", body |-> 0, trailers |-> FALSE]
<1>1. begun.streams \in Streams /\ x.id \in Nat /\ old \in AnyStream
  <2>1. begun.streams \in Streams
    BY DEF Connection
  <2> QED BY <2>1, StreamsMeaning
<1>2. s \in AnyStream /\ s.send = old.send /\ s.recv = old.recv
  <2>1. old.head + 1 \in Nat
    BY <1>1 DEF AnyStream
  <2> HIDE DEF old
  <2> QED BY <1>1, <2>1 DEF AnyStream
<1>3. \/ \E error \in Fatal : Fail(e, error, <<>>)
      \/ Handled(e, i, m, <<>>)
      \/ Taken(e, d, x.id, x.end, <<>>)
      \/ Handled(e, d, None, <<>>)
  BY DEF FinishHeaders, Fatal
<1> HIDE DEF s
<1>4. opened \in AnyStream /\ opened.send = s.send /\ opened.recv = s.recv
  <2>1. state \in States
    BY <1>2 DEF AnyStream, States
  <2> HIDE DEF state
  <2> QED BY <1>2, <2>1 DEF AnyStream
<1> HIDE DEF opened
<1>5. t \in AnyStream /\ t.send = s.send /\ t.recv = s.recv
  <2>1. method \in {"none"} \cup Requests
    BY <1>4 DEF AnyStream
  <2> HIDE DEF method
  <2>2. /\ [opened EXCEPT !.trailers = TRUE] \in AnyStream
        /\ [opened EXCEPT !.trailers = TRUE].send = opened.send
        /\ [opened EXCEPT !.trailers = TRUE].recv = opened.recv
    BY <1>4 DEF AnyStream
  <2>3. /\ [opened EXCEPT !.headers = x.kind, !.method = method] \in AnyStream
        /\ [opened EXCEPT !.headers = x.kind, !.method = method].send = opened.send
        /\ [opened EXCEPT !.headers = x.kind, !.method = method].recv = opened.recv
    BY <1>4, <2>1 DEF AnyStream
  <2> QED BY <1>4, <2>2, <2>3
<1> HIDE DEF t
<1>6. /\ c \in Connection /\ Shrunk(begun, c) /\ x.id \in DOMAIN c.streams
      /\ c.streams[x.id] = s
  <2> DEFINE w == [begun.streams EXCEPT ![x.id] = s]
             b == [begun EXCEPT !.streams = w]
             a == [b EXCEPT !.idle = 0, !.gathering = None]
  <2> HIDE DEF old
  <2>1. b \in Connection /\ Shrunk(begun, b) /\ w \in Streams
    <3> HIDE DEF Connection
    <3> QED BY <1>2, StreamChanged DEF old
  <2>2. DOMAIN w = DOMAIN begun.streams /\ w[x.id] = s
    OBVIOUS
  <2> HIDE DEF w
  <2>3. b.streams = w
    BY DEF Connection
  <2>4. c = a
    BY DEF w, Connection
  <2> HIDE DEF b, c
  <2>5. a \in Connection
    BY <2>1, ZenonT(60) DEF Connection
  <2>6. Shrunk(b, a) /\ a.streams = b.streams
    BY <2>1 DEF Connection, Shrunk
  <2> QED BY <2>1, <2>2, <2>3, <2>4, <2>5, <2>6, ShrunkTwice
<1> HIDE DEF c, Connection
<1>7. /\ d \in Connection /\ Shrunk(c, d) /\ i \in Connection /\ Shrunk(c, i)
  BY <1>4, <1>5, <1>6, StreamChanged
<1>8. x.id \in DOMAIN d.streams
  <2>1. d.streams = [c.streams EXCEPT ![x.id] = t]
    BY <1>6 DEF Connection
  <2> QED BY <1>6, <2>1
<1> HIDE DEF d, i, m
<1>9. CASE \E error \in Fatal : Fail(e, error, <<>>)
  BY <1>9, FailOver
<1>10. CASE Handled(e, i, m, <<>>)
  BY <1>6, <1>7, <1>10, HandledBecame, ShrunkTwice DEF Became
<1>11. CASE Taken(e, d, x.id, x.end, <<>>)
  BY <1>6, <1>7, <1>8, <1>11, TakenBecame, ShrunkTwice DEF Became
<1>12. CASE Handled(e, d, None, <<>>)
  BY <1>6, <1>7, <1>12, HandledBecame, ShrunkTwice DEF Became
<1> QED BY <1>3, <1>9, <1>10, <1>11, <1>12

LEMMA HandleContinuationAccounted ==
    ASSUME H2Inv, NEW e \in Endpoints, NEW f \in AnyFrame, HandleContinuation(e, f)
    PROVE  Accounted(e, << f >>)
<1> DEFINE c == conn[e]
           g == c.gathering
           x == [g EXCEPT !.frames = g.frames + 1]
           d == [c EXCEPT !.gathering = x]
<1>1. /\ Listening(e) /\ g # None /\ f.type = "CONTINUATION" /\ Lawful(e)
      /\ \/ FinishHeaders(e, c, x)
         \/ Fail(e, "limit", <<>>)
         \/ Step(e, d, <<>>)
  BY HandleContinuationLawful DEF HandleContinuation, Uninterrupted
<1>2. c \in Connection /\ ~Over(c) /\ Steady(c)
  BY <1>1, Active, EndFields
<1>3. g \in [id : Nat, kind : Kinds, end : BOOLEAN, frames : Nat] /\ g.id \in DOMAIN c.streams
  BY <1>1, <1>2 DEF Connection, Steady
<1>4. x.id = g.id /\ x.kind \in Kinds /\ x.end \in BOOLEAN
  <2> HIDE DEF g
  <2> QED BY <1>3
<1> HIDE DEF x
<1>5. Shrunk(c, d) /\ Shrunk(c, c)
  BY <1>2 DEF Connection, Shrunk
<1>6. Over(conn'[e]) \/ Became(e, c, <<>>)
  <2> HIDE DEF Connection, d, c
  <2>1. CASE FinishHeaders(e, c, x)
    BY <1>2, <1>3, <1>4, <2>1, FinishHeadersBecame
  <2>2. CASE Fail(e, "limit", <<>>)
    BY <2>2, FailOver DEF Fatal
  <2>3. CASE Step(e, d, <<>>)
    BY <1>5, <2>3, StepBecame
  <2> QED BY <1>1, <2>1, <2>2, <2>3
<1>7. Uneventful(<< f >>)
  BY <1>1, UneventfulSequences
<1> HIDE DEF Connection, AnyFrame
<1> QED BY <1>1, <1>2, <1>6, <1>7, OverAccounted, ShrunkAccounted, UneventfulSequences

LEMMA HandleHeadersAccounted ==
    ASSUME H2Inv, NEW e \in Endpoints, NEW f \in AnyFrame, HandleHeaders(e, f)
    PROVE  Accounted(e, << f >>)
<1> DEFINE c == conn[e]
           x == [id |-> f.id, kind |-> f.kind, end |-> f.end, frames |-> 1]
           begun == Begun(e, f.id)
           d == [begun EXCEPT !.gathering = x]
<1>1. /\ Listening(e) /\ f.type = "HEADERS" /\ f.id \in Nat /\ f.kind \in Kinds /\ f.end \in BOOLEAN
      /\ MayBegin(e, f.id) /\ Lawful(e)
      /\ Step(e, d, <<>>) \/ FinishHeaders(e, begun, x)
  BY FrameFields, HandleHeadersLawful DEF HandleHeaders
<1>2. c \in Connection /\ ~Over(c)
  BY <1>1, Active
<1>3. begun \in Connection /\ f.id \in DOMAIN begun.streams
  BY <1>1, BegunFields DEF Growing
<1>4. Standing(e) => Balanced(c, begun, << f >>, <<>>) /\ Told(e, c, begun, << f >>)
  <2> HAVE Standing(e)
  <2>1. Uneventful(<< f >>) /\ Uneventful(<<>>)
    BY <1>1, UneventfulSequences
  <2>2. CASE f.id \in DOMAIN c.streams
    <3>1. begun = c /\ Shrunk(c, c)
      BY <2>2 DEF Begun, Shrunk
    <3> HIDE DEF begun, c, Connection, AnyFrame
    <3> QED BY <1>2, <2>1, <3>1, ShrunkUneventful
  <2>3. CASE f.id \notin DOMAIN c.streams
    <3> DEFINE new == NewStream(InitialWindow, c.peerWindow)
               S == c.streams
               w == With(S, f.id, new)
               b == [c EXCEPT !.highest = f.id, !.streams = w]
    <3>1. begun = b /\ PeerOpens(e, f.id)
      BY <1>1, <2>3 DEF Begun, MayBegin
    <3>2. new.send = InitialWindow /\ new.recv = InitialWindow
      BY DEF NewStream, Standing
    <3>3. DOMAIN w = DOMAIN S \cup {f.id} /\ w[f.id] = new /\ \A id \in DOMAIN S \ {f.id} : w[id] = S[id]
      BY DEF With
    <3> HIDE DEF w, new
    <3>4. /\ b.streams = w /\ b.highest = f.id /\ b.sendWindow = c.sendWindow
          /\ b.recvWindow = c.recvWindow /\ b.peerWindow = c.peerWindow
      BY <1>2 DEF Connection
    <3> HIDE DEF b, begun
    <3>5. Told(e, c, b, << f >>)
      <4> DEFINE took == << f >>
      <4>1. 1 \in DOMAIN took /\ took[1] = f
        OBVIOUS
      <4> HIDE DEF took
      <4>2. Told(e, c, b, took)
        BY <1>1, <3>1, <3>4, <4>1 DEF Told
      <4> QED BY <4>2 DEF took
    <3>6. Balanced(c, b, << f >>, <<>>)
      <4>1. \A id \in DOMAIN c.streams \cap DOMAIN b.streams :
               b.streams[id].send = c.streams[id].send /\ b.streams[id].recv = c.streams[id].recv
        BY <2>3, <3>3, <3>4
      <4>2. \A id \in DOMAIN b.streams \ DOMAIN c.streams :
               b.streams[id].send = InitialWindow /\ b.streams[id].recv = InitialWindow
        BY <3>2, <3>3, <3>4
      <4> HIDE DEF Connection, c
      <4> QED BY <1>2, <2>1, <3>4, <4>1, <4>2, UneventfulBalanced
    <3> QED BY <3>1, <3>5, <3>6
  <2> QED BY <2>2, <2>3
<1>5. x.id = f.id /\ x.kind \in Kinds /\ x.end \in BOOLEAN
  BY <1>1
<1> HIDE DEF x, begun
<1>6. Shrunk(begun, d)
  BY <1>3 DEF Connection, Shrunk
<1> HIDE DEF d, Connection, AnyFrame
<1>7. Over(conn'[e]) \/ Became(e, begun, <<>>)
  BY <1>1, <1>3, <1>5, <1>6, StepBecame, FinishHeadersBecame
<1> QED BY <1>1, <1>2, <1>4, <1>7, OverAccounted, BecameAccounted

\* What is given back for the octets of a DATA frame.
LEMMA ReturnedAmounts ==
    ASSUME NEW id \in Nat, NEW size \in Nat
    PROVE  /\ Returned(id, size) \in Seq(AnyFrame)
           /\ \A ids : /\ Amount(Returned(id, size), "WINDOW", ids) = IF id \in ids THEN size ELSE 0
                       /\ Amount(Returned(id, size), "DATA", ids) = 0
           /\ \A i \in DOMAIN Returned(id, size) : Returned(id, size)[i].type # "SETTINGS"
<1> DEFINE d == Credit(id, size)
<1>1. d \in AnyFrame /\ d.type = "WINDOW" /\ d.id = id /\ d.size = size
  BY DEF AnyFrame, Credit
<1> HIDE DEF d
<1>2. Returned(id, size) = IF size = 0 THEN <<>> ELSE << d >>
  BY DEF Returned, d
<1>3. \A ids : /\ Amount(<< d >>, "WINDOW", ids) = IF id \in ids THEN size ELSE 0
               /\ Amount(<< d >>, "DATA", ids) = 0
  <2> TAKE ids
  <2> QED BY <1>1, AmountOne
<1>4. \A type, ids : Amount(<<>>, type, ids) = 0
  BY AmountNone
<1> HIDE DEF AnyFrame
<1>5. << d >> \in Seq(AnyFrame) /\ <<>> \in Seq(AnyFrame)
  BY <1>1
<1>6. \A i \in DOMAIN << d >> : << d >>[i].type # "SETTINGS"
  BY <1>1
<1> QED BY <1>2, <1>3, <1>4, <1>5, <1>6

\* Two sequences without SETTINGS, one behind the other.
LEMMA NoSettings ==
    ASSUME NEW s \in Seq(AnyFrame), NEW t \in Seq(AnyFrame),
           \A i \in DOMAIN s : s[i].type # "SETTINGS", \A i \in DOMAIN t : t[i].type # "SETTINGS"
    PROVE  \A i \in DOMAIN (s \o t) : (s \o t)[i].type # "SETTINGS"
<1> HIDE DEF AnyFrame
<1> QED BY ConcatElements

\* DATA that the stream may receive: what it took off the windows is given back.
LEMMA HandleDataAccounted ==
    ASSUME H2Inv, NEW e \in Endpoints, NEW f \in AnyFrame, HandleData(e, f)
    PROVE  Accounted(e, << f >>)
<1> DEFINE S == conn[e].streams
           s == S[f.id]
           empty == f.size = 0 /\ ~f.end
           idle == IF empty THEN conn[e].idle + 1 ELSE 0
           c == [conn[e] EXCEPT !.idle = idle]
           body == s.body + f.size
           t == [s EXCEPT !.body = body]
           w == [S EXCEPT ![f.id] = t]
           bound == conn[e].bound + f.size
           r == [conn[e] EXCEPT !.idle = idle, !.streams = w, !.bound = bound]
           d == Rebound(r)
           v == Without(S, f.id)
           g == [conn[e] EXCEPT !.idle = idle, !.streams = v]
           back == Returned(0, f.size)
           onto == Returned(f.id, f.size)
           reset == << Rst(f.id) >>
<1>1. /\ Listening(e) /\ Uninterrupted(e) /\ f.id \in DOMAIN S /\ f.type = "DATA"
      /\ f.id \in Nat /\ f.size \in Nat /\ f.end \in BOOLEAN /\ Lawful(e)
  BY FrameFields, HandleDataLawful DEF HandleData
<1>2. conn[e] \in Connection /\ ~Over(conn[e])
  BY <1>1, Active
<1>3. \/ Overload(e, conn[e], <<>>)
      \/ Fail(e, "protocol", <<>>)
      \/ Handled(e, g, None, back \o reset)
      \/ Fail(e, "limit", back)
      \/ Taken(e, d, f.id, TRUE, back \o onto)
      \/ Handled(e, d, None, back \o onto)
  <2>1. c.streams = S /\ c.bound = conn[e].bound
    BY <1>2 DEF Connection
  <2>2. [c EXCEPT !.streams[f.id].body = body, !.bound = @ + f.size] = r
    <3>1. [c EXCEPT !.streams[f.id].body = body, !.bound = @ + f.size]
            = [c EXCEPT !.streams = [c.streams EXCEPT ![f.id] = [c.streams[f.id] EXCEPT !.body = body]],
                        !.bound = c.bound + f.size]
      OBVIOUS
    <3>2. [c EXCEPT !.streams = w, !.bound = bound] = r
      OBVIOUS
    <3> HIDE DEF c, body, S
    <3> QED BY <2>1, <3>1, <3>2
  <2>3. [c EXCEPT !.streams = Without(@, f.id)] = g
    <3>1. [c EXCEPT !.streams = Without(@, f.id)] = [c EXCEPT !.streams = Without(c.streams, f.id)]
      OBVIOUS
    <3>2. [c EXCEPT !.streams = v] = g
      OBVIOUS
    <3> HIDE DEF c, S
    <3> QED BY <2>1, <3>1, <3>2
  <2> HIDE DEF r, g
  <2> QED BY <2>2, <2>3 DEF HandleData, GivenBack
<1>4. /\ S \in Streams /\ conn[e].sendWindow \in Int
      /\ \A id \in DOMAIN S : id \in Nat /\ id # 0 /\ S[id] \in AnyStream /\ S[id].send \in Int
  BY Purses
<1>5. idle \in Nat /\ body \in Nat /\ bound \in Nat
  <2>1. s.body \in Nat
    <3>1. s \in AnyStream
      BY <1>1, <1>4
    <3> HIDE DEF s
    <3> QED BY <3>1 DEF AnyStream
  <2>2. conn[e].idle \in Nat /\ conn[e].bound \in Nat
    BY <1>2 DEF Connection
  <2> QED BY <1>1, <2>1, <2>2
<1> HIDE DEF body, idle, bound, S
<1>6. t \in AnyStream /\ t.send = s.send /\ t.recv = s.recv
  <2>1. s \in AnyStream
    BY <1>1, <1>4
  <2> HIDE DEF s
  <2> QED BY <1>5, <2>1 DEF AnyStream
<1> HIDE DEF t
<1>7. /\ w \in Streams /\ DOMAIN w = DOMAIN S
      /\ \A id \in DOMAIN S : w[id].send = S[id].send /\ w[id].recv = S[id].recv
  <2>1. /\ w \in Streams /\ DOMAIN w = DOMAIN S /\ w[f.id] = t
        /\ \A x \in DOMAIN S \ {f.id} : w[x] = S[x]
    BY <1>1, <1>4, <1>6, ExceptStream
  <2> HIDE DEF w
  <2> QED BY <1>6, <2>1
<1>8. v \in Streams /\ DOMAIN v = DOMAIN S \ {f.id} /\ \A id \in DOMAIN v : v[id] = S[id]
  <2>1. v \in Streams
    BY <1>4, WithoutStream
  <2> QED BY <2>1 DEF Without
<1> HIDE DEF w, v
<1>9. /\ g \in Connection /\ g.streams = v
      /\ g.sendWindow = conn[e].sendWindow /\ g.recvWindow = conn[e].recvWindow
      /\ g.peerWindow = conn[e].peerWindow /\ g.highest = conn[e].highest
  <2>1. g \in Connection
    BY <1>2, <1>5, <1>8, ZenonT(60) DEF Connection
  <2> QED BY <1>2, <2>1 DEF Connection
<1>10. /\ r \in Connection /\ r.streams = w
       /\ r.sendWindow = conn[e].sendWindow /\ r.recvWindow = conn[e].recvWindow
       /\ r.peerWindow = conn[e].peerWindow /\ r.highest = conn[e].highest
  <2>1. r \in Connection
    BY <1>2, <1>5, <1>7, ZenonT(60) DEF Connection
  <2> QED BY <1>2, <2>1 DEF Connection
<1> HIDE DEF r, g
<1>11. d \in Connection /\ Shrunk(r, d) /\ d.streams = w
  <2> DEFINE n == Buffered(r.streams)
             b == [r EXCEPT !.bound = n]
  <2>1. n \in Nat
    BY <1>7, <1>10, BufferedType
  <2>2. d = r \/ d = b
    BY DEF Rebound
  <2> HIDE DEF n
  <2>3. b \in Connection
    BY <1>10, <2>1, ZenonT(60) DEF Connection
  <2>4. Shrunk(r, b) /\ Shrunk(r, r) /\ b.streams = r.streams
    BY <1>10 DEF Connection, Shrunk
  <2> HIDE DEF b, d, Connection
  <2> QED BY <1>10, <2>2, <2>3, <2>4
<1> HIDE DEF d
<1>12. \A ids : /\ Amount(<< f >>, "DATA", ids) = IF f.id \in ids THEN f.size ELSE 0
                /\ Amount(<< f >>, "WINDOW", ids) = 0
  <2> TAKE ids
  <2> QED BY <1>1, AmountOne
<1>13. /\ back \in Seq(AnyFrame) /\ onto \in Seq(AnyFrame)
       /\ \A ids : /\ Amount(back, "WINDOW", ids) = IF 0 \in ids THEN f.size ELSE 0
                   /\ Amount(back, "DATA", ids) = 0
       /\ \A ids : /\ Amount(onto, "WINDOW", ids) = IF f.id \in ids THEN f.size ELSE 0
                   /\ Amount(onto, "DATA", ids) = 0
       /\ \A i \in DOMAIN back : back[i].type # "SETTINGS"
       /\ \A i \in DOMAIN onto : onto[i].type # "SETTINGS"
  <2> HIDE DEF AnyFrame
  <2>1. /\ back \in Seq(AnyFrame)
        /\ \A ids : /\ Amount(back, "WINDOW", ids) = IF 0 \in ids THEN f.size ELSE 0
                    /\ Amount(back, "DATA", ids) = 0
        /\ \A i \in DOMAIN back : back[i].type # "SETTINGS"
    <3>1. 0 \in Nat
      OBVIOUS
    <3> QED BY <1>1, <3>1, ReturnedAmounts, Zenon
  <2>2. /\ onto \in Seq(AnyFrame)
        /\ \A ids : /\ Amount(onto, "WINDOW", ids) = IF f.id \in ids THEN f.size ELSE 0
                    /\ Amount(onto, "DATA", ids) = 0
        /\ \A i \in DOMAIN onto : onto[i].type # "SETTINGS"
    BY <1>1, ReturnedAmounts, Zenon
  <2> HIDE DEF back, onto
  <2> QED BY <2>1, <2>2
<1>14. /\ reset \in Seq(AnyFrame)
       /\ \A ids : Amount(reset, "WINDOW", ids) = 0 /\ Amount(reset, "DATA", ids) = 0
       /\ \A i \in DOMAIN reset : reset[i].type # "SETTINGS"
  <2>1. Rst(f.id) \in AnyFrame /\ Rst(f.id).type = "RST"
    BY <1>1 DEF AnyFrame, Rst
  <2>2. Uneventful(reset)
    BY <2>1 DEF Uneventful
  <2>3. \A ids : Amount(reset, "WINDOW", ids) = 0 /\ Amount(reset, "DATA", ids) = 0
    BY <2>2, UneventfulAmounts
  <2> HIDE DEF AnyFrame
  <2> QED BY <2>1, <2>3
<1> HIDE DEF back, onto, reset, AnyFrame, Connection
<1>15. /\ \A ids : /\ Amount(back \o onto, "WINDOW", ids)
                        = (IF 0 \in ids THEN f.size ELSE 0) + (IF f.id \in ids THEN f.size ELSE 0)
                   /\ Amount(back \o onto, "DATA", ids) = 0
       /\ \A i \in DOMAIN (back \o onto) : (back \o onto)[i].type # "SETTINGS"
  <2>1. \A i \in DOMAIN (back \o onto) : (back \o onto)[i].type # "SETTINGS"
    BY <1>13, NoSettings
  <2>2. \A ids : /\ Amount(back \o onto, "WINDOW", ids) = Amount(back, "WINDOW", ids) + Amount(onto, "WINDOW", ids)
                 /\ Amount(back \o onto, "DATA", ids) = Amount(back, "DATA", ids) + Amount(onto, "DATA", ids)
    BY <1>13, AmountConcat
  <2> QED BY <1>13, <2>1, <2>2
<1>16. /\ \A ids : /\ Amount(back \o reset, "WINDOW", ids) = IF 0 \in ids THEN f.size ELSE 0
                   /\ Amount(back \o reset, "DATA", ids) = 0
       /\ \A i \in DOMAIN (back \o reset) : (back \o reset)[i].type # "SETTINGS"
  <2>1. \A i \in DOMAIN (back \o reset) : (back \o reset)[i].type # "SETTINGS"
    BY <1>13, <1>14, NoSettings
  <2>2. \A ids : /\ Amount(back \o reset, "WINDOW", ids) = Amount(back, "WINDOW", ids) + Amount(reset, "WINDOW", ids)
                 /\ Amount(back \o reset, "DATA", ids) = Amount(back, "DATA", ids) + Amount(reset, "DATA", ids)
    BY <1>13, <1>14, AmountConcat
  <2> QED BY <1>1, <1>13, <1>14, <2>1, <2>2
<1>17. f.id # 0
  BY <1>1, <1>4
<1>18. Balanced(conn[e], d, << f >>, back \o onto) /\ Told(e, conn[e], d, << f >>)
  <2> DEFINE told == back \o onto
  <2>1. /\ d.sendWindow = conn[e].sendWindow /\ d.recvWindow = conn[e].recvWindow
        /\ d.peerWindow = conn[e].peerWindow /\ d.highest = conn[e].highest
    BY <1>10, <1>11 DEF Shrunk
  <2>2. /\ d.sendWindow + Amount(told, "DATA", Nat) = conn[e].sendWindow + Amount(<< f >>, "WINDOW", {0})
        /\ Amount(told, "WINDOW", {0}) = Amount(<< f >>, "DATA", Nat)
    BY <1>1, <1>4, <1>12, <1>15, <1>17, <2>1
  <2>3. \A id \in DOMAIN S :
            /\ d.streams[id].send + Amount(told, "DATA", {id}) = S[id].send + Amount(<< f >>, "WINDOW", {id})
            /\ Amount(told, "WINDOW", {id}) = Amount(<< f >>, "DATA", {id})
            /\ d.streams[id].recv = S[id].recv
    <3> TAKE id \in DOMAIN S
    <3>1. /\ id # 0 /\ S[id].send \in Int
          /\ d.streams[id].send = S[id].send /\ d.streams[id].recv = S[id].recv
      BY <1>4, <1>7, <1>11
    <3>2. /\ Amount(told, "DATA", {id}) = 0 /\ Amount(<< f >>, "WINDOW", {id}) = 0
          /\ Amount(told, "WINDOW", {id}) = Amount(<< f >>, "DATA", {id})
      BY <1>1, <1>12, <1>15, <3>1
    <3> HIDE DEF told
    <3> QED BY <3>1, <3>2
  <2>4. \A id \in Nat \ DOMAIN S : Amount(<< f >>, "DATA", {id}) = 0
    BY <1>1, <1>12
  <2> HIDE DEF told
  <2> QED BY <1>7, <1>11, <1>15, <2>1, <2>2, <2>3, <2>4 DEF Balanced, Told, S, told
<1>19. Balanced(conn[e], g, << f >>, back \o reset) /\ Told(e, conn[e], g, << f >>)
  <2> DEFINE told == back \o reset
  <2>1. /\ g.sendWindow + Amount(told, "DATA", Nat) = conn[e].sendWindow + Amount(<< f >>, "WINDOW", {0})
        /\ Amount(told, "WINDOW", {0}) = Amount(<< f >>, "DATA", Nat)
    BY <1>1, <1>4, <1>9, <1>12, <1>16
  <2>2. \A id \in DOMAIN v :
            /\ g.streams[id].send + Amount(told, "DATA", {id}) = S[id].send + Amount(<< f >>, "WINDOW", {id})
            /\ Amount(told, "WINDOW", {id}) = Amount(<< f >>, "DATA", {id})
            /\ g.streams[id].recv = S[id].recv
    <3> TAKE id \in DOMAIN v
    <3>1. /\ id # 0 /\ id # f.id /\ S[id].send \in Int
          /\ g.streams[id].send = S[id].send /\ g.streams[id].recv = S[id].recv
      BY <1>4, <1>8, <1>9
    <3>2. /\ Amount(told, "DATA", {id}) = 0 /\ Amount(<< f >>, "WINDOW", {id}) = 0
          /\ Amount(told, "WINDOW", {id}) = Amount(<< f >>, "DATA", {id})
      BY <1>12, <1>16, <3>1
    <3> HIDE DEF told
    <3> QED BY <3>1, <3>2
  <2>3. \A id \in Nat \ DOMAIN S : Amount(<< f >>, "DATA", {id}) = 0
    BY <1>1, <1>12
  <2> HIDE DEF told
  <2> QED BY <1>8, <1>9, <1>16, <2>1, <2>2, <2>3 DEF Balanced, Told, S, told
<1>20. CASE Overload(e, conn[e], <<>>)
  BY <1>1, <1>2, <1>20, OverloadOver, OverAccounted
<1>21. CASE Fail(e, "protocol", <<>>) \/ Fail(e, "limit", back)
  BY <1>1, <1>21, FailOver, OverAccounted DEF Fatal
<1>22. CASE Handled(e, g, None, back \o reset)
  BY <1>1, <1>2, <1>9, <1>19, <1>22, HandledBecame, BecameAccounted
<1>23. CASE Taken(e, d, f.id, TRUE, back \o onto) \/ Handled(e, d, None, back \o onto)
  <2>1. Became(e, d, back \o onto)
    BY <1>1, <1>7, <1>11, <1>23, TakenBecame, HandledBecame
  <2> QED BY <1>1, <1>2, <1>18, <2>1, BecameAccounted
<1> QED BY <1>3, <1>20, <1>21, <1>22, <1>23

\* Whatever frame is taken, `handle` keeps the account.
LEMMA HandleAccounted ==
    ASSUME H2Inv, NEW e \in Endpoints, NEW f \in AnyFrame, Handle(e, f),
           Standing(e) => (f.type = "SETTINGS" => f.window = InitialWindow)
    PROVE  Accounted(e, << f >>)
<1>1. HandleSettings(e, f) => f.type = "SETTINGS"
  BY DEF HandleSettings, Idling
<1> HIDE DEF AnyFrame
<1> QED BY <1>1, HandlePlainAccounted, HandleSettingsAccounted, HandleConnectionCreditAccounted,
           HandleStreamCreditAccounted, HandleHeadersAccounted, HandleContinuationAccounted,
           HandleDataAccounted DEF Handle

-----------------------------------------------------------------------------
(* The pair.                                                               *)

LEMMA PairInit == Init => PairInv /\ asked \in Nat
<1> SUFFICES ASSUME Init PROVE PairInv /\ asked \in Nat
  OBVIOUS
<1> DEFINE new(e) == NewConnection(e)
<1>1. H2Inv
  BY H2InitInv DEF Init
<1>2. wire = [e \in Endpoints |-> <<>>] /\ asked = 0 /\ conn = [e \in Endpoints |-> new(e)]
  BY DEF Init, H2Init
<1>3. wire \in [Endpoints -> Seq(AnyFrame)]
  <2> HIDE DEF AnyFrame
  <2> QED BY <1>2
<1>4. ASSUME NEW e \in Endpoints
      PROVE  /\ wire[e] = <<>> /\ conn[e].streams = <<>> /\ conn[e].highest = 0
             /\ conn[e].nextId \in {1, 2}
             /\ conn[e].sendWindow = InitialWindow /\ conn[e].recvWindow = InitialWindow
             /\ conn[e].peerWindow = InitialWindow
  BY <1>2 DEF NewConnection
<1>5. \A type, ids : Amount(<<>>, type, ids) = 0
  BY AmountNone
<1> HIDE DEF AnyFrame
<1>6. ASSUME NEW e \in Endpoints PROVE Standing(e) /\ Numbered(e) /\ Unheard(e)
  <2>1. Other(e) \in Endpoints
    BY TwoEnds
  <2> QED BY <1>4, <2>1 DEF Standing, Numbered, Unheard
<1>7. ASSUME NEW e \in Endpoints PROVE CreditFrom(e)
  <2>1. Other(e) \in Endpoints
    BY TwoEnds
  <2>2. InitialWindow \in Int
    BY H2Assumption
  <2> QED BY <1>4, <1>5, <2>1, <2>2 DEF CreditFrom
<1> QED BY <1>1, <1>2, <1>3, <1>6, <1>7 DEF PairInv, Agreed, CreditConserved, CreditFrom

\* A step of an end that takes nothing off its wire.
LEMMA OwnStepKeeps ==
    ASSUME PairInv, NEW e \in Endpoints, Accounted(e, <<>>), Transported(wire)
    PROVE  PairInv'
<1> HIDE DEF AnyFrame
<1>1. wire[e] \in Seq(AnyFrame) /\ wire = [wire EXCEPT ![e] = wire[e]] /\ <<>> \in Seq(AnyFrame)
  BY DEF PairInv
<1>2. wire[e] = <<>> \o wire[e]
  BY <1>1
<1> DEFINE rest == wire[e]
<1>3. Transported([wire EXCEPT ![e] = rest])
  BY <1>1
<1> HIDE DEF rest
<1>4. rest \in Seq(AnyFrame) /\ wire[e] = <<>> \o rest
  BY <1>1, <1>2 DEF rest
<1> QED BY <1>1, <1>3, <1>4, AccountKeeps

\* A frame that reaches an end.
LEMMA DeliverKeeps ==
    ASSUME PairInv, NEW e \in Endpoints, Deliver(e)
    PROVE  PairInv'
<1> DEFINE f == Head(wire[e])
           rest == Tail(wire[e])
<1> HIDE DEF AnyFrame
<1>1. /\ wire[e] \in Seq(AnyFrame) /\ wire[e] # <<>> /\ H2Inv
      /\ Transported([wire EXCEPT ![e] = rest])
      /\ StartServer(e, f) \/ Handle(e, f)
  BY DEF Deliver, PairInv
<1>2. /\ f \in AnyFrame /\ rest \in Seq(AnyFrame) /\ wire[e] = << f >> \o rest
      /\ f = wire[e][1] /\ 1 \in DOMAIN wire[e] /\ << f >> \in Seq(AnyFrame)
  BY <1>1
<1>3. Standing(e) => (f.type = "SETTINGS" => f.window = InitialWindow)
  BY <1>2 DEF Standing
<1> HIDE DEF f, rest
<1>4. Accounted(e, << f >>)
  BY <1>1, <1>2, <1>3, StartAccounted, HandleAccounted
<1> QED BY <1>1, <1>2, <1>4, AccountKeeps

LEMMA PairNext == PairInv /\ asked \in Nat /\ [Next]_vars => PairInv' /\ asked' \in Nat
<1> SUFFICES ASSUME PairInv, asked \in Nat, [Next]_vars PROVE PairInv' /\ asked' \in Nat
  OBVIOUS
<1> HIDE DEF AnyFrame, Connection
<1>1. H2Inv /\ Client \in Endpoints /\ Server \in Endpoints
  BY PairAssumption DEF PairInv, Client, Server
<1>2. ASSUME NEW e \in Endpoints, Deliver(e) PROVE PairInv' /\ asked' \in Nat
  <2>1. asked' = asked
    BY <1>2 DEF Deliver
  <2> QED BY <1>2, <2>1, DeliverKeeps
<1>3. ASSUME NEW e \in Endpoints, Write(e) PROVE PairInv' /\ asked' \in Nat
  BY <1>1, <1>3, SendDataAccounted, SendInterruptedAccounted, OwnStepKeeps DEF Write
<1>4. ASSUME NEW e \in Endpoints, Expire(e) PROVE PairInv' /\ asked' \in Nat
  BY <1>1, <1>4, EndAccounted, OwnStepKeeps DEF Expire
<1>5. ASSUME NEW e \in Endpoints, Receive(e) PROVE PairInv' /\ asked' \in Nat
  BY <1>1, <1>5, BeginReceiveAccounted, OwnStepKeeps DEF Receive
<1>6. CASE Serve
  <2> DEFINE m == [Answer EXCEPT !.id = conn[Server].returned.id]
  <2>1. /\ conn[Server].returned # None /\ Transported(wire) /\ asked' = asked
        /\ SendOnGoneStream(Server, m) \/ SendHead(Server, m, FALSE)
    BY <1>6 DEF Serve
  <2>2. m \in AnyMessage
    <3>1. conn[Server] \in Connection
      BY <1>1 DEF H2Inv
    <3>2. conn[Server].returned \in AnyMessage
      BY <2>1, <3>1 DEF Connection
    <3>3. conn[Server].returned.id \in Nat
      BY <3>2 DEF AnyMessage
    <3> QED BY <3>3, PairAssumption DEF AnyMessage
  <2> HIDE DEF m
  <2>3. Accounted(Server, <<>>)
    BY <1>1, <2>1, <2>2, SendOnGoneStreamAccounted, SendHeadAccounted
  <2> QED BY <1>1, <2>1, <2>3, OwnStepKeeps
<1>7. CASE Leave \/ Finished
  <2>1. /\ Close(Server) \/ Close(Client)
        /\ Transported(wire) /\ asked' = asked
    BY <1>7 DEF Leave, Finished
  <2>2. Accounted(Server, <<>>) \/ Accounted(Client, <<>>)
    BY <1>1, <2>1, EndAccounted
  <2> QED BY <1>1, <2>1, <2>2, OwnStepKeeps
<1>8. CASE Connect
  BY <1>1, <1>8, StartAccounted, OwnStepKeeps DEF Connect
<1>9. CASE Ask
  <2> DEFINE m == Asked[asked + 1]
  <2>1. asked < Len(Asked) /\ Transported(wire) /\ asked' = asked + 1
        /\ \E more \in BOOLEAN : SendHead(Client, m, more)
    BY <1>9 DEF Ask
  <2>2. m \in AnyMessage
    <3> HIDE DEF AnyMessage
    <3> QED BY <2>1, PairAssumption
  <2> HIDE DEF m
  <2>3. Accounted(Client, <<>>)
    BY <1>1, <2>1, <2>2, SendHeadAccounted
  <2> QED BY <1>1, <2>1, <2>3, OwnStepKeeps
<1>10. CASE Look
  <2>1. /\ Free(Client) /\ Transported(wire) /\ asked' = asked
        /\ Step(Client, [conn[Client] EXCEPT !.returned = None], <<>>)
    BY <1>10 DEF Look
  <2>2. Accounted(Client, <<>>)
    BY <1>1, <2>1, LookAccounted
  <2> QED BY <1>1, <2>1, <2>2, OwnStepKeeps
<1>11. CASE Reset
  BY <1>1, <1>11, ResetStreamAccounted, OwnStepKeeps DEF Reset
<1>12. CASE UNCHANGED vars
  <2>1. /\ H2Inv' /\ wire' = wire /\ asked' = asked /\ conn' = conn
    <3>1. conn' = conn /\ out' = out /\ wire' = wire /\ asked' = asked
      BY <1>12 DEF vars
    <3> QED BY <1>1, <3>1 DEF H2Inv, Steady, Ids, Window
  <2> QED BY <2>1 DEF PairInv, Well, Agreed, CreditConserved, Standing, Numbered, Unheard, Failed, Known
<1>13. CASE Done
  BY <1>12, <1>13 DEF Done
<1> QED BY <1>1, <1>2, <1>3, <1>4, <1>5, <1>6, <1>7, <1>8, <1>9, <1>10, <1>11, <1>12, <1>13
        DEF Next, ServerLoop, ClientLoop, Wait

\* Flow control credit is neither lost nor made, on the connection and on every
\* stream both ends know, whatever is sent, reset, refused or timed out, and for
\* any windows and frames sizes.
THEOREM CreditConservedHolds == Spec => []CreditConserved
<1>1. Init => PairInv /\ asked \in Nat
  BY PairInit
<1>2. PairInv /\ asked \in Nat /\ [Next]_vars => (PairInv /\ asked \in Nat)'
  BY PairNext
<1>3. PairInv => CreditConserved
  BY DEF PairInv, CreditConserved
<1> QED BY <1>1, <1>2, <1>3, PTL DEF Spec

\* The state of both ends keeps its type and the agreement of its fields.
THEOREM PairTypeHolds == Spec => []H2Inv
<1>1. Init => PairInv /\ asked \in Nat
  BY PairInit
<1>2. PairInv /\ asked \in Nat /\ [Next]_vars => (PairInv /\ asked \in Nat)'
  BY PairNext
<1>3. PairInv => H2Inv
  BY DEF PairInv
<1> QED BY <1>1, <1>2, <1>3, PTL DEF Spec

=============================================================================

---------------------------- MODULE ServerProofs ----------------------------
(***************************************************************************)
(* What holds of the Server for any number of connections and ports:       *)
(* permits follow their connections, places in the queues suffice, and     *)
(* close is final.                                                         *)
(***************************************************************************)
EXTENDS Server, FiniteSetTheorems, TLAPS

-----------------------------------------------------------------------------
(* What close relies on: a connection that was taken is with a loop that   *)
(* is about to spawn it, the tasks are only locked after the loops have    *)
(* ended, and drained after that.  A queue holds its own port's outcomes,  *)
(* and a connection that was admitted is the one its loop is placing.      *)

Mine(p) == {c \in Conns : PortOf[c] = p}

QueuesOwn == \A p \in Ports : queue[p] \in Seq(Mine(p))

CloseInv ==
    /\ \A c \in Conns : stage[c] = "taken" => loop[PortOf[c]] = "spawning"
    /\ Locked => Stopped
    /\ handle = "closed" => At("running") = {}

PlacingOne ==
    \A c \in At("admitted") :
        /\ loop[PortOf[c]] = "placing"
        /\ \A d \in At("admitted") : PortOf[d] = PortOf[c] => d = c

IInv == TypeOK /\ PermitsFollow /\ QueuesOwn /\ CloseInv /\ PlacingOne

LEMMA InvInit == Init => IInv
<1> SUFFICES ASSUME Init PROVE IInv
  OBVIOUS
<1>1. DOMAIN permits = {}
  BY DEF Init, Gate!Init
<1>2. TypeOK
  BY <1>1, ServerAssumption DEF Init, TypeOK, Stages, Loops, Handles
<1>3. PermitsFollow
  BY <1>1 DEF Init, PermitsFollow
<1>4. QueuesOwn
  BY DEF Init, QueuesOwn
<1>5. CloseInv
  BY DEF Init, CloseInv, Locked
<1>6. PlacingOne
  BY DEF Init, PlacingOne, At
<1> QED BY <1>2, <1>3, <1>4, <1>5, <1>6 DEF IInv

\* A step that leaves every loop that places, and admits nothing, still places
\* the same one.
LEMMA PlacingSame ==
    ASSUME IInv,
           \A c \in At("admitted")' : c \in At("admitted") /\ loop'[PortOf[c]] = loop[PortOf[c]]
    PROVE  PlacingOne'
BY DEF IInv, PlacingOne

\* Losing connections takes their permits with them, and leaves none that
\* was not lost in another stage.
LEMMA LoseKeeps ==
    ASSUME IInv, NEW cs, Lose(cs), handle' = handle \/ ~Locked'
    PROVE  /\ stage' \in [Conns -> Stages]
           /\ DOMAIN permits' \subseteq Conns
           /\ \A c \in DOMAIN permits' : permits'[c] = AddressOf[c]
           /\ PermitsFollow'
           /\ \A c \in Conns : stage'[c] = "taken" => stage[c] = "taken"
           /\ At("running")' \subseteq At("running") /\ At("admitted")' \subseteq At("admitted")
<1>1. /\ DOMAIN permits' = DOMAIN permits \ cs
      /\ \A c \in DOMAIN permits' : permits'[c] = permits[c]
      /\ stage' = [c \in Conns |-> IF c \in cs THEN "gone" ELSE stage[c]]
  BY DEF Lose
<1> QED BY <1>1 DEF IInv, TypeOK, PermitsFollow, At, Stages

LEMMA InvLook ==
    ASSUME IInv, NEW p \in Ports, Look(p)
    PROVE  IInv'
<1>1. /\ loop[p] = "looking" /\ loop' \in {[loop EXCEPT ![p] = "open"], [loop EXCEPT ![p] = "full"]}
      /\ UNCHANGED << permits, stage, queue, handle >>
  BY DEF Look, Go
<1>2. TypeOK'
  BY <1>1 DEF IInv, TypeOK, Loops
<1>a. /\ loop'[p] \in {"open", "full"}
      /\ \A q \in Ports : q # p => loop'[q] = loop[q]
  BY <1>1 DEF IInv, TypeOK
<1>3. CloseInv'
  BY <1>1, <1>a, ServerAssumption DEF IInv, CloseInv, Locked, Stopped, At
<1>4. PlacingOne'
  BY <1>1, <1>a, ServerAssumption DEF IInv, PlacingOne, At
<1> QED BY <1>1, <1>2, <1>3, <1>4 DEF IInv, PermitsFollow, QueuesOwn

LEMMA InvAccept ==
    ASSUME IInv, NEW c \in Conns, Accept(c)
    PROVE  IInv'
<1> DEFINE p == PortOf[c]
<1>1. /\ stage[c] = "new" /\ stage' = [stage EXCEPT ![c] = "admitted"]
      /\ loop[p] = "open" /\ loop' = [loop EXCEPT ![p] = "placing"] /\ p \in Ports
      /\ UNCHANGED << queue, handle >>
      /\ c \notin DOMAIN permits
      /\ permits' = [d \in DOMAIN permits \cup {c} |-> IF d = c THEN AddressOf[c] ELSE permits[d]]
  BY ServerAssumption DEF Accept, Arrives, Move, Go, Gate!Admit
<1>2. TypeOK'
  BY <1>1 DEF IInv, TypeOK, Stages, Loops
<1>3. PermitsFollow'
  BY <1>1 DEF IInv, TypeOK, PermitsFollow
<1>4. CloseInv'
  BY <1>1 DEF IInv, TypeOK, CloseInv, Locked, Stopped, At
<1>5. QueuesOwn'
  BY <1>1 DEF IInv, QueuesOwn
<1>6. PlacingOne'
  BY <1>1 DEF IInv, TypeOK, PlacingOne, At
<1> QED BY <1>2, <1>3, <1>4, <1>5, <1>6 DEF IInv

LEMMA InvRefuse ==
    ASSUME IInv, NEW c \in Conns, Refuse(c)
    PROVE  IInv'
<1> DEFINE p == PortOf[c]
<1>1. /\ stage[c] = "new" /\ stage' = [stage EXCEPT ![c] = "refused"]
      /\ loop[p] = "open" /\ loop' = [loop EXCEPT ![p] = "looking"] /\ p \in Ports
      /\ UNCHANGED << permits, queue, handle >>
  BY ServerAssumption DEF Refuse, Arrives, Move, Go
<1>2. TypeOK' /\ PermitsFollow' /\ QueuesOwn'
  BY <1>1 DEF IInv, TypeOK, Stages, Loops, PermitsFollow, QueuesOwn
<1>3. CloseInv'
  BY <1>1 DEF IInv, TypeOK, CloseInv, Locked, Stopped, At
<1>4. PlacingOne'
  BY <1>1 DEF IInv, TypeOK, PlacingOne, At
<1> QED BY <1>2, <1>3, <1>4 DEF IInv

\* The connection that is placed negotiates, or is refused and drops its permit.
LEMMA InvPlace ==
    ASSUME IInv, NEW p \in Ports, Place(p)
    PROVE  IInv'
<1>1. PICK c \in At("admitted") :
        /\ PortOf[c] = p
        /\ \/ Move(c, "negotiating") /\ UNCHANGED permits
           \/ Move(c, "refused") /\ Gate!Drop(c)
  BY DEF Place
<1>2. /\ c \in Conns /\ stage[c] = "admitted"
      /\ loop[p] = "placing" /\ loop' = [loop EXCEPT ![p] = "looking"] /\ UNCHANGED << queue, handle >>
  BY DEF Place, Go, At
<1>3. /\ \/ stage' = [stage EXCEPT ![c] = "negotiating"] /\ permits' = permits
         \/ stage' = [stage EXCEPT ![c] = "refused"] /\ permits' = [d \in DOMAIN permits \ {c} |-> permits[d]]
      /\ \A d \in Conns : d # c => stage'[d] = stage[d]
  BY <1>1, <1>2 DEF Move, Gate!Drop, IInv, TypeOK
<1>4. TypeOK'
  BY <1>2, <1>3 DEF IInv, TypeOK, Stages, Loops
<1>5. PermitsFollow'
  BY <1>2, <1>3 DEF IInv, TypeOK, PermitsFollow
<1>6. QueuesOwn'
  BY <1>2 DEF IInv, QueuesOwn
<1>7. CloseInv'
  BY <1>2, <1>3 DEF IInv, TypeOK, CloseInv, Locked, Stopped, At
<1>8. PlacingOne'
  <2>1. \A d \in At("admitted")' : d \in At("admitted") /\ d # c
    BY <1>2, <1>3 DEF At, IInv, TypeOK
  <2>2. \A d \in At("admitted") : d # c => PortOf[d] # p
    BY <1>1 DEF IInv, PlacingOne
  <2>3. \A d \in At("admitted")' : loop'[PortOf[d]] = loop[PortOf[d]]
    BY <1>2, <2>1, <2>2 DEF IInv, TypeOK
  <2> QED BY <2>1, <2>3, PlacingSame
<1> QED BY <1>4, <1>5, <1>6, <1>7, <1>8 DEF IInv

\* Whether the outcome is queued, failed or dropped, its permit follows.
LEMMA InvNegotiationEnds ==
    ASSUME IInv, NEW c \in Conns, NegotiationEnds(c)
    PROVE  IInv'
<1> DEFINE p == PortOf[c]
<1>0. stage[c] = "negotiating" /\ UNCHANGED << loop, handle >> /\ p \in Ports
  BY ServerAssumption DEF NegotiationEnds
<1>q. QueuesOwn'
  <2>1. <<>> \in Seq(Mine(p)) /\ Append(queue[p], c) \in Seq(Mine(p))
    BY <1>0 DEF IInv, QueuesOwn, Mine
  <2>2. queue' \in {[queue EXCEPT ![p] = <<>>], [queue EXCEPT ![p] = Append(@, c)]}
    BY DEF NegotiationEnds
  <2> QED BY <1>0, <2>1, <2>2 DEF IInv, TypeOK, QueuesOwn
<1>r. PlacingOne'
  <2>1. At("admitted")' \subseteq At("admitted")
    BY <1>0 DEF NegotiationEnds, Lose, Move, At, IInv, TypeOK
  <2> QED BY <1>0, <2>1, PlacingSame
<1>1. CASE Lose({c} \cup ToSet(queue[p])) /\ queue' = [queue EXCEPT ![p] = <<>>]
  <2>1. TypeOK'
    BY <1>0, <1>1, LoseKeeps DEF IInv, TypeOK
  <2>2. CloseInv'
    BY <1>0, <1>1, LoseKeeps DEF IInv, TypeOK, CloseInv, Locked, Stopped
  <2> QED BY <1>0, <1>1, <2>1, <2>2, <1>q, <1>r, LoseKeeps DEF IInv
<1>2. CASE /\ queue' = [queue EXCEPT ![p] = Append(@, c)]
           /\ stage' = [stage EXCEPT ![c] = "negotiated"] /\ UNCHANGED permits
  <2>1. TypeOK'
    BY <1>0, <1>2 DEF IInv, TypeOK, Stages
  <2>2. PermitsFollow'
    BY <1>0, <1>2 DEF IInv, TypeOK, PermitsFollow
  <2>3. CloseInv'
    BY <1>0, <1>2 DEF IInv, TypeOK, CloseInv, Locked, Stopped, At
  <2> QED BY <2>1, <2>2, <2>3, <1>q, <1>r DEF IInv
<1>3. CASE /\ queue' = [queue EXCEPT ![p] = Append(@, c)]
           /\ stage' = [stage EXCEPT ![c] = "failed"] /\ Gate!Drop(c)
  <2>0. permits' = [d \in DOMAIN permits \ {c} |-> permits[d]]
    BY <1>3 DEF Gate!Drop
  <2>1. TypeOK'
    BY <1>0, <1>3, <2>0 DEF IInv, TypeOK, Stages
  <2>2. PermitsFollow'
    BY <1>0, <1>3, <2>0 DEF IInv, TypeOK, PermitsFollow
  <2>3. CloseInv'
    BY <1>0, <1>3 DEF IInv, TypeOK, CloseInv, Locked, Stopped, At
  <2> QED BY <2>1, <2>2, <2>3, <1>q, <1>r DEF IInv
<1> QED BY <1>1, <1>2, <1>3 DEF NegotiationEnds, Move

\* Passing a failed outcome over, and taking a good one.
LEMMA InvTake ==
    ASSUME IInv, NEW p \in Ports, Discard(p) \/ Take(p)
    PROVE  IInv'
<1> DEFINE c == Head(queue[p])
<1>1. /\ queue[p] \in Seq(Conns) /\ queue[p] # <<>>
      /\ loop[p] \in {"open", "full"} /\ UNCHANGED << permits, handle >>
      /\ queue' = [queue EXCEPT ![p] = Tail(@)]
  BY DEF IInv, TypeOK, Discard, Take, Selecting
<1>2. c \in Mine(p) /\ Tail(queue[p]) \in Seq(Mine(p)) /\ Tail(queue[p]) \in Seq(Conns)
  <2>1. queue[p] \in Seq(Mine(p))
    BY DEF IInv, QueuesOwn
  <2> QED BY <1>1, <2>1
<1>3. ~Locked
  BY <1>1 DEF IInv, CloseInv, Stopped
<1>q. QueuesOwn'
  BY <1>1, <1>2 DEF IInv, TypeOK, QueuesOwn
<1>r. ASSUME NEW s, s # "admitted", stage' = [stage EXCEPT ![c] = s],
             NEW l, loop' = [loop EXCEPT ![p] = l]
      PROVE  PlacingOne'
  <2>1. \A d \in At("admitted")' : d \in At("admitted")
    BY <1>2, <1>r DEF At, IInv, TypeOK, Mine
  <2>2. \A d \in At("admitted") : PortOf[d] # p
    BY <1>1 DEF IInv, PlacingOne
  <2>3. \A d \in At("admitted") : loop'[PortOf[d]] = loop[PortOf[d]]
    BY <1>r, <2>2 DEF IInv, TypeOK
  <2> QED BY <2>1, <2>3, PlacingSame
<1> HIDE DEF c
<1>4. ASSUME stage[c] = "failed", stage' = [stage EXCEPT ![c] = "gone"],
             loop' = [loop EXCEPT ![p] = "looking"]
      PROVE  IInv'
  <2>1. TypeOK'
    BY <1>1, <1>2, <1>4 DEF IInv, TypeOK, Stages, Loops, Mine
  <2>2. PermitsFollow'
    BY <1>1, <1>2, <1>4 DEF IInv, TypeOK, PermitsFollow, Mine
  <2>3. CloseInv'
    BY <1>1, <1>2, <1>3, <1>4 DEF IInv, TypeOK, CloseInv, Locked, At, Mine
  <2>4. PlacingOne'
    BY <1>4, <1>r
  <2> QED BY <2>1, <2>2, <2>3, <2>4, <1>q DEF IInv
<1>5. ASSUME stage[c] = "negotiated", stage' = [stage EXCEPT ![c] = "taken"],
             loop' = [loop EXCEPT ![p] = "spawning"]
      PROVE  IInv'
  <2>1. TypeOK'
    BY <1>1, <1>2, <1>5 DEF IInv, TypeOK, Stages, Loops, Mine
  <2>2. PermitsFollow'
    BY <1>1, <1>2, <1>5 DEF IInv, TypeOK, PermitsFollow, Mine
  <2>3. CloseInv'
    BY <1>1, <1>2, <1>3, <1>5 DEF IInv, TypeOK, CloseInv, Locked, At, Mine
  <2>4. PlacingOne'
    BY <1>5, <1>r
  <2> QED BY <2>1, <2>2, <2>3, <2>4, <1>q DEF IInv
<1> QED BY <1>4, <1>5 DEF Discard, Take, Move, Go, c

\* A loop that spawns leaves nothing taken behind at its port.
LEMMA InvSpawn ==
    ASSUME IInv, NEW p \in Ports, Spawn(p)
    PROVE  IInv'
<1>1. /\ loop[p] = "spawning" /\ loop' = [loop EXCEPT ![p] = "looking"] /\ ~Locked
      /\ stage' = [c \in Conns |->
            IF stage[c] = "taken" /\ PortOf[c] = p THEN "running" ELSE stage[c]]
      /\ UNCHANGED << permits, queue, handle >>
  BY DEF Spawn, Go
<1>2. TypeOK'
  BY <1>1 DEF IInv, TypeOK, Stages, Loops
<1>3. PermitsFollow'
  BY <1>1 DEF IInv, TypeOK, PermitsFollow
<1>4. CloseInv'
  BY <1>1 DEF IInv, TypeOK, CloseInv, Locked
<1>5. QueuesOwn'
  BY <1>1 DEF IInv, QueuesOwn
<1>6. PlacingOne'
  <2>1. \A d \in At("admitted")' : d \in At("admitted")
    BY <1>1 DEF At, IInv, TypeOK
  <2>2. \A d \in At("admitted") : PortOf[d] # p
    BY <1>1 DEF IInv, PlacingOne
  <2>3. \A d \in At("admitted") : loop'[PortOf[d]] = loop[PortOf[d]]
    BY <1>1, <2>2 DEF IInv, TypeOK
  <2> QED BY <2>1, <2>3, PlacingSame
<1> QED BY <1>2, <1>3, <1>4, <1>5, <1>6 DEF IInv

\* A loop ends between two connections, so none it had taken is left.
LEMMA InvEnd ==
    ASSUME IInv, NEW p \in Ports, NEW how \in {"stopped", "broken"},
           loop[p] \in {"looking", "open", "full"}, End(p, how)
    PROVE  IInv'
<1>1. /\ loop[p] \notin {"placing", "spawning"} /\ loop' = [loop EXCEPT ![p] = how]
      /\ Lose(ToSet(queue[p])) /\ queue' = [queue EXCEPT ![p] = <<>>]
      /\ UNCHANGED handle
  BY DEF End, Go
<1>2. TypeOK'
  BY <1>1, LoseKeeps DEF IInv, TypeOK, Loops
<1>3. CloseInv'
  BY <1>1, LoseKeeps DEF IInv, TypeOK, CloseInv, Locked, Stopped
<1>4. QueuesOwn'
  BY <1>1 DEF IInv, TypeOK, QueuesOwn
<1>5. PlacingOne'
  <2>1. \A d \in At("admitted")' : d \in At("admitted")
    BY <1>1, LoseKeeps
  <2>2. \A d \in At("admitted") : PortOf[d] # p
    BY <1>1 DEF IInv, PlacingOne
  <2>3. \A d \in At("admitted") : loop'[PortOf[d]] = loop[PortOf[d]]
    BY <1>1, <2>2 DEF IInv, TypeOK
  <2> QED BY <2>1, <2>3, PlacingSame
<1> QED BY <1>1, <1>2, <1>3, <1>4, <1>5, LoseKeeps DEF IInv

\* A handler that returns or is aborted.
LEMMA InvOver ==
    ASSUME IInv, NEW c \in Conns, Finish(c) \/ Abort(c)
    PROVE  IInv'
<1>1. Lose({c}) /\ UNCHANGED << queue, loop, handle >>
  BY DEF Finish, Abort
<1>2. TypeOK'
  BY <1>1, LoseKeeps DEF IInv, TypeOK
<1>3. CloseInv'
  BY <1>1, LoseKeeps DEF IInv, TypeOK, CloseInv, Locked, Stopped
<1>4. QueuesOwn'
  BY <1>1 DEF IInv, QueuesOwn
<1>5. PlacingOne'
  <2>1. At("admitted")' \subseteq At("admitted")
    BY <1>1, LoseKeeps
  <2> QED BY <1>1, <2>1, PlacingSame
<1> QED BY <1>1, <1>2, <1>3, <1>4, <1>5, LoseKeeps DEF IInv

\* The handle turns; only a drained set of tasks is left behind.
LEMMA InvHandle ==
    ASSUME IInv, HandleSteps \/ CloseBegins \/ Dropped
    PROVE  IInv'
<1>1. /\ UNCHANGED << permits, stage, queue, loop >>
      /\ handle' \in Handles
      /\ Locked' => Locked \/ Stopped
      /\ handle' = "closed" => At("running") = {}
  BY DEF HandleSteps, Lock, Drained, Expire, CloseBegins, Dropped, Turn, Locked, Handles
<1> QED BY <1>1 DEF IInv, TypeOK, PermitsFollow, QueuesOwn, CloseInv, PlacingOne, Stopped, At

LEMMA InvNext == IInv /\ [Next]_vars => IInv'
<1> SUFFICES ASSUME IInv, [Next]_vars PROVE IInv'
  OBVIOUS
<1>1. ASSUME UNCHANGED vars
      PROVE  IInv'
  BY <1>1 DEF vars, IInv, TypeOK, PermitsFollow, QueuesOwn, CloseInv, PlacingOne, Locked, Stopped, At
<1>2. ASSUME NEW p \in Ports, LoopSteps(p) \/ Stop(p) \/ AcceptFails(p)
      PROVE  IInv'
  BY <1>2, InvLook, InvPlace, InvTake, InvSpawn, InvEnd DEF LoopSteps, Stop, AcceptFails, Selecting
<1> QED BY <1>1, <1>2, InvAccept, InvRefuse, InvNegotiationEnds, InvOver, InvHandle DEF Next

-----------------------------------------------------------------------------
(* The places in the queues.  A place seen free is only taken by the loop  *)
(* that saw it: the end of a negotiation turns a reservation into an       *)
(* outcome, or gives both up.                                              *)

\* What was seen lasts until it is used.
SeenFree ==
    /\ \A p \in Ports : loop[p] = "open" => Free(p)
    /\ PlacesSuffice

LEMMA NegotiatingFinite ==
    ASSUME NEW p
    PROVE  IsFiniteSet(Negotiating(p)) /\ Cardinality(Negotiating(p)) \in Nat
<1>1. Negotiating(p) \subseteq Conns
  BY DEF Negotiating, At
<1> QED BY <1>1, ServerAssumption, FS_Subset, FS_CardinalityType

\* Places stay free at a port that gains neither an outcome nor a reservation.
LEMMA PortShrinks ==
    ASSUME TypeOK, TypeOK', NEW p \in Ports, Free(p),
           Len(queue'[p]) <= Len(queue[p]), Negotiating(p)' \subseteq Negotiating(p)
    PROVE  Free(p)'
<1>1. /\ Cardinality(Negotiating(p)') <= Cardinality(Negotiating(p))
      /\ Cardinality(Negotiating(p)') \in Nat
  BY NegotiatingFinite, FS_Subset, FS_CardinalityType
<1>2. Len(queue[p]) \in Nat /\ Len(queue'[p]) \in Nat
  BY DEF TypeOK
<1> QED BY <1>1, <1>2, NegotiatingFinite, ServerAssumption DEF Free

\* An outcome takes the place its negotiation had.
LEMMA OutcomeFits ==
    ASSUME IInv, IInv', NEW c \in Conns, NegotiationEnds(c), NEW q \in Ports, Free(q)
    PROVE  Free(q)'
<1> DEFINE p == PortOf[c]
<1>1. /\ stage[c] = "negotiating" /\ p \in Ports
      /\ TypeOK /\ TypeOK'
  BY ServerAssumption DEF NegotiationEnds, IInv
<1>2. /\ \A d \in Conns : stage'[d] = "negotiating" => stage[d] = "negotiating" /\ d # c
      /\ queue' = [queue EXCEPT ![p] = <<>>] \/ queue' = [queue EXCEPT ![p] = Append(@, c)]
  BY <1>1 DEF NegotiationEnds, Lose, Move, TypeOK
<1>3. Negotiating(q)' \subseteq Negotiating(q) \ {c}
  BY <1>2 DEF Negotiating, At
<1>4. CASE Len(queue'[q]) <= Len(queue[q])
  BY <1>1, <1>3, <1>4, PortShrinks
<1>5. CASE queue' = [queue EXCEPT ![p] = Append(@, c)] /\ q = p
  <2>1. c \in Negotiating(p) /\ IsFiniteSet(Negotiating(p))
    BY <1>1, NegotiatingFinite DEF Negotiating, At
  <2>2. /\ Cardinality(Negotiating(p) \ {c}) = Cardinality(Negotiating(p)) - 1
        /\ IsFiniteSet(Negotiating(p) \ {c})
    BY <2>1, FS_RemoveElement
  <2>3. /\ Cardinality(Negotiating(p)') <= Cardinality(Negotiating(p)) - 1
        /\ Cardinality(Negotiating(p)') \in Nat
    BY <1>3, <1>5, <2>2, FS_Subset, FS_CardinalityType
  <2>4. Len(queue'[p]) = Len(queue[p]) + 1 /\ Len(queue[p]) \in Nat
    BY <1>1, <1>5 DEF TypeOK
  <2> QED BY <1>1, <1>5, <2>3, <2>4, NegotiatingFinite, ServerAssumption DEF Free
<1>6. ASSUME q # p \/ queue' = [queue EXCEPT ![p] = <<>>]
      PROVE  Len(queue'[q]) <= Len(queue[q])
  <2>1. queue[q] \in Seq(Conns) /\ queue'[q] \in {queue[q], <<>>}
    BY <1>1, <1>2, <1>6 DEF TypeOK
  <2> QED BY <2>1
<1> QED BY <1>2, <1>4, <1>5, <1>6

\* Nothing but a place being taken by Place(p) makes Free(p) false.
LEMMA FreeLasts ==
    ASSUME IInv, IInv', Next, NEW q \in Ports, Free(q)
    PROVE  Free(q)' \/ Place(q)
<1>0. TypeOK /\ TypeOK'
  BY DEF IInv
<1>1. ASSUME Len(queue'[q]) <= Len(queue[q]),
             \A d \in Conns : PortOf[d] = q /\ stage'[d] = "negotiating" => stage[d] = "negotiating"
      PROVE  Free(q)'
  <2>1. Negotiating(q)' \subseteq Negotiating(q)
    BY <1>1 DEF Negotiating, At
  <2> QED BY <1>0, <1>1, <2>1, PortShrinks
<1>q. ASSUME queue' = queue
      PROVE  Len(queue'[q]) <= Len(queue[q])
  BY <1>0, <1>q DEF TypeOK
<1>2. ASSUME NEW c \in Conns, Accept(c) \/ Refuse(c) \/ Finish(c) \/ Abort(c)
      PROVE  Free(q)'
  BY <1>0, <1>1, <1>2, <1>q DEF Accept, Refuse, Arrives, Finish, Abort, Lose, Move, TypeOK
<1>3. ASSUME NEW p \in Ports, Discard(p) \/ Take(p)
      PROVE  Free(q)'
  <2>1. /\ queue' = [queue EXCEPT ![p] = Tail(@)] /\ queue[p] # <<>>
        /\ \A d \in Conns : stage'[d] = "negotiating" => stage[d] = "negotiating"
    BY <1>0, <1>3 DEF Discard, Take, Move, TypeOK
  <2>2. Len(queue'[q]) <= Len(queue[q])
    BY <1>0, <2>1 DEF TypeOK
  <2> QED BY <1>1, <2>1, <2>2
<1>4. ASSUME NEW p \in Ports, Spawn(p) \/ Look(p)
      PROVE  Free(q)'
  BY <1>0, <1>1, <1>4, <1>q DEF Spawn, Look, TypeOK
<1>5. ASSUME NEW p \in Ports, Stop(p) \/ AcceptFails(p)
      PROVE  Free(q)'
  <2>1. /\ queue' = [queue EXCEPT ![p] = <<>>]
        /\ \A d \in Conns : stage'[d] = "negotiating" => stage[d] = "negotiating"
    BY <1>0, <1>5 DEF Stop, AcceptFails, End, Lose, TypeOK
  <2>2. Len(queue'[q]) <= Len(queue[q])
    BY <1>0, <2>1 DEF TypeOK
  <2> QED BY <1>1, <2>1, <2>2
<1>6. ASSUME HandleSteps \/ CloseBegins \/ Dropped
      PROVE  Free(q)'
  BY <1>1, <1>6, <1>q DEF HandleSteps, Lock, Drained, Expire, CloseBegins, Dropped, Turn
<1>7. ASSUME NEW p \in Ports, Place(p), p # q
      PROVE  Free(q)'
  <2>1. /\ queue' = queue
        /\ \A d \in Conns : PortOf[d] = q /\ stage'[d] = "negotiating" => stage[d] = "negotiating"
    BY <1>0, <1>7 DEF Place, Move, TypeOK
  <2> QED BY <1>1, <1>q, <2>1
<1> QED BY <1>2, <1>3, <1>4, <1>5, <1>6, <1>7, OutcomeFits DEF Next, LoopSteps

LEMMA SeenNext == IInv /\ IInv' /\ SeenFree /\ [Next]_vars => SeenFree'
<1> SUFFICES ASSUME IInv, IInv', SeenFree, [Next]_vars PROVE SeenFree'
  OBVIOUS
<1>0. TypeOK /\ TypeOK' /\ PlacingOne /\ PlacingOne'
  BY DEF IInv
<1>1. CASE UNCHANGED vars
  BY <1>1 DEF vars, SeenFree, PlacesSuffice, Free, Negotiating, At
<1>2. CASE Next
  <2>1. ASSUME NEW p \in Ports, loop'[p] = "open"
        PROVE  Free(p)'
    <3>1. loop[p] = "open" \/ (Look(p) /\ Free(p))
      BY <1>0, <1>2, <2>1
         DEF Next, LoopSteps, Accept, Refuse, Arrives, NegotiationEnds, Finish, Abort, Look, Place, Discard,
             Take, Spawn, Stop, AcceptFails, End, HandleSteps, Lock, Drained, Expire, CloseBegins, Dropped,
             Turn, Go, TypeOK
    <3>2. Free(p) /\ ~Place(p)
      BY <3>1 DEF SeenFree, Place, Look
    <3> QED BY <1>2, <3>2, FreeLasts
  <2>2. ASSUME NEW c \in At("admitted")'
        PROVE  Free(PortOf[c])'
    <3> DEFINE p == PortOf[c]
    <3>1. p \in Ports /\ c \in Conns /\ loop'[p] = "placing"
      BY <1>0, <2>2, ServerAssumption DEF PlacingOne, At
    <3>2. ~Place(p)
      BY <1>0, <3>1 DEF Place, Go, TypeOK
    <3>3. c \in At("admitted") \/ Accept(c)
      <4> SUFFICES ASSUME stage[c] # "admitted"
                   PROVE  Accept(c)
        BY <3>1 DEF At
      <4>0. stage'[c] = "admitted" /\ stage \in [Conns -> Stages]
        BY <1>0, <2>2 DEF At, TypeOK
      <4>1. ASSUME NEW d \in Conns, Refuse(d) \/ Finish(d) \/ Abort(d) \/ NegotiationEnds(d)
            PROVE  FALSE
        BY <3>1, <4>0, <4>1 DEF Refuse, Finish, Abort, NegotiationEnds, Move, Lose
      <4>2. ASSUME NEW d \in Conns, Accept(d)
            PROVE  d = c
        BY <3>1, <4>0, <4>2 DEF Accept, Move
      <4>3. ASSUME NEW q \in Ports, LoopSteps(q) \/ Stop(q) \/ AcceptFails(q)
            PROVE  FALSE
        <5>1. CASE Look(q) \/ Spawn(q)
          BY <3>1, <4>0, <5>1 DEF Look, Spawn
        <5>2. CASE Place(q)
          BY <3>1, <4>0, <5>2 DEF Place, Move
        <5>3. CASE Discard(q) \/ Take(q)
          BY <3>1, <4>0, <5>3 DEF Discard, Take, Move
        <5>4. CASE Stop(q) \/ AcceptFails(q)
          BY <3>1, <4>0, <5>4 DEF Stop, AcceptFails, End, Lose
        <5> QED BY <4>3, <5>1, <5>2, <5>3, <5>4 DEF LoopSteps
      <4>4. ASSUME HandleSteps \/ CloseBegins \/ Dropped
            PROVE  FALSE
        BY <4>0, <4>4 DEF HandleSteps, Lock, Drained, Expire, CloseBegins, Dropped, Turn
      <4> QED BY <1>2, <4>1, <4>2, <4>3, <4>4 DEF Next
    <3>4. Free(p)
      BY <3>1, <3>3 DEF SeenFree, PlacesSuffice, Accept, Arrives
    <3> QED BY <1>2, <3>1, <3>2, <3>4, FreeLasts
  <2> QED BY <2>1, <2>2 DEF SeenFree, PlacesSuffice
<1> QED BY <1>1, <1>2

-----------------------------------------------------------------------------
(* The theorems.                                                           *)

\* The variables keep their types; in particular every permit alive was
\* issued for the address its connection comes from.
THEOREM TypeCorrect == Spec => []TypeOK
<1>1. IInv => TypeOK
  BY DEF IInv
<1> QED BY InvInit, InvNext, <1>1, PTL DEF Spec

\* However negotiations fail, listeners break and handlers end, a permit is
\* alive exactly as long as its connection.
THEOREM PermitsFollowConnections == Spec => []PermitsFollow
<1>1. IInv => PermitsFollow
  BY DEF IInv
<1> QED BY InvInit, InvNext, <1>1, PTL DEF Spec

\* When close returns, every loop has ended and no handler runs or is about
\* to be spawned.
THEOREM ClosingIsFinal == Spec => []CloseIsFinal
<1>1. IInv => CloseIsFinal
  BY ServerAssumption DEF IInv, CloseInv, CloseIsFinal, Locked, Stopped, At
<1> QED BY InvInit, InvNext, <1>1, PTL DEF Spec

\* What the listener saw free before it waited for the socket is free when it
\* reserves it, however many negotiations end in between: no connection that the
\* gate admitted is turned away for want of a place.
THEOREM PlacesAlwaysSuffice == Spec => []PlacesSuffice
<1>1. Init => SeenFree
  BY DEF Init, SeenFree, PlacesSuffice, At
<1>2. SeenFree => PlacesSuffice
  BY DEF SeenFree
<1> QED BY InvInit, InvNext, <1>1, <1>2, SeenNext, PTL DEF Spec
=============================================================================

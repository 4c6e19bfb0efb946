------------------------------- MODULE Server -------------------------------
(***************************************************************************)
(* A running server (src/api/server.rs): the listeners that accept, admit  *)
(* and negotiate connections, the accept loops that hand them to handlers, *)
(* and the ServerHandle that stops it all.                                 *)
(*                                                                         *)
(* The gate is what Admission promises.  Every connection is negotiated by *)
(* a detached task of its own, which reserved a place in its listener's    *)
(* queue beforehand, and then run by a task of the JoinSet all accept      *)
(* loops share under a lock.                                               *)
(***************************************************************************)
EXTENDS Integers, FiniteSets, Sequences, SequencesExt

CONSTANTS
    Conns,              \* the connections that may arrive
    Addresses,          \* the peer addresses
    NoAddress,          \* `None`
    MaxConnections,     \* max_connections
    MaxPerIp,           \* max_connections_per_ip
    AddressOf,          \* where each connection comes from
    Ports,              \* the ports bound, with a listener and a loop each
    PortOf,             \* the port each connection arrives at
    Handshakes          \* how many places a listener's queue has

ASSUME ServerAssumption ==
    /\ IsFiniteSet(Conns)
    /\ AddressOf \in [Conns -> Addresses \cup {NoAddress}]
    /\ PortOf \in [Conns -> Ports]
    /\ Handshakes \in Nat \ {0}

VARIABLES
    permits,    \* of the gate
    stage,      \* how far each connection has come
    queue,      \* the outcomes each listener has to take
    loop,       \* what each accept loop is at
    handle      \* what the owner of the ServerHandle is at

vars == << permits, stage, queue, loop, handle >>

Gate == INSTANCE Admission

Stages == {"new", "refused", "admitted", "negotiating", "negotiated", "failed", "taken", "running", "gone"}
Loops == {"looking", "open", "full", "placing", "spawning", "stopped", "broken"}
Handles == {"serving", "closing", "draining", "aborting", "closed", "dropped"}

Init ==
    /\ Gate!Init
    /\ stage = [c \in Conns |-> "new"]
    /\ queue = [p \in Ports |-> <<>>]
    /\ loop = [p \in Ports |-> "looking"]
    /\ handle = "serving"

At(s) == {c \in Conns : stage[c] = s}
Move(c, s) == stage' = [stage EXCEPT ![c] = s]
Go(p, l) == loop' = [loop EXCEPT ![p] = l]

\* The connections `gone` end; the permits of those that have one are dropped.
Lose(cs) ==
    /\ stage' = [c \in Conns |-> IF c \in cs THEN "gone" ELSE stage[c]]
    /\ permits' = [c \in DOMAIN permits \ cs |-> permits[c]]

-----------------------------------------------------------------------------
(* Listener::accept, and the negotiation it starts.                        *)

\* Still negotiating, for the listener of p.
Negotiating(p) == {c \in At("negotiating") : PortOf[c] = p}

\* The places neither taken by an outcome nor reserved for one: `capacity() > 0`.
Free(p) == Len(queue[p]) + Cardinality(Negotiating(p)) < Handshakes

\* Each turn of the loop looks once whether a place is free, and only then
\* waits for the socket too, however long that takes.
Look(p) ==
    /\ loop[p] = "looking"
    /\ Go(p, IF Free(p) THEN "open" ELSE "full")
    /\ UNCHANGED << permits, stage, queue, handle >>

Arrives(c) ==
    /\ stage[c] = "new"
    /\ loop[PortOf[c]] = "open"
    /\ UNCHANGED << queue, handle >>

\* The gate admits it, before a place is reserved for it.
Accept(c) ==
    /\ Arrives(c)
    /\ Gate!Admit(c, AddressOf[c])
    /\ Move(c, "admitted") /\ Go(PortOf[c], "placing")

\* Turned away by the gate, and closed where it was accepted.
Refuse(c) ==
    /\ Arrives(c)
    /\ Move(c, "refused") /\ Go(PortOf[c], "looking")
    /\ UNCHANGED permits

\* Faulty: the loop waits for the socket again without looking.
PlaceAndWait(p) ==
    /\ loop[p] = "placing" /\ Go(p, "open")
    /\ \E c \in At("admitted") :
        /\ PortOf[c] = p
        /\ IF Free(p) THEN Move(c, "negotiating") /\ UNCHANGED permits
                      ELSE Move(c, "refused") /\ Gate!Drop(c)
    /\ UNCHANGED << queue, handle >>

\* try_reserve_owned: the connection that was admitted negotiates, or is refused
\* after all.
Place(p) ==
    /\ loop[p] = "placing" /\ Go(p, "looking")
    /\ \E c \in At("admitted") :
        /\ PortOf[c] = p
        /\ IF Free(p) THEN Move(c, "negotiating") /\ UNCHANGED permits
                      ELSE Move(c, "refused") /\ Gate!Drop(c)
    /\ UNCHANGED << queue, handle >>

\* Faulty: the permit outlives a negotiation that failed.
NegotiationLeaks(c) ==
    /\ stage[c] = "negotiating"
    /\ queue' = [queue EXCEPT ![PortOf[c]] = Append(@, c)]
    /\ \E s \in {"negotiated", "failed"} : Move(c, s)
    /\ UNCHANGED << permits, loop, handle >>

\* A negotiation ends, well or badly, and its outcome is sent to the place
\* it reserved.  With the listener gone nobody takes it: the outcome, and the
\* connection in it, lasts until no negotiation holds on to the queue.
NegotiationEnds(c) ==
    /\ stage[c] = "negotiating"
    /\ IF loop[PortOf[c]] \in {"stopped", "broken"} /\ Negotiating(PortOf[c]) = {c}
       THEN /\ Lose({c} \cup ToSet(queue[PortOf[c]]))
            /\ queue' = [queue EXCEPT ![PortOf[c]] = <<>>]
       ELSE /\ queue' = [queue EXCEPT ![PortOf[c]] = Append(@, c)]
            /\ \/ Move(c, "negotiated") /\ UNCHANGED permits
               \/ Move(c, "failed") /\ Gate!Drop(c)
    /\ UNCHANGED << loop, handle >>

-----------------------------------------------------------------------------
(* The accept loops of launch.                                             *)

\* The listener waits for an outcome, whether or not for the socket too.
Selecting(p) == loop[p] \in {"open", "full"}

\* A failed negotiation is passed over, for another turn.
Discard(p) ==
    /\ Selecting(p)
    /\ queue[p] # <<>> /\ stage[Head(queue[p])] = "failed"
    /\ queue' = [queue EXCEPT ![p] = Tail(@)]
    /\ Move(Head(queue[p]), "gone") /\ Go(p, "looking")
    /\ UNCHANGED << permits, handle >>

Take(p) ==
    /\ Selecting(p)
    /\ queue[p] # <<>> /\ stage[Head(queue[p])] = "negotiated"
    /\ queue' = [queue EXCEPT ![p] = Tail(@)]
    /\ Move(Head(queue[p]), "taken") /\ Go(p, "spawning")
    /\ UNCHANGED << permits, handle >>

\* The lock on the tasks is free unless close has it, and spawning under it
\* waits for nothing.
Locked == handle \in {"draining", "aborting", "closed"}

\* Faulty: the loop runs the handler itself.
SpawnInline(p) ==
    /\ loop[p] = "spawning"
    /\ ~Locked
    /\ \/ /\ \E c \in At("taken") : PortOf[c] = p /\ Move(c, "running")
          /\ UNCHANGED loop
       \/ /\ \A c \in At("taken") \cup At("running") : PortOf[c] # p
          /\ Go(p, "looking")
          /\ UNCHANGED stage
    /\ UNCHANGED << permits, queue, handle >>

Spawn(p) ==
    /\ loop[p] = "spawning"
    /\ ~Locked
    /\ stage' = [c \in Conns |->
                    IF stage[c] = "taken" /\ PortOf[c] = p THEN "running" ELSE stage[c]]
    /\ Go(p, "looking")
    /\ UNCHANGED << permits, queue, handle >>

\* The loop ends, its listener is dropped, and all in the queue with it.
End(p, how) ==
    /\ Go(p, how)
    /\ Lose(ToSet(queue[p]))
    /\ queue' = [queue EXCEPT ![p] = <<>>]
    /\ UNCHANGED handle

\* The watch says to stop, or its sender is gone; looked at between turns, and
\* wherever the listener waits.
Stop(p) == handle # "serving" /\ (Selecting(p) \/ loop[p] = "looking") /\ End(p, "stopped")

\* The socket fails to accept; that ends the loop too.
AcceptFails(p) == loop[p] = "open" /\ End(p, "broken")

\* A handler returns, or panics, and drops its permit.
Finish(c) ==
    /\ stage[c] = "running"
    /\ Lose({c})
    /\ UNCHANGED << queue, loop, handle >>

-----------------------------------------------------------------------------
(* ServerHandle                                                            *)

Stopped == \A p \in Ports : loop[p] \in {"stopped", "broken"}

Turn(from, to) ==
    /\ handle = from /\ handle' = to
    /\ UNCHANGED << permits, stage, queue, loop >>

CloseBegins == Turn("serving", "closing")

\* Faulty: the tasks are waited for while loops may still be spawning them.
LockEarly == Turn("closing", "draining")

\* The loops have been waited for, and the tasks are locked.
Lock == Stopped /\ Turn("closing", "draining")

\* No task is left.
Drained ==
    \/ At("running") = {} /\ Turn("draining", "closed")
    \/ At("running") = {} /\ Turn("aborting", "closed")

\* The timeout given to close passes.
Expire == Turn("draining", "aborting")

Dropped == Turn("serving", "dropped")

\* Faulty: close waits for the tasks past its timeout, and aborts none.
AbortNone(c) ==
    /\ stage[c] = "running"
    /\ handle = "dropped" /\ Stopped
    /\ Lose({c})
    /\ UNCHANGED << queue, loop, handle >>

\* Tasks are aborted by close past its timeout, and by the JoinSet when the
\* last of the handle and the loops that share it is gone.
Abort(c) ==
    /\ stage[c] = "running"
    /\ handle = "aborting" \/ (handle = "dropped" /\ Stopped)
    /\ Lose({c})
    /\ UNCHANGED << queue, loop, handle >>

LoopSteps(p) == Look(p) \/ Place(p) \/ Discard(p) \/ Take(p) \/ Spawn(p)
HandleSteps == Lock \/ Drained \/ Expire

Next ==
    \/ \E c \in Conns :
        Accept(c) \/ Refuse(c) \/ NegotiationEnds(c) \/ Finish(c) \/ Abort(c)
    \/ \E p \in Ports : LoopSteps(p) \/ Stop(p) \/ AcceptFails(p)
    \/ HandleSteps \/ CloseBegins \/ Dropped

\* Tasks run on; a negotiation ends by handshake_timeout, close has been given
\* a timeout, and select! takes its ready branches in random order, so a loop
\* that keeps finding connections still finds the watch changed.  Nothing
\* makes a handler return or a connection arrive.
Fairness ==
    /\ \A c \in Conns : WF_vars(NegotiationEnds(c)) /\ WF_vars(Abort(c))
    /\ \A p \in Ports : WF_vars(LoopSteps(p)) /\ SF_vars(Stop(p))
    /\ WF_vars(HandleSteps)

Spec == Init /\ [][Next]_vars /\ Fairness

-----------------------------------------------------------------------------
(* Properties.                                                             *)

TypeOK ==
    /\ DOMAIN permits \subseteq Conns
    /\ \A c \in DOMAIN permits : permits[c] = AddressOf[c]
    /\ stage \in [Conns -> Stages]
    /\ queue \in [Ports -> Seq(Conns)]
    /\ loop \in [Ports -> Loops]
    /\ handle \in Handles

\* A permit is alive exactly as long as its connection is placed, negotiated,
\* queued or run: every way out, failure, a listener dropped with its queue, panic
\* and abort, gives it back once.
PermitsFollow ==
    DOMAIN permits = {c \in Conns :
        stage[c] \in {"admitted", "negotiating", "negotiated", "taken", "running"}}

\* The place that was free when the listener looked is free when it reserves it,
\* though it waited for the socket meanwhile, negotiations ended and outcomes were
\* queued: no connection that the gate admitted is turned away for want of one
\* ("a refused connection cannot crowd out one that would be admitted").
PlacesSuffice == \A c \in At("admitted") : Free(PortOf[c])

\* When close returns nothing accepts, no handler runs, and none will run:
\* no accept loop is about to spawn the connection it has taken.
CloseIsFinal ==
    handle = "closed" => Stopped /\ At("taken") \cup At("running") = {}

\* A connection that has negotiated gets its handler, however many others are
\* arriving, unless the server goes down.
EachIsServed ==
    \A c \in Conns : stage[c] = "negotiated" ~> stage[c] \in {"running", "gone"}

\* close comes to an end, and after it every permit comes back, those of the
\* negotiations it did not wait for too.
CloseEnds == handle = "closing" ~> (handle = "closed" /\ permits = <<>>)

\* server.rs: "Dropping this leaves the server running".
DropKeepsServing ==
    [][\A p \in Ports : handle = "dropped" => loop'[p] # "stopped"]_vars
=============================================================================

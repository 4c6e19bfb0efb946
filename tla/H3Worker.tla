------------------------------ MODULE H3Worker ------------------------------
(***************************************************************************)
(* A server's HTTP/3 connection: the H3Worker that runs inside the QUIC    *)
(* driver and owns the H3Session (src/protocol/h3.rs), the application on  *)
(* the other side of its channels, and a peer.                             *)
(*                                                                         *)
(* The worker runs in passes.  A pass reads every readable stream, delivers*)
(* what completed, runs the commands and raw writes that wait, and flushes *)
(* what is buffered; the application works meanwhile, while packets are    *)
(* taken between passes.  Frames and octets are items; a response is as    *)
(* many octets as Answer says.  `encoder` is the peer's QPACK encoder      *)
(* stream, whose one insertion unblocks every blocked section.             *)
(***************************************************************************)
EXTENDS Integers, Sequences, FiniteSets, FiniteSetsExt, SequencesExt, Functions

CONSTANTS
    Script,         \* for each request stream, 1 .. N, what the peer sends on it
    Answer,         \* the octets of a response, and those a tunnel is written
    Resets,         \* the streams the application may reset
    Failures,       \* the streams the peer may reset or stop
    Backlog,        \* command_backlog
    TunnelBacklog,  \* tunnel_backlog
    Ceiling,        \* stream_ceiling
    MaxRequests,    \* max_requests_per_connection
    Limit,          \* max_connection_buffer_size
    MaxFaults,      \* how many of those resets and stops happen: a bound
    HalfCloses      \* whether the peer may end its half of a tunnel first

Requests == DOMAIN Script
encoder == 0
None == 0

ASSUME H3Assumption ==
    /\ Script \in Seq(Seq({"head", "block", "connect", "data", "bad", "octet"}))
    /\ Answer \in Seq(0 .. 255)
    /\ Resets \cup Failures \subseteq Requests
    /\ {Backlog, TunnelBacklog, Ceiling, MaxRequests, Limit} \subseteq Nat \ {0} /\ MaxFaults \in Nat

VARIABLES
    peer,       \* for each stream: sent, fin, reset, stopped, credit
    inbox,      \* what arrived on each stream and was not read
    inserted,   \* whether the insertion the blocked sections need was read
    session,    \* H3Session: streams, ready, goaway, total, highest
    outbound,   \* what each stream has yet to send
    held,       \* outbound_bytes
    tunnels,    \* the streams that are tunnels
    channels,   \* commands, events, raw and the sinks of tunnels
    app,        \* for each request, what the application makes of it
    heard,      \* what the application read from each tunnel
    got,        \* what the peer got on each stream
    given,      \* what the application gave each stream to send
    phase, todo,\* where the worker is in its pass
    reset,      \* the streams the worker has reset for an error
    status      \* whether the connection is open, failed or closed

vars == << peer, inbox, inserted, session, outbound, held, tunnels, channels,
           app, heard, got, given, phase, todo, reset, status >>

worker == << inserted, session, outbound, held, tunnels, reset, status >>
application == << app, heard, given >>

Open == status = "open"

Fresh == [buffer |-> <<>>, message |-> FALSE, pending |-> FALSE, eof |-> FALSE,
          delivered |-> FALSE, finished |-> FALSE, raw |-> FALSE, responded |-> FALSE]

Spent(state) == state.finished /\ state.eof /\ state.delivered /\ ~state.raw

Held(s) == s \in DOMAIN session.streams
State(s) == IF Held(s) THEN session.streams[s] ELSE Fresh
Kept(streams, s, state) == [x \in DOMAIN streams \cup {s} |-> IF x = s THEN state ELSE streams[x]]
Without(f, s) == [x \in DOMAIN f \ {s} |-> f[x]]

\* retire: a stream both sides are done with is forgotten.
Retired(streams, s) ==
    IF s \in DOMAIN streams /\ Spent(streams[s]) THEN Without(streams, s) ELSE streams

-----------------------------------------------------------------------------
\* Reading.

Sections == {"head", "block"}

\* The frames that cannot be taken: a section that needs what was not inserted
\* blocks, a CONNECT makes the stream raw, and the rest are errors.
Stops(state, unblocked) ==
    {i \in DOMAIN state.buffer :
        \/ state.buffer[i] \in {"connect", "bad"}
        \/ state.buffer[i] = "block" /\ ~unblocked
        \/ /\ state.buffer[i] = "data" /\ ~state.message
           /\ \A j \in 1 .. i - 1 : state.buffer[j] \notin Sections}

\* advance: the frames before the first of those, and the message once the stream
\* ends; a second field section is trailers.
Advance(state, unblocked) ==
    LET all == Len(state.buffer)
        at == Min(Stops(state, unblocked) \cup {all + 1})
        frame == IF at > all THEN "none" ELSE state.buffer[at]
        message == state.message \/ \E i \in 1 .. at - 1 : state.buffer[i] \in Sections
        ended == state.eof /\ frame = "none" /\ ~state.delivered
        whole == frame = "connect" \/ (ended /\ message)
    IN  IF state.raw THEN [state |-> state, ready |-> FALSE, error |-> "none"]
        ELSE [state |-> [state EXCEPT
                  !.buffer = SubSeq(@, IF frame = "block" THEN at ELSE at + 1, all),
                  !.message = message /\ ~(ended /\ message), !.pending = (frame = "block"),
                  !.raw = (frame = "connect"), !.delivered = @ \/ whole],
              ready |-> whole,
              error |-> CASE frame = "data" -> "connection"
                          [] frame = "bad" \/ (ended /\ ~message) -> "stream"
                          [] OTHER -> "none"]

\* The connection is lost with an error, which is reported if there is room.
Report(event) == IF Len(channels.events) < Backlog THEN Append(channels.events, event) ELSE channels.events

\* fail; deliver_ready will not run again, so what was ready is not delivered.
Fail ==
    /\ status' = "failed"
    /\ channels' = [channels EXCEPT !.events = Report([is |-> "failed", of |-> None])]

\* forget_stream, and reset_stream with its report, of a session that is `now`.
ForgetStream(s, now) ==
    /\ session' = [now EXCEPT !.streams = Without(@, s)]
    /\ tunnels' = tunnels \ {s}
    /\ outbound' = Without(outbound, s)
    /\ held' = IF s \in DOMAIN outbound THEN held - Len(outbound[s].octets) ELSE held

ResetStream(s, now) ==
    /\ ForgetStream(s, now)
    /\ reset' = reset \cup {s}
    /\ channels' = [channels EXCEPT !.events = Report([is |-> "failed", of |-> s])]

\* Faulty: the streams GOAWAY disowned are taken all the same.
DisownedNever(s) == FALSE

\* goaway was sent, and this stream is not one it owns.
Disowned(s) == session.goaway # None /\ s >= session.goaway /\ ~Held(s)

\* goaway: announced once as many requests arrived as there may be.
GoAway(total, highest) ==
    IF session.goaway = None /\ total >= MaxRequests THEN highest + 1 ELSE session.goaway

\* on_stream_bytes, and goaway after it; `s` is the stream that is read.
OnStreamBytes(s, items, fin) ==
    LET created == ~Held(s)
        state == [State(s) EXCEPT !.buffer = @ \o items, !.eof = @ \/ fin]
        r == Advance(state, inserted)
        total == session.total + (IF created THEN 1 ELSE 0)
        highest == IF created /\ s > session.highest THEN s ELSE session.highest
        counted == [session EXCEPT !.total = total, !.highest = highest]
        refused == created /\ Cardinality(DOMAIN session.streams) >= Ceiling
    IN  IF refused THEN ResetStream(s, session) /\ UNCHANGED << inserted, status >>
        ELSE IF r.error = "stream"
        THEN ResetStream(s, counted) /\ UNCHANGED << inserted, status >>
        ELSE IF r.error = "connection"
        THEN Fail /\ UNCHANGED << inserted, session, outbound, held, tunnels, reset >>
        ELSE /\ session' = [session EXCEPT
                    !.streams = Retired(Kept(@, s, r.state), s),
                    !.ready = IF r.ready THEN Append(@, s) ELSE @,
                    !.total = total, !.highest = highest, !.goaway = GoAway(total, highest)]
             /\ UNCHANGED << inserted, outbound, held, tunnels, channels, reset, status >>

\* on_encoder_bytes: the blocked streams are taken further, until one fails; its
\* error is laid to the stream that was read, which is the encoder's.
OnEncoderBytes ==
    LET blocked == {s \in DOMAIN session.streams : session.streams[s].pending}
        r == [s \in blocked |-> Advance(session.streams[s], TRUE)]
        failed == {s \in blocked : r[s].error # "none"}
        After(done) == [s \in DOMAIN session.streams |->
                            IF s \in done THEN r[s].state ELSE session.streams[s]]
    IN  \E done \in SUBSET blocked :
            /\ Cardinality(done \cap failed) = (IF failed = {} THEN 0 ELSE 1)
            /\ failed = {} => done = blocked
            /\ inserted' = TRUE
            /\ session' = [session EXCEPT
                    !.streams = [s \in {x \in DOMAIN @ : ~Spent(After(done)[x])} |-> After(done)[s]],
                    !.ready = @ \o SetToSeq({s \in done : r[s].ready})]
            /\ IF failed = {} THEN UNCHANGED << reset, channels >>
               ELSE /\ reset' = reset \cup {encoder}
                    /\ channels' = [channels EXCEPT !.events =
                            Report([is |-> "failed", of |-> CHOOSE s \in done \cap failed : TRUE])]
            /\ UNCHANGED << outbound, held, tunnels, status >>

\* dispatch to the sink of a tunnel, which has room for it.
OnTunnel(s, items, fin) ==
    /\ channels' = [channels EXCEPT !.sinks[s] = Append(@, [octets |-> items, fin |-> fin])]
    /\ tunnels' = IF fin THEN tunnels \ {s} ELSE tunnels
    /\ session' = IF fin THEN [session EXCEPT !.streams = Without(@, s)] ELSE session
    /\ UNCHANGED << inserted, outbound, held, reset, status >>

Readable(s) ==
    /\ s \notin reset
    /\ \/ inbox[s] # <<>>
       \/ s # encoder /\ (peer[s].reset = "unread" \/ (peer[s].fin /\ ~peer[s].read))

\* Begin a pass, if there is anything to do.
Wake ==
    /\ Open /\ phase = "idle"
    /\ \/ \E s \in DOMAIN inbox : Readable(s)
       \/ channels.commands # <<>> \/ channels.raw # <<>>
       \/ DOMAIN outbound # {} \/ session.ready # <<>> \/ session.leaving = "arrived"
    /\ phase' = "reads"
    /\ todo' = {s \in DOMAIN inbox : Readable(s)}
    /\ UNCHANGED << peer, inbox, channels, worker, application, got >>

\* drain_reads, one stream: a tunnel without room is left for a later pass.
Read(s) ==
    LET items == inbox[s]
        fin == s # encoder /\ peer[s].fin
        full == s \in tunnels /\ Len(channels.sinks[s]) >= TunnelBacklog
    IN  /\ Open /\ phase = "reads" /\ s \in todo
        /\ todo' = todo \ {s}
        /\ inbox' = IF full THEN inbox ELSE [inbox EXCEPT ![s] = <<>>]
        /\ peer' = IF full \/ s = encoder THEN peer
                   ELSE [peer EXCEPT ![s].read = fin, ![s].reset = IF @ = "unread" THEN "read" ELSE @]
        /\ CASE full -> UNCHANGED << worker, channels >>
             [] ~full /\ s = encoder -> OnEncoderBytes
             [] ~full /\ s # encoder /\ peer[s].reset = "unread" ->
                    /\ ForgetStream(s, session)
                    /\ channels' = [channels EXCEPT !.events = Report([is |-> "failed", of |-> s])]
                    /\ UNCHANGED << inserted, reset, status >>
             [] ~full /\ s # encoder /\ peer[s].reset # "unread" ->
                    CASE s \in tunnels -> OnTunnel(s, items, fin)
                      [] s \notin tunnels /\ Disowned(s) ->
                            /\ reset' = reset \cup {s}
                            /\ UNCHANGED << inserted, session, outbound, held, tunnels, channels, status >>
                      [] OTHER -> OnStreamBytes(s, items, fin)
        /\ UNCHANGED << application, got, phase >>

\* Faulty: a connection is drained though it has octets yet to send.
DrainedSoon(streams, ready, leaving) ==
    leaving = "read" /\ DOMAIN streams = {} /\ ready = <<>> /\ tunnels = {}

\* Whether every stream is finished and everything owed was handed to QUIC.
Drained(streams, ready, leaving) ==
    /\ leaving = "read" /\ DOMAIN streams = {} /\ ready = <<>>
    /\ DOMAIN outbound = {} /\ tunnels = {}

\* deliver_ready, as many messages as the events have room for and in order, and
\* wind_down, with which both halves of a pass end.  The peer's GOAWAY is read
\* with the rest.
EndHalf ==
    LET room == Backlog - Len(channels.events)
        n == Min({Len(session.ready), room})
        ready == SubSeq(session.ready, n + 1, Len(session.ready))
        leaving == IF phase = "reads" /\ session.leaving = "arrived" THEN "read" ELSE session.leaving
        events == channels.events
                    \o [i \in 1 .. n |-> [is |-> "message", of |-> session.ready[i]]]
        drained == Drained(session.streams, ready, leaving)
        told == drained /\ Len(events) < Backlog
    IN  /\ session' = [session EXCEPT !.ready = ready, !.leaving = leaving]
        /\ channels' = [channels EXCEPT !.events =
                IF told THEN Append(events, [is |-> "failed", of |-> None]) ELSE events]
        /\ status' = IF drained THEN "closed" ELSE status
        /\ UNCHANGED << peer, inbox, inserted, outbound, held, tunnels, reset, application, got, todo >>

ReadsDone ==
    /\ Open /\ phase = "reads" /\ todo = {}
    /\ phase' = "commands"
    /\ EndHalf

-----------------------------------------------------------------------------
\* Writing.

\* accepting_writes, and the commands that wait for it.
AcceptingWrites == held < Limit
Buffers(command) == command.is = "send"

Queued(s, octets, fin) ==
    LET entry == IF s \in DOMAIN outbound THEN outbound[s] ELSE [octets |-> <<>>, fin |-> FALSE]
    IN  Kept(outbound, s, [octets |-> entry.octets \o octets, fin |-> entry.fin \/ fin])

\* Faulty: what a stopped stream still had to send is dropped, and not its count.
FreedNone(s, entry) == IF peer[s].stopped THEN 0 ELSE Min({Len(entry.octets), peer[s].credit})

\* What leaves the buffer when a stream is flushed: all of it when the peer has
\* stopped the stream, and otherwise what the peer gives credit for.
Freed(s, entry) ==
    IF peer[s].stopped THEN Len(entry.octets) ELSE Min({Len(entry.octets), peer[s].credit})

\* flush_stream, of what `streams` holds and `count` counts.  Of a stream this end
\* has reset nothing is carried any further.
FlushStream(s, streams, count, after) ==
    LET entry == streams[s]
        idle == entry.octets = <<>> /\ ~entry.fin
        n == IF idle THEN 0 ELSE Freed(s, entry)
        rest == SubSeq(entry.octets, n + 1, Len(entry.octets))
        sent == ~idle /\ ~peer[s].stopped
        carried == sent /\ s \notin reset
    IN  /\ outbound' = IF idle \/ (rest # <<>> /\ sent) THEN Kept(streams, s, [entry EXCEPT !.octets = rest])
                       ELSE Without(streams, s)
        /\ held' = count - n
        /\ got' = IF carried
                  THEN [got EXCEPT ![s] = [octets |-> @.octets \o SubSeq(entry.octets, 1, n),
                                           fin |-> @.fin \/ (entry.fin /\ rest = <<>>)]]
                  ELSE got
        /\ peer' = IF sent THEN [peer EXCEPT ![s].credit = @ - n] ELSE peer
        /\ channels' = IF peer[s].stopped /\ ~idle
                       THEN [after EXCEPT !.events = Report([is |-> "failed", of |-> s])] ELSE after

Command == Head(channels.commands)
Taken == [channels EXCEPT !.commands = Tail(@)]

\* execute a Send, which ends the stream unless it is the answer to a CONNECT;
\* one that was forgotten is made anew, and is no CONNECT any more.
Send ==
    LET s == Command.of
        fin == ~State(s).raw
        state == [State(s) EXCEPT !.responded = TRUE, !.finished = @ \/ fin]
    IN  /\ session' = [session EXCEPT !.streams = Retired(Kept(@, s, state), s)]
        /\ FlushStream(s, Queued(s, Command.octets, fin), held + Len(Command.octets), Taken)
        /\ UNCHANGED << tunnels, reset >>

\* Faulty: what arrived before the tunnel was made is not handed over.
HandedNone(s) == <<>>

\* What a stream already read is handed to the sink of its tunnel.
Handed(s) ==
    IF Held(s) /\ (session.streams[s].buffer # <<>> \/ session.streams[s].eof)
    THEN << [octets |-> session.streams[s].buffer, fin |-> session.streams[s].eof] >> ELSE <<>>

\* execute a Tunnel.
MakeTunnel ==
    LET s == Command.of
    IN  /\ channels' = [Taken EXCEPT !.sinks[s] = @ \o Handed(s)]
        /\ session' = IF Held(s) THEN [session EXCEPT !.streams[s].buffer = <<>>] ELSE session
        /\ tunnels' = tunnels \cup {s}
        /\ UNCHANGED << peer, outbound, held, got, reset >>

\* execute a Reset: what the stream had to send is dropped, and not its count.
Reset ==
    LET s == Command.of
    IN  /\ outbound' = Without(outbound, s)
        /\ tunnels' = tunnels \ {s}
        /\ session' = [session EXCEPT !.streams = Retired(@, s)]
        /\ reset' = reset \cup {s}
        /\ channels' = Taken
        /\ UNCHANGED << peer, held, got >>

\* One command, unless it adds to a buffer that is full.
Execute ==
    /\ Open /\ phase = "commands" /\ channels.commands # <<>>
    /\ Buffers(Command) => AcceptingWrites
    /\ CASE Command.is = "send" -> Send
         [] Command.is = "tunnel" -> MakeTunnel
         [] Command.is = "reset" -> Reset
    /\ UNCHANGED << inbox, inserted, status, application, phase, todo >>

CommandsDone ==
    /\ Open /\ phase = "commands"
    /\ channels.commands # <<>> => (Buffers(Command) /\ ~AcceptingWrites)
    /\ phase' = "raw"
    /\ UNCHANGED << peer, inbox, worker, channels, application, got, todo >>

\* One raw write of a tunnel.
TakeRaw ==
    LET w == Head(channels.raw) IN
    /\ Open /\ phase = "raw" /\ channels.raw # <<>> /\ AcceptingWrites
    /\ FlushStream(w.of, Queued(w.of, w.octets, w.fin), held + Len(w.octets),
                   [channels EXCEPT !.raw = Tail(@)])
    /\ UNCHANGED << inbox, inserted, session, tunnels, reset, status, application, phase, todo >>

RawDone ==
    /\ Open /\ phase = "raw"
    /\ channels.raw = <<>> \/ ~AcceptingWrites
    /\ phase' = "flush"
    /\ todo' = DOMAIN outbound
    /\ UNCHANGED << peer, inbox, worker, channels, application, got >>

Flush(s) ==
    /\ Open /\ phase = "flush" /\ s \in todo
    /\ todo' = todo \ {s}
    /\ FlushStream(s, outbound, held, channels)
    /\ UNCHANGED << inbox, inserted, session, tunnels, reset, status, application, phase >>

FlushDone ==
    /\ Open /\ phase = "flush" /\ todo = {}
    /\ phase' = "idle"
    /\ EndHalf

\* expired_block: a section stayed blocked for too long.
Expire ==
    /\ Open /\ phase = "idle"
    /\ \E s \in DOMAIN session.streams : session.streams[s].pending
    /\ Fail
    /\ UNCHANGED << peer, inbox, inserted, session, outbound, held, tunnels, reset, application, got, phase, todo >>

-----------------------------------------------------------------------------
\* The application, through H3Connection and H3Stream.

Give(s, octets, fin) ==
    given' = [given EXCEPT ![s] = [octets |-> @.octets \o octets, fin |-> fin]]

Enqueue(command) ==
    /\ Len(channels.commands) < Backlog
    /\ channels' = [channels EXCEPT !.commands = Append(@, command)]

Becomes(s, what) == app' = [app EXCEPT ![s] = what]

Idle == UNCHANGED << peer, inbox, worker, got, phase, todo >>

\* receive_message.
Receive ==
    /\ channels.events # <<>>
    /\ LET event == Head(channels.events) IN
        IF event.is = "message"
        THEN Becomes(event.of, IF Script[event.of][1] = "connect" THEN "accepting" ELSE "asked")
        ELSE UNCHANGED app
    /\ channels' = [channels EXCEPT !.events = Tail(@)]
    /\ UNCHANGED << heard, given >> /\ Idle

\* send_message: the answer to a request, or the one that opens a tunnel.
Respond(s) ==
    /\ Open /\ app[s] = "asked"
    /\ Enqueue([is |-> "send", of |-> s, octets |-> Answer])
    /\ Give(s, Answer, TRUE) /\ Becomes(s, "over")
    /\ UNCHANGED heard /\ Idle

Accept(s) ==
    /\ Open /\ app[s] = "accepting"
    /\ Enqueue([is |-> "send", of |-> s, octets |-> <<0>>])
    /\ Give(s, <<0>>, FALSE) /\ Becomes(s, "accepted")
    /\ UNCHANGED heard /\ Idle

\* tunnel; one that finds the queue full is tried again.
Tunnel(s) ==
    /\ Open /\ app[s] = "accepted"
    /\ Enqueue([is |-> "tunnel", of |-> s])
    /\ Becomes(s, "tunnel")
    /\ UNCHANGED << heard, given >> /\ Idle

\* poll_write and poll_shutdown: the octets of Answer one by one, then the end.
Write(s) ==
    LET n == Len(given[s].octets)
        octets == IF n <= Len(Answer) THEN << Answer[n] >> ELSE <<>>
    IN  /\ Open /\ app[s] = "tunnel" /\ ~given[s].fin
        /\ Len(channels.raw) < TunnelBacklog
        /\ channels' = [channels EXCEPT !.raw = Append(@, [of |-> s, octets |-> octets, fin |-> octets = <<>>])]
        /\ Give(s, octets, octets = <<>>)
        /\ UNCHANGED << app, heard >> /\ Idle

\* poll_read.
ReadTunnel(s) ==
    /\ channels.sinks[s] # <<>>
    /\ LET item == Head(channels.sinks[s]) IN
        heard' = [heard EXCEPT ![s] = [octets |-> @.octets \o item.octets, fin |-> item.fin]]
    /\ channels' = [channels EXCEPT !.sinks[s] = Tail(@)]
    /\ UNCHANGED << app, given >> /\ Idle

\* Whether another stream may be reset or stopped, of MaxFaults in all.
Faultless ==
    Cardinality({s \in Requests : peer[s].reset # "no"}) + Cardinality({s \in Requests : peer[s].stopped})
        + Cardinality({s \in Requests : app[s] = "reset"}) < MaxFaults

\* H3Stream::reset.
ResetTunnel(s) ==
    /\ Open /\ s \in Resets /\ Faultless /\ app[s] = "tunnel"
    /\ Enqueue([is |-> "reset", of |-> s])
    /\ Becomes(s, "reset")
    /\ UNCHANGED << heard, given >> /\ Idle

-----------------------------------------------------------------------------
\* The peer, whose packets are taken between passes.

Outside == UNCHANGED << worker, channels, application, got, phase, todo >>

\* It may end its half of a tunnel before the other half only if HalfCloses.
Arrive(s) ==
    /\ Open /\ phase = "idle" /\ peer[s].reset = "no"
    /\ peer[s].sent < Len(Script[s])
    /\ peer' = [peer EXCEPT ![s].sent = @ + 1]
    /\ inbox' = IF s \in reset THEN inbox ELSE [inbox EXCEPT ![s] = Append(@, Script[s][peer[s].sent + 1])]
    /\ Outside

Finish(s) ==
    /\ Open /\ phase = "idle" /\ peer[s].reset = "no" /\ ~peer[s].fin
    /\ peer[s].sent = Len(Script[s])
    /\ (Script[s][1] = "connect" /\ ~HalfCloses) => (got[s].fin \/ s \in reset)
    /\ peer' = [peer EXCEPT ![s].fin = TRUE]
    /\ UNCHANGED inbox /\ Outside

\* Its encoder stream brings the insertion that sections wait for.
Insert ==
    /\ Open /\ phase = "idle" /\ ~inserted /\ inbox[encoder] = <<>>
    /\ \E s \in Requests : "block" \in Range(Script[s])
    /\ inbox' = [inbox EXCEPT ![encoder] = <<"insert">>]
    /\ UNCHANGED peer /\ Outside

\* Credit comes an octet at a time.
Grant(s) ==
    /\ Open /\ phase = "idle"
    /\ peer[s].credit = 0 /\ s \in DOMAIN outbound
    /\ peer' = [peer EXCEPT ![s].credit = 1]
    /\ UNCHANGED inbox /\ Outside

\* It gives a stream up, or stops what comes back on it.
GiveUp(s) ==
    /\ Open /\ phase = "idle" /\ s \in Failures /\ Faultless
    /\ peer[s].sent > 0 /\ ~peer[s].read /\ peer[s].reset = "no"
    /\ peer' = [peer EXCEPT ![s].reset = "unread"]
    /\ inbox' = [inbox EXCEPT ![s] = <<>>]
    /\ Outside

Stop(s) ==
    /\ Open /\ phase = "idle" /\ s \in Failures /\ Faultless
    /\ peer[s].sent > 0 /\ ~peer[s].stopped /\ ~got[s].fin
    /\ peer' = [peer EXCEPT ![s].stopped = TRUE]
    /\ UNCHANGED inbox /\ Outside

\* Its GOAWAY, on the control stream.
Leave ==
    /\ Open /\ phase = "idle" /\ session.leaving = "no"
    /\ session' = [session EXCEPT !.leaving = "arrived"]
    /\ UNCHANGED << peer, inbox, inserted, outbound, held, tunnels, channels, application, got, phase, todo, reset, status >>

-----------------------------------------------------------------------------
Nothing == [octets |-> <<>>, fin |-> FALSE]

Init ==
    /\ peer = [s \in Requests |->
            [sent |-> 0, fin |-> FALSE, read |-> FALSE, reset |-> "no", stopped |-> FALSE, credit |-> 0]]
    /\ inbox = [s \in Requests \cup {encoder} |-> <<>>]
    /\ inserted = FALSE
    /\ session = [streams |-> <<>>, ready |-> <<>>, goaway |-> None, total |-> 0, highest |-> 0, leaving |-> "no"]
    /\ outbound = <<>> /\ held = 0 /\ tunnels = {}
    /\ channels = [commands |-> <<>>, events |-> <<>>, raw |-> <<>>, sinks |-> [s \in Requests |-> <<>>]]
    /\ app = [s \in Requests |-> "none"]
    /\ heard = [s \in Requests |-> Nothing]
    /\ got = [s \in Requests |-> Nothing]
    /\ given = [s \in Requests |-> Nothing]
    /\ phase = "idle" /\ todo = {} /\ reset = {} /\ status = "open"

Pass ==
    \/ Wake \/ ReadsDone \/ Execute \/ CommandsDone \/ TakeRaw \/ RawDone \/ FlushDone
    \/ \E s \in Requests \cup {encoder} : Read(s)
    \/ \E s \in Requests : Flush(s)

Use == Receive \/ \E s \in Requests : Respond(s) \/ Accept(s) \/ Tunnel(s) \/ Write(s) \/ ReadTunnel(s)

Progress == Insert \/ Leave \/ \E s \in Requests : Arrive(s) \/ Finish(s) \/ Grant(s)

Next ==
    \/ Pass \/ Expire \/ Use \/ Progress
    \/ \E s \in Requests : ResetTunnel(s) \/ GiveUp(s) \/ Stop(s)

\* The driver runs passes, the application uses what it is given, and the peer
\* ends what it began, gives credit and leaves, each of which it does only so
\* often; it finds the driver between passes again and again.  Failures need
\* not happen.
Fairness == WF_vars(Pass) /\ WF_vars(Use) /\ SF_vars(Progress)

Spec == Init /\ [][Next]_vars /\ Fairness

-----------------------------------------------------------------------------
\* The types of the state, with the bounds on channels.
TypeOK ==
    /\ inserted \in BOOLEAN /\ status \in {"open", "failed", "closed"}
    /\ DOMAIN session.streams \subseteq Requests /\ Range(session.ready) \subseteq Requests
    /\ session.goaway \in 0 .. Len(Script) + 1 /\ session.leaving \in {"no", "arrived", "read"}
    /\ tunnels \subseteq Requests /\ reset \subseteq Requests \cup {encoder}
    /\ Len(channels.commands) <= Backlog /\ Len(channels.events) <= Backlog
    /\ \A s \in Requests : Len(channels.sinks[s]) <= TunnelBacklog

\* No stream was reset by the application, which leaves its octets counted.
Unreset == \A s \in Requests : app[s] # "reset"

\* The octets that wait to be sent: each by its stream and its place there.
Waiting(queues) == UNION {{s} \X DOMAIN queues[s].octets : s \in DOMAIN queues}

\* outbound_bytes "tracks what is held across all of them", and what is held in
\* channels keeps to their bounds.
Counted == TypeOK /\ (Unreset => held = Cardinality(Waiting(outbound)))

Sent(s) == SelectSeq(SubSeq(Script[s], 1, peer[s].sent), LAMBDA x : x = "octet")

\* Why a stream may end before all it was given has been sent.
GivenUp(s) == s \in reset \/ peer[s].reset # "no" \/ peer[s].stopped

\* A tunnel whose peer was read to its end while this end had more to send.
HalfClosed(s) == Script[s][1] = "connect" /\ peer[s].read /\ ~got[s].fin

\* A tunnel carries every octet once and in order, those that arrived before it
\* was made too, and its end after them; what a peer gets of a response or a
\* tunnel is what was given to send, its end last; and wind_down closes only
\* "once every stream has finished and everything owed has been handed to QUIC",
\* but for a tunnel whose peer ended its half first: what is still written to
\* that is not waited for.
Intact ==
    \A s \in Requests :
        /\ IsPrefix(heard[s].octets, Sent(s))
        /\ heard[s].fin => Len(heard[s].octets) = Len(Script[s]) - 1
        /\ IsPrefix(got[s].octets, given[s].octets)
        /\ got[s].fin => got[s] = given[s]
        /\ status = "closed" => got[s] = given[s] \/ GivenUp(s) \/ HalfClosed(s)

\* After GOAWAY "nothing already taken in is abandoned", and what it disowns is
\* never handed to the application, so that it may be sent again elsewhere.
Owned ==
    session.goaway # None =>
        \A s \in Requests :
            (Held(s) \/ app[s] # "none" \/ s \in Range(session.ready)) => s < session.goaway

\* A stream error "resets that stream and moves on": never the stream that only
\* carried what unblocked it.
ResetsItsOwn == encoder \notin reset

\* stream_ceiling is "How many request streams may be held at once".
WithinCeiling == Cardinality(DOMAIN session.streams) <= Ceiling

\* A tunnel that is never done with: its peer's end was read before the Tunnel
\* command, so that nothing takes it off `tunnels`, nor its stream off the map.
Stranded(s) == s \in tunnels /\ Held(s) /\ session.streams[s].eof

\* Once its peer leaves, a connection is wound down: every stream is finished
\* and forgotten, half-closed tunnels too, and the buffers drain, however little
\* they hold.  It is not where a tunnel is stranded, nor where the application
\* resets one, whose stream stays and whose octets stay counted.
WindsDown == <>(status # "open" \/ ~Unreset \/ \E s \in Requests : Stranded(s))
=============================================================================

------------------------- MODULE TunnelInvariants -------------------------
(******************************************************************************)
(* The inductive invariants of the tunnel sessions (Inv, CloseInv and         *)
(* ContractInv), and the rules by which the proofs sort the steps. They hold  *)
(* no theorem, so that TLC can check them on an instance;                     *)
(* TunnelSessionsProofs proves them.                                          *)
(******************************************************************************)
EXTENDS TunnelSessions

----------------------------------------------------------------------------
(* What a PPP link may build on.                                              *)
(* Shapes name a record's fields, and of those the proofs look at their       *)
(* types.                                                                     *)

LinkShape(l) ==
    l \in [
        phase     : {l.phase},
        started   : {l.started},
        carrier   : {NoCarrier} \cup Carriers,
        st        : [Carriers -> {"none", "open", "closed"}],
        dtls      : BOOLEAN,
        sent      : {l.sent},
        acked     : SUBSET Protocols,
        peerAcked : SUBSET Protocols,
        want      : SUBSET Networks,
        address   : [Networks -> {0} \cup Addresses],
        locked    : BOOLEAN,
        pending   : BOOLEAN,
        ready     : BOOLEAN,
        announced : {l.announced},
        termAcked : {l.termAcked},
        readers   : [Carriers -> ReaderLabels],
        ending    : [Carriers -> BOOLEAN],
        holder    : {l.holder},
        deadline  : {l.deadline},
        failed    : {l.failed},
        closing   : {l.closing},
        captured  : {l.captured},
        tries     : {l.tries},
        heard     : SUBSET (Protocols \X {"ack", "request"}),
        carried   : BOOLEAN,
        first     : [Networks -> {0} \cup Addresses] ]

Addressed(l) == \A n \in l.want : l.address[n] # 0

\* What a link may build on.
Sound(l) ==
    /\ LinkShape(l)
    /\ \A p \in l.acked : <<p, "ack">> \in l.heard
    /\ \A p \in l.peerAcked : <<p, "request">> \in l.heard
    /\ l.pending => Negotiated(l) /\ Addressed(l)
    /\ l.ready => /\ Negotiated(l) /\ Addressed(l) /\ l.locked
                  /\ \A n \in l.want : l.first[n] = l.address[n]
    /\ l.carried => Negotiated(l)
    /\ \A n \in Networks : l.first[n] # 0 => l.locked /\ l.first[n] = l.address[n]
    /\ l.carrier = NoCarrier => ~l.pending /\ ~l.ready

----------------------------------------------------------------------------
(* What a step may do to a link.                                              *)

\* m is l after a step that does not change the carrier, unless it ends the link.
Keeps(l, m) ==
    /\ m.carrier \in {l.carrier, NoCarrier}
    /\ m.carrier # NoCarrier /\ Negotiated(l) => Negotiated(m)
    /\ m.st[2] = "none" => l.st[2] = "none"

\* It opens no connection, gives up none that is open, and stays closed.
Closes(l, m) ==
    /\ l.phase = "closed" => m.phase = "closed"
    /\ (l.phase = "closed" => l.carrier = NoCarrier) => (m.phase = "closed" => m.carrier = NoCarrier)
    /\ \A g \in Carriers : m.st[g] = "open" => l.st[g] = "open" /\ (l.carrier = g => m.carrier = g)
    /\ m.closing = "join" => l.closing = "join" \/ m.phase = "closed"

Steps(l, m) == Sound(m) /\ Keeps(l, m) /\ Closes(l, m)

\* Only the bookkeeping differs.
Same(l, m) ==
    /\ m.carrier = l.carrier /\ (m.phase = "closed" <=> l.phase = "closed")
    /\ m.closing = "join" => l.closing = "join" \/ l.phase = "closed"
    /\ m.st[2] = "none" => l.st[2] = "none"
    /\ \A g \in Carriers : m.st[g] = "open" => l.st[g] = "open"
    /\ m.acked \subseteq l.acked /\ m.peerAcked = l.peerAcked
    /\ m.want \subseteq l.want /\ m.address = l.address /\ m.locked = l.locked
    /\ m.pending = l.pending /\ (m.ready => l.ready)
    /\ m.heard = l.heard /\ m.carried = l.carried /\ m.first = l.first

\* The fields that no step of a negotiation changes.
Rest(l, m) ==
    /\ m.carrier = l.carrier /\ m.st = l.st /\ m.address = l.address /\ m.locked = l.locked
    /\ m.pending = l.pending /\ m.ready = l.ready /\ m.carried = l.carried /\ m.first = l.first
    /\ m.phase = l.phase /\ m.closing = l.closing

----------------------------------------------------------------------------
(* The invariant of the link and of the writer.                               *)

PcShape(f) == f = [a \in Actors |-> f[a]]

LocalRecord(v) ==
    v \in [
        channel : {v.channel}, taken : {v.taken}, result : {v.result}, next : Nat,
        phase : {v.phase}, generation : {v.generation}, checking : {v.checking},
        wasEnabled : {v.wasEnabled}, pending : Nat ]

LocalShape(v) ==
    v \in [
        channel : [Actors -> Nat], taken : {v.taken}, result : {v.result}, next : Nat,
        phase : {v.phase}, generation : {v.generation}, checking : {v.checking},
        wasEnabled : {v.wasEnabled}, pending : Nat ]

SessionShape(s) ==
    s \in [
        closed : {s.closed}, cancelled : {s.cancelled}, ready : {s.ready}, term : {s.term},
        own : {s.own}, udp : BOOLEAN, generation : {s.generation}, phase : {s.phase},
        connected : BOOLEAN, espEnabled : {s.espEnabled}, espLock : {s.espLock},
        keyed : {s.keyed}, suppressed : {s.suppressed}, events : {s.events} ]

Untouched(from) == \A p \in Packets : p >= from => wire[p] = 0

\* What the writer has handed out, by where it is.
WriterInv ==
    /\ wire \in [Packets -> 0 .. 1]
    /\ pc["writer"] \notin {"done", "terminating"} => Untouched(local.next - local.pending)
    /\ pc["writer"] \notin {"done", "terminating"} => local.pending < local.next
    /\ flavor # "pulse" \/ pc["writer"] = "esp" => local.pending = 0
    /\ pc["writer"] \in {"none", "batch"} => local.next = 1
    /\ flavor \in {"nc", "ppp"} /\ pc["writer"] \in {"lock", "writing"} => local.next = 1

\* The link is negotiated when the writer has found it so, and the second carrier
\* is nobody's before the link changes to it.
PPPInv ==
    /\ SessionShape(session)
    /\ LocalShape(local)
    /\ pc["start"] \in {"none", "prepare", "install"} =>
          ~session.connected /\ pc["control"] = "none" /\ pc["writer"] = "none"
    /\ pc["writer"] = "none" => local.channel["writer"] = Nil
    /\ pc["writer"] = "lock" =>
          /\ local.channel["writer"] # Nil
          /\ link.carrier = local.channel["writer"] => Negotiated(link)
    /\ link.st[2] = "none" \/ pc["control"] = "switch" =>
          link.carrier # 2 /\ local.channel["writer"] # 2
    /\ pc["control"] = "switch" => link.st[2] # "none"

Inv ==
    /\ PcShape(pc)
    /\ LocalRecord(local)
    /\ Sound(link)
    /\ WriterInv
    /\ flavor = "ppp" => PPPInv

----------------------------------------------------------------------------
(* Steps that leave link and writer alone.                                    *)

\* A step that is none of the writer's.
Quiet ==
    /\ PcShape(pc')
    /\ LocalShape(local')
    /\ UNCHANGED <<flavor, wire>>
    /\ pc'["writer"] = pc["writer"]
    /\ local'.next = local.next /\ local'.pending = local.pending
    /\ local'.channel["writer"] = local.channel["writer"]

\* A step of a PPP session that is neither the writer's nor a change of carrier.
LinkQuiet ==
    /\ Sound(link') /\ Keeps(link, link')
    /\ SessionShape(session')
    /\ pc'["start"] \in {"none", "prepare", "install"} =>
          ~session'.connected /\ pc'["control"] = "none" /\ pc'["writer"] = "none"
    /\ pc'["control"] = "switch" =>
          \/ pc["control"] = "switch"
          \/ link.st[2] = "none" /\ link'.st[2] # "none"

Calm ==
    /\ PcShape(pc')
    /\ LocalRecord(local')
    /\ UNCHANGED <<flavor, wire>>
    /\ pc'["writer"] = pc["writer"]
    /\ local'.next = local.next /\ local'.pending = local.pending

Delivers ==
    /\ PcShape(pc')
    /\ LocalRecord(local')
    /\ UNCHANGED flavor
    /\ WriterInv'

Others == Fail \/ ClientCloses \/ ChannelProceeds \/ ChannelActs

----------------------------------------------------------------------------
(* What a session that is closed leaves behind: of whatever is open, some     *)
(* goroutine is answerable.                                                   *)

Running(c) == channels[c].st \in {"dialing", "up"}

ClosedTerms == {"taken", "closing", "done"}

ClientShape(c) == {"closed", "transportSession", "activeTransport"} \subseteq DOMAIN c

CloseShape ==
    /\ DOMAIN pc = Actors
    /\ ClientShape(client)
    /\ DOMAIN session = {"closed", "cancelled", "ready", "term", "own", "udp", "generation", "phase",
                        "connected", "espEnabled", "espLock", "keyed", "suppressed", "events"}
    /\ session.own \in Nat
    /\ DOMAIN conn = {"st", "holder", "deadline"}
    /\ conn.st \in {"open", "closed"}
    /\ channels \in [1 .. MaxChannels -> Channel]
    /\ keys \in {"none", "live", "destroyed"}
    /\ DOMAIN local = {"channel", "taken", "result", "next", "phase", "generation", "checking",
                      "wasEnabled", "pending"}
    /\ local.channel \in [Actors -> Nat]
    /\ local.taken \in Nat

\* What holds of every protocol.
CloseCommon ==
    /\ session.closed <=> session.term \in ClosedTerms
    /\ session.term \in {"closing", "done"} => client.transportSession # Self /\ session.own = Nil
    /\ pc["closer"] \in {"join", "done"} => session.term = "done"
    /\ \A c \in 1 .. MaxChannels : Alive(channels[c]) => channels[c].done = "open"
    /\ flavor # "ppp" => link = NewLink

\* AnyConnect has no keys, and dtlsLoop has one channel at a time.
ACClosing ==
    /\ conn.st = "open" => session.term # "done"
    /\ keys # "live"
    /\ session.closed => ~session.ready
    /\ \A c \in 1 .. MaxChannels : Running(c) =>
          session.own = c /\ local.channel["control"] = c /\ pc["control"] \in {"dial", "up", "watch"}
    /\ pc["control"] \in {"report", "decide"} =>
          \A c \in 1 .. MaxChannels : Alive(channels[c]) => local.channel["control"] # c
    /\ pc["start"] = "none" => pc["control"] = "none"
    /\ pc["start"] = "launch" => pc["control"] \in {"none", "pending"}

\* A channel of GlobalProtect that runs is the session's own, or openGPST or
\* terminate is about to close it.
GPClosing ==
    /\ conn.st = "closed"
    /\ keys = "live" => session.term # "done"
    /\ session.closed => ~session.ready /\ session.own = Nil
    /\ \A c \in 1 .. MaxChannels : Running(c) =>
          \/ session.own = c
          \/ session.term = "taken" /\ local.taken = c
          \/ \E a \in Opener : pc[a] = "closeOld" /\ local.channel[a] = c
    /\ pc["control"] # "none" => pc["start"] = "running"
    /\ \A a \in Opener : pc[a] \in {"closeOld", "joinOld", "gpst"} => session.own = Nil
    /\ pc["start"] \in {"none", "fetch", "hip"} => session.own = Nil
    /\ pc["start"] \in {"espDial", "probe", "await"} => session.own \in {Nil, local.channel["start"]}
    /\ pc["start"] \in {"candidate", "rejoin"} =>
          \A c \in 1 .. MaxChannels : Running(c) => session.own # c
    /\ \A a \in Opener : pc[a] = "gpstDown" =>
          \A c \in 1 .. MaxChannels : Running(c) => local.channel[a] # c
    /\ pc["closer"] = "done" =>
          pc["control"] \in {"none", "exited"} /\ pc["start"] \in {"none", "failed", "running"}

\* The connection and the keys of Network Connect are Start's until it installs
\* them; a channel that runs is the session's own, or controlLoop has just made
\* it, or readLoop or terminate is about to close it.
NCClosing ==
    /\ conn.st = "open" =>
          \/ pc["start"] \in {"request", "configure", "install"}
          \/ session.connected /\ session.term \notin {"closing", "done"}
    /\ keys = "live" => pc["start"] = "install" \/ (session.connected /\ session.term # "done")
    /\ session.closed => session.own = Nil
    /\ \A c \in 1 .. MaxChannels : Running(c) =>
          \/ session.own = c
          \/ session.term = "taken" /\ local.taken = c
          \/ pc["control"] \in {"dial", "probe", "install"} /\ local.channel["control"] = c
          \/ pc["reader"] = "disabled" /\ local.channel["reader"] = c
    /\ pc["reader"] # "none" \/ pc["control"] # "none" => pc["start"] = "running"
    /\ pc["control"] \in {"none", "esp", "dial", "probe", "install"} => session.own = Nil
    /\ pc["control"] \in {"disableLock", "disabling", "release"} =>
          \A c \in 1 .. MaxChannels : Running(c) => local.channel["control"] # c
    /\ pc["closer"] = "done" =>
          /\ \A a \in {"reader", "control"} : pc[a] \in {"none", "exited"}
          /\ pc["start"] # "report"

\* So it is with Pulse, whose keys are made and replaced while it runs.
PulseClosing ==
    /\ conn.st = "open" =>
          pc["start"] \in {"configure", "install"} \/ (session.connected /\ session.term # "done")
    /\ keys = "live" => session.keyed \/ pc["reader"] \in {"suppressed", "closeESP"}
    /\ session.term = "done" => ~session.keyed
    /\ pc["reader"] # "none" => pc["start"] \in {"launch", "running"}
    /\ session.closed => session.own = Nil
    /\ \A c \in 1 .. MaxChannels : Running(c) =>
          \/ session.own = c
          \/ session.term = "taken" /\ local.taken = c
          \/ pc["reader"] = "suppressed" /\ local.channel["reader"] = c
          \/ \E m \in Monitors : pc[m] = "fallback" /\ local.channel[m] = c
    /\ pc["closer"] = "done" =>
          /\ \A a \in Monitors \cup {"reader"} : pc[a] \in {"none", "exited"}
          /\ pc["start"] # "report"

\* A PPP session has its carriers and no channels.  An open carrier is the link's
\* current one, or controlLoop has it in hand.
PPPClosing ==
    /\ conn.st = "closed" /\ keys = "none"
    /\ \A c \in 1 .. MaxChannels : channels[c] = NoChannel
    /\ link.phase = "closed" => link.carrier = NoCarrier
    /\ link.closing = "join" => link.phase = "closed"
    /\ link.st[1] = "open" => link.carrier = 1 \/ pc["control"] = "closeOld"
    /\ link.st[2] = "open" => link.carrier = 2 \/ pc["control"] \in {"switch", "withdraw"}
    /\ session.own = Nil
    /\ session.term = "done" /\ session.connected => link.phase = "closed"
    /\ ~session.connected /\ pc["start"] # "install" => link.carrier = NoCarrier
    /\ pc["start"] \in {"none", "prepare", "install"} => ~session.connected
    /\ pc["start"] \in {"startLink", "lock", "writing", "await", "publish", "report", "running"} =>
          session.connected
    /\ pc["control"] # "none" => pc["start"] = "running"
    /\ pc["closer"] = "done" =>
          pc["control"] \in {"none", "exited"} /\ pc["start"] \in {"none", "failed", "running"}

CloseInv ==
    /\ flavor \in {"anyconnect", "gp", "nc", "pulse", "ppp"}
    /\ CloseShape
    /\ CloseCommon
    /\ flavor = "anyconnect" => ACClosing
    /\ flavor = "gp" => GPClosing
    /\ flavor = "nc" => NCClosing
    /\ flavor = "pulse" => PulseClosing
    /\ flavor = "ppp" => PPPClosing

----------------------------------------------------------------------------
(* What a step may do to channels, registers and the session.                 *)

\* Channels only end, and no keys come into being.
Winds ==
    /\ channels' \in [1 .. MaxChannels -> Channel]
    /\ \A d \in 1 .. MaxChannels : Running(d)' => Running(d)
    /\ \A d \in 1 .. MaxChannels :
          Alive(channels'[d]) => Alive(channels[d]) /\ channels'[d].done = channels[d].done
    /\ keys' \in {"none", "live", "destroyed"}
    /\ keys' = "live" => keys = "live"

\* A goroutine changes no channel of another's.
LocalMoves(a) ==
    /\ DOMAIN local' = DOMAIN local
    /\ local'.channel \in [Actors -> Nat]
    /\ local'.taken = local.taken
    /\ \A b \in Actors : b # a => local'.channel[b] = local.channel[b]

\* The session goes on, or is told to end.
SessionKeeps ==
    /\ DOMAIN session' = DOMAIN session
    /\ session'.closed = session.closed
    /\ session'.term = session.term \/ (session.term = "no" /\ session'.term = "called")
    /\ session'.connected = session.connected

AliveOpen == \A d \in 1 .. MaxChannels : Alive(channels'[d]) => channels'[d].done = "open"

\* A step of a PPP session that makes no carrier and leaves terminate alone.
PPPCalm ==
    /\ UNCHANGED <<flavor, conn, channels, keys>>
    /\ SessionKeeps /\ session'.own = session.own
    /\ ClientShape(client') /\ client'.transportSession = client.transportSession
    /\ \E a \in Actors : LocalMoves(a)
    /\ DOMAIN pc' = Actors

\* Where its goroutines may go.
PPPGoes ==
    /\ \/ pc'["start"] = pc["start"]
       \/ /\ pc["start"] = "none"
          /\ pc'["start"] \in IF session.closed THEN {"failed"} ELSE {"prepare", "terminating"}
       \/ pc["start"] = "prepare" /\ pc'["start"] = "terminating"
       \/ /\ pc["start"] \in {"startLink", "lock", "writing", "await", "publish", "report"}
          /\ pc'["start"] \in {"lock", "writing", "await", "publish", "report", "running", "terminating"}
    /\ \/ pc'["control"] = pc["control"]
       \/ pc["start"] = "report" /\ pc'["start"] = "running"
       \/ pc["control"] \notin {"none", "exited", "closeOld", "switch", "withdraw"}
       \/ pc["control"] = "closeOld" /\ link'.st[1] # "open"
       \/ pc["control"] = "withdraw" /\ link'.st[2] # "open"
       \/ pc["control"] = "switch" /\ pc'["control"] = "withdraw"
    /\ pc'["closer"] = pc["closer"] \/ pc'["closer"] \notin {"join", "done"}

Outcome(a) ==
    CASE a = "start" -> "failed"
      [] a = "closer" -> "join"
      [] a = "writer" -> "done"
      [] OTHER -> "exited"

\* A goroutine that called terminate goes on when terminate is done.
Leaves(a) ==
    /\ session.term = "done" /\ pc[a] = "terminating"
    /\ pc' = [pc EXCEPT ![a] = Outcome(a)]
    /\ LocalMoves(a)

OtherMoves ==
    /\ UNCHANGED <<flavor, link>>
    /\ DOMAIN conn' = DOMAIN conn /\ conn'.st = conn.st
    /\ Winds
    /\ SessionKeeps /\ session'.own = session.own
    /\ session'.ready = session.ready /\ session'.keyed = session.keyed
    /\ ClientShape(client') /\ client'.transportSession \in {client.transportSession, NoSession}
    /\ UNCHANGED <<pc, local>> \/ \E a \in Actors : Leaves(a)

----------------------------------------------------------------------------
(* The rules every step obeys, for the client's sake, and what follows from   *)
(* them.                                                                      *)

Terms == {"no", "called", "cancelled", "taken", "closing", "done"}

\* The worker that runs as long as the session does.
Leader == IF flavor \in {"gp", "ppp"} THEN "control" ELSE "reader"

\* terminate goes on, and the context ends with it or with the client.
SessionGoesOn ==
    /\ \/ session'.term = session.term
       \/ session.term = "no" /\ session'.term = "called"
       \/ session.term \notin {"no", "done"} /\ session'.term \in Terms \ {"no"}
    /\ session'.cancelled =>
          session.cancelled \/ session'.term # "no" \/ client'.transportSession # Self

ClientGoesOn ==
    \/ UNCHANGED client
    \/ \E t \in Transports : Report(t)
    \/ client' = StopActiveTransport(client, Self)
    \/ client' = MarkClosed(client)

\* One goroutine goes on.
GoesOn(a) ==
    /\ \A b \in Actors : b # a => pc'[b] = pc[b]
    /\ a = "start" => pc'[a] # "launch"
    /\ a = "closer" => /\ pc[a] # "done"
                       /\ pc'[a] = "done" => session.term = "done" /\ \A b \in Workers : Finished(b)
    /\ a \in Workers => pc[a] \notin {"none", "exited", "pending"}
    /\ a = Leader => /\ pc'[a] # "none"
                     /\ pc'[a] = "exited" => session.term # "no" \/ session.cancelled

\* The workers go on as long as the leader does, and Close waits for them.
WorkersGoOn ==
    /\ pc["closer"] = "done" => pc'["closer"] = "done"
    /\ pc["closer"] # "done" /\ pc'["closer"] = "done" =>
          session.term = "done" /\ \A b \in Workers : Finished(b) /\ pc'[b] = pc[b]
    /\ pc[Leader] # "none" => pc'[Leader] # "none"
    /\ pc'[Leader] = "exited" => pc[Leader] = "exited" \/ session.term # "no" \/ session.cancelled
    /\ pc'[Leader] = "none" => \A b \in Workers : Finished(b) => pc'[b] = pc[b]
    /\ flavor = "anyconnect" =>
          /\ pc'["start"] = "launch" /\ (pc["start"] = "launch" => pc["reader"] = "pending") =>
                pc'["reader"] = "pending"
          /\ /\ pc["closer"] = "done" /\ \A b \in Workers : Finished(b)
             /\ pc["start"] = "launch" => pc["reader"] = "pending"
             => \A b \in Workers : pc'[b] = pc[b]
    /\ flavor = "pulse" /\ pc'["start"] = "launch" => pc["start"] = "launch" \/ pc'["reader"] # "none"

Obeys == SessionGoesOn /\ ClientGoesOn /\ WorkersGoOn

\* The leader outlives the other workers, and ends with the session or the client.
ContractInv ==
    /\ session.term \in Terms
    /\ session.cancelled => session.term # "no" \/ client.transportSession # Self
    /\ pc[Leader] = "exited" => session.term # "no" \/ client.transportSession # Self
    /\ pc[Leader] = "none" => \A a \in Workers : Finished(a)
    /\ pc["closer"] = "done" => \A a \in Workers : Finished(a)
    /\ flavor = "anyconnect" /\ pc["start"] = "launch" => pc["reader"] = "pending"
    /\ flavor = "pulse" /\ pc["start"] = "launch" => pc["reader"] # "none"
=============================================================================

--------------------------- MODULE DatagramChannel ---------------------------
(********************************************************************************)
(* The data channels a tunnel session brings up beside (or instead of) its      *)
(* first connection: espChannel (esp_channel.go), gpstChannel (gp_gpst.go)      *)
(* and anyConnectDTLSChannel (dtls_session.go).  The three are built alike:     *)
(* Start dials and starts the workers, a worker or a writer that meets an       *)
(* error terminates the channel, terminate runs once and closes Done, and       *)
(* Close also waits for the workers.  An ESP channel is ready only when a       *)
(* probe is answered, the other two as soon as Start returns.                   *)
(*                                                                              *)
(* Every operator is a function from a channel's state to the next one.         *)
(********************************************************************************)
EXTENDS Naturals

Kinds == {"esp", "gpst", "dtls"}
\* What Done delivers; "open" while the channel lives, "nil" when it is
\* closed without an error.
Endings == {"open", "nil", "err", "exhausted", "fatal", "rekey"}

Channel == [
    st          : {"none", "new", "dialing", "up", "closed"},
    kind        : Kinds,
    ready       : BOOLEAN,
    established : BOOLEAN,
    done        : Endings,
    workers     : BOOLEAN ]  \* readLoop and timerLoop run

NoChannel == [
    st |-> "none", kind |-> "esp", ready |-> FALSE, established |-> FALSE,
    done |-> "open", workers |-> FALSE ]

NewChannel(kind) == [NoChannel EXCEPT !.st = "new", !.kind = kind]

Alive(c) == c.st \in {"new", "dialing", "up"}

\* Start up to the dial; a channel closed before that is left alone, and
\* Start fails.
Dialing(c) == IF c.st = "new" THEN [c EXCEPT !.st = "dialing"] ELSE c

\* The end of Start, once the connection is made: the connection of a channel
\* that was closed meanwhile is closed again.
Connected(c) ==
    IF c.st = "dialing"
    THEN [c EXCEPT !.st = "up", !.workers = TRUE, !.ready = c.kind # "esp"]
    ELSE c

\* The first answered probe of an ESP channel (establishedOnce).
Established(c) ==
    IF c.st = "up" /\ ~c.established
    THEN [c EXCEPT !.ready = TRUE, !.established = TRUE]
    ELSE c

\* terminate(err): the first call decides what Done delivers.
Terminated(c, err) ==
    IF Alive(c)
    THEN [c EXCEPT !.st = "closed", !.ready = FALSE, !.done = err]
    ELSE c

WorkersGone(c) == [c EXCEPT !.workers = FALSE]

\* Whether terminate(err) destroys the keys of an ESP channel.  A failure leaves
\* them for another attempt if the channel's configuration preserves them: after
\* a failure before the channel was ready ("startup") or after any ("failure").
\* A failure that says the keys themselves are used up does not.
DestroysKeys(c, err, preserved) ==
    /\ c.kind = "esp" /\ Alive(c)
    /\ \/ err \in {"nil", "exhausted"}
       \/ preserved = "never"
       \/ preserved = "startup" /\ c.ready

\* Close returns when the workers have.
Joined(c) == ~c.workers
=============================================================================

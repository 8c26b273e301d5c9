------------------------- MODULE ClientSupervisor -------------------------
(********************************************************************************)
(* The life of a client (client.go, client_supervisor.go): the supervisor       *)
(* goroutine that authenticates, connects tunnel sessions, publishes them       *)
(* and replaces them when they end; the sessions and their workers, seen        *)
(* through the clientSession interface; the dispatcher of configuration         *)
(* events; and the calls Start, RestartSession, Suspend, Resume and Close.      *)
(*                                                                              *)
(* Authentication and the protocol of a session are left to their own           *)
(* modules: here they succeed, or fail with one of the classes of errors        *)
(* the supervisor tells apart.                                                  *)
(********************************************************************************)
EXTENDS ClientState, Integers, Sequences, FiniteSets

CONSTANTS
    ReconnectTimeout,   \* options.ReconnectTimeout
    InitialBackoff,     \* clientReconnectInitialBackoff
    MaximumBackoff,     \* clientReconnectMaximumBackoff
    Failures,           \* classes of errors the server and the network cause
    Subscribed,         \* options.OnTunnelConfiguration is set
    MaxSessions,        \* bound: tunnel sessions connected
    MaxObtained,        \* bound: authentications that succeed
    MaxSuspends,        \* bound: calls of Suspend
    MaxReconfigured     \* bound: configuration changes of one running session

ASSUME SupervisorAssumption ==
    /\ {ReconnectTimeout, InitialBackoff, MaximumBackoff} \subseteq Nat \ {0}
    /\ InitialBackoff <= MaximumBackoff
    /\ Failures \subseteq {"retry", "rejected", "rekey", "retryAuth", "terminal"}
    /\ Subscribed \in BOOLEAN
    /\ {MaxSessions, MaxObtained, MaxSuspends, MaxReconfigured} \subseteq Nat

Sessions == 1 .. MaxSessions
Errors == {"nil", "retry", "rejected", "rekey", "retryAuth", "terminal", "suspended"}
Reasons == {"initial", "reestablishment", "rekey", "reconfigured"}

VARIABLES
    client,      \* the state under lifecycleAccess
    context,     \* the supervisor's context: "none" before Start, "live", "done"
    suspension,  \* [on, calls, resumed, failing]: suspended; the number of the
                 \* latest resumed channel and of the latest closed one; the
                 \* sessions a Suspend call captured and did not Fail yet
    config,      \* [revision, version, owners]: client.tunnelConfiguration, and
                 \* as history the session every revision came from
    sup,         \* the locals of runSupervisor; waited is history
    sess,        \* the tunnel sessions
    obtained,    \* [count, open]: authentications so far, those not yet closed
    events,      \* [queue, stopped, pc, session]: the event dispatcher
    closer       \* [pc, session]: the call of Close

vars == <<client, context, suspension, config, sup, sess, obtained, events, closer>>

Suspension == [on : BOOLEAN, calls : 0 .. MaxSuspends, resumed : 0 .. MaxSuspends,
               failing : SUBSET Sessions]
Configuration == [revision : Nat, version : Nat, owners : Seq(Sessions)]
Locals == [pc : {"idle", "loop", "resume", "obtain", "connect", "setCurrent", "start",
                 "starting", "readConfig", "setConfig", "publish", "announce",
                 "checkSuspended", "run", "closing", "clear", "decide", "backoff",
                 "exit", "done"},
           state : Nat, session : Nat, backoff : Nat, established : BOOLEAN,
           pendingRekey : BOOLEAN, rekeyOf : Nat,
           reconnecting : BOOLEAN, remaining : Nat, waited : Nat,
           version : Nat, revision : Nat, reason : Reasons, resumed : Nat,
           err : Errors, after : {"startFailed", "unpublished", "ended"}]
SessionState == [st : {"none", "connected", "started", "dying", "dead"},
                 ready : BOOLEAN, err : Errors, version : Nat, revision : Nat,
                 worker : {"none", "idle", "changed", "stamp", "publish", "announce", "exited"}]
Event == [reason : Reasons, revision : Nat]
Dispatcher == [queue : Seq(Event), stopped : BOOLEAN,
               pc : {"idle", "callback", "failed", "stopped", "ended"}, session : Nat]

TypeOK ==
    /\ client \in Client
    /\ context \in {"none", "live", "done"}
    /\ suspension \in Suspension
    /\ config \in Configuration /\ Len(config.owners) = config.revision
    /\ sup \in Locals
    /\ sess \in [Sessions -> SessionState]
    /\ obtained \in [count : 0 .. MaxObtained, open : SUBSET (1 .. MaxObtained)]
    /\ events \in Dispatcher
    /\ closer \in [pc : {"idle", "stop", "session", "supervisor", "done"}, session : Nat]

Init ==
    /\ client = NewClient
    /\ context = "none"
    /\ suspension = [on |-> FALSE, calls |-> 0, resumed |-> 0, failing |-> {}]
    /\ config = [revision |-> 0, version |-> 0, owners |-> << >>]
    /\ sup = [pc |-> "idle", state |-> 0, session |-> NoSession, backoff |-> InitialBackoff,
              established |-> FALSE, pendingRekey |-> FALSE, rekeyOf |-> 0,
              reconnecting |-> FALSE, remaining |-> 0, waited |-> 0,
              version |-> 0, revision |-> 0, reason |-> "initial", resumed |-> 0,
              err |-> "nil", after |-> "ended"]
    /\ sess = [s \in Sessions |-> [st |-> "none", ready |-> FALSE, err |-> "nil",
                                   version |-> 0, revision |-> 0, worker |-> "none"]]
    /\ obtained = [count |-> 0, open |-> {}]
    /\ events = [queue |-> << >>, stopped |-> FALSE, pc |-> "idle", session |-> NoSession]
    /\ closer = [pc |-> "idle", session |-> NoSession]

----------------------------------------------------------------------------
(* Tunnel sessions, as far as the client sees them.  terminate runs once: it *)
(* first makes the session unusable, then gives up the active transport and  *)
(* closes Done.  Fail and Close both start it; Close also waits for the      *)
(* workers.                                                                  *)

Alive(s) == s # NoSession /\ sess[s].st \in {"connected", "started"}
Ended(s) == sess[s].st = "dead" /\ sess[s].worker \in {"none", "exited"}

\* The sessions after the first half of terminate(err) on s.
Terminating(s, err) ==
    IF Alive(s)
    THEN [sess EXCEPT ![s].st = "dying", ![s].ready = FALSE, ![s].err = err]
    ELSE sess

\* The second half, and the end of Done.
FinishTerminate(s) ==
    /\ sess[s].st = "dying"
    /\ client' = StopActiveTransport(client, s)
    /\ sess' = [sess EXCEPT ![s].st = "dead"]
    /\ UNCHANGED <<context, suspension, config, sup, obtained, events, closer>>

\* The server, the network or a timer ends a session.
SessionFails(s) ==
    /\ sess[s].st = "started"
    /\ \E err \in Failures \cup {"nil"} : sess' = Terminating(s, err)
    /\ UNCHANGED <<client, context, suspension, config, sup, obtained, events, closer>>

\* A worker brings the datagram transport up, or falls back to the stream.
WorkerSetsTransport(s) ==
    /\ sess[s].worker = "idle"
    /\ \E transport \in {"stream", "datagram"} :
          client' = SetActiveTransport(client, s, transport)
    /\ UNCHANGED <<context, suspension, config, sup, sess, obtained, events, closer>>

\* A worker changes the session's configuration: a smaller path MTU, or a new
\* carrier.
WorkerReconfigures(s) ==
    /\ sess[s].worker = "idle"
    /\ sess[s].version < MaxReconfigured
    /\ sess' = [sess EXCEPT ![s].version = @ + 1, ![s].worker = "changed"]
    /\ UNCHANGED <<client, context, suspension, config, sup, obtained, events, closer>>

\* Only a ready session publishes the change itself; before that the
\* supervisor does, with the rest of the configuration.
WorkerChecksReady(s) ==
    /\ sess[s].worker = "changed"
    /\ sess' = [sess EXCEPT ![s].worker = IF sess[s].ready THEN "stamp" ELSE "idle"]
    /\ UNCHANGED <<client, context, suspension, config, sup, obtained, events, closer>>

\* setTunnelConfiguration: the configuration gets the next revision.
NextRevision == config.revision + 1
SetTunnelConfiguration(s, version) ==
    config' = [revision |-> NextRevision, version |-> version, owners |-> Append(config.owners, s)]

WorkerStamps(s) ==
    /\ sess[s].worker = "stamp"
    /\ SetTunnelConfiguration(s, sess[s].version)
    /\ sess' = [sess EXCEPT ![s].worker = "publish", ![s].revision = NextRevision]
    /\ UNCHANGED <<client, context, suspension, sup, obtained, events, closer>>

\* publishTunnelConfigurationEvent: its locked part, then the event.
WorkerPublishes(s) ==
    /\ sess[s].worker = "publish"
    /\ client' = PublishRevision(client, sess[s].revision)
    /\ sess' = [sess EXCEPT ![s].worker = "announce"]
    /\ UNCHANGED <<context, suspension, config, sup, obtained, events, closer>>

EnqueueEvent(reason, revision) ==
    IF events.stopped \/ ~Subscribed THEN events
    ELSE [events EXCEPT !.queue = Append(@, [reason |-> reason, revision |-> revision])]

WorkerAnnounces(s) ==
    /\ sess[s].worker = "announce"
    /\ events' = EnqueueEvent("reconfigured", sess[s].revision)
    /\ sess' = [sess EXCEPT ![s].worker = "idle", ![s].revision = 0]
    /\ UNCHANGED <<client, context, suspension, config, sup, obtained, closer>>

\* The workers of a terminated session return.
WorkerExits(s) ==
    /\ sess[s].worker = "idle"
    /\ sess[s].st \in {"dying", "dead"}
    /\ sess' = [sess EXCEPT ![s].worker = "exited"]
    /\ UNCHANGED <<client, context, suspension, config, sup, obtained, events, closer>>

WorkerProceeds(s) ==
    WorkerChecksReady(s) \/ WorkerStamps(s) \/ WorkerPublishes(s) \/ WorkerAnnounces(s)
        \/ WorkerExits(s)

----------------------------------------------------------------------------
(* The supervisor.  A step is described by the next values of its locals and, *)
(* where it touches them, of the client, the session and the authentication.  *)

Stopping == context = "done" \/ client.closed
Goto(pc) == [sup EXCEPT !.pc = pc]
Exit == [sup EXCEPT !.pc = "exit", !.state = 0, !.err = "nil"]
Closing(after, err) == [sup EXCEPT !.pc = "closing", !.after = after, !.err = err]

\* Retry after the backoff, or at once with the first backoff.
RetryLater == [sup EXCEPT !.pc = "backoff", !.err = "nil"]
RetryNow == [sup EXCEPT !.pc = "loop", !.err = "nil", !.backoff = InitialBackoff]
\* A new tunnel on the same authentication, because the server wants new keys.
Rekey == [RetryNow EXCEPT !.pendingRekey = TRUE, !.rekeyOf = sup.state]
\* Mutant: a pending rekey survives the authentication it belonged to.
ReauthenticateKeepsRekey(locals) == [locals EXCEPT !.state = 0]
\* The authentication is given up, too.
Reauthenticate(locals) == [locals EXCEPT !.state = 0, !.pendingRekey = FALSE, !.rekeyOf = 0]

CloseObtained == obtained' = [obtained EXCEPT !.open = @ \ {sup.state}]

\* setTerminalError, and the cancellation it ends with.
Terminate(err) ==
    /\ client' = SetTerminalError(client, err)
    /\ context' = IF client.closed THEN context ELSE "done"

\* The three ways a step can leave: keeping the authentication, closing it and
\* going on (or returning), closing it and failing.
Keep(locals) == sup' = locals /\ UNCHANGED <<obtained, client, context>>
Discard(locals) == sup' = locals /\ CloseObtained /\ UNCHANGED <<client, context>>
Fail(err) == sup' = Exit /\ CloseObtained /\ Terminate(err)

AfterResume ==
    [sup EXCEPT !.pc = IF sup.state = 0 THEN "obtain" ELSE "connect", !.resumed = 0]

Loop ==
    /\ sup.pc = "loop"
    /\ IF Stopping THEN Discard(Exit)
       ELSE IF suspension.on
       THEN Keep([sup EXCEPT !.pc = "resume", !.resumed = suspension.calls])
       ELSE Keep(AfterResume)
    /\ UNCHANGED <<suspension, config, sess, events, closer>>

\* Mutant: a suspended supervisor does not notice that its context ended.
WaitResumedIgnoresContext ==
    /\ sup.pc = "resume"
    /\ suspension.resumed >= sup.resumed
    /\ Keep(AfterResume)
    /\ UNCHANGED <<suspension, config, sess, events, closer>>

\* waitResumed waits for the channel it captured, which a Resume closed even
\* if the client is suspended again by now.
WaitResumed ==
    /\ sup.pc = "resume"
    /\ \/ context = "done" /\ Discard(Exit)
       \/ suspension.resumed >= sup.resumed /\ Keep(AfterResume)
    /\ UNCHANGED <<suspension, config, sess, events, closer>>

ObtainSession ==
    /\ sup.pc = "obtain"
    /\ obtained.count < MaxObtained
    /\ LET id == obtained.count + 1 IN
          /\ obtained' = [count |-> id, open |-> obtained.open \cup {id}]
          /\ sup' = [sup EXCEPT !.pc = "connect", !.state = id]
    /\ UNCHANGED <<client, context, suspension, config, sess, events, closer>>

ObtainSessionFails(err) ==
    /\ sup.pc = "obtain"
    /\ IF Stopping THEN Keep(Exit)
       ELSE IF err = "terminal" THEN Fail("failed")
       ELSE Keep(RetryLater)
    /\ UNCHANGED <<suspension, config, sess, events, closer>>

NextSession == Cardinality({s \in Sessions : sess[s].st # "none"}) + 1

ConnectTunnel ==
    /\ sup.pc = "connect"
    /\ NextSession \in Sessions
    /\ sess' = [sess EXCEPT ![NextSession].st = "connected"]
    /\ sup' = [sup EXCEPT !.pc = "setCurrent", !.session = NextSession]
    /\ UNCHANGED <<client, context, suspension, config, obtained, events, closer>>

\* Mutant: a rejected authentication is dropped without being closed.
ConnectTunnelFailsUnclosed(err) ==
    /\ sup.pc = "connect"
    /\ CASE err = "rejected" -> Keep(Reauthenticate(RetryLater))
         [] err = "rekey"    -> Keep(Rekey)
         [] OTHER            -> IF Stopping THEN Discard(Exit) ELSE Keep(RetryLater)
    /\ UNCHANGED <<suspension, config, sess, events, closer>>

ConnectTunnelFails(err) ==
    /\ sup.pc = "connect"
    /\ CASE err = "rejected" -> Discard(Reauthenticate(RetryLater))
         [] err = "rekey"    -> Keep(Rekey)
         [] OTHER ->
            IF Stopping THEN Discard(Exit)
            ELSE CASE err = "retryAuth" -> Discard(Reauthenticate(RetryNow))
                   [] err = "terminal"  -> Fail("failed")
                   [] OTHER             -> Keep(RetryLater)
    /\ UNCHANGED <<suspension, config, sess, events, closer>>

\* A session that may not become current was never started; it is closed.
SetCurrent ==
    /\ sup.pc = "setCurrent"
    /\ IF Stopping
       THEN /\ Discard(Exit)
            /\ sess' = [sess EXCEPT ![sup.session].st = "dead"]
       ELSE /\ client' = SetCurrentSession(client, sup.session)
            /\ sup' = Goto("start")
            /\ UNCHANGED <<context, obtained, sess>>
    /\ UNCHANGED <<suspension, config, events, closer>>

\* Start() launches the workers, unless the session was closed before.
StartSession ==
    /\ sup.pc = "start"
    /\ IF sess[sup.session].st = "connected"
       THEN /\ sess' = [sess EXCEPT ![sup.session].st = "started",
                                    ![sup.session].worker = "idle"]
            /\ client' = SetActiveTransport(client, sup.session, "stream")
            /\ sup' = Goto("starting")
       ELSE sup' = Closing("startFailed", "retry") /\ UNCHANGED <<sess, client>>
    /\ UNCHANGED <<context, suspension, config, obtained, events, closer>>

\* Start() returns nil with the session ready.
StartReturns ==
    /\ sup.pc = "starting"
    /\ sess[sup.session].st = "started"
    /\ sess' = [sess EXCEPT ![sup.session].ready = TRUE]
    /\ sup' = Goto("readConfig")
    /\ UNCHANGED <<client, context, suspension, config, obtained, events, closer>>

\* Start() fails; a session that ended meanwhile reports just that.
StartFails(err) ==
    /\ sup.pc = "starting"
    /\ sess[sup.session].st # "started" => err = "retry"
    /\ Keep(Closing("startFailed", err))
    /\ UNCHANGED <<suspension, config, sess, events, closer>>

\* The tunnel is up: the reason of its event is fixed and the reconnect
\* accounting is reset, then the session's configuration is read.
ReadConfiguration ==
    /\ sup.pc = "readConfig"
    /\ Keep([sup EXCEPT !.pc = "setConfig",
                        !.reason = IF sup.pendingRekey THEN "rekey"
                                   ELSE IF sup.established THEN "reestablishment"
                                   ELSE "initial",
                        !.pendingRekey = FALSE,
                        !.rekeyOf = 0,
                        !.established = TRUE,
                        !.reconnecting = FALSE,
                        !.remaining = 0,
                        !.waited = 0,
                        !.version = sess[sup.session].version])
    /\ UNCHANGED <<suspension, config, sess, events, closer>>

SetConfiguration ==
    /\ sup.pc = "setConfig"
    /\ SetTunnelConfiguration(sup.session, sup.version)
    /\ sup' = [sup EXCEPT !.pc = "publish", !.revision = NextRevision]
    /\ UNCHANGED <<client, context, suspension, sess, obtained, events, closer>>

\* publishCurrentSession, and what follows when it refuses.
Publish ==
    /\ sup.pc = "publish"
    /\ IF CanPublish(client, sup.session, context = "done", sess[sup.session].ready)
       THEN /\ client' = PublishCurrentSession(client, sup.session, sup.revision)
            /\ sup' = Goto("announce")
       ELSE sup' = Closing("unpublished", "nil") /\ UNCHANGED client
    /\ UNCHANGED <<context, suspension, config, sess, obtained, events, closer>>

\* publishTunnelConfigurationEvent; the locked part finds its revision
\* published already.
Announce ==
    /\ sup.pc = "announce"
    /\ client' = PublishRevision(client, sup.revision)
    /\ events' = EnqueueEvent(sup.reason, sup.revision)
    /\ sup' = [sup EXCEPT !.pc = "checkSuspended", !.version = 0, !.revision = 0]
    /\ UNCHANGED <<context, suspension, config, sess, obtained, closer>>

\* Mutant: the supervisor does not look at suspended after publishing.
CheckSuspendedSkipped ==
    /\ sup.pc = "checkSuspended"
    /\ sup' = Goto("run")
    /\ UNCHANGED <<client, context, suspension, config, sess, obtained, events, closer>>

\* A Suspend that came before the publication saw no session to fail.
CheckSuspended ==
    /\ sup.pc = "checkSuspended"
    /\ sess' = IF suspension.on THEN Terminating(sup.session, "suspended") ELSE sess
    /\ sup' = Goto("run")
    /\ UNCHANGED <<client, context, suspension, config, obtained, events, closer>>

\* The established tunnel ends, by itself or with the supervisor's context.
TunnelEnds ==
    /\ sup.pc = "run"
    /\ \/ context = "done" /\ Keep(Closing("ended", "nil"))
       \/ sess[sup.session].st = "dead" /\ Keep(Closing("ended", sess[sup.session].err))
    /\ UNCHANGED <<suspension, config, sess, events, closer>>

\* Mutant: Close does not wait for the workers.
CloseSessionUnjoined ==
    /\ sup.pc = "closing"
    /\ IF Alive(sup.session)
       THEN sess' = Terminating(sup.session, "nil") /\ UNCHANGED sup
       ELSE sess[sup.session].st = "dead" /\ sup' = Goto("clear") /\ UNCHANGED sess
    /\ UNCHANGED <<client, context, suspension, config, obtained, events, closer>>

\* session.Close(): terminate, then wait for the workers.
CloseSession ==
    /\ sup.pc = "closing"
    /\ IF Alive(sup.session)
       THEN sess' = Terminating(sup.session, "nil") /\ UNCHANGED sup
       ELSE Ended(sup.session) /\ sup' = Goto("clear") /\ UNCHANGED sess
    /\ UNCHANGED <<client, context, suspension, config, obtained, events, closer>>

ClearSession ==
    /\ sup.pc = "clear"
    /\ client' = ClearCurrentSession(client, sup.session)
    /\ sess' = [sess EXCEPT ![sup.session].err = "nil", ![sup.session].version = 0]
    /\ IF sup.after = "unpublished"
       THEN sup' = Exit /\ CloseObtained
       ELSE sup' = Goto("decide") /\ UNCHANGED obtained
    /\ UNCHANGED <<context, suspension, config, events, closer>>

\* What follows a failed Start().
DecideStartFailed ==
    /\ sup.pc = "decide" /\ sup.after = "startFailed"
    /\ CASE sup.err = "rekey"     -> Keep(Rekey)
         [] sup.err = "rejected"  -> Discard(Reauthenticate(RetryLater))
         [] sup.err = "retryAuth" -> Discard(Reauthenticate(RetryNow))
         [] sup.err = "terminal"  -> Fail("failed")
         [] OTHER                 -> Keep(RetryLater)
    /\ UNCHANGED <<suspension, config, sess, events, closer>>

\* The tunnel was lost: reconnect at once, within the reconnect timeout.
Reconnect == [RetryNow EXCEPT !.reconnecting = TRUE, !.remaining = ReconnectTimeout,
                              !.waited = 0]

\* What follows the end of an established tunnel.
DecideEnded ==
    /\ sup.pc = "decide" /\ sup.after = "ended"
    /\ IF Stopping THEN Discard(Exit)
       ELSE IF sup.err = "suspended" \/ suspension.on THEN Keep(RetryNow)
       ELSE CASE sup.err = "rejected"  -> Discard(Reauthenticate(Reconnect))
              [] sup.err = "rekey"     -> Keep(Rekey)
              [] sup.err = "retryAuth" -> Discard(Reauthenticate(RetryNow))
              [] sup.err = "terminal"  -> Fail("failed")
              [] OTHER                 -> Keep(Reconnect)
    /\ UNCHANGED <<suspension, config, sess, events, closer>>

Least(a, b) == IF a < b THEN a ELSE b
NextBackoff(backoff) == Least(backoff * 2, MaximumBackoff)
BackoffWait == IF sup.reconnecting THEN Least(sup.backoff, sup.remaining) ELSE sup.backoff

\* Mutant: the time waited is not taken off the budget.
BackoffUncharged ==
    /\ sup.pc = "backoff"
    /\ IF sup.reconnecting /\ sup.remaining <= 0
       THEN Fail("reconnectTimeout")
       ELSE \/ Keep([sup EXCEPT !.pc = "loop", !.backoff = NextBackoff(@),
                                !.waited = @ + IF sup.reconnecting THEN BackoffWait ELSE 0])
            \/ context = "done" /\ Discard(Exit)
    /\ UNCHANGED <<suspension, config, sess, events, closer>>

\* waitClientReconnectBackoff: the budget is spent, or the timer fires, or the
\* context ends first.
Backoff ==
    /\ sup.pc = "backoff"
    /\ IF sup.reconnecting /\ sup.remaining <= 0
       THEN Fail("reconnectTimeout")
       ELSE \/ LET spent == IF sup.reconnecting THEN BackoffWait ELSE 0 IN
               Keep([sup EXCEPT !.pc = "loop", !.backoff = NextBackoff(@),
                                !.remaining = @ - spent, !.waited = @ + spent])
            \/ context = "done" /\ Discard(Exit)
    /\ UNCHANGED <<suspension, config, sess, events, closer>>

\* The deferred closeSupervisorState and close(supervisorDone).
SupervisorReturns ==
    /\ sup.pc = "exit"
    /\ client' = CloseSupervisorState(client)
    /\ sup' = Goto("done")
    /\ UNCHANGED <<context, suspension, config, sess, obtained, events, closer>>

SupervisorStep ==
    \/ Loop \/ WaitResumed \/ ConnectTunnel
    \/ SetCurrent \/ StartSession \/ StartReturns
    \/ ReadConfiguration \/ SetConfiguration \/ Publish \/ Announce \/ CheckSuspended
    \/ TunnelEnds \/ CloseSession \/ ClearSession \/ DecideStartFailed \/ DecideEnded
    \/ Backoff \/ SupervisorReturns

----------------------------------------------------------------------------
(* The event dispatcher.  A failing callback stops the client: the error is  *)
(* recorded, the supervisor's context is cancelled, and the session that was *)
(* current fails.                                                            *)

DispatchEvent ==
    /\ events.pc = "idle" /\ ~events.stopped
    /\ events.queue # << >>
    /\ events' = [events EXCEPT !.pc = "callback", !.queue = Tail(@)]
    /\ UNCHANGED <<client, context, suspension, config, sup, sess, obtained, closer>>

CallbackSucceeds ==
    /\ events.pc = "callback"
    /\ events' = [events EXCEPT !.pc = "idle"]
    /\ UNCHANGED <<client, context, suspension, config, sup, sess, obtained, closer>>

CallbackFails ==
    /\ events.pc = "callback"
    /\ events' = [events EXCEPT !.pc = "failed", !.stopped = TRUE, !.queue = << >>,
                                !.session = client.currentSession]
    /\ UNCHANGED <<client, context, suspension, config, sup, sess, obtained, closer>>

DispatcherSetsError ==
    /\ events.pc = "failed"
    /\ client' = SetTerminalError(client, "failed")
    /\ events' = [events EXCEPT !.pc = "stopped"]
    /\ UNCHANGED <<context, suspension, config, sup, sess, obtained, closer>>

\* setTerminalError cancels, unless it found the client closed and recorded
\* nothing.
DispatcherFailsSession ==
    /\ events.pc = "stopped"
    /\ context' = IF client.terminalError = "none" THEN context ELSE "done"
    /\ sess' = Terminating(events.session, "terminal")
    /\ events' = [events EXCEPT !.pc = "ended", !.session = NoSession]
    /\ UNCHANGED <<client, suspension, config, sup, obtained, closer>>

DispatcherReturns ==
    /\ Subscribed /\ context # "none"
    /\ events.pc = "idle" /\ events.stopped
    /\ events' = [events EXCEPT !.pc = "ended", !.queue = << >>]
    /\ UNCHANGED <<client, context, suspension, config, sup, sess, obtained, closer>>

DispatcherStep ==
    DispatchEvent \/ DispatcherSetsError \/ DispatcherFailsSession \/ DispatcherReturns

----------------------------------------------------------------------------
(* Calls of the application. *)

Start ==
    /\ context = "none"
    /\ ~client.closed
    /\ context' = "live"
    /\ sup' = Goto("loop")
    /\ UNCHANGED <<client, suspension, config, sess, obtained, events, closer>>

\* RestartSession fails the session it finds current; between its look and
\* the Fail that session cannot stop being current without having ended.
RestartSession ==
    /\ Alive(client.currentSession)
    /\ sess' = Terminating(client.currentSession, "retry")
    /\ UNCHANGED <<client, context, suspension, config, sup, obtained, events, closer>>

\* Mutant: Suspend leaves the published session alone.
SuspendSparesSession ==
    /\ ~suspension.on
    /\ ~client.closed
    /\ suspension.calls < MaxSuspends
    /\ suspension' = [suspension EXCEPT !.on = TRUE, !.calls = @ + 1]
    /\ UNCHANGED <<client, context, config, sup, sess, obtained, events, closer>>

\* Suspend captures the published session, and fails it after unlocking.
Suspend ==
    /\ ~suspension.on
    /\ ~client.closed
    /\ suspension.calls < MaxSuspends
    /\ suspension' = [suspension EXCEPT !.on = TRUE, !.calls = @ + 1,
                         !.failing = @ \cup ({client.publishedSession} \ {NoSession})]
    /\ UNCHANGED <<client, context, config, sup, sess, obtained, events, closer>>

SuspendFailsSession(s) ==
    /\ s \in suspension.failing
    /\ suspension' = [suspension EXCEPT !.failing = @ \ {s}]
    /\ sess' = Terminating(s, "suspended")
    /\ UNCHANGED <<client, context, config, sup, obtained, events, closer>>

Resume ==
    /\ suspension.on
    /\ suspension' = [suspension EXCEPT !.on = FALSE, !.resumed = suspension.calls]
    /\ UNCHANGED <<client, context, config, sup, sess, obtained, events, closer>>

\* The application ends options.Context, the parent of the supervisor's.
ParentCancelled ==
    /\ context = "live"
    /\ context' = "done"
    /\ UNCHANGED <<client, suspension, config, sup, sess, obtained, events, closer>>

----------------------------------------------------------------------------
(* Close. *)

CloseBegins ==
    /\ closer.pc = "idle"
    /\ client' = MarkClosed(client)
    /\ context' = IF context = "none" THEN "none" ELSE "done"
    /\ closer' = [pc |-> "stop", session |-> client.currentSession]
    /\ UNCHANGED <<suspension, config, sup, sess, obtained, events>>

CloseStopsEvents ==
    /\ closer.pc = "stop"
    /\ events' = [events EXCEPT !.stopped = TRUE, !.queue = << >>]
    /\ closer' = [closer EXCEPT !.pc = "session"]
    /\ UNCHANGED <<client, context, suspension, config, sup, sess, obtained>>

CloseClosesSession ==
    /\ closer.pc = "session"
    /\ IF Alive(closer.session)
       THEN sess' = Terminating(closer.session, "nil") /\ UNCHANGED closer
       ELSE /\ closer.session # NoSession => Ended(closer.session)
            /\ closer' = [closer EXCEPT !.pc = "supervisor"]
            /\ UNCHANGED sess
    /\ UNCHANGED <<client, context, suspension, config, sup, obtained, events>>

CloseReturns ==
    /\ closer.pc = "supervisor"
    /\ context # "none" => sup.pc = "done"
    /\ closer' = [closer EXCEPT !.pc = "done"]
    /\ UNCHANGED <<client, context, suspension, config, sup, sess, obtained, events>>

CloserStep == CloseStopsEvents \/ CloseClosesSession \/ CloseReturns

\* Nothing is left to do after Close.
Finished == closer.pc = "done" /\ UNCHANGED vars

----------------------------------------------------------------------------
Application ==
    \/ Start \/ RestartSession \/ Suspend \/ Resume \/ ParentCancelled \/ CloseBegins
    \/ \E s \in Sessions : SuspendFailsSession(s)

Fails == \E err \in Failures : ObtainSessionFails(err) \/ ConnectTunnelFails(err) \/ StartFails(err)

Environment ==
    \/ Fails \/ ObtainSession
    \/ CallbackSucceeds \/ CallbackFails
    \/ \E s \in Sessions : SessionFails(s) \/ WorkerSetsTransport(s) \/ WorkerReconfigures(s)

Next ==
    \/ SupervisorStep \/ DispatcherStep \/ CloserStep
    \/ \E s \in Sessions : FinishTerminate(s) \/ WorkerProceeds(s)
    \/ Application \/ Environment
    \/ Finished

Spec == Init /\ [][Next]_vars

\* Goroutines that are not blocked keep running.  Calls that take the
\* supervisor's context return once it is done; before that authentication may
\* wait for its user for ever.
Fairness ==
    /\ WF_vars(SupervisorStep)
    /\ WF_vars(context = "done" /\ Fails)
    /\ WF_vars(DispatcherStep)
    /\ WF_vars(CloserStep)
    /\ \A s \in Sessions :
          WF_vars(FinishTerminate(s)) /\ WF_vars(WorkerProceeds(s)) /\ WF_vars(SuspendFailsSession(s))

FairSpec == Spec /\ Fairness

----------------------------------------------------------------------------
(* Properties. *)

\* At most one tunnel session is not over, and the supervisor knows it; at most
\* one authentication is open, the one the supervisor holds; a supervisor that
\* returned left neither behind.  A retry path that forgets to close what it
\* replaces breaks this.
NothingLeaks ==
    /\ \A s \in Sessions : sess[s].st = "none" \/ Ended(s) \/ s = sup.session
    /\ obtained.open \subseteq {sup.state}
    /\ sup.pc = "done" => \A s \in Sessions : sess[s].st = "none" \/ Ended(s)

\* The transport reported to the application belongs to the current session,
\* which is not over, of a client that neither failed nor closed: a worker's
\* late setActiveTransport cannot revive it.
TransportIsLive ==
    client.activeTransport # NoTransport =>
        /\ client.transportSession = client.currentSession
        /\ client.currentSession # NoSession
        /\ sess[client.currentSession].st \in {"started", "dying"}
        /\ ~client.closed
        /\ client.terminalError = "none"

\* The published revision is a configuration of the published session: no
\* worker of an earlier session can raise it.
PublishedRevisionIsOwn ==
    client.publishedSession # NoSession =>
        config.owners[client.publishedRevision] = client.publishedSession

\* While the client is suspended no established session keeps running, apart
\* from one a Suspend call is about to fail, whatever the order of Suspend,
\* Resume and the publication of the session.
SuspendedMeansFailing ==
    (suspension.on /\ sup.pc = "run") =>
        ~Alive(sup.session) \/ sup.session \in suspension.failing

\* The backoff spent since an established tunnel was lost and the remaining
\* budget add up to the reconnect timeout, and the client gives up for that
\* reason exactly when all of it is spent.
ReconnectBudget ==
    /\ sup.reconnecting => sup.waited + sup.remaining = ReconnectTimeout
    /\ client.terminalError = "reconnectTimeout" => sup.waited = ReconnectTimeout

\* A pending rekey belongs to the authentication it was requested on, which is
\* still held: no new authentication is announced as a rekey.
RekeyKeepsAuthentication ==
    sup.pendingRekey => sup.rekeyOf # 0 /\ sup.state \in {sup.rekeyOf, 0}

\* Close returns, whatever the supervisor, the session's workers, a callback
\* or a pending Suspend were doing.
CloseCompletes == closer.pc # "idle" ~> closer.pc = "done"

\* Suspending takes effect: sooner or later no session is usable, or the
\* client was resumed.
SuspendTakesEffect ==
    suspension.on ~> (~suspension.on \/ \A s \in Sessions : ~sess[s].ready)

----------------------------------------------------------------------------
(* Two statements of the repository the code does not keep. *)

\* A client is closed only because the application closed it or ended its
\* context; a tunnel that drops is reconnected (the interoperability test
\* expects "reestablishment" after an ordinary disconnect, and
\* ppp_session.go:278 asks for a reconnection "instead of permanently stopping
\* the client").  The code closes the client when the session drops between
\* Start() and publishCurrentSession.
ClosedOnlyOnRequest == client.closed => closer.pc # "idle" \/ context = "done"

\* The revision of a ready session is the revision of the client's
\* configuration, once nobody is in the middle of publishing one
\* (WaitReadyRevision "returns its configuration revision").  A worker that
\* publishes between Start() and publishCurrentSession leaves them different.
ReadyRevisionIsCurrent ==
    (/\ client.currentSession # NoSession
     /\ ReadySession(client, sess[client.currentSession].ready)
     /\ sup.pc = "run"
     /\ sess[client.currentSession].worker = "idle")
        => client.publishedRevision = config.revision
=============================================================================
